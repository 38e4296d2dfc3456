------------------------- MODULE OwnershipExecution -------------------------
(***************************************************************************)
(* The reference interpreter (src/src/interpreter.c) on the same bodies, as  *)
(* far as its locals go: Exec gives every outcome of an expression over all  *)
(* values of its conditions and patterns.                                    *)
(*                                                                           *)
(* holes are the places whose slot is empty; a registered local that is not  *)
(* bound is a hole itself.  Three fields are not the interpreter's, they are *)
(* what the ownership rules are about: region is the number of explicit      *)
(* regions being executed, born the region in which the value of a place was *)
(* produced, and pins the places lent to a call or handler in progress.      *)
(***************************************************************************)
EXTENDS OwnershipAnalysis, FiniteSetsExt

Leaf == {p \in Place : ~\E q \in Place : IsStrictPrefix(p, q)}

LeavesOf(p) == {q \in Leaf : IsPrefix(p, q)}

Frame == [registered |-> Parameter, holes |-> {}, born |-> [p \in Leaf |-> 0],
          region |-> 0, pins |-> << >>]

(* A Flow: a value, a jump, the program's own failure ("error") or one of    *)
(* the faults the interpreter reports as a broken invariant.                 *)
Outcome(m, flow, born) == [m |-> m, flow |-> flow, born |-> born]
Copied(m) == Outcome(m, "value", 0)
Fail(m, flow) == {Outcome(m, flow, 0)}

Then(outcomes, Next(_)) ==
    UNION {IF o.flow = "value" THEN Next(o) ELSE {o} : o \in outcomes}

-----------------------------------------------------------------------------
(* Locals and places.                                                        *)

(* lookup_local, local_place_slot and the shape check of a clone.            *)
Intact(m, p) == p[1] \in m.registered /\ ~\E q \in m.holes : paths_overlap(p, q)

Pinned(m, p) == \E i \in DOMAIN m.pins : paths_overlap(p, m.pins[i])

BornOf(m, p) == Max({m.born[q] : q \in LeavesOf(p)})

Fill(m, p, born) ==
    [m EXCEPT !.holes = {q \in @ : ~IsPrefix(p, q)},
              !.born = [q \in Leaf |-> IF IsPrefix(p, q) THEN born ELSE @[q]]]

bind_local(m, l, born) ==
    IF l \in m.registered THEN Fail(m, "duplicate")
    ELSE {Copied(Fill([m EXCEPT !.registered = @ \cup {l}], <<l>>, born))}

declare_local(m, l) ==
    IF l \in m.registered THEN Fail(m, "duplicate")
    ELSE {Copied([m EXCEPT !.registered = @ \cup {l}, !.holes = @ \cup {<<l>>}])}

cleanup_slice(m, locals) ==
    [m EXCEPT !.registered = @ \ locals, !.holes = clear_local_paths(@, locals)]

CleanedUp(outcomes, locals) ==
    {[o EXCEPT !.m = cleanup_slice(@, locals)] : o \in outcomes}

ReadPlace(m, p) ==
    IF ~Intact(m, p) THEN Fail(m, "unbound")
    ELSE IF p \in CopyPlace THEN {Copied(m)}
    ELSE IF Pinned(m, p) THEN Fail(m, "loan")
    ELSE {Outcome([m EXCEPT !.holes = @ \cup {p}], "value", BornOf(m, p))}

(* update_local and update_place.                                            *)
update_place(m, p, born) ==
    IF \/ p[1] \notin m.registered
       \/ \E q \in m.holes : IsStrictPrefix(q, p)
      THEN Fail(m, "ancestor")
    ELSE IF Pinned(m, p) THEN Fail(m, "loan")
    ELSE {Copied(Fill(m, p, born))}

-----------------------------------------------------------------------------
(* Calls.                                                                    *)

RECURSIVE evaluate(_, _)

(* A borrowed operand is cloned and its place is lent until the call ends.   *)
EvaluateOperand(m, operand) ==
    IF operand.access = "owned" THEN evaluate(m, operand.e)
    ELSE IF ~Intact(m, operand.e.p) THEN Fail(m, "unbound")
    ELSE {Copied([m EXCEPT !.pins = Append(@, operand.e.p)])}

EvaluateOperands(m, operands) ==
    FoldLeft(LAMBDA outs, operand : Then(outs, LAMBDA o : EvaluateOperand(o.m, operand)),
             {Copied(m)}, operands)

(* The values of the exclusive operands are written back in order; a value   *)
(* the callee left there was produced in the caller's region.  No other loan *)
(* in progress may cover the place.                                          *)
WriteBack(m, operand) ==
    LET other == SelectInSeq(m.pins, LAMBDA p : p = operand.e.p)
        unpinned == [m EXCEPT !.pins = RemoveAt(@, other)] IN
    IF operand.access # "exclusive" THEN {Copied(m)}
    ELSE {[o EXCEPT !.m.pins = m.pins] : o \in update_place(unpinned, operand.e.p, m.region)}

evaluate_call(m, operands) ==
    LET ready == EvaluateOperands(m, operands)
        written == FoldLeft(LAMBDA outs, operand : Then(outs, LAMBDA o : WriteBack(o.m, operand)),
                            ready, operands) IN
    {[o EXCEPT !.m.pins = m.pins, !.born = IF o.flow = "value" THEN 0 ELSE @] : o \in written}

EvaluateHandle(m, e) ==
    {[o EXCEPT !.m.pins = m.pins] :
        o \in Then(EvaluateOperands(m, e.operands), LAMBDA o : evaluate(o.m, e.body))}

-----------------------------------------------------------------------------
(* Control.                                                                  *)

(* The arms of an exhaustive match in order: a pattern may match or not, a   *)
(* guard may hold or not.  The last arm is not passed over.                  *)
RECURSIVE EvaluateArms(_, _, _)
EvaluateArms(m, born, arms) ==
    LET arm == Head(arms)
        bind == FoldSet(LAMBDA l, outs : Then(outs, LAMBDA o : bind_local(o.m, l, born)),
                        {Copied(m)}, arm.locals)
        guard == Then(bind, LAMBDA o : evaluate(o.m, arm.guard))
        body == Then(guard, LAMBDA o : evaluate(o.m, arm.body))
        passed == IF arm.guard.op = "none" THEN {}
                  ELSE {cleanup_slice(o.m, arm.locals) : o \in {g \in guard : g.flow = "value"}} IN
    IF arms = << >> THEN {}
    ELSE CleanedUp(body, arm.locals)
           \cup UNION {EvaluateArms(n, born, Tail(arms)) : n \in passed \cup {m}}

EvaluateRequire(m, s) ==
    Then(evaluate(m, s.condition),
         LAMBDA o : {o} \cup {IF f.flow = "value" THEN [f EXCEPT !.flow = "fallback"] ELSE f :
                                f \in evaluate(o.m, s.fallback)})

(* One turn of a loop: the body's normal end and continue go round again.    *)
LoopTurn(m, s) ==
    LET condition == evaluate(m, s.condition)
        left == IF s.op = "while" THEN {o \in condition : o.flow = "value"} ELSE {}
        body == Then(condition, LAMBDA o : evaluate(o.m, s.body)) IN
    [again |-> {o.m : o \in {b \in body : b.flow \in {"value", "continue"}}},
     exits |-> left \cup {o \in body : o.flow \notin {"value", "continue"}}]

RECURSIVE LoopHeads(_, _)
LoopHeads(heads, s) ==
    LET all == heads \cup UNION {LoopTurn(m, s).again : m \in heads} IN
    IF all = heads THEN heads ELSE LoopHeads(all, s)

LoopExit(o) == IF o.flow = "break" THEN Copied(o.m) ELSE o

EvaluateLoop(m, s) ==
    {LoopExit(o) : o \in UNION {LoopTurn(h, s).exits : h \in LoopHeads({m}, s)}}

(* What was produced in a region must not be reachable after it.             *)
LeaveRegion(o, region) ==
    IF /\ o.flow \in {"value", "break", "continue", "return"}
       /\ \/ o.born > region
          \/ \E p \in Leaf \ CopyPlace : Intact(o.m, p) /\ o.m.born[p] > region
      THEN [o EXCEPT !.flow = "region", !.m.region = region]
    ELSE [o EXCEPT !.m.region = region]

EvaluateAssignment(m, s) ==
    IF s.compound /\ ~Intact(m, s.p) THEN Fail(m, "unbound")
    ELSE Then(evaluate(m, s.e), LAMBDA o : update_place(o.m, s.p, o.born))

evaluate_block(m, e) ==
    CleanedUp(FoldLeft(LAMBDA outs, s : Then(outs, LAMBDA o : evaluate(o.m, s)),
                       {Copied(m)}, e.statements),
              e.cleanup)

evaluate(m, e) ==
    CASE e.op = "new" -> {Outcome(m, "value", m.region)}
      [] e.op \in {"never", "panic", "unreachable"} -> Fail(m, "error")
      [] e.op = "place" -> ReadPlace(m, e.p)
      [] e.op = "call" -> evaluate_call(m, e.operands)
      [] e.op = "and" -> Then(evaluate(m, e.left), LAMBDA o : {o} \cup evaluate(o.m, e.right))
      [] e.op = "if" -> Then(evaluate(m, e.condition),
                             LAMBDA o : evaluate(o.m, e.then) \cup evaluate(o.m, e.otherwise))
      [] e.op = "match" -> Then(evaluate(m, e.scrutinee),
                                LAMBDA o : EvaluateArms(o.m, o.born, e.arms))
      [] e.op = "block" -> evaluate_block(m, e)
      [] e.op = "propagate" -> Then(evaluate(m, e.operand),
                                    LAMBDA o : {o, [o EXCEPT !.flow = "return",
                                                             !.born = IF e.affine THEN @ ELSE 0]})
      [] e.op = "handle" -> EvaluateHandle(m, e)
      [] e.op = "let" -> Then(evaluate(m, e.e), LAMBDA o : bind_local(o.m, e.local, o.born))
      [] e.op = "declare" -> declare_local(m, e.local)
      [] e.op = "assign" -> EvaluateAssignment(m, e)
      [] e.op = "modify" -> evaluate(m, e.body)
      [] e.op \in {"loop", "while"} -> EvaluateLoop(m, e)
      [] e.op = "require" -> EvaluateRequire(m, e)
      [] e.op \in {"break", "continue"} -> Fail(m, e.op)
      [] e.op = "return" -> Then(evaluate(m, e.e), LAMBDA o : {[o EXCEPT !.flow = "return"]})
      [] e.op = "region" -> {LeaveRegion(o, m.region) :
                                o \in evaluate([m EXCEPT !.region = @ + 1], e.body)}
      [] OTHER -> {Copied(m)}
=============================================================================
