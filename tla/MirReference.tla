---------------------------- MODULE MirReference ----------------------------
(***************************************************************************)
(* The reference interpreter (src/src/interpreter.c) on one callable: its    *)
(* result for given outcomes of the open computations.  flow is the Flow of  *)
(* the last evaluation and value its value; outcome is its diagnostic.       *)
(***************************************************************************)
EXTENDS MirRuntime

Value(r, value) == [r EXCEPT !.flow = "value", !.value = value]
Failed(r, outcome) == [r EXCEPT !.flow = "error", !.outcome = outcome]

declare_local(r, local) ==
    IF local \in r.registered THEN Failed(r, "fault") ELSE Register(r, local)

(* bind_local after declare_local.                                           *)
Bind(r, local, value) ==
    LET declared == declare_local(r, local) IN
    IF declared.flow = "error" THEN declared ELSE Put(declared, <<local>>, value)

cleanup_local(r, local) ==
    IF Bound(r, local) THEN Unbind(Observe(r, local), local) ELSE r

cleanup_binding(r, local) ==
    LET cleaned == cleanup_local(r, local) IN
    IF local \in r.registered THEN Unregister(cleaned, local) ELSE cleaned

CleanupAll(r, locals) == FoldLeft(cleanup_binding, r, locals)

update_place(r, p, value) ==
    LET observed == IF Filled(r, p) THEN Observe(r, p[1]) ELSE r IN
    IF IF Whole(p) THEN p[1] \in r.registered ELSE HasSlot(r, p)
    THEN Put(observed, p, value)
    ELSE Failed(r, "fault")

-----------------------------------------------------------------------------
RECURSIVE evaluate(_, _)

(* A place is moved out of unless it is copied or lent.                      *)
EvaluatePlace(r, p, moved) ==
    IF ~Filled(r, p) \/ (~moved /\ ~Complete(Read(r, p))) THEN Failed(r, "fault")
    ELSE Value(IF moved THEN Take(r, p) ELSE r, Read(r, p))

(* The operands from left to right, up to one that does not give a value.    *)
RECURSIVE EvaluateOperands(_, _, _)
EvaluateOperands(r, operands, arguments) ==
    LET operand == Head(operands)
        add(next) == EvaluateOperands(next, Tail(operands), Append(arguments, next.value)) IN
    IF r.flow # "value" \/ operands = << >> THEN [r |-> r, arguments |-> arguments]
    ELSE IF operand.access = "owned" THEN add(evaluate(r, operand.e))
    ELSE add(EvaluatePlace(r, operand.e.p, FALSE))

(* The callee's exclusive results go to the places they were lent from.      *)
UpdateOperands(r, operands, arguments) ==
    LET step(q, i) ==
          IF q.flow # "value" \/ operands[i].access # "exclusive" THEN q
          ELSE update_place(Renew(q, 1), operands[i].e.p, Similar(arguments[i], q.fresh)) IN
    FoldLeft(step, r, [i \in DOMAIN operands |-> i])

Invoke(r, e, operands, arguments, never) ==
    LET called == Report(r, <<"call", e.id, arguments, r.handlers>>)
        done == Value(Renew(Asked(called), 1), Scalar(r.fresh)) IN
    IF never THEN Failed(called, "resume_failure")
    ELSE IF ~Ask(r) THEN Failed(Asked(called), "resume_failure")
    ELSE UpdateOperands(done, operands, arguments)

evaluate_call(r, e) ==
    LET acc == EvaluateOperands(r, e.operands, << >>) IN
    IF acc.r.flow # "value" THEN acc.r
    ELSE CASE e.kind = "construct" -> Value(acc.r, Record(acc.arguments))
           [] e.kind = "refined" ->
                IF Ask(acc.r) THEN Value(Asked(acc.r), acc.arguments[1])
                ELSE Failed(Asked(acc.r), "resume_failure")
           [] e.kind = "function" -> Invoke(acc.r, e, e.operands, acc.arguments, FALSE)

(* The arms from the i-th on.                                                *)
RECURSIVE EvaluateArms(_, _, _, _)
EvaluateArms(r, arms, i, scrutinee) ==
    LET arm == arms[i]
        leaves == Len(arm.bindings)
        leaf(k) == IF leaves = 1 THEN scrutinee ELSE Scalar(scrutinee[<<"f", "n">>[k]])
        bind(q, k) == IF q.flow = "error" THEN q ELSE Bind(q, arm.bindings[k], leaf(k))
        bound == FoldLeft(bind, Asked(r), [k \in 1..leaves |-> k])
        cleanup(q) == CleanupAll(q, Reverse(arm.bindings))
        guard == IF arm.guard.op = "none" THEN Value(bound, True) ELSE evaluate(bound, arm.guard) IN
    IF i > Len(arms) THEN Failed(r, "match_failure")
    ELSE IF ~Ask(r) THEN EvaluateArms(Asked(r), arms, i + 1, scrutinee)
    ELSE IF bound.flow = "error" THEN cleanup(bound)
    ELSE IF guard.flow # "value" THEN cleanup(guard)
    ELSE IF guard.value # True THEN EvaluateArms(cleanup(guard), arms, i + 1, scrutinee)
    ELSE cleanup(evaluate(guard, arm.body))

EvaluateMatch(r, e) ==
    LET scrutinee == evaluate(r, e.scrutinee) IN
    IF scrutinee.flow # "value" THEN scrutinee
    ELSE EvaluateArms(scrutinee, e.arms, 1, scrutinee.value)

EvaluateHandle(r, e) ==
    LET acc == EvaluateOperands(r, e.operands, << >>) IN
    IF acc.r.flow # "value" THEN acc.r
    ELSE [evaluate([acc.r EXCEPT !.handlers = Append(@, e.id)], e.body)
            EXCEPT !.handlers = r.handlers]

EvaluatePropagate(r, e) ==
    LET operand == evaluate(r, e.operand) IN
    IF operand.flow # "value" THEN operand
    ELSE IF Ask(operand) THEN Asked(operand)
    ELSE [Asked(operand) EXCEPT !.flow = "return"]

-----------------------------------------------------------------------------
(* Statements.                                                               *)

RECURSIVE EvaluateLoop(_, _)
EvaluateLoop(r, s) ==
    LET condition == IF s.op = "while" THEN evaluate(r, s.condition) ELSE Value(r, True)
        body == evaluate(condition, s.body) IN
    CASE condition.flow = "break" -> Value(condition, Unit)
      [] condition.flow = "continue" -> EvaluateLoop(condition, s)
      [] condition.flow \in {"return", "error"} -> condition
      [] condition.value # True -> Value(condition, Unit)
      [] body.flow = "break" -> Value(body, Unit)
      [] body.flow \in {"continue", "value"} -> EvaluateLoop(Value(body, Unit), s)
      [] OTHER -> body

EvaluateRequire(r, s) ==
    LET condition == evaluate(r, s.condition)
        fallback == evaluate(condition, s.fallback) IN
    IF condition.flow # "value" \/ condition.value = True THEN condition
    ELSE IF fallback.flow = "value" THEN Failed(fallback, "fault")
    ELSE fallback

EvaluateAssignment(r, s) ==
    LET value == evaluate(r, s.e)
        answered == Asked(value) IN
    IF s.compound /\ ~Filled(r, s.p) THEN Failed(r, "fault")
    ELSE IF value.flow # "value" THEN value
    ELSE IF ~s.compound THEN update_place(value, s.p, value.value)
    ELSE IF Ask(value) THEN update_place(Renew(answered, 1), s.p, Scalar(value.fresh))
    ELSE Failed(answered, "overflow")

EvaluateStatement(r, s) ==
    CASE s.op = "let" ->
           LET value == evaluate(r, s.e) IN
           IF value.flow # "value" THEN value ELSE Bind(value, s.local, value.value)
      [] s.op = "declare" -> declare_local(r, s.local)
      [] s.op = "assign" -> EvaluateAssignment(r, s)
      [] s.op = "return" ->
           LET value == evaluate(r, s.e) IN
           IF value.flow = "value" THEN [value EXCEPT !.flow = "return"] ELSE value
      [] s.op \in {"panic", "unreachable"} -> Failed(r, s.op)
      [] s.op \in {"break", "continue"} -> [r EXCEPT !.flow = s.op]
      [] s.op \in {"while", "loop"} -> EvaluateLoop(r, s)
      [] s.op = "require" -> EvaluateRequire(r, s)
      [] s.op \in {"region", "modify"} -> evaluate(r, s.body)
      [] OTHER -> evaluate(r, s)

(* What a statement that completed makes of the block's value.               *)
LastValue(last, s, value) ==
    CASE s.op \in {"let", "declare"} -> last
      [] s.op \in {"assign", "while", "loop", "require", "modify"} -> Unit
      [] OTHER -> value

(* The statements from the first one on; last is the block's value so far.   *)
RECURSIVE EvaluateStatements(_, _, _)
EvaluateStatements(r, statements, last) ==
    LET next(q) == EvaluateStatements(q, Tail(statements),
                     IF q.flow = "value" THEN LastValue(last, Head(statements), q.value)
                     ELSE q.value) IN
    IF r.flow # "value" \/ statements = << >> THEN [r EXCEPT !.value = last]
    ELSE next(EvaluateStatement(r, Head(statements)))

evaluate_block(r, e) ==
    LET declared == SelectSeq(e.statements, LAMBDA s : s.op \in {"let", "declare"})
        cleanup == [i \in DOMAIN declared |-> declared[i].local] IN
    CleanupAll(EvaluateStatements(Value(r, Unit), e.statements, Unit), Reverse(cleanup))

evaluate(r, e) ==
    CASE e.op = "lit" -> Value(r, Unit)
      [] e.op = "test" -> Value(Asked(r), Truth(Ask(r)))
      [] e.op = "new" -> Value(Renew(r, 1), Scalar(r.fresh))
      [] e.op = "never" -> Invoke(r, e, << >>, << >>, TRUE)
      [] e.op = "place" -> EvaluatePlace(r, e.p, e.p \notin CopyPlace)
      [] e.op = "call" -> evaluate_call(r, e)
      [] e.op = "and" ->
           LET left == evaluate(r, e.left) IN
           IF left.flow # "value" \/ left.value # True THEN left ELSE evaluate(left, e.right)
      [] e.op = "if" ->
           LET condition == evaluate(r, e.condition) IN
           IF condition.flow # "value" THEN condition
           ELSE evaluate(condition, IF condition.value = True THEN e.then ELSE e.otherwise)
      [] e.op = "match" -> EvaluateMatch(r, e)
      [] e.op = "handle" -> EvaluateHandle(r, e)
      [] e.op = "propagate" -> EvaluatePropagate(r, e)
      [] e.op = "block" -> evaluate_block(r, e)

-----------------------------------------------------------------------------
(* The callable.                                                             *)

(* Checks of a phase in order, until one fails; evaluate_contract.           *)
CheckContracts(r, phase, n, values) ==
    LET step(q, i) ==
          LET reported == Asked(Report(q, <<"check", <<phase, i>>, values>>)) IN
          IF q.flow = "error" THEN q
          ELSE IF ~Ask(q) THEN Failed(reported, "resume_failure")
          ELSE IF Ask(reported) THEN Asked(reported)
          ELSE Failed(Asked(reported), "contract_violation") IN
    FoldLeft(step, r, [i \in 1..n |-> i])

capture_contract_snapshots(r, n) ==
    [r EXCEPT !.trace = @ \o [i \in 1..n |-> <<"snapshot", i>>]]

invoke(callable, oracle) ==
    LET exclusive == {l \in ToSet(callable.parameters) : Access[l] = "exclusive"}
        ensure(body) ==
          IF body.flow = "error" THEN body
          ELSE IF ~Complete(body.value) THEN Failed(body, "fault")
          ELSE CheckContracts(body, "ensures", callable.ensures, <<body.value>>)
        run(r) ==
          IF r.flow = "error" THEN r
          ELSE ensure(evaluate(capture_contract_snapshots(r, callable.snapshots), callable.body))
        settle(r) ==
          IF r.flow # "error" /\ ~(exclusive \subseteq DOMAIN r.locals) THEN Failed(r, "fault")
          ELSE r
        release(r) ==
          [FoldLeft(cleanup_local, r, Reverse(r.order))
             EXCEPT !.locals = << >>, !.order = << >>, !.registered = {}]
        return(r) ==
          IF r.flow = "error" THEN release(r) @@ [writebacks |-> << >>]
          ELSE release([r EXCEPT !.locals = Restrict(@, DOMAIN @ \ exclusive)])
                 @@ [writebacks |-> Restrict(r.locals, exclusive)]
        start == BoundParameters(callable, oracle)
                   @@ [flow |-> "value", value |-> Unit, outcome |-> "return"] IN
    return(settle(run(CheckContracts(start, "requires", callable.requires, << >>))))
=============================================================================
