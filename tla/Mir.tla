-------------------------------- MODULE Mir ---------------------------------
(***************************************************************************)
(* A callable's way from accepted IR through lowering and validation to the  *)
(* MIR evaluator, next to the reference interpreter on the same callable.    *)
(***************************************************************************)
EXTENDS MirEval, MirReference

CONSTANTS Program,          \* names of callables
          CallableOf(_),    \* their resolved and well-typed IR
          Changeable,       \* the programs whose MIR a caller may change
          MaxDecisions      \* open outcomes followed on one path

VARIABLES program,
          stage,        \* "source", "built", "valid", "running", "ended"; or
                        \* "rejected", "unsupported", "failed"
          mir,          \* the MIR, << >> before it is built
          changed,      \* whether a caller changed it
          frame,        \* the evaluator's frame
          decisions     \* the open outcomes so far

vars == <<program, stage, mir, changed, frame, decisions>>

callable == CallableOf(program)

Init ==
    /\ program \in Program
    /\ stage = "source"
    /\ mir = << >>
    /\ changed = FALSE
    /\ frame = << >>
    /\ decisions = << >>

sol_ir_analyze_ownership ==
    /\ stage = "source"
    /\ run_ownership(callable.body).error # "none"
    /\ stage' = "rejected"
    /\ UNCHANGED <<program, mir, changed, frame, decisions>>

(* sol_mir_lower_callable up to its call of the validator.                   *)
Build ==
    /\ stage = "source"
    /\ run_ownership(callable.body).error = "none"
    /\ mir' = sol_mir_lower_callable(callable)
    /\ stage' = IF mir'.status = "lowering" THEN "built" ELSE mir'.status
    /\ UNCHANGED <<program, changed, frame, decisions>>

(* The validator, called by the lowering, and by the evaluator on the MIR    *)
(* that its caller gives it.                                                 *)
Validate ==
    /\ stage = "built"
    /\ stage' = IF sol_mir_validate(mir) THEN "valid" ELSE "failed"
    /\ UNCHANGED <<program, mir, changed, frame, decisions>>

-----------------------------------------------------------------------------
(* What a caller may do to a MIR before it has it evaluated: leave out,      *)
(* repeat or exchange instructions without a result, or retarget an edge.    *)

(* The instructions of block b become s, with shift more before those after  *)
(* position i.                                                               *)
WithCode(b, s, i, shift) ==
    LET moved(v) == v.kind = "instruction" /\ v.block = b /\ v.definition > i IN
    [mir EXCEPT
       !.blocks[b].instructions = s,
       !.values = [k \in DOMAIN mir.values |->
                     LET v == mir.values[k] IN
                     IF moved(v) THEN [v EXCEPT !.definition = v.definition + shift] ELSE v]]

Retargeted(b, i, target) ==
    [mir EXCEPT !.blocks[b].terminator.edges[i].block = target]

Changes ==
    LET code(b) == Code(mir, b)
        effects(b) == {i \in DOMAIN code(b) : code(b)[i].result = 0}
        pairs(b) == {i \in effects(b) : i + 1 \in effects(b) /\ code(b)[i] # code(b)[i + 1]}
        edges(b) == Term(mir, b).edges
        targets(b, i) == {t \in DOMAIN mir.blocks \ {edges(b)[i].block} :
                            Len(mir.blocks[t].parameters) = Len(edges(b)[i].arguments)} IN
    UNION {{WithCode(b, RemoveAt(code(b), i), i, -1) : i \in effects(b)}
             \cup {WithCode(b, InsertAt(code(b), i, code(b)[i]), i, 1) : i \in effects(b)}
             \cup {WithCode(b, ReplaceAt(ReplaceAt(code(b), i, code(b)[i + 1]), i + 1, code(b)[i]),
                            i, 0) : i \in pairs(b)}
             \cup UNION {{Retargeted(b, i, t) : t \in targets(b, i)} : i \in DOMAIN edges(b)}
           : b \in DOMAIN mir.blocks}

Change ==
    /\ stage = "valid"
    /\ program \in Changeable /\ ~changed
    /\ mir' \in Changes
    /\ changed' = TRUE
    /\ stage' = "built"
    /\ UNCHANGED <<program, frame, decisions>>

-----------------------------------------------------------------------------
(* sol_mir_evaluate binds the arguments and executes the callable.           *)
sol_mir_evaluate ==
    /\ stage = "valid"
    /\ stage' = "running"
    /\ frame' = NewFrame(callable, << >>)
    /\ UNCHANGED <<program, mir, changed, decisions>>

(* One turn of the evaluator's loop; answers that are not used are FALSE.    *)
Turn ==
    /\ stage = "running"
    /\ frame.outcome = "none"
    /\ Len(decisions) + Questions(mir, frame.block) <= MaxDecisions
    /\ \E answers \in [1..Questions(mir, frame.block) -> BOOLEAN] :
          LET next == execute_cfg(mir, [frame EXCEPT !.oracle = answers]) IN
          /\ \A i \in DOMAIN answers : i > next.used => ~answers[i]
          /\ decisions' = decisions \o SubSeq(answers, 1, next.used)
          /\ frame' = [next EXCEPT !.oracle = << >>, !.used = 0]
    /\ UNCHANGED <<program, stage, mir, changed>>

Return ==
    /\ stage = "running"
    /\ frame.outcome # "none"
    /\ stage' = "ended"
    /\ frame' = Finish(callable, frame)
    /\ UNCHANGED <<program, mir, changed, decisions>>

Next == sol_ir_analyze_ownership \/ Build \/ Validate \/ Change \/ sol_mir_evaluate \/ Turn \/ Return

Spec == Init /\ [][Next]_vars

-----------------------------------------------------------------------------
(* Properties.                                                               *)

RECURSIVE Parts(_)
Parts(e) ==
    {e} \cup UNION {Parts(Children(e)[i]) : i \in DOMAIN Children(e)}
        \cup IF e.op # "match" THEN {}
             ELSE UNION {(IF Guarded(e.arms[i]) THEN Parts(e.arms[i].guard) ELSE {})
                           \cup Parts(e.arms[i].body) : i \in DOMAIN e.arms}

Keeps(e) ==
    \/ e.op \in {"match", "propagate"}
    \/ e.op = "assign" /\ e.compound
    \/ e.op = "call" /\ \E i \in DOMAIN e.operands : e.operands[i].access = "owned"

(* A match with an arm whose body needs a temporary.                         *)
ArmNeedsTemporary(e) ==
    e.op = "match" /\ \E i \in DOMAIN e.arms : \E s \in Parts(e.arms[i].body) : Keeps(s)

(* A compound assignment whose right side does not complete.                 *)
UpdateDiverges(e) == e.op = "assign" /\ e.compound /\ TypeNever(e.e)

(* A call, propagation or match whose operand does not complete, although    *)
(* its own type is not Never.                                                *)
OperandDiverges(e) ==
    e.op \in {"call", "propagate", "match"} /\ \E i \in DOMAIN Children(e) : TypeNever(Children(e)[i])

(* A region that is never reached, after a statement that does not complete. *)
UnreachedRegion(e) ==
    /\ e.op = "block"
    /\ \E i, j \in DOMAIN e.statements :
          /\ i < j /\ Terminates(e.statements[i])
          /\ \E s \in Parts(e.statements[j]) : s.op = "region"

(* A loop that is left although its body has type Never.                     *)
LeftFromNever(e) == e.op \in {"loop", "while"} /\ TypeNever(e.body) /\ ~Terminates(e)

(* A whole local that gets a new value after it was moved or declared.       *)
Reinitializes(parts) ==
    \E e \in parts :
        /\ e.op = "assign" /\ Whole(e.p)
        /\ \E s \in parts : (s.op = "place" /\ s.p = e.p) \/ (s.op = "declare" /\ s.local = e.p[1])

(* A callable that the ownership analysis accepts is lowered, and the        *)
(* validator accepts what the lowering built, except for the six shapes of  *)
(* source above.                                                             *)
LoweredOrListed ==
    stage = "failed" /\ ~changed =>
      LET parts == Parts(callable.body) IN
      \/ \E e \in parts : \/ ArmNeedsTemporary(e) \/ UpdateDiverges(e)
                          \/ OperandDiverges(e) \/ LeftFromNever(e) \/ UnreachedRegion(e)
      \/ Reinitializes(parts)

(* The fixed points of storage and of moved places are reached within the     *)
(* validator's limits of passes, for any MIR: the limits never reject one.   *)
FixedPointsSettle ==
    stage \in {"valid", "failed"} /\ mir.status = "lowering" =>
      LET storage == StorageFlow(mir)
          paths == PathFlow(mir) IN
      (storage.valid => ~storage.changed) /\ (paths.valid => ~paths.changed)



(* For the same open outcomes the evaluator and the reference interpreter    *)
(* end in the same way, with the same value and inout results, and do the    *)
(* same on the way: calls with the same arguments under the same handlers,   *)
(* contract checks, and drops of owned locals, in the same order.            *)
ExecutorsAgree ==
    stage = "ended" /\ ~changed =>
      LET reference == invoke(callable, decisions) IN
      /\ reference.used = Len(decisions)
      /\ reference.outcome = frame.outcome
      /\ reference.trace = frame.trace
      /\ frame.outcome = "return" =>
            reference.value = frame.value /\ reference.writebacks = frame.writebacks
=============================================================================
