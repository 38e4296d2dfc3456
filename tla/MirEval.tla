------------------------------ MODULE MirEval -------------------------------
(***************************************************************************)
(* The MIR evaluator (src/src/mir_eval.c): execution of a callable's blocks  *)
(* in a frame.  outcome is "none" while the callable runs; "fault" is a      *)
(* broken internal invariant.  Callees, predicates and patterns are open.    *)
(* Limits on steps, values and depth are left out.                           *)
(***************************************************************************)
EXTENDS MirValidate, MirRuntime

NewFrame(callable, oracle) ==
    BoundParameters(callable, oracle)
      @@ [values |-> << >>, temporaries |-> << >>, writebacks |-> << >>, block |-> 1,
          outcome |-> "none", value |-> Unit]

End(f, outcome) == [f EXCEPT !.outcome = outcome]
Fault(f) == End(f, "fault")

drop_local(f, local) ==
    IF ~Bound(f, local) THEN f
    ELSE IF Access[local] = "exclusive"
      THEN Unbind([f EXCEPT !.writebacks = (local :> f.locals[local]) @@ @], local)
    ELSE Unbind(Observe(f, local), local)

(* The locals still registered, the last one first.                          *)
frame_release(f) ==
    [FoldLeft(drop_local, f, Reverse(f.order)) EXCEPT
       !.registered = {}, !.order = << >>, !.temporaries = << >>, !.handlers = << >>]

register_local(f, local) ==
    IF local \in f.registered THEN Fault(f) ELSE Register(f, local)

set_value(f, id, value) == [f EXCEPT !.values = (id :> value) @@ @]
HasValue(f, id) == id \in DOMAIN f.values

store_place(f, p, value) ==
    IF p[1] \notin f.registered \/ (~Whole(p) /\ ~HasSlot(f, p)) THEN Fault(f)
    ELSE Put(f, p, value)

(* Mutant: the overwritten value is not reported.                            *)
DropUnobserved(f, p) == IF Filled(f, p) THEN Take(f, p) ELSE f

drop_place(f, p) == IF Filled(f, p) THEN Take(Observe(f, p[1]), p) ELSE f

HasTemporary(f, t) == t \in DOMAIN f.temporaries
FreeTemporaries(f, ts) ==
    [f EXCEPT !.temporaries = Restrict(@, DOMAIN @ \ ts)]

pattern_value(scrutinee, leaf, leaves) ==
    IF leaves = 1 THEN scrutinee ELSE Scalar(scrutinee[<<"f", "n">>[leaf]])

-----------------------------------------------------------------------------
(* Instructions.                                                             *)

Load(f, ins) ==
    LET p == ins.arg
        value == Read(f, p) IN
    IF ~Filled(f, p) \/ (ins.kind = "load_copy" /\ ~Complete(value)) THEN Fault(f)
    ELSE set_value(IF ins.kind = "load_move" THEN Take(f, p) ELSE f, ins.result, value)

Constant(f, ins) ==
    CASE ins.arg = "test" -> set_value(Asked(f), ins.result, Truth(Ask(f)))
      [] ins.arg = "new" -> set_value(Renew(f, 1), ins.result, Scalar(f.fresh))
      [] ins.arg = "lit" -> set_value(f, ins.result, Unit)

(* The new value of an update, which may overflow.                           *)
CompoundUpdate(f, ins) ==
    LET freed == FreeTemporaries(f, {ins.arg.previous}) IN
    IF ~HasTemporary(f, ins.arg.previous) \/ ~HasValue(f, ins.arg.right) THEN Fault(f)
    ELSE IF Ask(f) THEN set_value(Renew(Asked(freed), 1), ins.result, Scalar(f.fresh))
    ELSE End(Asked(freed), "overflow")

construct_value(f, ins) ==
    LET owned == Owned(ins.arg) IN
    IF \E i \in DOMAIN owned : ~HasTemporary(f, owned[i]) THEN Fault(f)
    ELSE set_value(FreeTemporaries(f, ToSet(owned)), ins.result,
                   Record([i \in DOMAIN owned |-> f.temporaries[owned[i]]]))

HandlerEnter(f, ins) ==
    IF \E i \in DOMAIN ins.arg.places : ~Bound(f, ins.arg.places[i][1]) THEN Fault(f)
    ELSE [f EXCEPT !.handlers = Append(@, ins.source)]

Scrutinize(f, ins) ==
    IF ~HasTemporary(f, ins.arg.scrutinee) THEN Fault(f)
    ELSE IF ins.kind = "pattern_test" THEN set_value(Asked(f), ins.result, Truth(Ask(f)))
    ELSE set_value(f, ins.result, pattern_value(f.temporaries[ins.arg.scrutinee],
                                                ins.arg.leaf, ins.arg.leaves))

Initialize(f, ins) ==
    LET value == f.values[ins.arg.value] IN
    IF ~HasValue(f, ins.arg.value) THEN Fault(f)
    ELSE IF ins.kind = "store" THEN store_place(f, ins.arg.place, value)
    ELSE [f EXCEPT !.temporaries = (ins.arg.temporary :> value) @@ @]

execute_instruction(f, ins) ==
    CASE ins.kind = "const" -> Constant(f, ins)
      [] ins.kind = "const_unit" -> set_value(f, ins.result, Unit)
      [] ins.kind = "parameter_live" ->
           IF ins.arg \in f.registered THEN f ELSE register_local(f, ins.arg)
      [] ins.kind = "storage_live" -> register_local(f, ins.arg)
      [] ins.kind = "drop_if_initialized" -> drop_local(f, ins.arg)
      [] ins.kind = "storage_dead" -> Unregister(f, ins.arg)
      [] ins.kind = "drop_place_if_initialized" -> drop_place(f, ins.arg)
      [] ins.kind \in {"load_copy", "load_move", "load_update"} -> Load(f, ins)
      [] ins.kind \in {"store", "temporary_init"} -> Initialize(f, ins)
      [] ins.kind = "temporary_drop" -> FreeTemporaries(f, {ins.arg.temporary})
      [] ins.kind = "compound_update" -> CompoundUpdate(f, ins)
      [] ins.kind = "construct" -> construct_value(f, ins)
      [] ins.kind \in {"pattern_test", "pattern_value"} -> Scrutinize(f, ins)
      [] ins.kind = "expression_result" ->
           IF HasValue(f, ins.arg) THEN set_value(f, ins.result, f.values[ins.arg]) ELSE Fault(f)
      [] ins.kind = "handler_enter" -> HandlerEnter(f, ins)
      [] ins.kind = "handler_exit" ->
           IF f.handlers = << >> THEN Fault(f) ELSE [f EXCEPT !.handlers = Front(@)]
      [] ins.kind = "capture_snapshot" -> Report(f, <<"snapshot", ins.arg>>)
      [] ins.kind \in {"scope_enter", "scope_exit", "region_enter", "region_exit", "match_arm"} -> f

-----------------------------------------------------------------------------
(* Terminators.                                                              *)

apply_edge(mir, f, edge) ==
    LET parameters == mir.blocks[edge.block].parameters
        passed == [v \in ToSet(parameters) |->
                     f.values[edge.arguments[CHOOSE i \in DOMAIN parameters : parameters[i] = v]]] IN
    IF \E i \in DOMAIN edge.arguments : ~HasValue(f, edge.arguments[i]) THEN Fault(f)
    ELSE [f EXCEPT !.values = passed @@ @, !.block = edge.block]

ArgumentReady(f, a) ==
    IF a.access = "owned" THEN HasTemporary(f, a.temporary)
    ELSE Filled(f, a.place) /\ Complete(Read(f, a.place))

ArgumentValue(f, a) ==
    IF a.access = "owned" THEN f.temporaries[a.temporary] ELSE Read(f, a.place)

(* The callee's exclusive results, in the order of the arguments.            *)
CommitWritebacks(f, arguments) ==
    LET exclusive == SelectSeq(arguments, LAMBDA a : a.access = "exclusive")
        commit(g, a) ==
          IF g.outcome # "none" THEN g
          ELSE store_place(Renew(drop_place(g, a.place), 1), a.place,
                           Similar(Read(f, a.place), g.fresh)) IN
    FoldLeft(commit, f, exclusive)

(* A call whose type is Never has no normal edge, and fails.                 *)
invoke_terminator(mir, f, t) ==
    LET arguments == [i \in DOMAIN t.arg |-> ArgumentValue(f, t.arg[i])]
        called == Report(FreeTemporaries(f, ToSet(Owned(t.arg))),
                         <<"call", t.source, arguments, f.handlers>>)
        result == t.edges[1].arguments[1]
        done == CommitWritebacks(set_value(Renew(Asked(called), 1), result, Scalar(f.fresh)),
                                 t.arg) IN
    IF \E i \in DOMAIN t.arg : ~ArgumentReady(f, t.arg[i]) THEN Fault(f)
    ELSE IF Len(t.edges) = 1 THEN apply_edge(mir, called, t.edges[1])
    ELSE IF ~Ask(f) THEN apply_edge(mir, Asked(called), t.edges[2])
    ELSE IF done.outcome # "none" THEN done
    ELSE apply_edge(mir, done, t.edges[1])

CheckRefined(mir, f, t) ==
    LET temporary == t.arg[1].temporary
        freed == FreeTemporaries(Asked(f), {temporary}) IN
    IF ~HasTemporary(f, temporary) THEN Fault(f)
    ELSE IF ~Ask(f) THEN apply_edge(mir, freed, t.edges[2])
    ELSE apply_edge(mir, set_value(freed, t.edges[1].arguments[1], f.temporaries[temporary]),
                    t.edges[1])

(* The oracle says whether the operand has a value to go on with.            *)
Propagate(mir, f, t) ==
    LET edge == t.edges[IF Ask(f) THEN 1 ELSE 2] IN
    IF ~HasTemporary(f, t.arg) THEN Fault(f)
    ELSE apply_edge(mir, set_value(FreeTemporaries(Asked(f), {t.arg}), edge.arguments[1],
                                   f.temporaries[t.arg]), edge)

(* A predicate may fail to evaluate, be violated, or hold.                   *)
CheckContract(mir, f, t) ==
    LET checked == Checked(t)
        reported == Report(f, <<"check", t.arg, [i \in DOMAIN checked |-> f.values[checked[i]]]>>)
        answered == Asked(reported) IN
    IF \E i \in DOMAIN checked : ~HasValue(f, checked[i]) THEN Fault(f)
    ELSE IF ~Ask(f) THEN apply_edge(mir, answered, t.edges[3])
    ELSE apply_edge(mir, Asked(answered), t.edges[IF Ask(answered) THEN 1 ELSE 2])

Leaves(f, t) ==
    CASE t.kind = "return" ->
           IF HasValue(f, t.arg) THEN [End(f, "return") EXCEPT !.value = f.values[t.arg]]
           ELSE Fault(f)
      [] t.kind = "panic" -> IF HasValue(f, t.arg) THEN End(f, "panic") ELSE Fault(f)
      [] OTHER -> End(f, t.kind)

Terminator(mir, f, t) ==
    CASE t.kind \in {"goto", "break", "continue"} -> apply_edge(mir, f, t.edges[1])
      [] t.kind = "branch" ->
           IF HasValue(f, t.arg)
           THEN apply_edge(mir, f, t.edges[IF f.values[t.arg] = True THEN 1 ELSE 2])
           ELSE Fault(f)
      [] t.kind = "invoke" -> invoke_terminator(mir, f, t)
      [] t.kind = "check_refined" -> CheckRefined(mir, f, t)
      [] t.kind = "propagate" -> Propagate(mir, f, t)
      [] t.kind = "check_contract" -> CheckContract(mir, f, t)
      [] OTHER -> Leaves(f, t)

(* One turn of the loop of execute_cfg: a block and its terminator.          *)
execute_cfg(mir, f) ==
    LET code == Code(mir, f.block)
        RECURSIVE from(_, _)
        from(g, i) ==
          IF g.outcome # "none" THEN g
          ELSE IF i > Len(code) THEN Terminator(mir, g, Term(mir, f.block))
          ELSE from(execute_instruction(g, code[i]), i + 1) IN
    from(f, 1)

(* The rest of execute_callable after execute_cfg.                           *)
Finish(callable, f) ==
    LET exclusive == {l \in ToSet(callable.parameters) : Access[l] = "exclusive"}
        complete == Complete(f.value) /\ exclusive \subseteq DOMAIN f.writebacks IN
    frame_release(IF f.outcome = "return" /\ ~complete THEN Fault(f) ELSE f)

(* How many answers the execution of a block may need.                       *)
Questions(mir, b) ==
    LET asks(ins) == \/ ins.kind \in {"pattern_test", "compound_update"}
                     \/ ins.kind = "const" /\ ins.arg = "test"
        t == Term(mir, b) IN
    Len(SelectSeq(Code(mir, b), asks))
      + CASE t.kind \in {"check_refined", "propagate"} -> 1
          [] t.kind = "invoke" -> Len(t.edges) - 1
          [] t.kind = "check_contract" -> 2
          [] OTHER -> 0
=============================================================================
