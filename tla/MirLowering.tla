---------------------------- MODULE MirLowering -----------------------------
(***************************************************************************)
(* Lowering of a callable's body to MIR, a control-flow graph with explicit  *)
(* storage, temporaries, scopes and failure edges (src/src/mir.c).  Bodies   *)
(* are those of OwnershipAnalysis, with these additions.  A block's locals   *)
(* are in the order of their statements, and an arm has the sequence         *)
(* bindings.  A call has a kind ("function", "construct" or "refined") and   *)
(* says whether its result is affine; a callee or owned receiver is its      *)
(* first operand.  "test" is a copyable computation with an open outcome.    *)
(* Every expression, statement and arm has a unique id, a sequence.          *)
(*                                                                           *)
(* A callable is [parameters, requires, snapshots, ensures, affine, body],   *)
(* where affine is about its result.  Block ids, value ids and temporary ids *)
(* count from 1, and 0 is SOL_MIR_NONE.                                      *)
(***************************************************************************)
EXTENDS OwnershipAnalysis

NoTerminator == [kind |-> "invalid", edges |-> << >>, arg |-> 0, source |-> << >>]

(* MirLowerer together with the MIR it fills and the last LoweredValue.      *)
(* order lists the blocks as they are started.                               *)
NewLowerer(callable) ==
    [callable |-> callable, status |-> "lowering",
     blocks |-> << >>, order |-> << >>, values |-> << >>, temporaries |-> 0,
     loops |-> << >>, current |-> 0, pending |-> << >>, depth |-> 0, loop |-> 0, epilogue |-> 0,
     contract_body |-> 0, reachable |-> TRUE, value |-> 0]

mir_unreachable(l) == [l EXCEPT !.reachable = FALSE, !.value = 0]
mir_failure(l) ==
    [mir_unreachable(l) EXCEPT !.status = IF @ = "lowering" THEN "failed" ELSE @]
mir_unsupported(l) == [mir_unreachable(l) EXCEPT !.status = "unsupported"]

-----------------------------------------------------------------------------
(* Blocks, values and instructions.  The field source of an instruction or a *)
(* terminator is the id of the expression or statement it was lowered from,  *)
(* empty for one that records none.                                          *)

Whole(p) == Len(p) = 1

Inst(kind, arg, source) == [kind |-> kind, arg |-> arg, source |-> source, result |-> 0]

NextBlock(l) == Len(l.blocks) + 1
NextValue(l) == Len(l.values) + 1

mir_append_block(l) ==
    [l EXCEPT !.blocks = Append(@, [parameters |-> << >>, instructions |-> << >>,
                                    terminator |-> NoTerminator])]

mir_start_block(l, b) ==
    IF l.status # "lowering" THEN l
    ELSE IF \E i \in DOMAIN l.order : l.order[i] = b THEN mir_failure(l)
    ELSE [l EXCEPT !.current = b, !.order = Append(@, b), !.reachable = TRUE, !.value = 0]

mir_append_value(l, kind, b, definition, affine) ==
    [l EXCEPT !.values = Append(@, [kind |-> kind, block |-> b,
                                    definition |-> definition, affine |-> affine])]

mir_append_parameter(l, b, affine) ==
    [mir_append_value(l, "parameter", b, 0, affine)
       EXCEPT !.blocks[b].parameters = Append(@, NextValue(l))]

(* A new block with one parameter, the value NextValue(l).                   *)
BlockWithParameter(l, affine) ==
    mir_append_parameter(mir_append_block(l), NextBlock(l), affine)

Open(l) ==
    /\ l.status = "lowering"
    /\ l.current # 0
    /\ l.blocks[l.current].terminator.kind = "invalid"

mir_append_instruction(l, i) ==
    IF ~Open(l) THEN mir_failure(l)
    ELSE [l EXCEPT !.blocks[l.current].instructions = Append(@, i)]

EmitAll(l, s) ==
    IF s = << >> THEN l
    ELSE IF ~Open(l) THEN mir_failure(l)
    ELSE [l EXCEPT !.blocks[l.current].instructions = @ \o s]

mir_instruction_result(l, i, affine) ==
    LET v == NextValue(l)
        placed == mir_append_instruction(l, [i EXCEPT !.result = v])
        definition == Len(l.blocks[l.current].instructions) + 1 IN
    IF ~Open(l) THEN mir_failure(l)
    ELSE [mir_append_value(placed, "instruction", l.current, definition, affine) EXCEPT !.value = v]

Edge(b, arguments) == [block |-> b, arguments |-> arguments]

Terminate(l, b, kind, edges, arg, source) ==
    IF l.status # "lowering" THEN l
    ELSE IF b = 0 \/ l.blocks[b].terminator.kind # "invalid" THEN mir_failure(l)
    ELSE [l EXCEPT !.blocks[b].terminator =
            [kind |-> kind, edges |-> edges, arg |-> arg, source |-> source]]

mir_set_goto(l, from, target, arguments) ==
    Terminate(l, from, "goto", <<Edge(target, arguments)>>, 0, << >>)

mir_set_branch(l, from, condition, true_block, false_block) ==
    Terminate(l, from, "branch", <<Edge(true_block, << >>), Edge(false_block, << >>)>>,
              condition, << >>)

(* A terminator that leaves the callable.                                    *)
Leave(l, kind, arg, source) == Terminate(l, l.current, kind, << >>, arg, source)

-----------------------------------------------------------------------------
(* Temporaries.  pending is an array of which the first depth entries count; *)
(* what lies above stays until it is overwritten.                            *)

mir_push_pending_temporary(l, t) ==
    [l EXCEPT !.pending = IF l.depth = Len(@) THEN Append(@, t)
                          ELSE [@ EXCEPT ![l.depth + 1] = t],
              !.depth = @ + 1]

mir_stage_temporary(l, value, source) ==
    LET t == l.temporaries + 1 IN
    IF ~Open(l) THEN mir_failure(l)
    ELSE mir_push_pending_temporary(
           mir_append_instruction([l EXCEPT !.temporaries = t],
             Inst("temporary_init", [temporary |-> t, value |-> value], source)), t)

SetDepth(l, depth) == [l EXCEPT !.depth = depth]

(* A construct must leave the pending temporaries as it found them.          *)
Balanced(l, depth) == IF l.depth # depth THEN mir_failure(l) ELSE l

TemporaryDrops(l, begin, end, preserve) ==
    [i \in 1..(end - begin) |->
        Inst("temporary_drop", [temporary |-> l.pending[begin + i], preserve |-> preserve], << >>)]

mir_emit_temporary_cleanup_to(l, depth) ==
    IF l.depth <= depth THEN l ELSE EmitAll(l, TemporaryDrops(l, depth, l.depth, depth))

-----------------------------------------------------------------------------
(* Scopes: a sequence of them, the innermost last.  A guard scope is the     *)
(* arm's scope while its guard runs: the arm's locals are cleaned up between *)
(* the guard's temporaries and the scrutinee.                                *)

NewScope(kind, id, cleanup) ==
    [identity |-> [kind |-> kind, id |-> id], cleanup |-> cleanup, cleanup_forward |-> FALSE,
     guard |-> FALSE, boundary |-> 0, parent_boundary |-> 0]

mir_emit_local(kind, local) == Inst(kind, local, << >>)

DropAll(locals) ==
    FlattenSeq([i \in DOMAIN locals |->
        <<mir_emit_local("drop_if_initialized", locals[i]),
          mir_emit_local("storage_dead", locals[i])>>])

mir_emit_scope_enter(identity) == Inst("scope_enter", identity, << >>)

mir_emit_scope_cleanup(s) ==
    DropAll(IF s.cleanup_forward THEN s.cleanup ELSE Reverse(s.cleanup))

mir_emit_scope_exit(s) ==
    LET exit(kind, on) == IF s.identity.kind = on
                            THEN <<Inst(kind, s.identity.id, << >>)>> ELSE << >> IN
    mir_emit_scope_cleanup(s) \o <<Inst("scope_exit", s.identity, << >>)>>
      \o exit("region_exit", "region") \o exit("handler_exit", "handler")

(* Leave the scopes above the first n, the innermost first.                  *)
mir_emit_cleanup_to(scope, n) ==
    FlattenSeq([i \in 1..(Len(scope) - n) |-> mir_emit_scope_exit(scope[Len(scope) + 1 - i])])

(* All temporaries below end and all scopes but the callable's envelope.     *)
RECURSIVE UnwindFrom(_, _, _)
UnwindFrom(l, scope, end) ==
    LET guards == {i \in DOMAIN scope : scope[i].guard}
        b == Max(guards)
        s == scope[b] IN
    IF guards = {} THEN TemporaryDrops(l, 0, end, 0) \o mir_emit_cleanup_to(scope, 1)
    ELSE TemporaryDrops(l, s.boundary, end, s.boundary)
           \o mir_emit_cleanup_to(scope, b - 1)
           \o TemporaryDrops(l, s.parent_boundary, s.boundary, s.parent_boundary)
           \o UnwindFrom(l, SubSeq(scope, 1, b - 1), s.parent_boundary)

mir_emit_exit_cleanup_mode(l, scope, cleanup_parameters) ==
    EmitAll(EmitAll(l, UnwindFrom(l, scope, l.depth)),
            IF ~cleanup_parameters THEN << >>
            ELSE DropAll(Reverse(l.callable.parameters)) \o mir_emit_scope_exit(scope[1]))

mir_emit_exit_cleanup(l, scope) == mir_emit_exit_cleanup_mode(l, scope, TRUE)

contracted(callable) == callable.requires + callable.ensures > 0

mir_finish_success(l, scope, value) ==
    LET continue(k) == mir_set_goto(k, k.current, l.epilogue, <<value>>) IN
    IF contracted(l.callable) THEN continue(mir_emit_exit_cleanup_mode(l, scope, FALSE))
    ELSE Leave(mir_emit_exit_cleanup(l, scope), "return", value, << >>)

(* The block entered when a call or a check has failed.                      *)
FailurePath(l, failure, scope) ==
    Leave(mir_emit_exit_cleanup(mir_start_block(l, failure), scope),
          "resume_failure", 0, << >>)

-----------------------------------------------------------------------------
(* Expressions.                                                              *)

(* The type of the value, as far as it matters: whether it is affine.        *)
RECURSIVE ResultAffine(_)
ResultAffine(e) ==
    CASE e.op = "new" -> TRUE
      [] e.op = "place" -> e.p \notin CopyPlace
      [] e.op \in {"call", "propagate"} -> e.affine
      [] e.op = "if" -> ResultAffine(e.then) \/ ResultAffine(e.otherwise)
      [] e.op = "match" -> \E i \in DOMAIN e.arms : ResultAffine(e.arms[i].body)
      [] e.op \in {"handle", "region"} -> ResultAffine(e.body)
      [] e.op = "block" -> e.statements # << >> /\ ResultAffine(Last(e.statements))
      [] OTHER -> FALSE

RECURSIVE mir_lower_expression(_, _, _)

WithValue(l, v) == IF l.status = "lowering" THEN [l EXCEPT !.value = v] ELSE l

TwoBlocks(l) == mir_append_block(mir_append_block(l))

(* What follows an expression, unless the expression does not complete.      *)
Then(l, Continue(_)) == IF l.reachable THEN Continue(l) ELSE l

(* An expression in a block of its own, with temporaries as at depth.        *)
LowerBranch(l, b, e, scope, depth) ==
    Balanced(mir_lower_expression(mir_start_block(l, b), e, scope), depth)

(* The value of a branch, if it has one, goes to the block join.             *)
Joins(l, branch, join) ==
    IF branch.reachable THEN mir_set_goto(l, branch.current, join, <<branch.value>>) ELSE l

(* Operands from left to right: an owned one is staged, a borrowed one is    *)
(* named by its place.                                                       *)
RECURSIVE LowerOperands(_, _, _, _)
LowerOperands(l, arguments, operands, scope) ==
    LET operand == Head(operands)
        add(k, temporary, place) ==
          LowerOperands(k, Append(arguments, [access |-> operand.access, place |-> place,
                                              temporary |-> temporary]), Tail(operands), scope)
        own(k) == add(k, k.temporaries, << >>)
        stage(v) ==
          IF v.reachable THEN own(mir_stage_temporary(v, v.value, operand.e.id))
          ELSE [l |-> v, arguments |-> arguments] IN
    IF ~l.reachable \/ operands = << >> THEN [l |-> l, arguments |-> arguments]
    ELSE IF operand.access = "owned" THEN stage(mir_lower_expression(l, operand.e, scope))
    ELSE add(l, 0, operand.e.p)

(* A terminator with a failure path, and with a normal one unless never.     *)
LowerChecked(l, kind, arguments, e, affine, never, scope) ==
    LET failure == NextBlock(l)
        normal == failure + 1
        result == NextValue(l)
        blocks == mir_append_parameter(
                    mir_append_value(TwoBlocks(l), "terminator", l.current, 0, affine),
                    normal, affine)
        ended == Terminate(blocks, l.current, kind,
                           <<Edge(normal, <<result>>), Edge(failure, << >>)>>, arguments, e.id)
        abrupt == Terminate(mir_append_block(l), l.current, kind,
                            <<Edge(failure, << >>)>>, arguments, e.id) IN
    IF never THEN mir_unreachable([FailurePath(abrupt, failure, scope) EXCEPT !.current = 0])
    ELSE WithValue(mir_start_block(FailurePath(ended, failure, scope), normal), result + 1)

(* mir_lower_direct_call, mir_lower_checked_refined and mir_lower_construct. *)
mir_lower_call(l, e, scope) ==
    LET kind == IF e.kind = "refined" THEN "check_refined" ELSE "invoke"
        produce(k, arguments) ==
          IF e.kind = "construct"
          THEN mir_instruction_result(k, Inst("construct", arguments, e.id), e.affine)
          ELSE LowerChecked(k, kind, arguments, e, e.affine, FALSE, scope)
        consume(acc) ==
          IF acc.l.reachable THEN produce(SetDepth(acc.l, l.depth), acc.arguments)
          ELSE SetDepth(acc.l, l.depth) IN
    consume(LowerOperands(l, << >>, e.operands, scope))

mir_lower_short_circuit(l, e, scope) ==
    LET join(right, b, parameter) ==
          WithValue(mir_start_block(Joins(right, right, b), b), parameter)
        continue(left) ==
          LET b == NextBlock(left)
              blocks == mir_append_parameter(TwoBlocks(left), b + 1, FALSE)
              branched == Terminate(blocks, left.current, "branch",
                                    <<Edge(b, << >>), Edge(b + 1, <<left.value>>)>>,
                                    left.value, << >>) IN
          join(LowerBranch(branched, b, e.right, scope, l.depth), b + 1, NextValue(left)) IN
    Then(mir_lower_expression(l, e.left, scope), continue)

mir_lower_propagate(l, e, scope) ==
    LET split(staged) ==
          LET b == NextBlock(staged)
              v == NextValue(staged)
              blocks == BlockWithParameter(BlockWithParameter(staged, e.affine), l.callable.affine)
              results == mir_append_value(
                           mir_append_value(blocks, "terminator", staged.current, 0, e.affine),
                           "terminator", staged.current, 0, l.callable.affine)
              ended == Terminate(SetDepth(results, l.depth), staged.current, "propagate",
                                 <<Edge(b, <<v + 2>>), Edge(b + 1, <<v + 3>>)>>,
                                 staged.temporaries, e.id)
              residual == mir_finish_success(mir_start_block(ended, b + 1), scope, v + 1) IN
          WithValue(mir_start_block(residual, b), v)
        stage(operand) == split(mir_stage_temporary(operand, operand.value, e.operand.id)) IN
    Then(mir_lower_expression(l, e.operand, scope), stage)

mir_lower_if(l, e, scope) ==
    LET join(then, other) ==
          LET b == NextBlock(other)
              joined == Joins(Joins(BlockWithParameter(other, ResultAffine(e)), then, b), other, b) IN
          IF other.status # "lowering" THEN other
          ELSE IF ~then.reachable /\ ~other.reachable
            THEN mir_unreachable([other EXCEPT !.current = 0])
          ELSE WithValue(mir_start_block(joined, b), NextValue(other))
        otherwise(then, b) ==
          IF then.status # "lowering" THEN then
          ELSE join(then, LowerBranch(then, b, e.otherwise, scope, l.depth))
        branch(condition) ==
          LET b == NextBlock(condition)
              branched == mir_set_branch(TwoBlocks(condition), condition.current, condition.value,
                                         b, b + 1) IN
          otherwise(LowerBranch(branched, b, e.then, scope, l.depth), b + 1) IN
    Then(mir_lower_expression(l, e.condition, scope), branch)

(* The leaves of the scrutinee are copied into the arm's bindings.           *)
mir_emit_pattern_bindings(l, temporary, bindings) ==
    LET bind(k, i) ==
          LET v == mir_instruction_result(k, Inst("pattern_value",
                     [scrutinee |-> temporary, leaf |-> i, leaves |-> Len(bindings)], << >>),
                     <<bindings[i]>> \notin CopyPlace) IN
          EmitAll(v, <<mir_emit_local("storage_live", bindings[i]),
                       Inst("store", [place |-> <<bindings[i]>>, value |-> v.value], << >>)>>) IN
    FoldLeft(bind, l, [i \in DOMAIN bindings |-> i])

(* The guard, the way back to the next arm, and the way on.                  *)
LowerGuard(l, guard, scope, arm_scope, match_depth, operation_depth, next) ==
    LET guard_scope == [arm_scope EXCEPT !.guard = TRUE, !.boundary = match_depth,
                                         !.parent_boundary = operation_depth]
        reject(k) == mir_set_goto(k, k.current, next, << >>)
        decide(g) ==
          LET b == NextBlock(g)
              branched == mir_set_branch(TwoBlocks(g), g.current, g.value, b, b + 1)
              left == EmitAll(mir_start_block(branched, b + 1), mir_emit_scope_exit(arm_scope)) IN
          IF g.reachable THEN mir_start_block(reject(left), b) ELSE mir_failure(g) IN
    decide(mir_lower_expression(l, guard, Append(scope, guard_scope)))

ArmScope(arm) ==
    [NewScope("match_arm", arm.id, Reverse(arm.bindings)) EXCEPT !.cleanup_forward = TRUE]

(* One arm.  acc has the join block and its parameter once an arm needs one. *)
LowerArm(acc, ordinal, match, temporary, operation_depth, scope) ==
    LET arm == match.arms[ordinal]
        match_depth == operation_depth + 1
        arm_scope == ArmScope(arm)
        first == acc.join = 0
        join(left, value, next) ==
          LET b == IF first THEN NextBlock(left) ELSE acc.join
              joined == mir_set_goto(IF first THEN BlockWithParameter(left, ResultAffine(match))
                                     ELSE left, left.current, b, <<value>>) IN
          [l |-> mir_start_block(SetDepth(joined, match_depth), next), join |-> b,
           parameter |-> IF first THEN NextValue(left) ELSE acc.parameter]
        finish(body, next) ==
          IF body.reachable
          THEN join(EmitAll(body, mir_emit_scope_exit(arm_scope)), body.value, next)
          ELSE [acc EXCEPT !.l = mir_start_block(SetDepth(body, match_depth), next)]
        enter(chosen, next) ==
          finish(mir_lower_expression(
                   SetDepth(mir_emit_temporary_cleanup_to(chosen, operation_depth), operation_depth),
                   arm.body, Append(scope, arm_scope)), next)
        choose(k, next) ==
          LET entered == EmitAll(k,
                           <<Inst("match_arm", [scrutinee |-> temporary,
                                                scope |-> arm_scope.identity], match.id),
                             mir_emit_scope_enter(arm_scope.identity)>>)
              bound == mir_emit_pattern_bindings(entered, temporary, arm.bindings) IN
          enter(IF arm.guard.op = "none" THEN bound
                ELSE LowerGuard(bound, arm.guard, scope, arm_scope, match_depth, operation_depth,
                                next), next)
        select(matched) ==
          LET b == NextBlock(matched)
              branched == mir_set_branch(TwoBlocks(matched), matched.current, matched.value,
                                         b, b + 1) IN
          choose(mir_start_block(branched, b), b + 1) IN
    select(mir_instruction_result(acc.l,
             Inst("pattern_test", [scrutinee |-> temporary, ordinal |-> ordinal], match.id), FALSE))

RECURSIVE LowerArms(_, _, _, _, _, _)
LowerArms(acc, i, match, temporary, depth, scope) ==
    IF acc.l.status # "lowering" \/ i > Len(match.arms) THEN acc
    ELSE LowerArms(LowerArm(acc, i, match, temporary, depth, scope), i + 1, match, temporary,
                   depth, scope)

mir_lower_match(l, e, scope) ==
    LET end(acc) ==
          LET failed == SetDepth(Leave(mir_emit_exit_cleanup(acc.l, scope), "match_failure", 0,
                                       e.id), l.depth) IN
          IF acc.join = 0 THEN mir_unreachable([failed EXCEPT !.current = 0])
          ELSE WithValue(mir_start_block(failed, acc.join), acc.parameter)
        arms(staged) == end(LowerArms([l |-> staged, join |-> 0, parameter |-> 0], 1, e,
                                      staged.temporaries, l.depth, scope))
        stage(scrutinee) ==
          arms(mir_stage_temporary(scrutinee, scrutinee.value, e.scrutinee.id)) IN
    Then(mir_lower_expression(l, e.scrutinee, scope), stage)

mir_lower_handler(l, e, scope) ==
    LET s == NewScope("handler", e.id, << >>)
        places == [i \in DOMAIN e.operands |-> e.operands[i].e.p]
        entered == EmitAll(l,
                     <<Inst("handler_enter", [id |-> e.id, places |-> places], e.id),
                       mir_emit_scope_enter(s.identity)>>)
        exit(body) == mir_instruction_result(EmitAll(body, mir_emit_scope_exit(s)),
                        Inst("expression_result", body.value, e.id), ResultAffine(e)) IN
    Then(mir_lower_expression(entered, e.body, Append(scope, s)), exit)

-----------------------------------------------------------------------------
(* Loops.                                                                    *)

mir_ensure_loop_exit(l, loop) ==
    IF l.loops[loop].exit # 0 THEN l
    ELSE [mir_append_block(l) EXCEPT !.loops[loop].exit = NextBlock(l)]

(* Mutant: a jump out of a loop keeps the temporaries above the loop's.      *)
TransferKeepsTemporaries(l, s, scope) ==
    LET loop == l.loops[l.loop]
        cleaned == EmitAll(l, mir_emit_cleanup_to(scope, loop.boundary))
        transfer(k, target) ==
          mir_unreachable(Terminate(k, l.current, s.op, <<Edge(target, << >>)>>, loop.statement, s.id))
        leave(k) == transfer(k, k.loops[l.loop].exit) IN
    IF l.loop = 0 THEN mir_failure(l)
    ELSE IF s.op = "break" THEN leave(mir_ensure_loop_exit(cleaned, l.loop))
    ELSE transfer(cleaned, loop.header)

mir_set_loop_transfer(l, s, scope) ==
    LET loop == l.loops[l.loop]
        cleaned == EmitAll(mir_emit_temporary_cleanup_to(l, loop.entry_depth), mir_emit_cleanup_to(scope, loop.boundary))
        transfer(k, target) ==
          mir_unreachable(Terminate(k, l.current, s.op, <<Edge(target, << >>)>>, loop.statement, s.id))
        leave(k) == transfer(k, k.loops[l.loop].exit) IN
    IF l.loop = 0 THEN mir_failure(l)
    ELSE IF s.op = "break" THEN leave(mir_ensure_loop_exit(cleaned, l.loop))
    ELSE transfer(cleaned, loop.header)

(* The body's end returns to the header.                                     *)
LowerLoopBody(l, s, loop, scope) ==
    LET repeat(body) == mir_set_goto(body, body.current, l.loops[loop].header, << >>) IN
    Then(Balanced(mir_lower_expression(l, s.body, scope), l.depth), repeat)

LowerWhile(l, s, loop, scope) ==
    LET enter(exits, condition) ==
          LET body == NextBlock(condition)
              branched == mir_set_branch(exits, condition.current, condition.value,
                                         body, exits.loops[loop].exit) IN
          LowerLoopBody(mir_start_block(branched, body), s, loop, scope)
        branch(condition) ==
          enter(mir_ensure_loop_exit(mir_append_block(condition), loop), condition) IN
    Then(Balanced(mir_lower_expression(l, s.condition, scope), l.depth), branch)

mir_lower_loop_statement(l, s, scope) ==
    LET header == NextBlock(l)
        loop == Len(l.loops) + 1
        opened == [mir_append_block(l) EXCEPT
                     !.loops = Append(@, [header |-> header, exit |-> 0, statement |-> s.id,
                                          boundary |-> Len(scope), entry_depth |-> l.depth]),
                     !.loop = loop]
        forever(k) == mir_start_block(mir_set_goto(mir_append_block(k), header, NextBlock(k), << >>),
                                      NextBlock(k))
        body(k) == IF s.op = "while" THEN LowerWhile(k, s, loop, scope)
                   ELSE LowerLoopBody(forever(k), s, loop, scope)
        end(k) ==
          IF k.status # "lowering" THEN k
          ELSE IF k.loops[loop].exit = 0 THEN mir_unreachable([k EXCEPT !.current = 0])
          ELSE mir_instruction_result(mir_start_block(k, k.loops[loop].exit),
                                      Inst("const_unit", 0, << >>), FALSE) IN
    end([body(mir_start_block(mir_set_goto(opened, l.current, header, << >>), header))
           EXCEPT !.loop = l.loop])

-----------------------------------------------------------------------------
(* Statements and blocks.                                                    *)

LowerLet(l, s, scope) ==
    LET bind(v) == WithValue(EmitAll(v, <<mir_emit_local("storage_live", s.local),
                                          Inst("store", [place |-> <<s.local>>, value |-> v.value],
                                               s.e.id)>>), 0) IN
    Then(mir_lower_expression(l, s.e, scope), bind)

Replace(s, value) ==
    <<Inst("drop_place_if_initialized", s.p, s.id),
      Inst("store", [place |-> s.p, value |-> value], s.e.id)>>

(* An update is read and staged before its right side is evaluated.          *)
LowerAssignment(l, s, scope) ==
    LET replace(v) == WithValue(EmitAll(v, Replace(s, v.value)), 0)
        combine(v, previous) ==
          IF v.depth = 0 \/ v.pending[v.depth] # previous THEN mir_failure(v)
          ELSE replace(SetDepth(mir_instruction_result(v, Inst("compound_update",
                 [previous |-> previous, right |-> v.value, statement |-> s.id], s.e.id), FALSE),
                                v.depth - 1))
        update(start) ==
          LET end(v) == combine(v, start.temporaries) IN
          Then(mir_lower_expression(start, s.e, scope), end)
        stage(old) == update(mir_stage_temporary(old, old.value, s.id)) IN
    IF s.compound THEN stage(mir_instruction_result(l, Inst("load_update", s.p, s.id), FALSE))
    ELSE Then(mir_lower_expression(l, s.e, scope), replace)

LowerReturn(l, s, scope) ==
    LET return(v) == mir_unreachable(mir_finish_success(v, scope, v.value)) IN
    Then(mir_lower_expression(l, s.e, scope), return)

LowerPanic(l, s, scope) ==
    LET v == mir_instruction_result(l, Inst("const_unit", 0, s.id), FALSE) IN
    mir_unreachable(Leave(mir_emit_exit_cleanup(v, scope), "panic", v.value, << >>))

LowerRegion(l, s, scope) ==
    LET region == NewScope("region", s.id, << >>)
        entered == EmitAll(l,
                     <<Inst("region_enter", region.identity.id, << >>),
                       mir_emit_scope_enter(region.identity)>>)
        exit(body) == EmitAll(body, mir_emit_scope_exit(region)) IN
    Then(mir_lower_expression(entered, s.body, Append(scope, region)), exit)

(* The fallback is lowered first and must not complete.                      *)
LowerRequire(l, s, scope) ==
    LET end(failed, required) ==
          IF failed.reachable THEN mir_failure(failed) ELSE mir_start_block(failed, required)
        branch(condition) ==
          LET b == NextBlock(condition)
              branched == mir_set_branch(TwoBlocks(condition), condition.current, condition.value,
                                         b, b + 1) IN
          end(LowerBranch(branched, b + 1, s.fallback, scope, l.depth), b) IN
    Then(mir_lower_expression(l, s.condition, scope), branch)

LowerStatement(l, s, scope) ==
    CASE s.op = "let" -> LowerLet(l, s, scope)
      [] s.op = "declare" ->
           WithValue(mir_append_instruction(l, mir_emit_local("storage_live", s.local)), 0)
      [] s.op = "assign" -> LowerAssignment(l, s, scope)
      [] s.op = "return" -> LowerReturn(l, s, scope)
      [] s.op = "panic" -> LowerPanic(l, s, scope)
      [] s.op \in {"loop", "while"} -> mir_lower_loop_statement(l, s, scope)
      [] s.op \in {"break", "continue"} -> mir_set_loop_transfer(l, s, scope)
      [] s.op = "region" -> LowerRegion(l, s, scope)
      [] s.op = "require" -> LowerRequire(l, s, scope)
      [] s.op = "unreachable" ->
           mir_unreachable(Leave(mir_emit_exit_cleanup(l, scope), "unreachable", 0, s.id))
      [] s.op = "modify" -> mir_unsupported(l)
      [] OTHER -> mir_lower_expression(l, s, scope)

(* The statements of block e from the i-th one; cleanup has the locals       *)
(* introduced before it.                                                     *)
RECURSIVE LowerStatements(_, _, _, _, _)
LowerStatements(l, e, i, cleanup, parent) ==
    LET scope == Append(parent, NewScope("block", e.id, cleanup))
        s == e.statements[i]
        exit(last) ==
          EmitAll(mir_instruction_result(last, Inst("expression_result", last.value, e.id),
                                         ResultAffine(e)), mir_emit_scope_exit(Last(scope))) IN
    IF ~l.reachable THEN l
    ELSE IF i <= Len(e.statements)
      THEN LowerStatements(LowerStatement(l, s, scope), e, i + 1,
             IF s.op \in {"let", "declare"} THEN Append(cleanup, s.local) ELSE cleanup, parent)
    ELSE exit(IF l.value # 0 THEN l
              ELSE mir_instruction_result(l, Inst("const_unit", 0, << >>), FALSE))

mir_lower_block(l, e, parent) ==
    LowerStatements(mir_append_instruction([l EXCEPT !.value = 0],
                      mir_emit_scope_enter([kind |-> "block", id |-> e.id])), e, 1, << >>, parent)

LowerPlace(l, e) ==
    mir_instruction_result(l, Inst(IF e.p \in CopyPlace THEN "load_copy" ELSE "load_move",
                                   e.p, e.id), e.p \notin CopyPlace)

mir_lower_expression(l, e, scope) ==
    IF l.status # "lowering" THEN mir_unreachable(l)
    ELSE IF l.current = 0 THEN mir_failure(l)
    ELSE CASE e.op \in {"lit", "test", "new"} ->
                mir_instruction_result(l, Inst("const", e.op, e.id), e.op = "new")
           [] e.op = "place" -> LowerPlace(l, e)
           [] e.op = "and" -> mir_lower_short_circuit(l, e, scope)
           [] e.op = "if" -> mir_lower_if(l, e, scope)
           [] e.op = "match" -> mir_lower_match(l, e, scope)
           [] e.op = "propagate" -> mir_lower_propagate(l, e, scope)
           [] e.op = "handle" -> mir_lower_handler(l, e, scope)
           [] e.op = "block" -> mir_lower_block(l, e, scope)
           [] e.op = "call" -> mir_lower_call(l, e, scope)
           [] e.op = "never" -> LowerChecked(l, "invoke", << >>, e, FALSE, TRUE, scope)

-----------------------------------------------------------------------------
(* Contracts and the callable.                                               *)

Envelope == <<NewScope("callable", << >>, << >>)>>

mir_emit_contract_check(l, obligation, arguments, satisfied) ==
    LET violation == NextBlock(l)
        failure == violation + 1
        ended == Terminate(TwoBlocks(l), l.current, "check_contract",
                           <<Edge(satisfied, arguments), Edge(violation, << >>),
                             Edge(failure, << >>)>>,
                           obligation, << >>)
        violated == Leave(mir_emit_exit_cleanup(mir_start_block(ended, violation), Envelope),
                          "contract_violation", 0, << >>) IN
    FailurePath(violated, failure, Envelope)

mir_lower_contract_entry(l) ==
    LET check(k, i) == mir_start_block(
                         mir_emit_contract_check(mir_append_block(k), <<"requires", i>>, << >>,
                                                 NextBlock(k)), NextBlock(k))
        checked == FoldLeft(check, l, [i \in 1..l.callable.requires |-> i]) IN
    EmitAll([checked EXCEPT !.contract_body = checked.current],
            [i \in 1..l.callable.snapshots |-> Inst("capture_snapshot", i, << >>)])

mir_lower_contract_epilogue(l, result) ==
    LET check(k, i) ==
          WithValue(mir_start_block(
            mir_emit_contract_check(BlockWithParameter(k, k.callable.affine), <<"ensures", i>>,
                                    <<k.value>>, NextBlock(k)),
            NextBlock(k)), NextValue(k))
        checked == FoldLeft(check, WithValue(mir_start_block(l, l.epilogue), result),
                            [i \in 1..l.callable.ensures |-> i]) IN
    Leave(mir_emit_exit_cleanup(checked, Envelope), "return", checked.value, << >>)

Supported(callable) ==
    contracted(callable) =>
        \A i \in DOMAIN callable.parameters : Access[callable.parameters[i]] # "exclusive"

(* The epilogue's parameter is the first value.                              *)
LowerEntry(callable) ==
    LET entry == mir_start_block(mir_append_block(NewLowerer(callable)), 1)
        live == EmitAll(entry, [i \in DOMAIN callable.parameters |->
                                  mir_emit_local("parameter_live", callable.parameters[i])])
        entered == mir_append_instruction(live, mir_emit_scope_enter(Envelope[1].identity)) IN
    IF contracted(callable)
    THEN mir_lower_contract_entry([BlockWithParameter(entered, callable.affine)
                                     EXCEPT !.epilogue = NextBlock(entered)])
    ELSE entered

ReachesEpilogue(l) ==
    \E b \in DOMAIN l.blocks : /\ l.blocks[b].terminator.kind = "goto"
                               /\ l.blocks[b].terminator.edges[1].block = l.epilogue

(* sol_mir_lower_callable up to the validation of its result.                *)
sol_mir_lower_callable(callable) ==
    LET finish(body) == mir_finish_success(body, Envelope, body.value)
        end(l) ==
          IF ~contracted(callable) \/ l.status # "lowering" THEN l
          ELSE IF ~ReachesEpilogue(l) THEN mir_unsupported(l)
          ELSE mir_lower_contract_epilogue(l, 1) IN
    IF ~Supported(callable) THEN mir_unsupported(NewLowerer(callable))
    ELSE end(Then(mir_lower_expression(LowerEntry(callable), callable.body, Envelope), finish))
=============================================================================
