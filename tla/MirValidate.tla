---------------------------- MODULE MirValidate -----------------------------
(***************************************************************************)
(* The validator of a callable's MIR (sol_mir_validate in src/src/mir.c): its *)
(* dataflow passes over the control-flow graph, and the comparison with what *)
(* the IR requires.  A MIR is the record that MirLowering fills, and the     *)
(* validator reads only its blocks, values, loops and callable.  Checks of   *)
(* the format of one record (ids in range, types, spans) are left out.       *)
(***************************************************************************)
EXTENDS MirLowering, MirSource

Leaving == {"return", "panic", "resume_failure", "match_failure", "unreachable",
            "contract_violation"}

Code(mir, b) == mir.blocks[b].instructions
Term(mir, b) == mir.blocks[b].terminator

mir_block_successors(mir, b) ==
    [i \in DOMAIN Term(mir, b).edges |-> Term(mir, b).edges[i].block]

(* All instructions, and all terminators, in the order they were lowered.    *)
Instructions(mir, kinds) ==
    SelectSeq(FlattenSeq([i \in DOMAIN mir.order |-> Code(mir, mir.order[i])]),
              LAMBDA ins : ins.kind \in kinds)
Terminators(mir, kinds) ==
    SelectSeq([i \in DOMAIN mir.order |-> Term(mir, mir.order[i])],
              LAMBDA t : t.kind \in kinds)

Sources(s) == [i \in DOMAIN s |-> s[i].source]
Args(s) == [i \in DOMAIN s |-> s[i].arg]

mir_predecessor_count(mir, target) ==
    Cardinality({<<b, i>> \in (DOMAIN mir.blocks) \X (1..3) :
        /\ i \in DOMAIN Term(mir, b).edges
        /\ Term(mir, b).edges[i].block = target})

-----------------------------------------------------------------------------
(* Forward dataflow to a fixed point: round robin over the known blocks, at  *)
(* most limit passes.  Transfer gives [valid, state], and so does Merge.     *)

Flow(mir, start, Transfer(_, _), Merge(_, _), limit) ==
    LET merge(acc, out, t) ==
          LET merged == Merge(acc.incoming[t], out.state) IN
          IF t \notin DOMAIN acc.incoming
          THEN [acc EXCEPT !.incoming = @ @@ (t :> out.state), !.changed = TRUE]
          ELSE IF ~merged.valid THEN [acc EXCEPT !.valid = FALSE]
          ELSE [acc EXCEPT !.incoming[t] = merged.state,
                           !.changed = @ \/ merged.state # acc.incoming[t]]
        visit(acc, b) ==
          LET out == Transfer(b, acc.incoming[b])
              step(a, t) == IF a.valid THEN merge(a, out, t) ELSE a IN
          IF b \notin DOMAIN acc.incoming THEN acc
          ELSE IF ~out.valid THEN [acc EXCEPT !.valid = FALSE]
          ELSE FoldLeft(step, acc, mir_block_successors(mir, b))
        RECURSIVE sweep(_, _), pass(_)
        sweep(acc, b) ==
          IF ~acc.valid \/ b > Len(mir.blocks) THEN acc ELSE sweep(visit(acc, b), b + 1)
        pass(acc) ==
          IF acc.valid /\ acc.changed /\ acc.passes < limit
          THEN pass(sweep([acc EXCEPT !.changed = FALSE, !.passes = @ + 1], 1))
          ELSE acc IN
    pass([incoming |-> 1 :> start, valid |-> TRUE, changed |-> TRUE, passes |-> 0])

BorrowedPlaces(t) ==
    IF t.kind # "invoke" THEN {}
    ELSE {t.arg[i].place : i \in {j \in DOMAIN t.arg : t.arg[j].access # "owned"}}

(* What an instruction asks of the storage of a local and makes of it.       *)
Rule(local, from, to) == [local |-> local, from |-> from, to |-> to]


StorageRule(ins) ==
    LET emptied(p) == IF Whole(p) THEN "uninitialized" ELSE "initialized" IN
    CASE ins.kind = "parameter_live" -> Rule(ins.arg, {"dead"}, "initialized")
      [] ins.kind = "storage_live" -> Rule(ins.arg, {"dead"}, "uninitialized")
      [] ins.kind = "drop_if_initialized" ->
           Rule(ins.arg, {"uninitialized", "initialized", "maybe"}, "uninitialized")
      [] ins.kind = "storage_dead" -> Rule(ins.arg, {"uninitialized"}, "dead")
      [] ins.kind \in {"load_copy", "load_update"} ->
           Rule(ins.arg[1], {"initialized"}, "initialized")
      [] ins.kind \in {"load_move", "drop_place_if_initialized"} ->
           Rule(ins.arg[1], {"initialized"}, emptied(ins.arg))
      [] ins.kind = "store" ->
           Rule(ins.arg.place[1],
                {IF Whole(ins.arg.place) THEN "uninitialized" ELSE "initialized"}, "initialized")

Storage == {"parameter_live", "storage_live", "drop_if_initialized", "storage_dead", "load_copy",
            "load_update", "load_move", "drop_place_if_initialized", "store"}

mir_merge_storage(left, right) ==
    [valid |-> \A l \in Local : left[l] = right[l] \/ "dead" \notin {left[l], right[l]},
     state |-> [l \in Local |-> IF left[l] = right[l] THEN left[l] ELSE "maybe"]]

(* The rules of a block in order: before(l, i) is the storage of l that the  *)
(* i-th one finds.                                                           *)
StorageTransfer(mir, b, state) ==
    LET code == SelectSeq(Code(mir, b), LAMBDA ins : ins.kind \in Storage)
        rules == [i \in DOMAIN code |-> StorageRule(code[i])]
        before(l, i) ==
          LET earlier == {j \in 1..(i - 1) : rules[j].local = l} IN
          IF earlier = {} THEN state[l] ELSE rules[Max(earlier)].to
        out == [l \in Local |-> before(l, Len(code) + 1)] IN
    [state |-> out,
     valid |-> /\ \A i \in DOMAIN rules :
                     /\ before(rules[i].local, i) \in rules[i].from
                     /\ code[i].kind = "parameter_live" => rules[i].local \in Parameter
                     /\ code[i].kind = "storage_live" => rules[i].local \notin Parameter
               /\ \A p \in BorrowedPlaces(Term(mir, b)) : out[p[1]] = "initialized"
               /\ Term(mir, b).kind \in Leaving => \A l \in Local : out[l] = "dead"]

(* Mutant: two passes whatever the graph.                                    *)
TwoPasses(mir) == 2

StorageLimit(mir) == Len(mir.blocks) * 5 + 1

StorageFlow(mir) ==
    LET transfer(b, state) == StorageTransfer(mir, b, state) IN
    Flow(mir, [l \in Local |-> "dead"], transfer, mir_merge_storage, StorageLimit(mir))

mir_validate_storage(mir) == LET f == StorageFlow(mir) IN f.valid /\ ~f.changed

-----------------------------------------------------------------------------
(* Partial moves: the set of places that have been moved out.                *)

Available(holes, p) == ~\E h \in holes : paths_overlap(h, p)

PathStep(acc, ins) ==
    LET p == IF ins.kind = "store" THEN ins.arg.place ELSE ins.arg
        uncovered == {h \in acc.state : ~IsPrefix(p, h)} IN
    CASE ins.kind \in {"parameter_live", "storage_live", "drop_if_initialized", "storage_dead"} ->
           [acc EXCEPT !.state = clear_local_paths(@, {ins.arg})]
      [] ins.kind \in {"load_copy", "load_update"} ->
           [acc EXCEPT !.valid = @ /\ Available(acc.state, p)]
      [] ins.kind = "load_move" ->
           [valid |-> acc.valid /\ Available(acc.state, p),
            state |-> IF Whole(p) THEN acc.state ELSE uncovered \cup {p}]
      [] ins.kind = "drop_place_if_initialized" ->
           [valid |-> acc.valid /\ ~\E h \in acc.state : IsStrictPrefix(h, p),
            state |-> uncovered \cup {p}]
      [] ins.kind = "store" ->
           [valid |-> acc.valid /\ (Whole(p) \/ p \in acc.state),
            state |-> IF Whole(p) THEN clear_local_paths(acc.state, {p[1]}) ELSE acc.state \ {p}]
      [] OTHER -> acc

PathTransfer(mir, b, state) ==
    LET RECURSIVE read(_, _)
        read(acc, i) ==
          IF ~acc.valid \/ i > Len(Code(mir, b)) THEN acc
          ELSE read(PathStep(acc, Code(mir, b)[i]), i + 1)
        end(acc) == [acc EXCEPT !.valid =
                       @ /\ \A p \in BorrowedPlaces(Term(mir, b)) : Available(acc.state, p)] IN
    end(read([valid |-> TRUE, state |-> state], 1))

PathFlow(mir) ==
    LET transfer(b, state) == PathTransfer(mir, b, state)
        merge(left, right) == [valid |-> TRUE, state |-> left \cup right] IN
    Flow(mir, {}, transfer, merge,
         Len(mir.blocks) * (Cardinality(Place) + Cardinality(Local) + 1) + 1)

mir_validate_paths(mir) == LET f == PathFlow(mir) IN f.valid /\ ~f.changed

-----------------------------------------------------------------------------
(* Stack disciplines: each block is read once, with the stack it was first   *)
(* reached with, and every other way to it must have the same stack.  Step   *)
(* reads the i-th instruction of b, End its terminator; both change          *)
(* [valid, stack, aux], where aux is local to the block.                     *)

StackPass(mir, Step(_, _, _), End(_, _)) ==
    LET RECURSIVE read(_, _, _), visit(_, _)
        read(b, acc, i) ==
          IF ~acc.valid THEN acc
          ELSE IF i > Len(Code(mir, b)) THEN End(b, acc)
          ELSE read(b, Step(b, acc, i), i + 1)
        through(b, stack) == read(b, [valid |-> TRUE, stack |-> stack, aux |-> << >>], 1)
        visit(queue, incoming) ==
          LET b == Head(queue)
              out == through(b, incoming[b])
              targets == mir_block_successors(mir, b)
              new == SelectSeq(targets, LAMBDA t : t \notin DOMAIN incoming) IN
          \/ queue = << >>
          \/ /\ out.valid
             /\ Term(mir, b).kind \in Leaving => out.stack = << >>
             /\ \A i \in DOMAIN targets :
                    targets[i] \in DOMAIN incoming => incoming[targets[i]] = out.stack
             /\ visit(Tail(queue) \o new,
                      incoming @@ [t \in {new[i] : i \in DOMAIN new} |-> out.stack]) IN
    visit(<<1>>, 1 :> << >>)

NextInst(mir, b, i) ==
    IF i < Len(Code(mir, b)) THEN Code(mir, b)[i + 1] ELSE Inst("none", 0, << >>)

Invalid(acc) == [acc EXCEPT !.valid = FALSE]
Require(acc, condition) == [acc EXCEPT !.valid = condition]
Push(acc, x) == [acc EXCEPT !.stack = Append(@, x)]
Pop(acc, x) ==
    IF acc.stack = << >> \/ Last(acc.stack) # x THEN Invalid(acc)
    ELSE [acc EXCEPT !.stack = Front(@)]
EndsWith(s, suffix) ==
    Len(s) >= Len(suffix) /\ SubSeq(s, Len(s) - Len(suffix) + 1, Len(s)) = suffix

EnvelopeScope == Envelope[1].identity

SourceNodes(mir) == mir_collect_scope_chain(mir.callable.body, <<EnvelopeScope>>)
NodeOf(nodes, id) == CHOOSE n \in nodes : n.id = id

(* mir_scope_stack_matches_expression.                                       *)
MatchesSource(nodes, stack, id, include_self) ==
    LET n == NodeOf(nodes, id) IN
    stack = IF include_self /\ n.op = "block" THEN Append(n.chain, [kind |-> "block", id |-> id])
            ELSE n.chain

mir_scope_stack_owns_local(nodes, stack, local) ==
    \E i \in DOMAIN stack :
        \/ i = 1 /\ stack[1] = EnvelopeScope /\ local \in Parameter
        \/ i > 1 /\ local \in NodeOf(nodes, stack[i].id).locals

(* The scope that an enter marker announces.                                 *)
Announced(ins) ==
    CASE ins.kind = "match_arm" -> ins.arg.scope
      [] ins.kind = "handler_enter" -> [kind |-> "handler", id |-> ins.source]
      [] ins.kind = "region_enter" -> [kind |-> "region", id |-> ins.arg]

ScopeStep(mir, nodes, b, acc, i) ==
    LET ins == Code(mir, b)[i]
        next == NextInst(mir, b, i)
        left == Pop(acc, ins.arg)
        pushed == Push(acc, ins.arg)
        followed(kind) == next.kind = kind /\ next.arg = ins.arg.id IN
    CASE ins.kind = "scope_enter" ->
           Require(pushed, ins.arg.kind = "block"
                             => MatchesSource(nodes, pushed.stack, ins.arg.id, TRUE))
      [] ins.kind = "scope_exit" ->
           [left EXCEPT !.aux = Append(@, ins.arg),
                        !.valid = /\ @
                                  /\ ins.arg.kind = "handler" => followed("handler_exit")
                                  /\ ins.arg.kind = "region" => followed("region_exit")]
      [] ins.kind \in {"match_arm", "handler_enter", "region_enter"} ->
           Require(acc, next.kind = "scope_enter" /\ next.arg = Announced(ins))
      [] ins.kind \in {"drop_if_initialized", "storage_dead"} ->
           Require(acc, mir_scope_stack_owns_local(nodes, acc.stack, ins.arg))
      [] ins.source # << >> /\ ins.kind # "pattern_test" ->
           Require(acc, MatchesSource(nodes, acc.stack, ins.source,
                          ins.kind \notin {"store", "temporary_init", "compound_update"}))
      [] OTHER -> acc

(* A jump unwinds from its statement's scopes to its target's: the loop's,   *)
(* or none for unreachable.                                                  *)
Unwinds(nodes, acc, statement) ==
    LET chain == NodeOf(nodes, statement).chain IN
    /\ IsPrefix(acc.stack, chain)
    /\ EndsWith(acc.aux, Reverse(SubSeq(chain, Len(acc.stack) + 1, Len(chain))))

ScopeEnd(mir, nodes, b, acc) ==
    LET t == Term(mir, b) IN
    CASE t.kind \in {"invoke", "check_refined", "propagate"} ->
           Require(acc, MatchesSource(nodes, acc.stack, t.source, TRUE))
      [] t.kind \in {"break", "continue"} ->
           Require(acc, /\ Unwinds(nodes, acc, t.source)
                        /\ MatchesSource(nodes, acc.stack, t.arg, FALSE))
      [] t.kind = "unreachable" ->
           Require(acc, acc.stack = << >> /\ Unwinds(nodes, acc, t.source))
      [] OTHER -> acc

(* The scopes that must be entered, each exactly once.                       *)
RequiredScopes(nodes, reached) ==
    {EnvelopeScope}
      \cup {ScopeOf(n) : n \in {m \in nodes : /\ m.op \in {"block", "handle"}
                                              /\ m.id \in reached}}
      \cup {[kind |-> "match_arm", id |-> n.id] :
            n \in {m \in nodes : m.op = "arm" /\ m.of \in reached}}
      \cup {ScopeOf(n) : n \in {m \in nodes : m.op = "region"}}

mir_validate_scopes(mir) ==
    LET nodes == SourceNodes(mir)
        step(b, acc, i) == ScopeStep(mir, nodes, b, acc, i)
        end(b, acc) == ScopeEnd(mir, nodes, b, acc)
        entered == Args(Instructions(mir, {"scope_enter"})) IN
    /\ StackPass(mir, step, end)
    /\ IsInjective(entered)
    /\ RequiredScopes(nodes, mir_source_reaches_match(mir.callable.body))
         \subseteq {entered[i] : i \in DOMAIN entered}

mir_validate_regions(mir) ==
    LET step(b, acc, i) ==
          LET ins == Code(mir, b)[i] IN
          CASE ins.kind = "region_enter" -> Push(acc, ins.arg)
            [] ins.kind = "region_exit" -> Pop(acc, ins.arg)
            [] OTHER -> acc
        end(b, acc) == acc IN
    StackPass(mir, step, end)

(* mir_collect_handler_parents and mir_expected_handlers.                    *)
ExpectedHandlers(nodes, id) ==
    LET handlers == SelectSeq(NodeOf(nodes, id).chain, LAMBDA s : s.kind = "handler") IN
    [i \in DOMAIN handlers |-> handlers[i].id]

mir_validate_handlers(mir) ==
    LET nodes == SourceNodes(mir)
        step(b, acc, i) ==
          LET ins == Code(mir, b)[i] IN
          CASE ins.kind = "handler_enter" ->
                 Require(Push(acc, ins.source), acc.stack = ExpectedHandlers(nodes, ins.source))
            [] ins.kind = "handler_exit" ->
                 Require(Pop(acc, ins.arg),
                         acc.stack = Append(ExpectedHandlers(nodes, ins.arg), ins.arg))
            [] OTHER -> acc
        end(b, acc) ==
          IF Term(mir, b).kind # "invoke" THEN acc
          ELSE Require(acc, acc.stack = ExpectedHandlers(nodes, Term(mir, b).source)) IN
    StackPass(mir, step, end)

mir_validate_storage_order(mir) ==
    LET step(b, acc, i) ==
          LET ins == Code(mir, b)[i]
              next == NextInst(mir, b, i) IN
          CASE ins.kind \in {"parameter_live", "storage_live"} -> Push(acc, ins.arg)
            [] ins.kind = "drop_if_initialized" ->
                 Require(acc, \/ next.kind = "storage_dead" /\ next.arg = ins.arg
                              \/ next.kind = "store" /\ next.arg.place[1] = ins.arg)
            [] ins.kind = "drop_place_if_initialized" ->
                 Require(acc, next.kind = "store" /\ next.arg.place = ins.arg)
            [] ins.kind = "storage_dead" ->
                 IF /\ i > 1
                    /\ Code(mir, b)[i - 1].kind = "drop_if_initialized"
                    /\ Code(mir, b)[i - 1].arg = ins.arg
                 THEN Pop(acc, ins.arg) ELSE Invalid(acc)
            [] OTHER -> acc
        end(b, acc) == acc IN
    StackPass(mir, step, end)

(* Temporaries.  aux holds the floor of a run of drops: each drop of the run *)
(* removes the oldest temporary above it, and the run must reach it.         *)

PopAll(acc, temporaries) ==
    IF ~EndsWith(acc.stack, temporaries) THEN Invalid(acc)
    ELSE [acc EXCEPT !.stack = SubSeq(@, 1, Len(@) - Len(temporaries))]

Owned(arguments) ==
    LET owned == SelectSeq(arguments, LAMBDA a : a.access = "owned") IN
    [i \in DOMAIN owned |-> owned[i].temporary]

RunComplete(acc) == acc.aux = << >> \/ Len(acc.stack) = acc.aux[1]

DropTemporary(acc, drop) ==
    IF /\ drop.preserve < Len(acc.stack)
       /\ acc.aux \in {<< >>, <<drop.preserve>>}
       /\ acc.stack[drop.preserve + 1] = drop.temporary
    THEN [acc EXCEPT !.stack = RemoveAt(@, drop.preserve + 1), !.aux = <<drop.preserve>>]
    ELSE Invalid(acc)

TemporaryStep(acc, ins) ==
    LET ended == [acc EXCEPT !.aux = << >>] IN
    CASE ins.kind = "temporary_drop" -> DropTemporary(acc, ins.arg)
      [] ~RunComplete(acc) -> Invalid(acc)
      [] ins.kind = "temporary_init" ->
           Require(Push(ended, ins.arg.temporary), ~Contains(acc.stack, ins.arg.temporary))
      [] ins.kind = "construct" -> PopAll(ended, Owned(ins.arg))
      [] ins.kind = "compound_update" -> Pop(ended, ins.arg.previous)
      [] ins.kind \in {"pattern_test", "pattern_value", "match_arm"} ->
           Require(ended, Contains(acc.stack, ins.arg.scrutinee))
      [] OTHER -> ended


TemporaryEnd(acc, t) ==
    CASE ~RunComplete(acc) -> Invalid(acc)
      [] t.kind \in {"invoke", "check_refined"} -> PopAll(acc, Owned(t.arg))
      [] t.kind = "propagate" -> Pop(acc, t.arg)
      [] OTHER -> acc

mir_validate_temporaries(mir) ==
    LET step(b, acc, i) == TemporaryStep(acc, Code(mir, b)[i])
        end(b, acc) == TemporaryEnd(acc, Term(mir, b))
        inits == Args(Instructions(mir, {"temporary_init"}))
        initialized == [i \in DOMAIN inits |-> inits[i].temporary] IN
    /\ \A t \in 1..mir.temporaries : Cardinality({i \in DOMAIN inits : initialized[i] = t}) = 1
    /\ StackPass(mir, step, end)

-----------------------------------------------------------------------------
(* What the source requires: each match, handler, propagation and call once  *)
(* if it is reached and not at all otherwise, statements in source order.    *)

Count(s, x) == Cardinality({i \in DOMAIN s : s[i] = x})

(* The markers, matches, handlers and propagations in sol_mir_validate.      *)
SourcesRepresented(mir) ==
    LET scopes == Args(Instructions(mir, {"scope_enter", "scope_exit"}))
        tests == Instructions(mir, {"pattern_test"})
        ordinals(n) == LET of == SelectSeq(tests, LAMBDA i : i.source = n.id) IN
                       [i \in DOMAIN of |-> of[i].arg.ordinal]
        failures == Sources(Terminators(mir, {"match_failure"}))
        enters == Sources(Instructions(mir, {"handler_enter"}))
        propagations == Sources(Terminators(mir, {"propagate"}))
        times(n, once) ==
          /\ n.op = "match" => /\ ordinals(n) = [i \in 1..(once * n.arms) |-> i]
                               /\ Count(failures, n.id) = once
          /\ n.op = "handle" => Count(enters, n.id) = once
          /\ n.op = "propagate" => Count(propagations, n.id) = once
        represented(reached) ==
          /\ \A i \in DOMAIN scopes :
                scopes[i].kind \in {"block", "handler"} => scopes[i].id \in reached
          /\ \A n \in SourceNodes(mir) : times(n, IF n.id \in reached THEN 1 ELSE 0) IN
    represented(mir_source_reaches_match(mir.callable.body))

mir_validate_source_events(mir) ==
    LET body == mir.callable.body
        left == {l.statement : l \in {mir.loops[i] : i \in {j \in DOMAIN mir.loops :
                                                           mir.loops[j].exit # 0}}}
        reads == Sources(Instructions(mir, {"load_update"}))
        compound == Args(Instructions(mir, {"compound_update"}))
        written == [i \in DOMAIN compound |-> compound[i].statement]
        invokes == Sources(Terminators(mir, {"invoke"}))
        once(updates) ==
          /\ \A u \in updates : /\ Count(reads, u.id) = 1
                                 /\ Count(written, u.id) = IF u.never THEN 0 ELSE 1
          /\ ToSet(reads \o written) \subseteq {u.id : u \in updates}
        ordered(statements) ==
          LET with(ops) == SelectSeq(statements, LAMBDA s : s.op \in ops)
              expected(ops) == [i \in DOMAIN with(ops) |-> with(ops)[i].id] IN
          /\ Args(Instructions(mir, {"region_enter"})) = expected({"region"})
          /\ [i \in DOMAIN mir.loops |-> mir.loops[i].statement] = expected({"loop", "while"})
          /\ Sources(Terminators(mir, {"unreachable"})) = expected({"unreachable"})
          /\ Sources(Terminators(mir, {"break", "continue"})) = expected({"break", "continue"})
          /\ once(ToSet(with({"update"})))
        called(reached) ==
          \A n \in SourceNodes(mir) :
             n.function => Count(invokes, n.id) = IF n.id \in reached THEN 1 ELSE 0 IN
    /\ ordered(mir_collect_source_statements(body, left))
    /\ called(mir_source_reaches_match(body))

-----------------------------------------------------------------------------
(* Dominators (Cooper, Harvey and Kennedy).                                  *)

RECURSIVE Postorder(_, _, _)
Postorder(mir, acc, b) ==
    LET visit(a, t) == IF t \in a.seen THEN a ELSE Postorder(mir, a, t)
        done == FoldLeft(visit, [acc EXCEPT !.seen = @ \cup {b}], mir_block_successors(mir, b)) IN
    [done EXCEPT !.postorder = Append(@, b)]

RECURSIVE mir_intersect_idom(_, _, _, _)
mir_intersect_idom(left, right, idom, rpo_index) ==
    IF left = right THEN left
    ELSE IF rpo_index[left] > rpo_index[right]
      THEN mir_intersect_idom(idom[left], right, idom, rpo_index)
    ELSE mir_intersect_idom(left, idom[right], idom, rpo_index)

mir_compute_idom(mir) ==
    LET count == Len(mir.blocks)
        rpo == Reverse(Postorder(mir, [seen |-> {}, postorder |-> << >>], 1).postorder)
        rpo_index == [b \in DOMAIN mir.blocks |-> CHOOSE i \in DOMAIN rpo : rpo[i] = b]
        predecessors == [b \in DOMAIN mir.blocks |->
          SelectSeq([c \in DOMAIN mir.blocks |-> c],
                    LAMBDA c : Contains(mir_block_successors(mir, c), b))]
        RECURSIVE sweep(_, _), pass(_)
        sweep(acc, i) ==
          LET known == SelectSeq(predecessors[rpo[i]], LAMBDA p : acc.idom[p] # 0)
              intersect(next, p) == mir_intersect_idom(next, p, acc.idom, rpo_index)
              next == FoldLeft(intersect, Head(known), Tail(known)) IN
          IF i > Len(rpo) THEN acc
          ELSE IF known = << >> \/ next = acc.idom[rpo[i]] THEN sweep(acc, i + 1)
          ELSE sweep([acc EXCEPT !.idom[rpo[i]] = next, !.changed = TRUE], i + 1)
        pass(acc) ==
          IF acc.changed /\ acc.passes < count * count + 1
          THEN pass(sweep([acc EXCEPT !.changed = FALSE, !.passes = @ + 1], 2))
          ELSE acc
        done == pass([idom |-> [b \in DOMAIN mir.blocks |-> IF b = 1 THEN 1 ELSE 0],
                      changed |-> TRUE, passes |-> 0]) IN
    IF Len(rpo) # count \/ mir_predecessor_count(mir, 1) # 0
    THEN [valid |-> FALSE, idom |-> << >>]
    ELSE [valid |-> ~done.changed /\ \A b \in DOMAIN mir.blocks : done.idom[b] # 0,
          idom |-> done.idom]

RECURSIVE Dominates(_, _, _)
Dominates(idom, b, c) == b = c \/ (c # 1 /\ Dominates(idom, b, idom[c]))

-----------------------------------------------------------------------------
(* SSA values: a use is dominated by its definition, and an affine value is  *)
(* used at most once on each path.                                           *)

Uses(ins) ==
    CASE ins.kind \in {"store", "temporary_init"} -> <<ins.arg.value>>
      [] ins.kind = "compound_update" -> <<ins.arg.right>>
      [] ins.kind = "expression_result" -> <<ins.arg>>
      [] OTHER -> << >>

(* The values a terminator reads itself: a condition, a result or, for the   *)
(* checks of a result, the value that is checked.                            *)
Checked(t) == IF t.kind = "check_contract" THEN t.edges[1].arguments ELSE << >>
Direct(t) == IF t.kind \in {"branch", "return", "panic"} THEN <<t.arg>> ELSE Checked(t)

mir_ssa_use_available(mir, idom, v, b, before) ==
    LET value == mir.values[v] IN
    CASE value.kind = "terminator" -> FALSE
      [] value.block # b -> Dominates(idom, value.block, b)
      [] OTHER -> value.kind = "parameter" \/ value.definition < before

mir_validate_ssa_dominance(mir) ==
    LET dominators == mir_compute_idom(mir)
        available(v, b, i) == mir_ssa_use_available(mir, dominators.idom, v, b, i)
        end(b) == Len(Code(mir, b)) + 1
        carried(b, v) == mir.values[v].kind = "terminator" \/ available(v, b, end(b)) IN
    /\ dominators.valid
    /\ \A b \in DOMAIN mir.blocks :
         /\ \A i \in DOMAIN Code(mir, b) : \A k \in DOMAIN Uses(Code(mir, b)[i]) :
                available(Uses(Code(mir, b)[i])[k], b, i)
         /\ \A k \in DOMAIN Direct(Term(mir, b)) : available(Direct(Term(mir, b))[k], b, end(b))
         /\ \A k \in DOMAIN Term(mir, b).edges :
                LET arguments == Term(mir, b).edges[k].arguments IN
                \A j \in DOMAIN arguments : carried(b, arguments[j])

(* The state is the set of affine values that cannot be used; sound says     *)
(* that none of them was.                                                    *)
mir_ssa_take(mir, acc, values) ==
    LET taken == SelectSeq(values, LAMBDA v : mir.values[v].affine) IN
    [unavailable |-> acc.unavailable \cup ToSet(taken),
     sound |-> /\ acc.sound
               /\ IsInjective(taken)
               /\ ToSet(taken) \cap acc.unavailable = {}]

mir_ssa_define(acc, values) == [acc EXCEPT !.unavailable = @ \ values]

(* A block's uses follow its definitions, as mir_validate_ssa_dominance has  *)
(* shown before.                                                             *)
mir_ssa_transfer_block(mir, b, unavailable) ==
    LET code == Code(mir, b)
        results == {code[i].result : i \in DOMAIN code}
        entered == mir_ssa_define([unavailable |-> unavailable, sound |-> TRUE], results)
        body == mir_ssa_take(mir, entered, FlattenSeq([i \in DOMAIN code |-> Uses(code[i])]))
        t == Term(mir, b) IN
    IF t.kind \in {"return", "panic"} THEN mir_ssa_take(mir, body, <<t.arg>>)
    ELSE [body EXCEPT !.sound = @ /\ ToSet(Checked(t)) \cap body.unavailable = {}]

mir_ssa_transfer_edge(mir, t, k, acc) ==
    LET carried == SelectSeq(t.edges[k].arguments,
                             LAMBDA v : mir.values[v].kind # "terminator")
        dropped == IF k = 1 THEN << >> ELSE Checked(t) IN
    mir_ssa_define(mir_ssa_take(mir, acc, dropped \o carried),
                   ToSet(mir.blocks[t.edges[k].block].parameters))

mir_validate_ssa_ownership(mir) ==
    LET affine == {v \in DOMAIN mir.values : mir.values[v].affine}
        through(b, unavailable) == mir_ssa_transfer_block(mir, b, unavailable)
        RECURSIVE settle(_)
        settle(incoming) ==
          LET out == [b \in DOMAIN incoming |-> through(b, incoming[b])]
              edges == UNION {{b} \X DOMAIN Term(mir, b).edges : b \in DOMAIN incoming}
              target(e) == Term(mir, e[1]).edges[e[2]].block
              sent(t) == {mir_ssa_transfer_edge(mir, Term(mir, e[1]), e[2], out[e[1]]).unavailable :
                          e \in {f \in edges : target(f) = t}}
              known(t) == IF t \in DOMAIN incoming THEN {incoming[t]} ELSE {}
              next == [t \in DOMAIN incoming \cup {target(e) : e \in edges} |->
                         UNION (known(t) \cup sent(t))] IN
          IF next = incoming THEN incoming ELSE settle(next)
        settled == settle(1 :> affine) IN
    \A b \in DOMAIN mir.blocks :
        LET out == through(b, settled[b]) IN
        /\ b \in DOMAIN settled
        /\ out.sound
        /\ \A k \in DOMAIN Term(mir, b).edges :
               mir_ssa_transfer_edge(mir, Term(mir, b), k, out).sound

-----------------------------------------------------------------------------
(* Contracts: no success avoids a check, and the result passes all of them.  *)

(* The block after the checks i..n of a phase, from block b; 0 if they are   *)
(* not there in order, each the only way to the next.                        *)
RECURSIVE AfterChecks(_, _, _, _, _)
AfterChecks(mir, b, phase, i, n) ==
    LET t == Term(mir, b)
        next == t.edges[1].block IN
    IF i > n THEN b
    ELSE IF /\ t.kind = "check_contract"
            /\ t.arg = <<phase, i>>
            /\ Checked(t) = mir.blocks[b].parameters
            /\ mir_predecessor_count(mir, next) = 1
            /\ Len(mir.blocks[next].parameters) = Len(Checked(t))
      THEN AfterChecks(mir, next, phase, i + 1, n)
    ELSE 0

mir_validate_contract_envelope(mir) ==
    LET c == mir.callable
        checks == Len(Terminators(mir, {"check_contract"}))
        violations == Len(Terminators(mir, {"contract_violation"}))
        final == AfterChecks(mir, mir.epilogue, "ensures", 1, c.ensures)
        code == Code(mir, mir.contract_body)
        early(i) == code[i].kind \in {"capture_snapshot", "parameter_live", "scope_enter"}
        snapshots(s) == Args(SelectSeq(s, LAMBDA ins : ins.kind = "capture_snapshot")) IN
    IF ~contracted(c) THEN checks = 0 /\ violations = 0
    ELSE /\ checks = c.requires + c.ensures /\ violations = checks
         /\ Len(Terminators(mir, {"return"})) = 1
         /\ AfterChecks(mir, 1, "requires", 1, c.requires) = mir.contract_body
         /\ \A i \in DOMAIN code :
                code[i].kind = "capture_snapshot" => \A j \in 1..i : early(j)
         /\ snapshots(code) = [i \in 1..c.snapshots |-> i]
         /\ Len(Instructions(mir, {"capture_snapshot"})) = c.snapshots
         /\ final # 0
         /\ Term(mir, final).kind = "return"
         /\ Term(mir, final).arg = mir.blocks[final].parameters[1]
         /\ \A b \in DOMAIN mir.blocks :
                Term(mir, b).kind = "goto" /\ Term(mir, b).edges[1].block = mir.epilogue
                  => Len(Term(mir, b).edges[1].arguments) = 1

-----------------------------------------------------------------------------
(* The passes of sol_mir_validate in their order.                            *)
sol_mir_validate(mir) ==
    /\ SourcesRepresented(mir)
    /\ mir_validate_ssa_dominance(mir)
    /\ mir_validate_ssa_ownership(mir)
    /\ mir_validate_contract_envelope(mir)
    /\ mir_validate_storage(mir)
    /\ mir_validate_paths(mir)
    /\ mir_validate_scopes(mir)
    /\ mir_validate_regions(mir)
    /\ mir_validate_handlers(mir)
    /\ mir_validate_storage_order(mir)
    /\ mir_validate_temporaries(mir)
    /\ mir_validate_source_events(mir)
=============================================================================
