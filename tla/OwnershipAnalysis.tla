------------------------- MODULE OwnershipAnalysis --------------------------
(***************************************************************************)
(* The ownership analysis of a callable's body (src/src/ownership.c) as      *)
(* operators on its state.  A body is an expression: a record whose op names *)
(* its kind.  A place is a local followed by field names.                    *)
(***************************************************************************)
EXTENDS Naturals, Sequences, FiniteSets, SequencesExt

CONSTANTS Local,
          Place,      \* sequences <<local, field, ...>>
          CopyPlace,  \* places of a copyable type
          Mutable,    \* locals declared mutable
          Parameter,  \* locals bound on entry
          Access      \* access mode of every local: "owned", "shared" or "exclusive"

ASSUME PlaceAssumption ==
    /\ \A p \in Place : p # << >> /\ p[1] \in Local
    /\ \A l \in Local : <<l>> \in Place
    /\ CopyPlace \subseteq Place /\ Mutable \cup Parameter \subseteq Local
    /\ Access \in [Local -> {"owned", "shared", "exclusive"}]

(* A way out of a loop's body that no jump has taken yet.                    *)
NoEdge == [unavailable |-> {}, initialized |-> {}, taken |-> FALSE]

(* struct Ownership.  error is "none", the kind of the first diagnostic      *)
(* otherwise; an analysis stops at its first error.                          *)
Entry ==
    [error |-> "none", reachable |-> TRUE,
     unavailable |-> {}, initialized |-> Parameter, introduced |-> Parameter,
     depths |-> [l \in Local |-> 0], region |-> 0, modified |-> {}, loans |-> {},
     in_loop |-> FALSE, loop_introduced |-> {}, break |-> NoEdge, back |-> NoEdge]

Live(a) == a.error = "none" /\ a.reachable
Error(a, kind) == [a EXCEPT !.error = kind]
Stop(a) == [a EXCEPT !.reachable = FALSE]

-----------------------------------------------------------------------------
(* Paths.                                                                    *)

paths_overlap(p, q) == IsPrefix(p, q) \/ IsPrefix(q, p)

ExactPathAvailable(a, p) == p \notin a.unavailable

path_available(a, p) == ~\E q \in a.unavailable : paths_overlap(p, q)

move_path(a, p) ==
    [a EXCEPT !.unavailable = {q \in @ : ~IsPrefix(p, q)} \cup {p}]

CanRestore(a, p) == ~\E q \in a.unavailable : IsStrictPrefix(q, p)

restore_path(a, p) == [a EXCEPT !.unavailable = {q \in @ : ~IsPrefix(p, q)}]

clear_local_paths(unavailable, locals) == {q \in unavailable : q[1] \notin locals}

SharedLoansIgnored(a, p, access) ==
    \E loan \in a.loans : paths_overlap(p, loan[1]) /\ loan[2] = "exclusive"

loan_conflicts(a, p, access) ==
    \E loan \in a.loans :
        paths_overlap(p, loan[1]) /\ "exclusive" \in {access, loan[2]}

Introduce(a, locals, initialized) ==
    [a EXCEPT !.unavailable = clear_local_paths(@, locals),
              !.introduced = @ \cup locals,
              !.initialized = IF initialized THEN @ \cup locals ELSE @ \ locals,
              !.depths = [l \in Local |-> IF l \in locals THEN a.region ELSE @[l]]]

(* The end of a scope.                                                       *)
Forget(a, locals) ==
    [a EXCEPT !.unavailable = clear_local_paths(@, locals),
              !.introduced = @ \ locals, !.initialized = @ \ locals]

-----------------------------------------------------------------------------
(* Uses.                                                                     *)

NeverEscapes(a, l) == FALSE

(* A write from within an explicit region to a local introduced outside it.  *)
Escapes(a, l) == a.region > a.depths[l]

Writable(a, l) ==
    \/ Access[l] = "owned" /\ l \in Mutable \ Parameter
    \/ Access[l] = "owned" /\ l \in a.modified
    \/ Access[l] = "exclusive" /\ l \in Parameter

begin_loan(a, p, access) ==
    LET l == p[1] IN
    IF l \notin a.introduced THEN Error(a, "ownership")
    ELSE IF l \notin a.initialized THEN Error(a, "initialization")
    ELSE IF ~path_available(a, p) THEN Error(a, "ownership")
    ELSE IF Access[l] = "shared" /\ access = "exclusive" THEN Error(a, "ownership")
    ELSE IF access = "exclusive" /\ ~Writable(a, l) THEN Error(a, "ownership")
    ELSE IF access = "exclusive" /\ Escapes(a, l) /\ p \notin CopyPlace THEN Error(a, "region")
    ELSE IF loan_conflicts(a, p, access) THEN Error(a, "ownership")
    ELSE [a EXCEPT !.loans = @ \cup {<<p, access>>}]

(* SOL_IR_EXPR_PLACE: a copy or a move, by its type.                         *)
UsePlace(a, p) ==
    LET l == p[1]  move == p \notin CopyPlace IN
    IF l \notin a.introduced THEN Error(a, "internal")
    ELSE IF l \notin a.initialized THEN Error(a, "initialization")
    ELSE IF ~path_available(a, p) THEN Error(a, "ownership")
    ELSE IF loan_conflicts(a, p, IF move THEN "exclusive" ELSE "shared")
      THEN Error(a, "ownership")
    ELSE IF move /\ Access[l] # "owned" THEN Error(a, "ownership")
    ELSE IF move THEN move_path(a, p) ELSE a

-----------------------------------------------------------------------------
(* Joins: a place is lost if it is on some way, a local is initialized if it *)
(* is on every way.                                                          *)

Flags(a) == [unavailable |-> a.unavailable, initialized |-> a.initialized]

WithFlags(a, s) == [a EXCEPT !.unavailable = s.unavailable, !.initialized = s.initialized]

(* join_states and intersect_states.                                         *)
Join(ways) ==
    [unavailable |-> UNION {w.unavailable : w \in ways},
     initialized |-> {l \in Local : \A w \in ways : l \in w.initialized}]

(* The state where the ways meet: a itself, unreachable, when there is none. *)
Meet(a, ways) ==
    IF ways = {} THEN Stop(a)
    ELSE [WithFlags(a, Join(ways)) EXCEPT !.reachable = TRUE]

LiveFlags(a) == IF Live(a) THEN {Flags(a)} ELSE {}

(* The locals of the loop's body do not survive the jump.                    *)
join_edge(a, edge) ==
    LET lexical == a.introduced \ a.loop_introduced
        here == [unavailable |-> clear_local_paths(a.unavailable, lexical),
                 initialized |-> a.initialized \ lexical]
        all == IF edge.taken THEN Join({edge, here}) ELSE here IN
    [unavailable |-> all.unavailable, initialized |-> all.initialized, taken |-> TRUE]

-----------------------------------------------------------------------------
(* Expressions and statements.                                               *)

IsAffine(e) ==
    \/ e.op = "new"
    \/ e.op = "place" /\ e.p \notin CopyPlace
    \/ e.op = "call" /\ e.affine

(* The callee may return: an expression of type Never does not.              *)
IsNever(e) == e.op = "never"

(* What ir.c admits as a match guard: no update, no exclusive operand and no *)
(* transfer of control.                                                      *)
RECURSIVE sol_ir_guard_expression_pure(_)
sol_ir_guard_expression_pure(e) ==
    CASE e.op = "call" -> \A i \in DOMAIN e.operands :
                              /\ e.operands[i].access # "exclusive"
                              /\ sol_ir_guard_expression_pure(e.operands[i].e)
      [] e.op = "and" -> sol_ir_guard_expression_pure(e.left)
                           /\ sol_ir_guard_expression_pure(e.right)
      [] e.op = "if" -> \A b \in {e.condition, e.then, e.otherwise} :
                              sol_ir_guard_expression_pure(b)
      [] e.op = "match" -> /\ sol_ir_guard_expression_pure(e.scrutinee)
                           /\ \A i \in DOMAIN e.arms :
                                 /\ sol_ir_guard_expression_pure(e.arms[i].guard)
                                 /\ sol_ir_guard_expression_pure(e.arms[i].body)
      [] e.op = "block" -> \A i \in DOMAIN e.statements :
                              sol_ir_guard_expression_pure(e.statements[i])
      [] e.op = "let" -> sol_ir_guard_expression_pure(e.e)
      [] OTHER -> e.op \in {"lit", "test", "new", "never", "none", "place"}

RECURSIVE analyze_expression(_, _)

RECURSIVE AnalyzeAll(_, _)
AnalyzeAll(a, s) ==
    IF ~Live(a) \/ s = << >> THEN a
    ELSE AnalyzeAll(analyze_expression(a, Head(s)), Tail(s))

AnalyzeOperand(a, operand) ==
    IF operand.access = "owned" THEN analyze_expression(a, operand.e)
    ELSE begin_loan(a, operand.e.p, operand.access)

RECURSIVE AnalyzeOperands(_, _)
AnalyzeOperands(a, operands) ==
    IF ~Live(a) \/ operands = << >> THEN a
    ELSE AnalyzeOperands(AnalyzeOperand(a, Head(operands)), Tail(operands))

AnalyzeCall(a, operands) ==
    [AnalyzeOperands(a, operands) EXCEPT !.loans = a.loans]

(* One branch after the other, each from the flags of a.                     *)
analyze_branches(a, left_id, right_id) ==
    LET left == analyze_expression(a, left_id)
        right == analyze_expression([WithFlags(left, Flags(a)) EXCEPT !.reachable = TRUE],
                                    right_id) IN
    IF right.error # "none" THEN right
    ELSE Meet(WithFlags(right, Flags(a)), LiveFlags(left) \cup LiveFlags(right))

(* A skipped right operand leaves the state as it is.                        *)
AnalyzeShortCircuit(a, e) ==
    LET right == analyze_expression(a, e) IN
    IF right.error # "none" THEN right
    ELSE Meet(right, {Flags(a)} \cup LiveFlags(right))

ConsumesInGuard(before, after) ==
    \/ \E q \in after.unavailable \ before.unavailable : <<q[1]>> \notin CopyPlace
    \/ \E l \in before.initialized \ after.initialized : <<l>> \notin CopyPlace

(* One arm: its bindings, its guard, whose effects on the flags are dropped, *)
(* and its body.  ways collects the flags of the arms that complete.         *)
AnalyzeArm(before, acc, arm) ==
    LET start == Introduce([WithFlags(acc.a, Flags(before)) EXCEPT !.reachable = TRUE],
                           arm.locals, TRUE)
        guard == analyze_expression(start, arm.guard)
        chosen == [WithFlags(guard, Flags(start)) EXCEPT !.reachable = TRUE]
        done == Forget(analyze_expression(chosen, arm.body), arm.locals) IN
    IF acc.a.error # "none" THEN acc
    ELSE IF guard.error # "none" THEN [acc EXCEPT !.a = guard]
    ELSE IF ConsumesInGuard(before, guard) THEN [acc EXCEPT !.a = Error(guard, "ownership")]
    ELSE [a |-> done, ways |-> acc.ways \cup LiveFlags(done)]

analyze_match(a, e) ==
    LET before == analyze_expression(a, e.scrutinee)
        arm(acc, b) == AnalyzeArm(before, acc, b)
        all == FoldLeft(arm, [a |-> before, ways |-> {}], e.arms) IN
    IF ~Live(before) THEN before
    ELSE IF all.a.error # "none" THEN all.a ELSE Meet(all.a, all.ways)

analyze_assignment(a, s) ==
    LET l == s.p[1]
        r == analyze_expression(a, s.e) IN
    IF ~Writable(a, l) THEN Error(a, "ownership")
    ELSE IF l \notin a.introduced THEN Error(a, "internal")
    ELSE IF (s.compound \/ Len(s.p) > 1) /\ l \notin a.initialized
      THEN Error(a, "initialization")
    ELSE IF s.compound /\ ~path_available(a, s.p) THEN Error(a, "ownership")
    ELSE IF ~Live(r) THEN r
    ELSE IF loan_conflicts(r, s.p, "exclusive") THEN Error(r, "ownership")
    ELSE IF Escapes(r, l) /\ s.p \notin CopyPlace THEN Error(r, "region")
    ELSE IF ~CanRestore(r, s.p) THEN Error(r, "ownership")
    ELSE [restore_path(r, s.p) EXCEPT
            !.initialized = IF Len(s.p) = 1 THEN @ \cup {l} ELSE @]

analyze_modify(a, s) ==
    LET l == s.local IN
    IF l \notin a.introduced \/ Access[l] # "owned" \/ l \in Mutable \ Parameter
      THEN Error(a, "internal")
    ELSE IF l \notin a.initialized THEN Error(a, "initialization")
    ELSE IF ~path_available(a, <<l>>) \/ loan_conflicts(a, <<l>>, "exclusive")
      THEN Error(a, "ownership")
    ELSE [analyze_expression([a EXCEPT !.modified = @ \cup {l}], s.body)
            EXCEPT !.modified = a.modified]

AnalyzeRequire(a, s) ==
    LET condition == analyze_expression(a, s.condition)
        fallback == analyze_expression(condition, s.fallback) IN
    IF ~Live(condition) THEN condition
    ELSE IF fallback.error # "none" THEN fallback
    ELSE IF fallback.reachable THEN Error(fallback, "internal")
    ELSE [condition EXCEPT !.break = fallback.break, !.back = fallback.back]

AnalyzeReturn(a, e) ==
    LET r == analyze_expression(a, e) IN
    IF Live(r) /\ a.region # 0 /\ IsAffine(e) THEN Error(r, "region")
    ELSE Stop(r)

(* The state after the condition of one pass over a loop from its header.    *)
LoopCondition(a, s, header) ==
    analyze_expression(
        [WithFlags(a, header) EXCEPT !.in_loop = TRUE, !.loop_introduced = a.introduced,
                                     !.break = NoEdge, !.back = NoEdge],
        s.condition)

(* The state after the body, its end joined to the back edge.                *)
LoopPass(a, s, header) ==
    LET end == analyze_expression(LoopCondition(a, s, header), s.body) IN
    IF Live(end) THEN [end EXCEPT !.back = join_edge(end, @)] ELSE end

OnePass == 1

LoopLimit == Cardinality(Place) + Cardinality(Local) + 1

(* The last pass of the iteration with the header it started from.           *)
RECURSIVE FixedPoint(_, _, _, _)
FixedPoint(a, s, header, iteration) ==
    LET pass == LoopPass(a, s, header)
        ways == {Flags(a)} \cup (IF pass.back.taken THEN {pass.back} ELSE {})
        next == Join(ways) IN
    IF pass.error # "none" \/ next = header THEN [pass |-> pass, header |-> header]
    ELSE IF iteration = LoopLimit THEN [pass |-> Error(a, "internal"), header |-> header]
    ELSE FixedPoint(a, s, next, iteration + 1)

(* A while loop is left where its condition is false; loop has no condition. *)
analyze_loop(a, s) ==
    LET fixed == FixedPoint(a, s, Flags(a), 1)
        condition == LoopCondition(a, s, fixed.header)
        exits == (IF s.op = "while" THEN LiveFlags(condition) ELSE {})
                   \cup (IF fixed.pass.break.taken THEN {fixed.pass.break} ELSE {}) IN
    IF fixed.pass.error # "none" THEN Error(a, fixed.pass.error)
    ELSE Meet(a, exits)

AnalyzeJump(a, op) ==
    IF ~a.in_loop THEN Error(a, "internal")
    ELSE IF op = "break" THEN Stop([a EXCEPT !.break = join_edge(a, @)])
    ELSE Stop([a EXCEPT !.back = join_edge(a, @)])

(* The operands are the authority and the provider, both shared.             *)
AnalyzeHandle(a, e) ==
    [analyze_expression(AnalyzeOperands(a, e.operands), e.body)
        EXCEPT !.loans = a.loans]

analyze_expression_inner(a, e) ==
    CASE e.op = "place" -> UsePlace(a, e.p)
      [] e.op = "call" -> AnalyzeCall(a, e.operands)
      [] e.op = "and" -> LET left == analyze_expression(a, e.left) IN
                         IF Live(left) THEN AnalyzeShortCircuit(left, e.right) ELSE left
      [] e.op = "if" -> LET c == analyze_expression(a, e.condition) IN
                        IF Live(c) THEN analyze_branches(c, e.then, e.otherwise) ELSE c
      [] e.op = "match" -> analyze_match(a, e)
      [] e.op = "block" -> Forget(AnalyzeAll(a, e.statements), e.cleanup)
      [] e.op = "propagate" -> IF a.region # 0 /\ e.affine THEN Error(a, "region")
                               ELSE analyze_expression(a, e.operand)
      [] e.op = "handle" -> AnalyzeHandle(a, e)
      [] e.op = "let" -> LET r == analyze_expression(a, e.e) IN
                         IF Live(r) THEN Introduce(r, {e.local}, TRUE) ELSE r
      [] e.op = "declare" -> Introduce(a, {e.local}, FALSE)
      [] e.op = "assign" -> analyze_assignment(a, e)
      [] e.op = "modify" -> analyze_modify(a, e)
      [] e.op \in {"loop", "while"} -> analyze_loop(a, e)
      [] e.op \in {"panic", "unreachable"} -> Stop(a)
      [] e.op = "require" -> AnalyzeRequire(a, e)
      [] e.op \in {"break", "continue"} -> AnalyzeJump(a, e.op)
      [] e.op = "return" -> AnalyzeReturn(a, e.e)
      [] e.op = "region" -> [analyze_expression([a EXCEPT !.region = @ + 1], e.body)
                               EXCEPT !.region = a.region]
      [] OTHER -> a

analyze_expression(a, e) ==
    IF ~Live(a) THEN a
    ELSE LET r == analyze_expression_inner(a, e) IN
         IF IsNever(e) /\ Live(r) THEN Stop(r) ELSE r

(* run_ownership: the verdict on one callable.                               *)
run_ownership(body) == analyze_expression(Entry, body)
=============================================================================
