----------------------------- MODULE MirSource ------------------------------
(***************************************************************************)
(* What the MIR validator derives from the IR of a callable, independently   *)
(* of the lowering: which expressions have type Never, which sources must be *)
(* represented, and the scopes around each of them (src/src/mir.c).          *)
(***************************************************************************)
EXTENDS Naturals, Sequences, FiniteSets, SequencesExt

(* The subexpressions of an expression or a statement, in source order,      *)
(* except those of the arms of a match.                                      *)
Children(e) ==
    CASE e.op \in {"call", "handle"} ->
           [i \in DOMAIN e.operands |-> e.operands[i].e]
             \o (IF e.op = "handle" THEN <<e.body>> ELSE << >>)
      [] e.op = "block" -> e.statements
      [] e.op = "if" -> <<e.condition, e.then, e.otherwise>>
      [] e.op = "and" -> <<e.left, e.right>>
      [] e.op \in {"while", "loop"} -> <<e.condition, e.body>>
      [] e.op = "match" -> <<e.scrutinee>>
      [] e.op \in {"region", "modify"} -> <<e.body>>
      [] e.op = "require" -> <<e.condition, e.fallback>>
      [] e.op = "propagate" -> <<e.operand>>
      [] e.op \in {"let", "assign", "return"} -> <<e.e>>
      [] OTHER -> << >>

Guarded(arm) == arm.guard.op # "none"

-----------------------------------------------------------------------------
(* Types: which expressions never produce a value.                           *)

RECURSIVE TypeNever(_), SawBreak(_)

(* Whether the loop can be left.                                             *)
Broken(s) == SawBreak(s.condition) \/ (~TypeNever(s.condition) /\ SawBreak(s.body))

Terminates(s) ==
    CASE s.op \in {"return", "break", "continue", "panic", "unreachable"} -> TRUE
      [] s.op = "loop" -> ~Broken(s)
      [] s.op = "while" -> TypeNever(s.condition) /\ ~Broken(s)
      [] s.op \in {"let", "assign"} -> TypeNever(s.e)
      [] s.op \in {"region", "modify"} -> TypeNever(s.body)
      [] s.op \in {"require", "declare"} -> FALSE
      [] OTHER -> TypeNever(s)

TypeNever(e) ==
    CASE e.op = "never" -> TRUE
      [] e.op = "if" -> TypeNever(e.then) /\ TypeNever(e.otherwise)
      [] e.op = "match" -> \A i \in DOMAIN e.arms : TypeNever(e.arms[i].body)
      [] e.op = "handle" -> TypeNever(e.body)
      [] e.op = "block" -> \E i \in DOMAIN e.statements : Terminates(e.statements[i])
      [] OTHER -> FALSE

(* A break of the enclosing loop in code that has not terminated before it.  *)
SawBreak(e) ==
    CASE e.op = "break" -> TRUE
      [] e.op \in {"while", "loop"} -> FALSE
      [] e.op = "block" ->
           \E i \in DOMAIN e.statements :
               /\ SawBreak(e.statements[i])
               /\ \A j \in 1..(i - 1) : ~Terminates(e.statements[j])
      [] e.op = "match" ->
           \/ SawBreak(e.scrutinee)
           \/ \E i \in DOMAIN e.arms : SawBreak(e.arms[i].body)
      [] OTHER -> \E i \in DOMAIN Children(e) : SawBreak(Children(e)[i])

-----------------------------------------------------------------------------
(* Reachability of sources.                                                  *)

(* The prefix of s that is evaluated: up to the first that stops it.         *)
UpTo(s, Stops(_)) ==
    {i \in DOMAIN s : \A j \in 1..(i - 1) : ~Stops(s[j])}

Jumps == {"return", "panic", "break", "continue", "unreachable"}

(* A statement after which mir_source_reaches_match reads no further: also a *)
(* loop with a body of type Never, whether or not the loop can be left.      *)
StopsReach(s) ==
    \/ s.op \in Jumps
    \/ s.op = "while" /\ TypeNever(s.condition)
    \/ s.op \in {"while", "loop", "region", "modify"} /\ TypeNever(s.body)
    \/ s.op \in {"let", "assign"} /\ TypeNever(s.e)
    \/ TypeNever(s)

(* The ids of the expressions for which mir_source_reaches_match holds.      *)
RECURSIVE mir_source_reaches_match(_)
mir_source_reaches_match(e) ==
    LET children == Children(e)
        inOrder == UNION {mir_source_reaches_match(children[i]) : i \in UpTo(children, TypeNever)}
        evaluated == \A i \in DOMAIN children : ~TypeNever(children[i])
        arms == UNION {(IF Guarded(e.arms[i]) THEN mir_source_reaches_match(e.arms[i].guard) ELSE {})
                         \cup mir_source_reaches_match(e.arms[i].body) : i \in DOMAIN e.arms} IN
    CASE e.op \in {"call", "propagate"} -> inOrder \cup (IF evaluated THEN {e.id} ELSE {})
      [] e.op = "match" -> inOrder \cup (IF evaluated THEN {e.id} \cup arms ELSE {})
      [] e.op = "if" ->
           {e.id} \cup mir_source_reaches_match(e.condition)
             \cup (IF TypeNever(e.condition) THEN {}
                   ELSE mir_source_reaches_match(e.then)
                          \cup mir_source_reaches_match(e.otherwise))
      [] e.op = "block" ->
           {e.id} \cup UNION {mir_source_reaches_match(e.statements[i]) :
                              i \in UpTo(e.statements, StopsReach)}
      [] OTHER -> {e.id} \cup inOrder

Statement(s) ==
    LET update == s.op = "assign" /\ s.compound IN
    [op |-> IF update THEN "update" ELSE s.op, id |-> s.id, never |-> update /\ TypeNever(s.e)]

(* The statements that lowering must represent, in source order.  left is    *)
(* the set of loops that have an exit.                                       *)
RECURSIVE mir_collect_source_statements(_, _)
mir_collect_source_statements(e, left) ==
    LET children == Children(e)
        collect(s) == mir_collect_source_statements(s, left)
        first(s, n) == FlattenSeq([i \in 1..n |-> collect(s[i])])
        terminal(s) ==
          IF s.op \in {"while", "loop"}
          THEN (s.op = "while" => TypeNever(s.condition)) /\ s.id \notin left
          ELSE StopsReach(s)
        arm(a) == (IF Guarded(a) THEN collect(a.guard) ELSE << >>) \o collect(a.body) IN
    CASE e.op = "match" ->
           collect(e.scrutinee) \o FlattenSeq([i \in DOMAIN e.arms |-> arm(e.arms[i])])
      [] e.op = "block" ->
           FlattenSeq([i \in DOMAIN e.statements |->
             IF i \in UpTo(e.statements, terminal)
             THEN <<Statement(e.statements[i])>> \o collect(e.statements[i])
             ELSE << >>])
      [] e.op = "if" ->
           collect(e.condition)
             \o (IF TypeNever(e.condition) THEN << >> ELSE collect(e.then) \o collect(e.otherwise))
      [] OTHER -> first(children, Cardinality(UpTo(children, TypeNever)))

-----------------------------------------------------------------------------
(* Scopes around a source.                                                   *)

ScopeOf(e) ==
    [kind |-> IF e.op = "handle" THEN "handler" ELSE e.op, id |-> e.id]

LocalsOf(s) ==
    CASE s.op \in {"let", "declare"} -> {s.local}
      [] OTHER -> {}

(* A node for each expression, statement and arm: its id and kind, the match *)
(* of an arm, the scopes around it, and the locals that its own scope owns.  *)
RECURSIVE mir_collect_scope_chain(_, _)
mir_collect_scope_chain(e, chain) ==
    LET children == Children(e)
        inner == Append(chain, ScopeOf(e))
        node == [id |-> e.id, op |-> e.op, of |-> << >>, chain |-> chain,
                 arms |-> IF e.op = "match" THEN Len(e.arms) ELSE 0,
                 function |-> e.op = "never" \/ (e.op = "call" /\ e.kind = "function"),
                 locals |-> IF e.op # "block" THEN {}
                            ELSE UNION {LocalsOf(e.statements[i]) : i \in DOMAIN e.statements}]
        within(c) == UNION {mir_collect_scope_chain(children[i], c) : i \in DOMAIN children}
        arm(a) ==
          LET body == Append(chain, [kind |-> "match_arm", id |-> a.id]) IN
          {[id |-> a.id, op |-> "arm", of |-> e.id, chain |-> chain, arms |-> 0,
            function |-> FALSE, locals |-> a.locals]}
            \cup (IF Guarded(a) THEN mir_collect_scope_chain(a.guard, body) ELSE {})
            \cup mir_collect_scope_chain(a.body, body) IN
    {node} \cup
    CASE e.op \in {"block", "region"} -> within(inner)
      [] e.op = "handle" ->
           UNION {mir_collect_scope_chain(e.operands[i].e, chain) : i \in DOMAIN e.operands}
             \cup mir_collect_scope_chain(e.body, inner)
      [] e.op = "match" ->
           within(chain) \cup UNION {arm(e.arms[i]) : i \in DOMAIN e.arms}
      [] OTHER -> within(chain)
=============================================================================
