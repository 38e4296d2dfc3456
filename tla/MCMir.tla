------------------------------- MODULE MCMir --------------------------------
(***************************************************************************)
(* Callables over a mutable affine record x with an affine field f and a     *)
(* copyable field n, an owned parameter y, an inout parameter w and bindings *)
(* t to z: statements in every control structure, and structures in one      *)
(* another, with and without contracts.                                      *)
(***************************************************************************)
EXTENDS Mir

CONSTANTS Seconds,     \* the second statements of a structure
          Core         \* the statements of nested structures

MCLocal == {"x", "y", "w", "t", "u", "v", "z"}
MCPlace == {<<l>> : l \in MCLocal} \cup {<<"x", "f">>, <<"x", "n">>}
MCCopyPlace == {<<"x", "n">>}
MCMutable == {"x", "t", "u"}
MCParameter == {"y", "w"}
MCAccess == [l \in MCLocal |-> IF l = "w" THEN "exclusive" ELSE "owned"]

(* Ids are given by Labelled.                                                *)
Lit == [op |-> "lit", id |-> << >>]
New == [op |-> "new", id |-> << >>]
Unknown == [op |-> "test", id |-> << >>]
NoGuard == [op |-> "none", id |-> << >>]
Jump(op) == [op |-> op, id |-> << >>]
At(p) == [op |-> "place", p |-> p, id |-> << >>]
Operand(access, e) == [access |-> access, e |-> e]
Own(e) == Operand("owned", e)
Call(kind, affine, operands) ==
    [op |-> "call", kind |-> kind, affine |-> affine, operands |-> operands, id |-> << >>]
Use(operands) == Call("function", FALSE, operands)
Consume(e) == Use(<<Own(e)>>)
Fresh == Call("construct", TRUE, <<Own(New), Own(Lit)>>)
Assign(p, e) == [op |-> "assign", p |-> p, e |-> e, compound |-> FALSE, id |-> << >>]
Update(p, e) == [op |-> "assign", p |-> p, e |-> e, compound |-> TRUE, id |-> << >>]
Block(s) ==
    [op |-> "block", statements |-> s, id |-> << >>,
     cleanup |-> UNION {LocalsOf(s[i]) : i \in DOMAIN s}]
Let(local, e) == [op |-> "let", local |-> local, e |-> e, id |-> << >>]
Arm(bindings, guard, b) ==
    [locals |-> ToSet(bindings), bindings |-> bindings, guard |-> guard, body |-> b, id |-> << >>]
Match(e, arms) == [op |-> "match", scrutinee |-> e, arms |-> arms, id |-> << >>]
Yield(e) == [op |-> "return", e |-> e, id |-> << >>]
If(c, s, r) == [op |-> "if", condition |-> c, then |-> s, otherwise |-> r, id |-> << >>]
Loop(b) == [op |-> "loop", condition |-> Lit, body |-> b, id |-> << >>]
While(c, b) == [op |-> "while", condition |-> c, body |-> b, id |-> << >>]
Handle(b) ==
    [op |-> "handle", body |-> b, id |-> << >>,
     operands |-> <<Operand("shared", At(<<"y">>)), Operand("shared", At(<<"y">>))>>]
Try(e) == [op |-> "propagate", operand |-> e, affine |-> TRUE, id |-> << >>]
Test(s) == Block(<<s, Unknown>>)
Do(s) == Block(<<s, Lit>>)
Perhaps(s) == If(Unknown, Do(s), Lit)

RECURSIVE Labelled(_, _)
Labelled(e, id) ==
    LET at(c, k) == Labelled(c, Append(id, k))
        operands == [i \in DOMAIN e.operands |-> [e.operands[i] EXCEPT !.e = at(@, i)]]
        arm(i) == [e.arms[i] EXCEPT !.id = Append(id, 3 * i), !.guard = at(@, 3 * i + 1),
                                    !.body = at(@, 3 * i + 2)]
        n == [e EXCEPT !.id = id] IN
    CASE e.op = "call" -> [n EXCEPT !.operands = operands]
      [] e.op = "handle" -> [n EXCEPT !.operands = operands, !.body = at(@, 0)]
      [] e.op = "block" ->
           [n EXCEPT !.statements = [i \in DOMAIN e.statements |-> at(e.statements[i], i)]]
      [] e.op = "if" -> [n EXCEPT !.condition = at(@, 1), !.then = at(@, 2), !.otherwise = at(@, 3)]
      [] e.op = "and" -> [n EXCEPT !.left = at(@, 1), !.right = at(@, 2)]
      [] e.op \in {"while", "loop"} -> [n EXCEPT !.condition = at(@, 1), !.body = at(@, 2)]
      [] e.op = "match" ->
           [n EXCEPT !.scrutinee = at(@, 1), !.arms = [i \in DOMAIN e.arms |-> arm(i)]]
      [] e.op = "region" -> [n EXCEPT !.body = at(@, 1)]
      [] e.op = "require" -> [n EXCEPT !.condition = at(@, 1), !.fallback = at(@, 2)]
      [] e.op = "propagate" -> [n EXCEPT !.operand = at(@, 1)]
      [] e.op \in {"let", "assign", "return"} -> [n EXCEPT !.e = at(@, 1)]
      [] OTHER -> n

x == <<"x">>
xf == <<"x", "f">>
xn == <<"x", "n">>

Simple ==
    <<Lit, Consume(At(xf)), Assign(xf, New), Yield(New), Jump("break"),
      Jump("never"), Jump("continue"), Jump("panic"), Jump("unreachable"), Yield(At(<<"y">>)),
      Consume(At(x)), Consume(At(<<"y">>)), Assign(x, Fresh), Assign(xf, At(<<"y">>)),
      Update(xn, Lit), Update(xn, Consume(New)),
      Use(<<Operand("shared", At(x)), Own(New)>>),
      Use(<<Own(New), Operand("exclusive", At(<<"w">>)), Own(Consume(New))>>),
      Use(<<Operand("exclusive", At(x)), Own(At(<<"y">>))>>),
      Consume(Try(New)), Consume(Call("refined", TRUE, <<Own(New)>>)), Consume(Fresh)>>

(* The control structures, with two statements in them; t and v are their    *)
(* bindings.                                                                 *)
Wrap(n, t, v, s, r) ==
    CASE n = "if" -> If(Unknown, Do(s), Do(r))
      [] n = "and" -> [op |-> "and", left |-> Test(s), right |-> Test(r), id |-> << >>]
      [] n = "while" -> While(Test(s), Do(r))
      [] n = "loop" -> Loop(Block(<<s, If(Unknown, Do(Jump("break")), Do(r)), Lit>>))
      [] n = "match" -> Match(Fresh, <<Arm(<<t, v>>, NoGuard, Do(s)), Arm(<< >>, NoGuard, Do(r))>>)
      [] n = "guard" ->
           Consume(Match(New, <<Arm(<<t>>, Test(s), At(<<t>>)), Arm(<< >>, NoGuard, Block(<<r, New>>))>>))
      [] n = "bind" -> Block(<<Let(t, New), s, Assign(xf, At(<<t>>)), r, Lit>>)
      [] n = "declare" ->
           Block(<<[op |-> "declare", local |-> t, id |-> << >>], s, Assign(<<t>>, New), r, Lit>>)
      [] n = "handle" -> Handle(Block(<<s, r, Lit>>))
      [] n = "region" -> [op |-> "region", body |-> Block(<<s, r, Lit>>), id |-> << >>]
      [] n = "require" -> [op |-> "require", condition |-> Test(s), id |-> << >>,
                           fallback |-> Block(<<r, Jump("panic")>>)]
      [] n = "operand" -> Use(<<Own(New), Own(Block(<<Perhaps(s), New>>)), Own(Block(<<r, Lit>>))>>)
      [] n = "choose" -> Consume(If(Unknown, Block(<<s, New>>), Block(<<r, New>>)))
      [] n = "update" -> Update(xn, Block(<<Perhaps(s), r, Lit>>))
      [] n = "try" -> Consume(Try(Block(<<s, r, New>>)))

Structure == {"if", "and", "while", "loop", "match", "guard", "bind", "declare", "handle", "region",
              "require", "operand", "choose", "update", "try"}

(* <<shape, structures, indices of the statements, whether it has contracts>> *)
Shape ==
    ({"flat"} \X Structure \X {"if"} \X (1..Len(Simple)) \X Seconds \X BOOLEAN)
      \cup ({"second", "first"} \X Structure \X Structure \X Core \X Core \X {FALSE})

First(p) ==
    IF p[1] = "first" THEN Wrap(p[3], "u", "z", Simple[p[4]], Simple[p[5]]) ELSE Simple[p[4]]
Second(p) ==
    CASE p[1] = "flat" -> Simple[p[5]]
      [] p[1] = "second" -> Wrap(p[3], "u", "z", Simple[p[5]], Lit)
      [] p[1] = "first" -> Lit
Statements(p) == Wrap(p[2], "t", "v", First(p), Second(p))

(* Jumps are in a loop, guards are pure, conditions are not of type Never,   *)
(* and a callable with contracts has no inout parameter.                     *)
WellFormed(p) ==
    LET parts == Parts(Statements(p))
        jumps(e) == {s \in Parts(e) : s.op \in {"break", "continue"}}
        loops == {s \in parts : s.op \in {"loop", "while"}} IN
    /\ jumps(Statements(p)) = UNION {jumps(s) : s \in loops}
    /\ \A e \in parts :
          /\ e.op \in {"if", "require", "while"} => ~TypeNever(e.condition)
          /\ e.op = "and" => ~TypeNever(e.left) /\ ~TypeNever(e.right)
          /\ e.op = "match" => \A i \in DOMAIN e.arms :
                sol_ir_guard_expression_pure(e.arms[i].guard) /\ ~TypeNever(e.arms[i].guard)
          /\ p[6] => e.op # "call" \/ \A i \in DOMAIN e.operands : e.operands[i].e # At(<<"w">>)

MCProgram == {p \in Shape : WellFormed(p)}

(* The programs whose MIR a caller changes: a move, a return or a propagation *)
(* and then a move, in each structure.                                       *)
MCChangeable ==
    {p \in MCProgram : p[1] = "flat" /\ ~p[6] /\ p[4] \in {2, 4, 20} /\ p[5] = 2}

MCCallableOf(p) ==
    LET contracts == IF p[6] THEN 1 ELSE 0 IN
    [parameters |-> IF p[6] THEN <<"y">> ELSE <<"y", "w">>, affine |-> TRUE,
     requires |-> contracts, snapshots |-> contracts, ensures |-> contracts,
     body |-> Labelled(Block(<<Let("x", Fresh), Statements(p), Consume(New), New>>), <<0>>)]
=============================================================================
