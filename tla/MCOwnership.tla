---------------------------- MODULE MCOwnership -----------------------------
(***************************************************************************)
(* Bodies over a mutable affine record x with two affine fields and a        *)
(* copyable one, a declared variable d, an immutable owned parameter y, an   *)
(* inout parameter w and bindings t and u: every pair of simple statements in *)
(* every control structure, and every nesting of two structures around two   *)
(* core statements, before a statement that probes the state.                *)
(***************************************************************************)
EXTENDS Ownership

MCLocal == {"x", "d", "y", "w", "t", "u"}
MCFields == {<<"x", "f">>, <<"x", "g">>, <<"x", "n">>}
MCPlace == {<<l>> : l \in MCLocal} \cup MCFields
MCCopyPlace == {<<"x", "n">>}
MCMutable == {"x", "d"}
MCParameter == {"y", "w"}
MCAccess == [l \in MCLocal |-> IF l = "w" THEN "exclusive" ELSE "owned"]

Lit == [op |-> "lit"]
New == [op |-> "new"]
NoGuard == [op |-> "none"]
At(p) == [op |-> "place", p |-> p]
Operand(access, e) == [access |-> access, e |-> e]
Call(operands) == [op |-> "call", affine |-> FALSE, operands |-> operands]
Consume(p) == Call(<<Operand("owned", At(p))>>)
Lend(access, p) == Call(<<Operand(access, At(p))>>)
LendThen(access, p, e) == Call(<<Operand(access, At(p)), Operand("owned", e)>>)
LendBoth(p, q) == Call(<<Operand("exclusive", At(p)), Operand("exclusive", At(q))>>)
Assign(p, e) == [op |-> "assign", p |-> p, e |-> e, compound |-> FALSE]
Block(s) == [op |-> "block", statements |-> s, cleanup |-> {}]
Arm(locals, guard, b) == [locals |-> locals, guard |-> guard, body |-> b]
Return(e) == [op |-> "return", e |-> e]
Break == [op |-> "break"]
Continue == [op |-> "continue"]
If(s, r) == [op |-> "if", condition |-> Lit, then |-> Block(<<s>>), otherwise |-> Block(<<r>>)]
Test(s) == Block(<<s, Lit>>)

x == <<"x">>
xf == <<"x", "f">>
xg == <<"x", "g">>
xn == <<"x", "n">>

Simple == <<Lit, [op |-> "never"], Return(New), Return(Lit),
     Consume(x), Consume(xf), Consume(<<"y">>), Consume(<<"d">>), Consume(<<"w">>),
     Assign(x, New), Assign(xf, New), Assign(xf, At(<<"y">>)), Assign(<<"d">>, New),
     Assign(<<"w">>, New), Assign(<<"y">>, New),
     [op |-> "assign", p |-> xn, e |-> Lit, compound |-> TRUE],
     Lend("shared", x), Lend("exclusive", xf), Lend("exclusive", <<"w">>),
     LendThen("exclusive", x, At(xn)), LendThen("shared", xf, At(x)),
     LendThen("shared", x, Block(<<Assign(xf, New)>>)),
     LendBoth(xf, xg), LendBoth(x, xf),
     [op |-> "propagate", operand |-> New, affine |-> TRUE],
     [op |-> "propagate", operand |-> Lit, affine |-> FALSE]>>

(* The control structures, with two statements in them; t is their binding.  *)
Wrap(n, t, s, r) ==
    CASE n = "if" -> If(s, r)
      [] n = "and" -> [op |-> "and", left |-> Test(s), right |-> Test(r)]
      [] n = "while" -> [op |-> "while", condition |-> Test(s), body |-> Block(<<r>>)]
      [] n = "loop" -> [op |-> "loop", condition |-> Lit,
                        body |-> Block(<<s, If(Break, Continue), r>>)]
      [] n = "exit" -> [op |-> "loop", condition |-> Lit,
                        body |-> Block(<<If(Block(<<s, Break>>), Lit), r>>)]
      [] n = "match" -> [op |-> "match", scrutinee |-> New,
                         arms |-> <<Arm({t}, Test(s), Consume(<<t>>)),
                                    Arm({}, NoGuard, Block(<<r>>))>>]
      [] n = "bind" -> [op |-> "block", cleanup |-> {t},
                        statements |-> <<[op |-> "let", local |-> t, e |-> New], s,
                                         Assign(x, At(<<t>>)), r>>]
      [] n = "handle" -> [op |-> "handle", body |-> Block(<<s, r>>),
                          operands |-> <<Operand("shared", At(<<"y">>)),
                                         Operand("shared", At(<<"w">>))>>]
      [] n = "modify" -> [op |-> "modify", local |-> "y", body |-> Block(<<s, r>>)]
      [] n = "region" -> [op |-> "region", body |-> Block(<<s, r>>)]
      [] n = "require" -> [op |-> "require", condition |-> Test(s),
                           fallback |-> Block(<<r, [op |-> "panic"]>>)]

Structure == {"if", "and", "while", "loop", "exit", "match", "bind", "handle",
              "modify", "region", "require"}

Body(s, r) ==
    [op |-> "block", cleanup |-> {"x", "d"},
     statements |-> <<[op |-> "let", local |-> "x", e |-> New],
                      [op |-> "declare", local |-> "d"], s, r>>]

(* Statements that tell the states after a structure apart.                  *)
Probe == <<Consume(x), Consume(xf), Consume(<<"y">>), Consume(<<"d">>)>>

Core == <<Lit, Return(New), Consume(x), Consume(xf), Assign(x, New), Assign(xf, New),
          Assign(<<"d">>, New), Lend("exclusive", xf)>>

(* <<shape, structures, indices of the statements>>                          *)
Shape ==
    ({"flat"} \X Structure \X {"if"} \X (1..Len(Simple)) \X (1..Len(Simple)) \X (1..Len(Probe)))
      \cup ({"second", "first"} \X Structure \X Structure
              \X (1..Len(Core)) \X (1..Len(Core)) \X (1..Len(Probe)))

(* The statement in the first place of the outer structure, and of the inner.*)
Outer(p) ==
    CASE p[1] = "flat" -> Simple[p[4]]
      [] p[1] = "second" -> Core[p[4]]
      [] p[1] = "first" -> Wrap(p[3], "u", Core[p[4]], Core[p[5]])
Inner(p) == Core[p[IF p[1] = "second" THEN 5 ELSE 4]]

MCProgram ==
    {p \in Shape :
        /\ p[2] = "match" => sol_ir_guard_expression_pure(Outer(p))
        /\ p[3] = "match" => sol_ir_guard_expression_pure(Inner(p))}

MCBodyOf(p) ==
    LET second == CASE p[1] = "flat" -> Simple[p[5]]
                    [] p[1] = "second" -> Wrap(p[3], "u", Inner(p), Lit)
                    [] p[1] = "first" -> Lit IN
    Body(Wrap(p[2], "t", Outer(p), second), Probe[p[6]])
=============================================================================
