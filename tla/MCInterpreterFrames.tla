------------------------ MODULE MCInterpreterFrames ------------------------
(* A block with two locals, a match arm with two bindings, and a callable    *)
(* with an owned and two exclusive formals next to the entry.                 *)
EXTENDS InterpreterFrames

MCParameters == [c \in {"main", "work"} |-> IF c = "main" THEN <<1>> ELSE <<2, 3, 4>>]

MCBindings == [s \in {"block", "arm"} |-> IF s = "block" THEN <<5, 6>> ELSE <<7, 8>>]

=============================================================================
