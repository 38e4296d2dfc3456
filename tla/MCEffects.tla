----------------------------- MODULE MCEffects ------------------------------
(***************************************************************************)
(* Programs of three functions over a disk with the operations put, sync and *)
(* a wrapper's save: two with two capability parameters that call each other *)
(* or themselves, with and without handlers, and a third like them, or       *)
(* callbacks to an effect-polymorphic or a closed parameter.                 *)
(***************************************************************************)
EXTENDS Effects

CONSTANTS Bodies,       \* the bodies of the first and the second function
          Leaves        \* the bodies of the third

Effect(name, arg) == [name |-> name, arg |-> arg]
PutA == Effect("put", "a")
PutB == Effect("put", "b")
SyncA == Effect("sync", "a")
SyncB == Effect("sync", "b")

MCAtom == {PutA, PutB, SyncA, SyncB, Panic}
MCFamily == [put |-> "put", sync |-> "none"]

Bare(kind) ==
    [kind |-> kind, target |-> 0, args |-> << >>, pass |-> "none", function |-> 0,
     operation |-> "none", roots |-> << >>, handled |-> {}]
Use(operation, roots) == [Bare("operation") EXCEPT !.operation = operation, !.roots = roots]
Call(f, x, y) == [Bare("call") EXCEPT !.target = f, !.args = [a |-> x, b |-> y]]
Pass(f, how, g) == [Bare("call") EXCEPT !.target = f, !.pass = how, !.function = g]
Under(effect, root, s) == [s EXCEPT !.handled = @ \cup {<<effect, root>>}]

MCOperation ==
    LET operation(row, sites) ==
          [row |-> row, sites |-> sites, fixed |-> << >>, callback |-> "none"]
        put == Effect("put", "self")
        sync == Effect("sync", "self") IN
    [put |-> operation(<<put>>, << >>),
     sync |-> operation(<<put, sync>>, << >>),
     save |-> operation(<<put>>, <<Use("put", <<"source">>)>>)]

Function(clause, row, sites) ==
    [clause |-> clause, public |-> FALSE, row |-> row, sites |-> sites,
     parameters |-> {"a", "b"}, callback |-> "none", fixed |-> << >>]

A == <<"a">>
B == <<"b">>
AB == <<"a", "b">>
Unknown == << >>

(* What the first function does with callbacks.                              *)
Outer == {<<Pass(2, "function", 3)>>, <<Pass(3, "none", 0), Pass(2, "function", 1)>>}

(* The bodies that call function f.                                          *)
Body(k, f) ==
    CASE k = 1 -> <<Use("put", A)>>
      [] k = 2 -> <<Use("sync", A), Call(f, B, A)>>
      [] k = 3 -> <<Call(f, AB, Unknown), Bare("panic")>>
      [] k = 4 -> <<Under("put", "a", Call(f, A, B)), Use("save", B)>>
      [] k = 5 -> <<Call(f, A, A), Under("put", "b", Use("put", AB))>>
      [] k = 6 -> <<Use("put", A), Call(f, B, B), Call(f, B, A)>>
      [] k = 7 -> <<Under("put", "a", Use("sync", A))>>

Of(numbers) == {Body(k, f) : k \in numbers, f \in 1..3}
Omitted(sites) == Function(FALSE, << >>, sites)

Recursive ==
    LET declared == {Function(TRUE, row, body) :
                       row \in {<<PutA, SyncA>>, <<PutA, PutB, SyncA, SyncB, Panic>>},
                       body \in Of(Bodies)}
        omitted(numbers) == {Omitted(body) : body \in Of(numbers)} IN
    {<<f, g, h>> : f \in declared \cup omitted(Bodies), g \in omitted(Bodies),
                   h \in omitted(Leaves)}

(* A callback is applied by function 2, or passed on by it to function 4.    *)
Callbacks ==
    LET plain(clause, row, sites) ==
          [Function(clause, row, sites) EXCEPT !.parameters = {}]
        outer == {plain(FALSE, << >>, sites) : sites \in Outer}
                   \cup {plain(TRUE, row, sites) : row \in {<< >>, <<Panic>>}, sites \in Outer}
                   \cup {[plain(FALSE, << >>, sites) EXCEPT !.public = TRUE] : sites \in Outer}
        takes(f, how, fixed) == [f EXCEPT !.callback = how, !.fixed = fixed]
        fixedRows == {<< >>, <<Panic>>}
        inner == {takes(plain(TRUE, row, sites), "open", fixed) :
                    row \in fixedRows, fixed \in fixedRows,
                    sites \in {<<Bare("apply")>>, <<Pass(4, "own", 0)>>,
                              <<Under("put", "a", Bare("apply"))>>}}
                   \cup {takes(plain(FALSE, << >>, <<Bare("apply")>>), "closed", fixed) :
                           fixed \in fixedRows}
        called == {plain(FALSE, << >>, sites) :
                     sites \in {<< >>, <<Bare("panic")>>, <<Pass(1, "none", 0)>>,
                               <<Pass(2, "function", 1)>>}}
        last == takes(plain(TRUE, << >>, <<Bare("apply")>>), "open", << >>) IN
    {<<f, g, h, last>> : f \in outer, g \in inner, h \in called}

MCProgram == Recursive \cup Callbacks
=============================================================================
