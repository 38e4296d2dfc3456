------------------------------ MODULE Effects -------------------------------
(***************************************************************************)
(* A checked program and its execution: what the functions of an accepted    *)
(* program perform, against their rows.  The interpreter intercepts an       *)
(* operation under a handler of it (src/src/interpreter.c).                  *)
(***************************************************************************)
EXTENDS EffectCheck

CONSTANTS Authority,    \* roots of capability values
          Family,       \* the operation of each effect that can be handled
          MaxFrames     \* frames on the stack

VARIABLES frames,       \* callables being executed, the newest last
          performed     \* what the last step performed

allVars == <<vars, frames, performed>>

AllInit ==
    /\ Init
    /\ frames = << >>
    /\ performed = {}

Check == CheckNext /\ UNCHANGED <<frames, performed>>

-----------------------------------------------------------------------------
(* A frame binds the parameters of its function, or the source of its        *)
(* operation, to authorities, and knows its callback and the handlers around *)
(* it.                                                                       *)

Frame(function, operation, env, callback, handlers) ==
    [function |-> function, operation |-> operation, env |-> env,
     callback |-> callback, handlers |-> handlers]

Newest == frames[Len(frames)]

Sites ==
    IF Newest.function # 0 THEN program[Newest.function].sites
    ELSE Operation[Newest.operation].sites

(* The handlers around site s of the newest frame.                           *)
HandlersAt(s) ==
    Newest.handlers \cup {[effect |-> h[1], root |-> Newest.env[h[2]]] : h \in s.handled}

(* The authorities that an argument may have.                                *)
Values(roots) == {Newest.env[r] : r \in ToSet(roots)}

(* A handler replaces one operation of one root.                             *)
Intercepted(handlers, operation, root) ==
    \E h \in handlers : Family[h.effect] = operation /\ h.root = root

Enter(frame) ==
    /\ Len(frames) < MaxFrames
    /\ frames' = Append(frames, frame)
    /\ performed' = {}

Perform(effects) ==
    /\ performed' = effects
    /\ UNCHANGED frames

Launch ==
    /\ phase = "accepted" /\ frames = << >>
    /\ \E f \in Functions : \E env \in [program[f].parameters -> Authority] :
          /\ program[f].callback = "none"
          /\ Enter(Frame(f, "none", env, 0, {}))

invoke(s) ==
    LET parameters == program[s.target].parameters
        callback == IF s.pass = "own" THEN Newest.callback ELSE s.function IN
    /\ s.kind = "call"
    /\ \E env \in [parameters -> Authority] :
          /\ \A p \in parameters : env[p] \in Values(s.args[p])
          /\ Enter(Frame(s.target, "none", env, callback, HandlersAt(s)))

apply(s) ==
    /\ s.kind = "apply"
    /\ Enter(Frame(Newest.callback, "none", << >>, 0, HandlersAt(s)))

invoke_operation(s) ==
    /\ s.kind = "operation"
    /\ \E root \in Values(s.roots) :
          LET handlers == HandlersAt(s)
              effect(a) ==
                LET of == IF a.arg = "self" THEN root ELSE 0 IN
                [effect |-> a.name, root |-> of,
                 handled |-> [effect |-> a.name, root |-> of] \in handlers] IN
          /\ ~Intercepted(handlers, s.operation, root)
          /\ IF Operation[s.operation].sites # << >>
             THEN Enter(Frame(0, s.operation, [source |-> root], 0, handlers))
             ELSE Perform({effect(a) : a \in ToSet(Operation[s.operation].row)})

panic(s) ==
    /\ s.kind = "panic"
    /\ Perform({[effect |-> "panic", root |-> 0, handled |-> FALSE]})

(* Any site of the newest frame: sites are in branches and loops.            *)
Step ==
    /\ frames # << >>
    /\ \E s \in ToSet(Sites) : invoke(s) \/ apply(s) \/ invoke_operation(s) \/ panic(s)

Return ==
    /\ Len(frames) > 1
    /\ frames' = Front(frames)
    /\ performed' = {}

Execute == (Launch \/ Step \/ Return) /\ UNCHANGED vars

Next == Check \/ Execute

AllSpec == AllInit /\ [][Next]_allVars /\ WF_allVars(Check)

-----------------------------------------------------------------------------
(* Properties.                                                               *)

RECURSIVE LeastAbove(_)
LeastAbove(R) ==
    LET next == [f \in Functions |-> IF Inferred(f) THEN Union(R, f) ELSE R[f]] IN
    IF next = R THEN R ELSE LeastAbove(next)

(* The least rows of the whole program, whatever its components.             *)
Least == LeastAbove([f \in Functions |-> ToSet(program[f].row)])

(* Inference gives every function that omits its row the least union of what *)
(* its sites perform, across recursion, and a component's rows are final     *)
(* once it is left, unless a row was read after it was released.             *)
InferredIsLeast ==
    /\ phase = "infer" /\ at = Start(1) /\ ~stale =>
          \A f \in Functions : component[f] > current => ToSet(rows[f]) = Least[f]
    /\ phase = "coerce" /\ ~stale => \A f \in Functions : ToSet(rows[f]) = Least[f]

(* Private inference computes a least fixed point over the strongly          *)
(* connected components of the call graph, self recursion included.          *)
RecursionIsLeast ==
    phase = "coerce" => \A f \in Functions : ToSet(rows[f]) = Least[f]

(* Whether the row of a frame's callable declares what was performed.        *)
Covers(frame, p) ==
    LET row == IF frame.function = 0 THEN Operation[frame.operation].row
               ELSE rows[frame.function]
        captured == IF frame.function # 0 /\ Open(frame.function) THEN rows[frame.callback]
                    ELSE << >>
        root(a) == CASE a.arg = "none" -> 0
                     [] a.arg = "self" -> frame.env.source
                     [] OTHER -> frame.env[a.arg] IN
    \E a \in ToSet(row) \cup ToSet(captured) : a.name = p.effect /\ root(a) = p.root

(* When an accepted program performs an effect, the row of every callable on *)
(* the stack declares it for the authority it is performed with, whatever    *)
(* arguments, joins, callbacks and handlers lie between, unless a handler of *)
(* the effect is there that replaces another operation.                      *)
RowsCover ==
    ~stale => \A p \in performed : \A i \in DOMAIN frames : p.handled \/ Covers(frames[i], p)

(* The inference ends, and with it the check.                                *)
CheckEnds == <>(phase \in {"accepted", "rejected"})
=============================================================================
