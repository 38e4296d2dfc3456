----------------------------- MODULE MirRuntime -----------------------------
(***************************************************************************)
(* Values and frames, as far as both executors treat them alike: the MIR     *)
(* evaluator (src/src/mir_eval.c) and the reference interpreter              *)
(* (src/src/interpreter.c).                                                  *)
(*                                                                           *)
(* A value is a function from its components to tokens: [v |-> k] for one    *)
(* that is not taken apart, [f |-> k, n |-> k'] for a record.  Token 0 is a  *)
(* component that was moved out.  What a computation with an open outcome    *)
(* gives is read from the frame's oracle, so that two executors can be run   *)
(* on the same outcomes.                                                     *)
(***************************************************************************)
EXTENDS MirLowering

Scalar(k) == [v |-> k]
Unit == Scalar(1)
True == Scalar(2)
Truth(b) == IF b THEN True ELSE Unit
Record(s) == [f |-> s[1].v, n |-> s[2].v]
Complete(value) == \A c \in DOMAIN value : value[c] # 0
Similar(value, k) == [c \in DOMAIN value |-> k]

(* The frame of a callable with its parameters bound.  locals holds the      *)
(* bound ones, order is binding_order, trace what an observer sees.          *)
BoundParameters(callable, oracle) ==
    LET p == callable.parameters IN
    [locals |-> [l \in ToSet(p) |-> Scalar(2 + CHOOSE i \in DOMAIN p : p[i] = l)],
     registered |-> ToSet(p), order |-> p, handlers |-> << >>, trace |-> << >>,
     fresh |-> 3 + Len(p), oracle |-> oracle, used |-> 0]

Ask(f) == f.used < Len(f.oracle) /\ f.oracle[f.used + 1]
Asked(f) == [f EXCEPT !.used = @ + 1]
Renew(f, n) == [f EXCEPT !.fresh = @ + n]
Report(f, event) == [f EXCEPT !.trace = Append(@, event)]

(* observe_drop, and the same report in cleanup_local and update_place.      *)
Observe(f, local) == IF Access[local] = "owned" THEN Report(f, <<"drop", local>>) ELSE f

Bound(f, local) == local \in DOMAIN f.locals
HasSlot(f, p) == Bound(f, p[1]) /\ (Whole(p) \/ p[2] \in DOMAIN f.locals[p[1]])
Filled(f, p) == HasSlot(f, p) /\ (Whole(p) \/ f.locals[p[1]][p[2]] # 0)
Read(f, p) == IF Whole(p) THEN f.locals[p[1]] ELSE Scalar(f.locals[p[1]][p[2]])

Unbind(f, local) == [f EXCEPT !.locals = Restrict(@, DOMAIN @ \ {local})]
Take(f, p) == IF Whole(p) THEN Unbind(f, p[1]) ELSE [f EXCEPT !.locals[p[1]][p[2]] = 0]
Put(f, p, value) ==
    IF Whole(p) THEN [f EXCEPT !.locals = (p[1] :> value) @@ @]
    ELSE [f EXCEPT !.locals[p[1]][p[2]] = value.v]

Register(f, local) ==
    [f EXCEPT !.registered = @ \cup {local}, !.order = Append(@, local)]
Unregister(f, local) ==
    [f EXCEPT !.registered = @ \ {local},
              !.order = IF @ # << >> /\ Last(@) = local THEN Front(@) ELSE @]
=============================================================================
