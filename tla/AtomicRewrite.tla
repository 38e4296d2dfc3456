--------------------------- MODULE AtomicRewrite ---------------------------
(***************************************************************************)
(* What `sol fmt` promises a package when it rewrites files in place,       *)
(* without saying how: until the rewrite is decided the names of the files  *)
(* may be in flux, but nothing of the old contents is given up; a rewrite   *)
(* is committed only when every file shows its new contents, and from then  *)
(* on no file changes again, not even through a power loss; a rewrite that  *)
(* is aborted only ever puts old contents back.                             *)
(***************************************************************************)
CONSTANT Files

VARIABLES view,      \* what a reader finds under each file's name
          saved,     \* the files whose old contents still exist somewhere
          decision   \* what has become of the rewrite

vars == <<view, saved, decision>>

View == {"old", "none", "new"}

Init ==
    /\ view = [f \in Files |-> "old"]
    /\ saved = Files
    /\ decision = "open"

Swap(f) ==
    /\ decision = "open"
    /\ \E v \in View : view' = [view EXCEPT ![f] = v]
    /\ UNCHANGED <<saved, decision>>

Commit ==
    /\ decision = "open"
    /\ \A f \in Files : view[f] = "new"
    /\ decision' = "committed"
    /\ UNCHANGED <<view, saved>>

Abort ==
    /\ decision = "open"
    /\ decision' = "aborted"
    /\ UNCHANGED <<view, saved>>

Restore(f) ==
    /\ decision = "aborted"
    /\ view' = [view EXCEPT ![f] = "old"]
    /\ UNCHANGED <<saved, decision>>

Discard(f) ==
    /\ decision = "committed"
    /\ saved' = saved \ {f}
    /\ UNCHANGED <<view, decision>>

(* A power loss may undo name changes that were not yet durable, but only   *)
(* of a rewrite that was never committed; it may also bring a discarded     *)
(* backup back.                                                             *)
Crash ==
    /\ decision # "crashed"
    /\ decision' = "crashed"
    /\ IF decision = "committed"
         THEN view' = view /\ saved' \in SUBSET Files
         ELSE view' \in [Files -> View] /\ saved' = saved

Next ==
    \/ Commit
    \/ Abort
    \/ Crash
    \/ \E f \in Files : Swap(f) \/ Restore(f) \/ Discard(f)

Spec == Init /\ [][Next]_vars
=============================================================================
