---------------------------- MODULE MCHostDispatch ----------------------------
(* Two roots of one capability, only one of which the entrypoint uses, and a *)
(* capability derived over them with a bodyless and a pure bodyful member.   *)
EXTENDS HostDispatch

CONSTANTS a, b, Console, Logger, write, log, fake

MCCapabilityOf == [r \in Root |-> Console]
MCOwner == (write :> Console) @@ (log :> Logger) @@ (fake :> Logger)
MCRow == (write :> {"io"}) @@ (log :> {"io"}) @@ (fake :> {})
MCEntryRow == {<<a, "io">>}
=============================================================================
