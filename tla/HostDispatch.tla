---------------------------- MODULE HostDispatch ----------------------------
(***************************************************************************)
(* An application and its host: the host registry (src/src/compilation.c),  *)
(* the preflight of an entrypoint, and the interpreter's dispatch of         *)
(* capability operations to lexical handlers, Sol bodies and host callbacks  *)
(* (src/src/interpreter.c).                                                  *)
(*                                                                          *)
(* The Sol program is left open: whatever it has been granted by its         *)
(* entrypoint's effect row it may call, under any nesting of handlers, and   *)
(* any call may fail.  A receiver is a capability value: its root and its    *)
(* definition, which is derived when it is not the root's own.               *)
(***************************************************************************)
EXTENDS Naturals, Sequences, FiniteSets, SequencesExt

CONSTANTS Root,            \* capability parameters of the entrypoint
          Capability,      \* capability definitions
          CapabilityOf,    \* definition of each root
          Operation,       \* capability members
          Owner,           \* their definition
          Row,             \* their effect row
          Bodyful,         \* members with a Sol body
          DataOnly,        \* members a host can serve: data-only signature, no inout,
                           \* no generics, effects on the receiver itself
          EntryRow,        \* <<root, effect>> pairs the entrypoint declares
          OperationLimit,  \* SOL_HOST_OPERATION_LIMIT
          HostCallLimit,   \* limits.host_calls
          MaxNesting,      \* bound: handlers and calls in progress
          MaxOperations    \* bound: operations the program starts

ASSUME ApplicationAssumption ==
    /\ CapabilityOf \in [Root -> Capability]
    /\ Owner \in [Operation -> Capability]
    /\ Bodyful \subseteq Operation /\ DataOnly \subseteq Operation
    /\ \A o \in Operation : IsFiniteSet(Row[o])
    /\ \A p \in EntryRow : p[1] \in Root
ASSUME BoundsAssumption ==
    {OperationLimit, HostCallLimit, MaxNesting, MaxOperations} \subseteq Nat

VARIABLES roots,       \* roots[..].bound
          grants,
          mode,        \* "setup", "running" or "done"
          handler,     \* the chain from interpreter->handler, oldest first
          stack,       \* handle expressions, provider calls and bodies in progress
          pending,     \* the operation invoke_operation has been entered with
          flow,
          denied,      \* <<receiver, operation>> refused as "not allowed for this root"
          host_calls,
          called,      \* <<root, operation>> of every callback made
          operations   \* operations started so far

setup == <<roots, grants>>
vars == <<setup, mode, handler, stack, pending, flow, denied, host_calls, called, operations>>

Effect == UNION {Row[o] : o \in Operation}
Receiver == Root \X Capability
NoCall == << >>

Derived(receiver) == receiver[2] # CapabilityOf[receiver[1]]

(* sol_host_registry_create                                                  *)
Init ==
    /\ roots = {} /\ grants = {} /\ mode = "setup"
    /\ handler = << >> /\ stack = << >> /\ pending = NoCall
    /\ flow = "value" /\ denied = {}
    /\ host_calls = 0 /\ called = {} /\ operations = 0

-----------------------------------------------------------------------------
(* The registry.                                                             *)

(* sol_host_operation_supported_internal                                     *)
Supported(o) == o \in DataOnly \ Bodyful /\ Cardinality(Row[o]) = 1

(* sol_host_registry_free, and a registry made anew.                         *)
Recreate ==
    /\ mode = "setup" /\ roots # {}
    /\ roots' = {} /\ grants' = {}
    /\ UNCHANGED <<mode, handler, stack, pending, flow, denied, host_calls, called, operations>>

bind_root(r) ==
    /\ mode = "setup"
    /\ r \notin roots
    /\ roots' = roots \cup {r}
    /\ UNCHANGED <<grants, mode, handler, stack, pending, flow, denied, host_calls, called, operations>>

allow(r, o) ==
    /\ mode = "setup"
    /\ Cardinality(grants) < OperationLimit
    /\ r \in roots
    /\ Owner[o] = CapabilityOf[r] /\ Supported(o)
    /\ <<r, o>> \notin grants
    /\ grants' = grants \cup {<<r, o>>}
    /\ UNCHANGED <<roots, mode, handler, stack, pending, flow, denied, host_calls, called, operations>>

GrantForAnyRoot(root, o) == \E g \in grants : g[2] = o

host_registry_grant(root, o) == <<root, o>> \in grants

(* host_entry_effect_matches                                                 *)
Declared(r, o) == \E e \in Row[o] : <<r, e>> \in EntryRow

(* The one bodyless member of a capability that an effect names.             *)
Candidates(r, e) ==
    {o \in Operation : Owner[o] = CapabilityOf[r] /\ o \notin Bodyful /\ Row[o] = {e}}

PreflightGrantsOnly == roots = Root /\ \A g \in grants : Declared(g[1], g[2])

host_registry_preflight ==
    /\ roots = Root
    /\ \A g \in grants : Declared(g[1], g[2])
    /\ \A p \in EntryRow :
         \E o \in Candidates(p[1], p[2]) :
             /\ Candidates(p[1], p[2]) = {o}
             /\ Supported(o)
             /\ host_registry_grant(p[1], o)

(* sol_validated_ir_interpret_entrypoint; a refused preflight changes nothing. *)
Start ==
    /\ mode = "setup"
    /\ host_registry_preflight
    /\ mode' = "running"
    /\ UNCHANGED <<setup, handler, stack, pending, flow, denied, host_calls, called, operations>>

-----------------------------------------------------------------------------
(* The interpreter.                                                          *)

Executing == mode = "running" /\ pending = NoCall /\ flow = "value"

Push(entry) == stack' = Append(stack, entry)

(* "from" is the stack position of the handler whose provider is called.     *)
Entry(kind, from) == [kind |-> kind, saved |-> handler, from |-> from]

(* SOL_IR_EXPR_HANDLE: authority and provider are evaluated, the handler is  *)
(* pushed and the body follows.                                              *)
Handle(authority, o, e, receiver, provider) ==
    /\ Executing /\ Len(stack) < MaxNesting
    /\ Owner[o] = authority[2] /\ e \in Row[o]
    /\ Owner[provider] = receiver[2]
    /\ handler' = Append(handler,
          [id |-> Len(stack) + 1, source |-> o, root |-> authority[1], effect |-> e,
           provider |-> provider, receiver |-> receiver])
    /\ Push(Entry("handle", 0))
    /\ UNCHANGED <<setup, mode, pending, flow, denied, host_calls, called, operations>>

Matches(h, receiver, o) ==
    h.source = o /\ h.root = receiver[1] /\ h.effect \in Row[o]

Matching(receiver, o) == {i \in DOMAIN handler : Matches(handler[i], receiver, o)}

Innermost(S) == CHOOSE i \in S : \A j \in S : j <= i

(* The effect checker lets a body perform what its entrypoint declares and   *)
(* what an enclosing handler takes.                                          *)
Permitted(receiver, o) ==
    \/ Matching(receiver, o) # {}
    \/ \A e \in Row[o] : <<receiver[1], e>> \in EntryRow

Operate(receiver, o) ==
    /\ Executing /\ operations < MaxOperations
    /\ Owner[o] = receiver[2]
    /\ Permitted(receiver, o)
    /\ pending' = <<receiver, o>>
    /\ operations' = operations + 1
    /\ UNCHANGED <<setup, mode, handler, stack, flow, denied, host_calls, called>>

(* interpreter->handler = handler->parent                                    *)
Visible(i) == SubSeq(handler, 1, i - 1)

(* A handler takes the operation: it and every younger one are hidden while  *)
(* the provider, itself an operation, is dispatched.                         *)
Intercept ==
    LET matching == Matching(pending[1], pending[2])
        i == Innermost(matching) IN
    /\ pending # NoCall /\ flow = "value"
    /\ matching # {}
    /\ Len(stack) < MaxNesting
    /\ Push(Entry("provider", handler[i].id))
    /\ handler' = Visible(i)
    /\ pending' = <<handler[i].receiver, handler[i].provider>>
    /\ UNCHANGED <<setup, mode, flow, denied, host_calls, called, operations>>

(* No handler and a Sol body: invoke.                                        *)
InvokeBody ==
    /\ pending # NoCall /\ flow = "value"
    /\ Matching(pending[1], pending[2]) = {}
    /\ pending[2] \in Bodyful
    /\ Len(stack) < MaxNesting
    /\ Push(Entry("body", 0))
    /\ pending' = NoCall
    /\ UNCHANGED <<setup, mode, handler, flow, denied, host_calls, called, operations>>

(* consume                                                                   *)
HostCallsLeft == host_calls < HostCallLimit

(* No handler and no body: the host, if the registry allows it.  The call is *)
(* charged before host_registry_dispatch, which refuses a derived receiver   *)
(* and arguments it cannot convert; the callback's answer may be refused too. *)
HostCall ==
    LET receiver == pending[1]  root == pending[1][1]  o == pending[2] IN
    /\ pending # NoCall /\ flow = "value"
    /\ Matching(receiver, o) = {} /\ o \notin Bodyful
    /\ pending' = NoCall
    /\ \/ /\ ~host_registry_grant(root, o)
          /\ denied' = denied \cup {pending} /\ flow' = "error"
          /\ UNCHANGED <<host_calls, called>>
       \/ /\ host_registry_grant(root, o) /\ ~HostCallsLeft
          /\ flow' = "error"
          /\ UNCHANGED <<denied, host_calls, called>>
       \/ /\ host_registry_grant(root, o) /\ HostCallsLeft
          /\ host_calls' = host_calls + 1
          /\ \/ called' = called /\ flow' = "error"
             \/ /\ ~Derived(receiver)
                /\ called' = called \cup {<<root, o>>}
                /\ flow' \in {"value", "error"}
          /\ UNCHANGED denied
    /\ UNCHANGED <<setup, mode, handler, stack, operations>>

(* A limit, a panic, or a requires clause of the pending operation: the      *)
(* execution fails here.                                                     *)
Fail ==
    /\ mode = "running" /\ flow = "value"
    /\ flow' = "error" /\ pending' = NoCall
    /\ UNCHANGED <<setup, mode, handler, stack, denied, host_calls, called, operations>>

PopKeepsHidden(entry) == IF entry.kind = "handle" THEN entry.saved ELSE handler

(* Leaving: a handle expression drops its own handler, a provider call       *)
(* restores the chain it hid, a body leaves the chain alone.                 *)
PopHandler(entry) == IF entry.kind = "body" THEN handler ELSE entry.saved

(* After a provider the source operation's ensures clauses are checked.      *)
Pop ==
    /\ mode = "running" /\ pending = NoCall /\ stack # << >>
    /\ handler' = PopHandler(Last(stack))
    /\ stack' = Front(stack)
    /\ \/ flow' = flow
       \/ Last(stack).kind = "provider" /\ flow = "value" /\ flow' = "error"
    /\ UNCHANGED <<setup, mode, pending, denied, host_calls, called, operations>>

Finish ==
    /\ mode = "running" /\ pending = NoCall /\ stack = << >>
    /\ mode' = "done"
    /\ UNCHANGED <<setup, handler, stack, pending, flow, denied, host_calls, called, operations>>

(* The registry outlives an execution and can serve the next one.            *)
Reset ==
    /\ mode = "done"
    /\ mode' = "setup" /\ flow' = "value" /\ denied' = {}
    /\ host_calls' = 0 /\ called' = {} /\ operations' = 0
    /\ UNCHANGED <<setup, handler, stack, pending>>

Next ==
    \/ \E r \in Root : bind_root(r) \/ \E o \in Operation : allow(r, o)
    \/ Recreate \/ Start
    \/ \E authority, receiver \in Receiver, o, provider \in Operation, e \in Effect :
          Handle(authority, o, e, receiver, provider)
    \/ \E receiver \in Receiver, o \in Operation : Operate(receiver, o)
    \/ Intercept \/ InvokeBody \/ HostCall \/ Fail \/ Pop \/ Finish \/ Reset

Spec == Init /\ [][Next]_vars

-----------------------------------------------------------------------------
(* Positions of the handle expressions a running provider hides: from the    *)
(* handler that was matched up to the provider call.                         *)
Hidden == UNION {stack[p].from..p : p \in {q \in DOMAIN stack : stack[q].kind = "provider"}}

(* The chain interpreter->handler heads is at every moment the handle        *)
(* expressions in progress, oldest first, without those that a running       *)
(* provider hides: a provider is never intercepted by its own handler or a   *)
(* younger one, and leaving it, whether it failed or not, brings exactly the *)
(* hidden ones back (invoke_operation and SOL_IR_EXPR_HANDLE).               *)
ChainIsVisibleHandles ==
    /\ {handler[i].id : i \in DOMAIN handler} =
         {p \in DOMAIN stack : stack[p].kind = "handle"} \ Hidden
    /\ \A i, j \in DOMAIN handler : i < j => handler[i].id < handler[j].id

(* A callback runs only for an operation the host granted for that very root *)
(* and the entrypoint declares on that root, whatever chain of handlers and  *)
(* providers led to it (host_registry_grant, host_registry_preflight).       *)
OnlyGrantedCalls ==
    called \subseteq {g \in grants : \E e \in Row[g[2]] : <<g[1], e>> \in EntryRow}

(* What the preflight accepts is complete: no operation of a root's own      *)
(* capability whose single effect the entrypoint declares is refused by      *)
(* host_registry_allows once Sol code executes.                              *)
PreflightIsComplete ==
    \A d \in denied :
        Derived(d[1]) \/ \A e \in Effect : Row[d[2]] = {e} => <<d[1][1], e>> \notin EntryRow
=============================================================================
