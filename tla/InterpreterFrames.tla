------------------------- MODULE InterpreterFrames -------------------------
(***************************************************************************)
(* Frames, lexical scopes and cleanup of the reference interpreter          *)
(* (src/src/interpreter.c), over the cleanup slices src/src/ir.c lowers.    *)
(*                                                                          *)
(* The program being interpreted is left open: inside a frame any scope     *)
(* that is not already open may be entered, in any nesting, as a loop body  *)
(* or not, and any operation may fail.  What is fixed is what the IR fixes: *)
(* which locals a scope introduces and in which order.  Depth d owns two    *)
(* Frame structs, the one `invoke` runs the body in and the logical copy    *)
(* its contracts are evaluated in; `frame` is interpreter->frame.           *)
(*                                                                          *)
(* Values are abstracted to their presence in a slot: a temporary has no    *)
(* slot, and a projected place changes no slot's presence.                  *)
(***************************************************************************)
EXTENDS Integers, Sequences, FiniteSets, SequencesExt

CONSTANTS Callable,    \* source-defined callables
          Entry,       \* the callable of the request
          Local,       \* SolIrLocalId
          Parameters,  \* formals of a callable, in order
          Owned,       \* locals with SOL_ACCESS_OWNED
          Exclusive,   \* locals with SOL_ACCESS_EXCLUSIVE
          Scope,       \* blocks and match arms
          Arms,        \* the scopes that are match arms
          Bindings,    \* locals a scope introduces, in statement/leaf order
          CallDepth,   \* limits.call_depth
          StepLimit    \* limits.steps

ASSUME ProgramAssumption ==
    /\ Local \subseteq Nat
    /\ Entry \in Callable
    /\ Parameters \in [Callable -> Seq(Local)]
    /\ Bindings \in [Scope -> Seq(Local)]
    /\ Arms \subseteq Scope
    /\ Owned \subseteq Local
    /\ Exclusive \subseteq Local \ Owned
    /\ ToSet(Parameters[Entry]) \cap Exclusive = {}
ASSUME DistinctLocalsAssumption ==
    /\ \A c \in Callable : IsInjective(Parameters[c])
    /\ \A s \in Scope : IsInjective(Bindings[s])
    /\ \A s, t \in Scope : s # t => ToSet(Bindings[s]) \cap ToSet(Bindings[t]) = {}
    /\ \A c \in Callable, s \in Scope : ToSet(Parameters[c]) \cap ToSet(Bindings[s]) = {}
ASSUME LimitsAssumption ==
    /\ CallDepth \in Nat \ {0}
    /\ StepLimit \in Nat

VARIABLES contracts,           \* the request asks for SOL_INTERPRETER_CONTRACTS_CHECK
          depth, frame,
          parent,              \* the caller's frame of each depth
          callee,              \* the callable each depth executes
          actual,              \* caller's place for each exclusive formal
          phase,               \* where in `invoke` each depth is
          open, cursor, loops, \* open scopes, introductions done, loop bodies
          bound, registered,
          binding_order,
          flow,                \* SolFlowKind travelling outwards
          cleanup,             \* locals the running cleanup has left to visit
          writebacks,          \* staged inout results of the call just made
          commit, index,       \* loop over them: "charge" or "update"
          steps,
          diagnostic,          \* result->diagnostic.code
          owed                 \* owned values bound, not yet moved or observed

calls == <<contracts, depth, frame, parent, callee, actual, phase>>
scopes == <<open, cursor, loops>>
store == <<bound, registered, binding_order>>
result == <<writebacks, commit, index>>
vars == <<calls, scopes, store, flow, cleanup, result, steps, diagnostic, owed>>

Depths == 1..CallDepth
Frame == Depths \X {"body", "contract"}
Body(d) == <<d, "body">>
Contract(d) == <<d, "contract">>
NoFrame == <<0, "body">>

(* The IR: a block's slice lists its LET and DECLARE statements and is       *)
(* walked from its end; an arm's slice is reversed when it is lowered and    *)
(* walked from its start.                                                    *)
block_cleanup(s) == Bindings[s]

ArmCleanupNotReversed(s) == Bindings[s]

arm_cleanup(s) == Reverse(Bindings[s])

CleanupSliceForwards(s) == block_cleanup(s)

cleanup_slice(s) == Reverse(block_cleanup(s))

cleanup_arm_slice(s) == arm_cleanup(s)

(* sol_interpret_impl has validated the request and calls invoke.            *)
Init ==
    /\ contracts \in BOOLEAN
    /\ depth = 1 /\ frame = Body(1)
    /\ parent = [d \in Depths |-> NoFrame]
    /\ callee = [d \in Depths |-> Entry]
    /\ actual = [d \in Depths |-> << >>]
    /\ phase = [d \in Depths |-> IF d = 1 THEN "bind" ELSE "idle"]
    /\ open = [f \in Frame |-> << >>]
    /\ cursor = [f \in Frame |-> [s \in Scope |-> 0]]
    /\ loops = [f \in Frame |-> {}]
    /\ bound = [f \in Frame |-> {}]
    /\ registered = [f \in Frame |-> {}]
    /\ binding_order = [f \in Frame |-> << >>]
    /\ flow = "value" /\ cleanup = << >>
    /\ writebacks = << >> /\ commit = "none" /\ index = 1
    /\ steps = 0 /\ diagnostic = "none" /\ owed = 0

-----------------------------------------------------------------------------
(* Helpers of the handlers below.                                            *)

(* interpreter.c diagnostic(): the first error is the one reported.          *)
Raise(code) ==
    /\ flow' = "error"
    /\ diagnostic' = IF diagnostic = "none" THEN code ELSE diagnostic

consume == steps < StepLimit /\ steps' = steps + 1

(* The expression at the top of frame is being evaluated.                    *)
Evaluating ==
    /\ depth > 0 /\ phase[depth] \in {"requires", "body", "ensures"}
    /\ cleanup = << >> /\ writebacks = << >>
    /\ flow = "value"

InBody == Evaluating /\ phase[depth] = "body"

(* Bindings of a scope are complete: an arm binds every leaf before its      *)
(* guard and body run.                                                       *)
Ready(f) ==
    open[f] # << >> /\ Last(open[f]) \in Arms
        => cursor[f][Last(open[f])] = Len(Bindings[Last(open[f])])

(* Locals the source may name at this point of a frame's body.               *)
InScope(f) ==
    ToSet(Parameters[callee[f[1]]])
        \cup UNION {{Bindings[s][i] : i \in 1..cursor[f][s]} : s \in ToSet(open[f])}

Holds(f, l) == IF f[2] = "body" /\ l \in Owned THEN 1 ELSE 0

register(f, l) ==
    /\ registered' = [registered EXCEPT ![f] = @ \cup {l}]
    /\ binding_order' = [binding_order EXCEPT ![f] = Append(@, l)]

(* bind_local: a slot is bound once, and cloning the value may meet a limit. *)
bind_local(f, l) ==
    \/ /\ l \in registered[f]
       /\ Raise("internal")
       /\ UNCHANGED <<store, owed>>
    \/ /\ l \notin registered[f]
       /\ Raise("failure")
       /\ UNCHANGED <<store, owed>>
    \/ /\ l \notin registered[f]
       /\ register(f, l)
       /\ bound' = [bound EXCEPT ![f] = @ \cup {l}]
       /\ owed' = owed + Holds(f, l)
       /\ UNCHANGED <<flow, diagnostic>>

declare_local(f, l) ==
    \/ /\ l \in registered[f]
       /\ Raise("internal")
       /\ UNCHANGED <<store, owed>>
    \/ /\ l \notin registered[f]
       /\ register(f, l)
       /\ UNCHANGED <<bound, owed, flow, diagnostic>>

ObservedInContractsToo(f, l) == IF l \in bound[f] /\ l \in Owned THEN 1 ELSE 0

(* cleanup_local counts an owned value of an observed frame.                 *)
Observed(f, l) == IF l \in bound[f] THEN Holds(f, l) ELSE 0

CleanupBindingBoundOnly(f, l) ==
    /\ bound' = [bound EXCEPT ![f] = @ \ {l}]
    /\ owed' = owed - Observed(f, l)
    /\ IF l \in bound[f] /\ binding_order[f] # << >> /\ Last(binding_order[f]) = l
       THEN /\ registered' = [registered EXCEPT ![f] = @ \ {l}]
            /\ binding_order' = [binding_order EXCEPT ![f] = Front(@)]
       ELSE UNCHANGED <<registered, binding_order>>

cleanup_binding(f, l) ==
    /\ bound' = [bound EXCEPT ![f] = @ \ {l}]
    /\ owed' = owed - Observed(f, l)
    /\ registered' = [registered EXCEPT ![f] = @ \ {l}]
    /\ binding_order' =
         IF /\ l \in registered[f]
            /\ binding_order[f] # << >> /\ Last(binding_order[f]) = l
         THEN [binding_order EXCEPT ![f] = Front(@)]
         ELSE binding_order

-----------------------------------------------------------------------------
(* invoke: entering a callable.                                              *)

DepthAvailable == depth < CallDepth

Push(c, caller, places) ==
    LET d == depth + 1 IN
    /\ depth' = d
    /\ frame' = Body(d)
    /\ parent' = [parent EXCEPT ![d] = caller]
    /\ callee' = [callee EXCEPT ![d] = c]
    /\ actual' = [actual EXCEPT ![d] = places]
    /\ phase' = [phase EXCEPT ![d] = "bind"]
    /\ index' = 1
    /\ UNCHANGED <<contracts, scopes, store, flow, cleanup, writebacks, commit, diagnostic, owed>>

ExclusiveFormals(c) == SelectSeq(Parameters[c], LAMBDA l : l \in Exclusive)

(* evaluate_call: the places lent to the exclusive formals are distinct and  *)
(* initialised; a predicate is pure and lends none.                          *)
Lendable(c) ==
    LET n == Len(ExclusiveFormals(c)) IN
    {places \in [1..n -> bound[frame] \cap InScope(frame)] : IsInjective(places)}

Call(c) ==
    /\ Evaluating /\ Ready(frame)
    /\ phase[depth] # "body" => ExclusiveFormals(c) = << >>
    /\ consume
    /\ \/ /\ DepthAvailable
          /\ \E places \in Lendable(c) : Push(c, frame, places)
       \/ /\ ~DepthAvailable
          /\ Raise("failure")
          /\ UNCHANGED <<calls, scopes, store, cleanup, result, owed>>

BindParameter ==
    LET formals == Parameters[callee[depth]] IN
    /\ depth > 0 /\ phase[depth] = "bind"
    /\ index <= Len(formals)
    /\ bind_local(frame, formals[index])
    /\ index' = index + 1
    /\ phase' = [phase EXCEPT ![depth] = IF flow' = "error" THEN "release" ELSE "bind"]
    /\ UNCHANGED <<contracts, depth, frame, parent, callee, actual, scopes, cleanup, writebacks,
                   commit, steps>>

(* contract_frame_init clones every bound local, in the order of its id.     *)
Ascending(S) == SetToSortSeq(S, <)

StartBody ==
    /\ depth > 0 /\ phase[depth] = "bind"
    /\ index > Len(Parameters[callee[depth]])
    /\ ~contracts
    /\ phase' = [phase EXCEPT ![depth] = "body"]
    /\ UNCHANGED <<contracts, depth, frame, parent, callee, actual, scopes, store, flow, cleanup,
                   result, steps, diagnostic, owed>>

contract_frame_init ==
    LET copies == bound[frame]  k == Contract(depth) IN
    /\ depth > 0 /\ phase[depth] = "bind"
    /\ index > Len(Parameters[callee[depth]])
    /\ contracts
    /\ \/ /\ bound' = [bound EXCEPT ![k] = copies]
          /\ registered' = [registered EXCEPT ![k] = copies]
          /\ binding_order' = [binding_order EXCEPT ![k] = Ascending(copies)]
          /\ frame' = k
          /\ phase' = [phase EXCEPT ![depth] = "requires"]
          /\ UNCHANGED <<flow, diagnostic>>
       \/ /\ Raise("failure")  \* the copies made so far are released
          /\ phase' = [phase EXCEPT ![depth] = "release"]
          /\ UNCHANGED <<frame, store>>
    /\ UNCHANGED <<contracts, depth, parent, callee, actual, scopes, cleanup, result, steps, owed>>

-----------------------------------------------------------------------------
(* evaluate and evaluate_block: one expression or statement.                 *)

(* A block, or an arm whose pattern matched.  A loop re-enters its body.     *)
Enter(s, loop) ==
    /\ Evaluating /\ Ready(frame)
    /\ s \notin ToSet(open[frame])
    /\ loop => s \notin Arms /\ phase[depth] = "body"
    /\ consume
    /\ open' = [open EXCEPT ![frame] = Append(@, s)]
    /\ loops' = [loops EXCEPT ![frame] = IF loop THEN @ \cup {s} ELSE @]
    /\ UNCHANGED <<calls, cursor, store, flow, cleanup, result, diagnostic, owed>>

Introduce(s) ==
    /\ Evaluating
    /\ open[frame] # << >> /\ Last(open[frame]) = s
    /\ cursor[frame][s] < Len(Bindings[s])
    /\ cursor' = [cursor EXCEPT ![frame][s] = @ + 1]
    /\ UNCHANGED <<calls, open, loops, cleanup, result>>

(* A LET statement, or the next leaf of a matched pattern.                   *)
Let(s) ==
    /\ Introduce(s)
    /\ consume
    /\ bind_local(frame, Bindings[s][cursor[frame][s] + 1])

Declare(s) ==
    /\ Introduce(s)
    /\ s \notin Arms
    /\ declare_local(frame, Bindings[s][cursor[frame][s] + 1])
    /\ UNCHANGED steps

(* Reading a place with SOL_IR_LOCAL_USE_MOVE.                               *)
Move(l) ==
    /\ InBody /\ Ready(frame)
    /\ l \in bound[frame] \cap InScope(frame)
    /\ consume
    /\ bound' = [bound EXCEPT ![frame] = @ \ {l}]
    /\ owed' = owed - Holds(frame, l)
    /\ UNCHANGED <<calls, scopes, registered, binding_order, flow, cleanup, result, diagnostic>>

(* update_local: the old value is cleaned, the new one moved in.             *)
update_local(l) ==
    IF l \in registered[frame]
    THEN /\ bound' = [bound EXCEPT ![frame] = @ \cup {l}]
         /\ owed' = owed - Observed(frame, l) + Holds(frame, l)
         /\ UNCHANGED <<registered, binding_order, flow, diagnostic>>
    ELSE /\ Raise("internal")
         /\ UNCHANGED <<store, owed>>

Assign(l) ==
    /\ InBody /\ Ready(frame)
    /\ l \in InScope(frame)
    /\ consume
    /\ update_local(l)
    /\ UNCHANGED <<calls, scopes, cleanup, result>>

(* A limit, checked arithmetic, panic, a failed host call or predicate.      *)
Fail ==
    /\ Evaluating
    /\ Raise("failure")
    /\ UNCHANGED <<calls, scopes, store, cleanup, result, steps, owed>>

(* return, break and continue statements, and the residual of `?`.           *)
Transfer(kind) ==
    /\ InBody /\ Ready(frame)
    /\ kind # "return" => ToSet(open[frame]) \cap loops[frame] # {}
    /\ flow' = kind
    /\ UNCHANGED <<calls, scopes, store, cleanup, result, steps, diagnostic, owed>>

-----------------------------------------------------------------------------
(* Leaving a scope, on every path out of it.                                 *)

CloseScope(s) ==
    /\ open' = [open EXCEPT ![frame] = Front(@)]
    /\ cursor' = [cursor EXCEPT ![frame][s] = 0]
    /\ loops' = [loops EXCEPT ![frame] = @ \ {s}]

LeaveContinueUncleaned(s) ==
    /\ cleanup = << >> /\ writebacks = << >>
    /\ depth > 0 /\ phase[depth] \in {"requires", "body", "ensures"}
    /\ open[frame] # << >> /\ Last(open[frame]) = s
    /\ flow = "value" => cursor[frame][s] = Len(Bindings[s])
    /\ CloseScope(s)
    /\ flow' = IF flow \in {"break", "continue"} /\ s \in loops[frame]
               THEN "value" ELSE flow
    /\ cleanup' = IF s \in Arms THEN cleanup_arm_slice(s)
                  ELSE IF flow = "continue" THEN << >> ELSE cleanup_slice(s)
    /\ UNCHANGED <<calls, store, result, steps, diagnostic, owed>>

(* A block or arm is left when its statements are done, or when a transfer   *)
(* or an error passes through; its slice is cleaned whatever the reason.     *)
(* A loop absorbs the break or continue that leaves its body.                *)
Leave(s) ==
    /\ cleanup = << >> /\ writebacks = << >>
    /\ depth > 0 /\ phase[depth] \in {"requires", "body", "ensures"}
    /\ open[frame] # << >> /\ Last(open[frame]) = s
    /\ flow = "value" => cursor[frame][s] = Len(Bindings[s])
    /\ CloseScope(s)
    /\ flow' = IF flow \in {"break", "continue"} /\ s \in loops[frame]
               THEN "value" ELSE flow
    /\ cleanup' = IF s \in Arms THEN cleanup_arm_slice(s) ELSE cleanup_slice(s)
    /\ UNCHANGED <<calls, store, result, steps, diagnostic, owed>>

CleanupStep ==
    /\ cleanup # << >>
    /\ cleanup_binding(frame, Head(cleanup))
    /\ cleanup' = Tail(cleanup)
    /\ UNCHANGED <<calls, scopes, flow, result, steps, diagnostic>>

-----------------------------------------------------------------------------
(* invoke: leaving a callable.                                               *)

ExclusiveBound == ToSet(ExclusiveFormals(callee[depth])) \subseteq bound[Body(depth)]

(* The body is done.  With contracts the exclusive formals are copied again  *)
(* (refresh_contract_writebacks) and the postconditions follow.              *)
EndBody ==
    /\ depth > 0 /\ phase[depth] = "body"
    /\ cleanup = << >> /\ writebacks = << >> /\ open[frame] = << >>
    /\ \/ /\ flow = "error"
          /\ phase' = [phase EXCEPT ![depth] = "release"]
          /\ UNCHANGED <<frame, flow, diagnostic>>
       \/ /\ flow \in {"value", "return"}
          /\ flow' = "value"
          /\ ~contracts
          /\ phase' = [phase EXCEPT ![depth] = "writeback"]
          /\ UNCHANGED <<frame, diagnostic>>
       \/ /\ flow \in {"value", "return"}
          /\ contracts /\ ExclusiveBound
          /\ flow' = "value"
          /\ phase' = [phase EXCEPT ![depth] = "ensures"]
          /\ frame' = Contract(depth)
          /\ UNCHANGED diagnostic
       \/ /\ flow \in {"value", "return"}
          /\ contracts  \* a formal is gone, or its clone meets a limit
          /\ Raise("failure")
          /\ phase' = [phase EXCEPT ![depth] = "release"]
          /\ UNCHANGED frame
    /\ UNCHANGED <<contracts, depth, parent, callee, actual, scopes, store, cleanup, result, steps, owed>>

(* evaluate_contract restores the frame; a false predicate is a Fail.        *)
EndPredicate ==
    /\ depth > 0 /\ phase[depth] \in {"requires", "ensures"}
    /\ cleanup = << >> /\ writebacks = << >> /\ open[frame] = << >>
    /\ frame' = Body(depth)
    /\ phase' = [phase EXCEPT ![depth] =
                   IF flow = "error" THEN "release"
                   ELSE IF @ = "requires" THEN "body" ELSE "writeback"]
    /\ UNCHANGED <<contracts, depth, parent, callee, actual, scopes, store, flow, cleanup, result,
                   steps, diagnostic, owed>>

StageWritebacksReturnsEarly ==
    /\ depth > 0 /\ phase[depth] = "writeback"
    /\ phase' = [phase EXCEPT ![depth] = "idle"]
    /\ bound' = [bound EXCEPT ![frame] = @ \ Exclusive]
    /\ depth' = depth - 1
    /\ frame' = parent[depth]
    /\ writebacks' = actual[depth] /\ commit' = "charge" /\ index' = 1
    /\ UNCHANGED <<contracts, parent, callee, actual, scopes, registered, binding_order, flow,
                   cleanup, steps, diagnostic, owed>>

(* The exclusive formals are moved out of the frame, or the call fails.      *)
StageWritebacks ==
    /\ depth > 0 /\ phase[depth] = "writeback"
    /\ phase' = [phase EXCEPT ![depth] = "release"]
    /\ IF ExclusiveBound
       THEN /\ bound' = [bound EXCEPT ![frame] = @ \ Exclusive]
            /\ UNCHANGED <<flow, diagnostic>>
       ELSE /\ Raise("type")
            /\ UNCHANGED bound
    /\ UNCHANGED <<contracts, depth, frame, parent, callee, actual, scopes, registered, binding_order,
                   cleanup, result, steps, owed>>

(* frame_release: the last binding of the contract copy, then of the body.   *)
Releasing(f) ==
    IF binding_order[Contract(f[1])] # << >> THEN Contract(f[1]) ELSE f

frame_release ==
    LET f == Releasing(frame) IN
    /\ depth > 0 /\ phase[depth] = "release"
    /\ binding_order[f] # << >>
    /\ cleanup_binding(f, Last(binding_order[f]))
    /\ UNCHANGED <<calls, scopes, flow, cleanup, result, steps, diagnostic>>

Return ==
    /\ depth > 0 /\ phase[depth] = "release"
    /\ binding_order[Releasing(frame)] = << >>
    /\ phase' = [phase EXCEPT ![depth] = "idle"]
    /\ depth' = depth - 1
    /\ frame' = parent[depth]
    /\ parent' = [parent EXCEPT ![depth] = NoFrame]
    /\ callee' = [callee EXCEPT ![depth] = Entry]
    /\ actual' = [actual EXCEPT ![depth] = << >>]
    /\ writebacks' = IF flow = "error" THEN << >> ELSE actual[depth]
    /\ commit' = "charge"
    /\ index' = 1
    /\ UNCHANGED <<contracts, scopes, store, flow, cleanup, steps, diagnostic, owed>>

-----------------------------------------------------------------------------
(* evaluate_call: committing the inout results to the caller's places.       *)

(* charge_place_update for every destination, before any is changed.         *)
Charge ==
    /\ writebacks # << >> /\ flow # "error" /\ commit = "charge"
    /\ \/ /\ index < Len(writebacks)
          /\ index' = index + 1
          /\ UNCHANGED <<commit, flow, diagnostic>>
       \/ /\ index = Len(writebacks)
          /\ index' = 1
          /\ commit' = "update"
          /\ UNCHANGED <<flow, diagnostic>>
       \/ /\ Raise("failure")
          /\ UNCHANGED <<commit, index>>
    /\ UNCHANGED <<calls, scopes, store, cleanup, writebacks, steps, owed>>

UpdateChargesToo ==
    /\ writebacks # << >> /\ flow # "error" /\ commit = "update"
    /\ index <= Len(writebacks)
    /\ \/ update_local(writebacks[index])
       \/ Raise("failure") /\ UNCHANGED <<store, owed>>
    /\ index' = index + 1
    /\ UNCHANGED <<calls, scopes, cleanup, writebacks, commit, steps>>

Update ==
    /\ writebacks # << >> /\ flow # "error" /\ commit = "update"
    /\ index <= Len(writebacks)
    /\ update_local(writebacks[index])
    /\ index' = index + 1
    /\ UNCHANGED <<calls, scopes, cleanup, writebacks, commit, steps>>

(* free_values: what was staged and not moved into a place is dropped.       *)
Discard ==
    /\ writebacks # << >>
    /\ flow = "error" \/ (commit = "update" /\ index > Len(writebacks))
    /\ writebacks' = << >> /\ commit' = "none" /\ index' = 1
    /\ UNCHANGED <<calls, scopes, store, flow, cleanup, steps, diagnostic, owed>>

Finished == depth = 0 /\ UNCHANGED vars

-----------------------------------------------------------------------------
Next ==
    \/ \E c \in Callable : Call(c)
    \/ BindParameter \/ StartBody \/ contract_frame_init
    \/ \E s \in Scope : \E loop \in BOOLEAN : Enter(s, loop)
    \/ \E s \in Scope : Let(s) \/ Declare(s) \/ Leave(s)
    \/ \E l \in Local : Move(l) \/ Assign(l)
    \/ Fail
    \/ \E kind \in {"return", "break", "continue"} : Transfer(kind)
    \/ CleanupStep \/ EndBody \/ EndPredicate \/ StageWritebacks
    \/ frame_release \/ Return
    \/ Charge \/ Update \/ Discard

Spec == Init /\ [][Next \/ Finished]_vars

(* The interpreter is one thread that runs until invoke returns.             *)
FairSpec == Spec /\ WF_vars(Next)

-----------------------------------------------------------------------------
(* binding_order is a stack of exactly the registered locals, each once, and *)
(* only registered slots hold values.  cleanup_binding pops only when the    *)
(* local is last, so an entry left behind would make frame_release spin.     *)
OrderIsRegistered ==
    \A f \in Frame :
        /\ ToSet(binding_order[f]) = registered[f]
        /\ IsInjective(binding_order[f])
        /\ bound[f] \subseteq registered[f]

(* Whatever leaves a scope, the next local its cleanup slice visits is the   *)
(* most recently registered one: cleanup is in reverse order of introduction *)
(* although blocks and arms store and walk their slices in opposite ways.    *)
CleansInReverse ==
    cleanup # << >> /\ Head(cleanup) \in registered[frame]
        => Last(binding_order[frame]) = Head(cleanup)

(* The checks "duplicate local binding" and "assignment local is unavailable *)
(* in the current frame" never fire, however scopes are re-entered by loops, *)
(* failed guards and recursion.                                              *)
NoInternalInvariant == diagnostic # "internal"

(* A frame that was left holds nothing, so that the next call at that depth  *)
(* starts from empty slots, and the interpreter ends with every slot free.   *)
LeftFramesAreEmpty ==
    \A f \in Frame : f[1] > depth =>
        /\ open[f] = << >> /\ binding_order[f] = << >>
        /\ bound[f] = {} /\ registered[f] = {}

(* Every owned value bound in an executing frame is moved out or reported to *)
(* the cleanup observer exactly once, the logical copies made for contracts  *)
(* never: what is still owed is what still sits in a slot.                   *)
CleanupsOwed ==
    owed = Cardinality({p \in Depths \X Owned : p[2] \in bound[Body(p[1])]})

(* The inout results of a call reach all of the caller's places or none: no  *)
(* failure happens once the first place has been written.                    *)
CommitIsAllOrNothing ==
    writebacks # << >> /\ flow = "error" => commit = "charge"

(* Once the step limit is spent the interpreter still unwinds every frame    *)
(* and returns.                                                              *)
Ends == <>(depth = 0)

=============================================================================
