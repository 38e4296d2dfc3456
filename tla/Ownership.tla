----------------------------- MODULE Ownership ------------------------------
(***************************************************************************)
(* The analysis as the gate of the interpreter: a callable's body is         *)
(* analysed, and executed only when the analysis has accepted it.            *)
(***************************************************************************)
EXTENDS OwnershipExecution

CONSTANTS Program,    \* names of programs
          BodyOf(_)   \* the body of a program: a resolved and well-typed block

VARIABLES program, stage,
          verdict,    \* the analysis' final state
          outcomes    \* all the ways the execution can end

vars == <<program, stage, verdict, outcomes>>

Init ==
    /\ program \in Program
    /\ stage = "lowered"
    /\ verdict = Entry
    /\ outcomes = {}

sol_ir_analyze_ownership ==
    /\ stage = "lowered"
    /\ verdict' = run_ownership(BodyOf(program))
    /\ stage' = IF verdict'.error = "none" THEN "accepted" ELSE "rejected"
    /\ UNCHANGED <<program, outcomes>>

Execute ==
    /\ stage = "accepted"
    /\ outcomes' = evaluate(Frame, BodyOf(program))
    /\ stage' = "executed"
    /\ UNCHANGED <<program, verdict>>

Next == sol_ir_analyze_ownership \/ Execute

Spec == Init /\ [][Next]_vars

-----------------------------------------------------------------------------
Fault == {"unbound", "duplicate", "ancestor", "fallback", "loan", "region"}

Flow(kinds) == \E o \in outcomes : o.flow \in kinds

(* The analysis ends with a verdict on the source, never with one of its     *)
(* internal errors (a loop that does not converge, a local out of scope), an *)
(* accepted body leaves every scope, loan, modify and region it entered, and *)
(* no break or continue leaves the callable.                                 *)
TypeOK ==
    /\ stage \in {"lowered", "accepted", "rejected", "executed"}
    /\ verdict.error \in {"none", "ownership", "initialization", "region"}
    /\ verdict.unavailable \subseteq Place
    /\ verdict.error = "none" =>
          /\ verdict.introduced = Parameter
          /\ verdict.loans = {} /\ verdict.modified = {}
          /\ verdict.region = 0 /\ ~verdict.in_loop
    /\ \A o \in outcomes : o.flow \in {"value", "return", "error"} \cup Fault

(* Whatever values conditions and patterns take, a body that ownership.c     *)
(* accepts never makes the interpreter read, move, borrow or update a slot   *)
(* that is empty or partly empty, bind a local twice, or fall through a      *)
(* require; and a body it takes not to complete does not complete.           *)
AcceptedIsSafe ==
    /\ ~Flow({"unbound", "duplicate", "ancestor", "fallback"})
    /\ ~verdict.reachable => ~Flow({"value"})

(* A place lent to a call or a handler in progress is neither moved nor      *)
(* updated before that call or handler ends, not even by the write-back of   *)
(* another operand of the same call.                                         *)
BorrowsHold == ~Flow({"loan"})

(* No affine value produced in an explicit region is held by a local of an   *)
(* outer scope, or on its way to the caller, once the region is left.        *)
RegionsHold == ~Flow({"region"})
=============================================================================
