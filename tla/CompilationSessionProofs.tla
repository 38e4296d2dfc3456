---------------------- MODULE CompilationSessionProofs ----------------------
(***************************************************************************)
(* The guarantees of a compilation session, proved for any set of counters, *)
(* any limits and any SIZE_MAX.                                             *)
(***************************************************************************)
EXTENDS CompilationSession, TLAPS

(* The counters: what sol_resource_charge keeps.                             *)
BudgetInv ==
    /\ used \in [Resource -> Nat] /\ spent \in [Resource -> Nat]
    /\ \A k \in Resource : used[k] <= Limit[k] /\ used[k] = spent[k]

(* The sticky failure is the first refusal.                                  *)
FailureInv == failure = refused

(* A compilation is in progress only in a session that has not ended, and    *)
(* the session has no outcome before.                                        *)
ControlInv ==
    /\ phase \in Nat
    /\ phase # 0 => active = TRUE
    /\ phase = 0 => active = FALSE
    /\ state # "EMPTY" => phase = 0
    /\ state = "EMPTY" => outcome = "INVALID_ARGUMENT"

(* Who owns the IR and the frontend.                                         *)
OwnerInv ==
    /\ \/ frontend = TRUE /\ frees = 0
       \/ frontend = FALSE /\ frees = 1
    /\ given = IF validated = "caller" THEN 1 ELSE 0
    /\ state = "EMPTY" /\ phase = 0 => validated = "nobody"
    /\ state = "GONE" => frontend = FALSE /\ validated # "session"

-----------------------------------------------------------------------------
(* A charge that fits does not wrap: the guard of sol_resource_charge makes  *)
(* the machine addition exact.                                               *)
LEMMA FitsIsExact ==
    ASSUME NEW u \in [Resource -> Nat], NEW k \in Resource, NEW n \in Nat,
           u[k] <= Limit[k], Fits(u, k, n)
    PROVE  Sum(u[k], n) = u[k] + n /\ u[k] + n <= Limit[k]
<1>1. SizeMax \in Nat /\ Limit[k] \in 0..SizeMax
  BY BudgetAssumption
<1>2. u[k] + n \in Nat /\ u[k] + n < SizeMax + 1
  BY <1>1 DEF Fits
<1>3. (u[k] + n) % (SizeMax + 1) = u[k] + n
  BY <1>1, <1>2
<1> QED
  BY <1>3 DEF Fits, Sum

(* Granting a request that fits keeps every counter exact and within its     *)
(* limit.                                                                    *)
LEMMA GrantKeeps ==
    ASSUME NEW u \in [Resource -> Nat], NEW s \in [Resource -> Nat],
           \A k \in Resource : u[k] <= Limit[k] /\ u[k] = s[k],
           NEW k \in Resource, NEW n \in Nat, Fits(u, k, n)
    PROVE  /\ Grant(u, k, n) \in [Resource -> Nat]
           /\ [s EXCEPT ![k] = @ + n] \in [Resource -> Nat]
           /\ \A j \in Resource : /\ Grant(u, k, n)[j] <= Limit[j]
                                  /\ Grant(u, k, n)[j] = [s EXCEPT ![k] = @ + n][j]
<1>1. Sum(u[k], n) = u[k] + n /\ u[k] + n <= Limit[k]
  BY FitsIsExact
<1>2. Grant(u, k, n) = [u EXCEPT ![k] = u[k] + n]
  BY <1>1 DEF Grant
<1> QED
  BY <1>1, <1>2

(* The three names are resources.                                            *)
LEMMA NamedResources ==
    /\ "diagnostics" \in Resource /\ "allocation_count" \in Resource
    /\ "allocation_bytes" \in Resource
    /\ "allocation_count" # "allocation_bytes"
BY DEF Resource, Named

(* sol_resource_charge keeps the counters, granted or refused.               *)
LEMMA ChargeKeeps ==
    ASSUME BudgetInv, NEW k \in Resource, NEW n \in Nat, Charge(k, n)
    PROVE  BudgetInv'
<1>1. CASE Fits(used, k, n) /\ used' = Grant(used, k, n) /\ spent' = [spent EXCEPT ![k] = @ + n]
  <2> DEFINE u == Grant(used, k, n)  s == [spent EXCEPT ![k] = @ + n]
  <2>1. /\ u \in [Resource -> Nat] /\ s \in [Resource -> Nat]
        /\ \A j \in Resource : u[j] <= Limit[j] /\ u[j] = s[j]
    BY <1>1, GrantKeeps DEF BudgetInv
  <2>2. used' = u /\ spent' = s
    BY <1>1
  <2> HIDE DEF u, s
  <2> QED
    BY <2>1, <2>2 DEF BudgetInv
<1>2. CASE UNCHANGED <<used, spent>>
  BY <1>2 DEF BudgetInv
<1> QED
  BY <1>1, <1>2 DEF Charge

(* sol_resource_charge_allocation keeps them too, also when the request was  *)
(* counted and its bytes were then refused.                                  *)
LEMMA ChargeAllocationKeeps ==
    ASSUME BudgetInv, NEW n \in Nat, ChargeAllocation(n)
    PROVE  BudgetInv'
<1> DEFINE c == "allocation_count"  b == "allocation_bytes"
           u == Grant(used, c, 1)   s == [spent EXCEPT ![c] = @ + 1]
<1>1. CASE UNCHANGED <<used, spent>>
  BY <1>1 DEF BudgetInv
<1>2. ASSUME Fits(used, c, 1)
      PROVE  /\ u \in [Resource -> Nat] /\ s \in [Resource -> Nat]
             /\ \A j \in Resource : u[j] <= Limit[j] /\ u[j] = s[j]
  BY <1>2, GrantKeeps, NamedResources DEF BudgetInv
<1>3. CASE Fits(used, c, 1) /\ used' = u /\ spent' = s
  <2> HIDE DEF u, s
  <2> QED
    BY <1>2, <1>3 DEF BudgetInv
<1>4. CASE /\ Fits(used, c, 1) /\ Fits(u, b, n)
           /\ used' = Grant(u, b, n)
           /\ spent' = [spent EXCEPT ![c] = @ + 1, ![b] = @ + n]
  <2> DEFINE v == Grant(u, b, n)  t == [s EXCEPT ![b] = @ + n]
  <2>1. spent' = t
    BY <1>4, NamedResources DEF BudgetInv
  <2> HIDE DEF u, s
  <2>2. /\ v \in [Resource -> Nat] /\ t \in [Resource -> Nat]
        /\ \A j \in Resource : v[j] <= Limit[j] /\ v[j] = t[j]
    BY <1>2, <1>4, GrantKeeps, NamedResources
  <2>3. used' = v
    BY <1>4
  <2> HIDE DEF v, t
  <2> QED
    BY <2>1, <2>2, <2>3 DEF BudgetInv
<1> QED
  BY <1>1, <1>3, <1>4 DEF ChargeAllocation

(* Every step keeps the counters.                                            *)
LEMMA BudgetStep == BudgetInv /\ [Next]_vars => BudgetInv'
<1> SUFFICES ASSUME BudgetInv, [Next]_vars PROVE BudgetInv'
  OBVIOUS
<1>0. Amount \subseteq Nat
  BY BudgetAssumption DEF Amount
<1>1. CASE UNCHANGED <<used, spent>>
  BY <1>1 DEF BudgetInv
<1>2. ASSUME NEW from \in {"path", "source"}, NEW n \in Amount, Begin(from, n) PROVE BudgetInv'
  BY <1>0, <1>2, ChargeAllocationKeeps DEF Begin
<1>3. ASSUME NEW k \in Counter, NEW n \in Amount, RequestCounter(k, n) PROVE BudgetInv'
  BY <1>0, <1>3, ChargeKeeps DEF RequestCounter, Resource
<1>4. ASSUME NEW n \in Amount, Allocate(n) PROVE BudgetInv'
  BY <1>0, <1>4, ChargeAllocationKeeps DEF Allocate
<1>5. ASSUME NEW kind \in Kind, Diagnose(kind) \/ DiagnoseFile(kind) \/ Aggregate(kind)
      PROVE  BudgetInv'
  BY <1>5, ChargeKeeps, NamedResources DEF Diagnose, DiagnoseFile, Aggregate, AddTo
<1>6. CASE Reject \/ (\E k \in Ceiling : ExceedCeiling(k)) \/ FailLoad \/ TakeIr \/ Free
           \/ \E completed \in BOOLEAN : EndPhase(completed)
  BY <1>1, <1>6 DEF Reject, ExceedCeiling, FailLoad, TakeIr, Free, EndPhase, budget
<1>7. CASE UNCHANGED vars
  BY <1>1, <1>7 DEF vars, budget
<1> QED
  BY <1>2, <1>3, <1>4, <1>5, <1>6, <1>7 DEF Next

(* The counters of sol_resource_charge always say what was granted.          *)
THEOREM ChargesAddUpHolds == Spec => []ChargesAddUp
<1>1. Init => BudgetInv
  BY BudgetAssumption DEF Init, BudgetInv
<1>2. BudgetInv => ChargesAddUp
  BY DEF BudgetInv, ChargesAddUp
<1> QED
  BY <1>1, <1>2, BudgetStep, PTL DEF Spec

(* No counter passes the limit the session was created with                  *)
(* (sol_resource_charge).                                                    *)
THEOREM LimitsHold == Spec => [](\A k \in Resource : used[k] <= Limit[k])
<1>1. Init => BudgetInv
  BY BudgetAssumption DEF Init, BudgetInv
<1>2. BudgetInv => \A k \in Resource : used[k] <= Limit[k]
  BY DEF BudgetInv
<1> QED
  BY <1>1, <1>2, BudgetStep, PTL DEF Spec

-----------------------------------------------------------------------------
(* Outcomes.                                                                 *)

OutcomeInv ==
    /\ FailureInv
    /\ ControlInv
    /\ SuccessIsClean
    /\ LimitIsNotARejection

Requests ==
    \/ \E k \in Counter, n \in Amount : RequestCounter(k, n)
    \/ \E k \in Ceiling : ExceedCeiling(k)
    \/ \E n \in Amount : Allocate(n)
    \/ \E kind \in Kind : Diagnose(kind) \/ DiagnoseFile(kind) \/ Aggregate(kind)

(* However the budget refuses, it keeps the sticky failure and the first     *)
(* refusal equal (sol_resource_charge).                                      *)
LEMMA RefusalIsSticky ==
    ASSUME FailureInv,
           \/ \E k \in Ceiling : Refuse(k)
           \/ \E k \in Resource, n \in Amount : Charge(k, n)
           \/ Charge("diagnostics", 1)
           \/ \E n \in Amount : ChargeAllocation(n)
    PROVE  FailureInv'
BY DEF FailureInv, Refuse, FailureIsFirst, Charge, ChargeAllocation

(* A request of a running phase changes neither the session's state nor the  *)
(* phase, whether it is granted or refused.                                  *)
LEMMA RequestFrame ==
    ASSUME FailureInv, Requests
    PROVE  phase # 0 /\ FailureInv' /\ UNCHANGED <<session, error>>
<1>1. ASSUME NEW k \in Counter, NEW n \in Amount, RequestCounter(k, n)
      PROVE  phase # 0 /\ FailureInv' /\ UNCHANGED <<session, error>>
  BY <1>1, RefusalIsSticky DEF RequestCounter, Running, Resource
<1>2. ASSUME NEW k \in Ceiling, ExceedCeiling(k)
      PROVE  phase # 0 /\ FailureInv' /\ UNCHANGED <<session, error>>
  BY <1>2, RefusalIsSticky DEF ExceedCeiling, Running
<1>3. ASSUME NEW n \in Amount, Allocate(n)
      PROVE  phase # 0 /\ FailureInv' /\ UNCHANGED <<session, error>>
  BY <1>3, RefusalIsSticky DEF Allocate, Running
<1>4. ASSUME NEW kind \in Kind, Diagnose(kind) \/ DiagnoseFile(kind) \/ Aggregate(kind)
      PROVE  phase # 0 /\ FailureInv' /\ UNCHANGED <<session, error>>
  <2>1. phase # 0 /\ Charge("diagnostics", 1) /\ UNCHANGED <<session, error>>
    BY <1>4 DEF Diagnose, DiagnoseFile, Aggregate, AddTo, Parsing, Running
  <2> QED
    BY <2>1, RefusalIsSticky
<1> QED
  BY <1>1, <1>2, <1>3, <1>4 DEF Requests

(* The outcome of a phase is clean: success excludes every refusal and every *)
(* error, a rejection excludes every refusal (sol_compilation_phase_outcome).*)
LEMMA PhaseOutcomeIsClean ==
    ASSUME FailureInv, NEW completed \in BOOLEAN
    PROVE  /\ PhaseOutcome(completed) = "SUCCEEDED" =>
                 completed /\ refused = "none" /\ ~HasErrors(diagnostics)
           /\ PhaseOutcome(completed) = "REJECTED" => refused = "none"
           /\ PhaseOutcome(completed) \in {"SUCCEEDED", "REJECTED", "RESOURCE_FAILED"}
BY DEF FailureInv, PhaseOutcome, OutOfResources

(* Every step keeps the outcome honest.                                      *)
LEMMA OutcomeStep == OutcomeInv /\ [Next]_vars => OutcomeInv'
<1> SUFFICES ASSUME OutcomeInv, [Next]_vars PROVE OutcomeInv'
  OBVIOUS
<1> USE DEF OutcomeInv, ControlInv
<1>1. ASSUME NEW from \in {"path", "source"}, NEW n \in Amount, Begin(from, n)
      PROVE  OutcomeInv'
  <2>1. FailureInv'
    BY <1>1, RefusalIsSticky DEF Begin
  <2> QED
    BY <1>1, <2>1 DEF Begin, Finish, Running, SuccessIsClean, LimitIsNotARejection
<1>2. CASE Requests
  <2>1. phase # 0 /\ FailureInv' /\ UNCHANGED <<session, error>>
    BY <1>2, RequestFrame
  <2> QED
    BY <2>1 DEF session, SuccessIsClean, LimitIsNotARejection
<1>3. ASSUME NEW completed \in BOOLEAN, EndPhase(completed) PROVE OutcomeInv'
  <2>1. phase # 0 /\ UNCHANGED <<failure, refused, diagnostics, starved>>
    BY <1>3 DEF EndPhase, Running, budget
  <2>2. FailureInv' /\ state = "EMPTY"
    BY <2>1 DEF FailureInv
  <2>3. CASE phase' = phase + 1 /\ UNCHANGED <<state, outcome, error, active>>
    BY <2>1, <2>2, <2>3 DEF SuccessIsClean, LimitIsNotARejection
  <2>4. CASE PhaseOutcome(completed) = "SUCCEEDED" /\ Finish("SUCCEEDED", error)
    <3>1. refused' = "none" /\ ~starved' /\ ~HasErrors(diagnostics)'
      BY <1>3, <2>1, <2>4, PhaseOutcomeIsClean DEF EndPhase, HasErrors
    <3> QED
      BY <2>2, <2>4, <3>1 DEF Finish, SuccessIsClean, LimitIsNotARejection
  <2>5. CASE Finish("RESOURCE_FAILED", ResourceError(failure))
    BY <2>2, <2>5 DEF Finish, SuccessIsClean, LimitIsNotARejection
  <2>6. CASE PhaseOutcome(completed) = "REJECTED" /\ Finish("REJECTED", error)
    <3>1. refused' = "none"
      BY <2>1, <2>6, PhaseOutcomeIsClean
    <3> QED
      BY <2>2, <2>6, <3>1 DEF Finish, SuccessIsClean, LimitIsNotARejection
  <2> QED
    BY <1>3, <2>3, <2>4, <2>5, <2>6 DEF EndPhase
<1>4. CASE FailLoad
  <2> DEFINE d == [diagnostics EXCEPT !.failed = @ \/ starved \/ local.failed]
  <2>1. phase # 0 /\ UNCHANGED <<failure, refused>> /\ LoadFinish(LoadFailedOutcome(d))
    BY <1>4 DEF FailLoad, Parsing, Running, budget
  <2> HIDE DEF d
  <2>2. LoadFailedOutcome(d) \in {"RESOURCE_FAILED", "LOAD_FAILED"}
        /\ (LoadFailedOutcome(d) = "LOAD_FAILED" => refused = "none")
    BY DEF LoadFailedOutcome, OutOfResources, FailureInv
  <2> QED
    BY <2>1, <2>2 DEF LoadFinish, Finish, FailureInv, SuccessIsClean, LimitIsNotARejection
<1>5. CASE Reject \/ TakeIr \/ Free \/ UNCHANGED vars
  BY <1>5 DEF Reject, TakeIr, Free, Running, vars, session, budget, FailureInv,
              SuccessIsClean, LimitIsNotARejection, HasErrors
<1> QED
  BY <1>1, <1>2, <1>3, <1>4, <1>5 DEF Next, Requests

(* The outcome is honest in every reachable state.                           *)
LEMMA OutcomeHolds == Spec => []OutcomeInv
<1>1. Init => OutcomeInv
  BY DEF Init, OutcomeInv, FailureInv, ControlInv, SuccessIsClean, LimitIsNotARejection
<1> QED
  BY <1>1, OutcomeStep, PTL DEF Spec

(* A success had no refusal, no failed allocation and no error               *)
(* (sol_compilation_phase_outcome).                                          *)
THEOREM SuccessIsCleanHolds == Spec => []SuccessIsClean
BY OutcomeHolds, PTL DEF OutcomeInv

(* A limit that was reached is never reported as a rejection or as a load    *)
(* failure.                                                                  *)
THEOREM LimitIsNotARejectionHolds == Spec => []LimitIsNotARejection
BY OutcomeHolds, PTL DEF OutcomeInv

(* The thread's budget is installed exactly while the session compiles       *)
(* (sol_resource_begin, sol_resource_end).                                   *)
THEOREM BudgetOnlyWhileCompilingHolds == Spec => []BudgetOnlyWhileCompiling
<1>1. OutcomeInv => BudgetOnlyWhileCompiling
  BY Zenon DEF OutcomeInv, ControlInv, BudgetOnlyWhileCompiling, Running
<1> QED
  BY <1>1, OutcomeHolds, PTL

(* The step that makes the outcome a resource failure names the first        *)
(* refusal as its reason (sol_compilation_set_resource_error).               *)
THEOREM FirstRefusalIsReportedHolds == Spec => FirstRefusalIsReported
<1> DEFINE Reported == outcome # "RESOURCE_FAILED" /\ outcome' = "RESOURCE_FAILED"
                       /\ refused' # "none" => error' = refused'
<1>1. OutcomeInv /\ [Next]_vars => [Reported]_vars
  <2> SUFFICES ASSUME OutcomeInv, [Next]_vars, outcome' # outcome, outcome' = "RESOURCE_FAILED",
                      refused' # "none"
               PROVE  error' = refused'
    OBVIOUS
  <2>0. failure' = refused'
    BY OutcomeStep DEF OutcomeInv, FailureInv
  <2>1. ASSUME NEW from \in {"path", "source"}, NEW n \in Amount, Begin(from, n)
        PROVE  error' = refused'
    BY <2>0, <2>1 DEF Begin, Finish, ResourceError
  <2>2. CASE Requests
    BY <2>2, RequestFrame DEF OutcomeInv, session
  <2>3. ASSUME NEW completed \in BOOLEAN, EndPhase(completed) PROVE error' = refused'
    <3>1. UNCHANGED failure
      BY <2>3 DEF EndPhase, budget
    <3>2. \/ UNCHANGED outcome
          \/ Finish("SUCCEEDED", error)
          \/ Finish("RESOURCE_FAILED", ResourceError(failure))
          \/ Finish("REJECTED", error)
      BY <2>3 DEF EndPhase
    <3> QED
      BY <2>0, <3>1, <3>2 DEF Finish, ResourceError
  <2>4. CASE FailLoad
    <3> DEFINE d == [diagnostics EXCEPT !.failed = @ \/ starved \/ local.failed]
    <3>1. UNCHANGED failure /\ LoadFinish(LoadFailedOutcome(d))
      BY <2>4 DEF FailLoad, budget
    <3> HIDE DEF d
    <3> QED
      BY <2>0, <3>1 DEF LoadFinish, Finish
  <2>5. CASE Reject \/ TakeIr \/ Free \/ UNCHANGED vars
    BY <2>5 DEF Reject, TakeIr, Free, vars, session
  <2> QED
    BY <2>1, <2>2, <2>3, <2>4, <2>5 DEF Next, Requests
<1> QED
  BY <1>1, OutcomeHolds, PTL DEF Spec, FirstRefusalIsReported

-----------------------------------------------------------------------------
(* Ownership of the IR and of the frontend.                                  *)

(* Every step keeps account of who owns the IR and whether the frontend has  *)
(* been freed.                                                               *)
LEMMA OwnerStep == OutcomeInv /\ OwnerInv /\ [Next]_vars => OwnerInv'
<1> SUFFICES ASSUME OutcomeInv, OwnerInv, [Next]_vars PROVE OwnerInv'
  OBVIOUS
<1>0. state # "EMPTY" => phase = 0
  BY DEF OutcomeInv, ControlInv
<1>1. ASSUME NEW from \in {"path", "source"}, NEW n \in Amount, Begin(from, n)
      PROVE  OwnerInv'
  BY <1>1 DEF OwnerInv, Begin, Finish, Running, history
<1>2. CASE Requests
  BY <1>2, RequestFrame DEF OutcomeInv, OwnerInv, session
<1>3. ASSUME NEW completed \in BOOLEAN, EndPhase(completed) PROVE OwnerInv'
  <2>1. phase # 0 /\ UNCHANGED <<validated, frontend, given, frees>>
    BY <1>3 DEF EndPhase, Running, history
  <2>2. \/ phase' = phase + 1 /\ UNCHANGED state
        \/ state' \in {"COMPILED", "FAILED"}
    BY <1>3 DEF EndPhase, Finish
  <2>3. phase \in Nat
    BY DEF OutcomeInv, ControlInv
  <2> QED
    BY <1>0, <2>1, <2>2, <2>3 DEF OwnerInv
<1>4. CASE FailLoad
  <2>1. state' \in {"COMPILED", "FAILED"} /\ UNCHANGED <<validated, frontend, given, frees>>
    BY <1>4 DEF FailLoad, LoadFinish, Finish, history
  <2> QED
    BY <2>1 DEF OwnerInv
<1>5. CASE Reject \/ UNCHANGED vars
  BY <1>5 DEF Reject, vars, session, OwnerInv
<1>6. CASE TakeIr
  BY <1>6 DEF TakeIr, frontend_free, OwnerInv
<1>7. CASE Free
  BY <1>7 DEF Free, frontend_free, OwnerInv
<1> QED
  BY <1>1, <1>2, <1>3, <1>4, <1>5, <1>6, <1>7 DEF Next, Requests

(* The IR is handed out at most once and the frontend is freed exactly once  *)
(* (sol_compilation_take_ir, sol_compilation_free).                          *)
THEOREM IrGivenOnceHolds == Spec => []IrGivenOnce
<1>1. Init => OwnerInv
  BY DEF Init, OwnerInv
<1>2. OwnerInv => IrGivenOnce
  BY DEF OwnerInv, IrGivenOnce
<1> QED
  BY <1>1, <1>2, OwnerStep, OutcomeHolds, PTL DEF Spec
=============================================================================
