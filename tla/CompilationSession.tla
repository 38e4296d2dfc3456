------------------------- MODULE CompilationSession -------------------------
(***************************************************************************)
(* A compilation session (src/src/compilation.c), the resource budget it    *)
(* installs for its thread (src/src/resource.c) and the diagnostics it       *)
(* collects (src/src/diagnostic.c).                                          *)
(*                                                                          *)
(* What a phase computes is left open: while it runs it may ask for any      *)
(* resource, add any diagnostic and run out of memory, and it may carry on   *)
(* after a refusal.  A resource is a counter, charged against its limit, or  *)
(* a ceiling (bytes of one file, directory depth), compared with it.         *)
(***************************************************************************)
EXTENDS Naturals, Sequences, FiniteSets

CONSTANTS Counter,   \* counters of SolResourceBudget other than the three named below
          Ceiling,   \* limits that are only compared
          Limit,     \* the limit of every counter
          SizeMax    \* SIZE_MAX

Named == {"diagnostics", "allocation_count", "allocation_bytes"}
Resource == Counter \cup Named
ASSUME BudgetAssumption ==
    /\ SizeMax \in Nat \ {0}
    /\ Limit \in [Resource -> 0..SizeMax]
    /\ Counter \cap Named = {} /\ Ceiling \cap Resource = {}
    /\ "none" \notin Resource \cup Ceiling

Phases == <<"load", "hir", "type", "effect", "contract", "ir">>
Memory == "out of memory"
Misuse == "misuse"
LoadError == "load error"

VARIABLES state,       \* SolSessionState
          outcome,
          error,
          validated,   \* who holds the IR: "nobody", "session" or "caller"
          frontend,    \* frontend_live
          active,      \* sol_active_budget is this session's budget
          used, failure,
          diagnostics, \* of the session: how many of each kind, and allocation_failed
          local,       \* those of the package file being parsed
          origin,      \* compile_path or compile_source
          phase,       \* index in Phases of the phase in progress, 0 when none is
          spent,       \* history: sum of the charges granted
          refused,     \* history: the first request refused
          starved,     \* history: an allocation failed
          produced,    \* history: diagnostics the phases had to report, up to Limit + 1
          given,       \* history: how often the IR was handed out
          frees        \* history: how often the frontend was freed

budget == <<used, failure, spent, refused>>
vars == <<state, outcome, error, validated, frontend, active, budget,
          diagnostics, local, origin, phase, starved, produced, given, frees>>

Kind == {"warning", "error", "internal"}   \* internal: an error coded SOL-INTERNAL-
NoDiagnostics == [warning |-> 0, error |-> 0, internal |-> 0, failed |-> FALSE]
Count(list) == list.warning + list.error + list.internal

(* sol_compilation_create_with_limits                                        *)
Init ==
    /\ state = "EMPTY" /\ outcome = "INVALID_ARGUMENT" /\ error = "none"
    /\ validated = "nobody" /\ frontend = TRUE /\ active = FALSE
    /\ used = [k \in Resource |-> 0] /\ failure = "none"
    /\ diagnostics = NoDiagnostics /\ local = NoDiagnostics
    /\ origin = "none" /\ phase = 0
    /\ spent = [k \in Resource |-> 0] /\ refused = "none" /\ starved = FALSE
    /\ produced = 0 /\ given = 0 /\ frees = 0

-----------------------------------------------------------------------------
(* The budget.                                                               *)

Sum(a, b) == (a + b) % (SizeMax + 1)

FitsBeforehand(u, k, n) == n <= SizeMax - u[k] /\ u[k] <= Limit[k]

FitsUnlessItWraps(u, k, n) == Sum(u[k], n) <= Limit[k]

(* The test of sol_resource_charge.                                          *)
Fits(u, k, n) == n <= SizeMax - u[k] /\ Sum(u[k], n) <= Limit[k]

FailureIsLast(k) == k

FailureIsFirst(k) == IF failure = "none" THEN k ELSE failure

Refuse(k) ==
    /\ failure' = FailureIsFirst(k)
    /\ refused' = IF refused = "none" THEN k ELSE refused

Grant(u, k, n) == [u EXCEPT ![k] = Sum(u[k], n)]

(* sol_resource_charge                                                       *)
Charge(k, n) ==
    \/ /\ Fits(used, k, n)
       /\ used' = Grant(used, k, n)
       /\ spent' = [spent EXCEPT ![k] = @ + n]
       /\ UNCHANGED <<failure, refused>>
    \/ /\ ~Fits(used, k, n)
       /\ Refuse(k)
       /\ UNCHANGED <<used, spent>>

(* sol_resource_charge_allocation: the request is counted before its bytes.  *)
ChargeAllocation(n) ==
    LET counted == Grant(used, "allocation_count", 1)
        fits == Fits(used, "allocation_count", 1) IN
    \/ /\ ~fits
       /\ Refuse("allocation_count")
       /\ UNCHANGED <<used, spent>>
    \/ /\ fits /\ ~Fits(counted, "allocation_bytes", n)
       /\ used' = counted
       /\ spent' = [spent EXCEPT !["allocation_count"] = @ + 1]
       /\ Refuse("allocation_bytes")
    \/ /\ fits /\ Fits(counted, "allocation_bytes", n)
       /\ used' = Grant(counted, "allocation_bytes", n)
       /\ spent' = [spent EXCEPT !["allocation_count"] = @ + 1, !["allocation_bytes"] = @ + n]
       /\ UNCHANGED <<failure, refused>>

AllocationRefused(n) ==
    \/ ~Fits(used, "allocation_count", 1)
    \/ ~Fits(used, "allocation_bytes", n)

-----------------------------------------------------------------------------
(* Starting, and the requests a phase makes.                                 *)

Running == phase # 0
history == <<produced, given, frees>>
session == <<state, outcome, validated, frontend, active, origin, phase, given, frees>>

(* sol_compilation_finish, with the error text of a resource failure.        *)
Finish(o, text) ==
    /\ active' = FALSE /\ outcome' = o /\ error' = text
    /\ state' = IF o = "SUCCEEDED" THEN "COMPILED" ELSE "FAILED"
    /\ phase' = 0

(* sol_compilation_set_resource_error                                        *)
ResourceError(f) == IF f # "none" THEN f
                    ELSE IF error = "none" THEN Memory ELSE error

(* sol_compilation_begin: the IR is allocated under the new budget.          *)
Begin(from, n) ==
    /\ state = "EMPTY" /\ ~Running
    /\ origin' = from
    /\ ChargeAllocation(n)
    /\ \/ /\ ~AllocationRefused(n)
          /\ active' = TRUE /\ validated' = "session" /\ error' = "none" /\ phase' = 1
          /\ UNCHANGED <<state, outcome, starved>>
       \/ /\ Finish("RESOURCE_FAILED", ResourceError(failure'))
          /\ starved' = TRUE
          /\ UNCHANGED validated
    /\ UNCHANGED <<frontend, diagnostics, local, history>>

(* A call with a null argument, on a session already used, or a take_ir that *)
(* is out of place: only the error text changes.                             *)
Reject ==
    /\ ~Running /\ state # "GONE"
    /\ error' = Misuse
    /\ UNCHANGED <<session, budget, diagnostics, local, starved, produced>>

RequestCounter(k, n) ==
    /\ Running
    /\ Charge(k, n)
    /\ UNCHANGED <<session, error, diagnostics, local, starved, produced>>

ExceedCeiling(k) ==
    /\ Running
    /\ Refuse(k)
    /\ UNCHANGED <<session, error, used, spent, diagnostics, local, starved, produced>>

Allocate(n) ==
    /\ Running
    /\ ChargeAllocation(n)
    /\ \/ starved' = (starved \/ AllocationRefused(n))
       \/ starved' = TRUE
    /\ UNCHANGED <<session, error, diagnostics, local, produced>>

(* sol_diagnostics_add: charged, then stored in the list, which may need     *)
(* memory that is not there.                                                 *)
AddTo(list, new, kind) ==
    /\ Charge("diagnostics", 1)
    /\ \/ Fits(used, "diagnostics", 1) /\ new = [list EXCEPT ![kind] = @ + 1]
       \/ new = [list EXCEPT !.failed = TRUE]

Produce == produced' = IF produced > Limit["diagnostics"] THEN produced ELSE produced + 1

Diagnose(kind) ==
    /\ Running
    /\ Produce
    /\ AddTo(diagnostics, diagnostics', kind)
    /\ UNCHANGED <<session, error, local, starved>>

Parsing == Running /\ Phases[phase] = "load" /\ origin = "path"

(* Lexing and parsing a file of a package collects its diagnostics apart.    *)
DiagnoseFile(kind) ==
    /\ Parsing /\ kind # "internal"
    /\ Produce
    /\ AddTo(local, local', kind)
    /\ UNCHANGED <<session, error, diagnostics, starved>>

(* sol_package_add_diagnostics, one diagnostic at a time.                    *)
Aggregate(kind) ==
    /\ Parsing /\ local[kind] > 0
    /\ AddTo(diagnostics, diagnostics', kind)
    /\ local' = [local EXCEPT ![kind] = @ - 1]
    /\ UNCHANGED <<session, error, starved, produced>>

-----------------------------------------------------------------------------
(* The end of a phase.                                                       *)

OutOfResources(d) == failure # "none" \/ d.failed \/ d.internal > 0

HasErrors(d) == d.failed \/ d.error > 0 \/ d.internal > 0

PhaseOutcomeTrustsPhase(completed) ==
    IF HasErrors(diagnostics) THEN "REJECTED"
    ELSE IF completed THEN "SUCCEEDED" ELSE "RESOURCE_FAILED"

(* sol_compilation_phase_outcome                                             *)
PhaseOutcome(completed) ==
    IF OutOfResources(diagnostics) THEN "RESOURCE_FAILED"
    ELSE IF HasErrors(diagnostics) THEN "REJECTED"
    ELSE IF completed THEN "SUCCEEDED" ELSE "RESOURCE_FAILED"

(* sol_compilation_run, a phase at a time.  A phase that lacked memory says  *)
(* so; a package whose files lie unmerged has not been loaded.               *)
EndPhase(completed) ==
    LET o == PhaseOutcome(completed) IN
    /\ Running
    /\ completed => ~starved /\ local = NoDiagnostics
    /\ ~completed => ~Parsing
    /\ \/ /\ o = "SUCCEEDED" /\ phase < Len(Phases)
          /\ phase' = phase + 1
          /\ UNCHANGED <<state, outcome, error, active>>
       \/ /\ o = "SUCCEEDED" /\ phase = Len(Phases)
          /\ Finish(o, error)
       \/ /\ o = "RESOURCE_FAILED"
          /\ Finish(o, ResourceError(failure))
       \/ /\ o = "REJECTED"
          /\ Finish(o, error)
    /\ UNCHANGED <<validated, frontend, budget, diagnostics, local, origin, starved, history>>

LoadFailedOutcomeUnchecked(d) == "LOAD_FAILED"

LoadFailedOutcome(d) == IF OutOfResources(d) THEN "RESOURCE_FAILED" ELSE "LOAD_FAILED"

LoadReturnsEarly(o) ==
    /\ outcome' = o /\ error' = LoadError /\ state' = "FAILED" /\ phase' = 0
    /\ UNCHANGED active

LoadFinish(o) ==
    Finish(o, IF o = "RESOURCE_FAILED" /\ failure # "none" THEN failure ELSE LoadError)

(* sol_package_load returned false: the file system refused, or memory was   *)
(* lacking, which sol_package_load_kind notes in the diagnostics.            *)
FailLoad ==
    LET d == [diagnostics EXCEPT !.failed = @ \/ starved \/ local.failed] IN
    /\ Parsing
    /\ diagnostics' = d
    /\ LoadFinish(LoadFailedOutcome(d))
    /\ UNCHANGED <<validated, frontend, budget, local, origin, starved, history>>

-----------------------------------------------------------------------------
(* After the compilation.                                                    *)

frontend_free ==
    /\ frontend' = FALSE
    /\ frees' = IF frontend THEN frees + 1 ELSE frees

TakeIrAgain ==
    /\ state = "COMPILED" /\ validated = "session"
    /\ given' = given + 1
    /\ frontend_free
    /\ UNCHANGED <<state, outcome, error, validated, active, budget, diagnostics, local, origin,
                   phase, starved, produced>>

(* sol_compilation_take_ir                                                   *)
TakeIr ==
    /\ state = "COMPILED" /\ validated = "session"
    /\ validated' = "caller" /\ given' = given + 1
    /\ frontend_free
    /\ state' = "IR_TAKEN" /\ outcome' = "SUCCEEDED"
    /\ UNCHANGED <<error, active, budget, diagnostics, local, origin, phase, starved,
                   produced>>

(* sol_compilation_free                                                      *)
Free ==
    /\ ~Running /\ state # "GONE"
    /\ state' = "GONE"
    /\ frontend_free
    /\ validated' = IF validated = "session" THEN "nobody" ELSE validated
    /\ UNCHANGED <<outcome, error, active, budget, diagnostics, local, origin, phase,
                   starved, produced, given>>

Amount == 1..SizeMax

Next ==
    \/ \E from \in {"path", "source"}, n \in Amount : Begin(from, n)
    \/ Reject
    \/ \E k \in Counter, n \in Amount : RequestCounter(k, n)
    \/ \E k \in Ceiling : ExceedCeiling(k)
    \/ \E n \in Amount : Allocate(n)
    \/ \E kind \in Kind : Diagnose(kind) \/ DiagnoseFile(kind) \/ Aggregate(kind)
    \/ \E completed \in BOOLEAN : EndPhase(completed)
    \/ FailLoad \/ TakeIr \/ Free

Spec == Init /\ [][Next]_vars

-----------------------------------------------------------------------------
Lists == [warning : Nat, error : Nat, internal : Nat, failed : BOOLEAN]
Outcome == {"SUCCEEDED", "REJECTED", "LOAD_FAILED", "RESOURCE_FAILED", "INVALID_ARGUMENT"}

(* Every variable keeps its type, and no counter ever passes its limit.      *)
TypeOK ==
    /\ state \in {"EMPTY", "COMPILED", "FAILED", "IR_TAKEN", "GONE"}
    /\ outcome \in Outcome
    /\ error \in {"none", Memory, Misuse, LoadError} \cup Resource \cup Ceiling
    /\ validated \in {"nobody", "session", "caller"}
    /\ {frontend, active, starved} \subseteq BOOLEAN
    /\ \A k \in Resource : used[k] \in 0..Limit[k]
    /\ {failure, refused} \subseteq {"none"} \cup Resource \cup Ceiling
    /\ diagnostics \in Lists /\ local \in Lists
    /\ origin \in {"none", "path", "source"}
    /\ phase \in 0..Len(Phases)
    /\ {given, frees, produced} \subseteq Nat

(* The counters of the budget say what was really granted: the addition in   *)
(* sol_resource_charge never wraps around SIZE_MAX.                          *)
ChargesAddUp == \A k \in Resource : used[k] = spent[k]

(* A session that reports success, or has given its IR away, ran all of its  *)
(* phases without a refused request, a failed allocation or an error: a      *)
(* phase that carries on after a refusal cannot turn it into a success       *)
(* (sol_compilation_phase_outcome).                                          *)
SuccessIsClean ==
    state \in {"COMPILED", "IR_TAKEN"} =>
        refused = "none" /\ ~starved /\ ~HasErrors(diagnostics)

(* A limit is never blamed on the program or on the disk: once a request was *)
(* refused, the session is neither REJECTED nor LOAD_FAILED.                 *)
LimitIsNotARejection ==
    outcome \in {"REJECTED", "LOAD_FAILED"} => refused = "none"

(* A resource failure is explained by the first request that was refused,    *)
(* whatever else is refused while the phase unwinds (sol_resource_charge,    *)
(* sol_compilation_set_resource_error).                                      *)
FirstRefusalIsReported ==
    [][outcome # "RESOURCE_FAILED" /\ outcome' = "RESOURCE_FAILED" /\ refused' # "none"
         => error' = refused']_vars

(* The thread's active budget is this session's exactly while it compiles:   *)
(* on every way out of a compilation sol_resource_end is called, so the      *)
(* pointer never outlives the session it points into.                        *)
BudgetOnlyWhileCompiling == active = Running

(* The IR is handed out at most once and then belongs to the caller alone;   *)
(* the frontend is freed once, by take_ir or by free, never by both.         *)
IrGivenOnce ==
    /\ given <= 1 /\ frees <= 1
    /\ given = 1 <=> validated = "caller"
    /\ state = "GONE" => frees = 1 /\ validated # "session"

(* The diagnostics limit is a ceiling on diagnostics: it is exceeded only    *)
(* when more diagnostics than the limit had to be reported.  Charging those  *)
(* of a package file in sol_diagnostics_add both when they are found and when *)
(* sol_package_add_diagnostics copies them breaks it.                        *)
DiagnosticsCeiling == refused = "diagnostics" => produced > Limit["diagnostics"]
=============================================================================
