# A TLA+ verification of Sol

Sol is a compiler and a reference interpreter written in C17. These modules
model the parts of it in which order, failure, concurrency with other programs,
or long sequences of legal calls decide correctness. TLC checks the models on
small instances. TLAPS proves the theorems listed below for every value of the
constants. `PROJECT.json` gives the source lines of each definition and lists
the components, runs, findings, hazards and theorems.

Most of the compiler is **not** modelled: the mapped definitions stand for
about 10,600 of 121,000 lines of C. [What is left](#not-modelled) is listed by
component.

## The system

| Part | Source | State and operations | What is hard | Module |
|---|---|---|---|---|
| Source and package loading | `source.c`, `package.c` | file list with identities, merged source; discover, sort, open, read, compare | the tree changes while it is read | `PackageLoad` |
| Resource budget, diagnostics | `resource.c`, `diagnostic.c` | counters, first failure, thread's active budget; charge | wrap-around, refusals that are ignored | `CompilationSession` |
| Compilation session | `compilation.c` | state, outcome, IR, frontend; compile, take the IR, free | which failure is reported, who owns what | `CompilationSession` |
| Ownership analysis | `ownership.c` | moved places, initialized locals, loans, regions | joins, loop fixed points, soundness against execution | `OwnershipAnalysis`, `OwnershipExecution`, `Ownership` |
| Interpreter frames | `interpreter.c`, `ir.c` | frames, slots, `binding_order`, depth, steps | cleanup on every way out of a scope | `InterpreterFrames` |
| Hosts, capabilities, handlers | `compilation.c`, `interpreter.c` | registry, grants, handler chain | authority along chains of handlers and providers | `HostDispatch` |
| `sol fmt` | `main.c` | staging files, backups, paths | partial failure, power loss, editors | `FormatTransaction`, `AtomicRewrite` |
| Effect rows | `effectcheck.c`, `interpreter.c` | call graph, components, rows; infer, coerce, validate, then execute | recursion, aliases and callbacks; subtraction by handlers against interception | `EffectCheck`, `Effects` |
| MIR lowering and validation | `mir.c` | blocks, scopes, temporaries, loop stack; the validator's dataflow passes | every exit must clean up exactly what is live; the validator must accept what lowering builds and nothing that faults | `MirLowering`, `MirSource`, `MirValidate` |
| MIR evaluator | `mir_eval.c` | frame with locals, temporaries and handlers | it must do what the reference interpreter does | `MirRuntime`, `MirEval`, `MirReference`, `Mir` |
| Lexer, parser, HIR, types, contracts, IR | front end | tables built in one pass | copyability fixed point, pattern usefulness | not modelled |
| MIR planning, linkage, runtime stages, Wasm | `mir_*.c`, `wasm*.c` | tables, worklists, validators | limits, numbering, cleanup on failure edges | not modelled |

A package is loaded within a session, under the session's budget. The front end
checks effect rows and fills tables that end in an IR. Ownership analysis accepts
or rejects the IR. The interpreter runs it, and its capability operations reach
handlers or the host. The IR of a callable is also lowered to MIR, which is
validated and can be evaluated in place of the interpreter.
`sol fmt` loads a package in the same way and rewrites its files.

## Modules

**`FormatTransaction`** is `sol_fmt_path` after the load and
`sol_format_write_transaction` with rollback and cleanup. One action is one loop
iteration, and each of its two renames is an action of its own. `disk` holds the three names of a file
(path, staging file, backup). `survivors` holds what a power loss may leave of
them. Every call may fail, and another program may edit a path between any two
steps. `AtomicRewrite` is the promise: nothing old is given up before every file
shows its new content. The refinement mapping reads `view`, `saved` and
`decision` from the names and the result.

**`CompilationSession`** leaves open what a phase computes: it may ask for any
resource, add any diagnostic, run out of memory, and go on after a refusal.
Counters wrap at `SizeMax`, as `size_t` does.

**`PackageLoad`** has a name space over inodes that other programs change, and
the loader's steps between system calls. `truth` is a history variable that only the properties read; `touched` also says
which entries a scan may miss, the ones changed since it began.

**`InterpreterFrames`** leaves the program open: any scope may be entered in any
nesting and any operation may fail. What the IR fixes stays fixed, namely which
locals a scope introduces, and the stored order of its cleanup slice. Each depth
has the executing frame and the logical copy its contracts are evaluated in.

**`HostDispatch`** composes the registry (create, bind, allow, free), the
preflight, and the dispatch of operations through lexical handlers, providers,
Sol bodies and host callbacks.

**`OwnershipAnalysis`** is the dataflow of `ownership.c` as operators over
abstract bodies. **`OwnershipExecution`** is the interpreter's treatment of
the same bodies, as the set of outcomes over all values of conditions and
patterns. **`Ownership`** runs the first and then, on acceptance, the second.

**`EffectCheck`** has one action per step of `sol_effect_check`: the two
depth-first searches of `sol_effect_find_components` over explicit stacks, the
inference of omitted rows site by site and atom by atom, the check of coercions,
and the validation of declared rows. A function's body is the sequence of its
calls, operations, callback calls and panics, with the handlers around each.
`stale` records that an atom was read from an array after `realloc` moved it; the
atom is then any atom. **`Effects`** adds the execution of an accepted program,
in any order of its sites, with capability parameters bound to authorities.

**`MirLowering`** is `sol_mir_lower_callable` as operators that thread the
lowerer's state: evaluation order, staging of owned operands in temporaries,
scopes, loops, matches with guards, propagation, handlers, contracts, and the
cleanup of each exit. **`MirSource`** and **`MirValidate`** are
`sol_mir_validate`: what the IR requires to be represented, reachability,
dominance, and the dataflow of storage, moved places, temporaries, regions and
handlers, with their pass limits. **`MirRuntime`** holds values and frames,
**`MirEval`** executes a MIR block by block, and **`MirReference`** is the
interpreter on the same callable. **`Mir`** composes them: analyse, build,
validate, possibly change the MIR as a caller of the library could, validate
again, and run, with the outcome of every open computation chosen on the way.

## Runs

| Run | Instance | States | Shows |
|---|---|---|---|
| `format_edits` | 2 files, 2 edits | 691,901 | originals are never lost, failures restore, nothing is left behind, early edits survive |
| `format_refines` | 3 files, no editor | 41,886 | `AtomicRewrite` is implemented, and the transaction ends |
| `format_lost_edit` | 1 file, 1 edit | | *violation*, see findings |
| `session` | `SizeMax` 3 | 159,613 | limits hold and are reported as limits; IR and frontend are released once |
| `session_diagnostics` | limit 1 | | *violation*, see findings |
| `package_load` | 3 directories, 3 files, 1 link, 2 changes | 461,996 | no torn text, no duplicate, no missed file, offsets find their file |
| `frames` | 2 callables, 2 scopes, depth 2, 6 steps | 258,753 | cleanup is a stack discipline, is balanced, and finishes |
| `host_dispatch` | 2 roots, 3 operations, nesting 3 | 432,867 | only granted and declared calls; a provider never meets its own handler |
| `ownership` | 82,200 bodies | 200,740 | accepted bodies never touch a missing value, disturb a loan, or leak from a region |
| `mir` | 22 statements in 15 structures, structures in structures, 4 open outcomes | 65,941 | accepted bodies are lowered and validated, but for six shapes; fixed points settle within their limits; validated MIR, changed or not, never faults and leaves nothing behind; both executors agree |
| `effects` | 3 functions, 2 authorities, 3 frames | 322,140 | inferred rows are the least ones, rows cover what runs, the check ends |
| `effects_least` | self recursion | | *violation*, see findings |

Each property has a mutant in `PROJECT.json`: a plausible change of a mapped
definition under which TLC finds that property violated.

### Bounds

- `FormatTransaction`: two files are needed for a failure after an installed
  file, and three for one with files on both sides of it. Two edits
  allow an edit and its undoing, or an edit of each file.
- `CompilationSession`: with limits just under `SizeMax` every addition can
  wrap. One counter and one ceiling stand for all, since they share their code;
  the proofs need no such bound.
- `PackageLoad`: paths have at most two names. Two changes suffice to replace a
  binding and put it back, or to move a file between two listed names.
- `InterpreterFrames`: six steps reach a call within a scope within a loop, a
  contract that calls, and a limit met while two inout results are committed. Two locals
  per scope tell the orders of cleanup apart.
- `HostDispatch`: nesting three has a handler, a provider it runs, and a handler
  opened by that provider. The call limit of one is both used and exceeded.
- `Ownership`: every pair of 26 simple statements in each of 11 control
  structures, and every nesting of two structures around two of eight core
  statements, followed by a statement that probes the result. Guards are those
  `sol_ir_guard_expression_pure` admits. Loops run until no new state appears.
  This is soundness over enumerated bodies, not over all programs.
- `Mir`: every one of 22 statements before each of three others in each of 15
  control structures, with and without contracts, and every nesting of two
  structures around two of three core statements. A path with more than four
  open outcomes is cut. Changed MIR differs from lowered MIR by one
  instruction left out, repeated or exchanged, or by one edge.
- `Effects`: a function that is inferred, one that it calls in mutual recursion,
  and a third that is declared, takes a callback, or is a callback. Two
  capability parameters can be aliased and exchanged. Three frames reach an
  operation through a wrapper below a handler of its caller.

`CHECK_DEADLOCK FALSE` is set where the modelled operation ends: a transaction
that returned, a session that was freed, a load that finished, a body that was
judged, a MIR that returned, a program that was rejected or has no site left to
execute within the frames.

### Fairness

Three runs check liveness. `FormatTransaction` assumes weak fairness of `Step`,
`InterpreterFrames` of `Next`, and `Effects` of `Check`. All are single threads
that run until they return, so a step that stays possible is taken. In `InterpreterFrames` this says
that unwinding finishes once the step limit ends the program. Nothing is assumed
of editors, hosts or power losses.

## Assumptions of the models

- *Power loss.* Changes of names in one directory reach the disk in the order
  they were made, and an `fsync` of the directory makes all earlier ones
  durable. The content of a staging file is durable once it has been synced.
- *Time stamps.* Two changes of a file have different stamps. On a file system
  with coarse stamps `NoTornSource` rests on size and identity alone.
- *Package tree.* The package directory itself is not replaced during a load.
- *IR.* Locals have distinct ids in a callable, and slices are those `ir.c`
  lowers. These are the `ASSUME`s of `InterpreterFrames`, and TLC evaluates them.
- *MIR.* The checks of the validator that concern one record (ids in range,
  types, spans) are taken as passed. Callees, predicates and patterns are open:
  a call may fail, a test may go either way. Limits of the evaluator on steps,
  values and depth are not modelled.
- *Effects.* Operations that a handler installs are pure, as `typecheck.c`
  requires, so an intercepted operation performs nothing. A row that captures a
  callback's row is declared (`effectcheck.c:4737`). The format of programs is
  `ProgramAssumption` and `OperationAssumption`, which TLC evaluates.

## Findings

1. **A late edit is lost by `sol fmt`** (`format_lost_edit`).
   `docs/compiler-status.md:937` says the rewrite "detects concurrent source
   changes before commit". All files are verified first and renamed afterwards.
   An edit saved in between goes into the backup, which success unlinks.
   `EarlyEditSurvives` shows the rest of the promise does hold.
2. **Diagnostics of package files are charged twice** (`session_diagnostics`).
   `docs/compiler-status.md:779` promises a ceiling on diagnostics. A diagnostic
   of the lexer or the parser is charged in the file's list and again when it is
   copied to the session's. The limit is therefore met at half its value.

3. **A self-recursive row may be inferred from released memory**
   (`effects_least`). `docs/specification.typ:752` says "Recursive private
   inference computes a least fixed point". In a call of the function that is
   being inferred, the atoms to add are read from the function's own row
   (`effectcheck.c:1241`) while that row grows through `realloc` (`:365`). Once
   the array moves, the rest of the loop reads what was released. The run finds
   a function with two effects that calls itself with its capabilities exchanged.
   Where nothing is read after a move, `InferredIsLeast` shows the promise holds.

Disagreements of parts that `LoweredOrListed` names, so that the property says
exactly where an accepted body is not lowered. The compiler reports an error
for them and generates nothing wrong:

- a whole local that is assigned after it was moved or declared: the validator
  finds the storage transitions inconsistent (`mir.c:2207` against `:3557`);
- a compound assignment whose right side does not complete (`mir.c:2178`);
- a match arm whose body needs a temporary (`mir.c:1686`, `:1703`);
- a loop that is left although its body has type `Never` (`mir.c:2755`);
- a call, propagation or match with an operand that does not complete, whose
  own type is not `Never`;
- a region after a statement that does not complete.

Two more were met while modelling and are excluded by the instance or named in
a property. `evaluate_block` keeps the value of the statement before a final
`let` or declaration (`interpreter.c:2297`, `:2441`) where MIR gives unit; the
bodies of `MCMir` end in an expression. A handler's effect is subtracted from
rows by name and root (`effectcheck.c:375`), while the interpreter intercepts one
operation (`interpreter.c:1431`); another operation with the same effect under
that handler is therefore in no row, which `RowsCover` excludes as `handled`.

## Proofs

`FormatTransactionProofs` holds for every number of files and edits (`N` at
least 1, `MaxEdits` a natural number).

- `TypeCorrect`: type correctness, with the rollback's index in bounds.
- `LeavesNoLitter`, from the inductive invariant `Bookkeeping`. `NoLitter` alone
  says nothing until the end; `Bookkeeping` adds which staging files and backups
  exist in each phase, and that whatever lies on the disk is still owned.
- `AllOrNothingHolds` and `FailureRestoresHolds`, from `QuietInv`: every state a
  power loss may leave has the original, or after the decision the formatted
  text (`Safe`), and `original_in_backup` tells the truth (`Truthful`). The flag
  is what rollback and cleanup rely on, so neither half is inductive alone.
- `EarlyEditSurvivesHolds`, from `EarlyInv`: a file with an early edit never
  gets past its verification.
- `Refinement`: the transaction without an editor implements `AtomicRewrite`.
  Each step changes one file (`StepIsLocal`), which makes it a step of the
  abstract specification or a stutter.

`CompilationSessionProofs` holds for any counters, limits and `SizeMax`
(`BudgetAssumption`).

- `ChargesAddUpHolds`, `LimitsHold`, from `BudgetInv`: the guard of
  `sol_resource_charge` subtracts before it adds, so a charge that fits is exact.
- `SuccessIsCleanHolds`, `LimitIsNotARejectionHolds`,
  `BudgetOnlyWhileCompilingHolds`, `FirstRefusalIsReportedHolds`, from
  `OutcomeInv`: the sticky failure equals the first refusal at all times, and a
  budget is active exactly while a phase runs.
- `IrGivenOnceHolds`, from `OwnerInv`, which follows both owners through every
  operation.

`EffectCheckProofs` and `EffectClosureProofs` hold for every program of the
format that `ProgramAssumption` states: any number of functions, sites and
atoms.

- `InferenceAddsNothingExtra`: as long as nothing was read from a released row,
  the rows are below every assignment of rows that contains the declared ones
  and is closed under what the sites add, in particular below the least one.
  `LeastInv` strengthens this with what is in flight: the atoms copied from a
  callee's row are justified by the site they were read for. `ShapeInv` gives
  the types and `DeclaredInv` that declared rows do not change.
- `ComponentsCloseBeforeTheyAreLeft`: the pass after which a component is left
  found every row of it closed. `PassInv` says that while a pass has changed
  nothing, the rows contain what the walked sites add and what the atoms read so
  far of the current site add; `PlaceInv` places the walk within its function.

Together they are the two halves of `InferredIsLeast`, apart from the order of
components, which rests on the depth-first searches and is only model-checked.

Only model-checked: the three liveness properties (fairness and `ENABLED` are out
of the prover's reach), everything about `Ownership` and `Mir` (lowering,
analysis and execution are recursive operators), `RowsCover`, and for now `PackageLoad`, `InterpreterFrames` and
`HostDispatch`.

## Not modelled

Values are abstracted to what the properties tell apart, so lifetimes of
interpreter values, arithmetic and text are left out, as are rendering and
argument parsing. In the modelled parts these are missing: relocation of syntax
arenas in `package.c`, the line index of `source.c`, and in `ownership.c`
copyability, the repair of moved callable fields, recorded local uses and
allocation failures. All other components are in `PROJECT.json` with a reason.

## Plan

In this order:

1. **Runtime cleanup** (`mir_runtime_cleanup.c`): the cleanup actions of each
   failure and transfer edge, composed with `Mir`.
2. **Instance planning** (`mir_plan.c`): the demand worklist, its limits, and
   that its numbering does not depend on the order of discovery.
3. **Linkage** (`mir_linkage*.c`): the work meter and its replay by the validator.
4. **Front end as pure functions**: copyability, the lexer's nested comments, the
   line index, and pattern usefulness in `typecheck.c`.
5. **Proofs**: `ChainIsVisibleHandles` and `OnlyGrantedCalls` of `HostDispatch`,
   `OrderIsRegistered` of `InterpreterFrames`, and `FilesAreDistinct` and
   `NoTornSource` of `PackageLoad`.

## Running

`tlc -config X.cfg M` for a run (module and config are in `PROJECT.json`) and
`tlapm M.tla` for a proof module, both in this directory.
