# goplint in TLA+

goplint is a Go analyzer for value-type protocols ("a value converted to a
validated type is validated before it is used") together with the *soundness
gate*, the machinery that decides whether a change to the analyzer may be
trusted: it plans, schedules, distributes, records and audits the analyzer's
own checks.  This directory models both halves, checks the models with TLC and
proves the central results with TLAPS.

* [1. The system](#1-the-system)
* [2. Modules](#2-modules)
* [3. Runs, bounds and what they show](#3-runs-bounds-and-what-they-show)
* [4. Proofs](#4-proofs)
* [5. Disagreements between the code and its documents](#5-disagreements-between-the-code-and-its-documents)
* [6. What is not modelled](#6-what-is-not-modelled)
* [7. Plan](#7-plan)

To check a run, `tlc -config X.cfg MCX`; to check proofs, `tlapm M.tla`.
`PROJECT.json` lists the runs, the definitions with the source lines they
translate, a mutant of the code for every property, and the hazards the
properties are aimed at.

## 1. The system

### The soundness gate

| Component | State it keeps | Operations | What makes it correct |
|---|---|---|---|
| Plan generation (`internal/soundnessgate/model.go`, `manifest_resources.go`, `resources.go`, `plan.go`) | the reviewed manifest, the registry of required registrations, a discovered budget | validate the manifest, select a profile, discover the budget, generate | what it makes validates; the performance certification can run beside nothing; a semantic plan covers the registry |
| Scheduler (`internal/soundnessgate/scheduler.go`) | pending, active and completed work units, reserved CPU, memory and groups, a completion channel, a context | validate, admit, complete, fail fast, return | budgets and exclusivity hold in every interleaving; no stall; the unit blamed failed by itself; no goroutine is left |
| Local run (`runner.go`, `parallel_runner.go`, `cmd/soundness-gate`) | workspace digests sampled four times, sub-gate reports, the retained report, telemetry and binding files | plan, execute, collect, retain, bind, load for reuse | an admissible report is of the planned workspace and of one run, whatever crashes |
| Distributed gate (`distributed.go`) | plan file, output directory of a job, bundles, audit artifact | plan, work, publish, aggregate | one execution per unit, one attempt per bundle, one workspace, one audit |
| Clean-tree evidence (`internal/cleantreeevidence`) | base commit, index and worktree, the materialized tree, the census of the diff, the retained record, its temporary file, the gate report a capture may reuse | materialize, take the census, capture, reuse, rebind, verify, write | a verified record stands for a gate execution on this semantic tree, and accounts for every file of the worktree |
| Targeted mutation (`cmd/targeted-mutation`) | copied module, mutated file, guard traces, results | copy, control, mutate, run guard, restore, control, report | "killed" means the declared guard flips because of the mutation |
| Repository audit (`internal/repositoryaudit`, `cmd/repository-audit`, `goplint/repository_audit.go`) | three workspace digests, baseline entries and digest, findings stream and driver output of one traversal, the retained artifact | digest, load, traverse, build, retain, consume | what a consumer accepts without a new traversal is true of its workspace |
| Race repetition (`internal/racerepeat`, `cmd/race-repeat`) | timing manifest, two binaries, plan, work group, worker pool | build, census, plan, select, execute, accept | every test once per mode and iteration across groups; the pool ends; the first error is a cause |

The plan is what the scheduler runs.  The other parts meet through files.  The
gate runs the other commands as work units
and reads the sub-gate reports they write; a distributed aggregation reads the
bundles of jobs; the clean-tree record binds a gate report; the repository audit
reads the baseline the analyzer's own commands write; targeted mutation
and race repetition are sub-gates whose success is an observed population of
the gate's report.

### The analyzer

| Component | State it keeps | Operations | What makes it correct |
|---|---|---|---|
| Protocol domain (`goplint/protocol_domain.go`, `cfa_ide_edgefunc.go`, `protocol_relevance.go`) | the abstract state of one value on one path | join, transfer, compose, relevance | a monotone abstraction of what paths do |
| Tabulation (`cfa_ifds_tabulation.go`, `cfa_witness_contribution.go`) | worklist, path edges, summaries, dependencies, witness antichains, budget | pop, propagate, call, return, summarize | the result agrees with the paths of the supergraph; "safe" is never said of a feasible violation |
| Refinement (`cfa_refinement.go`) | discharged witnesses, iteration and query counts | solve, query, discharge, retry | only infeasible witnesses are discharged; it ends |
| Feasibility (`cfa_feasibility*.go`, `cfa_ssa_constraints.go`) | a formula in disjunctive normal form, evidence | extract, conjoin, refute, check evidence | UNSAT only of infeasible witnesses |
| Supergraph (`cfa_interproc_graph.go`, `cfa_interproc_cfg_graph.go`, `cfa_call_events.go`, `protocol_procedure_index.go`) | a graph per obligation, a cache of procedures under construction, indexes of call events and procedures | associate calls, decide what may return, resolve, append | every path of the program is a path of the graph, and no other |
| Aliases (`protocol_alias_analysis.go`, `protocol_identity.go`, `cfa_ssa_alias.go`) | per function: a queue of blocks and a snapshot of values and memory before every instruction | join, transfer, match, resolve closures | "must" holds on every execution; a call matched to the tracked value is a call on it |
| Recursive helpers (`protocol_recursive_validation.go`) | routes of the procedures that pass the value on, three sets that only shrink or grow | scan, discard, reach, grow, publish | the summary is the least solution, whatever order maps are walked in |
| Procedure summaries and facts (`cfa_summary.go`, `cfa_summary_targets.go`, `protocol_summary_fact.go`) | a cache all passes share, with entries in progress, a stack per pass, facts of imported packages | load, load or store, derive, import, publish | an answer covers every call of the procedure; nobody waits forever |
| Constructors (`cfa_ifds_constructor_path.go`, `constructor_ssa_identity.go`, `constructor_deferred.go`) | return targets, their error relations, planned deferred effects | prove locally, delegate, plan deferred calls | "safe" means that a value returned without an error is valid |
| Findings and baseline (`main.go`, `goplint/baseline*.go`, the findings stream) | findings streams of the package analyses, the baseline file, a per-process baseline cache | emit, collect, check coverage, write, load, audit globally stale exceptions | a baseline is written only from complete streams; one process judges by one baseline; only what no analysed package uses is stale |

### What is hard here

* **Concurrency.** Worker goroutines, channels and contexts in the scheduler
  and in race repetition; analysis passes that share caches; jobs on several machines; operators who run the same
  command twice; a workspace that is edited while it is being judged.
* **Failure.** Every command of the gate may fail between two files it writes;
  renames fail, processes are cut off, jobs are retried in a directory that
  holds the leftovers of earlier attempts.
* **Staleness.** Almost every step uses a digest that was taken earlier.
* **Order.** First error, worklist order, the order of refinement: none of
  them may change what is concluded.
* **Limits.** Work-unit budgets, 256 alternatives of a formula, witness
  limits, deadlines: giving up must never read as "safe".

## 2. Modules

Each module translates the code `PROJECT.json` maps it to.  Control is kept:
every state change, guard, early return and error path, in order.  Data is
reduced to what the properties tell apart: digests are the value they
identify, names are model values, messages and formatting are left out.

**`GateContract`** is the abstract promise of every execution mode: units pass
one after another, after what they require, and the gate accepts only when all
of them passed.

**`GateScheduler`** models `schedulePlan`.  The scheduler goroutine validates
the plan, makes an admission pass in priority order, blocks on the completion
channel, and settles.  Every admitted unit is a goroutine that checks the
context, runs and sends.  The channel is a set, because nothing orders two
workers between their last check and their send.  `ImplementsContract` maps it
to `GateContract`: a unit passes when its error-free completion is received.

**`GatePlan`** extends the scheduler with what makes its plans: the validation
of the manifest against the registry, the profiles, the budget from explicit
values, the environment and the host, and `generatePlan`, which refuses or
makes one plan.  The plans of the `execution` run include all it generates.

**`GateRun`** models `soundness-gate -action run` around the scheduler: four
samples of the workspace digest, the units' reads in between, and three files
created exclusively and filled afterwards, so that a crash leaves them torn.

**`DistributedGate`** models the actions `plan`, `work` and `aggregate`: jobs
that are retried in the same directory, bundles copied while an aggregation
reads them, the audit artifact one unit produces and others consume.

**`SyntheticTree`** is the tree a record is about: the base commit with the
reviewed paths staged from the worktree, its semantic and prose parts by the
ownership manifest in the tree itself, and the census of everything that
differs from the base, untracked files included.  **`CleanTreeRecord`** models
`Capture`, `Rebind`, `Verify` and `WriteRecord` over it, while files are
edited, committed and removed.

**`TargetedMutation`** models `run` and `executeMutationInWorkspace` for any
trace `go test` may produce, and a module that is edited meanwhile.  A trace is
the decoded stream of a guard: the tests it announces, what each ended with, and
the observations the guard emitted, which are compared with the census of cases
the profile declares.

**`RaceRepeat`** models the command from its first to its last workspace
digest: the timing manifest, the greedy allocation of shards and of groups,
and the pool of feeder, workers and collector joined by two unbuffered
channels.  A send and its receipt are one step; `select` picks either ready
case.  The order of the units is the lexical one of their identities, in which
`%02d` is numeric up to 99 only, so it is a constant (`LexicalPosition`) of which
nothing is used but that different identities stand in different places.

**`FindingsBaseline`** models `-update-baseline` and the global stale audit of
`main.go`, the findings streams that package analyses append to (an append may
be lost), the baseline file that is rewritten in place, so that a reader or a
crash can meet it half written, and the cache by which the analyses of one
process share one load of it.  That the driver's JSON lists only packages with
a diagnostic is external and modelled as the driver does it.

**`RepositoryAudit`** extends it with the repository audit, which traverses the
same source, reads the same baseline file and leaves an artifact.  Each of its
three digests, its two reads of the baseline, the traversal, the exclusive
creation of the artifact and its filling are steps of their own; a consumer
either loads a retained artifact or produces one.  A ghost field, `left`,
remembers that the workspace was another one between two digests.

**`ProtocolDomain`** holds the abstract state, transfers, effects and
relevance as operators.  **`Tabulation`** is the solver and the refinement loop
over them: one worklist item is one step, the deadline may pass between any
two.  **`PathSemantics`** is the reference: configurations that step along
the control flow of the program with a call stack and concrete values.

**`Supergraph`** builds the graph from control-flow graphs and calls: the order
of the calls of a statement from their SSA instructions (or "call-mapping" when
it is not exact), the fixpoint of functions that may return, entries and exits,
how each call is resolved, edges and terminals.  The code builds depth first
with a cache; since a procedure has its entry and exits before its calls are
looked at, the graph is the union over the procedures reached, and that is how
the module states it.  `ProgramFlow` and `ProgramEnds` are the control flow of
the program itself: the reference the built graph is solved against.

**`SsaConstraints`** holds atoms, formulas, contradiction and evidence;
**`Feasibility`** extracts the formula of a witness branch by branch, as the
code does.  The atoms in `Tabulation` are those of `SsaConstraints` restricted
to canonical integer constants.

**`Aliases`** is the analysis of one function as a queue of blocks: one step
takes a block, transfers one instruction or leaves the block.  Snapshots bind
identities (a value, or a path of fields from one) for values and for memory,
each certainly, possibly or ambiguously.  The function is then executed from
its entry with objects and a heap, so that what was claimed before an
instruction can be compared with what holds there; another goroutine may write
through pointers that were leaked.  The matcher (`ResolutionAt`,
`MentionResolution`, `ClosureResolution`) is what the solver asks.

**`Procedures`** holds procedures that are passed a value, as blocks of
instructions about it, and their execution with a stack and deferred calls.
**`RecursiveSummaries`** scans them and iterates its three fixed points one map
entry at a time, in any order.  **`Summaries`** adds passes with their stacks
and the shared cache: `Load`, the `LoadOrStore` of an entry in progress, the
callees asked first, and the two path evaluations each are steps.
**`Constructors`** adds the question about constructors.  When every pass has
its answers, any procedure or constructor answered about is executed.

`MC*` modules give the constants their values.  `MCExecution`, `MCGates`,
`MCAnalyzer` and `MCWorkers` put components that share no state side by side in
one run: a behaviour is one of one component, chosen at the start, and the
variables of the others rest.  `*Proofs` modules hold theorems.

## 3. Runs, bounds and what they show

| Run | Instance | Why it is enough |
|---|---|---|
| `execution`: `GatePlan` | 213 plans: 149 made by hand, of 3 or 4 units, with all dependency relations of a family with cycles and dangling names, 2 groups, tight budgets; 64 generated from manifests of four subgates, valid and not, under several budgets | every pair of a completion, a failure, a timeout and an interrupt meets; the safety properties are proved for every size |
| `gates`: `GateRun` | 2 runs at 1 report path, 1 unit, 2 edits (also reverted), 1 fault, 1 removal | two runs are what it takes to collide on an exclusive file; the second edit reverts the first |
| `gates`: `DistributedGate` | the audit producer and one consumer, 3 attempts, 1 edit | both units can be retried and copied while an aggregation reads |
| `clean_tree` | 3 concurrent commands, 5 paths, 2 events (an edit of a file, a commit, another toolchain, an edited record, a retained gate report, a fault), 1 gate report | capture, rebinding and verification can all overlap; an edit and its commit, or a new file and a fault, are two events |
| `execution`: `TargetedMutation` | 2 mutations, guard traces that differ from the expected one in one respect | every conjunct of the classification decides somewhere |
| `workers`: `RaceRepeat` | 3 tests, 2 shards, up to 2 iterations, 2 workers, 8 workspace histories | an outcome of every kind can race with every cancellation |
| `findings` | 3 packages and a test variant, 4 versions of the source (of which two have undecided findings, one of them in a suppressible category), 2 handwritten baselines, 3 scopes of a command, 1 lost append, 1 edit; consumers of the purposes baseline and exceptions | a loss in one package can be hidden by the counts of another; an update, a check and an audit can follow and overlap one another.  Four bounds keep the product small: checks and global audits, which write nothing, run when there is no repository audit to be seen, and not beside each other; an update that overlaps a repository audit has started before it; and while there is an audit of a workspace that was changed and put back, of which nothing is promised, the others wait until it is removed |
| `analyzer`: `Aliases` | four families of functions: diamonds, leaks, loops and closures; 1 foreign write; 22 instructions executed | a join with an unprocessed predecessor, a value carried around a loop and a captured variable assigned before or after the closure all occur; a loop is taken at least twice |
| `workers`: `Constructors` | 267 systems of two procedures or of a constructor with its delegate, its helper and two deferred calls; up to 3 passes; 3 frames, 20 instructions executed | direct and mutual recursion, forwarding, imports, passes that meet at one entry, and every pair of deferred literals of the families; 3 frames let a recursive call recur |
| `analyzer`: `PathSemantics` | six families of supergraphs with all labellings and five families of programs whose graphs are built, both worklist orders, two budgets, deadline anywhere | branches, switches, checked errors, loops, repeated calls and recursion are the shapes the transfer of witnesses and summaries depends on; the programs resolve a call in every way, nest calls, recurse, panic and have empty blocks |
| `analyzer`: `Feasibility` | witnesses of up to three branches over eighteen conditions, at most three alternatives | the limit is reached by two disjunctions |
| `branch_before_call`, `value_per_iteration`, `loop_first`, `consumed_later`, `inconclusive_audit`, `logged_validation` | one program, or the instance of `findings` | expected to be violated: see section 5 |

Properties, in the words of the code:

* `execution`: running units fit the budget and never share a group
  (`NothingOvercommitted`); when the scheduler blocks nothing admissible is
  pending, and the errors "cannot admit" and "completed n of m" are unreachable
  for a validated plan (`KeepsMoving`);
  a unit cancelled by fail-fast is never blamed (`BlameIsGenuine`); no
  goroutine outlives the call (`NoOrphanWorker`); nothing runs beside the
  performance certification of a generated plan (`CertificationRunsAlone`); an
  accepted semantic or complete run passed the producer of every required
  registration (`SuccessCoversRegistry`); it returns
  (`EventuallyReturns`) and implements the contract (`ImplementsContract`).
  Of mutants, `killed` is causal and `survived` is real (`VerdictsAreCausal`),
  and a report is complete evidence of one source (`EvidenceOfOneSource`).
* `gates`: a report that the loader admits was produced from the workspace
  its plan names (`AdmissibleIsPlanned`) and shows what its units read
  (`ReportsWhatWasRead`, for executions without a reverted edit, which two
  digests cannot see); a successful run leaves an admissible report
  (`SuccessIsAdmissible`).  An accepted aggregate has one execution per unit, each bundle
  of one attempt (`OneAttemptPerUnit`), all of the planned workspace
  (`BundlesReadThePlannedWorkspace`), with one audit artifact
  (`AuditIsCoherent`).
* `clean_tree`: a record verified without opting in to reuse stands for an
  execution of the gate (`VerifiedMeansExecuted`); a record that is accepted
  while nobody touches the repository accounts for every file of the worktree
  but the reviewed exclusions (`AcceptedIsTheWorktree`); a reused report matches
  exactly (`ReuseIsExact`).
* `findings`: a baseline that was written covers every finding of the packages
  it was collected from (`WrittenMeansCovered`); the analyses of one check
  filter by one content of the file, and after a completed update of unchanged
  sources the next check is quiet (`ChecksFollowTheBaseline`); the stale audit
  blames the patterns that no package of its census used, and only those
  (`GlobalAuditIsExact`); what a consumer accepts from a repository audit is
  true of the workspace whose digest it took: no new finding, no unused pattern,
  and no undecided finding unless somebody wrote its entry by hand
  (`AcceptedAuditIsTrue`).  `README.md:142` promises more, that no baseline makes
  an undecided finding a success (`InconclusiveBlocks`); `inconclusive_audit`
  shows that one made by hand does.
* `analyzer`: the unrefined result is the one of the paths of the program,
  construction included (`SolverMatchesPaths`); safe means no feasible violating
  path (`SafeIsFeasiblySafe`), for the families of this run: three runs of
  section 5 show programs for which it does not; a reported violation is
  feasible unless the query was inconclusive (`ViolationIsFeasible`); a witness
  replays on the graph (`WitnessesReplay`); the loop ends (`Terminates`).  UNSAT
  is said only of infeasible witnesses (`UnsatIsInfeasible`), SAT only when
  everything was understood, and evidence survives its own check
  (`VerdictsAreBacked`).  What the alias analysis calls certain, of a value or of
  what an operand points at, holds on every execution (`MustIsSound`); a call the
  matcher takes for one on the tracked value is one, also inside a closure
  (`MatchIsGenuine`); its fixpoint ends (`WorklistsRunDry`).
* `workers`: groups partition the plan for every group count, none is empty,
  and shards and groups are balanced up to their lightest element
  (`PlanIsExactAndBalanced`); success means every selected unit ran once and
  passed exactly, on one workspace, and the error returned is not a peer's
  cancellation (`OutcomeIsGenuine`); the pool ends (`EventuallyReturns`).  The
  recursive summary is the least solution in every order (`OrderIndependent`,
  for the systems of this run: `consumed_later` of section 5 shows one for
  which it is not); an answer announces every hazard of a call and claims no
  validity that an execution lacks (`AnswersAreSound`); a constructor found safe
  returns an invalid value only with an error (`ConstructorsAreSound`; but see
  `logged_validation`); every pass is answered (`EveryAskIsAnswered`).

**Fairness.** The scheduler goroutine and the pool of race repetition run while
they can, and a command ends: each has a positive timeout enforced by its
context and a `WaitDelay` after the kill.  The solver, the alias analysis and
the recursive summary are sequential loops, so whatever they can do next they
do; the passes over summaries in `workers` are goroutines without a lock between them, and
each is weakly fair by itself.  No other run assumes fairness.  External
cancellation and edits are never required to happen.

**Assumptions worth knowing.** Workspace versions do not recur except in
`GateRun`, which has reverted edits; the code compares digests at two instants
and cannot see an edit that is undone in between. The instances of `Feasibility`
spell a constant in one way: the code compares the source text of constants, so
`x == 1` and `x == 0x1`, or a literal and a named constant, contradict each
other. `AnalyzerProofs` says exactly how far that goes. The value of a spelling
is the one `big.Rat` parses where the code compares by order (an old octal such
as `010`, which Go reads as 8, excepted). The witnesses of `Feasibility` have no
switch over a boolean, and in the programs of `PathSemantics` a callee starts
with a statement and has no block that only an empty one follows. The families
of `Aliases` and `Constructors` leave out functions, callees and constructors
for which a property fails. Section 5 lists both, and the runs that show the
violations. In `Aliases` parameters do not alias each other and calls write no
tracked cell, as the code assumes. In `Constructors` the value is never nil. In
`RaceRepeat` the output directory is private, so that the binaries stay as they
were built.

## 4. Proofs

**`GatePlanProofs`** has two parts.  The first, about `GateScheduler`, proves for
every set of plans, every number of units and groups: `TypeCorrect`, `NoOvercommitment` (from `BudgetRespected` and
`GroupExclusion`), `Progress` (from `Conserving` and `StallFreedom`),
`GenuineBlame`, `NoOrphans` and `Refinement` (initial states
map to initial states and every step to a step of `GateContract` or a stutter).
The inductive invariant is

    IInv == TypeOK /\ Placement /\ Accounting /\ Holding /\ Outcome /\ PassResult

*Placement*: pending, active, in the channel and completed partition the units.
*Accounting*: the counters are the sums over active units: without it, a
release could not be shown to return what the admission took. *Holding*: the
held groups are exactly those of active units, pairwise disjoint, which is why
`release` may delete a group without looking for another holder.  *Outcome*:
what a result and a cancellation say of the completions received so far.
*PassResult*: after an admission pass, every pending unit was refused for a
reason that still stands.  Stall freedom uses the acyclicity of a
validated plan in the form that every non-empty set of units has a member that
requires none of the set; applied to the pending units of an idle scheduler it
yields one whose dependencies are completed and that fits the idle budget.

The second proves, for every manifest, registry and budget: what
`generatePlan` makes is well formed and passes `ExecutionPlan.Validate`
(`GeneratedPlansAreValid`), so its own last check and the scheduler's first
never fire for commands that are safe; it reserves the whole CPU budget for the
performance certification, and its semantic and complete plans select the
producer of every registration (`GeneratedPlansArrange`).  For any set of plans
with these two traits, no unit is active beside the certification in any
interleaving (`CertificationAlone`, from *Accounting*: a second active unit
would put the sum over the budget) and an accepted run covers the registry
(`RegistryCovered`, by the invariant that acceptance means all units completed).

**`AnalyzerProofs`** is about the two algebras the analyzer computes with.  It
proves for all operators, values, formulas and limits of `SsaConstraints`
that a negated comparison is the complement, which contradictions and which
evidence are real, whoever built it, and that conjunction and disjunction lose no model, not even when
alternatives are given up.  The code compares equalities by the text of their
constants, and a value has many texts: `1` and `0x1`, a literal and a named
constant.  The theorems assume of texts only that each has one value (`Spelled`)
and say where this errs: `ContradictionIsReal` that two atoms called
contradictory can hold together if and only if they are equalities with two texts
of one value (`TwoSpellings`), `UnsatIsSound` and `AcceptedEvidenceIsProof` that
a model of a refuted formula exists only where an alternative, or a pair the
evidence names, is of that kind.  Together: if the extracted formula
over-approximates the branches of a witness, UNSAT is sound for every witness
that spells no value of one subject in two ways.

Of `ProtocolDomain` it proves that join is the least upper bound (`JoinIsLeast`),
that transfers and the effects on path edges are monotone (`ApplyIsMonotone`,
`SummariesAreMonotone`), and that effects compose: `then` and `thenSummary`,
applied to an entry state, are the one part of the path after the other
(`ThenIsComposition`, `SummaryIsComposition`), so that along a path of any length
the effect the solver carries decides validation and hazards exactly as the
transfers do one by one (`EffectCoversPath`, by minimal counterexample on the
length).  The error result is only covered: an effect starts from "unknown" for
an entry that needs validation, so a failure known before a call is not known
after it, and from "nil" for a proven one, which is the premise of that part.

**`GateRunProofs`** proves the three properties of `GateRun` and its types for
any number of runs, units, paths, edits, faults and removals.  Files outlive the
runs that made them, so the invariant has to say of a file what the run that
created it had established:

    IInv == TypeOK /\ Staged /\ Reading /\ Filed /\ Kept

*Staged*: what the stage of a run says of its plan and its units.  *Reading*:
while no edit is reverted, versions only grow, so that two equal digests enclose
nothing but that version.  *Filed*: the run named by a file is past the stage
that created it and changes nothing the file is about.  *Kept*: what a run has
written at its path is still there, because files are created exclusively, as
long as no operator removes them.  Premise: a plan has a unit (`Units # {}`,
which `ExecutionPlan.Validate` demands).

**`DistributedGateProofs`** follows a bundle for any plan, any number of attempts
and edits: `IInv == DistributedTypeOK /\ Working /\ Travelling /\ Loading /\ Reporting`.
*Working* says what a command in progress may have read and that a run ID is
handed out once; it makes the bundle the job collects *Sound*, and *Travelling*
and *Loading* keep it so in the directory, in the second place it is downloaded
to and in the set an aggregation loads, whose bundles are of different units.

**`TargetedMutationProofs`** covers all profiles, guards and traces.  A verdict
takes three steps.  What a classification means is arithmetic of finite sets: as
many different declared mismatches as are declared are all of them
(`AttributedExactly`).  *Executing* says what each stage of a mutation knows of
the guard runs so far, and becomes the verdict when the mutation ends.
*Versions* orders digests, copies and the source in time, which is why the
comparison of digests at the end speaks of every copy made since the start; it
rests on versions that do not recur, as the model has them.  Premises: profiles
and traces are lists and sets of the shape the decoders produce
(`ProfilesAssumption`, `TracesAssumption`).

**`CleanTreeRecordProofs`** covers any number of concurrent invocations, any
repository and any number of disturbances.  *SoundRecord* is the centre: wherever
a record is, in a file, in a capture or in the hands of `Rebind` and `Verify`,
its log tells where its verdict comes from.  A hand edit of the kind does not
touch the log, executions and gate reports are never forgotten, and a torn file
is not a record; so `VerifiedMeansExecuted` needs no history of the file.
*Undisturbed* says what a verification in progress knows of the worktree while
nobody has touched it.  Premise: a digest of prose is not empty
(`Prose(tree) # None`).

**`RepositoryAuditProofs`** proves the properties of `FindingsBaseline` and
`RepositoryAudit` for all registries, packages, sources and scopes, any number
of edits and any number of lost records.  The commands compare the stream, which
has IDs and metadata, with what the driver printed, which has neither, by
counting the records under one key (category, message, position).  `Finds` says
why this is enough: a stream in which no ID occurs twice, with as many records of
a key as the driver printed, holds every finding printed under it.

    IInv == Commands /\ Auditing /\ AcceptedAuditIsTrue
    Commands == Disk /\ Generating /\ Checking /\ WrittenMeansCovered /\ GlobalAuditIsExact

*Disk* and *Checking* carry what an update promised through the file, where it
may be cut between two tables, into the cache and the passes; *Auditing* says
that an audit whose workspace was not another one since its digest reads what it
has digested, and that a result is true of the inputs it names.  Whatever
`update-baseline` writes, whole or cut off, lists definite findings only
(`UpdateIsDefinite`, `PartIsDefinite`), which is why an undecided finding can be
accepted by a handwritten file only.  The premises
(`FindingsAssumption`): the registry suppresses no inconclusive category and a
baseline has tables for the suppressible ones only (`categories.go`,
`BaselineConfig`); only protocol findings are undecided; an undecided finding has
an ID of its own, since IDs are made of the message too; and a test variant
analyses the files of its package, so that two passes that report at one position
report the same there and a pattern used in a package is used in its variant.
Without the last one the counts prove nothing: a record of one pass could stand
in for the lost record of another.

**`RaceRepeatProofs`** proves, for every manifest, census, number of shards,
repetitions, groups, workers and edits, that the plan is exact and evenly
partitioned (`ExactAndBalanced`) and that a run's result is true
(`GenuineOutcome`).  Both follow from

    IInv == TypeOK /\ Reading /\ Planned /\ Fresh /\ Executing /\ Executed /\ Blame

*Reading*: each read of the workspace saw a version no older than the read
before it, so that equal first and last digests pin all of them.  *Planned*: the
plan at hand is the one built from the manifest and the census.  *Fresh*: no
unit ran before the pool starts.  *Executing*: while the pool runs, the feeder
stops early and a worker ends only for a reason, and as long as no error was
received, a unit that was handed out is in a worker's hands or its pass is among
the results; so an empty-handed pool without an error has all of them.
*Executed* carries that to the final digest.  *Blame*: the first error is no
cancellation, because a context is cancelled after the error that causes it was
received.

The plan needs what the allocator computes.  Its loop invariant `Fair` says that
the first `k` elements are distributed, that no bin has two while another has
none, and that a bin without its lightest element is no heavier than any other
bin; `FairPut` shows one turn to keep it, because the elements come heaviest
first.  That it holds at the end (`GreedyIsFair`), and that sorting by counting
smaller elements is a bijection (`Enumeration`), is shown by minimal
counterexample on the number of turns, which `NatMin` provides.  The rest counts: the sum of
weights is a number of tokens; with no more shards than tests (`AllocateLPT`
refuses the rest) no shard is empty; groups are bins of the same allocator over units.
The premises
(`InputsAssumption`) are what the command checks before it plans:
positive counts (`NewPlan`, `resolveWorkerResources`), a group selector in range
(`ParseWorkGroup`), a manifest with a sample and a test, and a pass of every test
in every sample (`BuildTimingManifest`, `Validate`); and that the identities of
different units are different strings.  Sums are natural numbers: an `int64` of
nanoseconds holds centuries.

Only model-checked: the liveness properties; everything about
`Aliases`, `RecursiveSummaries`, `Summaries` and `Constructors`; the agreement of
`Supergraph` and `Tabulation` with `PathSemantics`; the extraction in
`Feasibility`.  `PathSemantics` and `Feasibility` use recursive operators, which
the prover cannot reason about; the others iterate to a fixed point over a
program or a witness, and what they compute needs an induction over the data.

## 5. Disagreements between the code and its documents

Six runs are expected to be violated; `PROJECT.json` lists each as a finding
with the lines it contradicts.

* `branch_before_call` (`SafeIsFeasiblySafe`).  A call dependency keeps only the
  first of several incomparable witnesses (`cfa_ifds_tabulation.go:353`).  In
  `if x == 0 { a } else { b }; g(); if x != 0 { } else { validate }` the path
  through `b` is lost when the one through `a` is discharged, and the obligation
  ends safe.
* `value_per_iteration` (the same property).  The value an instruction computes
  in different iterations is one subject of constraints
  (`cfa_ssa_constraints.go:664`); a path that leaves a loop in a later turn is
  called contradictory and discharged.
* `loop_first` (the same property).  A procedure whose first block is empty is
  entered at the first block of the list that is not
  (`cfa_interproc_graph.go:321`); a closure that starts with `for cond { ... }`
  is entered at the body, and the path without an iteration is lost.  That the
  list has the body before the condition is how the control-flow graph library
  builds it.  For these three, `spec/protocol-domain.md:19` says that any
  supported feasible hazardous path yields a violation.
* `consumed_later` (`OrderIndependent`).  The transfers of mutually recursive
  helpers are not monotone: a consumption that follows a call counts as one after
  validation until the callee turns out to invalidate the value, and as one
  before it from then on.  Results are joined, so that the published effects keep
  the first reading if the walk over the map came by in time
  (`protocol_recursive_validation.go:123`, whose comment says dependency routes
  are added monotonically; `docs/goplint/evidence-index.md:29` lists
  deterministic output).  The list then has a consumption more, after
  invalidations that a valid value does not survive.
* `inconclusive_audit` (`InconclusiveBlocks`).  The repository audit matches
  findings with the baseline by category and ID only
  (`internal/repositoryaudit/model.go:151`).  A category may hold decided and
  inconclusive findings, told apart by metadata; a handwritten entry for an
  inconclusive one makes it a match, and the full scan is accepted, while
  `README.md:142` says no baseline policy turns an inconclusive outcome into
  success.
* `logged_validation` (`ConstructorsAreSound`).  At a return, the constructor
  analysis asks first whether the last validation failed, and does not blame the
  return if it did, whatever error the return itself returns
  (`cfa_ifds_constructor_path.go:175`).  So

      if e := v.Validate(); e != nil { log(e) }
      return v, nil

  is found safe, and returns an invalid value without an error.
  `docs/goplint/current-techniques-and-semantics.md:63` says that logging or
  otherwise discarding a validation error does not validate continued execution.

A passing run checks `SafeIsFeasiblySafe`, `OrderIndependent` and
`ConstructorsAreSound` over the inputs for which they hold; `InconclusiveBlocks`
is refuted as it stands.
The other observations have no run of their own.  Where a set of an MC module is
named, TLC shows the violation when the set is taken for the constant; the rest
are about what the models reduce to an input, or were read off the code.

In the solver:

* `interprocFunctionCFGExits` looks at the direct successors of a block, while
  edges and terminals skip empty blocks: in
  `if a { if b { log() } }; validate(v)` the block of `log()` gets a return
  edge, and the solver follows no other edge of a node that has one.  TLC
  refutes `ViolationIsFeasible` for the graph `NestedIf` of `MCTabulation`.
* The label `true` or `false` of a switch case is read as a condition by itself
  (`cfa_ssa_constraints.go:416`): for `switch ok { case false: }` the branch of
  the case becomes the constant false, and a feasible witness is discharged.

In the alias analysis:

* A value loaded from a cell is resolved by what the cell holds where the value
  is used, not where it was loaded (`resolutionAt`, `cfa_ssa_alias.go`):
  `old := x.f; x.f = cast; old.Validate()` counts as a validation of the cast
  (`StaleLoad` of `MCAliases`, refutes `MatchIsGenuine`; `README.md:112`).
* A pointer stored on one branch only is what a store through it is taken to
  write after the join (`PartialPointee`, refutes `MustIsSound`;
  `spec/protocol-domain.md:15`).
* Field cells of a struct keep their certain contents when the address of the
  field was taken before the struct escaped; what a closure itself stores to a
  captured variable is not looked at; a store through an unknown address
  forgets what cells held but does not add what was stored.

In summaries and constructors:

* A pass that meets an entry another pass is still computing treats it as a
  recursion (`cfa_summary.go:331`), and for an imported procedure has no answer.
  The cache is shared by all passes (`analyzer_run.go`), so that which findings
  are inconclusive depends on the schedule, while
  `docs/goplint/evidence-index.md:29` lists deterministic output.
* In the effects of a helper: one that has no answer is the identity when the
  value was validated before; one that validates and then consumes is no hazard
  to a caller that checks its error; an imported helper that validates is
  published by a forwarding wrapper as ensuring validity.
* In facts: what happens before a panic, an escape that a consumption follows,
  all writes but the last, and a mutation by a forwarded call are lost.  A
  recursive list for a value that is valid on entry puts observations before
  invalidations.  A write of a field after Validate in the function itself does
  not invalidate the value in the solver.
* A deferred `err = nil` after `return v, v.Validate()` is found safe
  (`constructor_deferred.go:165`;
  `docs/goplint/current-techniques-and-semantics.md:84` says otherwise).
* A constructor that obtains its value from another one and ignores the error
  takes the other's verdict; mutations after the value was obtained or validated
  are not seen; in a loop, a literal that only mentions the value is not
  relevant; without a named error result deferred calls have no effect.

In the gate and around the baseline:

* A subgate that only the harness profile selects is refused as "absent from
  all profiles".
* `check-clean-tree-evidence` loads the record a second time after it was
  verified, to name the verified tree; a capture in between names another.
* `WriteRecord` removes the retained record when its rename fails, so
  overlapping re-bindings, which share one temporary file, can leave none.
* `Rebind` does not compare the log with the provenance, so that a reused record
  edited to say it was generated can be re-bound; `Verify` refuses it.
* A consumer compares the census of the audit with itself.
* A workspace that is changed and put back between two digests of an audit is
  invisible.
* The census of the global stale audit, and of the repository audit (whose
  comment says otherwise), is the driver's JSON, which lists only
  packages with a diagnostic, so a pattern used only in a package that prints
  nothing is blamed as unreachable.
* Test variants share the import path of their package, so with them an update
  and an audit refuse to conclude; the Makefile passes `-test=false`.

## 6. What is not modelled

The reasons are in `PROJECT.json` under `components`.  In short: analyzers that
match patterns on the syntax of one file have no state; catalogs, censuses and
documentation guards compare one document with another; decoding, canonical
JSON and digests are represented by the values they identify; process and file
primitives are external and may fail wherever the code handles it.  Telemetry
figures are left out because no decision depends on them; how the host reports
its memory is external, the budget made of it is modelled.  Of the baseline, two concurrent updates of one file, an
update that also filters by a baseline, and review dates are left out.  Of the
alias analysis and of the summaries, the way from a position in the source to an
SSA value, which method is a Validate, and the encoding of facts are inputs.
The syntactic analyzers, the protocol oracle and the sub-gate census remain
without a model: the first two have no state to speak of, the oracle being a
second implementation that `PathSemantics` takes the place of, and the census
compares counts of one document with another.

## 7. Plan

Modelled first were the gate (plan, scheduler, local and distributed runs,
records), then the solver over its supergraph, then what feeds it: aliases,
recursive helpers, summaries, constructors.  What would come next, in order:

1. The capture and unsafe labels of `cfa_ifds_ubv.go`, as labels that a program
   of `Supergraph` gets from `Aliases` instead of inputs of `Tabulation`.
2. Theorems: for `RecursiveSummaries`, that the transfers at the end are closed
   under the routes whatever the order, which is what soundness needs of them;
   that the supergraph of a program has the paths of the program.
3. Updates of the baseline by two commands at once.
