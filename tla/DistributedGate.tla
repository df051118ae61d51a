-------------------------- MODULE DistributedGate ---------------------------
(***************************************************************************)
(* The distributed soundness gate: the actions plan, work and aggregate of *)
(* cmd/soundness-gate/main.go over internal/soundnessgate/distributed.go.  *)
(*                                                                         *)
(* Jobs on separate machines each execute one work unit of a published     *)
(* plan and publish a bundle; one unit produces the repository audit that  *)
(* others consume.  Jobs fail, are cut off and are retried in the same     *)
(* output directory, where the leftovers of earlier attempts remain;       *)
(* bundles are re-published and copied while an aggregation reads them;    *)
(* and the workspace is edited.  A plan is a function of the workspace it  *)
(* was generated for, so a plan ID is represented by that workspace.       *)
(***************************************************************************)
EXTENDS Naturals

CONSTANTS WorkUnits,         \* work units of the plan
          Audit,             \* the unit "repository-audit"
          Consumers,         \* units whose dependency requires "repository-audit"
          Nothing,           \* no file at a path, no artifact in a bundle
          MaxAttempts,       \* bound on executions of work units
          MaxWorkspaceEdits  \* bound on workspace edits

ASSUME DistributedAssumption ==
    /\ Audit \in WorkUnits
    /\ Consumers \subseteq WorkUnits \ {Audit}
    /\ MaxAttempts \in Nat /\ MaxWorkspaceEdits \in Nat

VARIABLES
    workspace,  \* content of the workspace
    planFile,   \* the published plan
    attempts,   \* executions so far; the last one's number is its run ID
    job,        \* the execution of each unit that is under way
    dir,        \* the output directory of each unit
    shared,     \* the repository audit handed to consumers and aggregation
    bundles,    \* <<unit>>.bundle.json as published
    copies,     \* bundles that were also copied elsewhere in the bundle tree
    agg,        \* the aggregation under way
    reports     \* aggregate reports retained so far

gateVars == <<workspace, planFile, attempts, job, dir, shared, bundles, copies, agg, reports>>

RunIDs == 1 .. MaxAttempts
Workspaces == 0 .. MaxWorkspaceEdits

\* A repository audit: its identity and the workspace it was computed from.
AuditArtifact == [run : RunIDs, workspace : Workspaces]

\* WorkBundle: embedded report and observations name the attempt that emitted
\* them.  saw is not part of the file: the contents the command has read.
WorkBundle ==
    [unit : WorkUnits, plan : Workspaces, run : RunIDs,
     report : RunIDs, observations : SUBSET RunIDs,
     input : AuditArtifact \cup {Nothing}, output : AuditArtifact \cup {Nothing},
     saw : SUBSET Workspaces]

Idle == [stage |-> "idle"]

EmptyDir == [report |-> Nothing, observations |-> {}, audit |-> Nothing]

Directory == [report : RunIDs \cup {Nothing}, observations : SUBSET RunIDs,
              audit : AuditArtifact \cup {Nothing}]

Job == {Idle}
  \cup [stage : {"running"}, plan : Workspaces, run : RunIDs,
        input : AuditArtifact \cup {Nothing}, saw : SUBSET Workspaces]
  \cup [stage : {"exited"}, plan : Workspaces, run : RunIDs,
        input : AuditArtifact \cup {Nothing}, saw : SUBSET Workspaces]
  \cup [stage : {"publish"}, bundle : WorkBundle]

BundlePaths == WorkUnits \X {"published", "copied"}

\* The aggregation: bundle files found and not loaded, bundles loaded.
Aggregation == {Idle}
  \cup [stage : {"load"}, plan : Workspaces, found : SUBSET BundlePaths,
        loaded : SUBSET WorkBundle]

\* Type invariant; concurrent executions have distinct run IDs, and the audit
\* artifact a consumer job works on is its input.
DistributedTypeOK ==
    /\ workspace \in Workspaces
    /\ planFile \in Workspaces \cup {Nothing}
    /\ attempts \in 0 .. MaxAttempts
    /\ job \in [WorkUnits -> Job]
    /\ dir \in [WorkUnits -> Directory]
    /\ \A u \in WorkUnits :
         (u \in Consumers /\ job[u].stage \in {"running", "exited"})
            => job[u].input = dir[u].audit
    /\ \A u, v \in WorkUnits :
         (u # v /\ job[u].stage = "running" /\ job[v].stage = "running")
            => job[u].run # job[v].run
    /\ shared \in AuditArtifact \cup {Nothing}
    /\ bundles \in [WorkUnits -> WorkBundle \cup {Nothing}]
    /\ copies \in [WorkUnits -> WorkBundle \cup {Nothing}]
    /\ agg \in Aggregation

DistributedInit ==
    /\ workspace = 0
    /\ planFile = Nothing
    /\ attempts = 0
    /\ job = [u \in WorkUnits |-> Idle]
    /\ dir = [u \in WorkUnits |-> EmptyDir]
    /\ shared = Nothing
    /\ bundles = [u \in WorkUnits |-> Nothing]
    /\ copies = [u \in WorkUnits |-> Nothing]
    /\ agg = Idle
    /\ reports = {}

------------------------------------------------------------------------------
(***************************************************************************)
(* Action "plan".                                                          *)
(***************************************************************************)

\* GeneratePlan and publishFile: the file is replaced by an atomic rename.
PublishPlan ==
    /\ planFile # workspace
    /\ planFile' = workspace
    /\ UNCHANGED <<workspace, attempts, job, dir, shared, bundles, copies, agg, reports>>

(***************************************************************************)
(* Action "work": executePlanWorkUnit.                                     *)
(***************************************************************************)

validateCurrentWorkPlan(p) == p # Nothing /\ p = workspace

\* The audit copied (atomically, over any earlier copy) into the directory.
AuditInput(u) == IF u \in Consumers THEN shared ELSE dir[u].audit

\* Up to the start of the command, under a fresh run ID.
StartWork(u) ==
    /\ job[u] = Idle
    /\ attempts < MaxAttempts
    /\ validateCurrentWorkPlan(planFile)
    /\ u \in Consumers => shared # Nothing
    /\ attempts' = attempts + 1
    /\ dir' = [dir EXCEPT ![u].audit = AuditInput(u)]
    /\ job' = [job EXCEPT ![u] =
                 [stage |-> "running", plan |-> planFile, run |-> attempts + 1,
                  input |-> IF u \in Consumers THEN shared ELSE Nothing, saw |-> {}]]
    /\ UNCHANGED <<workspace, planFile, shared, bundles, copies, agg, reports>>

\* A command's exclusive creation of its report, or its omission.
CreateExclusively(file, content) == IF file = Nothing THEN {Nothing, content} ELSE {file}

\* The command reads the workspace and leaves whatever it got to emit:
\* observations under random names, the report and the audit exclusively.
\* (A subgate command is external to the gate, which only relies on the
\* exclusive creations and on the exit status.)
Emit(u) ==
    /\ job[u].stage = "running"
    /\ \E report \in CreateExclusively(dir[u].report, job[u].run),
          audit \in IF u = Audit
                    THEN CreateExclusively(dir[u].audit, [run |-> job[u].run, workspace |-> workspace])
                    ELSE {dir[u].audit},
          observations \in {dir[u].observations, dir[u].observations \cup {job[u].run}} :
         dir' = [dir EXCEPT ![u] = [report |-> report, audit |-> audit,
                                    observations |-> observations]]
    /\ job' = [job EXCEPT ![u].saw = @ \cup {workspace}]
    /\ UNCHANGED <<workspace, planFile, attempts, shared, bundles, copies, agg, reports>>

\* The command exits with status 0.  The producer does so only when it wrote
\* the audit itself (repositoryaudit.WriteExclusive), a consumer only when the
\* audit was computed from the workspace it found (ValidateConsumer).
ExitZero(u) ==
    /\ job[u].stage = "running"
    /\ u = Audit => dir[u].audit # Nothing /\ dir[u].audit.run = job[u].run
    /\ u \in Consumers => dir[u].audit.workspace \in job[u].saw \cup {workspace}
    /\ job' = [job EXCEPT ![u].stage = "exited", ![u].saw = @ \cup {workspace}]
    /\ UNCHANGED <<workspace, planFile, attempts, dir, shared, bundles, copies, agg, reports>>

\* The command fails or times out, validation rejects, or the job is cut off:
\* the directory keeps what it has.
AbandonWork(u) ==
    /\ job[u] # Idle
    /\ job' = [job EXCEPT ![u] = Idle]
    /\ UNCHANGED <<workspace, planFile, attempts, dir, shared, bundles, copies, agg, reports>>

\* subgate.ValidateReport: the report carries the binding of this attempt.
ValidateReport(u) == dir[u].report = job[u].run

\* Mutant of FinalWorkDigest: the workspace is not read after the command.
NoFinalWorkDigest(u) == TRUE

FinalWorkDigest(u) == workspace = job[u].plan

\* From the exit of the command to the bundle in memory.
CollectWork(u) ==
    /\ job[u].stage = "exited"
    /\ ValidateReport(u)
    /\ FinalWorkDigest(u)
    /\ job' = [job EXCEPT ![u] =
                 [stage |-> "publish",
                  bundle |-> [unit |-> u, plan |-> job[u].plan, run |-> job[u].run,
                              report |-> dir[u].report,
                              observations |-> dir[u].observations,
                              input |-> job[u].input,
                              output |-> IF u = Audit THEN dir[u].audit ELSE Nothing,
                              saw |-> job[u].saw]]]
    /\ UNCHANGED <<workspace, planFile, attempts, dir, shared, bundles, copies, agg, reports>>

\* Mutant of Validate: observations are not compared with the bundle's binding.
ValidateLoosely(b, plan) ==
    /\ b.plan = plan
    /\ b.report = b.run
    /\ (b.unit \in Consumers) = (b.input # Nothing)
    /\ (b.unit = Audit) = (b.output # Nothing)

\* WorkBundle.Validate: plan identities, report and observation bindings,
\* complete observations, audit digests exactly where they belong.
Validate(b, plan) ==
    /\ b.plan = plan
    /\ b.report = b.run
    /\ b.observations = {b.run}
    /\ (b.unit \in Consumers) = (b.input # Nothing)
    /\ (b.unit = Audit) = (b.output # Nothing)

\* CanonicalWorkBundleJSON and publishFile (atomic rename over the old file).
PublishBundle(u) ==
    /\ job[u].stage = "publish"
    /\ Validate(job[u].bundle, job[u].bundle.plan)
    /\ bundles' = [bundles EXCEPT ![u] = job[u].bundle]
    /\ job' = [job EXCEPT ![u] = Idle]
    /\ UNCHANGED <<workspace, planFile, attempts, dir, shared, copies, agg, reports>>

------------------------------------------------------------------------------
(***************************************************************************)
(* The environment of the jobs.                                            *)
(***************************************************************************)

\* A clean machine, or an output directory that was cleared.
ClearDirectory(u) ==
    /\ job[u] = Idle
    /\ dir[u] # EmptyDir
    /\ dir' = [dir EXCEPT ![u] = EmptyDir]
    /\ UNCHANGED <<workspace, planFile, attempts, job, shared, bundles, copies, agg, reports>>

\* The audit artifact is handed on, whether or not its producer succeeded.
ShareAudit ==
    /\ dir[Audit].audit \notin {Nothing, shared}
    /\ shared' = dir[Audit].audit
    /\ UNCHANGED <<workspace, planFile, attempts, job, dir, bundles, copies, agg, reports>>

\* A bundle is downloaded to a second place below the bundle directory, or
\* the copy there is deleted.
CopyBundle(u) ==
    /\ copies[u] # bundles[u]
    /\ copies' = [copies EXCEPT ![u] = IF @ = Nothing THEN bundles[u] ELSE Nothing]
    /\ UNCHANGED <<workspace, planFile, attempts, job, dir, shared, bundles, agg, reports>>

EditWorkspace ==
    /\ workspace < MaxWorkspaceEdits
    /\ workspace' = workspace + 1
    /\ UNCHANGED <<planFile, attempts, job, dir, shared, bundles, copies, agg, reports>>

------------------------------------------------------------------------------
(***************************************************************************)
(* Action "aggregate": AggregateWorkBundles.                               *)
(***************************************************************************)

BundleAt(path) == IF path[2] = "published" THEN bundles[path[1]] ELSE copies[path[1]]

\* discoverBundles, then the plan must be current.
StartAggregate ==
    /\ agg = Idle
    /\ validateCurrentWorkPlan(planFile)
    /\ agg' = [stage |-> "load", plan |-> planFile, loaded |-> {},
               found |-> {path \in BundlePaths : BundleAt(path) # Nothing}]
    /\ UNCHANGED <<workspace, planFile, attempts, job, dir, shared, bundles, copies, reports>>

\* LoadWorkBundle validates, the loop rejects a second bundle of a unit.
Accepts(b) ==
    /\ b # Nothing
    /\ Validate(b, agg.plan)
    /\ \A other \in agg.loaded : other.unit # b.unit

\* The files are read one after the other, as they are at that moment.
LoadWorkBundle(path) ==
    /\ agg # Idle
    /\ path \in agg.found
    /\ agg' = IF Accepts(BundleAt(path))
              THEN [agg EXCEPT !.found = @ \ {path},
                               !.loaded = @ \cup {BundleAt(path)}]
              ELSE Idle
    /\ UNCHANGED <<workspace, planFile, attempts, job, dir, shared, bundles, copies, reports>>

\* Mutant of validateCompleteBundleSet: what the consumers used is ignored.
IgnoreConsumedAudits(loaded, audit) ==
    /\ \A u \in WorkUnits : \E b \in loaded : b.unit = u
    /\ \A b \in loaded : b.unit = Audit => b.output = audit

\* One bundle of every unit, and the audit is what its producer wrote and the
\* consumers used.
validateCompleteBundleSet(loaded, audit) ==
    /\ \A u \in WorkUnits : \E b \in loaded : b.unit = u
    /\ \A b \in loaded : b.unit = Audit => b.output = audit
    /\ \A b \in loaded : b.unit \in Consumers => b.input = audit

\* The audit artifact is read now; the plan has a producer of it, so it must be there.
distributedAuditDigest == IF shared = Nothing THEN {} ELSE {shared}

\* The report carries the results and the observations of every unit, under
\* the identities of the plan.
aggregateBundleSet(plan, audit, loaded) ==
    [plan |-> plan, audit |-> audit, bundles |-> loaded]

\* All files are loaded: the report is built and retained, or the set is
\* rejected.  From here on the files are written as in GateRun (report,
\* telemetry, binding).
Aggregate ==
    /\ agg # Idle
    /\ agg.found = {}
    /\ reports' = reports \cup
                    {aggregateBundleSet(agg.plan, audit, agg.loaded) :
                       audit \in {a \in distributedAuditDigest :
                                    validateCompleteBundleSet(agg.loaded, a)}}
    /\ agg' = Idle
    /\ UNCHANGED <<workspace, planFile, attempts, job, dir, shared, bundles, copies>>

------------------------------------------------------------------------------

DistributedNext ==
    \/ PublishPlan
    \/ \E u \in WorkUnits : StartWork(u)
    \/ \E u \in WorkUnits : Emit(u)
    \/ \E u \in WorkUnits : ExitZero(u)
    \/ \E u \in WorkUnits : AbandonWork(u)
    \/ \E u \in WorkUnits : CollectWork(u)
    \/ \E u \in WorkUnits : PublishBundle(u)
    \/ \E u \in WorkUnits : ClearDirectory(u)
    \/ \E u \in WorkUnits : CopyBundle(u)
    \/ ShareAudit
    \/ EditWorkspace
    \/ StartAggregate
    \/ \E path \in BundlePaths : LoadWorkBundle(path)
    \/ Aggregate

DistributedSpec == DistributedInit /\ [][DistributedNext]_gateVars

------------------------------------------------------------------------------
(***************************************************************************)
(* Properties.                                                             *)
(***************************************************************************)

\* Retries never mix: what a published bundle presents as the evidence of one
\* execution was emitted by that execution, though every attempt of the unit
\* writes into the same directory and nothing clears it.
EvidenceOfOneAttempt ==
    \A u \in WorkUnits : bundles[u] # Nothing =>
       /\ bundles[u].report = bundles[u].run
       /\ bundles[u].observations = {bundles[u].run}

\* Every command behind a published bundle read the planned workspace and no
\* other, wherever edits and new plans fall.
BundlesReadThePlannedWorkspace ==
    \A u \in WorkUnits : bundles[u] # Nothing => bundles[u].saw = {bundles[u].plan}

\* An aggregate report rests on exactly one execution of every unit, though
\* the directory it is read from changes meanwhile and holds copies.
OneExecutionPerUnit ==
    \A r \in reports : \A u \in WorkUnits :
       \E b \in r.bundles : /\ b.unit = u
                            /\ \A c \in r.bundles : c.unit = u => c = b

\* An aggregate rests on one attempt of every unit, and a bundle on one attempt.
OneAttemptPerUnit == EvidenceOfOneAttempt /\ OneExecutionPerUnit

\* All units of an aggregate report were executed under its plan, and those
\* that consume the repository audit consumed the artifact its producer wrote
\* in the execution that is reported, computed from the planned workspace;
\* re-running the producer after a consumer cannot slip in another one.
AuditIsCoherent ==
    \A r \in reports :
       /\ r.audit.workspace = r.plan
       /\ \A b \in r.bundles :
            /\ b.plan = r.plan
            /\ b.unit \in Consumers => b.input = r.audit
            /\ b.unit = Audit => r.audit = b.output /\ b.output.run = b.run

==============================================================================
