----------------------- MODULE DistributedGateProofs ------------------------
(***************************************************************************)
(* Proofs about DistributedGate, for every plan (units, audit producer and *)
(* consumers) and any number of attempts and edits.                        *)
(*                                                                         *)
(* The argument follows a bundle: what a job in progress may have read and *)
(* written (Working) makes the bundle it collects sound (Sound), and the   *)
(* bundle stays so wherever it is copied: into the directory, into the     *)
(* second place it is downloaded to, into the set an aggregation loads,    *)
(* and into the report.  The workspace only moves forward, so that a       *)
(* command that began and ended on one version has read only that one.     *)
(***************************************************************************)
EXTENDS DistributedGate, TLAPS

\* A job whose command was started.
Active(u) == job[u].stage \in {"running", "exited"}

\* What the command of a job has read lies between its plan and now; an audit
\* under the run ID of the producer's job was computed from what that job read,
\* because a run ID is handed out once.
Working ==
    /\ dir[Audit].audit # Nothing => dir[Audit].audit.run <= attempts
    /\ \A u \in WorkUnits :
         /\ Active(u) =>
              /\ job[u].run <= attempts
              /\ job[u].plan <= workspace
              /\ \A s \in job[u].saw : job[u].plan <= s /\ s <= workspace
         /\ job[u].stage = "exited" => job[u].saw # {}
    /\ Active(Audit) /\ dir[Audit].audit # Nothing /\ dir[Audit].audit.run = job[Audit].run =>
          dir[Audit].audit.workspace \in job[Audit].saw
    /\ job[Audit].stage = "exited" =>
          dir[Audit].audit # Nothing /\ dir[Audit].audit.run = job[Audit].run

\* A bundle of a command that read the planned workspace only, with the audit of the
\* same execution if it is the producer's.
Sound(b) ==
    /\ b.saw = {b.plan}
    /\ b.unit = Audit => b.output.run = b.run /\ b.output.workspace = b.plan

\* Wherever a bundle is, it is sound.
Travelling ==
    /\ \A u \in WorkUnits :
         /\ job[u].stage = "publish" => Sound(job[u].bundle)
         /\ bundles[u] # Nothing => Sound(bundles[u])
         /\ copies[u] # Nothing => Sound(copies[u])
    /\ EvidenceOfOneAttempt

\* The loaded bundles are sound, valid under the plan, and of different units.
Loading ==
    agg # Idle =>
       /\ \A b \in agg.loaded : Sound(b) /\ Validate(b, agg.plan)
       /\ \A b, c \in agg.loaded : b.unit = c.unit => b = c

Reporting == OneExecutionPerUnit /\ AuditIsCoherent

IInv == DistributedTypeOK /\ Working /\ Travelling /\ Loading /\ Reporting
------------------------------------------------------------------------------
(***************************************************************************)
(* Types.                                                                  *)
(***************************************************************************)

Started(stages) ==
    [stage : stages, plan : Workspaces, run : RunIDs,
     input : AuditArtifact \cup {Nothing}, saw : SUBSET Workspaces]

\* The stage of a job determines its fields.
LEMMA JobShape ==
    ASSUME DistributedTypeOK, NEW u \in WorkUnits
    PROVE  /\ job[u].stage = "running" => job[u] \in Started({"running"})
           /\ job[u].stage = "exited" => job[u] \in Started({"exited"})
           /\ job[u].stage = "publish" => job[u] \in [stage : {"publish"}, bundle : WorkBundle]
           /\ job[u].stage = "idle" => job[u] = Idle
<1>1. job[u] \in Job
  BY DEF DistributedTypeOK
<1>2. CASE job[u] = Idle
  BY <1>2 DEF Idle
<1>3. CASE job[u] \in Started({"running"})
  BY <1>3 DEF Started
<1>4. CASE job[u] \in Started({"exited"})
  BY <1>4 DEF Started
<1>5. CASE job[u] \in [stage : {"publish"}, bundle : WorkBundle]
  BY <1>5
<1> QED  BY <1>1, <1>2, <1>3, <1>4, <1>5 DEF Job, Started

\* A started job keeps its fields when it reads on or exits.
LEMMA StartedUpdate ==
    ASSUME NEW j \in Started({"running"}), NEW v \in Workspaces
    PROVE  /\ [j EXCEPT !.saw = @ \cup {v}] \in Started({"running"})
           /\ [j EXCEPT !.stage = "exited", !.saw = @ \cup {v}] \in Started({"exited"})
BY DEF Started

\* Every step keeps the types; a new attempt has a run ID no other job has.
LEMMA TypeStep == DistributedTypeOK /\ Working /\ [DistributedNext]_gateVars => DistributedTypeOK'
<1> SUFFICES ASSUME DistributedTypeOK, Working, [DistributedNext]_gateVars PROVE DistributedTypeOK'
  OBVIOUS
<1>0. /\ Audit \in WorkUnits /\ Consumers \subseteq WorkUnits \ {Audit}
      /\ MaxAttempts \in Nat /\ MaxWorkspaceEdits \in Nat
  BY DistributedAssumption
<1>a. ASSUME NEW j \in Started({"running"}) \cup Started({"exited"}) \cup {Idle}
                       \cup [stage : {"publish"}, bundle : WorkBundle]
      PROVE  j \in Job
  BY DEF Job, Started
<1>1. CASE PublishPlan
  BY <1>1 DEF PublishPlan, DistributedTypeOK
<1>2. ASSUME NEW u \in WorkUnits, StartWork(u) PROVE DistributedTypeOK'
  <2> DEFINE new == [stage |-> "running", plan |-> planFile, run |-> attempts + 1,
                     input |-> IF u \in Consumers THEN shared ELSE Nothing, saw |-> {}]
  <2>1. planFile \in Workspaces /\ attempts + 1 \in RunIDs /\ attempts' = attempts + 1
    BY <1>0, <1>2 DEF StartWork, validateCurrentWorkPlan, DistributedTypeOK, Workspaces, RunIDs
  <2>2. new \in Started({"running"})
    BY <2>1 DEF DistributedTypeOK, Started
  <2>3. AuditInput(u) \in AuditArtifact \cup {Nothing}
    BY DEF AuditInput, DistributedTypeOK, Directory
  <2>4. job' = [job EXCEPT ![u] = new] /\ dir' = [dir EXCEPT ![u].audit = AuditInput(u)]
    BY <1>2 DEF StartWork
  <2> HIDE DEF new
  <2>5. job' \in [WorkUnits -> Job]
    BY <1>a, <2>2, <2>4 DEF DistributedTypeOK
  <2>6. dir' \in [WorkUnits -> Directory]
    BY <2>3, <2>4 DEF DistributedTypeOK, Directory
  <2>7. ASSUME NEW v \in Consumers, job'[v].stage \in {"running", "exited"}
        PROVE  job'[v].input = dir'[v].audit
    <3>1. CASE v = u
      BY <1>0, <2>4, <3>1 DEF new, AuditInput, DistributedTypeOK, Directory
    <3>2. CASE v # u
      BY <1>0, <2>4, <2>7, <3>2 DEF DistributedTypeOK
    <3> QED  BY <3>1, <3>2
  <2>8. ASSUME NEW v \in WorkUnits, NEW w \in WorkUnits, v # w,
               job'[v].stage = "running", job'[w].stage = "running"
        PROVE  job'[v].run # job'[w].run
    <3>1. \A x \in WorkUnits \ {u} : job[x].stage = "running" => job[x].run < attempts + 1
      <4>1. ASSUME NEW x \in WorkUnits, job[x].stage = "running"
            PROVE  job[x].run \in Nat /\ job[x].run <= attempts
        BY <1>0, <4>1, JobShape DEF Working, Active, Started, RunIDs
      <4> QED  BY <4>1 DEF DistributedTypeOK
    <3>2. new.run = attempts + 1
      BY DEF new
    <3>3. CASE v = u \/ w = u
      BY <2>1, <2>4, <2>8, <3>1, <3>2, <3>3 DEF DistributedTypeOK, RunIDs
    <3>4. CASE v # u /\ w # u
      BY <2>4, <2>8, <3>4 DEF DistributedTypeOK
    <3> QED  BY <3>3, <3>4
  <2> QED  BY <1>0, <1>2, <2>1, <2>5, <2>6, <2>7, <2>8 DEF StartWork, DistributedTypeOK, RunIDs
<1>3. ASSUME NEW u \in WorkUnits, Emit(u) PROVE DistributedTypeOK'
  <2>1. job[u] \in Started({"running"}) /\ workspace \in Workspaces
    BY <1>3, JobShape DEF Emit, DistributedTypeOK
  <2>2. PICK report \in CreateExclusively(dir[u].report, job[u].run),
             audit \in IF u = Audit
                       THEN CreateExclusively(dir[u].audit, [run |-> job[u].run, workspace |-> workspace])
                       ELSE {dir[u].audit},
             observations \in {dir[u].observations, dir[u].observations \cup {job[u].run}} :
               dir' = [dir EXCEPT ![u] = [report |-> report, audit |-> audit,
                                          observations |-> observations]]
    BY <1>3 DEF Emit
  <2>3. job' = [job EXCEPT ![u] = [job[u] EXCEPT !.saw = @ \cup {workspace}]]
    BY <1>3 DEF Emit
  <2>4. job' \in [WorkUnits -> Job] /\ job'[u] \in Started({"running"}) /\ job'[u].run = job[u].run
                                /\ job'[u].input = job[u].input /\ job'[u].stage = "running"
    BY <1>a, <2>1, <2>3, StartedUpdate DEF DistributedTypeOK, Started
  <2>5. /\ report \in RunIDs \cup {Nothing} /\ audit \in AuditArtifact \cup {Nothing}
        /\ observations \in SUBSET RunIDs /\ (u # Audit => audit = dir[u].audit)
    BY <2>1, <2>2 DEF CreateExclusively, DistributedTypeOK, Started, Directory, AuditArtifact
  <2>6. dir' \in [WorkUnits -> Directory] /\ (u # Audit => dir'[u].audit = dir[u].audit)
    BY <2>2, <2>5 DEF DistributedTypeOK, Directory
  <2>7. \A v \in WorkUnits \ {u} : job'[v] = job[v] /\ dir'[v] = dir[v]
    BY <2>2, <2>3 DEF DistributedTypeOK
  <2>8. job[u].stage = "running"
    BY <1>3 DEF Emit
  <2> QED  BY <1>0, <1>3, <2>4, <2>6, <2>7, <2>8 DEF Emit, DistributedTypeOK
<1>4. ASSUME NEW u \in WorkUnits, ExitZero(u) PROVE DistributedTypeOK'
  <2>1. job[u] \in Started({"running"}) /\ workspace \in Workspaces /\ job[u].stage = "running"
    BY <1>4, JobShape DEF ExitZero, DistributedTypeOK
  <2>2. job' = [job EXCEPT ![u] = [job[u] EXCEPT !.stage = "exited", !.saw = @ \cup {workspace}]]
    BY <1>4, <2>1 DEF ExitZero
  <2>3. job' \in [WorkUnits -> Job] /\ job'[u].input = job[u].input /\ job'[u].stage = "exited"
    BY <1>a, <2>1, <2>2, StartedUpdate DEF DistributedTypeOK, Started
  <2>4. \A v \in WorkUnits \ {u} : job'[v] = job[v]
    BY <2>2 DEF DistributedTypeOK
  <2> QED  BY <1>0, <1>4, <2>1, <2>3, <2>4 DEF ExitZero, DistributedTypeOK
<1>5. ASSUME NEW u \in WorkUnits, AbandonWork(u) PROVE DistributedTypeOK'
  BY <1>5, <1>a DEF AbandonWork, DistributedTypeOK, Idle
<1>6. ASSUME NEW u \in WorkUnits, CollectWork(u) PROVE DistributedTypeOK'
  <2> DEFINE b == [unit |-> u, plan |-> job[u].plan, run |-> job[u].run,
                   report |-> dir[u].report, observations |-> dir[u].observations,
                   input |-> job[u].input, output |-> IF u = Audit THEN dir[u].audit ELSE Nothing,
                   saw |-> job[u].saw]
  <2>1. job[u] \in Started({"exited"}) /\ dir[u].report = job[u].run
    BY <1>6, JobShape DEF CollectWork, ValidateReport
  <2>2. b \in WorkBundle
    BY <2>1 DEF WorkBundle, Started, DistributedTypeOK, Directory
  <2>3. job' = [job EXCEPT ![u] = [stage |-> "publish", bundle |-> b]]
    BY <1>6 DEF CollectWork
  <2> HIDE DEF b
  <2>4. [stage |-> "publish", bundle |-> b] \in Job
    BY <1>a, <2>2
  <2> QED  BY <1>6, <2>3, <2>4 DEF CollectWork, DistributedTypeOK
<1>7. ASSUME NEW u \in WorkUnits, PublishBundle(u) PROVE DistributedTypeOK'
  <2>1. job[u].bundle \in WorkBundle
    BY <1>7, JobShape DEF PublishBundle
  <2> QED  BY <1>7, <1>a, <2>1 DEF PublishBundle, DistributedTypeOK, Idle
<1>8. ASSUME NEW u \in WorkUnits, ClearDirectory(u) PROVE DistributedTypeOK'
  <2>1. EmptyDir \in Directory
    BY DEF EmptyDir, Directory
  <2>2. job[u].stage = "idle"
    BY <1>8 DEF ClearDirectory, Idle
  <2> QED  BY <1>8, <2>1, <2>2 DEF ClearDirectory, DistributedTypeOK
<1>9. ASSUME NEW u \in WorkUnits, CopyBundle(u) PROVE DistributedTypeOK'
  BY <1>9 DEF CopyBundle, DistributedTypeOK
<1>10. CASE ShareAudit
  BY <1>0, <1>10 DEF ShareAudit, DistributedTypeOK, Directory
<1>11. CASE EditWorkspace
  BY <1>0, <1>11 DEF EditWorkspace, DistributedTypeOK, Workspaces
<1>12. CASE StartAggregate
  <2>1. agg' \in Aggregation
    BY <1>12 DEF StartAggregate, validateCurrentWorkPlan, DistributedTypeOK, Aggregation
  <2> QED  BY <1>12, <2>1 DEF StartAggregate, DistributedTypeOK
<1>13. ASSUME NEW path \in BundlePaths, LoadWorkBundle(path) PROVE DistributedTypeOK'
  <2>1. agg \in [stage : {"load"}, plan : Workspaces, found : SUBSET BundlePaths,
                 loaded : SUBSET WorkBundle]
    BY <1>13 DEF LoadWorkBundle, DistributedTypeOK, Aggregation
  <2>2. BundleAt(path) \in WorkBundle \cup {Nothing}
    BY DEF BundleAt, BundlePaths, DistributedTypeOK
  <2>3. agg' \in Aggregation
    <3>1. CASE Accepts(BundleAt(path))
      BY <1>13, <2>1, <2>2, <3>1 DEF LoadWorkBundle, Accepts, Aggregation
    <3>2. CASE ~Accepts(BundleAt(path))
      BY <1>13, <3>2 DEF LoadWorkBundle, Aggregation
    <3> QED  BY <3>1, <3>2
  <2> QED  BY <1>13, <2>3 DEF LoadWorkBundle, DistributedTypeOK
<1>14. CASE Aggregate
  BY <1>14 DEF Aggregate, DistributedTypeOK, Aggregation
<1>15. CASE UNCHANGED gateVars
  BY <1>15 DEF gateVars, DistributedTypeOK
<1> QED
  BY <1>1, <1>2, <1>3, <1>4, <1>5, <1>6, <1>7, <1>8, <1>9, <1>10, <1>11, <1>12, <1>13,
     <1>14, <1>15 DEF DistributedNext
------------------------------------------------------------------------------
(***************************************************************************)
(* Jobs and their directories.                                             *)
(***************************************************************************)

\* Steps that leave jobs, directories, attempts and workspace alone.
LEMMA WorkingFrame ==
    ASSUME Working, UNCHANGED <<workspace, attempts, job, dir>> PROVE Working'
BY DEF Working, Active

\* What commands read stays between plan and workspace; an audit under the run ID of
\* the producer's job is that job's.
LEMMA WorkingStep == DistributedTypeOK /\ Working /\ [DistributedNext]_gateVars => Working'
<1> SUFFICES ASSUME DistributedTypeOK, Working, [DistributedNext]_gateVars PROVE Working'
  OBVIOUS
<1>0. /\ Audit \in WorkUnits /\ Consumers \subseteq WorkUnits \ {Audit}
      /\ MaxAttempts \in Nat /\ MaxWorkspaceEdits \in Nat
  BY DistributedAssumption
<1>a. workspace \in Nat /\ attempts \in Nat
  BY <1>0 DEF DistributedTypeOK, Workspaces
<1>1. CASE \/ PublishPlan \/ ShareAudit \/ StartAggregate \/ Aggregate \/ UNCHANGED gateVars
           \/ (\E u \in WorkUnits : CopyBundle(u)) \/ (\E path \in BundlePaths : LoadWorkBundle(path))
  <2>1. UNCHANGED <<workspace, attempts, job, dir>>
    BY <1>1 DEF PublishPlan, ShareAudit, StartAggregate, Aggregate, gateVars, CopyBundle,
                LoadWorkBundle
  <2> QED  BY <2>1, WorkingFrame
<1>2. ASSUME NEW u \in WorkUnits, StartWork(u) PROVE Working'
  <2>1. job'[u].stage = "running" /\ job'[u].run = attempts + 1 /\ job'[u].plan = workspace
           /\ job'[u].saw = {} /\ attempts' = attempts + 1 /\ workspace' = workspace
    BY <1>2 DEF StartWork, DistributedTypeOK, validateCurrentWorkPlan
  <2>2. \A v \in WorkUnits \ {u} : job'[v] = job[v]
    BY <1>2 DEF StartWork, DistributedTypeOK
  <2>3. dir'[Audit].audit = dir[Audit].audit
    BY <1>0, <1>2 DEF StartWork, AuditInput, DistributedTypeOK, Directory
  <2>4. dir[Audit].audit # Nothing => dir[Audit].audit.run \in Nat /\ dir[Audit].audit.run <= attempts
    BY <1>0 DEF Working, DistributedTypeOK, Directory, AuditArtifact, RunIDs
  <2>5. ASSUME NEW v \in WorkUnits, Active(v), v # u
        PROVE  job[v].run \in Nat /\ job[v].run <= attempts
    BY <1>0, <2>5, JobShape DEF Working, Active, Started, RunIDs
  <2>6. \A v \in WorkUnits : Active(v)' =>
           /\ job'[v].run <= attempts'
           /\ job'[v].plan <= workspace'
           /\ \A s \in job'[v].saw : job'[v].plan <= s /\ s <= workspace'
    BY <1>a, <2>1, <2>2, <2>5 DEF Active, Working
  <2>7. \A v \in WorkUnits : job'[v].stage = "exited" => job'[v].saw # {} /\ job'[v] = job[v] /\ v # u
    BY <2>1, <2>2 DEF Working
  <2>8. Active(Audit)' /\ dir'[Audit].audit # Nothing /\ dir'[Audit].audit.run = job'[Audit].run =>
          dir'[Audit].audit.workspace \in job'[Audit].saw
    <3>1. CASE u = Audit
      BY <1>a, <2>1, <2>3, <2>4, <3>1
    <3>2. CASE u # Audit
      BY <1>0, <2>2, <2>3, <3>2 DEF Working, Active
    <3> QED  BY <3>1, <3>2
  <2> QED  BY <1>0, <1>a, <2>1, <2>3, <2>4, <2>6, <2>7, <2>8 DEF Working
<1>3. ASSUME NEW u \in WorkUnits, Emit(u) PROVE Working'
  <2>1. job[u] \in Started({"running"}) /\ job[u].stage = "running"
    BY <1>3, JobShape DEF Emit
  <2>2. job'[u].stage = "running" /\ job'[u].run = job[u].run /\ job'[u].plan = job[u].plan
           /\ job'[u].saw = job[u].saw \cup {workspace} /\ attempts' = attempts /\ workspace' = workspace
    BY <1>3, <2>1 DEF Emit, DistributedTypeOK, Started
  <2>3. \A v \in WorkUnits \ {u} : job'[v] = job[v] /\ dir'[v] = dir[v]
    BY <1>3 DEF Emit, DistributedTypeOK
  <2>4. CASE u = Audit
    <3>1. \/ dir'[Audit].audit = dir[Audit].audit
          \/ dir'[Audit].audit = [run |-> job[Audit].run, workspace |-> workspace]
      BY <1>3, <2>4 DEF Emit, DistributedTypeOK, CreateExclusively
    <3>2. job[Audit].run <= attempts
      BY <2>1, <2>4 DEF Working, Active
    <3> QED  BY <1>0, <1>a, <2>1, <2>2, <2>3, <2>4, <3>1, <3>2 DEF Working, Active
  <2>5. CASE u # Audit
    BY <1>0, <1>a, <2>1, <2>2, <2>3, <2>5 DEF Working, Active
  <2> QED  BY <2>4, <2>5
<1>4. ASSUME NEW u \in WorkUnits, ExitZero(u) PROVE Working'
  <2>1. job[u] \in Started({"running"}) /\ job[u].stage = "running"
    BY <1>4, JobShape DEF ExitZero
  <2>2. job'[u].stage = "exited" /\ job'[u].run = job[u].run /\ job'[u].plan = job[u].plan
           /\ job'[u].saw = job[u].saw \cup {workspace}
    BY <1>4, <2>1 DEF ExitZero, DistributedTypeOK, Started
  <2>3. \A v \in WorkUnits \ {u} : job'[v] = job[v]
    BY <1>4 DEF ExitZero, DistributedTypeOK
  <2>4. UNCHANGED <<workspace, attempts, dir>>
    BY <1>4 DEF ExitZero
  <2>5. u = Audit => dir[u].audit # Nothing /\ dir[u].audit.run = job[u].run
    BY <1>4 DEF ExitZero
  <2> QED  BY <1>0, <1>a, <2>1, <2>2, <2>3, <2>4, <2>5 DEF Working, Active
<1>5. ASSUME NEW u \in WorkUnits, AbandonWork(u) \/ CollectWork(u) \/ PublishBundle(u)
      PROVE  Working'
  <2>1. job'[u].stage \in {"idle", "publish"} /\ \A v \in WorkUnits \ {u} : job'[v] = job[v]
    BY <1>5 DEF AbandonWork, CollectWork, PublishBundle, DistributedTypeOK, Idle
  <2>2. UNCHANGED <<workspace, attempts, dir>>
    BY <1>5 DEF AbandonWork, CollectWork, PublishBundle
  <2> QED  BY <1>0, <2>1, <2>2 DEF Working, Active
<1>6. ASSUME NEW u \in WorkUnits, ClearDirectory(u) PROVE Working'
  <2>1. job[u].stage = "idle"
    BY <1>6 DEF ClearDirectory, Idle
  <2>2. UNCHANGED <<workspace, attempts, job>>
    BY <1>6 DEF ClearDirectory
  <2>3. dir'[Audit].audit = dir[Audit].audit \/ (u = Audit /\ dir'[Audit].audit = Nothing)
    BY <1>0, <1>6 DEF ClearDirectory, DistributedTypeOK, EmptyDir
  <2> QED  BY <1>0, <2>1, <2>2, <2>3 DEF Working, Active
<1>7. CASE EditWorkspace
  <2>1. workspace' = workspace + 1 /\ UNCHANGED <<attempts, job, dir>>
    BY <1>7 DEF EditWorkspace
  <2>2. ASSUME NEW v \in WorkUnits, Active(v)
        PROVE  /\ job[v].plan <= workspace'
               /\ \A s \in job[v].saw : job[v].plan <= s /\ s <= workspace'
    <3>1. job[v].plan \in Nat /\ job[v].saw \subseteq Nat
      BY <1>0, <2>2, JobShape DEF Active, Started, Workspaces
    <3>2. job[v].plan <= workspace /\ \A s \in job[v].saw : job[v].plan <= s /\ s <= workspace
      BY <2>2 DEF Working
    <3> QED  BY <1>a, <2>1, <3>1, <3>2
  <2> QED  BY <2>1, <2>2 DEF Working, Active
<1> QED  BY <1>1, <1>2, <1>3, <1>4, <1>5, <1>6, <1>7 DEF DistributedNext

------------------------------------------------------------------------------
(***************************************************************************)
(* Bundles.                                                                *)
(***************************************************************************)

\* A bundle is collected sound: the digest after the command is the plan's, and so is
\* everything between them.
LEMMA CollectedIsSound ==
    ASSUME DistributedTypeOK, Working, NEW u \in WorkUnits, CollectWork(u)
    PROVE  job'[u].stage = "publish" /\ Sound(job'[u].bundle)
<1>1. job[u] \in Started({"exited"}) /\ job[u].stage = "exited"
  BY JobShape DEF CollectWork
<1>2. workspace = job[u].plan /\ workspace \in Nat
  BY DistributedAssumption DEF CollectWork, FinalWorkDigest, DistributedTypeOK, Workspaces
<1>3. job[u].saw = {workspace}
  <2>1. job[u].saw \subseteq Nat
    BY <1>1, DistributedAssumption DEF Started, Workspaces
  <2>2. \A s \in job[u].saw : workspace <= s /\ s <= workspace
    BY <1>1, <1>2 DEF Working, Active
  <2>3. \A s \in job[u].saw : s = workspace
    BY <1>2, <2>1, <2>2
  <2>4. job[u].saw # {}
    BY <1>1 DEF Working
  <2> QED  BY <2>3, <2>4
<1>4. u = Audit => dir[u].audit.run = job[u].run /\ dir[u].audit.workspace = job[u].plan
  BY <1>1, <1>2, <1>3 DEF Working, Active
<1>5. /\ job'[u].stage = "publish"
      /\ job'[u].bundle.unit = u /\ job'[u].bundle.plan = job[u].plan
      /\ job'[u].bundle.run = job[u].run /\ job'[u].bundle.saw = job[u].saw
      /\ job'[u].bundle.output = IF u = Audit THEN dir[u].audit ELSE Nothing
  BY DEF CollectWork, DistributedTypeOK
<1> QED  BY <1>2, <1>3, <1>4, <1>5 DEF Sound

\* Soundness travels with a bundle.
LEMMA TravellingStep == DistributedTypeOK /\ Working /\ Travelling /\ [DistributedNext]_gateVars => Travelling'
<1> SUFFICES ASSUME DistributedTypeOK, Working, Travelling, [DistributedNext]_gateVars PROVE Travelling'
  OBVIOUS
<1>1. CASE \/ PublishPlan \/ ShareAudit \/ EditWorkspace \/ StartAggregate \/ Aggregate \/ UNCHANGED gateVars
           \/ (\E u \in WorkUnits : ClearDirectory(u)) \/ (\E path \in BundlePaths : LoadWorkBundle(path))
  <2>1. UNCHANGED <<job, bundles, copies>>
    BY <1>1 DEF PublishPlan, ShareAudit, EditWorkspace, StartAggregate, Aggregate, gateVars, ClearDirectory,
                LoadWorkBundle
  <2> QED  BY <2>1 DEF Travelling, Sound, EvidenceOfOneAttempt
<1>2. ASSUME NEW u \in WorkUnits, StartWork(u) \/ Emit(u) \/ ExitZero(u) \/ AbandonWork(u)
      PROVE  Travelling'
  <2>1. \A v \in WorkUnits \ {u} : job'[v] = job[v]
    BY <1>2 DEF StartWork, Emit, ExitZero, AbandonWork, DistributedTypeOK
  <2>2. job'[u].stage # "publish"
    <3>1. CASE StartWork(u) \/ AbandonWork(u)
      BY <3>1 DEF StartWork, AbandonWork, DistributedTypeOK, Idle
    <3>2. CASE Emit(u) \/ ExitZero(u)
      <4>1. job[u] \in Started({"running"})
        BY <3>2, JobShape DEF Emit, ExitZero
      <4> QED  BY <3>2, <4>1 DEF Emit, ExitZero, DistributedTypeOK, Started
    <3> QED  BY <1>2, <3>1, <3>2
  <2>3. UNCHANGED <<bundles, copies>>
    BY <1>2 DEF StartWork, Emit, ExitZero, AbandonWork
  <2> QED  BY <2>1, <2>2, <2>3 DEF Travelling, Sound, EvidenceOfOneAttempt
<1>3. ASSUME NEW u \in WorkUnits, CollectWork(u) PROVE Travelling'
  <2>1. \A v \in WorkUnits \ {u} : job'[v] = job[v]
    BY <1>3 DEF CollectWork, DistributedTypeOK
  <2>2. UNCHANGED <<bundles, copies>>
    BY <1>3 DEF CollectWork
  <2> QED  BY <1>3, <2>1, <2>2, CollectedIsSound DEF Travelling, Sound, EvidenceOfOneAttempt
<1>4. ASSUME NEW u \in WorkUnits, PublishBundle(u) PROVE Travelling'
  <2>1. \A v \in WorkUnits \ {u} : job'[v] = job[v] /\ bundles'[v] = bundles[v]
    BY <1>4 DEF PublishBundle, DistributedTypeOK
  <2>2. job'[u].stage = "idle" /\ bundles'[u] = job[u].bundle /\ copies' = copies
    BY <1>4 DEF PublishBundle, DistributedTypeOK, Idle
  <2>3. Sound(job[u].bundle)
    BY <1>4 DEF PublishBundle, Travelling
  <2>4. job[u].bundle.report = job[u].bundle.run /\ job[u].bundle.observations = {job[u].bundle.run}
    BY <1>4 DEF PublishBundle, Validate
  <2> QED  BY <2>1, <2>2, <2>3, <2>4 DEF Travelling, Sound, EvidenceOfOneAttempt
<1>5. ASSUME NEW u \in WorkUnits, CopyBundle(u) PROVE Travelling'
  <2>1. \A v \in WorkUnits : copies'[v] \in {copies[v], bundles[v], Nothing}
    BY <1>5 DEF CopyBundle, DistributedTypeOK
  <2>2. UNCHANGED <<job, bundles>>
    BY <1>5 DEF CopyBundle
  <2> QED  BY <2>1, <2>2 DEF Travelling, Sound, EvidenceOfOneAttempt
<1> QED  BY <1>1, <1>2, <1>3, <1>4, <1>5 DEF DistributedNext

------------------------------------------------------------------------------
(***************************************************************************)
(* Aggregation.                                                            *)
(***************************************************************************)

\* Only the steps of an aggregation touch what it has loaded.
LEMMA LoadingStep == DistributedTypeOK /\ Travelling /\ Loading /\ [DistributedNext]_gateVars => Loading'
<1> SUFFICES ASSUME DistributedTypeOK, Travelling, Loading, [DistributedNext]_gateVars PROVE Loading'
  OBVIOUS
<1>1. CASE StartAggregate
  BY <1>1 DEF StartAggregate, Loading
<1>2. ASSUME NEW path \in BundlePaths, LoadWorkBundle(path) PROVE Loading'
  <2> DEFINE b == BundleAt(path)
  <2>1. CASE Accepts(b)
    <3>1. agg'.loaded = agg.loaded \cup {b} /\ agg'.plan = agg.plan
      <4>1. agg \in [stage : {"load"}, plan : Workspaces, found : SUBSET BundlePaths,
                     loaded : SUBSET WorkBundle]
        BY <1>2 DEF LoadWorkBundle, DistributedTypeOK, Aggregation
      <4> HIDE DEF b
      <4>2. agg' = [agg EXCEPT !.found = @ \ {path}, !.loaded = @ \cup {b}]
        BY <1>2, <2>1 DEF LoadWorkBundle, b
      <4> QED  BY <4>1, <4>2
    <3>2. Validate(b, agg.plan) /\ \A other \in agg.loaded : other.unit # b.unit
      BY <2>1 DEF Accepts
    <3>3. Sound(b)
      BY <2>1 DEF Accepts, BundleAt, BundlePaths, Travelling
    <3>4. agg # Idle
      BY <1>2 DEF LoadWorkBundle
    <3> HIDE DEF b
    <3> QED  BY <3>1, <3>2, <3>3, <3>4 DEF Loading, Validate, Sound
  <2>2. CASE ~Accepts(b)
    BY <1>2, <2>2 DEF LoadWorkBundle, Loading
  <2> QED  BY <2>1, <2>2
<1>3. CASE Aggregate
  BY <1>3 DEF Aggregate, Loading
<1>4. CASE agg' = agg
  BY <1>4 DEF Loading, Sound, Validate
<1> QED
  BY <1>1, <1>2, <1>3, <1>4 DEF DistributedNext, gateVars, PublishPlan, StartWork, Emit, ExitZero, AbandonWork,
     CollectWork, PublishBundle, ClearDirectory, CopyBundle, ShareAudit, EditWorkspace

\* A report is made of the bundles that were loaded, one of every unit.
LEMMA ReportingStep == DistributedTypeOK /\ Loading /\ Reporting /\ [DistributedNext]_gateVars => Reporting'
<1> SUFFICES ASSUME DistributedTypeOK, Loading, Reporting, [DistributedNext]_gateVars PROVE Reporting'
  OBVIOUS
<1>1. CASE Aggregate
  <2> SUFFICES ASSUME NEW audit, validateCompleteBundleSet(agg.loaded, audit),
                      NEW r, r = aggregateBundleSet(agg.plan, audit, agg.loaded)
               PROVE  /\ \A u \in WorkUnits : \E b \in r.bundles :
                            b.unit = u /\ \A c \in r.bundles : c.unit = u => c = b
                      /\ r.audit.workspace = r.plan
                      /\ \A b \in r.bundles :
                           /\ b.plan = r.plan
                           /\ b.unit \in Consumers => b.input = r.audit
                           /\ b.unit = Audit => r.audit = b.output /\ b.output.run = b.run
    BY <1>1 DEF Aggregate, Reporting, OneExecutionPerUnit, AuditIsCoherent
  <2>1. r.plan = agg.plan /\ r.audit = audit /\ r.bundles = agg.loaded
    BY DEF aggregateBundleSet
  <2>2. /\ \A b \in agg.loaded : Sound(b) /\ Validate(b, agg.plan)
        /\ \A b, c \in agg.loaded : b.unit = c.unit => b = c
    BY <1>1 DEF Aggregate, Loading
  <2>3. PICK producer \in agg.loaded : producer.unit = Audit /\ producer.output = audit
    BY DistributedAssumption DEF validateCompleteBundleSet
  <2>4. audit.workspace = agg.plan
    BY <2>2, <2>3 DEF Sound, Validate
  <2> QED  BY <2>1, <2>2, <2>4 DEF validateCompleteBundleSet, Sound, Validate
<1>2. CASE reports' = reports
  BY <1>2 DEF Reporting, OneExecutionPerUnit, AuditIsCoherent
<1> QED
  BY <1>1, <1>2 DEF DistributedNext, gateVars, PublishPlan, StartWork, Emit, ExitZero, AbandonWork,
     CollectWork, PublishBundle, ClearDirectory, CopyBundle, ShareAudit, EditWorkspace, StartAggregate,
     LoadWorkBundle

------------------------------------------------------------------------------

\* The invariant holds at the start and every step keeps it.
LEMMA InvariantHolds == DistributedSpec => []IInv
<1>1. DistributedInit => IInv
  <2> SUFFICES ASSUME DistributedInit PROVE IInv
    OBVIOUS
  <2>1. DistributedTypeOK
    BY DistributedAssumption
       DEF DistributedInit, DistributedTypeOK, Workspaces, Job, Idle, Directory, EmptyDir, Aggregation
  <2>2. Working /\ Travelling /\ Loading /\ Reporting
    BY DistributedAssumption
       DEF DistributedInit, Working, Active, Travelling, Loading, Reporting, Idle, EmptyDir,
           EvidenceOfOneAttempt, OneExecutionPerUnit, AuditIsCoherent
  <2> QED  BY <2>1, <2>2 DEF IInv
<1>2. IInv /\ [DistributedNext]_gateVars => IInv'
  BY TypeStep, WorkingStep, TravellingStep, LoadingStep, ReportingStep DEF IInv
<1> QED  BY <1>1, <1>2, PTL DEF DistributedSpec

\* Type correctness, for concurrent jobs with distinct run IDs.
THEOREM TypeCorrect == DistributedSpec => []DistributedTypeOK
<1>1. IInv => DistributedTypeOK
  BY DEF IInv
<1> QED  BY <1>1, InvariantHolds, PTL

\* A bundle presents one attempt, and an aggregate one bundle of every unit, for any
\* number of retries in one directory (executePlanWorkUnit, AggregateWorkBundles).
THEOREM OneAttempt == DistributedSpec => []OneAttemptPerUnit
<1>1. IInv => OneAttemptPerUnit
  BY DEF IInv, Travelling, Reporting, OneAttemptPerUnit
<1> QED  BY <1>1, InvariantHolds, PTL

\* The command behind a bundle read the planned workspace only: the digest after the
\* command suffices, wherever edits and new plans fall.
THEOREM PlannedWorkspaceRead == DistributedSpec => []BundlesReadThePlannedWorkspace
<1>1. IInv => BundlesReadThePlannedWorkspace
  BY DEF IInv, Travelling, Sound, BundlesReadThePlannedWorkspace
<1> QED  BY <1>1, InvariantHolds, PTL

\* The producer, the consumers and the aggregate use one audit, computed from the planned
\* workspace by the reported execution (validateCompleteBundleSet).
THEOREM CoherentAudit == DistributedSpec => []AuditIsCoherent
<1>1. IInv => AuditIsCoherent
  BY DEF IInv, Reporting
<1> QED  BY <1>1, InvariantHolds, PTL
==============================================================================
