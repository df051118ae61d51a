------------------------------ MODULE GateRun -------------------------------
(***************************************************************************)
(* The lifecycle of "soundness-gate -action run": execute of               *)
(* cmd/soundness-gate/main.go with the two executors behind it, run        *)
(* (serial reference, runner.go) and runPlanParallel (parallel_runner.go), *)
(* and the three files a run retains: the aggregate report, the telemetry  *)
(* and the companion binding that makes the report admissible for reuse.   *)
(*                                                                         *)
(* Several runs may be under way over one workspace that somebody edits.   *)
(* A run reads the workspace digest four times (plan generation, plan      *)
(* validation, before and after the work units) and the units read its     *)
(* content in between.  Every retained file is created exclusively and     *)
(* filled afterwards, so a crash may leave it torn.                        *)
(***************************************************************************)
EXTENDS Naturals

CONSTANTS Runs,         \* gate invocations
          Units,        \* work units of the plan
          Paths,        \* report paths a caller may choose
          None,         \* no file at a path
          MaxEdits,     \* bound on workspace edits
          MaxFaults,    \* bound on failing units, failing I/O and crashes
          MaxRemovals   \* bound on retained files an operator removes

ASSUME GateRunAssumption ==
    /\ MaxEdits \in Nat /\ MaxFaults \in Nat /\ MaxRemovals \in Nat
    /\ Units # {}      \* a plan without commands is refused
    /\ None \notin [run : Runs, whole : BOOLEAN]

VARIABLES
    ws,         \* content of the workspace (its WorkspaceDigest)
    edits, faults, removals,
    reverted,   \* an edit has restored earlier content
    pc,         \* where each run is
    executor,   \* "plan-serial" or "parallel"
    wants,      \* which of "report" and "telemetry" the caller retains
    path,       \* the report path of the run
    plan,       \* plan.Workspace.Digest
    initial,    \* initialWorkspaceDigest
    todo,       \* work units not finished
    saw,        \* workspace contents the finished units of the run have read
    report, binding,   \* the files at each report path
    telemetry          \* the file at the telemetry path, shared by the runs

input == <<executor, wants, path>>
files == <<report, telemetry, binding>>
env   == <<ws, edits, reverted, faults, removals>>
vars  == <<env, pc, input, plan, initial, todo, saw, files>>

Digests == 0 .. MaxEdits

\* A retained file names the run that wrote it; it is whole once closed.
File == {None} \cup [run : Runs, whole : BOOLEAN]

Whole(file) == file # None /\ file.whole

Retaining == {"final", "report", "reportOpen", "telemetry", "telemetryOpen",
              "derive", "publish", "publishOpen"}

Stages == {"idle", "validate", "initial", "units"} \cup Retaining

Ended == {"done", "failed", "crashed"}

(***************************************************************************)
(* Type invariant: the ranges of the variables, and the stages of a run    *)
(* that presuppose the whole census.                                       *)
(***************************************************************************)
TypeOK ==
    /\ ws \in Digests
    /\ edits \in 0 .. MaxEdits
    /\ faults \in 0 .. MaxFaults
    /\ removals \in 0 .. MaxRemovals
    /\ reverted \in BOOLEAN
    /\ pc \in [Runs -> Stages \cup Ended]
    /\ executor \in [Runs -> {"plan-serial", "parallel"}]
    /\ wants \in [Runs -> SUBSET {"report", "telemetry"}]
    /\ path \in [Runs -> Paths]
    /\ plan \in [Runs -> Digests]
    /\ initial \in [Runs -> Digests]
    /\ todo \in [Runs -> SUBSET Units]
    /\ saw \in [Runs -> SUBSET Digests]
    /\ report \in [Paths -> File]
    /\ binding \in [Paths -> File]
    /\ telemetry \in File
    /\ \A r \in Runs : pc[r] \in Retaining \cup {"done"} => todo[r] = {}

Init ==
    /\ ws = 0 /\ edits = 0 /\ faults = 0 /\ removals = 0 /\ reverted = FALSE
    /\ pc = [r \in Runs |-> "idle"]
    /\ executor \in [Runs -> {"plan-serial", "parallel"}]
    /\ wants \in [Runs -> SUBSET {"report", "telemetry"}]
    /\ path \in [Runs -> Paths]
    /\ plan = [r \in Runs |-> 0]
    /\ initial = [r \in Runs |-> 0]
    /\ todo = [r \in Runs |-> Units]
    /\ saw = [r \in Runs |-> {}]
    /\ report = [p \in Paths |-> None]
    /\ binding = [p \in Paths |-> None]
    /\ telemetry = None

Goto(r, stage) == pc' = [pc EXCEPT ![r] = stage]

------------------------------------------------------------------------------
(***************************************************************************)
(* The steps of one run.                                                   *)
(***************************************************************************)

\* execute: GeneratePlan binds the plan to the workspace it reads.
GeneratePlan(r) ==
    /\ pc[r] = "idle"
    /\ plan' = [plan EXCEPT ![r] = ws]
    /\ Goto(r, "validate")
    /\ UNCHANGED <<env, input, initial, todo, saw, files>>

\* The plan is regenerated and must be the one that was passed.
validateCurrentPlan(r) ==
    /\ pc[r] = "validate"
    /\ Goto(r, IF ws = plan[r] THEN "initial" ELSE "failed")
    /\ UNCHANGED <<env, input, plan, initial, todo, saw, files>>

\* The digest every unit is bound to.  Only the parallel executor compares it
\* with the plan; the serial engine leaves that to the derivation at the end.
InitialDigest(r) ==
    /\ pc[r] = "initial"
    /\ initial' = [initial EXCEPT ![r] = ws]
    /\ Goto(r, IF executor[r] = "parallel" /\ ws # plan[r]
               THEN "failed" ELSE "units")
    /\ UNCHANGED <<env, input, plan, todo, saw, files>>

\* A unit's command reads the workspace, any number of times while it runs.
ReadWorkspace(r) ==
    /\ pc[r] = "units"
    /\ todo[r] # {}
    /\ saw' = [saw EXCEPT ![r] = @ \cup {ws}]
    /\ UNCHANGED <<env, pc, input, plan, initial, todo, files>>

\* A unit's command succeeds and its bound report and observations validate.
FinishUnit(r, u) ==
    /\ pc[r] = "units"
    /\ u \in todo[r]
    /\ todo' = [todo EXCEPT ![r] = @ \ {u}]
    /\ saw' = [saw EXCEPT ![r] = @ \cup {ws}]
    /\ UNCHANGED <<env, pc, input, plan, initial, files>>

\* Every unit finished; ValidateObservations accepts the census.
CensusComplete(r) ==
    /\ pc[r] = "units"
    /\ todo[r] = {}
    /\ Goto(r, "final")
    /\ UNCHANGED <<env, input, plan, initial, todo, saw, files>>

\* Mutant of FinalDigest: the workspace is not read again.
NoFinalDigest(r) ==
    /\ pc[r] = "final"
    /\ Goto(r, IF "report" \in wants[r] THEN "report" ELSE "telemetry")
    /\ UNCHANGED <<env, input, plan, initial, todo, saw, files>>

\* The workspace must still be the initial one; ValidateRunReport follows.
FinalDigest(r) ==
    /\ pc[r] = "final"
    /\ Goto(r, IF ws # initial[r] THEN "failed"
               ELSE IF "report" \in wants[r] THEN "report" ELSE "telemetry")
    /\ UNCHANGED <<env, input, plan, initial, todo, saw, files>>

(***************************************************************************)
(* writeExclusiveJSON: O_EXCL creation, then write, sync and close.        *)
(* Created(file, r) is the file after the creation r attempts, Refused     *)
(* whether the creation fails.                                             *)
(***************************************************************************)

Refused(file) == file # None

Torn(r) == [run |-> r, whole |-> FALSE]

Complete(r) == [run |-> r, whole |-> TRUE]

CreateReport(r) ==
    /\ pc[r] = "report"
    /\ IF Refused(report[path[r]])
         THEN Goto(r, "failed") /\ UNCHANGED report
         ELSE Goto(r, "reportOpen") /\ report' = [report EXCEPT ![path[r]] = Torn(r)]
    /\ UNCHANGED <<env, input, plan, initial, todo, saw, telemetry, binding>>

\* The descriptor stays valid when the name was removed meanwhile, and then
\* what is written is not what the name denotes.
CloseReport(r) ==
    /\ pc[r] = "reportOpen"
    /\ report' = [report EXCEPT ![path[r]] = IF @ = Torn(r) THEN Complete(r) ELSE @]
    /\ Goto(r, "telemetry")
    /\ UNCHANGED <<env, input, plan, initial, todo, saw, telemetry, binding>>

\* telemetry.Validate accepts; the file is created when it is retained.
CreateTelemetry(r) ==
    /\ pc[r] = "telemetry"
    /\ IF "telemetry" \notin wants[r]
         THEN Goto(r, "derive") /\ UNCHANGED telemetry
       ELSE IF Refused(telemetry)
         THEN Goto(r, "failed") /\ UNCHANGED telemetry
         ELSE Goto(r, "telemetryOpen") /\ telemetry' = Torn(r)
    /\ UNCHANGED <<env, input, plan, initial, todo, saw, report, binding>>

CloseTelemetry(r) ==
    /\ pc[r] = "telemetryOpen"
    /\ telemetry' = IF telemetry = Torn(r) THEN Complete(r) ELSE telemetry
    /\ Goto(r, "derive")
    /\ UNCHANGED <<env, input, plan, initial, todo, saw, report, binding>>

\* Mutant of DeriveRunReportBinding: the plan's workspace is not compared.
DeriveUnchecked(r) ==
    /\ pc[r] = "derive"
    /\ Goto(r, IF "report" \notin wants[r] THEN "done" ELSE "publish")
    /\ UNCHANGED <<env, input, plan, initial, todo, saw, files>>

\* retainReportBinding up to the derivation: the report this run holds in
\* memory must be about the workspace the plan was generated for.
DeriveRunReportBinding(r) ==
    /\ pc[r] = "derive"
    /\ Goto(r, IF "report" \notin wants[r] THEN "done"
               ELSE IF plan[r] # initial[r] THEN "failed" ELSE "publish")
    /\ UNCHANGED <<env, input, plan, initial, todo, saw, files>>

PublishRunReportBinding(r) ==
    /\ pc[r] = "publish"
    /\ IF Refused(binding[path[r]])
         THEN Goto(r, "failed") /\ UNCHANGED binding
         ELSE Goto(r, "publishOpen") /\ binding' = [binding EXCEPT ![path[r]] = Torn(r)]
    /\ UNCHANGED <<env, input, plan, initial, todo, saw, report, telemetry>>

\* Mutant of CloseBinding: the run reports success while the file is open.
CloseBindingLost(r) ==
    /\ pc[r] = "publishOpen"
    /\ Goto(r, "done")
    /\ UNCHANGED <<env, input, plan, initial, todo, saw, files>>

CloseBinding(r) ==
    /\ pc[r] = "publishOpen"
    /\ binding' = [binding EXCEPT ![path[r]] = IF @ = Torn(r) THEN Complete(r) ELSE @]
    /\ Goto(r, "done")
    /\ UNCHANGED <<env, input, plan, initial, todo, saw, report, telemetry>>

\* An error return: a unit failed, timed out or emitted evidence that does not
\* validate, the caller canceled the context, or an I/O call failed.  Nothing
\* that was retained before it is taken back.
Fail(r) ==
    /\ pc[r] \notin Ended
    /\ faults < MaxFaults
    /\ faults' = faults + 1
    /\ Goto(r, "failed")
    /\ UNCHANGED <<ws, edits, reverted, removals, input, plan, initial, todo, saw, files>>

Crash(r) ==
    /\ pc[r] \notin Ended
    /\ faults < MaxFaults
    /\ faults' = faults + 1
    /\ Goto(r, "crashed")
    /\ UNCHANGED <<ws, edits, reverted, removals, input, plan, initial, todo, saw, files>>

------------------------------------------------------------------------------
(***************************************************************************)
(* The environment.                                                        *)
(***************************************************************************)

\* Somebody changes the workspace, to new content (edits + 1) or to content
\* it had before.
Edit ==
    /\ edits < MaxEdits
    /\ edits' = edits + 1
    /\ ws' \in (0 .. edits + 1) \ {ws}
    /\ reverted' = (reverted \/ ws' # edits + 1)
    /\ UNCHANGED <<faults, removals, pc, input, plan, initial, todo, saw, files>>

\* An operator removes one retained file to make room for another run.
Remove ==
    /\ removals < MaxRemovals
    /\ removals' = removals + 1
    /\ \/ \E p \in Paths :
            \/ report[p] # None /\ report' = [report EXCEPT ![p] = None]
               /\ UNCHANGED <<telemetry, binding>>
            \/ binding[p] # None /\ binding' = [binding EXCEPT ![p] = None]
               /\ UNCHANGED <<report, telemetry>>
       \/ telemetry # None /\ telemetry' = None /\ UNCHANGED <<report, binding>>
    /\ UNCHANGED <<ws, edits, reverted, faults, pc, input, plan, initial, todo, saw>>

Step(r) ==
    \/ GeneratePlan(r)
    \/ validateCurrentPlan(r)
    \/ InitialDigest(r)
    \/ ReadWorkspace(r)
    \/ \E u \in Units : FinishUnit(r, u)
    \/ CensusComplete(r)
    \/ FinalDigest(r)
    \/ CreateReport(r)
    \/ CloseReport(r)
    \/ CreateTelemetry(r)
    \/ CloseTelemetry(r)
    \/ DeriveRunReportBinding(r)
    \/ PublishRunReportBinding(r)
    \/ CloseBinding(r)

Next ==
    \/ \E r \in Runs : Step(r) \/ Fail(r) \/ Crash(r)
    \/ Edit
    \/ Remove

Spec == Init /\ [][Next]_vars

------------------------------------------------------------------------------
(***************************************************************************)
(* Properties.                                                             *)
(***************************************************************************)

\* loadReusedAggregateSelection: strict decoding rejects a torn file, and the
\* binding must carry the digest of the report, which the run ID makes unique.
Admissible(p) ==
    /\ Whole(report[p])
    /\ Whole(binding[p])
    /\ binding[p].run = report[p].run

\* What the consumer takes an admissible pair for: a report whose plan was
\* generated for the reported workspace and all of whose units finished.  The
\* binding derivation is the only place where the serial engine compares the
\* two digests, and other runs may replace either file at any time.
AdmissibleIsPlanned ==
    \A p \in Paths : Admissible(p) =>
       LET planned == binding[p].run
           reported == report[p].run
       IN  /\ plan[planned] = initial[reported]
           /\ todo[reported] = {}

\* As long as no edit was reverted, the workspace named by any complete report on disk,
\* admissible or not, is what every unit of its run read, all the time: the
\* comparison at the end catches every edit made under the units.
ReportsWhatWasRead ==
    ~reverted => \A p \in Paths :
       Whole(report[p]) => saw[report[p].run] = {initial[report[p].run]}

\* A run that returns success leaves an admissible report of its own at the
\* path it was given, whatever the other runs do at the same path.
SuccessIsAdmissible ==
    \A r \in Runs :
       (pc[r] = "done" /\ "report" \in wants[r] /\ removals = 0) =>
          Admissible(path[r]) /\ report[path[r]].run = r

==============================================================================
