--------------------------- MODULE GateRunProofs ----------------------------
(***************************************************************************)
(* Proofs about GateRun, for every number of runs, units, report paths,    *)
(* edits, faults and removals.                                             *)
(*                                                                         *)
(* The inductive invariant says what the stage of a run has established,   *)
(* and carries it over to the files, which outlive the run: a file names a *)
(* run that is past the stage that created it, and from there on the run   *)
(* changes none of the digests, reads and units the file is about.         *)
(***************************************************************************)
EXTENDS GateRun, TLAPS

\* Before the digest the units are bound to is taken.
Preparing == {"idle", "validate", "initial"}

\* The final digest was compared.
Closing == Retaining \ {"final"}

\* The stages of a run that may have a report, or a binding, of its own.
HasReport == (Closing \ {"report"}) \cup Ended
HasBinding == {"publishOpen"} \cup Ended

\* What the stage of a run says of its plan and its units.
Staged ==
    \A r \in Runs :
       /\ pc[r] \in Preparing => todo[r] = Units /\ saw[r] = {}
       /\ pc[r] \in {"report", "reportOpen", "publish", "publishOpen"} => "report" \in wants[r]
       /\ pc[r] \in {"publish", "publishOpen"} => plan[r] = initial[r]

\* What the units of a run have read, while versions of the workspace only grow.
Reading ==
    ~reverted =>
       /\ ws = edits
       /\ \A r \in Runs :
            /\ pc[r] \in {"units", "final"} =>
                 initial[r] <= ws /\ \A s \in saw[r] : initial[r] <= s /\ s <= ws
            /\ (pc[r] = "units" /\ todo[r] # Units) \/ pc[r] = "final" => saw[r] # {}
            /\ pc[r] \in Closing => saw[r] = {initial[r]}

\* What a file says of the run that created it, whoever looks at it and when.
Filed ==
    \A p \in Paths :
       /\ report[p] # None =>
            /\ pc[report[p].run] \in HasReport
            /\ todo[report[p].run] = {}
            /\ ~reverted => saw[report[p].run] = {initial[report[p].run]}
       /\ binding[p] # None =>
            /\ pc[binding[p].run] \in HasBinding
            /\ plan[binding[p].run] = initial[binding[p].run]

\* What a run keeps at its path as long as no operator removes files.
Kept ==
    removals = 0 => \A r \in Runs :
       /\ pc[r] = "reportOpen" => report[path[r]] = Torn(r)
       /\ pc[r] \in (Closing \ {"report", "reportOpen"}) \cup {"done"} =>
            ("report" \in wants[r] => report[path[r]] = Complete(r))
       /\ pc[r] = "publishOpen" => binding[path[r]] = Torn(r)
       /\ pc[r] = "done" => ("report" \in wants[r] => binding[path[r]] = Complete(r))

IInv == TypeOK /\ Staged /\ Reading /\ Filed /\ Kept

------------------------------------------------------------------------------
\* The sets of stages, as they are named in every proof below.
USE DEF Preparing, Closing, HasReport, HasBinding, Retaining, Ended, Goto

\* Files of different runs, torn files, whole files and no file are all different.
LEMMA FilesDiffer ==
    ASSUME NEW q \in Runs, NEW r \in Runs
    PROVE  /\ Torn(q) # Complete(r)
           /\ Torn(q) = Torn(r) => q = r
           /\ Complete(q) = Complete(r) => q = r
           /\ Torn(r) # None /\ Complete(r) # None
           /\ Torn(r) \in File /\ Complete(r) \in File
<1>1. Torn(q).whole # Complete(r).whole /\ Torn(q).run = q /\ Torn(r).run = r
  BY DEF Torn, Complete
<1>2. Complete(q).run = q /\ Complete(r).run = r
  BY DEF Complete
<1>3. {Torn(r), Complete(r)} \subseteq [run : Runs, whole : BOOLEAN]
  BY DEF Torn, Complete
<1> QED  BY <1>1, <1>2, <1>3, GateRunAssumption DEF File

\* Every step of a run and of its environment keeps the types, and the census
\* is complete whenever a run is past it.
LEMMA TypeStep == TypeOK /\ [Next]_vars => TypeOK'
<1> SUFFICES ASSUME TypeOK, [Next]_vars PROVE TypeOK'
  OBVIOUS
<1>0. None \in File
  BY DEF File
<1> USE FilesDiffer, <1>0, GateRunAssumption DEF TypeOK, Digests, Stages, env, input, files
<1>1. ASSUME NEW r \in Runs, Step(r) \/ Fail(r) \/ Crash(r) PROVE TypeOK'
  <2>1. CASE GeneratePlan(r)
    BY <2>1 DEF GeneratePlan
  <2>2. CASE validateCurrentPlan(r)
    BY <2>2 DEF validateCurrentPlan
  <2>3. CASE InitialDigest(r)
    BY <2>3 DEF InitialDigest
  <2>4. CASE ReadWorkspace(r)
    BY <2>4 DEF ReadWorkspace
  <2>5. ASSUME NEW u \in Units, FinishUnit(r, u) PROVE TypeOK'
    BY <2>5 DEF FinishUnit
  <2>6. CASE CensusComplete(r)
    BY <2>6 DEF CensusComplete
  <2>7. CASE FinalDigest(r)
    BY <2>7 DEF FinalDigest
  <2>8. CASE CreateReport(r)
    BY <2>8 DEF CreateReport, Refused
  <2>9. CASE CloseReport(r)
    BY <2>9 DEF CloseReport
  <2>10. CASE CreateTelemetry(r)
    BY <2>10 DEF CreateTelemetry, Refused
  <2>11. CASE CloseTelemetry(r)
    BY <2>11 DEF CloseTelemetry
  <2>12. CASE DeriveRunReportBinding(r)
    BY <2>12 DEF DeriveRunReportBinding
  <2>13. CASE PublishRunReportBinding(r)
    BY <2>13 DEF PublishRunReportBinding, Refused
  <2>14. CASE CloseBinding(r)
    BY <2>14 DEF CloseBinding
  <2>15. CASE Fail(r)
    BY <2>15 DEF Fail
  <2>16. CASE Crash(r)
    BY <2>16 DEF Crash
  <2> QED  BY <1>1, <2>1, <2>2, <2>3, <2>4, <2>5, <2>6, <2>7, <2>8, <2>9, <2>10, <2>11, <2>12, <2>13, <2>14, <2>15, <2>16 DEF Step
<1>2. CASE Edit
  BY <1>2 DEF Edit
<1>3. CASE Remove
  BY <1>3 DEF Remove
<1>4. CASE UNCHANGED vars
  BY <1>4 DEF vars, env, files
<1> QED  BY <1>1, <1>2, <1>3, <1>4 DEF Next

\* A run's plan is compared with its digest before it publishes.
LEMMA StagedStep == TypeOK /\ Staged /\ [Next]_vars => Staged'
<1> SUFFICES ASSUME TypeOK, Staged, [Next]_vars PROVE Staged'
  OBVIOUS
<1> USE DEF TypeOK, Staged, Stages, env, input, files
<1>1. ASSUME NEW r \in Runs, Step(r) \/ Fail(r) \/ Crash(r) PROVE Staged'
  <2>1. CASE GeneratePlan(r)
    BY <2>1 DEF GeneratePlan
  <2>2. CASE validateCurrentPlan(r)
    BY <2>2 DEF validateCurrentPlan
  <2>3. CASE InitialDigest(r)
    BY <2>3 DEF InitialDigest
  <2>4. CASE ReadWorkspace(r)
    BY <2>4 DEF ReadWorkspace
  <2>5. ASSUME NEW u \in Units, FinishUnit(r, u) PROVE Staged'
    BY <2>5 DEF FinishUnit
  <2>6. CASE CensusComplete(r)
    BY <2>6 DEF CensusComplete
  <2>7. CASE FinalDigest(r)
    BY <2>7 DEF FinalDigest
  <2>8. CASE CreateReport(r)
    BY <2>8 DEF CreateReport, Refused
  <2>9. CASE CloseReport(r)
    BY <2>9 DEF CloseReport
  <2>10. CASE CreateTelemetry(r)
    BY <2>10 DEF CreateTelemetry, Refused
  <2>11. CASE CloseTelemetry(r)
    BY <2>11 DEF CloseTelemetry
  <2>12. CASE DeriveRunReportBinding(r)
    BY <2>12 DEF DeriveRunReportBinding
  <2>13. CASE PublishRunReportBinding(r)
    BY <2>13 DEF PublishRunReportBinding, Refused
  <2>14. CASE CloseBinding(r)
    BY <2>14 DEF CloseBinding
  <2>15. CASE Fail(r)
    BY <2>15 DEF Fail
  <2>16. CASE Crash(r)
    BY <2>16 DEF Crash
  <2> QED  BY <1>1, <2>1, <2>2, <2>3, <2>4, <2>5, <2>6, <2>7, <2>8, <2>9, <2>10, <2>11, <2>12, <2>13, <2>14, <2>15, <2>16 DEF Step
<1>2. CASE Edit
  BY <1>2 DEF Edit
<1>3. CASE Remove
  BY <1>3 DEF Remove
<1>4. CASE UNCHANGED vars
  BY <1>4 DEF vars, env, files
<1> QED  BY <1>1, <1>2, <1>3, <1>4 DEF Next

\* The comparison at the end confines what the units read to one version.
LEMMA ReadingStep == TypeOK /\ Staged /\ Reading /\ [Next]_vars => Reading'
<1> SUFFICES ASSUME TypeOK, Staged, Reading, [Next]_vars PROVE Reading'
  OBVIOUS
<1> USE GateRunAssumption DEF TypeOK, Staged, Reading, Digests, Stages, env, input, files
<1>1. ASSUME NEW r \in Runs, Step(r) \/ Fail(r) \/ Crash(r) PROVE Reading'
  <2>1. CASE GeneratePlan(r)
    BY <2>1 DEF GeneratePlan
  <2>2. CASE validateCurrentPlan(r)
    BY <2>2 DEF validateCurrentPlan
  <2>3. CASE InitialDigest(r)
    BY <2>3 DEF InitialDigest
  <2>4. CASE ReadWorkspace(r)
    BY <2>4 DEF ReadWorkspace
  <2>5. ASSUME NEW u \in Units, FinishUnit(r, u) PROVE Reading'
    <3> SUFFICES ASSUME ~reverted, NEW q \in Runs PROVE Reading!2!2!(q)'
      BY <2>5 DEF FinishUnit
    <3>1. CASE q = r
      BY <2>5, <3>1 DEF FinishUnit
    <3>2. CASE q # r
      BY <2>5, <3>2 DEF FinishUnit
    <3> QED  BY <3>1, <3>2
  <2>6. CASE CensusComplete(r)
    BY <2>6 DEF CensusComplete
  <2>7. CASE FinalDigest(r)
    <3>1. CASE ws = initial[r] /\ ~reverted
      <4>1. saw[r] = {initial[r]}
        <5>1. \A s \in saw[r] : s \in Nat /\ initial[r] <= s /\ s <= ws
          BY <2>7, <3>1 DEF FinalDigest
        <5>2. saw[r] # {} /\ initial[r] \in Nat
          BY <2>7, <3>1 DEF FinalDigest
        <5>3. \A s \in saw[r] : s = initial[r]
          BY <3>1, <5>1, <5>2
        <5> QED  BY <5>2, <5>3
      <4> QED  BY <2>7, <3>1, <4>1 DEF FinalDigest
    <3>2. CASE ws # initial[r] \/ reverted
      BY <2>7, <3>2 DEF FinalDigest
    <3> QED  BY <3>1, <3>2
  <2>8. CASE CreateReport(r)
    BY <2>8 DEF CreateReport, Refused
  <2>9. CASE CloseReport(r)
    BY <2>9 DEF CloseReport
  <2>10. CASE CreateTelemetry(r)
    BY <2>10 DEF CreateTelemetry, Refused
  <2>11. CASE CloseTelemetry(r)
    BY <2>11 DEF CloseTelemetry
  <2>12. CASE DeriveRunReportBinding(r)
    BY <2>12 DEF DeriveRunReportBinding
  <2>13. CASE PublishRunReportBinding(r)
    BY <2>13 DEF PublishRunReportBinding, Refused
  <2>14. CASE CloseBinding(r)
    BY <2>14 DEF CloseBinding
  <2>15. CASE Fail(r)
    BY <2>15 DEF Fail
  <2>16. CASE Crash(r)
    BY <2>16 DEF Crash
  <2> QED  BY <1>1, <2>1, <2>2, <2>3, <2>4, <2>5, <2>6, <2>7, <2>8, <2>9, <2>10, <2>11, <2>12, <2>13, <2>14, <2>15, <2>16 DEF Step
<1>2. CASE Edit
  <2> SUFFICES ASSUME ~reverted' PROVE Reading'
    OBVIOUS
  <2>1. ~reverted /\ ws' = edits + 1 /\ edits' = edits + 1 /\ ws = edits
    BY <1>2 DEF Edit
  <2>2. ASSUME NEW q \in Runs, pc[q] \in {"units", "final"}
        PROVE  initial[q] <= ws' /\ \A s \in saw[q] : initial[q] <= s /\ s <= ws'
    <3>1. initial[q] <= ws /\ \A s \in saw[q] : s \in Nat /\ initial[q] <= s /\ s <= ws
      BY <2>1, <2>2
    <3>2. initial[q] \in Nat /\ ws \in Nat
      OBVIOUS
    <3> QED  BY <2>1, <3>1, <3>2
  <2> QED  BY <1>2, <2>1, <2>2 DEF Edit
<1>3. CASE Remove
  BY <1>3 DEF Remove
<1>4. CASE UNCHANGED vars
  BY <1>4 DEF vars, env, files
<1> QED  BY <1>1, <1>2, <1>3, <1>4 DEF Next

\* No run goes back on what its files are about, and files are made by runs that
\* are past the comparisons.
LEMMA FiledStep == TypeOK /\ Staged /\ Reading /\ Filed /\ [Next]_vars => Filed'
<1> SUFFICES ASSUME TypeOK, Staged, Reading, Filed, [Next]_vars PROVE Filed'
  OBVIOUS
<1> USE GateRunAssumption DEF TypeOK, Staged, Reading, Filed, Digests, File, Stages, Torn, Complete, env, input, files
<1>1. ASSUME NEW r \in Runs, Step(r) \/ Fail(r) \/ Crash(r) PROVE Filed'
  <2>1. CASE GeneratePlan(r)
    BY <2>1 DEF GeneratePlan
  <2>2. CASE validateCurrentPlan(r)
    BY <2>2 DEF validateCurrentPlan
  <2>3. CASE InitialDigest(r)
    BY <2>3 DEF InitialDigest
  <2>4. CASE ReadWorkspace(r)
    BY <2>4 DEF ReadWorkspace
  <2>5. ASSUME NEW u \in Units, FinishUnit(r, u) PROVE Filed'
    BY <2>5 DEF FinishUnit
  <2>6. CASE CensusComplete(r)
    BY <2>6 DEF CensusComplete
  <2>7. CASE FinalDigest(r)
    BY <2>7 DEF FinalDigest
  <2>8. CASE CreateReport(r)
    BY <2>8 DEF CreateReport, Refused
  <2>9. CASE CloseReport(r)
    BY <2>9 DEF CloseReport
  <2>10. CASE CreateTelemetry(r)
    BY <2>10 DEF CreateTelemetry, Refused
  <2>11. CASE CloseTelemetry(r)
    BY <2>11 DEF CloseTelemetry
  <2>12. CASE DeriveRunReportBinding(r)
    BY <2>12 DEF DeriveRunReportBinding
  <2>13. CASE PublishRunReportBinding(r)
    BY <2>13 DEF PublishRunReportBinding, Refused
  <2>14. CASE CloseBinding(r)
    BY <2>14 DEF CloseBinding
  <2>15. CASE Fail(r)
    BY <2>15 DEF Fail
  <2>16. CASE Crash(r)
    BY <2>16 DEF Crash
  <2> QED  BY <1>1, <2>1, <2>2, <2>3, <2>4, <2>5, <2>6, <2>7, <2>8, <2>9, <2>10, <2>11, <2>12, <2>13, <2>14, <2>15, <2>16 DEF Step
<1>2. CASE Edit
  BY <1>2 DEF Edit
<1>3. CASE Remove
  BY <1>3 DEF Remove
<1>4. CASE UNCHANGED vars
  BY <1>4 DEF vars, env, files
<1> QED  BY <1>1, <1>2, <1>3, <1>4 DEF Next

\* Exclusive creation protects a file of one run from every other run.
LEMMA KeptStep == TypeOK /\ Staged /\ Kept /\ [Next]_vars => Kept'
<1> SUFFICES ASSUME TypeOK, Staged, Kept, [Next]_vars PROVE Kept'
  OBVIOUS
<1> USE FilesDiffer DEF TypeOK, Staged, Kept, Stages, env, input, files
<1>1. ASSUME NEW r \in Runs, Step(r) \/ Fail(r) \/ Crash(r) PROVE Kept'
  <2>1. CASE GeneratePlan(r)
    BY <2>1 DEF GeneratePlan
  <2>2. CASE validateCurrentPlan(r)
    BY <2>2 DEF validateCurrentPlan
  <2>3. CASE InitialDigest(r)
    BY <2>3 DEF InitialDigest
  <2>4. CASE ReadWorkspace(r)
    BY <2>4 DEF ReadWorkspace
  <2>5. ASSUME NEW u \in Units, FinishUnit(r, u) PROVE Kept'
    BY <2>5 DEF FinishUnit
  <2>6. CASE CensusComplete(r)
    BY <2>6 DEF CensusComplete
  <2>7. CASE FinalDigest(r)
    BY <2>7 DEF FinalDigest
  <2>8. CASE CreateReport(r)
    BY <2>8 DEF CreateReport, Refused
  <2>9. CASE CloseReport(r)
    BY <2>9 DEF CloseReport
  <2>10. CASE CreateTelemetry(r)
    BY <2>10 DEF CreateTelemetry, Refused
  <2>11. CASE CloseTelemetry(r)
    BY <2>11 DEF CloseTelemetry
  <2>12. CASE DeriveRunReportBinding(r)
    BY <2>12 DEF DeriveRunReportBinding
  <2>13. CASE PublishRunReportBinding(r)
    BY <2>13 DEF PublishRunReportBinding, Refused
  <2>14. CASE CloseBinding(r)
    BY <2>14 DEF CloseBinding
  <2>15. CASE Fail(r)
    BY <2>15 DEF Fail
  <2>16. CASE Crash(r)
    BY <2>16 DEF Crash
  <2> QED  BY <1>1, <2>1, <2>2, <2>3, <2>4, <2>5, <2>6, <2>7, <2>8, <2>9, <2>10, <2>11, <2>12, <2>13, <2>14, <2>15, <2>16 DEF Step
<1>2. CASE Edit
  BY <1>2 DEF Edit
<1>3. CASE Remove
  BY <1>3 DEF Remove
<1>4. CASE UNCHANGED vars
  BY <1>4 DEF vars, env, files
<1> QED  BY <1>1, <1>2, <1>3, <1>4 DEF Next

\* The invariant holds at the start and every step keeps it.
LEMMA InvariantHolds == Spec => []IInv
<1>1. Init => IInv
  <2> SUFFICES ASSUME Init PROVE IInv
    OBVIOUS
  <2>1. TypeOK
    <3>1. report \in [Paths -> File] /\ binding \in [Paths -> File] /\ telemetry \in File
      BY DEF Init, File
    <3>2. reverted \in BOOLEAN
      BY DEF Init
    <3> QED  BY <3>1, <3>2, GateRunAssumption DEF Init, TypeOK, Digests, Stages
  <2>2. Staged /\ Reading /\ Filed /\ Kept
    BY DEF Init, Staged, Reading, Filed, Kept
  <2> QED  BY <2>1, <2>2 DEF IInv
<1>2. IInv /\ [Next]_vars => IInv'
  BY TypeStep, StagedStep, ReadingStep, FiledStep, KeptStep DEF IInv
<1> QED  BY <1>1, <1>2, PTL DEF Spec

\* Type correctness of a gate run and its files.
THEOREM TypeCorrect == Spec => []TypeOK
<1>1. IInv => TypeOK
  BY DEF IInv
<1> QED  BY <1>1, InvariantHolds, PTL

\* An admissible report (retainReportBinding, loadReusedAggregateSelection) is of the
\* planned workspace and of a complete census, for any number of runs and paths.
THEOREM AdmissiblePlanned == Spec => []AdmissibleIsPlanned
<1>1. IInv => AdmissibleIsPlanned
  BY DEF IInv, Filed, AdmissibleIsPlanned, Admissible, Whole
<1> QED  BY <1>1, InvariantHolds, PTL

\* A complete report names the one version its units read, unless content recurs:
\* the digests before and after the units suffice.
THEOREM ReadWhatIsReported == Spec => []ReportsWhatWasRead
<1>1. IInv => ReportsWhatWasRead
  BY DEF IInv, Filed, ReportsWhatWasRead, Whole
<1> QED  BY <1>1, InvariantHolds, PTL

\* Success leaves the run's own admissible report: exclusive creation keeps every other
\* run, crashed ones included, from replacing either file.
THEOREM SuccessAdmissible == Spec => []SuccessIsAdmissible
<1>1. \A r \in Runs : Whole(Complete(r)) /\ Complete(r).run = r
  BY FilesDiffer DEF Whole, Complete
<1>2. IInv => SuccessIsAdmissible
  BY <1>1 DEF IInv, Kept, SuccessIsAdmissible, Admissible
<1> QED  BY <1>2, InvariantHolds, PTL
==============================================================================
