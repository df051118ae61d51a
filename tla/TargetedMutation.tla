-------------------------- MODULE TargetedMutation --------------------------
(***************************************************************************)
(* The targeted mutation gate (cmd/targeted-mutation): every mutation of   *)
(* the profile is applied to a fresh copy of the module between two clean  *)
(* runs of its guard, the guard is run `count` times on the mutant, the    *)
(* source is restored, and evidence is emitted when every mutant was       *)
(* killed by exactly the mismatches its guard declares.                    *)
(*                                                                         *)
(* A guard run is one trace out of GuardTraces: go test may do anything,   *)
(* flaky tests, time-outs and panics included. Reads, writes and copies    *)
(* may fail; a failing write leaves the file torn. The module may be       *)
(* edited while the gate runs. Counts of a trace are abstracted to the     *)
(* sets of tests that ran, ran as often as asked, and passed as often.     *)
(***************************************************************************)
EXTENDS Integers, Sequences, FiniteSets

CONSTANTS
    MutationProfiles, \* profiles read, with the mutations of their manifest
    GuardTraces,  \* what go test may report
    Roots,        \* the top-level tests
    ParentOf,     \* the parent of each subtest
    Categories,   \* mutationCategories, in their order
    Stages,       \* mutationExecutionStages
    MaxEdits      \* bound: edits of the module while the gate runs

VARIABLES
    chosen,    \* the profile and manifest under execution
    at,        \* the next step of run or executeMutationInWorkspace
    source,    \* version of each mutated file in the module
    digests,   \* mutationSourceDigests at the start, as versions
    visited,   \* files the digest, copy or verification loop is done with
    copied,    \* version of each file in the workspace
    inFile,    \* what is in the file the mutation is about
    runs,      \* guard runs of the mutation so far: [inFile, trace]
    mutantResult, \* the result on its way through the deferred restoration
    done,      \* the mutations executed so far
    observed,  \* the cases of the evidence observations emitted, in category order
    report,    \* the subgate report is emitted
    exit       \* "running", "ok" or "error"

mutationVars == << chosen, at, source, digests, visited, copied, inFile, runs, mutantResult,
                  done, observed, report, exit >>

AllFiles == UNION {{m.file : m \in p.mutations} : p \in MutationProfiles}

Result(status, reason) == [status |-> status, reason |-> reason]

\* expectedGuardMismatch: an assertion of a test, the observation expected there and the
\* one that is made.
IsMismatch(m) ==
    m = [test |-> m.test, id |-> m.id, expected |-> m.expected, actual |-> m.actual]

IsList(list) == list \in Seq({list[i] : i \in DOMAIN list})

\* mutationProfile, with the guards of the mutations it lists.
IsProfile(p) ==
    /\ p.count \in Int /\ IsList(p.ids)
    /\ \A m \in p.mutations :
          IsFiniteSet(m.guard.expected) /\ \A e \in m.guard.expected : IsMismatch(e)

\* parseGoTestTrace: what is kept of the events of a guard run. The tests that ran, ran
\* and passed as often as asked, failed and were skipped; what the output shows of panics,
\* time-outs and mismatches, in their order; decodes: every event and mismatch does.
IsTrace(tr) ==
    LET tests == Roots \cup DOMAIN ParentOf
    IN  /\ {tr.decodes, tr.timedOut, tr.panicked, tr.err, tr.packageFailed} \subseteq BOOLEAN
        /\ UNION {tr.ran, tr.ranRight, tr.passedRight, tr.failed, tr.skipped} \subseteq tests
        /\ tr.ranRight \subseteq tr.ran
        /\ IsList(tr.mismatches)
        /\ \A i \in DOMAIN tr.mismatches :
              IsMismatch(tr.mismatches[i]) /\ tr.mismatches[i].test \in tests

ASSUME TracesAssumption == \A tr \in GuardTraces : IsTrace(tr)

ASSUME ProfilesAssumption ==
    /\ \A p \in MutationProfiles : IsProfile(p)
    /\ IsList(Categories)
    /\ MaxEdits \in Nat

-----------------------------------------------------------------------------
(* Profiles. *)

\* validateMutationGuard: selected tests are top-level, every expected mismatch
\* is in a selected test, is one of a kind and is a mismatch.
ValidGuard(guard) ==
    /\ guard.selected # {}
    /\ guard.expected # {}
    /\ guard.selected \subseteq Roots
    /\ \A e \in guard.expected :
          /\ (IF e.test \in Roots THEN e.test ELSE ParentOf[e.test]) \in guard.selected
          /\ e.expected # e.actual
          /\ \A d \in guard.expected : d.test = e.test /\ d.id = e.id => d = e

\* validateProfile.
ValidProfile(p) ==
    /\ p.count >= 2
    /\ \A m \in p.mutations : ValidGuard(m.guard)
    /\ \A m, n \in p.mutations : m.id = n.id => m = n
    /\ Len(p.ids) = Cardinality(p.mutations)
    /\ {p.ids[i] : i \in DOMAIN p.ids} = {m.id : m \in p.mutations}
    /\ \A i \in DOMAIN Categories, stage \in Stages :
          \E m \in p.mutations : Categories[i] \in m.categories /\ stage \in m.stages

-----------------------------------------------------------------------------
(* Guard traces. *)

\* validateSelectedRootCensus.
RootCensus(tr, guard) ==
    IF ~(guard.selected \subseteq tr.ranRight) THEN "missing"
    ELSE IF ~((tr.ran \cap Roots) \subseteq guard.selected) THEN "unexpected"
    ELSE "exact"

GuardTests(guard) == guard.selected \cup {e.test : e \in guard.expected}

\* validateCleanGuardRun, on output that decodes.
Clean(tr, guard) ==
    /\ tr.decodes
    /\ ~tr.timedOut /\ ~tr.panicked
    /\ ~tr.err /\ ~tr.packageFailed /\ tr.failed = {}
    /\ tr.mismatches = << >>
    /\ tr.skipped = {}
    /\ RootCensus(tr, guard) = "exact"
    /\ GuardTests(guard) \subseteq tr.passedRight

\* leafFailedTests.
Leaves(failed) ==
    {t \in failed : ~ \E u \in failed : u \in DOMAIN ParentOf /\ ParentOf[u] = t}

Entries(tr) == {tr.mismatches[i] : i \in DOMAIN tr.mismatches}

\* Mutant: the declared mismatches that were not observed are not missed.
AttributedPartly(guard, tr) ==
    IF Entries(tr) \subseteq guard.expected
    THEN Result("killed", "none") ELSE Result("invalid", "wrong-assertion")

\* The mismatches a failing guard run reports, judged against the declared ones.
Attributed(guard, tr) ==
    LET Declared(m) == {e \in guard.expected : e.test = m.test /\ e.id = m.id}
        Judge(m) ==
            IF Declared(m) = {}
            THEN IF m.test \in {e.test : e \in guard.expected}
                 THEN "wrong-assertion" ELSE "unexpected-test-failure"
            ELSE IF \E e \in Declared(m) : m.expected # e.expected THEN "wrong-expected"
            ELSE IF \E e \in Declared(m) : m.actual # e.actual THEN "wrong-actual"
            ELSE IF m.test \notin tr.failed THEN "malformed-attribution"
            ELSE "ok"
        bad == {i \in DOMAIN tr.mismatches :
                   \/ Judge(tr.mismatches[i]) # "ok"
                   \/ \E j \in 1..(i - 1) : /\ tr.mismatches[j].test = tr.mismatches[i].test
                                            /\ tr.mismatches[j].id = tr.mismatches[i].id}
        first == CHOOSE i \in bad : \A j \in bad : i <= j
    IN  IF bad = {}
        THEN IF Len(tr.mismatches) = Cardinality(guard.expected)
             THEN Result("killed", "none") ELSE Result("invalid", "malformed-attribution")
        ELSE Result("invalid", IF Judge(tr.mismatches[first]) = "ok"
                               THEN "malformed-attribution" ELSE Judge(tr.mismatches[first]))

\* attributedGoTestFailures, on output that decodes.
Classify(guard, tr) ==
    LET leaves == Leaves(tr.failed)
    IN  CASE tr.timedOut -> Result("invalid", "timeout")
          [] ~tr.timedOut /\ tr.panicked -> Result("invalid", "panic")
          [] OTHER ->
             IF \/ RootCensus(tr, guard) = "missing"
                \/ RootCensus(tr, guard) = "exact" /\ tr.skipped # {}
             THEN Result("invalid", "missing-or-skipped-guard")
             ELSE IF RootCensus(tr, guard) = "unexpected"
             THEN Result("invalid", "unexpected-test-failure")
             ELSE IF ~tr.err
             THEN IF tr.failed # {} \/ tr.packageFailed \/ tr.mismatches # << >>
                  THEN Result("invalid", "malformed-attribution")
                  ELSE IF ~(GuardTests(guard) \subseteq tr.passedRight)
                  THEN Result("invalid", "missing-or-skipped-guard")
                  ELSE Result("survived", "none")
             ELSE IF leaves = {} \/ tr.mismatches = << >>
             THEN Result("invalid", "unattributed-guard-failure")
             ELSE IF leaves # {e.test : e \in guard.expected}
             THEN Result("invalid", "unexpected-test-failure")
             ELSE Attributed(guard, tr)

-----------------------------------------------------------------------------
(* run: validation and digests. *)

Files == {m.file : m \in chosen.mutations}

Mutation == CHOOSE m \in chosen.mutations : m.id = chosen.ids[Len(done) + 1]

MutationInit ==
    /\ chosen \in MutationProfiles
    /\ at = "validate"
    /\ source = [f \in AllFiles |-> 0]
    /\ digests = [f \in AllFiles |-> -1]
    /\ visited = {}
    /\ copied = [f \in AllFiles |-> -1]
    /\ inFile = "original"
    /\ runs = << >>
    /\ mutantResult = Result("invalid", "workspace")
    /\ done = << >>
    /\ observed = << >>
    /\ report = FALSE
    /\ exit = "running"

\* run returns an error.
Fail ==
    /\ at' = "exit"
    /\ exit' = "error"
    /\ UNCHANGED << chosen, source, digests, visited, copied, inFile, runs, mutantResult,
                    done, observed, report >>

\* validateProfile.
ValidateMutations ==
    /\ at = "validate"
    /\ IF ValidProfile(chosen)
       THEN /\ at' = "digest"
            /\ UNCHANGED << chosen, source, digests, visited, copied, inFile, runs,
                            mutantResult, done, observed, report, exit >>
       ELSE Fail

\* A loop over the files ends after the last of them.
Visit(f, here, next) ==
    IF Files \subseteq visited \cup {f}
    THEN visited' = {} /\ at' = next
    ELSE visited' = visited \cup {f} /\ at' = here

\* mutationSourceDigests, one file.
DigestSource(f) ==
    /\ at = "digest"
    /\ digests' = [digests EXCEPT ![f] = source[f]]
    /\ Visit(f, "digest", "copy")
    /\ UNCHANGED << chosen, source, copied, inFile, runs, mutantResult, done, observed,
                    report, exit >>

-----------------------------------------------------------------------------
(* executeMutation. *)

\* The result of a mutation is final, and so is the workspace. What was in it and what
\* the guard did are kept for the properties, and only for the results they are about.
FinishMutation(r, history) ==
    /\ done' = Append(done, [id |-> Mutation.id, result |-> r,
                             versions |-> IF r.status = "invalid" THEN << >> ELSE copied,
                             runs |-> IF r.status = "invalid" THEN << >> ELSE history])
    /\ at' = IF Len(done) + 1 = Len(chosen.ids) THEN "verify" ELSE "copy"
    /\ visited' = {}
    /\ copied' = [f \in AllFiles |-> -1]
    /\ inFile' = "original"
    /\ runs' = << >>
    /\ mutantResult' = Result("invalid", "workspace")
    /\ UNCHANGED << chosen, source, digests, observed, report, exit >>

\* Only the workspace, its content, the runs and the result change.
InWorkspace ==
    UNCHANGED << chosen, source, digests, visited, copied, done, observed, report, exit >>

\* copyModule into a fresh workspace, one file.
CopyFile(f) ==
    /\ at = "copy"
    /\ copied' = [copied EXCEPT ![f] = source[f]]
    /\ Visit(f, "copy", "read")
    /\ UNCHANGED << chosen, source, digests, inFile, runs, mutantResult, done, observed,
                    report, exit >>

\* MkdirTemp, copyModule or ReadSource fails.
WorkspaceFails ==
    /\ at \in {"copy", "read"}
    /\ FinishMutation(Result("invalid", "workspace"), << >>)

\* ReadSource of the original.
ReadOriginal ==
    /\ at = "read"
    /\ at' = "preflight"
    /\ InWorkspace
    /\ UNCHANGED << inFile, runs, mutantResult >>

\* transformMutationSource: the anchor of the mutation occurs exactly once in this version
\* of its file, and is replaced.
Transforms(m, version) == version \in m.anchored

\* runControlGuards before the mutation, then the transformation.
Preflight(tr) ==
    /\ at = "preflight"
    /\ LET history == << [inFile |-> inFile, trace |-> tr] >>
       IN  IF ~Clean(tr, Mutation.guard)
           THEN FinishMutation(Result("invalid", "control"), history)
           ELSE IF ~Transforms(Mutation, copied[Mutation.file])
           THEN FinishMutation(Result("invalid", "anchor"), history)
           ELSE /\ at' = "write"
                /\ runs' = history
                /\ InWorkspace
                /\ UNCHANGED << inFile, mutantResult >>

\* WriteSource of the mutant. A failing write leaves anything behind.
WriteMutant ==
    /\ at = "write"
    /\ \/ /\ inFile' = "mutated"
          /\ at' = "compile"
          /\ UNCHANGED mutantResult
       \/ /\ inFile' \in {"original", "torn", "mutated"}
          /\ mutantResult' = Result("invalid", "transformation")
          /\ at' = "restore"
    /\ InWorkspace
    /\ UNCHANGED runs

\* runGoTestCompile: go test -c succeeds, fails or takes too long.
CompileOutcomes == {"none", "compile", "timeout"}

Compile ==
    /\ at = "compile"
    /\ \E reason \in CompileOutcomes :
         IF reason = "none"
         THEN at' = "guard" /\ UNCHANGED mutantResult
         ELSE at' = "restore" /\ mutantResult' = Result("invalid", reason)
    /\ InWorkspace
    /\ UNCHANGED << inFile, runs >>

\* validateRepeatedAttribution: the (sorted) records are those of the first kill.
Repeats(tr) == Len(runs) > 1 => Entries(runs[2].trace) = Entries(tr)

\* The loop ends with a run that is no kill, with a kill whose records differ from
\* the first one's, or after count kills. runs[1] is the preflight run.
GuardOutcome(tr) ==
    IF ~tr.decodes THEN Result("invalid", "malformed-attribution")
    ELSE IF Classify(Mutation.guard, tr).status = "killed" /\ ~Repeats(tr)
    THEN Result("invalid", "non-repeatable-attribution")
    ELSE Classify(Mutation.guard, tr)

RunGuard(tr) ==
    /\ at = "guard"
    /\ runs' = Append(runs, [inFile |-> inFile, trace |-> tr])
    /\ IF GuardOutcome(tr).status = "killed" /\ Len(runs) < chosen.count
       THEN UNCHANGED << at, mutantResult >>
       ELSE at' = "restore" /\ mutantResult' = GuardOutcome(tr)
    /\ InWorkspace
    /\ UNCHANGED inFile

\* The deferred restoration: write, read back and compare.
Restore ==
    /\ at = "restore"
    /\ \/ /\ inFile' = "original"
          /\ at' = "post"
          /\ InWorkspace
          /\ UNCHANGED << runs, mutantResult >>
       \/ FinishMutation(Result("invalid", "restoration"), runs)

\* What the control after the restoration makes of the result.
AfterControl(clean) ==
    IF ~clean /\ mutantResult.status \in {"killed", "survived"}
    THEN Result("invalid", "control") ELSE mutantResult

PostControl(tr) ==
    /\ at = "post"
    /\ FinishMutation(AfterControl(Clean(tr, Mutation.guard)),
              Append(runs, [inFile |-> inFile, trace |-> tr]))

-----------------------------------------------------------------------------
(* run: verification and evidence. *)

\* Reading a source for its digest fails.
ReadFails ==
    /\ at \in {"digest", "verify"}
    /\ Fail

AllKilled == \A i \in DOMAIN done : done[i].result.status = "killed"

\* Mutant: the loop returns after the first file that is as it was.
VerifyOneSource(f) ==
    /\ at = "verify"
    /\ IF source[f] # digests[f] THEN Fail
       ELSE /\ visited' = {}
            /\ at' = IF AllKilled THEN "emit" ELSE "failed"
            /\ UNCHANGED << chosen, source, digests, copied, inFile, runs, mutantResult, done,
                            observed, report, exit >>

\* verifyMutationSourceDigests, one file; after the last, evidence or failure.
VerifySource(f) ==
    /\ at = "verify"
    /\ IF source[f] # digests[f] THEN Fail
       ELSE /\ Visit(f, "verify", IF AllKilled THEN "emit" ELSE "failed")
            /\ UNCHANGED << chosen, source, digests, copied, inFile, runs, mutantResult, done,
                            observed, report, exit >>

\* One or more mutants survived or were invalid.
NotKilled ==
    /\ at = "failed"
    /\ Fail

\* The cases of a category, if every mutation has its result and the result is a kill.
mutationEvidenceCases(category) ==
    IF \A m \in chosen.mutations :
          \E i \in DOMAIN done : done[i].id = m.id /\ done[i].result.status = "killed"
    THEN {m.id : m \in {n \in chosen.mutations : category \in n.categories}}
    ELSE {}

\* emitMutationEvidence, the observation of one category.
EmitObservation ==
    /\ at = "emit"
    /\ Len(observed) < Len(Categories)
    /\ LET cases == mutationEvidenceCases(Categories[Len(observed) + 1])
       IN  \/ /\ cases # {}
              /\ observed' = Append(observed, cases)
              /\ UNCHANGED << chosen, at, source, digests, visited, copied, inFile, runs,
                              mutantResult, done, report, exit >>
           \/ Fail

\* EmitReportFromEnvironment, and run returns.
EmitReport ==
    /\ at = "emit"
    /\ Len(observed) = Len(Categories)
    /\ \/ /\ report' = TRUE
          /\ exit' = "ok"
          /\ at' = "exit"
          /\ UNCHANGED << chosen, source, digests, visited, copied, inFile, runs, mutantResult,
                          done, observed >>
       \/ Fail

\* Someone edits a mutated file of the module. An edit that is undone before the digests
\* are compared again is not seen by the code, and is left out.
EditSource(f) ==
    /\ at # "exit"
    /\ source[f] < MaxEdits
    /\ source' = [source EXCEPT ![f] = @ + 1]
    /\ UNCHANGED << chosen, at, digests, visited, copied, inFile, runs, mutantResult, done,
                    observed, report, exit >>

Returned ==
    /\ at = "exit"
    /\ UNCHANGED mutationVars

MutationNext ==
    \/ ValidateMutations
    \/ \E f \in Files \ visited : DigestSource(f) \/ CopyFile(f) \/ VerifySource(f)
    \/ ReadFails
    \/ WorkspaceFails
    \/ ReadOriginal
    \/ WriteMutant
    \/ Compile
    \/ \E tr \in GuardTraces : Preflight(tr) \/ RunGuard(tr) \/ PostControl(tr)
    \/ Restore
    \/ NotKilled
    \/ EmitObservation
    \/ EmitReport
    \/ \E f \in Files : EditSource(f)
    \/ Returned

MutationSpec == MutationInit /\ [][MutationNext]_mutationVars

-----------------------------------------------------------------------------
(* Properties. *)

\* The types of the variables; a guard is never run more often than asked.
MutationTypeOK ==
    /\ chosen \in MutationProfiles
    /\ at \in {"validate", "digest", "copy", "read", "preflight", "write", "compile",
               "guard", "restore", "post", "verify", "failed", "emit", "exit"}
    /\ source \in [AllFiles -> 0..MaxEdits]
    /\ digests \in [AllFiles -> -1..MaxEdits]
    /\ copied \in [AllFiles -> -1..MaxEdits]
    /\ visited \subseteq Files
    /\ inFile \in {"original", "torn", "mutated"}
    /\ runs # << >> => Len(runs) <= chosen.count + 1
    /\ \A i \in DOMAIN runs : runs[i].trace \in GuardTraces
    /\ mutantResult.status \in {"killed", "survived", "invalid"}
    /\ Len(done) <= Len(chosen.ids)
    /\ Len(observed) <= Len(Categories)
    /\ report \in BOOLEAN
    /\ exit \in {"running", "ok", "error"}

GuardOf(id) == (CHOOSE m \in chosen.mutations : m.id = id).guard

\* The guard reports no failure of any kind and ran every test it is to run.
Passes(tr, guard) ==
    /\ tr.decodes
    /\ ~tr.err /\ ~tr.timedOut /\ ~tr.panicked /\ ~tr.packageFailed
    /\ tr.failed = {} /\ tr.skipped = {} /\ tr.mismatches = << >>
    /\ tr.ran \cap Roots = guard.selected
    /\ GuardTests(guard) \subseteq tr.passedRight

\* The guard fails in the declared tests and their parents only, with every declared
\* mismatch, each once.
FailsAsDeclared(tr, guard) ==
    /\ tr.decodes /\ tr.err /\ ~tr.timedOut /\ ~tr.panicked
    /\ tr.failed \ {ParentOf[t] : t \in tr.failed \cap DOMAIN ParentOf}
          = {e.test : e \in guard.expected}
    /\ Entries(tr) = guard.expected
    /\ Len(tr.mismatches) = Cardinality(guard.expected)

\* The source between two runs of the controls: original, mutated, original.
Sandwiched(d) ==
    /\ Len(d.runs) > 2
    /\ \A i \in DOMAIN d.runs :
          d.runs[i].inFile = IF i \in {1, Len(d.runs)} THEN "original" ELSE "mutated"
    /\ Passes(d.runs[1].trace, GuardOf(d.id))
    /\ Passes(d.runs[Len(d.runs)].trace, GuardOf(d.id))

\* A mutation reported killed was killed by its mutation: the guard passed on the
\* original source, failed as declared on the mutant as often as the profile asks, and
\* passed again once the source was restored. This is what the nine properties
\* mutationEvidenceCases puts into the evidence of every mutant say.
KilledIsCausal ==
    \A i \in DOMAIN done : done[i].result.status = "killed" =>
        /\ Sandwiched(done[i])
        /\ Len(done[i].runs) = chosen.count + 2
        /\ \A j \in 2..(chosen.count + 1) :
              FailsAsDeclared(done[i].runs[j].trace, GuardOf(done[i].id))

\* A mutation reported as a survivor is one: a guard that passes on the original passed
\* on the mutant too, so that an error of the machinery is never blamed on the guard
\* (executeMutationInWorkspace).
SurvivorIsReal ==
    \A i \in DOMAIN done : done[i].result.status = "survived" =>
        /\ Sandwiched(done[i])
        /\ Passes(done[i].runs[Len(done[i].runs) - 1].trace, GuardOf(done[i].id))

\* A verdict on a mutation is about that mutation, whichever read, write, compilation or
\* guard run fails on the way (executeMutationInWorkspace).
VerdictsAreCausal == KilledIsCausal /\ SurvivorIsReal

\* Evidence is emitted only when every mutation of the profile was executed once and
\* killed, in a workspace that held every mutated file as it was when the gate started,
\* however the module is edited meanwhile (run and verifyMutationSourceDigests); every
\* observation names the mutations of its category, and there are some; and the command
\* succeeds only when the evidence of every category is out.
EvidenceOfOneSource ==
    observed # << >> \/ exit = "ok" =>
        /\ Len(done) = Len(chosen.ids)
        /\ \A i \in DOMAIN done :
              /\ done[i].id = chosen.ids[i]
              /\ done[i].result.status = "killed"
              /\ \A f \in Files : done[i].versions[f] = digests[f]
        /\ \A c \in DOMAIN observed :
              observed[c] = {id \in {done[i].id : i \in DOMAIN done} :
                               \E m \in chosen.mutations :
                                  m.id = id /\ Categories[c] \in m.categories}
        /\ exit = "ok" => Len(observed) = Len(Categories)
=============================================================================
