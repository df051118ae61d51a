----------------------- MODULE TargetedMutationProofs -----------------------
(***************************************************************************)
(* Proofs about TargetedMutation, for all profiles, guard traces,          *)
(* categories and edits.                                                   *)
(*                                                                         *)
(* The argument has three parts.  What a classification means (Classify    *)
(* and Clean against Passes and FailsAsDeclared) is arithmetic of finite   *)
(* sets: as many different declared mismatches as there are declared ones  *)
(* are all of them.  What the stage of a mutation says of its guard runs   *)
(* (Executing) turns into the verdict when the mutation ends.  And         *)
(* versions of a source only grow (Versions), so that the comparison of    *)
(* digests at the end is about every copy made since the start.            *)
(***************************************************************************)
EXTENDS TargetedMutation, FiniteSetTheorems, TLAPS

Contents == {"original", "torn", "mutated"}
Statuses == {"killed", "survived", "invalid"}
Reasons == {"none", "workspace", "control", "anchor", "transformation", "compile", "timeout",
            "panic", "missing-or-skipped-guard", "unexpected-test-failure",
            "malformed-attribution", "unattributed-guard-failure", "wrong-assertion",
            "wrong-expected", "wrong-actual", "non-repeatable-attribution", "restoration"}
Run == [inFile : Contents, trace : GuardTraces]
Ids == UNION {{m.id : m \in p.mutations} : p \in MutationProfiles}
Copy == [AllFiles -> -1..MaxEdits]
Done == [id : Ids, result : [status : Statuses, reason : Reasons],
         versions : Copy \cup {<< >>}, runs : Seq(Run)]

\* The stages of one mutation.
InMutation == {"copy", "read", "preflight", "write", "compile", "guard", "restore", "post"}

Types ==
    /\ MutationTypeOK
    /\ runs \in Seq(Run)
    /\ mutantResult \in [status : Statuses, reason : Reasons]
    /\ done \in Seq(Done)
    /\ \A i \in DOMAIN done : done[i].result.status # "invalid" => done[i].versions \in Copy
    /\ observed \in Seq(SUBSET Ids)

\* Where run is, by the mutations that are done.
Place ==
    /\ at \notin {"validate", "exit"} => ValidProfile(chosen)
    /\ at \in {"validate", "digest"} => done = << >>
    /\ at \in InMutation => Len(done) < Len(chosen.ids)
    /\ at \in {"verify", "failed", "emit"} => Len(done) = Len(chosen.ids)
    /\ at = "emit" => AllKilled
    /\ \A i \in DOMAIN done : done[i].id = chosen.ids[i]
    /\ at \notin {"emit", "exit"} => observed = << >>
    /\ at # "exit" => exit = "running"

\* The j-th guard run of the mutation under way killed the mutant as declared.
Kill(j) ==
    /\ runs[j].inFile = "mutated"
    /\ FailsAsDeclared(runs[j].trace, Mutation.guard)

\* What the stage of the mutation under way says of the workspace and the guard runs.
Executing ==
    /\ at \in {"validate", "digest", "copy", "read", "preflight", "post"} => inFile = "original"
    /\ at \in {"compile", "guard"} => inFile = "mutated"
    /\ at \in {"write", "compile", "guard", "restore", "post"} =>
         /\ Len(runs) >= 1
         /\ runs[1].inFile = "original"
         /\ Passes(runs[1].trace, Mutation.guard)
    /\ at \in {"write", "compile"} => Len(runs) = 1
    /\ at = "guard" => Len(runs) <= chosen.count /\ \A j \in 2..Len(runs) : Kill(j)
    /\ at \in {"restore", "post"} /\ mutantResult.status = "killed" =>
         Len(runs) = chosen.count + 1 /\ \A j \in 2..Len(runs) : Kill(j)
    /\ at \in {"restore", "post"} /\ mutantResult.status = "survived" =>
         /\ Len(runs) >= 2
         /\ \A j \in 2..Len(runs) : runs[j].inFile = "mutated"
         /\ Passes(runs[Len(runs)].trace, Mutation.guard)

\* Digests, copies and the source are ordered in time.
Between(f, version) == digests[f] <= version /\ version <= source[f]

Decided == {i \in DOMAIN done : done[i].result.status # "invalid"}

Versions ==
    /\ at \in {"validate", "digest"} => \A f \in visited : digests[f] <= source[f]
    /\ at \in InMutation \cup {"verify"} =>
         /\ \A f \in Files : digests[f] <= source[f]
         /\ \A i \in Decided, f \in Files : Between(f, done[i].versions[f])
    /\ at = "copy" => \A f \in visited : Between(f, copied[f])
    /\ at \in InMutation \ {"copy"} => \A f \in Files : Between(f, copied[f])
    /\ at = "verify" => \A i \in Decided, f \in visited : done[i].versions[f] = digests[f]
    /\ at = "emit" => \A i \in Decided, f \in Files : done[i].versions[f] = digests[f]

IInv == Types /\ Place /\ Executing /\ VerdictsAreCausal /\ Versions /\ EvidenceOfOneSource
-----------------------------------------------------------------------------
(* What the classifications mean. *)

LEMMA ResultTyped ==
    ASSUME NEW s \in Statuses, NEW reason \in Reasons
    PROVE  /\ Result(s, reason) \in [status : Statuses, reason : Reasons]
           /\ Result(s, reason).status = s
BY DEF Result

\* As many mismatches as are declared, each of them declared and none repeated, are all
\* the declared ones.
LEMMA AttributedExactly ==
    ASSUME NEW guard, NEW tr, IsList(tr.mismatches),
           \A i \in DOMAIN tr.mismatches : IsMismatch(tr.mismatches[i]),
           IsFiniteSet(guard.expected), \A e \in guard.expected : IsMismatch(e),
           Attributed(guard, tr).status = "killed"
    PROVE  /\ Entries(tr) = guard.expected
           /\ Len(tr.mismatches) = Cardinality(guard.expected)
<1> DEFINE ms == tr.mismatches
<1>1. Len(ms) = Cardinality(guard.expected)
  BY DEF Attributed, Result
<1>2. \A i \in DOMAIN ms : \E e \in guard.expected :
         e.test = ms[i].test /\ e.id = ms[i].id /\ e.expected = ms[i].expected /\ e.actual = ms[i].actual
  BY DEF Attributed, Result
<1>3. \A i \in DOMAIN ms : \A j \in 1..(i - 1) :
         ~(ms[j].test = ms[i].test /\ ms[j].id = ms[i].id)
  BY DEF Attributed, Result
<1>4. Len(ms) \in Nat /\ DOMAIN ms = 1..Len(ms) /\ ms = [i \in 1..Len(ms) |-> ms[i]]
  BY DEF IsList
<1>5. \A i \in 1..Len(ms) : ms[i] \in guard.expected
  BY <1>2, <1>4 DEF IsMismatch
<1>6. ms \in Injection(1..Len(ms), guard.expected)
  <2>1. ASSUME NEW i \in 1..Len(ms), NEW j \in 1..Len(ms), i < j PROVE ms[i] # ms[j]
    <3>1. i \in 1..(j - 1) /\ j \in DOMAIN ms
      BY <1>4, <2>1
    <3>2. ~(ms[i].test = ms[j].test /\ ms[i].id = ms[j].id)
      BY <1>3, <3>1
    <3> HIDE DEF ms
    <3> QED  BY <3>2
  <2>2. \A i, j \in 1..Len(ms) : ms[i] = ms[j] => i = j
    BY <2>1, <1>4
  <2>3. ms \in [1..Len(ms) -> guard.expected]
    BY <1>4, <1>5
  <2> QED  BY <2>2, <2>3 DEF Injection, IsInjective
<1>7. Cardinality(1..Len(ms)) = Len(ms)
  BY <1>4, FS_Interval
<1>8. ms \in Surjection(1..Len(ms), guard.expected)
  BY <1>1, <1>6, <1>7, FS_Injection
<1>9. \A e \in guard.expected : \E i \in 1..Len(ms) : ms[i] = e
  BY <1>8 DEF Surjection
<1> QED  BY <1>1, <1>4, <1>5, <1>9 DEF Entries

Sensible(guard) ==
    /\ IsFiniteSet(guard.expected)
    /\ \A e \in guard.expected : IsMismatch(e)
    /\ guard.selected \subseteq Roots

\* A run classified as a kill fails as the guard declares.
LEMMA KilledMeans ==
    ASSUME NEW guard, NEW tr \in GuardTraces, Sensible(guard), tr.decodes,
           Classify(guard, tr).status = "killed"
    PROVE  FailsAsDeclared(tr, guard)
<1>1. IsTrace(tr)
  BY TracesAssumption
<1>2. /\ tr.err /\ ~tr.timedOut /\ ~tr.panicked
      /\ Leaves(tr.failed) = {e.test : e \in guard.expected}
      /\ Attributed(guard, tr).status = "killed"
  BY DEF Classify, Result
<1>3. Entries(tr) = guard.expected /\ Len(tr.mismatches) = Cardinality(guard.expected)
  BY <1>1, <1>2, AttributedExactly DEF Sensible, IsTrace
<1>4. Leaves(tr.failed) = tr.failed \ {ParentOf[t] : t \in tr.failed \cap DOMAIN ParentOf}
  BY DEF Leaves
<1> QED  BY <1>2, <1>3, <1>4 DEF FailsAsDeclared

\* A run that is clean, or classified as a survival, passes.
LEMMA PassingMeans ==
    ASSUME NEW guard, NEW tr \in GuardTraces, Sensible(guard), tr.decodes,
           Clean(tr, guard) \/ Classify(guard, tr).status = "survived"
    PROVE  Passes(tr, guard)
<1>1. tr.ranRight \subseteq tr.ran
  BY TracesAssumption DEF IsTrace
<1>2. /\ ~tr.err /\ ~tr.timedOut /\ ~tr.panicked /\ ~tr.packageFailed
      /\ tr.failed = {} /\ tr.skipped = {} /\ tr.mismatches = << >>
      /\ RootCensus(tr, guard) = "exact"
      /\ GuardTests(guard) \subseteq tr.passedRight
  <2>1. CASE Clean(tr, guard)
    BY <2>1 DEF Clean
  <2>2. CASE Classify(guard, tr).status = "survived"
    <3>1. Attributed(guard, tr).status \in {"killed", "invalid"}
      BY DEF Attributed, Result
    <3>2. RootCensus(tr, guard) \in {"missing", "unexpected", "exact"}
      BY DEF RootCensus
    <3> QED  BY <2>2, <3>1, <3>2 DEF Classify, Result
  <2> QED  BY <2>1, <2>2
<1>3. tr.ran \cap Roots = guard.selected
  BY <1>1, <1>2 DEF RootCensus, Sensible
<1> QED  BY <1>2, <1>3 DEF Passes
-----------------------------------------------------------------------------
(* The mutation under way. *)

LEMMA IdsCounted ==
    ASSUME Types
    PROVE  /\ IsProfile(chosen) /\ chosen.count \in Int /\ Files \subseteq AllFiles
           /\ Len(chosen.ids) \in Nat /\ DOMAIN chosen.ids = 1..Len(chosen.ids)
<1>1. chosen \in MutationProfiles
  BY DEF Types, MutationTypeOK
<1>2. IsProfile(chosen)
  BY <1>1, ProfilesAssumption
<1>3. Files \subseteq AllFiles
  BY <1>1 DEF Files, AllFiles
<1> QED  BY <1>2, <1>3 DEF IsProfile, IsList

\* In an accepted profile the next mutation ID names a mutation, and its guard is one
\* whose expectations can be counted.
LEMMA MutationIs ==
    ASSUME Types, Place, at \in InMutation
    PROVE  /\ Mutation \in chosen.mutations
           /\ Mutation.id = chosen.ids[Len(done) + 1]
           /\ Mutation.id \in Ids
           /\ Sensible(Mutation.guard)
           /\ GuardOf(Mutation.id) = Mutation.guard
<1>1. chosen \in MutationProfiles /\ ValidProfile(chosen) /\ IsProfile(chosen)
  BY IdsCounted DEF Types, MutationTypeOK, Place, InMutation
<1>2. Len(done) \in Nat /\ Len(chosen.ids) \in Nat /\ DOMAIN chosen.ids = 1..Len(chosen.ids)
         /\ Len(done) < Len(chosen.ids)
  BY IdsCounted DEF Types, Place
<1>3. Len(done) + 1 \in DOMAIN chosen.ids
  BY <1>2
<1>4. \E m \in chosen.mutations : m.id = chosen.ids[Len(done) + 1]
  BY <1>1, <1>3 DEF ValidProfile
<1>5. Mutation \in chosen.mutations /\ Mutation.id = chosen.ids[Len(done) + 1]
  BY <1>4 DEF Mutation
<1>6. GuardOf(Mutation.id) = Mutation.guard
  BY <1>5 DEF GuardOf, Mutation
<1>7. Sensible(Mutation.guard)
  BY <1>1, <1>5 DEF Sensible, IsProfile, ValidProfile, ValidGuard
<1>8. Mutation.id \in Ids
  BY <1>1, <1>5 DEF Ids
<1> QED  BY <1>5, <1>6, <1>7, <1>8

\* What VerdictsAreCausal says of one executed mutation.
Causal(d) ==
    /\ d.result.status = "killed" =>
         /\ Sandwiched(d)
         /\ Len(d.runs) = chosen.count + 2
         /\ \A j \in 2..(chosen.count + 1) : FailsAsDeclared(d.runs[j].trace, GuardOf(d.id))
    /\ d.result.status = "survived" =>
         /\ Sandwiched(d)
         /\ Passes(d.runs[Len(d.runs) - 1].trace, GuardOf(d.id))

LEMMA VerdictsSplit == VerdictsAreCausal <=> \A i \in DOMAIN done : Causal(done[i])
BY DEF VerdictsAreCausal, KilledIsCausal, SurvivorIsReal, Causal

\* An error return takes nothing back and claims nothing.
LEMMA FailKeeps == ASSUME IInv, Fail PROVE IInv'
<1> USE DEF IInv, Fail
<1>1. Types'
  BY DEF Types, MutationTypeOK, Files
<1>2. Place'
  BY DEF Place, InMutation
<1>3. Executing'
  BY DEF Executing
<1>4. VerdictsAreCausal'
  BY DEF VerdictsAreCausal, KilledIsCausal, SurvivorIsReal, Sandwiched, GuardOf
<1>5. Versions'
  BY DEF Versions, InMutation
<1>6. EvidenceOfOneSource'
  <2>1. observed # << >> => EvidenceOfOneSource!2
    BY DEF EvidenceOfOneSource
  <2> QED  BY <2>1 DEF EvidenceOfOneSource, Files
<1> QED  BY <1>1, <1>2, <1>3, <1>4, <1>5, <1>6

\* A mutation ends with a verdict that is causal.
LEMMA FinishKeeps ==
    ASSUME IInv, at \in InMutation,
           NEW r \in [status : Statuses, reason : Reasons], NEW history \in Seq(Run),
           FinishMutation(r, history),
           r.status # "invalid" => at = "post",
           Causal([id |-> Mutation.id, result |-> r, versions |-> copied, runs |-> history])
    PROVE  IInv'
<1> DEFINE d == [id |-> Mutation.id, result |-> r,
                 versions |-> IF r.status = "invalid" THEN << >> ELSE copied,
                 runs |-> IF r.status = "invalid" THEN << >> ELSE history]
<1>0. Types /\ Place /\ Executing /\ VerdictsAreCausal /\ Versions /\ EvidenceOfOneSource
  BY DEF IInv
<1>1. /\ done' = Append(done, d) /\ visited' = {} /\ inFile' = "original" /\ runs' = << >>
      /\ at' = IF Len(done) + 1 = Len(chosen.ids) THEN "verify" ELSE "copy"
      /\ mutantResult' = Result("invalid", "workspace") /\ copied' = [f \in AllFiles |-> -1]
      /\ UNCHANGED << chosen, source, digests, observed, report, exit >>
  BY DEF FinishMutation
<1>2. /\ Mutation.id = chosen.ids[Len(done) + 1] /\ Mutation.id \in Ids
      /\ ValidProfile(chosen) /\ Len(chosen.ids) \in Nat
      /\ Len(done) < Len(chosen.ids)
      /\ observed = << >> /\ exit = "running"
  <2>1. ValidProfile(chosen) /\ Len(done) < Len(chosen.ids) /\ observed = << >> /\ exit = "running"
    BY <1>0 DEF Place, InMutation
  <2> QED  BY <1>0, <2>1, MutationIs, IdsCounted
<1>3. d \in Done
  <2>1. << >> \in Seq(Run) /\ copied \in Copy
    BY <1>0 DEF Types, MutationTypeOK, Copy
  <2> QED  BY <1>2, <2>1 DEF Done
<1>4. d.id = Mutation.id /\ d.result = r
        /\ (r.status # "invalid" => d.versions = copied /\ d.runs = history)
  OBVIOUS
<1> HIDE DEF d
<1>5. /\ done \in Seq(Done) /\ Len(done) \in Nat /\ done' \in Seq(Done)
      /\ Len(done') = Len(done) + 1 /\ DOMAIN done' = 1..(Len(done) + 1)
      /\ DOMAIN done = 1..Len(done)
      /\ \A i \in DOMAIN done : done'[i] = done[i]
      /\ done'[Len(done) + 1] = d
  BY <1>0, <1>1, <1>3 DEF Types
<1>6. Types'
  <2>1. mutantResult' \in [status : Statuses, reason : Reasons] /\ mutantResult'.status \in Statuses
    <3>1. "invalid" \in Statuses /\ "workspace" \in Reasons
      BY DEF Statuses, Reasons
    <3> QED  BY <1>1, <3>1, ResultTyped
  <2>2. << >> \in Seq(Run) /\ Len(done') <= Len(chosen.ids)
    BY <1>2, <1>5
  <2>3. copied' \in [AllFiles -> -1..MaxEdits]
    BY <1>1, ProfilesAssumption
  <2>4. \A i \in DOMAIN done' :
           done'[i].result.status # "invalid" => done'[i].versions \in Copy
    <3>1. copied \in Copy
      BY <1>0 DEF Types, MutationTypeOK, Copy
    <3> QED  BY <1>0, <1>4, <1>5, <3>1 DEF Types
  <2>5. chosen' \in MutationProfiles /\ at' \in {"verify", "copy"} /\ visited' = {} /\ inFile' = "original"
    BY <1>0, <1>1 DEF Types, MutationTypeOK
  <2>6. /\ UNCHANGED << source, digests, observed, report, exit >>
        /\ runs' = << >> /\ Files' = Files /\ chosen' = chosen
    BY <1>1 DEF Files
  <2>7. MutationTypeOK'
    BY <1>0, <2>1, <2>2, <2>3, <2>5, <2>6 DEF Types, MutationTypeOK, Statuses
  <2> QED  BY <1>0, <1>5, <2>1, <2>2, <2>4, <2>6, <2>7 DEF Types
<1>7. Place'
  BY <1>0, <1>1, <1>2, <1>4, <1>5 DEF Place, InMutation
<1>8. Executing'
  BY <1>1 DEF Executing
<1>9. VerdictsAreCausal'
  <2>1. Causal(d)
    BY <1>4 DEF Causal, Sandwiched
  <2>2. \A i \in DOMAIN done : Causal(done[i])
    BY <1>0, VerdictsSplit
  <2>3. \A x : Causal(x)' <=> Causal(x)
    BY <1>1 DEF Causal, Sandwiched, GuardOf
  <2>4. \A i \in DOMAIN done' : Causal(done'[i])
    BY <1>5, <2>1, <2>2
  <2> QED  BY <2>3, <2>4 DEF VerdictsAreCausal, KilledIsCausal, SurvivorIsReal, Causal
<1>10. Versions'
  <2>1. /\ \A f \in Files : digests[f] <= source[f]
        /\ \A i \in Decided, f \in Files : Between(f, done[i].versions[f])
    BY <1>0 DEF Versions
  <2>2. r.status # "invalid" => \A f \in Files : Between(f, d.versions[f])
    BY <1>0, <1>4 DEF Versions, InMutation
  <2>3. \A i \in Decided' : i \in Decided \/ (i = Len(done) + 1 /\ r.status # "invalid")
    BY <1>4, <1>5 DEF Decided
  <2>4. \A i \in Decided', f \in Files : Between(f, done'[i].versions[f])
    BY <1>5, <2>1, <2>2, <2>3 DEF Decided
  <2>5. Files' = Files /\ \A f, v : Between(f, v)' <=> Between(f, v)
    BY <1>1 DEF Files, Between
  <2> QED  BY <1>1, <2>1, <2>4, <2>5 DEF Versions, InMutation
<1>11. EvidenceOfOneSource'
  BY <1>1, <1>2 DEF EvidenceOfOneSource
<1> QED  BY <1>6, <1>7, <1>8, <1>9, <1>10, <1>11 DEF IInv

\* Within the workspace of a mutation nothing that outlives it changes.
LEMMA WorkspaceFrame ==
    ASSUME IInv, InWorkspace, at \in InMutation \ {"copy"}, at' \in InMutation \ {"copy"}
    PROVE  /\ Place' /\ VerdictsAreCausal' /\ Versions' /\ EvidenceOfOneSource'
           /\ Mutation' = Mutation
<1> USE DEF IInv, InWorkspace
<1>1. Place'
  BY DEF Place, InMutation
<1>2. VerdictsAreCausal'
  BY DEF VerdictsAreCausal, KilledIsCausal, SurvivorIsReal, Sandwiched, GuardOf
<1>3. Versions'
  BY DEF Versions, InMutation, Between, Decided, Files
<1>4. EvidenceOfOneSource'
  BY DEF EvidenceOfOneSource, Place, InMutation
<1>5. Mutation' = Mutation
  BY DEF Mutation
<1> QED  BY <1>1, <1>2, <1>3, <1>4, <1>5
-----------------------------------------------------------------------------
(* The steps of run around the mutations. *)

LEMMA ValidateKeeps == ASSUME IInv, ValidateMutations PROVE IInv'
<1>1. CASE ~ValidProfile(chosen)
  BY <1>1, FailKeeps DEF ValidateMutations
<1>2. CASE ValidProfile(chosen)
  <2> USE DEF IInv
  <2>1. /\ at = "validate" /\ at' = "digest"
        /\ UNCHANGED << chosen, source, digests, visited, copied, inFile, runs, mutantResult,
                        done, observed, report, exit >>
    BY <1>2 DEF ValidateMutations
  <2>2. Types'
    BY <2>1 DEF Types, MutationTypeOK, Files
  <2>3. Place'
    BY <1>2, <2>1 DEF Place, InMutation
  <2>4. Executing'
    BY <2>1 DEF Executing
  <2>5. VerdictsAreCausal'
    BY <2>1 DEF VerdictsAreCausal, KilledIsCausal, SurvivorIsReal, Sandwiched, GuardOf
  <2>6. Versions'
    BY <2>1 DEF Versions, InMutation
  <2>7. EvidenceOfOneSource'
    BY <2>1 DEF EvidenceOfOneSource, Place
  <2> QED  BY <2>2, <2>3, <2>4, <2>5, <2>6, <2>7
<1> QED  BY <1>1, <1>2

\* The file the loop is at is one of the module.
LEMMA FileTyped ==
    ASSUME IInv, NEW f \in Files
    PROVE  /\ f \in AllFiles
           /\ source \in [AllFiles -> Int] /\ source[f] \in 0..MaxEdits
           /\ digests \in [AllFiles -> Int] /\ copied \in [AllFiles -> Int]
           /\ MaxEdits \in Nat
<1>1. Files \subseteq AllFiles /\ MaxEdits \in Nat
  BY IdsCounted, ProfilesAssumption DEF IInv
<1> QED  BY <1>1 DEF IInv, Types, MutationTypeOK

LEMMA DigestKeeps == ASSUME IInv, NEW f \in Files \ visited, DigestSource(f) PROVE IInv'
<1>0. /\ at = "digest" /\ digests' = [digests EXCEPT ![f] = source[f]]
      /\ UNCHANGED << chosen, source, copied, inFile, runs, mutantResult, done, observed,
                      report, exit >>
      /\ IF Files \subseteq visited \cup {f} THEN visited' = {} /\ at' = "copy"
         ELSE visited' = visited \cup {f} /\ at' = "digest"
  BY DEF DigestSource, Visit
<1>1. /\ Types /\ Place /\ Executing /\ VerdictsAreCausal /\ Versions
      /\ done = << >> /\ observed = << >> /\ exit = "running" /\ ValidProfile(chosen)
  BY <1>0 DEF IInv, Place
<1>2. Files' = Files
  BY <1>0 DEF Files
<1>3. /\ f \in AllFiles /\ digests \in [AllFiles -> Int] /\ source[f] \in 0..MaxEdits
      /\ MaxEdits \in Nat
  BY FileTyped
<1>4. Types'
  <2>1. digests' \in [AllFiles -> -1..MaxEdits]
    BY <1>0, <1>1, <1>3 DEF Types, MutationTypeOK
  <2>2. visited' \subseteq Files
    BY <1>0, <1>1 DEF Types, MutationTypeOK
  <2> QED  BY <1>0, <1>1, <1>2, <2>1, <2>2 DEF Types, MutationTypeOK
<1>5. Place'
  <2>1. 0 < Len(chosen.ids)
    <3>1. PICK m \in chosen.mutations : m.file = f
      BY DEF Files
    <3>2. \E i \in DOMAIN chosen.ids : chosen.ids[i] = m.id
      BY <1>1 DEF ValidProfile
    <3> QED  BY <1>1, <3>2, IdsCounted
  <2>2. Len(done) = 0
    BY <1>1
  <2> QED  BY <1>0, <1>1, <2>1, <2>2 DEF Place, InMutation
<1>6. Executing'
  BY <1>0, <1>1 DEF Executing
<1>7. VerdictsAreCausal'
  BY <1>0, <1>1 DEF VerdictsAreCausal, KilledIsCausal, SurvivorIsReal
<1>8. Versions'
  <2>1. \A g \in visited \cup {f} : digests'[g] <= source[g]
    <3>1. digests'[f] = source[f] /\ source[f] \in Int
      BY <1>0, <1>3
    <3>2. \A g \in visited : digests'[g] = digests[g] /\ digests[g] <= source[g]
      BY <1>0, <1>1, <1>3 DEF Versions
    <3> QED  BY <3>1, <3>2
  <2>2. Decided' = {}
    BY <1>0, <1>1 DEF Decided
  <2>3. visited' \subseteq visited \cup {f}
    BY <1>0
  <2>4. at' = "copy" => visited' = {} /\ \A g \in Files : digests'[g] <= source[g]
    BY <1>0, <2>1
  <2>5. at' \in {"digest", "copy"} /\ source' = source
    BY <1>0
  <2> QED  BY <1>2, <2>1, <2>2, <2>3, <2>4, <2>5 DEF Versions, InMutation
<1>9. EvidenceOfOneSource'
  BY <1>0, <1>1 DEF EvidenceOfOneSource
<1> QED  BY <1>4, <1>5, <1>6, <1>7, <1>8, <1>9 DEF IInv

\* A copy is made of a source that can only be newer than its digest.
LEMMA CopyKeeps == ASSUME IInv, NEW f \in Files \ visited, CopyFile(f) PROVE IInv'
<1>0. /\ at = "copy" /\ copied' = [copied EXCEPT ![f] = source[f]]
      /\ UNCHANGED << chosen, source, digests, inFile, runs, mutantResult, done, observed,
                      report, exit >>
      /\ IF Files \subseteq visited \cup {f} THEN visited' = {} /\ at' = "read"
         ELSE visited' = visited \cup {f} /\ at' = "copy"
  BY DEF CopyFile, Visit
<1>1. /\ Types /\ Place /\ Executing /\ VerdictsAreCausal /\ Versions
      /\ observed = << >> /\ exit = "running"
  BY <1>0 DEF IInv, Place
<1>2. Files' = Files /\ Decided' = Decided /\ \A g, v : Between(g, v)' <=> Between(g, v)
  BY <1>0 DEF Files, Decided, Between
<1>3. /\ f \in AllFiles /\ copied \in [AllFiles -> Int] /\ source[f] \in 0..MaxEdits
      /\ MaxEdits \in Nat
  BY FileTyped
<1>4. Types'
  <2>1. copied' \in [AllFiles -> -1..MaxEdits]
    BY <1>0, <1>1, <1>3 DEF Types, MutationTypeOK
  <2>2. visited' \subseteq Files
    BY <1>0, <1>1 DEF Types, MutationTypeOK
  <2> QED  BY <1>0, <1>1, <1>2, <2>1, <2>2 DEF Types, MutationTypeOK
<1>5. Place'
  BY <1>0, <1>1 DEF Place, InMutation
<1>6. Executing'
  BY <1>0, <1>1 DEF Executing
<1>7. VerdictsAreCausal'
  BY <1>0, <1>1 DEF VerdictsAreCausal, KilledIsCausal, SurvivorIsReal, Sandwiched, GuardOf
<1>8. Versions'
  <2>1. /\ \A g \in Files : digests[g] <= source[g]
        /\ \A i \in Decided, g \in Files : Between(g, done[i].versions[g])
        /\ \A g \in visited : Between(g, copied[g])
    BY <1>0, <1>1 DEF Versions, InMutation
  <2>2. copied'[f] = source[f] /\ \A g \in visited : copied'[g] = copied[g]
    BY <1>0, <1>3
  <2>3. \A g \in visited \cup {f} : Between(g, copied'[g])
    BY <1>3, <2>1, <2>2 DEF Between
  <2>4. CASE Files \subseteq visited \cup {f}
    BY <1>0, <1>2, <2>1, <2>3, <2>4 DEF Versions, InMutation
  <2>5. CASE ~(Files \subseteq visited \cup {f})
    BY <1>0, <1>2, <2>1, <2>3, <2>5 DEF Versions, InMutation
  <2> QED  BY <2>4, <2>5
<1>9. EvidenceOfOneSource'
  BY <1>0, <1>1 DEF EvidenceOfOneSource
<1> QED  BY <1>4, <1>5, <1>6, <1>7, <1>8, <1>9 DEF IInv

\* A source that is as it was at the start was so at every copy in between.
LEMMA VerifyKeeps == ASSUME IInv, NEW f \in Files \ visited, VerifySource(f) PROVE IInv'
<1>1. CASE source[f] # digests[f]
  BY <1>1, FailKeeps DEF VerifySource
<1>2. CASE source[f] = digests[f]
  <2>0. /\ at = "verify"
        /\ UNCHANGED << chosen, source, digests, copied, inFile, runs, mutantResult, done,
                        observed, report, exit >>
        /\ IF Files \subseteq visited \cup {f}
           THEN visited' = {} /\ at' = IF AllKilled THEN "emit" ELSE "failed"
           ELSE visited' = visited \cup {f} /\ at' = "verify"
    BY <1>2 DEF VerifySource, Visit
  <2>1. /\ Types /\ Place /\ Executing /\ VerdictsAreCausal /\ Versions
        /\ observed = << >> /\ exit = "running"
    BY <2>0 DEF IInv, Place
  <2>2. /\ Files' = Files /\ Decided' = Decided /\ AllKilled' = AllKilled
        /\ \A g, v : Between(g, v)' <=> Between(g, v)
    BY <2>0 DEF Files, Decided, Between, AllKilled
  <2>3. Types'
    <3>1. visited' \subseteq Files
      BY <2>0, <2>1 DEF Types, MutationTypeOK
    <3> QED  BY <2>0, <2>1, <2>2, <3>1 DEF Types, MutationTypeOK
  <2>4. Place'
    BY <2>0, <2>1, <2>2 DEF Place, InMutation
  <2>5. Executing'
    BY <2>0, <2>1 DEF Executing
  <2>6. VerdictsAreCausal'
    BY <2>0, <2>1 DEF VerdictsAreCausal, KilledIsCausal, SurvivorIsReal, Sandwiched, GuardOf
  <2>7. Versions'
    <3>1. /\ \A g \in Files : digests[g] <= source[g]
          /\ \A i \in Decided, g \in Files : Between(g, done[i].versions[g])
          /\ \A i \in Decided, g \in visited : done[i].versions[g] = digests[g]
      BY <2>0, <2>1 DEF Versions, InMutation
    <3>2. \A i \in Decided : done[i].versions[f] = digests[f]
      <4> SUFFICES ASSUME NEW i \in Decided PROVE done[i].versions[f] = digests[f]
        OBVIOUS
      <4>1. Between(f, done[i].versions[f]) /\ source[f] \in Int
        BY <3>1, FileTyped
      <4>2. done[i].versions \in Copy
        BY <2>1 DEF Types, Decided
      <4>3. done[i].versions[f] \in Int
        BY <4>2, FileTyped DEF Copy
      <4> QED  BY <1>2, <4>1, <4>3 DEF Between
    <3>3. \A i \in Decided, g \in visited \cup {f} : done[i].versions[g] = digests[g]
      BY <3>1, <3>2
    <3>4. CASE Files \subseteq visited \cup {f}
      BY <2>0, <2>2, <3>1, <3>3, <3>4 DEF Versions, InMutation
    <3>5. CASE ~(Files \subseteq visited \cup {f})
      BY <2>0, <2>2, <3>1, <3>3, <3>5 DEF Versions, InMutation
    <3> QED  BY <3>4, <3>5
  <2>8. EvidenceOfOneSource'
    BY <2>0, <2>1 DEF EvidenceOfOneSource
  <2> QED  BY <2>3, <2>4, <2>5, <2>6, <2>7, <2>8 DEF IInv
<1> QED  BY <1>1, <1>2

\* An edit makes a source newer than anything taken from it.
LEMMA EditKeeps == ASSUME IInv, NEW f \in Files, EditSource(f) PROVE IInv'
<1>0. /\ at # "exit" /\ source[f] < MaxEdits /\ source' = [source EXCEPT ![f] = @ + 1]
      /\ UNCHANGED << chosen, at, digests, visited, copied, inFile, runs, mutantResult, done,
                      observed, report, exit >>
  BY DEF EditSource
<1>1. Types /\ Place /\ Executing /\ VerdictsAreCausal /\ Versions /\ EvidenceOfOneSource
  BY DEF IInv
<1>2. /\ f \in AllFiles /\ source[f] \in 0..MaxEdits /\ MaxEdits \in Nat
      /\ source \in [AllFiles -> Int] /\ Files \subseteq AllFiles
  BY FileTyped, IdsCounted DEF IInv
<1>3. Files' = Files /\ Decided' = Decided
  BY <1>0 DEF Files, Decided
<1>4. Types'
  <2>1. source' \in [AllFiles -> 0..MaxEdits]
    BY <1>0, <1>1, <1>2 DEF Types, MutationTypeOK
  <2> QED  BY <1>0, <1>1, <1>3, <2>1 DEF Types, MutationTypeOK
<1>5. Place'
  BY <1>0, <1>1 DEF Place, InMutation, AllKilled
<1>6. Executing'
  BY <1>0, <1>1 DEF Executing, Kill, Mutation
<1>7. VerdictsAreCausal'
  BY <1>0, <1>1 DEF VerdictsAreCausal, KilledIsCausal, SurvivorIsReal, Sandwiched, GuardOf
<1>8. Versions'
  <2>1. \A g \in Files : source[g] \in Int /\ source'[g] \in Int /\ source[g] <= source'[g]
    BY <1>0, <1>2
  <2>2. \A g \in Files : digests[g] \in Int /\ copied[g] \in Int
    BY <1>1, <1>2 DEF Types, MutationTypeOK
  <2>3. \A g \in Files : digests[g] <= source[g] => digests'[g] <= source'[g]
    BY <1>0, <2>1, <2>2
  <2>4. \A g \in Files : Between(g, copied[g]) => Between(g, copied[g])'
    BY <1>0, <2>1, <2>2 DEF Between
  <2>5. ASSUME NEW i \in Decided, NEW g \in Files, Between(g, done[i].versions[g])
        PROVE  digests'[g] <= done'[i].versions[g] /\ done'[i].versions[g] <= source'[g]
    <3>1. done[i].versions \in Copy
      BY <1>1 DEF Types, Decided
    <3>2. done[i].versions[g] \in Int
      BY <1>2, <3>1 DEF Copy
    <3> QED  BY <1>0, <2>1, <2>2, <2>5, <3>2 DEF Between
  <2>6. visited \subseteq Files
    BY <1>1 DEF Types, MutationTypeOK
  <2> QED  BY <1>0, <1>1, <1>3, <2>3, <2>4, <2>5, <2>6 DEF Versions, InMutation, Between
<1>9. EvidenceOfOneSource'
  BY <1>0, <1>1, <1>3 DEF EvidenceOfOneSource
<1> QED  BY <1>4, <1>5, <1>6, <1>7, <1>8, <1>9 DEF IInv

\* What holds once the evidence may be emitted.
LEMMA EmissionIsOfOneSource ==
    ASSUME IInv, at = "emit"
    PROVE  /\ Len(done) = Len(chosen.ids)
           /\ \A i \in DOMAIN done :
                 /\ done[i].id = chosen.ids[i]
                 /\ done[i].result.status = "killed"
                 /\ \A f \in Files : done[i].versions[f] = digests[f]
<1>1. AllKilled /\ Len(done) = Len(chosen.ids) /\ \A i \in DOMAIN done : done[i].id = chosen.ids[i]
  BY DEF IInv, Place
<1>2. Decided = DOMAIN done
  BY <1>1 DEF Decided, AllKilled
<1>3. \A i \in DOMAIN done, f \in Files : done[i].versions[f] = digests[f]
  BY <1>2 DEF IInv, Versions
<1> QED  BY <1>1, <1>3 DEF AllKilled

\* The observation of a category names its mutations, all of which are done.
CaseSet(c) ==
    {id \in {done[i].id : i \in DOMAIN done} :
        \E m \in chosen.mutations : m.id = id /\ Categories[c] \in m.categories}

LEMMA ObservationKeeps == ASSUME IInv, EmitObservation PROVE IInv'
<1> DEFINE c == Len(observed) + 1
           cases == mutationEvidenceCases(Categories[c])
<1>1. CASE Fail
  BY <1>1, FailKeeps
<1>2. CASE ~Fail
  <2>0. /\ at = "emit" /\ Len(observed) < Len(Categories) /\ cases # {}
        /\ observed' = Append(observed, cases)
        /\ UNCHANGED << chosen, at, source, digests, visited, copied, inFile, runs,
                        mutantResult, done, report, exit >>
    BY <1>2 DEF EmitObservation
  <2>1. /\ Types /\ Place /\ Executing /\ VerdictsAreCausal /\ Versions
        /\ EvidenceOfOneSource /\ exit = "running"
    BY <2>0 DEF IInv, Place
  <2>2. Files' = Files /\ Decided' = Decided /\ AllKilled' = AllKilled
    BY <2>0 DEF Files, Decided, AllKilled
  <2>3. /\ \A m \in chosen.mutations : \E i \in DOMAIN done : done[i].id = m.id
        /\ cases = {m.id : m \in {n \in chosen.mutations : Categories[c] \in n.categories}}
    BY <2>0 DEF mutationEvidenceCases
  <2>4. cases = CaseSet(c)
    BY <2>3 DEF CaseSet
  <2>5. cases \in SUBSET Ids
    BY <2>1, <2>3 DEF Ids, Types, MutationTypeOK
  <2> HIDE DEF cases
  <2>6. /\ observed \in Seq(SUBSET Ids) /\ Len(observed) \in Nat
        /\ observed' \in Seq(SUBSET Ids) /\ Len(observed') = Len(observed) + 1
        /\ DOMAIN observed = 1..Len(observed) /\ DOMAIN observed' = 1..c
        /\ observed'[c] = cases /\ \A k \in DOMAIN observed : observed'[k] = observed[k]
    BY <2>0, <2>1, <2>5 DEF Types
  <2>7. Len(observed') <= Len(Categories)
    BY <2>0, <2>6, ProfilesAssumption DEF IsList
  <2>8. Types'
    BY <2>0, <2>1, <2>2, <2>6, <2>7 DEF Types, MutationTypeOK
  <2>9. Place'
    BY <2>0, <2>1, <2>2 DEF Place, InMutation
  <2>10. Executing'
    BY <2>0, <2>1 DEF Executing
  <2>11. VerdictsAreCausal'
    BY <2>0, <2>1 DEF VerdictsAreCausal, KilledIsCausal, SurvivorIsReal, Sandwiched, GuardOf
  <2>12. Versions'
    BY <2>0, <2>1, <2>2 DEF Versions, InMutation
  <2>13. EvidenceOfOneSource'
    <3>1. \A k \in DOMAIN observed' : observed'[k] = CaseSet(k)
      <4>1. \A k \in DOMAIN observed : observed[k] = CaseSet(k)
        <5>1. CASE observed = << >>
          BY <5>1
        <5>2. CASE observed # << >>
          BY <2>1, <5>2 DEF EvidenceOfOneSource, CaseSet
        <5> QED  BY <5>1, <5>2
      <4> QED  BY <2>4, <2>6, <4>1
    <3>2. \A k : CaseSet(k)' = CaseSet(k)
      BY <2>0 DEF CaseSet
    <3>3. /\ Len(done) = Len(chosen.ids)
          /\ \A i \in DOMAIN done :
                /\ done[i].id = chosen.ids[i]
                /\ done[i].result.status = "killed"
                /\ \A f \in Files : done[i].versions[f] = digests[f]
      BY <2>0, EmissionIsOfOneSource
    <3> QED  BY <2>0, <2>1, <2>2, <3>1, <3>2, <3>3 DEF EvidenceOfOneSource, CaseSet
  <2> QED  BY <2>8, <2>9, <2>10, <2>11, <2>12, <2>13 DEF IInv
<1> QED  BY <1>1, <1>2

LEMMA ReportKeeps == ASSUME IInv, EmitReport PROVE IInv'
<1>1. CASE Fail
  BY <1>1, FailKeeps
<1>2. CASE ~Fail
  <2>0. /\ at = "emit" /\ Len(observed) = Len(Categories) /\ report' = TRUE
        /\ exit' = "ok" /\ at' = "exit"
        /\ UNCHANGED << chosen, source, digests, visited, copied, inFile, runs, mutantResult,
                        done, observed >>
    BY <1>2 DEF EmitReport
  <2>1. Types /\ Place /\ Executing /\ VerdictsAreCausal /\ Versions /\ EvidenceOfOneSource
    BY DEF IInv
  <2>2. Files' = Files
    BY <2>0 DEF Files
  <2>3. Types'
    BY <2>0, <2>1, <2>2 DEF Types, MutationTypeOK
  <2>4. Place'
    BY <2>0, <2>1 DEF Place, InMutation
  <2>5. Executing'
    BY <2>0 DEF Executing
  <2>6. VerdictsAreCausal'
    BY <2>0, <2>1 DEF VerdictsAreCausal, KilledIsCausal, SurvivorIsReal, Sandwiched, GuardOf
  <2>7. Versions'
    BY <2>0 DEF Versions, InMutation
  <2>8. EvidenceOfOneSource'
    <3>1. \A k \in DOMAIN observed : observed[k] = CaseSet(k)
      <4>1. CASE observed = << >>
        BY <4>1
      <4>2. CASE observed # << >>
        BY <2>1, <4>2 DEF EvidenceOfOneSource, CaseSet
      <4> QED  BY <4>1, <4>2
    <3>2. /\ Len(done) = Len(chosen.ids)
          /\ \A i \in DOMAIN done :
                /\ done[i].id = chosen.ids[i]
                /\ done[i].result.status = "killed"
                /\ \A f \in Files : done[i].versions[f] = digests[f]
      BY <2>0, EmissionIsOfOneSource
    <3> QED  BY <2>0, <2>2, <3>1, <3>2 DEF EvidenceOfOneSource, CaseSet
  <2> QED  BY <2>3, <2>4, <2>5, <2>6, <2>7, <2>8 DEF IInv
<1> QED  BY <1>1, <1>2
-----------------------------------------------------------------------------
(* The steps of a mutation. *)

\* An invalid result ends a mutation and claims nothing of its guard.
LEMMA InvalidKeeps ==
    ASSUME IInv, at \in InMutation, NEW reason \in Reasons, NEW history \in Seq(Run),
           FinishMutation(Result("invalid", reason), history)
    PROVE  IInv'
<1> DEFINE r == Result("invalid", reason)
<1>1. r \in [status : Statuses, reason : Reasons] /\ r.status = "invalid"
  BY ResultTyped DEF Statuses
<1> HIDE DEF r
<1>2. Causal([id |-> Mutation.id, result |-> r, versions |-> copied, runs |-> history])
  BY <1>1 DEF Causal
<1>3. FinishMutation(r, history)
  BY DEF r
<1> QED  BY <1>1, <1>2, <1>3, FinishKeeps

\* A guard run of the mutation under way is one of a trace, on some content.
LEMMA RunTyped ==
    ASSUME IInv, NEW tr \in GuardTraces
    PROVE  /\ [inFile |-> inFile, trace |-> tr] \in Run
           /\ << [inFile |-> inFile, trace |-> tr] >> \in Seq(Run)
           /\ runs \in Seq(Run)
           /\ Append(runs, [inFile |-> inFile, trace |-> tr]) \in Seq(Run)
<1>1. inFile \in Contents /\ runs \in Seq(Run)
  BY DEF IInv, Types, MutationTypeOK, Contents
<1>2. [inFile |-> inFile, trace |-> tr] \in Run
  BY <1>1 DEF Run
<1> QED  BY <1>1, <1>2

\* In a mutation every type but those of the stage, the content, the runs and the result
\* is kept.
LEMMA WorkspaceTypes ==
    ASSUME IInv, InWorkspace, at' \in InMutation,
           inFile' \in Contents, runs' \in Seq(Run), Len(runs') <= chosen.count + 1 \/ runs' = << >>,
           mutantResult' \in [status : Statuses, reason : Reasons]
    PROVE  Types'
<1>1. \A i \in DOMAIN runs' : runs'[i].trace \in GuardTraces
  <2>1. \A i \in DOMAIN runs' : runs'[i] \in Run
    OBVIOUS
  <2> QED  BY <2>1 DEF Run
<1>2. mutantResult'.status \in {"killed", "survived", "invalid"}
  BY DEF Statuses
<1> QED  BY <1>1, <1>2 DEF IInv, InWorkspace, Types, MutationTypeOK, InMutation, Contents, Files

LEMMA ReadKeeps == ASSUME IInv, ReadOriginal PROVE IInv'
<1>0. at = "read" /\ at' = "preflight" /\ InWorkspace /\ UNCHANGED << inFile, runs, mutantResult >>
  BY DEF ReadOriginal
<1>1. Types'
  BY <1>0 DEF IInv, InWorkspace, Types, MutationTypeOK, Files
<1>2. Executing'
  BY <1>0 DEF IInv, Executing
<1> QED  BY <1>0, <1>1, <1>2, WorkspaceFrame DEF IInv, InMutation

\* The mutation is attempted only when its guard passes on the original.
LEMMA PreflightKeeps == ASSUME IInv, NEW tr \in GuardTraces, Preflight(tr) PROVE IInv'
<1> DEFINE run == [inFile |-> inFile, trace |-> tr]
<1>0. at = "preflight" /\ at \in InMutation /\ Types /\ Place /\ inFile = "original"
  BY DEF Preflight, InMutation, IInv, Executing
<1>1. CASE ~Clean(tr, Mutation.guard)
  BY <1>0, <1>1, RunTyped, InvalidKeeps DEF Preflight, Reasons
<1>2. CASE Clean(tr, Mutation.guard) /\ ~Transforms(Mutation, copied[Mutation.file])
  BY <1>0, <1>2, RunTyped, InvalidKeeps DEF Preflight, Reasons
<1>3. CASE Clean(tr, Mutation.guard) /\ Transforms(Mutation, copied[Mutation.file])
  <2>0. at' = "write" /\ runs' = << run >> /\ InWorkspace /\ UNCHANGED << inFile, mutantResult >>
    BY <1>3 DEF Preflight
  <2>1. << run >> \in Seq(Run) /\ Len(<< run >>) = 1 /\ << run >>[1] = run
    BY RunTyped
  <2>2. run.inFile = "original" /\ run.trace = tr
    BY <1>0
  <2> HIDE DEF run
  <2>3. Types'
    <3>1. chosen.count >= 2 /\ chosen.count \in Int
      BY <1>0, IdsCounted DEF Place, ValidProfile
    <3>2. inFile' \in Contents /\ mutantResult' \in [status : Statuses, reason : Reasons]
      BY <1>0, <2>0 DEF Types, Contents
    <3> QED  BY <2>0, <2>1, <3>1, <3>2, WorkspaceTypes DEF InMutation
  <2>4. /\ Place' /\ VerdictsAreCausal' /\ Versions' /\ EvidenceOfOneSource'
        /\ Mutation' = Mutation
    BY <1>0, <2>0, WorkspaceFrame DEF InMutation
  <2>5. Passes(tr, Mutation.guard)
    BY <1>0, <1>3, MutationIs, PassingMeans DEF Clean
  <2>6. Executing'
    BY <2>0, <2>1, <2>2, <2>4, <2>5 DEF Executing
  <2> QED  BY <2>3, <2>4, <2>6 DEF IInv
<1> QED  BY <1>1, <1>2, <1>3

LEMMA WriteKeeps == ASSUME IInv, WriteMutant PROVE IInv'
<1>0. /\ at = "write" /\ InWorkspace /\ UNCHANGED runs
      /\ \/ inFile' = "mutated" /\ at' = "compile" /\ UNCHANGED mutantResult
         \/ /\ inFile' \in {"original", "torn", "mutated"} /\ at' = "restore"
            /\ mutantResult' = Result("invalid", "transformation")
  BY DEF WriteMutant
<1>1. Types /\ Executing
  BY DEF IInv
<1>2. /\ "invalid" \in Statuses /\ "transformation" \in Reasons
  BY DEF Statuses, Reasons
<1>3. /\ at' \in InMutation \ {"copy"} /\ at \in InMutation \ {"copy"}
      /\ inFile' \in Contents /\ runs' \in Seq(Run)
      /\ Len(runs') <= chosen.count + 1 \/ runs' = << >>
      /\ mutantResult' \in [status : Statuses, reason : Reasons]
  BY <1>0, <1>1, <1>2, ResultTyped DEF Types, MutationTypeOK, InMutation, Contents
<1>4. Types'
  BY <1>0, <1>3, WorkspaceTypes
<1>5. /\ Place' /\ VerdictsAreCausal' /\ Versions' /\ EvidenceOfOneSource'
      /\ Mutation' = Mutation
  BY <1>0, <1>3, WorkspaceFrame
<1>6. at' = "restore" => mutantResult'.status = "invalid"
  BY <1>0, <1>2, ResultTyped
<1>7. Executing'
  BY <1>0, <1>1, <1>5, <1>6 DEF Executing
<1> QED  BY <1>4, <1>5, <1>7 DEF IInv

LEMMA CompileKeeps == ASSUME IInv, Compile PROVE IInv'
<1>0. PICK reason \in CompileOutcomes :
        /\ at = "compile" /\ InWorkspace /\ UNCHANGED << inFile, runs >>
        /\ IF reason = "none" THEN at' = "guard" /\ UNCHANGED mutantResult
           ELSE at' = "restore" /\ mutantResult' = Result("invalid", reason)
  BY DEF Compile
<1>1. Types /\ Executing /\ Place
  BY DEF IInv
<1>2. /\ "invalid" \in Statuses /\ reason \in Reasons
  BY DEF Statuses, Reasons, CompileOutcomes
<1>3. /\ at' \in InMutation \ {"copy"} /\ at \in InMutation \ {"copy"}
      /\ inFile' \in Contents /\ runs' \in Seq(Run)
      /\ Len(runs') <= chosen.count + 1 \/ runs' = << >>
      /\ mutantResult' \in [status : Statuses, reason : Reasons]
  BY <1>0, <1>1, <1>2, ResultTyped DEF Types, MutationTypeOK, InMutation, Contents
<1>4. Types'
  BY <1>0, <1>3, WorkspaceTypes
<1>5. /\ Place' /\ VerdictsAreCausal' /\ Versions' /\ EvidenceOfOneSource'
      /\ Mutation' = Mutation
  BY <1>0, <1>3, WorkspaceFrame
<1>6. at' = "restore" => mutantResult'.status = "invalid"
  BY <1>0, <1>2, ResultTyped
<1>7. chosen.count >= 2 /\ chosen.count \in Int
  BY <1>0, <1>1, IdsCounted DEF Place, ValidProfile
<1>8. chosen' = chosen
  BY <1>0 DEF InWorkspace
<1>9. /\ inFile = "mutated" /\ Len(runs) = 1 /\ runs[1].inFile = "original"
      /\ Passes(runs[1].trace, Mutation.guard)
  BY <1>0, <1>1 DEF Executing
<1>10. Len(runs') = 1 /\ 2..Len(runs') = {}
  BY <1>0, <1>9
<1>11. Executing'
  BY <1>0, <1>5, <1>6, <1>7, <1>8, <1>9, <1>10 DEF Executing
<1> QED  BY <1>4, <1>5, <1>11 DEF IInv

LEMMA OutcomeTyped ==
    ASSUME NEW tr \in GuardTraces
    PROVE  GuardOutcome(tr) \in [status : Statuses, reason : Reasons]
<1>1. ASSUME NEW g PROVE Attributed(g, tr) \in [status : Statuses, reason : Reasons]
  <2> DEFINE Declared(m) == {e \in g.expected : e.test = m.test /\ e.id = m.id}
             Judge(m) ==
               IF Declared(m) = {}
               THEN IF m.test \in {e.test : e \in g.expected}
                    THEN "wrong-assertion" ELSE "unexpected-test-failure"
               ELSE IF \E e \in Declared(m) : m.expected # e.expected THEN "wrong-expected"
               ELSE IF \E e \in Declared(m) : m.actual # e.actual THEN "wrong-actual"
               ELSE IF m.test \notin tr.failed THEN "malformed-attribution"
               ELSE "ok"
  <2>1. \A m : Judge(m) = "ok" \/ Judge(m) \in Reasons
    BY DEF Reasons
  <2>2. \/ Attributed(g, tr) = Result("killed", "none")
        \/ Attributed(g, tr) = Result("invalid", "malformed-attribution")
        \/ \E m : Judge(m) # "ok" /\ Attributed(g, tr) = Result("invalid", Judge(m))
    BY Zenon DEF Attributed
  <2> HIDE DEF Judge
  <2>3. /\ {"killed", "invalid"} \subseteq Statuses
        /\ {"none", "malformed-attribution"} \subseteq Reasons
    BY DEF Statuses, Reasons
  <2> QED  BY <2>1, <2>2, <2>3, ResultTyped
<1>2. \A g : Classify(g, tr) \in [status : Statuses, reason : Reasons]
  BY <1>1 DEF Classify, Result, Statuses, Reasons
<1> QED  BY <1>2, ResultTyped DEF GuardOutcome, Statuses, Reasons

\* What the outcome of a guard run says of the run.
LEMMA OutcomeMeans ==
    ASSUME IInv, at = "guard", NEW tr \in GuardTraces
    PROVE  /\ GuardOutcome(tr).status = "killed" => FailsAsDeclared(tr, Mutation.guard)
           /\ GuardOutcome(tr).status = "survived" => Passes(tr, Mutation.guard)
<1>1. Sensible(Mutation.guard)
  BY MutationIs DEF IInv, InMutation
<1>2. ASSUME GuardOutcome(tr).status \in {"killed", "survived"}
      PROVE  tr.decodes /\ Classify(Mutation.guard, tr).status = GuardOutcome(tr).status
  BY <1>2 DEF GuardOutcome, Result
<1> QED  BY <1>1, <1>2, KilledMeans, PassingMeans

\* The loop over the guard runs goes on only after a kill, and ends with the verdict of
\* its last run.
LEMMA GuardKeeps == ASSUME IInv, NEW tr \in GuardTraces, RunGuard(tr) PROVE IInv'
<1> DEFINE run == [inFile |-> inFile, trace |-> tr]
           n == Len(runs)
           outcome == GuardOutcome(tr)
<1>0. /\ at = "guard" /\ runs' = Append(runs, run) /\ InWorkspace /\ inFile' = inFile
      /\ IF outcome.status = "killed" /\ n < chosen.count
         THEN UNCHANGED << at, mutantResult >> ELSE at' = "restore" /\ mutantResult' = outcome
  BY DEF RunGuard
<1>1. /\ Types /\ Executing /\ Place /\ chosen' = chosen /\ at \in InMutation \ {"copy"}
      /\ at' \in InMutation \ {"copy"}
  BY <1>0 DEF IInv, InWorkspace, InMutation
<1>2. outcome \in [status : Statuses, reason : Reasons]
  BY OutcomeTyped
<1>3. /\ outcome.status = "killed" => FailsAsDeclared(tr, Mutation.guard)
      /\ outcome.status = "survived" => Passes(tr, Mutation.guard)
  BY <1>0, OutcomeMeans
<1> HIDE DEF outcome
<1>4. /\ inFile = "mutated" /\ n >= 1 /\ n <= chosen.count
      /\ runs[1].inFile = "original" /\ Passes(runs[1].trace, Mutation.guard)
      /\ \A j \in 2..n : Kill(j)
  BY <1>0, <1>1 DEF Executing
<1>5. run.inFile = "mutated" /\ run.trace = tr /\ run \in Run
  BY <1>4, RunTyped
<1> HIDE DEF run
<1>6. /\ n \in Nat /\ runs' \in Seq(Run) /\ Len(runs') = n + 1 /\ runs'[n + 1] = run
      /\ \A j \in 1..n : runs'[j] = runs[j]
  BY <1>0, <1>1, <1>5 DEF Types
<1> HIDE DEF n
<1>7. chosen.count \in Int
  BY <1>1, IdsCounted
<1>8. Types'
  <2>1. inFile' \in Contents /\ mutantResult' \in [status : Statuses, reason : Reasons]
    BY <1>0, <1>1, <1>2, <1>4 DEF Types, Contents
  <2> QED  BY <1>0, <1>1, <1>4, <1>6, <1>7, <2>1, WorkspaceTypes
<1>9. /\ Place' /\ VerdictsAreCausal' /\ Versions' /\ EvidenceOfOneSource'
      /\ Mutation' = Mutation
  BY <1>0, <1>1, WorkspaceFrame
<1>10. Executing'
  <2>1. \A j \in 2..(n + 1) : j = n + 1 \/ j \in 2..n
    BY <1>6
  <2>2. \A j \in 2..(n + 1) : runs'[j].inFile = "mutated"
    BY <1>4, <1>5, <1>6, <2>1 DEF Kill
  <2>3. outcome.status = "killed" =>
          \A j \in 2..(n + 1) : FailsAsDeclared(runs'[j].trace, Mutation.guard)
    BY <1>3, <1>4, <1>5, <1>6, <2>1 DEF Kill
  <2>4. runs'[1] = runs[1]
    BY <1>4, <1>6
  <2>5. outcome.status = "killed" => \A j \in 2..(n + 1) : Kill(j)'
    BY <1>9, <2>2, <2>3 DEF Kill
  <2>6. CASE outcome.status = "killed" /\ n < chosen.count
    BY <1>0, <1>1, <1>4, <1>6, <1>7, <1>9, <2>4, <2>5, <2>6 DEF Executing
  <2>7. CASE ~(outcome.status = "killed" /\ n < chosen.count)
    <3>1. at' = "restore" /\ mutantResult' = outcome
      BY <1>0, <2>7
    <3>2. outcome.status = "killed" => n + 1 = chosen.count + 1
      BY <1>4, <1>6, <1>7, <2>7
    <3> QED  BY <1>1, <1>3, <1>4, <1>5, <1>6, <1>9, <2>2, <2>4, <2>5, <3>1, <3>2 DEF Executing
  <2> QED  BY <2>6, <2>7
<1> QED  BY <1>8, <1>9, <1>10 DEF IInv

\* A restored source has the content it had.
LEMMA RestoreKeeps == ASSUME IInv, Restore PROVE IInv'
<1>0. at = "restore" /\ at \in InMutation \ {"copy"} /\ Types /\ Executing
  BY DEF Restore, InMutation, IInv
<1>1. CASE FinishMutation(Result("invalid", "restoration"), runs)
  <2>1. "restoration" \in Reasons /\ runs \in Seq(Run) /\ at \in InMutation
    BY <1>0 DEF Types, Reasons
  <2> QED  BY <1>1, <2>1, InvalidKeeps
<1>2. CASE inFile' = "original" /\ at' = "post" /\ InWorkspace /\ UNCHANGED << runs, mutantResult >>
  <2>1. /\ Place' /\ VerdictsAreCausal' /\ Versions' /\ EvidenceOfOneSource'
        /\ Mutation' = Mutation /\ chosen' = chosen
    BY <1>0, <1>2, WorkspaceFrame DEF InMutation, InWorkspace
  <2>2. Types'
    BY <1>0, <1>2 DEF InWorkspace, Types, MutationTypeOK, Files
  <2>3. Executing'
    BY <1>0, <1>2, <2>1 DEF Executing, Kill
  <2> QED  BY <2>1, <2>2, <2>3 DEF IInv
<1> QED  BY <1>1, <1>2 DEF Restore

\* A verdict survives the last control only when the guard passes once more, and then the
\* runs of the mutation are those the verdict needs.
LEMMA PostKeeps == ASSUME IInv, NEW tr \in GuardTraces, PostControl(tr) PROVE IInv'
<1> DEFINE run == [inFile |-> inFile, trace |-> tr]
           n == Len(runs)
           r == AfterControl(Clean(tr, Mutation.guard))
           history == Append(runs, run)
           d == [id |-> Mutation.id, result |-> r, versions |-> copied, runs |-> history]
<1>0. /\ at = "post" /\ at \in InMutation /\ FinishMutation(r, history)
      /\ Types /\ Executing /\ Place
  BY DEF PostControl, InMutation, IInv
<1>1. /\ run \in Run /\ run.inFile = "original" /\ run.trace = tr
      /\ runs \in Seq(Run) /\ n >= 1 /\ runs[1].inFile = "original"
      /\ Passes(runs[1].trace, Mutation.guard)
  BY <1>0, RunTyped DEF Executing
<1>2. r \in [status : Statuses, reason : Reasons]
  <2>1. mutantResult \in [status : Statuses, reason : Reasons]
    BY <1>0 DEF Types
  <2>2. "invalid" \in Statuses /\ "control" \in Reasons
    BY DEF Statuses, Reasons
  <2> QED  BY <2>1, <2>2, ResultTyped DEF AfterControl
<1>3. r.status \in {"killed", "survived"} => r = mutantResult /\ Passes(tr, Mutation.guard)
  <2>1. r.status \in {"killed", "survived"} => r = mutantResult /\ Clean(tr, Mutation.guard)
    BY DEF AfterControl, Result
  <2> QED  BY <1>0, <2>1, MutationIs, PassingMeans DEF Clean
<1>4. r.status = "killed" => n = chosen.count + 1 /\ \A j \in 2..n : Kill(j)
  BY <1>0, <1>3 DEF Executing
<1>5. r.status = "survived" =>
        /\ n >= 2 /\ \A j \in 2..n : runs[j].inFile = "mutated"
        /\ Passes(runs[n].trace, Mutation.guard)
  BY <1>0, <1>3 DEF Executing
<1>6. chosen.count \in Int /\ chosen.count >= 2
  BY <1>0, IdsCounted DEF Place, ValidProfile
<1> HIDE DEF run, r
<1>7. /\ n \in Nat /\ history \in Seq(Run) /\ Len(history) = n + 1 /\ DOMAIN history = 1..(n + 1)
      /\ history[n + 1] = run /\ \A j \in 1..n : history[j] = runs[j]
  BY <1>1
<1>8. GuardOf(d.id) = Mutation.guard /\ d.runs = history /\ d.result = r
  BY <1>0, MutationIs
<1> HIDE DEF n, history
<1>9. ASSUME r.status \in {"killed", "survived"} PROVE Sandwiched(d)
  <2>1. n >= 2 /\ \A j \in 2..n : runs[j].inFile = "mutated"
    BY <1>4, <1>5, <1>6, <1>9 DEF Kill
  <2>2. \A i \in 1..(n + 1) : i = 1 \/ i = n + 1 \/ i \in 2..n
    BY <1>7
  <2>3. \A i \in 1..(n + 1) :
           history[i].inFile = IF i \in {1, n + 1} THEN "original" ELSE "mutated"
    BY <1>1, <1>7, <2>1, <2>2
  <2>4. Passes(history[1].trace, Mutation.guard) /\ Passes(history[n + 1].trace, Mutation.guard)
    BY <1>1, <1>3, <1>7, <1>9
  <2> HIDE DEF d
  <2> QED  BY <1>7, <1>8, <2>1, <2>3, <2>4 DEF Sandwiched
<1>10. Causal(d)
  <2>1. ASSUME r.status = "killed"
        PROVE  /\ Len(history) = chosen.count + 2
               /\ \A j \in 2..(chosen.count + 1) : FailsAsDeclared(history[j].trace, Mutation.guard)
    BY <1>4, <1>6, <1>7, <2>1 DEF Kill
  <2>2. ASSUME r.status = "survived"
        PROVE  Passes(history[Len(history) - 1].trace, Mutation.guard)
    BY <1>5, <1>7, <2>2
  <2> HIDE DEF d
  <2> QED  BY <1>8, <1>9, <2>1, <2>2 DEF Causal
<1> QED  BY <1>0, <1>2, <1>7, <1>10, FinishKeeps
-----------------------------------------------------------------------------
(* The invariant, and what follows from it. *)

LEMMA InitKeeps == ASSUME MutationInit PROVE IInv
<1>1. /\ "invalid" \in Statuses /\ "workspace" \in Reasons
      /\ mutantResult = Result("invalid", "workspace")
  BY DEF MutationInit, Statuses, Reasons
<1>2. mutantResult \in [status : Statuses, reason : Reasons] /\ mutantResult.status = "invalid"
  BY <1>1, ResultTyped
<1>3. /\ chosen \in MutationProfiles /\ runs = << >> /\ done = << >> /\ observed = << >>
      /\ visited = {} /\ at = "validate" /\ exit = "running" /\ inFile = "original"
      /\ report = FALSE
  BY DEF MutationInit
<1>4. /\ source \in [AllFiles -> 0..MaxEdits] /\ digests \in [AllFiles -> -1..MaxEdits]
      /\ copied \in [AllFiles -> -1..MaxEdits]
  BY ProfilesAssumption DEF MutationInit
<1>5. IsList(chosen.ids) /\ IsList(Categories)
  BY <1>3, ProfilesAssumption DEF IsProfile
<1>6. /\ Len(done) = 0 /\ Len(observed) = 0 /\ Len(chosen.ids) \in Nat
      /\ Len(Categories) \in Nat
  BY <1>3, <1>5 DEF IsList
<1>7. MutationTypeOK
  <2>1. Len(done) <= Len(chosen.ids) /\ Len(observed) <= Len(Categories)
    BY <1>6
  <2>2. \A i \in DOMAIN runs : runs[i].trace \in GuardTraces
    BY <1>3
  <2>3. report \in BOOLEAN /\ visited \subseteq Files
    BY <1>3, Zenon
  <2> QED  BY <1>2, <1>3, <1>4, <2>1, <2>2, <2>3 DEF MutationTypeOK, Statuses
<1>8. Types
  BY <1>2, <1>3, <1>7 DEF Types
<1>9. Place /\ Executing /\ Versions
  BY <1>3 DEF Place, Executing, Versions, InMutation
<1>10. VerdictsAreCausal /\ EvidenceOfOneSource
  BY <1>3 DEF VerdictsAreCausal, KilledIsCausal, SurvivorIsReal, EvidenceOfOneSource
<1> QED  BY <1>8, <1>9, <1>10 DEF IInv

LEMMA StutterKeeps == ASSUME IInv, UNCHANGED mutationVars PROVE IInv'
<1> USE DEF IInv, mutationVars
<1>1. Types'
  BY DEF Types, MutationTypeOK, Files
<1>2. Place'
  BY DEF Place, AllKilled
<1>3. Executing'
  BY DEF Executing, Kill, Mutation
<1>4. VerdictsAreCausal'
  BY DEF VerdictsAreCausal, KilledIsCausal, SurvivorIsReal, Sandwiched, GuardOf
<1>5. Versions'
  BY DEF Versions, Between, Decided, Files
<1>6. EvidenceOfOneSource'
  BY DEF EvidenceOfOneSource, Files
<1> QED  BY <1>1, <1>2, <1>3, <1>4, <1>5, <1>6

LEMMA InvariantHolds == MutationSpec => []IInv
<1>1. MutationInit => IInv
  BY InitKeeps
<1>2. ASSUME IInv, [MutationNext]_mutationVars PROVE IInv'
  <2>1. CASE ValidateMutations
    BY <1>2, <2>1, ValidateKeeps
  <2>2. CASE \E f \in Files \ visited : DigestSource(f) \/ CopyFile(f) \/ VerifySource(f)
    BY <1>2, <2>2, DigestKeeps, CopyKeeps, VerifyKeeps
  <2>3. CASE ReadFails \/ NotKilled
    BY <1>2, <2>3, FailKeeps DEF ReadFails, NotKilled
  <2>4. CASE WorkspaceFails
    <3>1. "workspace" \in Reasons /\ << >> \in Seq(Run)
      BY DEF Reasons
    <3> QED  BY <1>2, <2>4, <3>1, InvalidKeeps DEF WorkspaceFails, InMutation
  <2>5. CASE ReadOriginal
    BY <1>2, <2>5, ReadKeeps
  <2>6. CASE WriteMutant
    BY <1>2, <2>6, WriteKeeps
  <2>7. CASE Compile
    BY <1>2, <2>7, CompileKeeps
  <2>8. CASE \E tr \in GuardTraces : Preflight(tr) \/ RunGuard(tr) \/ PostControl(tr)
    BY <1>2, <2>8, PreflightKeeps, GuardKeeps, PostKeeps
  <2>9. CASE Restore
    BY <1>2, <2>9, RestoreKeeps
  <2>10. CASE EmitObservation
    BY <1>2, <2>10, ObservationKeeps
  <2>11. CASE EmitReport
    BY <1>2, <2>11, ReportKeeps
  <2>12. CASE \E f \in Files : EditSource(f)
    BY <1>2, <2>12, EditKeeps
  <2>13. CASE UNCHANGED mutationVars
    BY <1>2, <2>13, StutterKeeps
  <2> QED  BY <1>2, <2>1, <2>2, <2>3, <2>4, <2>5, <2>6, <2>7, <2>8, <2>9, <2>10, <2>11,
              <2>12, <2>13 DEF MutationNext, Returned
<1> QED  BY <1>1, <1>2, PTL DEF MutationSpec

\* The variables keep their types, and no mutation runs its guard more often than the
\* profile asks (executeMutationInWorkspace), whatever the profiles and traces are.
THEOREM TypeCorrect == MutationSpec => []MutationTypeOK
<1>1. IInv => MutationTypeOK
  BY DEF IInv, Types
<1> QED  BY <1>1, InvariantHolds, PTL

\* A killed mutation was killed by its mutation and a survivor survived it, whatever go
\* test does, whichever read, write, compilation or restoration fails, and however many
\* mutations and expected mismatches the profile has (executeMutationInWorkspace,
\* attributedGoTestFailures).
THEOREM CausalVerdicts == MutationSpec => []VerdictsAreCausal
<1>1. IInv => VerdictsAreCausal
  BY DEF IInv
<1> QED  BY <1>1, InvariantHolds, PTL

\* Evidence is about one version of every mutated file, the one digested at the start,
\* however often the module is edited while the gate runs, as long as no edit is undone
\* (run, verifyMutationSourceDigests, emitMutationEvidence).
THEOREM OneSource == MutationSpec => []EvidenceOfOneSource
<1>1. IInv => EvidenceOfOneSource
  BY DEF IInv
<1> QED  BY <1>1, InvariantHolds, PTL
=============================================================================
