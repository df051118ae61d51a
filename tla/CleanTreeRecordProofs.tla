----------------------- MODULE CleanTreeRecordProofs -----------------------
(***************************************************************************)
(* Proofs about CleanTreeRecord, for any number of concurrent invocations, *)
(* any repository and any number of disturbances.                          *)
(*                                                                         *)
(* The argument follows a record.  Wherever one is, in an invocation, in a *)
(* file or in the hands of Rebind and Verify, its log tells where its      *)
(* verdict comes from (SoundRecord): nothing that happens to it later, a   *)
(* hand edit of its kind included, changes the log, and the executions and *)
(* reports behind it are never forgotten.  An invocation that verifies     *)
(* undisturbed knows the worktree as it still is (Undisturbed).            *)
(***************************************************************************)
EXTENDS CleanTreeRecord, TLAPS

\* The gate passed on the semantic content the record attributes its verdict to, with the
\* toolchain of the record or a later one.
ExecutionBehind(r) ==
    r.log = "executed" /\ "aggregate" \in r.commands =>
       \E e \in executed : r.toolchain <= e.toolchain /\ Semantic(e.tree) = r.aggregateSem

\* A retained report is of the very tree of the record, as long as it is not re-bound.
ReportBehind(r) ==
    r.log = "reused" /\ r.previous = None =>
       \E g \in gateReports : g.workspace = Workspace(r.repository)

SoundRecord(r) ==
    /\ r = [kind |-> r.kind, status |-> r.status, repository |-> r.repository,
            census |-> r.census, toolchain |-> r.toolchain, aggregateSem |-> r.aggregateSem,
            report |-> r.report, commands |-> r.commands, log |-> r.log,
            previous |-> r.previous]
    /\ r.log \in {"executed", "reused"}
    /\ r.toolchain \in Nat
    /\ r.repository.tree \in Trees
    /\ ExecutionBehind(r)
    /\ ReportBehind(r)

\* validateProvenance, which a hand edit may break.
NamesWhatItReplaced(r) == (r.kind = "re-bound") = (r.previous # None)

\* The stages in which an invocation materializes, publishes and verifies.
Making == {"snapshot", "collect", "commands", "after"}
Publishing == {"open", "write", "rename", "remove", "retry"}
Verifying == {"census", "check", "end"}

MakingOK(x) ==
    /\ x.kind \in {"capture", "rebind"}
    /\ x.stage = "commands" => x.kind = "capture"
    /\ x.kind = "capture" /\ x.stage # "after" => x.reuse = None \/ x.reuse \in gateReports
    /\ x.kind = "rebind" /\ x.stage # "after" => SoundRecord(x.retained)
    /\ x.stage \in {"collect", "commands"} =>
          x.repository.tree \in Trees /\ ManifestIsValid(x.repository.tree)
    /\ x.stage = "commands" => x.toolchain \in Nat /\ x.toolchain <= toolchain
    /\ x.stage = "after" => SoundRecord(x.record) /\ NamesWhatItReplaced(x.record)

PublishingOK(x) ==
    /\ x.stage \in {"open", "write"} => SoundRecord(x.record)
    /\ x.stage = "open" => NamesWhatItReplaced(x.record)
    /\ x.stage = "write" => x.file \in Inodes

\* The executions that make a record a proof.
Proven(tree, chain) ==
    \E e \in executed : /\ e.toolchain = chain
                        /\ Semantic(e.tree) = Semantic(tree)
                        /\ \A p \in Executable : e.tree[p] = tree[p]

\* What a verification knows of the worktree while nobody has touched it.
Undisturbed(x) ==
    x.quiet =>
       /\ x.loaded.selected = SelectedBy(files)
       /\ x.stage \in {"check", "end"} =>
            x.file.census \in Census(files, head, x.file.repository.base, x.loaded.selected,
                                     Plans[x.loaded.plan].excluded)
       /\ x.stage = "end" => x.file.repository \in Materialized(files, x.file.repository.base)

VerifyingOK(x) ==
    /\ x = [kind |-> "verify", stage |-> x.stage, loaded |-> x.loaded, file |-> x.file,
            allow |-> x.allow, quiet |-> x.quiet]
    /\ SoundRecord(x.file)
    /\ requireFreshAggregateExecution(x.file, x.allow)
    /\ x.stage = "end" /\ ~x.allow => Proven(x.file.repository.tree, x.file.toolchain)
    /\ Undisturbed(x)

InvocationOK(x) ==
    /\ x.stage \in {"idle", "over"} \cup Making \cup Publishing \cup Verifying
    /\ x.stage \in Making => MakingOK(x)
    /\ x.stage \in Publishing => PublishingOK(x)
    /\ x.stage \in Verifying => VerifyingOK(x)

Types ==
    /\ files \in Trees
    /\ head \in Seq(Trees) /\ head # << >>
    /\ toolchain \in Nat /\ toolchain <= events
    /\ events \in 0 .. MaxEvents
    /\ op = [o \in Ops |-> op[o]]
    /\ record \in Inodes \cup {None}
    /\ temporary \in Inodes \cup {None}
    /\ content = [i \in Inodes |-> content[i]]
    /\ gateReports \subseteq Reports({g.workspace : g \in gateReports})

\* What was executed is of a valid manifest, and not of the future.
Executions ==
    \A e \in executed : /\ e \in [tree : Trees, toolchain : Toolchains]
                        /\ e.toolchain <= toolchain
                        /\ ManifestIsValid(e.tree)

Stored == \A i \in Inodes : content[i] = Torn \/ SoundRecord(content[i])

Running == \A o \in Ops : InvocationOK(op[o])

IInv ==
    /\ Types /\ Executions /\ Stored /\ Running
    /\ VerifiedMeansExecuted /\ AcceptedIsTheWorktree
-----------------------------------------------------------------------------
(* Trees. *)

LEMMA StagedIsTree ==
    ASSUME NEW f \in Trees, NEW base \in Seq(Trees), base # << >>
    PROVE  Staged(f, base) \in Trees
<1>1. Last(base) \in Trees
  BY DEF Last
<1> QED  BY <1>1 DEF Staged, Trees

\* A materialization, if there is one, is the tree with a valid manifest.
LEMMA MaterializedIs ==
    ASSUME NEW f, NEW base, NEW i \in Materialized(f, base)
    PROVE  /\ i.tree = Staged(f, base) /\ i.base = base /\ i.selected = SelectedBy(f)
           /\ ManifestIsValid(i.tree)
BY DEF Materialized

\* What differs from the base is in the census, tracked or not.
LEMMA CensusAccounts ==
    ASSUME NEW f, NEW h, NEW base, NEW selected, NEW excluded,
           NEW c \in Census(f, h, base, selected, excluded),
           NEW p \in Paths, f[p] # Last(base)[p]
    PROVE  p \in selected \cup excluded /\ c.excluded = excluded
<1>1. p \in ChangedPaths(f, h, base)
  BY DEF ChangedPaths, TrackedStatus, IsUntracked, IsTracked
<1> QED  BY <1>1 DEF Census

\* The same semantic content is the same of everything a gate executes or reads.
LEMMA SemanticCoversExecutable ==
    ASSUME NEW s, NEW t, ManifestIsValid(s), Semantic(s) = Semantic(t)
    PROVE  \A p \in Executable : s[p] = t[p]
<1>1. DOMAIN Semantic(s) = DOMAIN Semantic(t)
  OBVIOUS
<1>2. Paths \ PlanOf(s).documentation = Paths \ PlanOf(t).documentation
  BY <1>1 DEF Semantic
<1>3. \A p \in Executable : p \in Paths \ PlanOf(s).documentation
  BY SyntheticTreeAssumption DEF ManifestIsValid
<1>4. \A p \in Paths \ PlanOf(s).documentation : Semantic(s)[p] = s[p] /\ Semantic(t)[p] = t[p]
  BY <1>2 DEF Semantic
<1> QED  BY <1>3, <1>4
-----------------------------------------------------------------------------
(* What a step leaves alone. *)

Grows ==
    /\ executed \subseteq executed' /\ gateReports \subseteq gateReports'
    /\ toolchain \in Nat /\ toolchain' \in Nat /\ toolchain <= toolchain'

\* Executions and reports are never forgotten.
LEMMA SoundKept ==
    ASSUME Grows, NEW r, SoundRecord(r)
    PROVE  SoundRecord(r)'
<1>1. ExecutionBehind(r)'
  BY DEF Grows, SoundRecord, ExecutionBehind
<1>2. ReportBehind(r)'
  BY DEF Grows, SoundRecord, ReportBehind
<1> QED  BY <1>1, <1>2 DEF SoundRecord

LEMMA InvocationKept ==
    ASSUME Grows, NEW x, InvocationOK(x),
           UNCHANGED repository \/ x.stage \notin Verifying \/ ~x.quiet
    PROVE  InvocationOK(x)'
<1>1. CASE x.stage \in Making
  <2>1. MakingOK(x)
    BY <1>1 DEF InvocationOK
  <2>2. MakingOK(x)'
    BY <2>1, SoundKept DEF MakingOK, Grows, NamesWhatItReplaced
  <2> QED  BY <1>1, <2>2 DEF InvocationOK, Making, Publishing, Verifying
<1>2. CASE x.stage \in Publishing
  <2>1. PublishingOK(x)
    BY <1>2 DEF InvocationOK
  <2>2. PublishingOK(x)'
    BY <2>1, SoundKept DEF PublishingOK, NamesWhatItReplaced
  <2> QED  BY <1>2, <2>2 DEF InvocationOK, Making, Publishing, Verifying
<1>3. CASE x.stage \in Verifying
  <2>1. VerifyingOK(x)
    BY <1>3 DEF InvocationOK
  <2>2. SoundRecord(x.file)'
    BY <2>1, SoundKept DEF VerifyingOK
  <2>3. \A t, c : Proven(t, c) => Proven(t, c)'
    BY DEF Proven, Grows
  <2>4. Undisturbed(x)'
    BY <1>3, <2>1 DEF VerifyingOK, Undisturbed, repository
  <2>5. VerifyingOK(x)'
    BY <2>1, <2>2, <2>3, <2>4 DEF VerifyingOK, requireFreshAggregateExecution
  <2> QED  BY <1>3, <2>5 DEF InvocationOK, Making, Publishing, Verifying
<1>4. CASE x.stage \in {"idle", "over"}
  BY <1>4 DEF InvocationOK, Making, Publishing, Verifying
<1> QED  BY <1>1, <1>2, <1>3, <1>4 DEF InvocationOK

LEMMA EventsGrow ==
    ASSUME IInv, Event \/ UNCHANGED events
    PROVE  events' \in 0 .. MaxEvents /\ events <= events'
BY CleanTreeAssumption DEF IInv, Types, Event

\* A step of one invocation that writes nothing but records that are sound.
LEMMA InvocationKeeps ==
    ASSUME IInv, NEW o \in Ops, NEW x, Goto(o, x), InvocationOK(x),
           UNCHANGED << repository, toolchain, ghosts >>,
           Event \/ UNCHANGED events,
           record' \in Inodes \cup {None}, temporary' \in Inodes \cup {None},
           content' = [i \in Inodes |-> content'[i]],
           \A i \in Inodes : content'[i] \in {Torn, content[i]} \/ SoundRecord(content'[i])
    PROVE  IInv'
<1>0. /\ Types /\ Executions /\ Stored /\ Running /\ VerifiedMeansExecuted
      /\ AcceptedIsTheWorktree
  BY DEF IInv
<1>1. Grows
  BY <1>0 DEF Grows, ghosts, Types
<1>2. /\ op' = [op EXCEPT ![o] = x] /\ op = [p \in Ops |-> op[p]]
  BY <1>0 DEF Goto, Types
<1>3. Types'
  <2>1. op' = [p \in Ops |-> op'[p]]
    BY <1>2
  <2>2. toolchain' \in Nat /\ toolchain' <= events' /\ events' \in 0 .. MaxEvents
    BY <1>0, EventsGrow, CleanTreeAssumption DEF Types
  <2> QED  BY <1>0, <2>1, <2>2 DEF Types, repository, ghosts, Reports
<1>4. Executions'
  BY <1>0 DEF Executions, ghosts
<1>5. Stored'
  <2>1. \A i \in Inodes : content'[i] = Torn \/ SoundRecord(content'[i])
    BY <1>0 DEF Stored
  <2>2. \A r : SoundRecord(r) => SoundRecord(r)'
    BY <1>1, SoundKept
  <2>3. ASSUME NEW i \in Inodes PROVE (content[i] = Torn \/ SoundRecord(content[i]))'
    BY <2>1, <2>2 DEF SoundRecord, ExecutionBehind, ReportBehind
  <2> QED  BY <2>3 DEF Stored
<1>6. Running'
  <2>1. \A y : InvocationOK(y) => InvocationOK(y)'
    BY <1>1, InvocationKept
  <2>2. \A p \in Ops : InvocationOK(op'[p])
    BY <1>0, <1>2 DEF Running
  <2> QED  BY <2>1, <2>2 DEF Running
<1>7. VerifiedMeansExecuted'
  BY <1>0 DEF VerifiedMeansExecuted, ghosts
<1>8. AcceptedIsTheWorktree'
  BY <1>0 DEF AcceptedIsTheWorktree, ghosts
<1> QED  BY <1>3, <1>4, <1>5, <1>6, <1>7, <1>8 DEF IInv

\* A step of one invocation that writes nothing.
LEMMA GotoKeeps ==
    ASSUME IInv, NEW o \in Ops, NEW x, Goto(o, x), InvocationOK(x),
           UNCHANGED << repository, toolchain, disk, ghosts >>,
           Event \/ UNCHANGED events
    PROVE  IInv'
<1>1. /\ record' \in Inodes \cup {None} /\ temporary' \in Inodes \cup {None}
      /\ content' = [i \in Inodes |-> content'[i]]
      /\ \A i \in Inodes : content'[i] = content[i]
  BY DEF IInv, Types, disk
<1> QED  BY <1>1, InvocationKeeps

LEMMA OverIsOK == InvocationOK(Over)
BY DEF InvocationOK, Over, Making, Publishing, Verifying

LEMMA EndKeeps ==
    ASSUME IInv, NEW o \in Ops, Goto(o, Over),
           UNCHANGED << repository, toolchain, disk, ghosts >>,
           Event \/ UNCHANGED events
    PROVE  IInv'
BY OverIsOK, GotoKeeps

\* The record Rebind and Verify load is sound.
LEMMA LoadedIsSound ==
    ASSUME IInv, Loadable(Read(record))
    PROVE  SoundRecord(Read(record))
<1>1. record # None /\ Read(record) = content[record] /\ content[record] # Torn
  BY DEF Loadable, Read
<1> QED  BY <1>1 DEF IInv, Types, Stored
-----------------------------------------------------------------------------
(* Capture. *)

LEMMA CaptureStartKeeps == ASSUME IInv, NEW o \in Ops, CaptureStart(o) PROVE IInv'
<1>1. PICK reuse \in ReuseSelections :
        Goto(o, [kind |-> "capture", stage |-> "snapshot", loaded |-> Loaded, reuse |-> reuse])
  BY DEF CaptureStart
<1> DEFINE x == [kind |-> "capture", stage |-> "snapshot", loaded |-> Loaded, reuse |-> reuse]
<1>2. x.kind = "capture" /\ x.stage = "snapshot" /\ x.reuse = reuse
  OBVIOUS
<1>3. reuse = None \/ reuse \in gateReports
  BY DEF ReuseSelections
<1> HIDE DEF x
<1>4. InvocationOK(x)
  BY <1>2, <1>3 DEF InvocationOK, MakingOK, Making, Publishing, Verifying
<1>5. Goto(o, x)
  BY <1>1 DEF x
<1> QED  BY <1>4, <1>5, GotoKeeps DEF CaptureStart, Start, EventUnless

LEMMA CaptureMaterializeKeeps == ASSUME IInv, NEW o \in Ops, CaptureMaterialize(o) PROVE IInv'
<1>1. CASE Goto(o, Over)
  BY <1>1, EndKeeps DEF CaptureMaterialize
<1>2. CASE \E identity \in Materialized(files, head) :
             Goto(o, [kind |-> "capture", stage |-> "collect", loaded |-> op[o].loaded,
                      reuse |-> op[o].reuse, repository |-> identity])
  <2>1. PICK identity \in Materialized(files, head) :
             Goto(o, [kind |-> "capture", stage |-> "collect", loaded |-> op[o].loaded,
                      reuse |-> op[o].reuse, repository |-> identity])
    BY <1>2
  <2> DEFINE x == [kind |-> "capture", stage |-> "collect", loaded |-> op[o].loaded,
                   reuse |-> op[o].reuse, repository |-> identity]
  <2>2. /\ x.kind = "capture" /\ x.stage = "collect" /\ x.reuse = op[o].reuse
        /\ x.repository = identity
    OBVIOUS
  <2>3. op[o].reuse = None \/ op[o].reuse \in gateReports
    BY DEF IInv, Running, InvocationOK, MakingOK, Making, CaptureMaterialize
  <2>4. identity.tree \in Trees /\ ManifestIsValid(identity.tree)
    BY MaterializedIs, StagedIsTree DEF IInv, Types
  <2> HIDE DEF x
  <2>5. InvocationOK(x)
    BY <2>2, <2>3, <2>4 DEF InvocationOK, MakingOK, Making, Publishing, Verifying
  <2>6. Goto(o, x)
    BY <2>1 DEF x
  <2> QED  BY <2>5, <2>6, GotoKeeps DEF CaptureMaterialize
<1> QED  BY <1>1, <1>2 DEF CaptureMaterialize

LEMMA CaptureCollectKeeps == ASSUME IInv, NEW o \in Ops, CaptureCollect(o) PROVE IInv'
<1>1. CASE Goto(o, Over)
  BY <1>1, EndKeeps DEF CaptureCollect
<1>2. CASE ~Goto(o, Over)
  <2>1. PICK c :
          Goto(o, [kind |-> "capture", stage |-> "commands", loaded |-> op[o].loaded,
                   reuse |-> op[o].reuse, repository |-> op[o].repository, census |-> c,
                   toolchain |-> toolchain])
    BY <1>2 DEF CaptureCollect
  <2> DEFINE x == [kind |-> "capture", stage |-> "commands", loaded |-> op[o].loaded,
                   reuse |-> op[o].reuse, repository |-> op[o].repository, census |-> c,
                   toolchain |-> toolchain]
  <2>2. /\ x.kind = "capture" /\ x.stage = "commands" /\ x.reuse = op[o].reuse
        /\ x.repository = op[o].repository /\ x.toolchain = toolchain
    OBVIOUS
  <2>3. /\ op[o].reuse = None \/ op[o].reuse \in gateReports
        /\ op[o].repository.tree \in Trees /\ ManifestIsValid(op[o].repository.tree)
    BY DEF IInv, Running, InvocationOK, MakingOK, Making, CaptureCollect
  <2>4. toolchain \in Nat
    BY DEF IInv, Types
  <2> HIDE DEF x
  <2>5. InvocationOK(x)
    BY <2>2, <2>3, <2>4 DEF InvocationOK, MakingOK, Making, Publishing, Verifying
  <2>6. Goto(o, x)
    BY <2>1 DEF x
  <2> QED  BY <2>5, <2>6, GotoKeeps DEF CaptureCollect
<1> QED  BY <1>1, <1>2

\* The record of a capture, with the verdicts of its commands.
LEMMA CaptureRecordIs ==
    ASSUME NEW o, NEW kind, NEW commands, NEW report, NEW tidy
    PROVE  LET r == CaptureRecord(o, kind, commands, report, tidy)
           IN  /\ r = [kind |-> r.kind, status |-> r.status, repository |-> r.repository,
                       census |-> r.census, toolchain |-> r.toolchain,
                       aggregateSem |-> r.aggregateSem, report |-> r.report,
                       commands |-> r.commands, log |-> r.log, previous |-> r.previous]
               /\ r.kind = kind /\ r.commands = commands /\ r.previous = None
               /\ r.log = IF kind = "reused" THEN "reused" ELSE "executed"
               /\ r.repository = op[o].repository /\ r.toolchain = op[o].toolchain
               /\ r.aggregateSem = Semantic(op[o].repository.tree)
BY DEF CaptureRecord

\* The gate runs with the toolchain it finds, which is the collected one or a later one.
LEMMA CaptureExecuteKeeps == ASSUME IInv, NEW o \in Ops, CaptureExecute(o) PROVE IInv'
<1>0. /\ Types /\ Executions /\ Stored /\ Running /\ VerifiedMeansExecuted
      /\ AcceptedIsTheWorktree
  BY DEF IInv
<1>1. PICK passed \in ExecutedOutcomes(CommandNames), tidy \in BOOLEAN, proven \in BOOLEAN :
        LET report == IF "aggregate" \in passed THEN AggregateReport(o, proven) ELSE None
        IN  /\ EventUnless(passed = CommandNames /\ tidy /\ proven)
            /\ Captured(o, CaptureRecord(o, "generated", passed, report, tidy))
            /\ executed' = IF "aggregate" \in passed
                           THEN executed \cup {[tree |-> op[o].repository.tree,
                                                toolchain |-> toolchain]}
                           ELSE executed
  BY DEF CaptureExecute
<1> DEFINE report == IF "aggregate" \in passed THEN AggregateReport(o, proven) ELSE None
           r == CaptureRecord(o, "generated", passed, report, tidy)
           e == [tree |-> op[o].repository.tree, toolchain |-> toolchain]
           x == [kind |-> "capture", stage |-> "after", loaded |-> op[o].loaded, record |-> r]
<1>2. /\ op' = [op EXCEPT ![o] = x] /\ op = [p \in Ops |-> op[p]]
      /\ executed' = IF "aggregate" \in passed THEN executed \cup {e} ELSE executed
      /\ UNCHANGED << repository, toolchain, disk, gateReports, accepted >>
      /\ Event \/ UNCHANGED events
  BY <1>0, <1>1 DEF Captured, Goto, Types, EventUnless, CaptureExecute
<1>3. /\ op[o].repository.tree \in Trees /\ ManifestIsValid(op[o].repository.tree)
      /\ op[o].toolchain \in Nat /\ op[o].toolchain <= toolchain
  BY <1>0 DEF CaptureExecute, Running, InvocationOK, MakingOK, Making
<1>4. /\ e.tree = op[o].repository.tree /\ e.toolchain = toolchain /\ toolchain \in Toolchains
      /\ e \in [tree : Trees, toolchain : Toolchains] /\ toolchain \in Nat
  BY <1>0, <1>3, CleanTreeAssumption DEF Types, Toolchains
<1>5. /\ x.kind = "capture" /\ x.stage = "after" /\ x.record = r
  OBVIOUS
<1>6. /\ r = [kind |-> r.kind, status |-> r.status, repository |-> r.repository,
              census |-> r.census, toolchain |-> r.toolchain,
              aggregateSem |-> r.aggregateSem, report |-> r.report,
              commands |-> r.commands, log |-> r.log, previous |-> r.previous]
      /\ r.kind = "generated" /\ r.commands = passed /\ r.previous = None
      /\ r.log = "executed" /\ r.repository = op[o].repository /\ r.toolchain = op[o].toolchain
      /\ r.aggregateSem = Semantic(op[o].repository.tree)
  BY CaptureRecordIs
<1> HIDE DEF x, r, e, report
<1>7. Grows
  BY <1>2, <1>4 DEF Grows
<1>8. ASSUME NEW y, y = x PROVE InvocationOK(y)'
  <2>1. r.log = "executed" /\ "aggregate" \in r.commands =>
          \E d \in executed' : r.toolchain <= d.toolchain /\ Semantic(d.tree) = r.aggregateSem
    BY <1>2, <1>3, <1>4, <1>6
  <2>2. /\ r = [kind |-> r.kind, status |-> r.status, repository |-> r.repository,
                census |-> r.census, toolchain |-> r.toolchain,
                aggregateSem |-> r.aggregateSem, report |-> r.report,
                commands |-> r.commands, log |-> r.log, previous |-> r.previous]
        /\ r.log \in {"executed", "reused"} /\ r.toolchain \in Nat
        /\ r.repository.tree \in Trees /\ r.log # "reused"
        /\ (r.kind = "re-bound") = (r.previous # None)
    BY <1>3, <1>6
  <2>3. ASSUME NEW s, s = r PROVE SoundRecord(s)' /\ NamesWhatItReplaced(s)
    BY <2>1, <2>2, <2>3 DEF SoundRecord, ExecutionBehind, ReportBehind, NamesWhatItReplaced
  <2> QED  BY <1>5, <1>8, <2>3
              DEF InvocationOK, MakingOK, Making, Publishing, Verifying, NamesWhatItReplaced
<1>9. Running'
  <2>1. \A y : InvocationOK(y) => InvocationOK(y)'
    BY <1>2, <1>7, InvocationKept
  <2>2. \A p \in Ops : op'[p] = x \/ InvocationOK(op'[p])
    BY <1>0, <1>2 DEF Running
  <2> QED  BY <1>8, <2>1, <2>2 DEF Running
<1>10. Stored'
  BY <1>0, <1>2, <1>7, SoundKept DEF Stored, disk
<1>11. Types'
  <2>1. toolchain' \in Nat /\ toolchain' <= events' /\ events' \in 0 .. MaxEvents
    BY <1>0, <1>2, EventsGrow, CleanTreeAssumption DEF Types
  <2> QED  BY <1>0, <1>2, <2>1 DEF Types, repository, disk, Reports
<1>12. Executions'
  <2>1. \A d \in executed' : d \in executed \/ d = e
    BY <1>2
  <2>2. ManifestIsValid(e.tree) /\ e.toolchain <= toolchain
    BY <1>3, <1>4
  <2> QED  BY <1>0, <1>2, <1>4, <2>1, <2>2 DEF Executions
<1>13. VerifiedMeansExecuted'
  BY <1>0, <1>2, <1>7 DEF VerifiedMeansExecuted, Grows
<1>14. AcceptedIsTheWorktree'
  BY <1>0, <1>2 DEF AcceptedIsTheWorktree
<1> QED  BY <1>9, <1>10, <1>11, <1>12, <1>13, <1>14 DEF IInv

\* A reused report is admitted for the very tree that was materialized.
LEMMA CaptureReuseKeeps == ASSUME IInv, NEW o \in Ops, CaptureReuse(o) PROVE IInv'
<1>1. CASE ~ReuseBindsTree(o)
  BY <1>1, EndKeeps DEF CaptureReuse, EventUnless
<1>2. CASE ReuseBindsTree(o)
  <2>1. PICK commands, tidy : Captured(o, CaptureRecord(o, "reused", commands, op[o].reuse, tidy))
    BY <1>2 DEF CaptureReuse
  <2> DEFINE r == CaptureRecord(o, "reused", commands, op[o].reuse, tidy)
             x == [kind |-> "capture", stage |-> "after", loaded |-> op[o].loaded, record |-> r]
  <2>2. /\ op[o].repository.tree \in Trees /\ op[o].toolchain \in Nat
        /\ op[o].reuse \in gateReports
    BY DEF IInv, Running, InvocationOK, MakingOK, Making, CaptureReuse
  <2>3. op[o].reuse.workspace = Workspace(op[o].repository)
    BY <1>2 DEF ReuseBindsTree
  <2>4. x.kind = "capture" /\ x.stage = "after" /\ x.record = r
    OBVIOUS
  <2>5. /\ r = [kind |-> r.kind, status |-> r.status, repository |-> r.repository,
                census |-> r.census, toolchain |-> r.toolchain,
                aggregateSem |-> r.aggregateSem, report |-> r.report,
                commands |-> r.commands, log |-> r.log, previous |-> r.previous]
        /\ r.kind = "reused" /\ r.previous = None /\ r.log = "reused"
        /\ r.repository = op[o].repository /\ r.toolchain = op[o].toolchain
    BY CaptureRecordIs
  <2> HIDE DEF r, x
  <2>6. SoundRecord(r) /\ NamesWhatItReplaced(r)
    BY <2>2, <2>3, <2>5 DEF SoundRecord, ExecutionBehind, ReportBehind, NamesWhatItReplaced
  <2>7. InvocationOK(x)
    BY <2>4, <2>6 DEF InvocationOK, MakingOK, Making, Publishing, Verifying
  <2>8. Goto(o, x)
    BY <2>1 DEF Captured, x, r
  <2> QED  BY <2>7, <2>8, GotoKeeps DEF CaptureReuse, EventUnless
<1> QED  BY <1>1, <1>2

\* The status is not what makes a record sound.
LEMMA CaptureFinishKeeps == ASSUME IInv, NEW o \in Ops, CaptureFinish(o) PROVE IInv'
<1> DEFINE old == op[o].record
           failed == [old EXCEPT !.status = "failed"]
           r == IF Preserved(o) THEN old ELSE failed
           x == [stage |-> "open", record |-> r]
<1>1. Goto(o, x)
  BY DEF CaptureFinish
<1>2. SoundRecord(old) /\ NamesWhatItReplaced(old)
  BY DEF IInv, Running, InvocationOK, MakingOK, Making, CaptureFinish
<1> HIDE DEF old
<1>3. /\ failed = [kind |-> old.kind, status |-> "failed", repository |-> old.repository,
                   census |-> old.census, toolchain |-> old.toolchain,
                   aggregateSem |-> old.aggregateSem, report |-> old.report,
                   commands |-> old.commands, log |-> old.log, previous |-> old.previous]
  BY <1>2 DEF SoundRecord
<1> HIDE DEF failed
<1>4. SoundRecord(failed) /\ NamesWhatItReplaced(failed)
  BY <1>2, <1>3 DEF SoundRecord, ExecutionBehind, ReportBehind, NamesWhatItReplaced
<1>5. SoundRecord(r) /\ NamesWhatItReplaced(r)
  BY <1>2, <1>4
<1> HIDE DEF r
<1>6. x.stage = "open" /\ x.record = r
  OBVIOUS
<1> HIDE DEF x
<1>7. InvocationOK(x)
  BY <1>5, <1>6 DEF InvocationOK, PublishingOK, Making, Publishing, Verifying
<1> QED  BY <1>1, <1>7, GotoKeeps DEF CaptureFinish
-----------------------------------------------------------------------------
(* Rebind. *)

LEMMA RebindStartKeeps == ASSUME IInv, NEW o \in Ops, RebindStart(o) PROVE IInv'
<1> DEFINE x == [kind |-> "rebind", stage |-> "snapshot", loaded |-> Loaded,
                 retained |-> Read(record)]
<1>1. Goto(o, x) /\ SoundRecord(Read(record))
  BY LoadedIsSound DEF RebindStart
<1>2. x.kind = "rebind" /\ x.stage = "snapshot" /\ x.retained = Read(record)
  OBVIOUS
<1> HIDE DEF x
<1>3. InvocationOK(x)
  BY <1>1, <1>2 DEF InvocationOK, MakingOK, Making, Publishing, Verifying
<1> QED  BY <1>1, <1>3, GotoKeeps DEF RebindStart, Start, EventUnless

LEMMA RebindMaterializeKeeps == ASSUME IInv, NEW o \in Ops, RebindMaterialize(o) PROVE IInv'
<1>1. CASE Goto(o, Over)
  BY <1>1, EndKeeps DEF RebindMaterialize
<1>2. CASE ~Goto(o, Over)
  <2>1. PICK identity \in Materialized(files, head) :
             Goto(o, [kind |-> "rebind", stage |-> "collect", loaded |-> op[o].loaded,
                      retained |-> op[o].retained, repository |-> identity])
    BY <1>2 DEF RebindMaterialize
  <2> DEFINE x == [kind |-> "rebind", stage |-> "collect", loaded |-> op[o].loaded,
                   retained |-> op[o].retained, repository |-> identity]
  <2>2. /\ x.kind = "rebind" /\ x.stage = "collect" /\ x.retained = op[o].retained
        /\ x.repository = identity
    OBVIOUS
  <2>3. SoundRecord(op[o].retained)
    BY DEF IInv, Running, InvocationOK, MakingOK, Making, RebindMaterialize
  <2>4. identity.tree \in Trees /\ ManifestIsValid(identity.tree)
    BY MaterializedIs, StagedIsTree DEF IInv, Types
  <2> HIDE DEF x
  <2>5. InvocationOK(x)
    BY <2>2, <2>3, <2>4 DEF InvocationOK, MakingOK, Making, Publishing, Verifying
  <2>6. Goto(o, x)
    BY <2>1 DEF x
  <2> QED  BY <2>5, <2>6, GotoKeeps DEF RebindMaterialize
<1> QED  BY <1>1, <1>2

\* A re-bound record is for the semantic content of the retained one, keeps its log, and
\* names the prose it replaced.
LEMMA ReboundIsSound ==
    ASSUME IInv, NEW retained, SoundRecord(retained), NEW identity, identity.tree \in Trees,
           NEW census, NEW r \in Rebound(retained, identity, census)
    PROVE  SoundRecord(r) /\ NamesWhatItReplaced(r)
<1>1. /\ toolchain = retained.toolchain
      /\ r = [retained EXCEPT !.kind = "re-bound", !.repository = identity, !.census = census,
                              !.toolchain = toolchain,
                              !.previous = Prose(retained.repository.tree)]
  BY DEF Rebound
<1>2. r = [kind |-> "re-bound", status |-> retained.status, repository |-> identity,
           census |-> census, toolchain |-> toolchain,
           aggregateSem |-> retained.aggregateSem, report |-> retained.report,
           commands |-> retained.commands, log |-> retained.log,
           previous |-> Prose(retained.repository.tree)]
  BY <1>1 DEF SoundRecord
<1>3. Prose(retained.repository.tree) # None
  BY CleanTreeAssumption DEF SoundRecord
<1>4. /\ r.kind = "re-bound" /\ r.repository = identity /\ r.toolchain = retained.toolchain
      /\ r.aggregateSem = retained.aggregateSem /\ r.commands = retained.commands
      /\ r.log = retained.log /\ r.previous # None
  BY <1>1, <1>2, <1>3
<1>5. r = [kind |-> r.kind, status |-> r.status, repository |-> r.repository,
           census |-> r.census, toolchain |-> r.toolchain,
           aggregateSem |-> r.aggregateSem, report |-> r.report,
           commands |-> r.commands, log |-> r.log, previous |-> r.previous]
  BY <1>2
<1> QED  BY <1>4, <1>5 DEF SoundRecord, ExecutionBehind, ReportBehind, NamesWhatItReplaced

LEMMA RebindCollectKeeps == ASSUME IInv, NEW o \in Ops, RebindCollect(o) PROVE IInv'
<1>1. CASE Goto(o, Over)
  BY <1>1, EndKeeps DEF RebindCollect
<1>2. CASE ~Goto(o, Over)
  <2>0. PICK census : \E r \in Rebound(op[o].retained, op[o].repository, census) :
          Goto(o, [kind |-> "rebind", stage |-> "after", loaded |-> op[o].loaded, record |-> r])
    BY <1>2 DEF RebindCollect
  <2>1. PICK r \in Rebound(op[o].retained, op[o].repository, census) :
          Goto(o, [kind |-> "rebind", stage |-> "after", loaded |-> op[o].loaded, record |-> r])
    BY <2>0
  <2> DEFINE x == [kind |-> "rebind", stage |-> "after", loaded |-> op[o].loaded, record |-> r]
  <2>2. x.kind = "rebind" /\ x.stage = "after" /\ x.record = r
    OBVIOUS
  <2>3. SoundRecord(op[o].retained) /\ op[o].repository.tree \in Trees
    BY DEF IInv, Running, InvocationOK, MakingOK, Making, RebindCollect
  <2>4. SoundRecord(r) /\ NamesWhatItReplaced(r)
    BY <2>3, ReboundIsSound
  <2> HIDE DEF x
  <2>5. InvocationOK(x)
    BY <2>2, <2>4 DEF InvocationOK, MakingOK, Making, Publishing, Verifying
  <2>6. Goto(o, x)
    BY <2>1 DEF x
  <2> QED  BY <2>5, <2>6, GotoKeeps DEF RebindCollect
<1> QED  BY <1>1, <1>2

LEMMA RebindFinishKeeps == ASSUME IInv, NEW o \in Ops, RebindFinish(o) PROVE IInv'
<1>1. CASE ~Preserved(o)
  BY <1>1, EndKeeps DEF RebindFinish
<1>2. CASE Preserved(o)
  <2> DEFINE x == [stage |-> "open", record |-> op[o].record]
  <2>1. Goto(o, x)
    BY <1>2 DEF RebindFinish
  <2>2. x.stage = "open" /\ x.record = op[o].record
    OBVIOUS
  <2>3. SoundRecord(op[o].record) /\ NamesWhatItReplaced(op[o].record)
    BY DEF IInv, Running, InvocationOK, MakingOK, Making, RebindFinish
  <2> HIDE DEF x
  <2>4. InvocationOK(x)
    BY <2>2, <2>3 DEF InvocationOK, PublishingOK, Making, Publishing, Verifying
  <2> QED  BY <2>1, <2>4, GotoKeeps DEF RebindFinish
<1> QED  BY <1>1, <1>2
-----------------------------------------------------------------------------
(* WriteRecord. *)

LEMMA StageIsOK ==
    ASSUME NEW stage \in {"rename", "remove", "retry"}
    PROVE  InvocationOK([stage |-> stage])
<1> DEFINE x == [stage |-> stage]
<1>1. x.stage = stage
  OBVIOUS
<1> HIDE DEF x
<1>2. InvocationOK(x)
  BY <1>1 DEF InvocationOK, PublishingOK, Making, Publishing, Verifying
<1> QED  BY <1>2 DEF x

\* A file that is emptied or has lost its name holds nothing.
LEMMA TornIsOK ==
    ASSUME IInv, NEW file \in Inodes \cup {None},
           content' = Unlinked(file) \/ content' = [content EXCEPT ![file] = Torn]
                                    \/ content' = content
    PROVE  /\ content' = [i \in Inodes |-> content'[i]]
           /\ \A i \in Inodes : content'[i] \in {Torn, content[i]} \/ SoundRecord(content'[i])
<1>1. content = [i \in Inodes |-> content[i]]
  BY DEF IInv, Types
<1>2. content' = [content EXCEPT ![file] = Torn] \/ content' = content
  BY DEF Unlinked
<1>3. content' = [i \in Inodes |-> content'[i]]
  BY <1>1, <1>2
<1>4. \A i \in Inodes : content'[i] = Torn \/ content'[i] = content[i]
  BY <1>1, <1>2
<1> QED  BY <1>3, <1>4

LEMMA WriteOpenKeeps == ASSUME IInv, NEW o \in Ops, WriteOpen(o) PROVE IInv'
<1> DEFINE file == IF temporary = None THEN o ELSE temporary
           x == [stage |-> "write", file |-> file, record |-> op[o].record]
<1>1. /\ temporary' = file /\ content' = [content EXCEPT ![file] = Torn] /\ Goto(o, x)
      /\ UNCHANGED << repository, toolchain, events, record, ghosts >>
  BY DEF WriteOpen
<1>2. file \in Inodes /\ record' \in Inodes \cup {None}
  BY <1>1 DEF IInv, Types, Inodes
<1> HIDE DEF file
<1>3. x.stage = "write" /\ x.file = file /\ x.record = op[o].record
  OBVIOUS
<1>4. SoundRecord(op[o].record)
  BY DEF IInv, Running, InvocationOK, PublishingOK, Publishing, WriteOpen
<1> HIDE DEF x
<1>5. InvocationOK(x)
  BY <1>2, <1>3, <1>4 DEF InvocationOK, PublishingOK, Making, Publishing, Verifying
<1>6. /\ content' = [i \in Inodes |-> content'[i]]
      /\ \A i \in Inodes : content'[i] \in {Torn, content[i]} \/ SoundRecord(content'[i])
  BY <1>1, <1>2, TornIsOK
<1> QED  BY <1>1, <1>2, <1>5, <1>6, InvocationKeeps

\* Two writers of one file leave the record of one of them, or nothing that decodes.
LEMMA WriteDataKeeps == ASSUME IInv, NEW o \in Ops, WriteData(o) PROVE IInv'
<1>1. PICK c \in {op[o].record, Torn} : content' = [content EXCEPT ![op[o].file] = c]
  BY DEF WriteData
<1>2. SoundRecord(op[o].record) /\ op[o].file \in Inodes
  BY DEF IInv, Running, InvocationOK, PublishingOK, Publishing, WriteData
<1>3. content = [i \in Inodes |-> content[i]]
  BY DEF IInv, Types
<1>4. content' = [i \in Inodes |-> content'[i]]
  BY <1>1, <1>2, <1>3
<1>5. \A i \in Inodes : content'[i] \in {Torn, content[i]} \/ content'[i] = op[o].record
  BY <1>1, <1>2, <1>3
<1>6. \A i \in Inodes : content'[i] \in {Torn, content[i]} \/ SoundRecord(content'[i])
  BY <1>2, <1>5
<1>7. /\ record' \in Inodes \cup {None} /\ temporary' \in Inodes \cup {None}
      /\ UNCHANGED << repository, toolchain, ghosts, events >> /\ Goto(o, [stage |-> "rename"])
  BY DEF IInv, Types, WriteData
<1>8. InvocationOK([stage |-> "rename"])
  BY StageIsOK
<1> QED  BY <1>4, <1>6, <1>7, <1>8, InvocationKeeps

LEMMA PublishKeeps ==
    ASSUME IInv, NEW o \in Ops, NEW onError \in {"over", "remove"}, Publish(o, onError),
           UNCHANGED << repository, toolchain, events, ghosts >>
    PROVE  IInv'
<1>0. record \in Inodes \cup {None} /\ temporary \in Inodes \cup {None}
  BY DEF IInv, Types
<1>1. CASE temporary # None
  <2>1. record' = temporary /\ temporary' = None /\ Goto(o, Over) /\ content' = Unlinked(record)
    BY <1>1 DEF Publish
  <2>2. /\ content' = [i \in Inodes |-> content'[i]]
        /\ \A i \in Inodes : content'[i] \in {Torn, content[i]} \/ SoundRecord(content'[i])
    BY <1>0, <2>1, TornIsOK
  <2> QED  BY <1>0, <2>1, <2>2, OverIsOK, InvocationKeeps
<1>2. CASE temporary = None
  <2>1. /\ Goto(o, IF onError = "over" THEN Over ELSE [stage |-> onError])
        /\ UNCHANGED disk
    BY <1>2 DEF Publish
  <2>2. CASE onError = "over"
    BY <2>1, <2>2, EndKeeps
  <2>3. CASE onError = "remove"
    BY <2>1, <2>3, StageIsOK, GotoKeeps
  <2> QED  BY <2>2, <2>3
<1> QED  BY <1>1, <1>2

LEMMA RenameFailsKeeps == ASSUME IInv, NEW o \in Ops, WriteRenameFails(o) PROVE IInv'
<1>0. /\ record' = record /\ record \in Inodes \cup {None} /\ temporary \in Inodes \cup {None}
      /\ UNCHANGED << repository, toolchain, ghosts >> /\ Event
  BY DEF IInv, Types, WriteRenameFails
<1>1. CASE op[o].stage = "rename"
  BY <1>0, <1>1, StageIsOK, GotoKeeps DEF WriteRenameFails, disk
<1>2. CASE op[o].stage # "rename"
  <2>1. Goto(o, Over) /\ temporary' = None /\ content' = Unlinked(temporary)
    BY <1>2 DEF WriteRenameFails
  <2>2. /\ content' = [i \in Inodes |-> content'[i]]
        /\ \A i \in Inodes : content'[i] \in {Torn, content[i]} \/ SoundRecord(content'[i])
    BY <1>0, <2>1, TornIsOK
  <2> QED  BY <1>0, <2>1, <2>2, OverIsOK, InvocationKeeps
<1> QED  BY <1>1, <1>2

LEMMA RemoveKeeps == ASSUME IInv, NEW o \in Ops, WriteRemove(o) PROVE IInv'
<1>0. /\ record \in Inodes \cup {None} /\ temporary' \in Inodes \cup {None}
      /\ record' = None /\ content' = Unlinked(record) /\ Goto(o, [stage |-> "retry"])
      /\ UNCHANGED << repository, toolchain, events, ghosts >>
  BY DEF IInv, Types, WriteRemove
<1>1. /\ content' = [i \in Inodes |-> content'[i]]
      /\ \A i \in Inodes : content'[i] \in {Torn, content[i]} \/ SoundRecord(content'[i])
  BY <1>0, TornIsOK
<1> QED  BY <1>0, <1>1, StageIsOK, InvocationKeeps
-----------------------------------------------------------------------------
(* Verify. *)

\* A state of a verification, field by field.
LEMMA VerifyingIs ==
    ASSUME NEW stage, NEW loaded, NEW file, NEW allow, NEW quiet
    PROVE  LET x == [kind |-> "verify", stage |-> stage, loaded |-> loaded, file |-> file,
                     allow |-> allow, quiet |-> quiet]
           IN  /\ x = [kind |-> "verify", stage |-> x.stage, loaded |-> x.loaded,
                       file |-> x.file, allow |-> x.allow, quiet |-> x.quiet]
               /\ x.stage = stage /\ x.loaded = loaded /\ x.file = file /\ x.allow = allow
               /\ x.quiet = quiet
OBVIOUS

LEMMA VerifyStartKeeps == ASSUME IInv, NEW o \in Ops, VerifyStart(o) PROVE IInv'
<1>1. PICK allow \in BOOLEAN :
        /\ requireFreshAggregateExecution(Read(record), allow)
        /\ Goto(o, [kind |-> "verify", stage |-> "census", loaded |-> Loaded,
                    file |-> Read(record), allow |-> allow, quiet |-> TRUE])
  BY DEF VerifyStart
<1> DEFINE x == [kind |-> "verify", stage |-> "census", loaded |-> Loaded,
                 file |-> Read(record), allow |-> allow, quiet |-> TRUE]
<1>2. /\ x = [kind |-> "verify", stage |-> x.stage, loaded |-> x.loaded, file |-> x.file,
              allow |-> x.allow, quiet |-> x.quiet]
      /\ x.stage = "census" /\ x.loaded = Loaded /\ x.file = Read(record) /\ x.allow = allow
  BY VerifyingIs
<1>3. SoundRecord(Read(record))
  BY LoadedIsSound DEF VerifyStart
<1>4. Loaded.selected = SelectedBy(files)
  BY DEF Loaded
<1>5. Goto(o, x)
  BY <1>1
<1> HIDE DEF x
<1>6. InvocationOK(x)
  <2>1. Undisturbed(x)
    BY <1>2, <1>4 DEF Undisturbed
  <2>2. VerifyingOK(x)
    BY <1>1, <1>2, <1>3, <2>1 DEF VerifyingOK
  <2> QED  BY <1>2, <2>2 DEF InvocationOK, Making, Publishing, Verifying
<1> QED  BY <1>5, <1>6, GotoKeeps DEF VerifyStart, Start, EventUnless

\* A verification goes on with what it has, and with what it has found out.
LEMMA VerifyGoesOn ==
    ASSUME IInv, NEW o \in Ops, op[o].stage \in Verifying, NEW stage \in Verifying,
           Goto(o, [op[o] EXCEPT !.stage = stage]),
           stage = "end" /\ ~op[o].allow =>
              Proven(op[o].file.repository.tree, op[o].file.toolchain),
           op[o].quiet =>
              /\ stage \in {"check", "end"} =>
                   op[o].file.census \in Census(files, head, op[o].file.repository.base,
                                                op[o].loaded.selected,
                                                Plans[op[o].loaded.plan].excluded)
              /\ stage = "end" =>
                   op[o].file.repository \in Materialized(files, op[o].file.repository.base),
           UNCHANGED << repository, toolchain, events, disk, ghosts >>
    PROVE  IInv'
<1> DEFINE y == op[o]
           x == [kind |-> "verify", stage |-> stage, loaded |-> y.loaded, file |-> y.file,
                 allow |-> y.allow, quiet |-> y.quiet]
<1>1. VerifyingOK(y)
  BY DEF IInv, Running, InvocationOK
<1>2. [y EXCEPT !.stage = stage] = x
  BY <1>1 DEF VerifyingOK
<1>3. Goto(o, x)
  BY <1>2
<1>4. /\ x = [kind |-> "verify", stage |-> x.stage, loaded |-> x.loaded, file |-> x.file,
              allow |-> x.allow, quiet |-> x.quiet]
      /\ x.stage = stage /\ x.loaded = y.loaded /\ x.file = y.file /\ x.allow = y.allow
      /\ x.quiet = y.quiet
  BY VerifyingIs
<1> HIDE DEF x
<1>5. Undisturbed(x)
  BY <1>1, <1>4 DEF Undisturbed, VerifyingOK
<1>6. VerifyingOK(x)
  BY <1>1, <1>4, <1>5 DEF VerifyingOK
<1>7. InvocationOK(x)
  BY <1>4, <1>6 DEF InvocationOK, Making, Publishing, Verifying
<1> QED  BY <1>3, <1>7, GotoKeeps

LEMMA VerifyCensusKeeps == ASSUME IInv, NEW o \in Ops, VerifyCensus(o) PROVE IInv'
<1>0. /\ op[o].stage \in Verifying /\ "check" \in Verifying
      /\ UNCHANGED << repository, toolchain, events, disk, ghosts >>
  BY DEF VerifyCensus, Verifying
<1>1. CASE op[o].file.census \in CensusFor(o, op[o].file.repository.base)
  BY <1>0, <1>1, VerifyGoesOn DEF VerifyCensus, CensusFor
<1>2. CASE op[o].file.census \notin CensusFor(o, op[o].file.repository.base)
  BY <1>0, <1>2, EndKeeps DEF VerifyCensus
<1> QED  BY <1>1, <1>2

\* A fresh record that was not admitted as reused is one whose log shows an execution, and
\* its toolchain is the one the gate was executed with.
LEMMA FreshIsProven ==
    ASSUME IInv, NEW r, SoundRecord(r), NEW plan, Fresh(r, plan), r.kind # "reused"
    PROVE  Proven(r.repository.tree, r.toolchain)
<1>1. /\ r.log = "executed" /\ "aggregate" \in r.commands
      /\ r.toolchain = toolchain /\ r.aggregateSem = Semantic(r.repository.tree)
  BY DEF Fresh, requireProvenanceMatchesAggregateLog, OutcomesHold, CommandNames, SoundRecord
<1>2. PICK e \in executed : r.toolchain <= e.toolchain /\ Semantic(e.tree) = r.aggregateSem
  BY <1>1 DEF SoundRecord, ExecutionBehind
<1>3. e.toolchain \in Nat /\ e.toolchain <= toolchain /\ ManifestIsValid(e.tree)
  BY CleanTreeAssumption DEF IInv, Executions, Toolchains
<1>4. e.toolchain = r.toolchain
  BY <1>1, <1>2, <1>3 DEF SoundRecord
<1>5. Semantic(e.tree) = Semantic(r.repository.tree)
  BY <1>1, <1>2
<1>6. \A p \in Executable : e.tree[p] = r.repository.tree[p]
  BY <1>3, <1>5, SemanticCoversExecutable
<1> QED  BY <1>4, <1>5, <1>6 DEF Proven

LEMMA VerifyCheckKeeps == ASSUME IInv, NEW o \in Ops, VerifyCheck(o) PROVE IInv'
<1>0. /\ op[o].stage \in Verifying /\ "end" \in Verifying /\ op[o].stage = "check"
      /\ UNCHANGED << repository, toolchain, events, disk, ghosts >>
  BY DEF VerifyCheck, Verifying
<1>1. CASE ~Fresh(op[o].file, Plans[op[o].loaded.plan])
  BY <1>0, <1>1, EndKeeps DEF VerifyCheck
<1>2. CASE Fresh(op[o].file, Plans[op[o].loaded.plan])
  <2>1. VerifyingOK(op[o])
    BY <1>0 DEF IInv, Running, InvocationOK
  <2>2. ~op[o].allow => Proven(op[o].file.repository.tree, op[o].file.toolchain)
    BY <1>2, <2>1, FreshIsProven DEF VerifyingOK, requireFreshAggregateExecution
  <2>3. op[o].file.repository \in Materialized(files, op[o].file.repository.base)
    BY <1>2 DEF Fresh
  <2>4. op[o].quiet =>
           op[o].file.census \in Census(files, head, op[o].file.repository.base,
                                        op[o].loaded.selected, Plans[op[o].loaded.plan].excluded)
    BY <1>0, <2>1 DEF VerifyingOK, Undisturbed
  <2>5. Goto(o, [op[o] EXCEPT !.stage = "end"])
    BY <1>2 DEF VerifyCheck
  <2> QED  BY <1>0, <2>2, <2>3, <2>4, <2>5, VerifyGoesOn
<1> QED  BY <1>1, <1>2

\* What an undisturbed verification accepts is the worktree, but the reviewed exclusions.
LEMMA QuietIsTheWorktree ==
    ASSUME NEW x, Undisturbed(x), x.quiet, x.stage = "end", NEW p \in Paths
    PROVE  files[p] = x.file.repository.tree[p] \/ p \in x.file.census.excluded
<1> DEFINE base == x.file.repository.base
<1>1. /\ x.loaded.selected = SelectedBy(files)
      /\ x.file.census \in Census(files, head, base, x.loaded.selected,
                                   Plans[x.loaded.plan].excluded)
      /\ x.file.repository \in Materialized(files, base)
  BY DEF Undisturbed
<1>2. x.file.repository.tree = Staged(files, base)
  BY <1>1, MaterializedIs
<1>3. CASE p \in SelectedBy(files)
  BY <1>2, <1>3 DEF Staged
<1>4. CASE p \notin SelectedBy(files)
  <2>1. x.file.repository.tree[p] = Last(base)[p]
    BY <1>2, <1>4 DEF Staged
  <2> QED  BY <1>1, <1>4, <2>1, CensusAccounts
<1> QED  BY <1>3, <1>4

LEMMA VerifyEndKeeps == ASSUME IInv, NEW o \in Ops, VerifyEnd(o) PROVE IInv'
<1>1. CASE ~(Preserved(o) /\ Read(record) = op[o].file)
  BY <1>1, EndKeeps DEF VerifyEnd, ghosts
<1>2. CASE Preserved(o) /\ Read(record) = op[o].file
  <2> DEFINE y == op[o]
             a == [tree |-> y.file.repository.tree, toolchain |-> y.file.toolchain,
                   allow |-> y.allow, quiet |-> y.quiet, worktree |-> files,
                   excluded |-> y.file.census.excluded]
  <2>0. /\ Types /\ Executions /\ Stored /\ Running
    BY DEF IInv
  <2>1. /\ accepted' = a /\ op' = [op EXCEPT ![o] = Over] /\ op = [p \in Ops |-> op[p]]
        /\ UNCHANGED << repository, toolchain, events, disk, gateReports, executed >>
    BY <1>2, <2>0 DEF VerifyEnd, Goto, Types
  <2>2. VerifyingOK(y) /\ y.stage = "end"
    BY <2>0 DEF VerifyEnd, Running, InvocationOK, Verifying
  <2>3. /\ a.tree = y.file.repository.tree /\ a.toolchain = y.file.toolchain
        /\ a.allow = y.allow /\ a.quiet = y.quiet /\ a.worktree = files
        /\ a.excluded = y.file.census.excluded
    OBVIOUS
  <2> HIDE DEF a
  <2>4. Grows
    BY <2>0, <2>1 DEF Grows, Types
  <2>5. Running'
    <3>1. \A x : InvocationOK(x) => InvocationOK(x)'
      BY <2>1, <2>4, InvocationKept
    <3>2. \A p \in Ops : InvocationOK(op'[p])
      BY <2>0, <2>1, OverIsOK DEF Running
    <3> QED  BY <3>1, <3>2 DEF Running
  <2>6. Types' /\ Executions'
    BY <2>0, <2>1 DEF Types, Executions, repository, disk, Reports
  <2>7. Stored'
    BY <2>0, <2>1, <2>4, SoundKept DEF Stored, disk
  <2>8. VerifiedMeansExecuted'
    <3>1. ~a.allow => Proven(a.tree, a.toolchain)
      BY <2>2, <2>3 DEF VerifyingOK
    <3> QED  BY <2>1, <3>1 DEF VerifiedMeansExecuted, Proven
  <2>9. AcceptedIsTheWorktree'
    <3>1. a.quiet => \A p \in Paths : a.worktree[p] = a.tree[p] \/ p \in a.excluded
      BY <2>2, <2>3, QuietIsTheWorktree DEF VerifyingOK
    <3> QED  BY <2>1, <3>1 DEF AcceptedIsTheWorktree
  <2> QED  BY <2>5, <2>6, <2>7, <2>8, <2>9 DEF IInv
<1> QED  BY <1>1, <1>2
-----------------------------------------------------------------------------
(* The environment. *)

LEMMA QuietReplaced ==
    ASSUME NEW y, NEW quiet,
           y = [kind |-> "verify", stage |-> y.stage, loaded |-> y.loaded, file |-> y.file,
                allow |-> y.allow, quiet |-> y.quiet]
    PROVE  [y EXCEPT !.quiet = quiet] =
           [kind |-> "verify", stage |-> y.stage, loaded |-> y.loaded, file |-> y.file,
            allow |-> y.allow, quiet |-> quiet]
OBVIOUS

\* A change of the repository is noticed by what is being verified, and by nothing else.
LEMMA DisturbKeeps ==
    ASSUME IInv, Disturb, files' \in Trees, head' \in Seq(Trees), head' # << >>,
           UNCHANGED << toolchain, disk, ghosts >>, Event \/ UNCHANGED events
    PROVE  IInv'
<1>0. /\ Types /\ Executions /\ Stored /\ Running /\ VerifiedMeansExecuted
      /\ AcceptedIsTheWorktree
  BY DEF IInv
<1>1. Grows
  BY <1>0 DEF Grows, Types, ghosts
<1>2. ASSUME NEW o \in Ops PROVE InvocationOK(op[o])'
  <2>1. InvocationOK(op[o])
    BY <1>0 DEF Running
  <2>2. CASE op[o].stage \notin Verifying
    <3>1. op'[o] = op[o]
      BY <2>2 DEF Disturb, Verifying
    <3>2. \A x : InvocationOK(x) /\ x.stage \notin Verifying => InvocationOK(x)'
      BY <1>1, InvocationKept
    <3> QED  BY <2>1, <2>2, <3>1, <3>2
  <2>3. CASE op[o].stage \in Verifying
    <3> DEFINE y == op[o]
               x == [kind |-> "verify", stage |-> y.stage, loaded |-> y.loaded,
                     file |-> y.file, allow |-> y.allow, quiet |-> FALSE]
    <3>1. VerifyingOK(y)
      BY <2>1, <2>3 DEF InvocationOK
    <3>2. op'[o] = [y EXCEPT !.quiet = FALSE]
      BY <2>3 DEF Disturb, Verifying
    <3>3. op'[o] = x
      BY <3>1, <3>2, QuietReplaced, Zenon DEF VerifyingOK
    <3>4. /\ x = [kind |-> "verify", stage |-> x.stage, loaded |-> x.loaded, file |-> x.file,
                  allow |-> x.allow, quiet |-> x.quiet]
          /\ x.stage = y.stage /\ x.loaded = y.loaded /\ x.file = y.file /\ x.allow = y.allow
      BY VerifyingIs
    <3>5. ~x.quiet
      BY Zenon
    <3> HIDE DEF x
    <3>6. VerifyingOK(x)
      BY <3>1, <3>4, <3>5 DEF VerifyingOK, Undisturbed
    <3>7. InvocationOK(x)
      BY <2>3, <3>4, <3>6 DEF InvocationOK, Making, Publishing, Verifying
    <3>8. \A z : InvocationOK(z) /\ ~z.quiet => InvocationOK(z)'
      BY <1>1, InvocationKept
    <3> QED  BY <3>3, <3>5, <3>7, <3>8
  <2> QED  BY <2>2, <2>3
<1>3. Running'
  BY <1>2 DEF Running
<1>4. Types'
  <2>1. toolchain' \in Nat /\ toolchain' <= events' /\ events' \in 0 .. MaxEvents
    BY <1>0, EventsGrow, CleanTreeAssumption DEF Types
  <2>2. op' = [o \in Ops |-> op'[o]]
    BY DEF Disturb
  <2> QED  BY <1>0, <2>1, <2>2 DEF Types, disk, ghosts, Reports
<1>5. Executions'
  BY <1>0 DEF Executions, ghosts
<1>6. Stored'
  BY <1>0, <1>1, SoundKept DEF Stored, disk
<1>7. VerifiedMeansExecuted' /\ AcceptedIsTheWorktree'
  BY <1>0 DEF VerifiedMeansExecuted, AcceptedIsTheWorktree, ghosts
<1> QED  BY <1>3, <1>4, <1>5, <1>6, <1>7 DEF IInv

LEMMA EditKeeps == ASSUME IInv, EditFile PROVE IInv'
<1>0. PICK p \in Paths : \E c \in Contents[p] : files' = [files EXCEPT ![p] = c]
  BY DEF EditFile
<1>1. PICK c \in Contents[p] : files' = [files EXCEPT ![p] = c]
  BY <1>0
<1>2. files \in Trees /\ head \in Seq(Trees) /\ head # << >>
  BY DEF IInv, Types
<1>3. files' \in Trees
  BY <1>1, <1>2 DEF Trees
<1> QED  BY <1>2, <1>3, DisturbKeeps DEF EditFile

LEMMA CommitKeeps == ASSUME IInv, Commit PROVE IInv'
<1>1. files \in Trees /\ head \in Seq(Trees) /\ head # << >>
  BY DEF IInv, Types
<1>2. Front(head) \in Seq(Trees)
  BY <1>1 DEF Front
<1>3. head' \in Seq(Trees) /\ head' # << >>
  BY <1>1, <1>2 DEF Commit
<1> QED  BY <1>1, <1>3, DisturbKeeps DEF Commit

\* The toolchain, a record's kind or the retained reports change.
LEMMA OutsideKeeps ==
    ASSUME IInv, UNCHANGED << files, head, op, record, temporary, executed, accepted >>,
           Event \/ UNCHANGED events,
           toolchain' = toolchain \/ (Event /\ toolchain' = toolchain + 1),
           gateReports \subseteq gateReports',
           gateReports' \subseteq Reports({g.workspace : g \in gateReports'}),
           content' = [i \in Inodes |-> content'[i]],
           \A i \in Inodes : content'[i] = content[i] \/ SoundRecord(content'[i])
    PROVE  IInv'
<1>0. /\ Types /\ Executions /\ Stored /\ Running /\ VerifiedMeansExecuted
      /\ AcceptedIsTheWorktree
  BY DEF IInv
<1>1. /\ toolchain' \in Nat /\ toolchain \in Nat /\ toolchain <= toolchain'
      /\ toolchain' <= events' /\ events' \in 0 .. MaxEvents
  BY <1>0, CleanTreeAssumption DEF Types, Event
<1>2. Grows
  BY <1>1 DEF Grows
<1>3. Types'
  BY <1>0, <1>1 DEF Types
<1>4. Executions'
  BY <1>0, <1>1, CleanTreeAssumption DEF Executions, Toolchains
<1>5. Stored'
  <2>1. \A i \in Inodes : content'[i] = Torn \/ SoundRecord(content'[i])
    BY <1>0 DEF Stored
  <2>2. \A r : SoundRecord(r) => SoundRecord(r)'
    BY <1>2, SoundKept
  <2>3. ASSUME NEW i \in Inodes PROVE (content[i] = Torn \/ SoundRecord(content[i]))'
    BY <2>1, <2>2 DEF SoundRecord, ExecutionBehind, ReportBehind
  <2> QED  BY <2>3 DEF Stored
<1>6. Running'
  <2>1. \A x : InvocationOK(x) => InvocationOK(x)'
    BY <1>2, InvocationKept DEF repository
  <2> QED  BY <1>0, <2>1 DEF Running
<1>7. VerifiedMeansExecuted' /\ AcceptedIsTheWorktree'
  BY <1>0 DEF VerifiedMeansExecuted, AcceptedIsTheWorktree
<1> QED  BY <1>3, <1>4, <1>5, <1>6, <1>7 DEF IInv

LEMMA UpgradeKeeps == ASSUME IInv, UpgradeToolchain PROVE IInv'
<1>1. /\ gateReports' \subseteq Reports({g.workspace : g \in gateReports'})
      /\ content' = [i \in Inodes |-> content'[i]]
  BY DEF IInv, Types, UpgradeToolchain, disk, ghosts
<1> QED  BY <1>1, OutsideKeeps DEF UpgradeToolchain, disk, ghosts, repository

\* A hand edit of the kind does not touch the log.
LEMMA EditKindKeeps == ASSUME IInv, EditKind PROVE IInv'
<1>1. PICK kind : content' = [content EXCEPT ![record].kind = kind]
  BY DEF EditKind
<1>2. record \in Inodes /\ content[record] # Torn /\ content = [i \in Inodes |-> content[i]]
  BY DEF EditKind, Read, IInv, Types
<1> DEFINE old == content[record]
           new == [old EXCEPT !.kind = kind]
<1>3. SoundRecord(old)
  BY <1>2 DEF IInv, Stored
<1>4. content' = [content EXCEPT ![record] = new]
  BY <1>1
<1> HIDE DEF old
<1>5. new = [kind |-> kind, status |-> old.status, repository |-> old.repository,
             census |-> old.census, toolchain |-> old.toolchain,
             aggregateSem |-> old.aggregateSem, report |-> old.report,
             commands |-> old.commands, log |-> old.log, previous |-> old.previous]
  BY <1>3 DEF SoundRecord
<1> HIDE DEF new
<1>6. SoundRecord(new)
  BY <1>3, <1>5 DEF SoundRecord, ExecutionBehind, ReportBehind
<1>7. content' = [i \in Inodes |-> content'[i]]
  BY <1>2, <1>4
<1>8. \A i \in Inodes : content'[i] = content[i] \/ content'[i] = new
  BY <1>2, <1>4
<1>9. \A i \in Inodes : content'[i] = content[i] \/ SoundRecord(content'[i])
  BY <1>6, <1>8
<1>10. gateReports' = gateReports /\ gateReports' \subseteq Reports({g.workspace : g \in gateReports'})
  BY DEF IInv, Types, EditKind, ghosts
<1> QED  BY <1>7, <1>9, <1>10, OutsideKeeps DEF EditKind, ghosts, repository

LEMMA RetainKeeps == ASSUME IInv, RetainGateReport PROVE IInv'
<1>1. PICK proven \in BOOLEAN :
        /\ EventUnless(proven)
        /\ gateReports' =
             gateReports \cup {[workspace |-> WorkspaceDigest(files, Last(head)),
                                toolchain |-> toolchain, proven |-> proven]}
  BY DEF RetainGateReport
<1>2. toolchain \in Toolchains /\ gateReports \subseteq Reports({g.workspace : g \in gateReports})
  BY CleanTreeAssumption DEF IInv, Types, Toolchains
<1>3. gateReports' \subseteq Reports({g.workspace : g \in gateReports'})
  BY <1>1, <1>2 DEF Reports
<1>4. content' = [i \in Inodes |-> content'[i]] /\ content' = content
  BY DEF IInv, Types, RetainGateReport, disk
<1> QED  BY <1>1, <1>3, <1>4, OutsideKeeps DEF RetainGateReport, EventUnless, disk, repository
-----------------------------------------------------------------------------
(* The invariant, and what follows from it. *)

LEMMA InitHolds == ASSUME Init PROVE IInv
<1> USE DEF Init
<1>1. Types
  <2>1. files \in Trees /\ head \in Seq(Trees) /\ head # << >>
    BY CleanTreeAssumption
  <2>2. toolchain \in Nat /\ toolchain <= events /\ events \in 0 .. MaxEvents
    BY CleanTreeAssumption
  <2>3. op = [o \in Ops |-> op[o]] /\ content = [i \in Inodes |-> content[i]]
    OBVIOUS
  <2> QED  BY <2>1, <2>2, <2>3 DEF Types
<1>2. Executions
  BY DEF Executions
<1>3. Stored
  BY DEF Stored
<1>4. InvocationOK(Idle)
  BY DEF InvocationOK, Idle, Making, Publishing, Verifying
<1>5. Running
  BY <1>4 DEF Running
<1>6. VerifiedMeansExecuted /\ AcceptedIsTheWorktree
  BY DEF VerifiedMeansExecuted, AcceptedIsTheWorktree
<1> QED  BY <1>1, <1>2, <1>3, <1>5, <1>6 DEF IInv

LEMMA StutterKeeps == ASSUME IInv, UNCHANGED vars PROVE IInv'
<1>1. /\ gateReports' \subseteq Reports({g.workspace : g \in gateReports'})
      /\ content' = [i \in Inodes |-> content'[i]]
  BY DEF IInv, Types, vars, disk, ghosts
<1> QED  BY <1>1, OutsideKeeps DEF vars, disk, ghosts, repository

LEMMA InvariantHolds == Spec => []IInv
<1>1. Init => IInv
  BY InitHolds
<1>2. ASSUME IInv, [Next]_vars PROVE IInv'
  <2>1. ASSUME NEW o \in Ops,
               CaptureStart(o) \/ CaptureMaterialize(o) \/ CaptureCollect(o)
                 \/ CaptureExecute(o) \/ CaptureReuse(o) \/ CaptureFinish(o)
        PROVE  IInv'
    BY <1>2, <2>1, CaptureStartKeeps, CaptureMaterializeKeeps, CaptureCollectKeeps,
       CaptureExecuteKeeps, CaptureReuseKeeps, CaptureFinishKeeps
  <2>2. ASSUME NEW o \in Ops,
               RebindStart(o) \/ RebindMaterialize(o) \/ RebindCollect(o) \/ RebindFinish(o)
        PROVE  IInv'
    BY <1>2, <2>2, RebindStartKeeps, RebindMaterializeKeeps, RebindCollectKeeps,
       RebindFinishKeeps
  <2>3. ASSUME NEW o \in Ops,
               WriteOpen(o) \/ WriteData(o) \/ WriteRemove(o) \/ WriteRenameFails(o)
        PROVE  IInv'
    BY <1>2, <2>3, WriteOpenKeeps, WriteDataKeeps, RemoveKeeps, RenameFailsKeeps
  <2>4. ASSUME NEW o \in Ops, WriteRename(o) \/ WriteRetry(o) PROVE IInv'
    BY <1>2, <2>4, PublishKeeps DEF WriteRename, WriteRetry
  <2>5. ASSUME NEW o \in Ops,
               VerifyStart(o) \/ VerifyCensus(o) \/ VerifyCheck(o) \/ VerifyEnd(o)
        PROVE  IInv'
    BY <1>2, <2>5, VerifyStartKeeps, VerifyCensusKeeps, VerifyCheckKeeps, VerifyEndKeeps
  <2>6. ASSUME NEW o \in Ops, Crash(o) PROVE IInv'
    BY <1>2, <2>6, EndKeeps DEF Crash
  <2>7. CASE EditFile
    BY <1>2, <2>7, EditKeeps
  <2>8. CASE Commit
    BY <1>2, <2>8, CommitKeeps
  <2>9. CASE UpgradeToolchain
    BY <1>2, <2>9, UpgradeKeeps
  <2>10. CASE EditKind
    BY <1>2, <2>10, EditKindKeeps
  <2>11. CASE RetainGateReport
    BY <1>2, <2>11, RetainKeeps
  <2>12. CASE UNCHANGED vars
    BY <1>2, <2>12, StutterKeeps
  <2> QED  BY <1>2, <2>1, <2>2, <2>3, <2>4, <2>5, <2>6, <2>7, <2>8, <2>9, <2>10, <2>11, <2>12
              DEF Next, Invocation
<1> QED  BY <1>1, <1>2, PTL DEF Spec

\* The types of the state, and that a record on its way to disk names the prose it replaced
\* exactly when it is re-bound (validateProvenance).
THEOREM TypeCorrect == Spec => []TypeOK
<1>1. ASSUME IInv PROVE TypeOK
  <2>1. \A n \in DOMAIN head : head[n] \in Trees
    BY <1>1 DEF IInv, Types
  <2>2. toolchain \in Toolchains
    BY <1>1, CleanTreeAssumption DEF IInv, Types, Toolchains
  <2>3. ASSUME NEW i \in Inodes PROVE content[i] = Torn \/ DOMAIN content[i] = RecordFields
    <3>1. \A r : SoundRecord(r) => DOMAIN r = RecordFields
      BY DEF SoundRecord, RecordFields
    <3> QED  BY <1>1, <3>1 DEF IInv, Stored
  <2>4. executed \subseteq [tree : Trees, toolchain : Toolchains]
    BY <1>1 DEF IInv, Executions
  <2>5. \A o \in Ops : op[o].stage = "open" =>
          (op[o].record.kind = "re-bound") = (op[o].record.previous # None)
    BY <1>1 DEF IInv, Running, InvocationOK, Publishing, PublishingOK, NamesWhatItReplaced
  <2> QED  BY <1>1, <2>1, <2>2, <2>3, <2>4, <2>5 DEF IInv, Types, TypeOK
<1> QED  BY <1>1, InvariantHolds, PTL

\* Whatever Verify accepts without opt-in was executed by a capture, on the same semantic
\* content and with the same toolchain, for any number of concurrent captures, re-bindings,
\* writers, crashes and edits of the record (Capture, Rebind, WriteRecord, Verify).
THEOREM VerifiedExecuted == Spec => []VerifiedMeansExecuted
<1>1. IInv => VerifiedMeansExecuted
  BY DEF IInv
<1> QED  BY <1>1, InvariantHolds, PTL

\* What Verify accepts undisturbed is the worktree but the reviewed exclusions, for any
\* repository, selection and history (Verify, collectDiffCensus, materializeFromBase).
THEOREM AcceptedWorktree == Spec => []AcceptedIsTheWorktree
<1>1. IInv => AcceptedIsTheWorktree
  BY DEF IInv
<1> QED  BY <1>1, InvariantHolds, PTL

\* A reused gate report stands behind a record of exactly the tree it was made of
\* (validateAggregateReport), whoever writes the evidence file meanwhile.
THEOREM ReuseExact == Spec => []ReuseIsExact
<1>1. ASSUME IInv PROVE ReuseIsExact
  <2>1. Loadable(Read(record)) => SoundRecord(Read(record))
    BY <1>1, LoadedIsSound
  <2> QED  BY <2>1 DEF ReuseIsExact, SoundRecord, ReportBehind
<1> QED  BY <1>1, InvariantHolds, PTL
=============================================================================
