-------------------------- MODULE CleanTreeRecord ---------------------------
(***************************************************************************)
(* The retained clean-tree evidence record: Capture, Rebind, Verify and    *)
(* WriteRecord of internal/cleantreeevidence, started by the commands      *)
(* clean-tree-evidence and check-clean-tree-evidence.                      *)
(*                                                                         *)
(* A record claims that the aggregate gate passed on the synthetic tree of *)
(* the worktree.  The tree has a semantic part, which the gate's verdict   *)
(* is about, and a prose part.  Capture executes the gate on the           *)
(* materialized tree, or reuses a retained gate report the caller names;   *)
(* Rebind carries the verdict over to a tree whose prose changed; Verify   *)
(* decides whether the record on disk is a proof for the worktree as it    *)
(* is.  Operators run these commands concurrently while files and          *)
(* toolchain change and commits are made, and someone may edit the         *)
(* provenance kind in the record by hand.                                  *)
(***************************************************************************)
EXTENDS Naturals, SyntheticTree, FiniteSets

CONSTANTS Ops,          \* command invocations
          None,
          Torn,         \* file content that does not decode
          InitialTree,
          MaxReports,   \* bound on the gate reports retained outside Capture
          MaxEvents     \* bound on what disturbs the invocations: changes of the
                        \* repository, the toolchain and the record, failing commands and
                        \* renames, incomplete reports, crashes, and invocations that
                        \* start while others run

ASSUME CleanTreeAssumption ==
    /\ MaxReports \in Nat /\ MaxEvents \in Nat
    /\ InitialTree \in Trees
    /\ \A tree \in Trees : Prose(tree) # None

VARIABLES
    files,       \* the caller's worktree
    head,        \* the commit at HEAD
    toolchain,
    events,      \* how many of those there were
    op,          \* the state of each invocation
    record,      \* the file at the evidence path: an inode, or None
    temporary,   \* the file at the evidence path with suffix .tmp
    content,     \* what each inode holds
    gateReports, \* retained reports of gate runs outside Capture
    executed,    \* tree and toolchain of gate executions in Capture
    accepted     \* what Verify has accepted last

disk == <<record, temporary, content>>
ghosts == <<gateReports, executed, accepted>>
repository == <<files, head>>
vars == <<repository, toolchain, events, op, disk, ghosts>>

Toolchains == 0 .. MaxEvents
\* The planned commands; the aggregate one is the gate.
CommandNames == {"tests", "aggregate"}

\* Record.  commands are those that passed, and log says whether the log of the aggregate
\* one carries the reuse marker; report is the aggregate run report, if there is one;
\* previous is PreviousProseDigest.
RecordFields ==
    {"kind", "status", "repository", "census", "toolchain", "aggregateSem",
     "report", "commands", "log", "previous"}

\* A report binds the workspace of its run; proven: it holds the observation and the
\* populations of every mutation proof of the plan.
Reports(workspaces) == [workspace : workspaces, toolchain : Toolchains, proven : BOOLEAN]

Inodes == Ops      \* an invocation creates at most one file

Idle == [stage |-> "idle"]

\* An invocation that has ended, whether well or not, or was cut off.
Over == [stage |-> "over"]

Event == events < MaxEvents /\ events' = events + 1

EventUnless(usual) == IF usual THEN UNCHANGED events ELSE Event

\* An invocation starts.
Start(o) ==
    /\ op[o] = Idle
    /\ EventUnless(\A p \in Ops : op[p] \in {Idle, Over})

Goto(o, fields) == op' = [op EXCEPT ![o] = fields]

Read(file) == IF file = None THEN None ELSE content[file]

\* Type invariant; a record whose provenance is re-bound, and only such a
\* record, names the prose it replaced (validateProvenance), unless its kind
\* was edited by hand.
TypeOK ==
    /\ files \in Trees
    /\ \A n \in DOMAIN head : head[n] \in Trees
    /\ toolchain \in Toolchains
    /\ events \in 0 .. MaxEvents
    /\ record \in Inodes \cup {None}
    /\ temporary \in Inodes \cup {None}
    /\ \A i \in Inodes : content[i] = Torn \/ DOMAIN content[i] = RecordFields
    /\ gateReports \subseteq Reports({g.workspace : g \in gateReports})
    /\ executed \subseteq [tree : Trees, toolchain : Toolchains]
    /\ \A o \in Ops : op[o].stage = "open" =>
          (op[o].record.kind = "re-bound") = (op[o].record.previous # None)

Init ==
    /\ files = InitialTree
    /\ head = <<InitialTree>>
    /\ toolchain = 0
    /\ events = 0
    /\ op = [o \in Ops |-> Idle]
    /\ record = None
    /\ temporary = None
    /\ content = [i \in Inodes |-> Torn]
    /\ gateReports = {}
    /\ executed = {}
    /\ accepted = None

------------------------------------------------------------------------------
(***************************************************************************)
(* Capture.                                                                *)
(***************************************************************************)

\* The digest of the materialized worktree, which is clean.
Workspace(identity) == WorkspaceDigest(identity.tree, identity.tree)

\* The plan and the selection an invocation works with are those it loads first; it goes on
\* only if they select its inputs.
Loaded == [plan |-> files["plan"], selected |-> SelectedBy(files),
           before |-> Snapshot(files, head)]

\* The census with what was loaded.
CensusFor(o, base) ==
    Census(files, head, base, op[o].loaded.selected, Plans[op[o].loaded.plan].excluded)

\* The plan of the materialized tree is the one loaded, and its ledger is as planned.
PlanHolds(o, tree) ==
    /\ tree["plan"] = op[o].loaded.plan
    /\ LedgersMatch(tree, Plans[op[o].loaded.plan])

\* The reports a caller can select: outside the repository, with an intact binding and the
\* toolchain of this process.
ReuseSelections == {None} \cup {g \in gateReports : g.toolchain = toolchain}

\* Up to the caller snapshot.
CaptureStart(o) ==
    /\ Start(o)
    /\ ProofInputsSelected(files)
    /\ \E reuse \in ReuseSelections :
         Goto(o, [kind |-> "capture", stage |-> "snapshot", loaded |-> Loaded,
                  reuse |-> reuse])
    /\ UNCHANGED <<repository, toolchain, disk, ghosts>>

\* Materialize on HEAD.
CaptureMaterialize(o) ==
    /\ op[o].stage = "snapshot" /\ op[o].kind = "capture"
    /\ \/ \E identity \in Materialized(files, head) :
            Goto(o, [kind |-> "capture", stage |-> "collect", loaded |-> op[o].loaded,
                     reuse |-> op[o].reuse, repository |-> identity])
       \/ /\ Materialized(files, head) = {}
          /\ Goto(o, Over)
    /\ UNCHANGED <<repository, toolchain, events, disk, ghosts>>

\* The census of the caller's worktree and the identities of inputs, ledgers and toolchain
\* in the materialized tree.
CaptureCollect(o) ==
    /\ op[o].stage = "collect" /\ op[o].kind = "capture"
    /\ LET identity == op[o].repository
           holds == PlanHolds(o, identity.tree)
           census == CensusFor(o, identity.base)
       IN  \/ \E c \in census :
                /\ holds
                /\ Goto(o, [kind |-> "capture", stage |-> "commands", loaded |-> op[o].loaded,
                            reuse |-> op[o].reuse, repository |-> identity, census |-> c,
                            toolchain |-> toolchain])
           \/ /\ census = {} \/ ~holds
              /\ Goto(o, Over)
    /\ UNCHANGED <<repository, toolchain, events, disk, ghosts>>

\* The commands that pass, of those executed; the others fail or time out.
ExecutedOutcomes(names) == SUBSET names

\* collectMutationProofs, from the report there is.
MutationsProven(report) == report # None /\ report.proven

\* The record of a capture.
CaptureRecord(o, kind, commands, report, tidy) ==
    [kind |-> kind,
     status |-> IF commands = CommandNames /\ MutationsProven(report) /\ tidy
                THEN "passed" ELSE "failed",
     repository |-> op[o].repository, census |-> op[o].census,
     toolchain |-> op[o].toolchain,
     aggregateSem |-> Semantic(op[o].repository.tree),
     report |-> report,
     commands |-> commands,
     log |-> IF kind = "reused" THEN "reused" ELSE "executed",
     previous |-> None]

Captured(o, r) ==
    Goto(o, [kind |-> "capture", stage |-> "after", loaded |-> op[o].loaded, record |-> r])

\* collectAggregateReport: a gate that passes leaves a report of the tree it ran in.
AggregateReport(o, proven) ==
    [workspace |-> Workspace(op[o].repository), toolchain |-> toolchain, proven |-> proven]

\* The planned commands run one after the other in the materialized tree with the toolchain
\* they find, whatever became of those before.  tidy: they leave the tree as it was.
CaptureExecute(o) ==
    /\ op[o].stage = "commands" /\ op[o].reuse = None
    /\ \E passed \in ExecutedOutcomes(CommandNames), tidy \in BOOLEAN, proven \in BOOLEAN :
         LET gatePassed == "aggregate" \in passed
             report == IF gatePassed THEN AggregateReport(o, proven) ELSE None
         IN  /\ EventUnless(passed = CommandNames /\ tidy /\ proven)
             /\ Captured(o, CaptureRecord(o, "generated", passed, report, tidy))
             /\ executed' = IF gatePassed
                            THEN executed \cup {[tree |-> op[o].repository.tree,
                                                 toolchain |-> toolchain]}
                            ELSE executed
    /\ UNCHANGED <<repository, toolchain, disk, gateReports, accepted>>

\* Mutant of ReuseBindsTree: the report is taken for whatever tree it is.
ReuseBindsAnyTree(o) == TRUE

\* validateAggregateReport: a reused report binds the materialized tree.
ReuseBindsTree(o) == op[o].reuse.workspace = Workspace(op[o].repository)

\* The other commands run; in the place of the aggregate one the report is admitted, or the
\* capture ends and nothing is published.
CaptureReuse(o) ==
    /\ op[o].stage = "commands" /\ op[o].reuse # None
    /\ \E passed \in ExecutedOutcomes(CommandNames \ {"aggregate"}), tidy \in BOOLEAN :
         /\ EventUnless("tests" \in passed /\ tidy)
         /\ IF ReuseBindsTree(o)
              THEN Captured(o, CaptureRecord(o, "reused", passed \cup {"aggregate"},
                                             op[o].reuse, tidy))
              ELSE Goto(o, Over)
    /\ UNCHANGED <<repository, toolchain, disk, ghosts>>

\* The caller's index and worktree are as they were before.
Preserved(o) == Snapshot(files, head) = op[o].loaded.before

\* The second caller snapshot decides the status; the record is published
\* whether it passed or failed.
CaptureFinish(o) ==
    /\ op[o].stage = "after" /\ op[o].kind = "capture"
    /\ Goto(o, [stage |-> "open",
                record |-> IF Preserved(o) THEN op[o].record
                           ELSE [op[o].record EXCEPT !.status = "failed"]])
    /\ UNCHANGED <<repository, toolchain, events, disk, ghosts>>

------------------------------------------------------------------------------
(***************************************************************************)
(* Rebind.                                                                 *)
(***************************************************************************)

\* LoadRecord and validateRecordHeader.
Loadable(r) == r \notin {None, Torn} /\ r.status = "passed"

\* The retained record is loaded, a reused one is refused and one whose base is no ancestor
\* of HEAD; caller snapshot.
RebindStart(o) ==
    /\ Start(o)
    /\ ProofInputsSelected(files)
    /\ Loadable(Read(record))
    /\ Read(record).kind # "reused"
    /\ IsAncestor(Read(record).repository.base, head)
    /\ Goto(o, [kind |-> "rebind", stage |-> "snapshot", loaded |-> Loaded,
                retained |-> Read(record)])
    /\ UNCHANGED <<repository, toolchain, disk, ghosts>>

\* Materialize on HEAD; semantic drift is refused.
RebindMaterialize(o) ==
    /\ op[o].stage = "snapshot" /\ op[o].kind = "rebind"
    /\ LET same == {i \in Materialized(files, head) :
                      Semantic(i.tree) = Semantic(op[o].retained.repository.tree)}
       IN  \/ \E identity \in same :
                Goto(o, [kind |-> "rebind", stage |-> "collect", loaded |-> op[o].loaded,
                         retained |-> op[o].retained, repository |-> identity])
           \/ same = {} /\ Goto(o, Over)
    /\ UNCHANGED <<repository, toolchain, events, disk, ghosts>>

\* The record Rebind derives from the retained one, if it derives one: no
\* toolchain drift, and an aggregate report attributed to this semantic content.
Rebound(retained, identity, census) ==
    IF /\ toolchain = retained.toolchain
       /\ retained.aggregateSem = Semantic(identity.tree)
       /\ MutationsProven(retained.report)
    THEN {[retained EXCEPT !.kind = "re-bound", !.repository = identity, !.census = census,
                           !.toolchain = toolchain,
                           !.previous = Prose(retained.repository.tree)]}
    ELSE {}

RebindCollect(o) ==
    /\ op[o].stage = "collect" /\ op[o].kind = "rebind"
    /\ LET identity == op[o].repository
           rebound == UNION {Rebound(op[o].retained, identity, census) :
                               census \in CensusFor(o, identity.base)}
           holds == PlanHolds(o, identity.tree)
       IN  \/ \E r \in rebound :
                /\ holds
                /\ Goto(o, [kind |-> "rebind", stage |-> "after", loaded |-> op[o].loaded,
                            record |-> r])
           \/ /\ rebound = {} \/ ~holds
              /\ Goto(o, Over)
    /\ UNCHANGED <<repository, toolchain, events, disk, ghosts>>

\* Unlike Capture, a disturbed caller state publishes nothing.
RebindFinish(o) ==
    /\ op[o].stage = "after" /\ op[o].kind = "rebind"
    /\ Goto(o, IF Preserved(o)
               THEN [stage |-> "open", record |-> op[o].record]
               ELSE Over)
    /\ UNCHANGED <<repository, toolchain, events, disk, ghosts>>

------------------------------------------------------------------------------
(***************************************************************************)
(* WriteRecord.  All invocations share the name of the temporary file.     *)
(***************************************************************************)

\* O_CREATE | O_TRUNC: an existing temporary file is emptied and written to.
WriteOpen(o) ==
    /\ op[o].stage = "open"
    /\ LET file == IF temporary = None THEN o ELSE temporary
       IN  /\ temporary' = file
           /\ content' = [content EXCEPT ![file] = Torn]
           /\ Goto(o, [stage |-> "write", file |-> file,
                       record |-> op[o].record])
    /\ UNCHANGED <<repository, toolchain, events, record, ghosts>>

\* Write, sync, close.  Over the data of another writer the longer of the two
\* shows: the file then does not decode.
WriteData(o) ==
    /\ op[o].stage = "write"
    /\ content' \in {[content EXCEPT ![op[o].file] = c] :
                       c \in IF content[op[o].file] = Torn
                             THEN {op[o].record} ELSE {op[o].record, Torn}}
    /\ Goto(o, [stage |-> "rename"])
    /\ UNCHANGED <<repository, toolchain, events, record, temporary, ghosts>>

\* A file that has lost its name.
Unlinked(file) == IF file = None THEN content ELSE [content EXCEPT ![file] = Torn]

\* Rename the temporary file over the record.
Publish(o, onError) ==
    IF temporary # None
    THEN /\ record' = temporary
         /\ temporary' = None
         /\ Goto(o, Over)
         /\ content' = Unlinked(record)
    ELSE /\ Goto(o, IF onError = "over" THEN Over ELSE [stage |-> onError])
         /\ UNCHANGED disk

WriteRename(o) ==
    /\ op[o].stage = "rename"
    /\ Publish(o, "remove")
    /\ UNCHANGED <<repository, toolchain, events, ghosts>>

\* The rename fails although the file is there.
WriteRenameFails(o) ==
    /\ op[o].stage \in {"rename", "retry"}
    /\ Event
    /\ IF op[o].stage = "rename"
         THEN /\ Goto(o, [stage |-> "remove"])
              /\ UNCHANGED <<temporary, content>>
         ELSE /\ Goto(o, Over)
              /\ temporary' = None /\ content' = Unlinked(temporary)
    /\ UNCHANGED <<repository, toolchain, record, ghosts>>

\* After a failed rename the old record is removed; a removal error ends it.
WriteRemove(o) ==
    /\ op[o].stage = "remove"
    /\ record' = None
    /\ content' = Unlinked(record)
    /\ Goto(o, [stage |-> "retry"])
    /\ UNCHANGED <<repository, toolchain, events, temporary, ghosts>>

WriteRetry(o) ==
    /\ op[o].stage = "retry"
    /\ Publish(o, "over")
    /\ UNCHANGED <<repository, toolchain, events, ghosts>>

------------------------------------------------------------------------------
(***************************************************************************)
(* Verify.                                                                 *)
(***************************************************************************)

requireFreshAggregateExecution(r, allow) == r.kind # "reused" \/ allow

\* Mutant: the log of the aggregate command is not compared with the kind.
IgnoreLog(r) == TRUE

requireProvenanceMatchesAggregateLog(r) == (r.kind = "reused") = (r.log = "reused")

\* The snapshot covers the record too; then plan, selection and record are loaded.  quiet:
\* nobody has touched the repository since.  (The flag that allows a reused record is given
\* only for a record that needs it: it makes no difference to others.)
VerifyStart(o) ==
    /\ Start(o)
    /\ ProofInputsSelected(files)
    /\ Loadable(Read(record))
    /\ IsAncestor(Read(record).repository.base, head)
    /\ \E allow \in {a \in BOOLEAN : requireFreshAggregateExecution(Read(record), a)} :
         /\ allow => ~requireFreshAggregateExecution(Read(record), FALSE)
         /\ Goto(o, [kind |-> "verify", stage |-> "census", loaded |-> Loaded,
                     file |-> Read(record), allow |-> allow, quiet |-> TRUE])
    /\ UNCHANGED <<repository, toolchain, disk, ghosts>>

\* The census against the retained base is the retained one.
VerifyCensus(o) ==
    /\ op[o].stage = "census"
    /\ Goto(o, IF op[o].file.census \in CensusFor(o, op[o].file.repository.base)
               THEN [op[o] EXCEPT !.stage = "check"]
               ELSE Over)
    /\ UNCHANGED <<repository, toolchain, events, disk, ghosts>>

\* verifyCommands and verifyMutationProofs.
OutcomesHold(r) == r.commands = CommandNames /\ MutationsProven(r.report)

\* The tree is materialized on the retained base and every identity recomputed and compared.
Fresh(r, plan) ==
    /\ r.repository \in Materialized(files, r.repository.base)
    /\ r.aggregateSem = Semantic(r.repository.tree)
    /\ (r.kind = "re-bound") = (r.previous # None)
    /\ Inputs(r.repository.tree) = Inputs(files)
    /\ r.toolchain = toolchain
    /\ LedgersMatch(files, plan)
    /\ requireProvenanceMatchesAggregateLog(r)
    /\ OutcomesHold(r)
    /\ r.kind # "re-bound" => r.report.workspace = Workspace(r.repository)

VerifyCheck(o) ==
    /\ op[o].stage = "check"
    /\ Goto(o, IF Fresh(op[o].file, Plans[op[o].loaded.plan])
               THEN [op[o] EXCEPT !.stage = "end"]
               ELSE Over)
    /\ UNCHANGED <<repository, toolchain, events, disk, ghosts>>

\* The caller state, the record included, must be the one found at the start.
VerifyEnd(o) ==
    /\ op[o].stage = "end"
    /\ IF Preserved(o) /\ Read(record) = op[o].file
         THEN /\ Goto(o, Over)
              /\ accepted' =
                   [tree |-> op[o].file.repository.tree, toolchain |-> op[o].file.toolchain,
                     allow |-> op[o].allow, quiet |-> op[o].quiet, worktree |-> files,
                     excluded |-> op[o].file.census.excluded]
         ELSE /\ Goto(o, Over)
              /\ UNCHANGED accepted
    /\ UNCHANGED <<repository, toolchain, events, disk, gateReports, executed>>

------------------------------------------------------------------------------
(***************************************************************************)
(* The environment.                                                        *)
(***************************************************************************)

\* A process is cut off; the files stay as they are.
Crash(o) ==
    /\ op[o] \notin {Idle, Over}
    /\ Event
    /\ Goto(o, Over)
    /\ UNCHANGED <<repository, toolchain, disk, ghosts>>

\* The repository changes under the running invocations.
Disturb ==
    op' = [o \in Ops |-> IF op[o].stage \in {"census", "check", "end"}
                         THEN [op[o] EXCEPT !.quiet = FALSE] ELSE op[o]]

\* A file is edited, made or removed.
EditFile ==
    /\ Event
    /\ \E p \in Paths : \E c \in Contents[p] \ {files[p]} : files' = [files EXCEPT ![p] = c]
    /\ Disturb
    /\ UNCHANGED <<head, toolchain, disk, ghosts>>

\* Everything is committed, on top of HEAD or in its place.
Commit ==
    /\ Event
    /\ files # Last(head)
    /\ head' \in {Append(head, files), Append(Front(head), files)}
    /\ Disturb
    /\ UNCHANGED <<files, toolchain, disk, ghosts>>

UpgradeToolchain ==
    /\ Event
    /\ toolchain' = toolchain + 1
    /\ UNCHANGED <<repository, op, disk, ghosts>>

\* The provenance kind of the record is edited by hand.
EditKind ==
    /\ Event
    /\ Read(record) \notin {None, Torn}
    /\ \E kind \in {"generated", "re-bound", "reused"} \ {Read(record).kind} :
         content' = [content EXCEPT ![record].kind = kind]
    /\ UNCHANGED <<repository, toolchain, op, record, temporary, ghosts>>

\* A gate run outside Capture passes and retains an admissible report.
RetainGateReport ==
    /\ Cardinality(gateReports) < MaxReports
    /\ \E proven \in BOOLEAN :
         /\ EventUnless(proven)
         /\ gateReports' =
              gateReports \cup {[workspace |-> WorkspaceDigest(files, Last(head)),
                                 toolchain |-> toolchain, proven |-> proven]}
    /\ UNCHANGED <<repository, toolchain, op, disk, executed, accepted>>

Invocation(o) ==
    \/ CaptureStart(o) \/ CaptureMaterialize(o) \/ CaptureCollect(o)
    \/ CaptureExecute(o) \/ CaptureReuse(o) \/ CaptureFinish(o)
    \/ RebindStart(o) \/ RebindMaterialize(o) \/ RebindCollect(o) \/ RebindFinish(o)
    \/ WriteOpen(o) \/ WriteData(o) \/ WriteRename(o) \/ WriteRemove(o) \/ WriteRetry(o)
    \/ VerifyStart(o) \/ VerifyCensus(o) \/ VerifyCheck(o) \/ VerifyEnd(o)

Next ==
    \/ \E o \in Ops : Invocation(o) \/ WriteRenameFails(o) \/ Crash(o)
    \/ EditFile \/ Commit \/ UpgradeToolchain \/ EditKind \/ RetainGateReport

Spec == Init /\ [][Next]_vars

------------------------------------------------------------------------------
(***************************************************************************)
(* Properties.                                                             *)
(***************************************************************************)

\* What Verify accepts without opt-in was executed: the aggregate gate passed, inside a
\* capture and with this toolchain, on a tree with exactly the accepted semantic content,
\* and with the same of everything a gate executes or reads.  No chain of captures, reuses,
\* re-bindings, commits and hand edits of the provenance kind launders a reused report or
\* a change of the gate's own inputs, and neither does a torn or mixed-up file.
VerifiedMeansExecuted ==
    accepted # None /\ ~accepted.allow =>
       \E e \in executed : /\ e.toolchain = accepted.toolchain
                           /\ Semantic(e.tree) = Semantic(accepted.tree)
                           /\ \A p \in Executable : e.tree[p] = accepted.tree[p]

\* What Verify accepts while nobody touches the repository is the worktree: a record of
\* whatever base accounts for every file, committed since or never added, but the reviewed
\* exclusions.
AcceptedIsTheWorktree ==
    accepted # None /\ accepted.quiet =>
       \A p \in Paths : accepted.worktree[p] = accepted.tree[p] \/ p \in accepted.excluded

\* A passed record whose log shows reuse rests on a gate run that passed on
\* exactly the recorded tree, prose included, however the tree changed between
\* that run, the start of the capture and the materialization.  (Not on the
\* recorded toolchain: it is collected after the report's was compared.)
ReuseIsExact ==
    LET r == Read(record)
    IN  (Loadable(r) /\ r.log = "reused" /\ r.previous = None) =>
           \E g \in gateReports : g.workspace = Workspace(r.repository)

==============================================================================
