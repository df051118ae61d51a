-------------------------- MODULE RepositoryAudit ---------------------------
(***************************************************************************)
(* The repository audit: one traversal of the analyzer, kept as an         *)
(* artifact, from which the gate takes three verdicts (full-scan, baseline *)
(* and exceptions) without running the analyzer again                      *)
(* (internal/repositoryaudit, cmd/repository-audit,                        *)
(* goplint/repository_audit.go).                                           *)
(*                                                                         *)
(* It reads the source and the baseline that FindingsBaseline's commands   *)
(* and developers change: the digest of the workspace is taken three       *)
(* times, and the baseline is read between them twice, once for its        *)
(* entries and once for its digest. A digest is the content it identifies. *)
(* Analyzer, configuration, manifest and toolchain do not change here.     *)
(***************************************************************************)
EXTENDS FindingsBaseline

CONSTANT Purposes   \* the consumers: some of "full-scan", "baseline" and "exceptions"

ASSUME PurposesAssumption == Purposes \subseteq {"full-scan", "baseline", "exceptions"}

VARIABLES
    aud,        \* the repository-audit command that runs; left is a ghost: whether
                \* the workspace was another one since its digest was taken
    artifact,   \* the retained audit at the shared path
    accepted    \* ghost: what a consumer has just accepted, or None

auditing == <<aud, artifact, accepted>>

\* With -test=false no pass shares the import path of another one.
AuditScopes ==
    {roots \in Scopes : \A p, q \in roots : PathOf[p] = PathOf[q] => p = q}

NoAudit == [phase |-> "idle"]

Torn == [state |-> "torn"]
Retained(result, left) == [state |-> "whole", result |-> result, left |-> left]

BaselineContent == IF file.state = "text" THEN [file EXCEPT !.of = {}] ELSE file

\* The digest of the workspace covers the source and the baseline.
Workspace == [source |-> source, file |-> BaselineContent]

-----------------------------------------------------------------------------
(* What one traversal is turned into.                                       *)

AuditRecords(v, roots) == UNION {{p} \X Reports("audit", v, p) : p \in roots}

\* The findings stream of the traversal: up to MaxLost appends fail.
AuditStreams(v, roots) ==
    LET all == AuditRecords(v, roots \cup Dependencies)
    IN  {all \ lost : lost \in {l \in SUBSET all : Cardinality(l) <= MaxLost}}

\* Diagnostics of the stream by import path, of the output by package ID.
StreamKeys(stream) == [r \in stream |-> <<PathOf[r[1]], Key(r[2])>>]
OutputKeys(output) == [r \in output |-> <<r[1], Key(r[2])>>]

Count(keys, key) == Cardinality({r \in DOMAIN keys : keys[r] = key})

\* Mutant: the stream is compared with the output, and not the output with it.
CoverageOfStream(stream, output) ==
    \A r \in stream :
       Count(OutputKeys(output), StreamKeys(stream)[r]) >= Count(StreamKeys(stream), StreamKeys(stream)[r])

\* Stream and output list the same diagnostics of every category, equally often.
ValidateFindingStreamCoverage(stream, output) ==
    LET printed == OutputKeys(output)
        emitted == StreamKeys(stream)
    IN  \A key \in {printed[r] : r \in output} \cup {emitted[r] : r \in stream} :
           Count(printed, key) = Count(emitted, key)

\* An ID may identify one record only.
ParseFindingStream(stream) == recordFindingStreamIdentity(stream)

\* The packages the driver printed: those with a diagnostic.
AnalysisPackageCensus(output) == seenPackages(output)

\* Every check that run makes of a traversal before it builds the result.
TraversalHolds(stream, output) ==
    /\ ParseFindingStream(stream)
    /\ ValidateFindingStreamCoverage(stream, output)
    /\ AnalysisPackageCensus(output) # {}
    /\ GlobalAuditSucceeds(stream, output)

\* isGovernanceCategory; a review date is not modelled, so it is never overdue.
IsGovernance(finding) == finding.cat = StaleException

Disposition(baseline, finding) ==
    IF IsGovernance(finding) THEN "governance"
    ELSE IF finding.cat \notin Suppressible THEN "always-visible"
    ELSE IF ContainsFinding(baseline, finding) THEN "baseline-match"
    ELSE "new"

Reference(finding) == [cat |-> finding.cat, id |-> finding.id, msg |-> finding.msg]

\* The digests a consumer compares: the workspace it asked for, the baseline as
\* it is when the binding is put together, the packages asked for.
InputBinding(digest, roots) ==
    [workspace |-> digest, baseline |-> BaselineContent, patterns |-> roots]

Build(inputs, stream, baseline, packages, stalePatterns) ==
    LET disposed(d) == {r \in stream : Disposition(baseline, r[2]) \in d}
        matched == disposed({"baseline-match"})
    IN  [inputs   |-> inputs,
         findings |-> {[package |-> PathOf[r[1]], reference |-> Reference(r[2]),
                        disposition |-> Disposition(baseline, r[2])] : r \in stream},
         matched  |-> {Reference(r[2]) : r \in matched},
         new      |-> {Reference(r[2]) : r \in disposed({"new", "always-visible"})},
         stale    |-> {e \in baseline.entries :
                         \A r \in matched : <<r[2].cat, r[2].id>> # <<e.cat, e.id>>},
         matchedPatterns |-> Patterns \ stalePatterns,
         stalePatterns   |-> stalePatterns,
         packages        |-> packages]

\* matched, new and stale are disjoint by category and ID, and the first two are
\* the findings so disposed of.
validateFindingPartitions(result) ==
    LET Ids(references) == {<<r.cat, r.id>> : r \in references}
        Disposed(d) == {f.reference : f \in {g \in result.findings : g.disposition \in d}}
    IN  /\ \A f, g \in result.findings : f.reference.id = g.reference.id => f = g
        /\ Ids(result.matched) \cap Ids(result.new) = {}
        /\ (Ids(result.matched) \cup Ids(result.new)) \cap Ids(result.stale) = {}
        /\ result.matched \subseteq Disposed({"baseline-match"})
        /\ result.new \subseteq Disposed({"new", "always-visible"})
        /\ result.matchedPatterns \cap result.stalePatterns = {}

AuditIsValid(result) ==
    /\ result.inputs.patterns # {}
    /\ \A f \in result.findings : f.package \in result.packages
    /\ validateFindingPartitions(result)

\* One verdict of a retained audit; the consumer passes the census of the audit
\* itself, so that only the inputs can be stale.
ValidateConsumer(result, expected, purpose) ==
    /\ AuditIsValid(result)
    /\ result.inputs = expected
    /\ IF purpose = "exceptions" THEN result.stalePatterns = {} ELSE result.new = {}

-----------------------------------------------------------------------------

AuditInit == Init /\ aud = NoAudit /\ artifact = Absent /\ accepted = None

Ends == aud' = NoAudit

\* execute takes the digest of the workspace; what the last command returned has
\* been seen.
StartAudit(mode, roots) ==
    /\ aud = NoAudit
    /\ chk = NoCheck /\ gen.kind # "audit"     \* bound, as in CommandsNext
    /\ aud' = [phase |-> "begin", mode |-> mode, roots |-> roots, digest |-> Workspace,
               left |-> FALSE]
    /\ accepted' = None
    /\ verdict' = NoVerdict
    /\ UNCHANGED <<source, file, edits, gen, checking, artifact>>

\* The output path has no audit yet, or this is the producer: run compares the
\* digest it was given with the tree.
BeginTraversal ==
    /\ aud.phase = "begin"
    /\ aud.mode = "produce" \/ artifact = Absent
    /\ IF Workspace = aud.digest THEN aud' = [aud EXCEPT !.phase = "load"] ELSE Ends
    /\ UNCHANGED <<vars, artifact, accepted>>

LoadAuditBaseline ==
    /\ aud.phase = "load"
    /\ LET baseline == loadBaseline(file)
       IN  IF baseline.state = "error" THEN Ends
           ELSE aud' = [phase |-> "scan", mode |-> aud.mode, roots |-> aud.roots,
                        digest |-> aud.digest, left |-> aud.left, entries |-> baseline.entries]
    /\ UNCHANGED <<vars, artifact, accepted>>

\* The analyzer traverses the source as it is now; its stream and its output are
\* read, compared and reduced, and the inputs are digested.
Traverse ==
    /\ aud.phase = "scan"
    /\ \E stream \in AuditStreams(source, aud.roots) :
          LET output == AuditRecords(source, aud.roots)
              result == Build(InputBinding(aud.digest, aud.roots), stream,
                              [entries |-> aud.entries], AnalysisPackageCensus(output),
                              CollectGlobalStaleExceptionPatterns(stream, output))
          IN  IF TraversalHolds(stream, output) /\ AuditIsValid(result)
              THEN aud' = [phase |-> "final", mode |-> aud.mode, roots |-> aud.roots,
                           digest |-> aud.digest, left |-> aud.left, result |-> result]
              ELSE Ends
    /\ UNCHANGED <<vars, artifact, accepted>>

\* The last digest, and the exclusive creation of the artifact, still empty.
CreateAudit ==
    /\ aud.phase = "final"
    /\ IF Workspace = aud.digest /\ artifact = Absent
       THEN aud' = [aud EXCEPT !.phase = "write"] /\ artifact' = Torn
       ELSE Ends /\ UNCHANGED artifact
    /\ UNCHANGED <<vars, accepted>>

\* A consumer goes on to load what it has just written.
WriteAudit ==
    /\ aud.phase = "write"
    /\ artifact' = Retained(aud.result, aud.left)
    /\ aud' = IF aud.mode = "produce" THEN NoAudit
              ELSE [phase |-> "begin", mode |-> aud.mode, roots |-> aud.roots,
                    digest |-> aud.digest, left |-> aud.left]
    /\ UNCHANGED <<vars, accepted>>

\* Load decodes and validates what is at the path; CurrentInputBinding digests the
\* inputs anew, under the digest taken first.
ConsumeAudit ==
    /\ aud.phase = "begin"
    /\ aud.mode # "produce" /\ artifact # Absent
    /\ accepted' = IF /\ artifact.state = "whole"
                      /\ ValidateConsumer(artifact.result,
                                          InputBinding(aud.digest, aud.roots), aud.mode)
                   THEN [state |-> "accepted", mode |-> aud.mode, roots |-> aud.roots,
                         tree |-> aud.digest, left |-> artifact.left]
                   ELSE None
    /\ Ends
    /\ UNCHANGED <<vars, artifact>>

\* The command is interrupted, or a path, a process or a write fails it.
InterruptAudit ==
    /\ aud # NoAudit
    /\ Ends
    /\ UNCHANGED <<vars, artifact, accepted>>

RemoveAudit ==
    /\ aud = NoAudit
    /\ artifact # Absent
    /\ artifact' = Absent
    /\ UNCHANGED <<vars, aud, accepted>>

\* The other commands and the developers. Bound: checks and global stale audits,
\* which write nothing, run when there is no repository audit to be seen and not
\* beside each other, an update that overlaps an audit has started before it, and
\* while there is an audit nothing is promised of, all wait until it is removed.
CommandsNext ==
    /\ Next
    /\ artifact.state = "whole" => ~artifact.left
    /\ gen = Idle /\ gen' # Idle => aud = NoAudit
    /\ chk # chk' \/ gen'.kind = "audit" => aud = NoAudit /\ artifact = Absent
    /\ gen'.kind = "audit" => chk' = NoCheck
    /\ aud' = IF aud = NoAudit THEN aud
              ELSE [aud EXCEPT !.left = @ \/ Workspace' # aud.digest]
    /\ accepted' = None
    /\ UNCHANGED artifact

AuditNext ==
    \/ CommandsNext
    \/ \E mode \in Purposes \cup {"produce"}, roots \in AuditScopes : StartAudit(mode, roots)
    \/ BeginTraversal \/ LoadAuditBaseline \/ Traverse \/ CreateAudit \/ WriteAudit
    \/ ConsumeAudit
    \/ InterruptAudit \/ RemoveAudit

AuditSpec == AuditInit /\ [][AuditNext]_<<vars, auditing>>

-----------------------------------------------------------------------------

\* What a consumer accepts is true of the workspace whose digest it took, though
\* appends to the stream fail, the audit may have been retained by an earlier
\* command or torn, and the baseline is rewritten while it is read: no finding of
\* the packages asked for is new, and no pattern is unused by all of them. A finding
\* that the analysis could not decide is only accepted by an entry that somebody wrote
\* by hand: no baseline that update-baseline wrote, whole or in part, accepts one. (Not
\* so when the workspace was changed and put back between two digests.)
AcceptedAuditIsTrue ==
    accepted # None /\ ~accepted.left =>
       LET v == accepted.tree.source
           analysed == {p \in accepted.roots : ShouldAnalyzePackage(p)}
       IN  IF accepted.mode = "exceptions"
           THEN \A x \in Patterns : \E p \in analysed : x \in Sources[v].uses[p]
           ELSE \A p \in analysed : \A f \in Sources[v].raw[p] :
                   /\ f.cat \in Suppressible
                   /\ \E e \in accepted.tree.file.entries : e.cat = f.cat /\ e.id = f.id
                   /\ f.unsure => accepted.tree.file.entries \in Handwritten

\* What README.md:142-145 says of protocol checks: no baseline policy turns an
\* inconclusive outcome into success. Build looks a record up by category and ID, and
\* the category of an undecided boundary request is a suppressible one.
InconclusiveBlocks ==
    accepted # None /\ ~accepted.left /\ accepted.mode # "exceptions" =>
       \A p \in accepted.roots : ShouldAnalyzePackage(p) =>
          \A f \in Sources[accepted.tree.source].raw[p] : ~f.unsure

=============================================================================
