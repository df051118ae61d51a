-------------------------- MODULE FindingsBaseline --------------------------
(***************************************************************************)
(* The commands of goplint that outlive one package: -update-baseline and  *)
(* -audit-exceptions -global, which start the analyzer as a subprocess and *)
(* put together what its package passes reported, and the analysis that    *)
(* reads the baseline they wrote (main.go, finding_sink.go, baseline.go,   *)
(* baseline_collect.go, global_stale.go, config.go, analyzer_run.go).      *)
(*                                                                         *)
(* The passes of a process run concurrently and append to one findings     *)
(* stream; an append that fails is only warned about. The stream is        *)
(* private to the command and appends commute, so the analysis of a        *)
(* generating command and its decision are one step, in which records may  *)
(* be lost. The baseline is rewritten in place, and another goplint may    *)
(* read it at any moment: the passes of an analysis that uses it are       *)
(* separate steps, and so are its read of the file and its use.            *)
(*                                                                         *)
(* A finding is [id, cat, msg, posn, unsure]; unsure stands for the        *)
(* metadata cfg_outcome_status = inconclusive, which reaches the stream    *)
(* and is absent from the JSON of the analysis driver.  The order of       *)
(* Sections is that of the category registry.                              *)
(***************************************************************************)
EXTENDS Naturals, Sequences, FiniteSets

CONSTANTS
    Sections,       \* the suppressible categories, in registry order
    Inconclusive,   \* the protocol-inconclusive categories
    PathOf,         \* the import path of the package of each pass
    Dependencies,   \* passes always analysed, for their facts if not as roots
    Included,       \* import paths that include_packages admits
    Scopes,         \* sets of root passes a command line may name
    Patterns,       \* the exception patterns of the configuration
    Sources,        \* each version of the analysed source: [raw, uses]
    Handwritten,    \* contents somebody may save as the baseline
    MaxLost,        \* appends to the stream that fail in one command
    MaxEdits        \* edits of the source or of the baseline by hand

Passes == DOMAIN PathOf

ASSUME PassesAssumption ==
    /\ Dependencies \subseteq Passes
    /\ \A roots \in Scopes : roots \subseteq Passes
    /\ \A v \in DOMAIN Sources :
          DOMAIN Sources[v].raw = Passes /\ DOMAIN Sources[v].uses = Passes
    /\ {MaxLost, MaxEdits} \subseteq Nat

VARIABLES
    source,     \* the version of the source as it is now
    file,       \* the baseline on disk: [state, entries, of]
    edits,      \* edits so far
    gen,        \* the generating command: [kind, roots, basis, printed, chosen, cut]
    verdict,    \* what the last finished command returned
    chk,        \* the analysis with a baseline: [phase, roots, basis]
    read,       \* what each of its passes read from disk, or None
    cache,      \* the entry of its baseline cache, or None
    shown       \* what each of its passes reported, or None

generating == <<gen, verdict>>
checking == <<chk, read, cache, shown>>
vars == <<source, file, edits, generating, checking>>

None == [state |-> "none"]

Suppressible == {Sections[i] : i \in DOMAIN Sections}

StaleException == "stale-exception"

-----------------------------------------------------------------------------
(* The baseline file.  WriteBaseline emits one TOML table for each category *)
(* that has entries; a file cut inside a table does not parse, and one cut  *)
(* between two tables, or before the first, does.                           *)

Garbled == [state |-> "garbled"]
Absent == [state |-> "absent"]
Holds(entries, of) == [state |-> "text", entries |-> entries, of |-> of]

\* What is on disk once the first n half tables of the entries are written;
\* of is a ghost: what the baseline is of, when it is complete.
Written(entries, n, of) ==
    LET Table(i) == {e \in entries : e.cat = Sections[i]}
        whole == UNION {Table(i) : i \in 1..(n \div 2)}
    IN  IF n % 2 = 1 /\ Table((n + 1) \div 2) # {} THEN Garbled
        ELSE Holds(whole, IF n = 2 * Len(Sections) THEN {of} ELSE {})

\* Two entries with one ID are rejected, whether duplicated or collided.
validateBaselineEntries(entries) ==
    \A e, g \in entries : e.id = g.id => e = g

\* The baseline flag is given explicitly, so a missing file is an error.
loadBaseline(f) ==
    IF f.state = "text" /\ validateBaselineEntries(f.entries)
    THEN [state |-> "loaded", entries |-> f.entries, of |-> f.of]
    ELSE [state |-> "error"]

ContainsFinding(baseline, finding) ==
    /\ finding.cat \notin Inconclusive
    /\ \E e \in baseline.entries : e.cat = finding.cat /\ e.id = finding.id

\* reportInconclusiveFindingWithMetaIfNotBaselined does not look at it.
Reported(baseline, finding) ==
    finding.unsure \/ ~ContainsFinding(baseline, finding)

-----------------------------------------------------------------------------
(* What the passes of one analyzer process report.                          *)

ShouldAnalyzePackage(p) == PathOf[p] \in Included

\* Each pass has its own clone of the configuration, with fresh counters.
staleExceptions(v, p) == {x \in Patterns : x \notin Sources[v].uses[p]}

StaleFinding(p, pattern) ==
    [id |-> <<PathOf[p], pattern>>, cat |-> StaleException, msg |-> pattern,
     posn |-> PathOf[p], unsure |-> FALSE]

\* The baseline flag is not given to the generating commands.
Reports(kind, v, p) ==
    IF ~ShouldAnalyzePackage(p) THEN {}
    ELSE Sources[v].raw[p] \cup (IF kind = "audit"
                        THEN {StaleFinding(p, x) : x \in staleExceptions(v, p)}
                        ELSE {})

-----------------------------------------------------------------------------
(* Decisions over the stream and the driver's JSON.                         *)

Key(finding) == <<finding.cat, finding.msg, finding.posn>>

\* The registry suppresses no inconclusive category, a baseline has no table for
\* what it does not suppress, and only protocol categories are ever undecided. The ID
\* of an undecided finding has a part that says so, and is that of no definite one.
\* The test variant of a package analyses the files of the package: at one
\* position two passes report the same, and a pattern that matches in a package
\* matches in its variant.
ASSUME FindingsAssumption ==
    /\ Sections \in Seq(STRING)
    /\ Inconclusive \cap Suppressible = {}
    /\ \A entries \in Handwritten : \A e \in entries : e.cat \in Suppressible
    /\ IsFiniteSet(Passes)
    /\ \A v \in DOMAIN Sources, p \in Passes :
          /\ IsFiniteSet(Sources[v].raw[p])
          /\ \A f \in Sources[v].raw[p] :
                /\ f.cat # StaleException
                /\ f.unsure => f.cat \in Suppressible \cup Inconclusive
                /\ \A w \in DOMAIN Sources, q \in Passes : \A g \in Sources[w].raw[q] :
                      f.unsure /\ f.cat = g.cat /\ f.id = g.id => g.unsure
          /\ \A q \in Passes : \A f \in Sources[v].raw[p], g \in Sources[v].raw[q] :
                Key(f) = Key(g) => f \in Sources[v].raw[q]
          /\ PathOf[p] \in Passes => Sources[v].uses[PathOf[p]] \subseteq Sources[v].uses[p]

Occurrences(records, key) ==
    Cardinality({r \in records : r[2].cat \in Suppressible /\ Key(r[2]) = key})

isProtocolInconclusiveFinding(finding) ==
    finding.cat \in Inconclusive \/ finding.unsure

\* One ID twice is refused, be it the same finding or a collision.
recordFindingStreamIdentity(stream) ==
    \A r, q \in stream : r[2].id = q[2].id => r = q

StreamIsUsable(stream) ==
    /\ recordFindingStreamIdentity(stream)
    /\ \A r \in stream : ~isProtocolInconclusiveFinding(r[2])

CollectBaselineFindingsFromStream(stream) ==
    {[cat |-> r[2].cat, id |-> r[2].id, msg |-> r[2].msg]
       : r \in {q \in stream : q[2].cat \in Suppressible}}

\* Mutant: coverage compares the two totals, not the diagnostics.
CoverageByTotals(stream, output) ==
    LET Total(records) == Cardinality({r \in records : r[2].cat \in Suppressible})
    IN  Total(stream) >= Total(output)

\* The stream has every suppressible diagnostic that the driver printed, as
\* often as it was printed.  The JSON shows an inconclusive category only.
ValidateBaselineFindingsCoverage(stream, output) ==
    \A r \in output :
       /\ r[2].cat \notin Inconclusive
       /\ r[2].cat \in Suppressible =>
             Occurrences(stream, Key(r[2])) >= Occurrences(output, Key(r[2]))

\* The driver prints only packages that have a diagnostic, by package ID; a
\* record names its package by import path.
seenPackages(output) == {r[1] : r \in output}

StaleRecords(stream) == {r \in stream : r[2].cat = StaleException}

\* Mutant: missing records of the stream go unnoticed.
StaleIsNotCompared(stream, output) == TRUE

StaleIsCovered(stream, output) ==
    \A r \in output : r[2].cat = StaleException =>
       \E q \in StaleRecords(stream) : PathOf[q[1]] = r[1] /\ q[2].msg = r[2].msg

GlobalAuditSucceeds(stream, output) ==
    /\ \A r \in StaleRecords(stream) : PathOf[r[1]] \in seenPackages(output)
    /\ StaleIsCovered(stream, output)

CollectGlobalStaleExceptionPatterns(stream, output) ==
    LET records == StaleRecords(stream)
        packages(x) == {PathOf[r[1]] : r \in {q \in records : q[2].msg = x}}
    IN  {x \in {r[2].msg : r \in records} :
           Cardinality(packages(x)) = Cardinality(seenPackages(output))}

-----------------------------------------------------------------------------

Idle == [kind |-> "idle", roots |-> {}, basis |-> 0, printed |-> {},
         chosen |-> {}, cut |-> 0]

Returns(v) == gen' = Idle /\ verdict' = v

NoVerdict == [kind |-> "none"]
Failure == [kind |-> "error"]

NoCheck == [phase |-> "idle", roots |-> {}, basis |-> 0]
Nothing == [p \in Passes |-> None]

Init ==
    /\ source \in DOMAIN Sources
    /\ file = Absent
    /\ edits = 0
    /\ gen = Idle /\ verdict = NoVerdict
    /\ chk = NoCheck /\ read = Nothing /\ cache = None /\ shown = Nothing

\* The command creates its temporary stream and starts the analyzer, which
\* loads the packages it was asked for and what they depend on.
StartCommand(kind, roots) ==
    /\ gen = Idle
    /\ gen' = [Idle EXCEPT !.kind = kind, !.roots = roots, !.basis = source]
    /\ verdict' = NoVerdict
    /\ UNCHANGED <<source, file, edits, checking>>

Records(p) == {p} \X Reports(gen.kind, gen.basis, p)

\* What the driver prints: the reports of the roots.
Output == UNION {Records(p) : p \in gen.roots}

\* What the stream may hold when the analyzer exits: every pass reports each
\* finding to the stream first, and up to MaxLost appends fail.
Streams ==
    LET all == UNION {Records(p) : p \in gen.roots \cup Dependencies}
    IN  {all \ lost : lost \in {l \in SUBSET all : Cardinality(l) <= MaxLost}}

\* The command is killed, or the subprocess before it prints; a pass returned
\* an error, which the driver prints in the place of diagnostics; or an
\* append left part of a line.  None of it decodes.
Interrupted ==
    /\ gen.kind \in {"update", "audit", "write"}
    /\ Returns(Failure)
    /\ UNCHANGED <<source, file, edits, checking>>

\* generateBaseline decides over the stream and the output; if it accepts
\* them, os.WriteFile truncates the baseline.
generateBaseline ==
    /\ gen.kind = "update"
    /\ \E stream \in Streams :
          IF /\ StreamIsUsable(stream)
             /\ ValidateBaselineFindingsCoverage(stream, Output)
          THEN /\ gen' = [gen EXCEPT !.kind = "write", !.printed = Output,
                            !.chosen = CollectBaselineFindingsFromStream(stream)]
               /\ file' = Holds({}, {})
               /\ UNCHANGED verdict
          ELSE Returns(Failure) /\ UNCHANGED file
    /\ UNCHANGED <<source, edits, checking>>

WriteBaseline ==
    /\ gen.kind = "write"
    /\ gen.cut < 2 * Len(Sections)
    /\ gen' = [gen EXCEPT !.cut = @ + 1]
    /\ file' = Written(gen.chosen, gen.cut + 1,
                       [basis |-> gen.basis, roots |-> gen.roots])
    /\ UNCHANGED <<source, edits, verdict, checking>>

FinishUpdate ==
    /\ gen.kind = "write"
    /\ gen.cut = 2 * Len(Sections)
    /\ Returns([kind |-> "written", printed |-> gen.printed, entries |-> gen.chosen])
    /\ UNCHANGED <<source, file, edits, checking>>

auditExceptionsGlobal ==
    /\ gen.kind = "audit"
    /\ \E stream \in Streams :
          Returns(IF GlobalAuditSucceeds(stream, Output)
                  THEN [kind |-> "audited", basis |-> gen.basis,
                        roots |-> gen.roots, printed |-> Output,
                        stale |-> CollectGlobalStaleExceptionPatterns(stream, Output)]
                  ELSE Failure)
    /\ UNCHANGED <<source, file, edits, checking>>

-----------------------------------------------------------------------------
(* An analysis with -baseline: its passes share one cache of the file.      *)

\* What the last command returned has been seen.
StartCheck(roots) ==
    /\ chk.phase = "idle"
    /\ chk' = [phase |-> "running", roots |-> roots, basis |-> source]
    /\ verdict' = NoVerdict
    /\ UNCHANGED <<source, file, edits, gen, read, cache, shown>>

Waiting(p) ==
    /\ chk.phase = "running"
    /\ p \in chk.roots
    /\ shown[p] = None

\* loadCacheEntry, first half: the cache misses and the file is read.
ReadBaseline(p) ==
    /\ Waiting(p)
    /\ cache = None
    /\ read[p] = None
    /\ read' = [read EXCEPT ![p] = loadBaseline(file)]
    /\ UNCHANGED <<source, file, edits, generating, chk, cache, shown>>

\* Mutant: a pass that read the file itself keeps what it read.
loadOwnEntry(p) == IF read[p] = None THEN cache ELSE read[p]

\* Second half: the entry of the pass that stores first is everybody's.
loadCacheEntry(p) == IF cache = None THEN read[p] ELSE cache

\* The pass reports, or fails with the error of the load.
CheckPass(p) ==
    /\ Waiting(p)
    /\ read[p] # None \/ cache # None
    /\ cache' = IF cache = None THEN read[p] ELSE cache
    /\ LET baseline == loadCacheEntry(p)
       IN  shown' = [shown EXCEPT ![p] =
              IF baseline.state = "error" THEN baseline
              ELSE [state |-> "done",
                    findings |-> {f \in Reports("check", chk.basis, p) :
                                    Reported(baseline, f)}]]
    /\ UNCHANGED <<source, file, edits, generating, chk, read>>

\* The process exits; its result has been seen.
EndCheck ==
    /\ chk.phase = "running"
    /\ \A p \in chk.roots : shown[p] # None
    /\ chk' = NoCheck /\ read' = Nothing /\ cache' = None /\ shown' = Nothing
    /\ UNCHANGED <<source, file, edits, generating>>

-----------------------------------------------------------------------------
(* Developers.                                                              *)

EditSource ==
    /\ edits < MaxEdits
    /\ edits' = edits + 1
    /\ source' \in DOMAIN Sources \ {source}
    /\ UNCHANGED <<file, generating, checking>>

EditBaseline ==
    /\ edits < MaxEdits
    /\ gen.kind # "write"
    /\ edits' = edits + 1
    /\ \E entries \in Handwritten : file' = Holds(entries, {})
    /\ UNCHANGED <<source, generating, checking>>

Next ==
    \/ \E kind \in {"update", "audit"}, roots \in Scopes : StartCommand(kind, roots)
    \/ Interrupted
    \/ generateBaseline \/ WriteBaseline \/ FinishUpdate
    \/ auditExceptionsGlobal
    \/ \E roots \in Scopes : StartCheck(roots)
    \/ \E p \in Passes : ReadBaseline(p) \/ CheckPass(p)
    \/ EndCheck
    \/ EditSource \/ EditBaseline

Spec == Init /\ [][Next]_vars

-----------------------------------------------------------------------------
(* Properties.                                                              *)

Definite(finding) == finding.cat \in Suppressible /\ ~finding.unsure

\* A baseline that update-baseline wrote covers its run: every definite
\* suppressible diagnostic the driver printed has an entry of its own, under
\* its own ID, although appends to the stream may fail with a warning; and
\* the run printed no inconclusive result, although the driver's JSON does
\* not show which results are inconclusive.
WrittenMeansCovered ==
    verdict.kind = "written" => \A r \in verdict.printed :
       /\ ~isProtocolInconclusiveFinding(r[2])
       /\ Definite(r[2]) =>
            \E e \in verdict.entries : e.cat = r[2].cat /\ e.id = r[2].id

\* The passes of one analysis decide by one content of the baseline, whatever
\* is written meanwhile: what each of them hides is exactly what that content
\* accepts by category and ID, and never an inconclusive result.
OneBaselinePerCheck ==
    \A p \in Passes : shown[p].state = "done" =>
       /\ cache.state = "loaded"
       /\ \A f \in Reports("check", chk.basis, p) :
             f \notin shown[p].findings <=>
                /\ Definite(f)
                /\ \E e \in cache.entries : e.cat = f.cat /\ e.id = f.id

\* The two commands agree: an analysis that finds the complete baseline of
\* its own source and packages reports no definite suppressible finding.
UpdateQuietsNextCheck ==
    \A p \in Passes :
       (/\ shown[p].state = "done"
        /\ \E o \in cache.of : o.basis = chk.basis /\ chk.roots \subseteq o.roots)
          => \A f \in shown[p].findings : ~Definite(f)

\* What a check hides is decided by one baseline, and by a baseline that does what
\* the command that wrote it promised.
ChecksFollowTheBaseline == OneBaselinePerCheck /\ UpdateQuietsNextCheck

\* The global audit blames no pattern that matched in a package the driver
\* printed, and blames every pattern that matched in none of the packages it
\* was asked for, although records of the stream may be missing.  (A package
\* with nothing to print is invisible to it: a pattern that is only used in
\* such packages is blamed.)
GlobalAuditIsExact ==
    verdict.kind = "audited" =>
       LET asked == {p \in verdict.roots : ShouldAnalyzePackage(p)}
           uses == Sources[verdict.basis].uses
       IN  /\ \A x \in verdict.stale, r \in verdict.printed : x \notin uses[r[1]]
           /\ \A x \in Patterns :
                 (asked # {} /\ \A p \in asked : x \notin uses[p]) => x \in verdict.stale

=============================================================================
