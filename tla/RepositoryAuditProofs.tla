----------------------- MODULE RepositoryAuditProofs ------------------------
(***************************************************************************)
(* Proofs about FindingsBaseline and RepositoryAudit, for all registries,  *)
(* packages, sources and scopes, any number of edits and any number of     *)
(* records that the findings stream loses: what update-baseline wrote      *)
(* covers its run, a check follows one baseline, the global audit blames   *)
(* the right patterns, and an accepted repository audit is true.           *)
(*                                                                         *)
(* Each command compares the stream, from which it takes IDs and metadata, *)
(* with what the driver printed, which has neither, by counting the        *)
(* records with one key.  Finds is the reason why counting is enough: a    *)
(* stream in which no ID occurs twice, with as many records of a key as    *)
(* the driver printed, holds every finding printed under that key.         *)
(***************************************************************************)
EXTENDS RepositoryAudit, FiniteSetTheorems, TLAPS

-----------------------------------------------------------------------------
(* The inductive invariant.                                                 *)

\* What the driver prints of an analysis, and what its stream holds if no
\* append fails.
Diagnostics(kind, v, roots) == UNION {{p} \X Reports(kind, v, p) : p \in roots}

Accepts(entries, finding) ==
    \E e \in entries : e.cat = finding.cat /\ e.id = finding.id

Covers(entries, printed) ==
    \A r \in printed :
       /\ ~isProtocolInconclusiveFinding(r[2])
       /\ Definite(r[2]) => Accepts(entries, r[2])

\* Entries that no undecided finding of any source matches.
OnlyDefinite(entries) ==
    \A v \in DOMAIN Sources, p \in Passes : \A f \in Sources[v].raw[p] :
       f.unsure => ~Accepts(entries, f)

\* A baseline has entries of suppressible categories only, of definite findings only
\* unless somebody wrote it by hand, and keeps what the command promised that wrote it
\* to the end.
IsBaseline(b) ==
    /\ \A e \in b.entries : e.cat \in Suppressible
    /\ b.entries \in Handwritten \/ OnlyDefinite(b.entries)
    /\ \A o \in b.of : Covers(b.entries, Diagnostics("check", o.basis, o.roots))

Disk ==
    /\ source \in DOMAIN Sources
    /\ \/ file = Absent
       \/ file = Garbled
       \/ file = Holds(file.entries, file.of) /\ IsBaseline(file)

\* A command that writes has decided on entries that cover what it printed.
Generating ==
    /\ gen = [kind |-> gen.kind, roots |-> gen.roots, basis |-> gen.basis,
              printed |-> gen.printed, chosen |-> gen.chosen, cut |-> gen.cut]
    /\ gen.kind \in {"idle", "update", "audit", "write"}
    /\ gen.kind # "idle" => gen.basis \in DOMAIN Sources /\ gen.roots \in SUBSET Passes
    /\ gen.cut \in Nat
    /\ gen.kind = "update" => gen.cut = 0
    /\ gen.kind = "write" =>
          /\ gen.printed = Diagnostics("check", gen.basis, gen.roots)
          /\ Covers(gen.chosen, gen.printed)
          /\ \A e \in gen.chosen : e.cat \in Suppressible
          /\ OnlyDefinite(gen.chosen)

IsLoad(l) ==
    \/ l = None
    \/ l.state = "error"
    \/ l.state = "loaded" /\ IsBaseline(l)

\* All passes that have reported did so by the entry of the cache.
Checking ==
    /\ read = [p \in Passes |-> read[p]]
    /\ shown = [p \in Passes |-> shown[p]]
    /\ IsLoad(cache)
    /\ \A p \in Passes :
          /\ IsLoad(read[p])
          /\ chk.phase = "idle" => shown[p] = None
          /\ shown[p].state = "done" =>
                /\ p \in chk.roots
                /\ cache.state = "loaded"
                /\ shown[p].findings = {f \in Reports("check", chk.basis, p) : Reported(cache, f)}

\* What the digests of a result and its verdicts promise.
IsTrue(result) ==
    LET tree == result.inputs.workspace
        analysed == {p \in result.inputs.patterns : ShouldAnalyzePackage(p)}
    IN  /\ result.stalePatterns = {} =>
              \A x \in Patterns : \E p \in analysed : x \in Sources[tree.source].uses[p]
        /\ result.new = {} =>
              \A p \in analysed : \A f \in Sources[tree.source].raw[p] :
                 /\ f.cat \in Suppressible
                 /\ Accepts(tree.file.entries, f)
                 /\ f.unsure => tree.file.entries \in Handwritten

\* An audit whose workspace has not been another one reads the workspace it
\* has digested, and its result is true of it.
Auditing ==
    /\ aud # NoAudit =>
          /\ {"phase", "mode", "roots", "digest", "left"} \subseteq DOMAIN aud
          /\ aud.phase \in {"begin", "load", "scan", "final", "write"}
          /\ aud.roots \in AuditScopes
          /\ aud.left \in BOOLEAN
          /\ ~aud.left => aud.digest = Workspace
    /\ aud.phase = "scan" =>
          /\ "entries" \in DOMAIN aud
          /\ ~aud.left =>
                /\ aud.entries = aud.digest.file.entries
                /\ aud.entries \in Handwritten \/ OnlyDefinite(aud.entries)
    /\ aud.phase \in {"final", "write"} =>
          /\ "result" \in DOMAIN aud
          /\ ~aud.left => IsTrue(aud.result)
    /\ artifact.state = "whole" /\ ~artifact.left => IsTrue(artifact.result)

\* The commands of FindingsBaseline have an invariant of their own.
Commands == Disk /\ Generating /\ Checking /\ WrittenMeansCovered /\ GlobalAuditIsExact

IInv == Commands /\ Auditing /\ AcceptedAuditIsTrue

-----------------------------------------------------------------------------
(* Counting records.                                                        *)

Keyed(v, p, key) == {g \in Sources[v].raw[p] : Key(g) = key}

\* As many records as there are findings, no two of them of one finding: there
\* is one of each.
LEMMA Pigeons ==
    ASSUME NEW G, IsFiniteSet(G), NEW S, \A r \in S : r[2] \in G,
           \A r, q \in S : r[2] = q[2] => r = q,
           Cardinality(S) >= Cardinality(G)
    PROVE  \A g \in G : \E r \in S : r[2] = g
<1> DEFINE F == [r \in S |-> r[2]]
<1>1. F \in Injection(S, G)
  BY DEF Injection, IsInjective
<1>2. IsFiniteSet(S) /\ Cardinality(S) <= Cardinality(G)
      /\ (Cardinality(S) = Cardinality(G) <=> F \in Surjection(S, G))
  <2> HIDE DEF F
  <2> QED BY <1>1, FS_Injection
<1>3. Cardinality(S) \in Nat /\ Cardinality(G) \in Nat
  BY <1>2, FS_CardinalityType
<1>4. F \in Surjection(S, G)
  <2> HIDE DEF F
  <2> QED BY <1>2, <1>3
<1> QED BY <1>4 DEF Surjection

\* A stream S of records with one key, without two of one ID, that is no smaller
\* than the records T that the driver printed, holds every finding of T: passes
\* that report at one position report the same there.
LEMMA Finds ==
    ASSUME NEW v \in DOMAIN Sources, NEW p \in Passes, NEW f \in Sources[v].raw[p],
           NEW S, \A r \in S : \E q \in Passes : r[2] \in Keyed(v, q, Key(f)),
           \A r, q \in S : r[2].id = q[2].id => r = q,
           NEW T, \A r \in T : r \in Passes \X Keyed(v, p, Key(f)),
           {p} \X Keyed(v, p, Key(f)) \subseteq T,
           Cardinality(S) >= Cardinality(T)
    PROVE  \E r \in S : r[2] = f
<1> DEFINE G == Keyed(v, p, Key(f))
<1>1. f \in G
  BY DEF Keyed
<1>2. IsFiniteSet(G) /\ IsFiniteSet(Passes)
  <2>1. IsFiniteSet(Sources[v].raw[p]) /\ IsFiniteSet(Passes)
    BY FindingsAssumption
  <2>2. G \in SUBSET Sources[v].raw[p]
    BY DEF Keyed
  <2> QED BY <2>1, <2>2, FS_Subset
<1>3. \A r \in S : r[2] \in G
  <2> TAKE r \in S
  <2>1. PICK q \in Passes : r[2] \in Sources[v].raw[q] /\ Key(r[2]) = Key(f)
    BY DEF Keyed
  <2>2. r[2] \in Sources[v].raw[p]
    BY <2>1, FindingsAssumption
  <2> QED BY <2>1, <2>2 DEF Keyed
<1>4. IsFiniteSet(T)
  <2>1. IsFiniteSet(Passes \X G)
    BY <1>2, FS_Product
  <2>2. T \in SUBSET (Passes \X G)
    OBVIOUS
  <2> QED BY <2>1, <2>2, FS_Subset
<1>5. Cardinality(T) >= Cardinality(G)
  <2> DEFINE H == [g \in G |-> <<p, g>>]
  <2>1. H \in Injection(G, T)
    BY DEF Injection, IsInjective
  <2> HIDE DEF H, G
  <2>2. Cardinality(G) <= Cardinality(T)
    BY <2>1, <1>4, FS_Injection
  <2>3. Cardinality(T) \in Nat /\ Cardinality(G) \in Nat
    BY <1>2, <1>4, FS_CardinalityType
  <2> QED BY <2>2, <2>3
<1>6. Cardinality(S) >= Cardinality(G)
  <2>1. IsFiniteSet(S)
    <3> DEFINE F == [r \in S |-> r[2]]
    <3>1. F \in Injection(S, G)
      BY <1>3 DEF Injection, IsInjective
    <3> HIDE DEF F, G
    <3> QED BY <3>1, <1>2, FS_Injection
  <2>2. Cardinality(S) \in Nat /\ Cardinality(T) \in Nat /\ Cardinality(G) \in Nat
    <3> HIDE DEF G
    <3> QED BY <2>1, <1>2, <1>4, FS_CardinalityType
  <2> HIDE DEF G
  <2> QED BY <2>2, <1>5
<1>7. \A r, q \in S : r[2] = q[2] => r = q
  OBVIOUS
<1>8. \A g \in G : \E r \in S : r[2] = g
  <2> HIDE DEF G
  <2> QED BY <1>2, <1>3, <1>6, <1>7, Pigeons
<1> QED BY <1>1, <1>8

\* A record of an analysis, and what kind of finding it is of.
LEMMA RecordOf ==
    ASSUME NEW kind, NEW v \in DOMAIN Sources, NEW roots \in SUBSET Passes,
           NEW r \in Diagnostics(kind, v, roots)
    PROVE  /\ r = <<r[1], r[2]>>
           /\ r[1] \in roots /\ ShouldAnalyzePackage(r[1])
           /\ r[2] \in Reports(kind, v, r[1])
           /\ r[2].cat # StaleException => r[2] \in Sources[v].raw[r[1]]
           /\ r[2].cat = StaleException =>
                 /\ kind = "audit"
                 /\ r[2].msg \in Patterns \ Sources[v].uses[r[1]]
           /\ kind # "audit" => r[2] \in Sources[v].raw[r[1]]
<1>1. PICK p \in roots : r \in {p} \X Reports(kind, v, p)
  BY DEF Diagnostics
<1>2. r = <<r[1], r[2]>> /\ r[1] = p /\ r[2] \in Reports(kind, v, p)
  BY <1>1
<1>3. ShouldAnalyzePackage(p)
  BY <1>2 DEF Reports
<1>4. \/ r[2] \in Sources[v].raw[p]
      \/ kind = "audit" /\ \E x \in staleExceptions(v, p) : r[2] = StaleFinding(p, x)
  BY <1>2, <1>3 DEF Reports
<1>5. CASE r[2] \in Sources[v].raw[p]
  <2>1. r[2].cat # StaleException
    BY <1>5, FindingsAssumption
  <2> QED BY <1>2, <1>3, <1>5, <2>1
<1>6. CASE kind = "audit" /\ \E x \in staleExceptions(v, p) : r[2] = StaleFinding(p, x)
  <2>1. r[2].cat = StaleException /\ r[2].msg \in Patterns \ Sources[v].uses[p]
    BY <1>6 DEF StaleFinding, staleExceptions
  <2> QED BY <1>2, <1>3, <1>6, <2>1
<1> QED BY <1>4, <1>5, <1>6

LEMMA ReportsOfUpdate ==
    \A v, p : Reports("update", v, p) = Reports("check", v, p)
BY DEF Reports

LEMMA DiagnosticsOfUpdate ==
    \A v, roots : Diagnostics("update", v, roots) = Diagnostics("check", v, roots)
BY ReportsOfUpdate DEF Diagnostics

\* What generateBaseline accepts and collects covers what the driver printed.
LEMMA UpdateCovers ==
    ASSUME NEW v \in DOMAIN Sources, NEW roots \in SUBSET Passes, NEW all \in SUBSET Passes,
           NEW stream \in SUBSET Diagnostics("update", v, all),
           StreamIsUsable(stream),
           ValidateBaselineFindingsCoverage(stream, Diagnostics("update", v, roots))
    PROVE  Covers(CollectBaselineFindingsFromStream(stream), Diagnostics("check", v, roots))
<1> DEFINE output == Diagnostics("update", v, roots)
           entries == CollectBaselineFindingsFromStream(stream)
<1> SUFFICES ASSUME NEW r \in output
             PROVE  /\ ~isProtocolInconclusiveFinding(r[2])
                    /\ Definite(r[2]) => Accepts(entries, r[2])
  BY DiagnosticsOfUpdate DEF Covers
<1> DEFINE p == r[1]
           f == r[2]
<1>1. p \in Passes /\ f \in Sources[v].raw[p]
  BY RecordOf
<1>2. f.cat \notin Inconclusive
  BY DEF ValidateBaselineFindingsCoverage
<1>3. CASE f.cat \in Suppressible
  <2> DEFINE Of(records) == {q \in records : q[2].cat \in Suppressible /\ Key(q[2]) = Key(f)}
  <2>1. Cardinality(Of(stream)) >= Cardinality(Of(output))
    BY <1>3 DEF ValidateBaselineFindingsCoverage, Occurrences
  <2>2. \A q \in Of(stream) : \E t \in Passes : q[2] \in Keyed(v, t, Key(f))
    <3> TAKE q \in Of(stream)
    <3>1. q[1] \in Passes /\ q[2] \in Sources[v].raw[q[1]]
      BY RecordOf
    <3> QED BY <3>1 DEF Keyed
  <2>3. \A q, t \in Of(stream) : q[2].id = t[2].id => q = t
    BY DEF StreamIsUsable, recordFindingStreamIdentity
  <2>4. \A q \in Of(output) : q \in Passes \X Keyed(v, p, Key(f))
    <3> TAKE q \in Of(output)
    <3>1. q = <<q[1], q[2]>> /\ q[1] \in Passes /\ q[2] \in Sources[v].raw[q[1]]
      BY RecordOf
    <3>2. Key(q[2]) = Key(f)
      OBVIOUS
    <3>3. q[2] \in Sources[v].raw[p]
      BY <1>1, <3>1, <3>2, FindingsAssumption
    <3>4. q[2] \in Keyed(v, p, Key(f))
      BY <3>2, <3>3 DEF Keyed
    <3> QED BY <3>1, <3>4
  <2>5. {p} \X Keyed(v, p, Key(f)) \subseteq Of(output)
    <3> SUFFICES ASSUME NEW g \in Keyed(v, p, Key(f))
                 PROVE  <<p, g>> \in Of(output)
      OBVIOUS
    <3>1. g \in Sources[v].raw[p] /\ Key(g) = Key(f)
      BY DEF Keyed
    <3>2. p \in roots /\ ShouldAnalyzePackage(p)
      BY RecordOf
    <3>3. <<p, g>> \in output
      BY <3>1, <3>2 DEF Diagnostics, Reports
    <3>4. g.cat \in Suppressible
      BY <1>3, <3>1 DEF Key
    <3> QED BY <3>1, <3>3, <3>4
  <2>6. \E q \in Of(stream) : q[2] = f
    <3> HIDE DEF Of, f, p
    <3> QED BY <1>1, <2>1, <2>2, <2>3, <2>4, <2>5, Finds
  <2>7. PICK q \in stream : q[2] = f
    BY <2>6
  <2>8. ~isProtocolInconclusiveFinding(f)
    BY <2>7 DEF StreamIsUsable
  <2>9. [cat |-> q[2].cat, id |-> q[2].id, msg |-> q[2].msg] \in entries
    BY <1>3, <2>7 DEF CollectBaselineFindingsFromStream
  <2> QED BY <2>7, <2>8, <2>9 DEF Accepts
<1>4. CASE f.cat \notin Suppressible
  <2>1. ~f.unsure
    BY <1>1, <1>2, <1>4, FindingsAssumption
  <2> QED BY <1>2, <1>4, <2>1 DEF isProtocolInconclusiveFinding, Definite
<1> QED BY <1>3, <1>4

\* What generateBaseline accepts and collects matches no undecided finding, and
\* neither does a part of it.
LEMMA UpdateIsDefinite ==
    ASSUME NEW v \in DOMAIN Sources, NEW all \in SUBSET Passes,
           NEW stream \in SUBSET Diagnostics("update", v, all), StreamIsUsable(stream)
    PROVE  OnlyDefinite(CollectBaselineFindingsFromStream(stream))
<1> SUFFICES ASSUME NEW w \in DOMAIN Sources, NEW q \in Passes, NEW f \in Sources[w].raw[q],
                    f.unsure, NEW e \in CollectBaselineFindingsFromStream(stream),
                    e.cat = f.cat, e.id = f.id
             PROVE  FALSE
  BY DEF OnlyDefinite, Accepts
<1>1. PICK r \in stream : e = [cat |-> r[2].cat, id |-> r[2].id, msg |-> r[2].msg]
  BY DEF CollectBaselineFindingsFromStream
<1>2. ~r[2].unsure
  BY DEF StreamIsUsable, isProtocolInconclusiveFinding
<1>3. r[1] \in Passes /\ r[2] \in Sources[v].raw[r[1]]
  BY RecordOf
<1>4. f.cat = r[2].cat /\ f.id = r[2].id
  BY <1>1
<1> QED BY <1>2, <1>3, <1>4, FindingsAssumption

LEMMA PartIsDefinite ==
    \A entries : OnlyDefinite(entries) => \A part \in SUBSET entries : OnlyDefinite(part)
BY DEF OnlyDefinite, Accepts

-----------------------------------------------------------------------------
(* The global audit and the repository audit.                               *)

\* Audits whose stale records are all of printed packages, and cover the printed
\* ones, blame the pattern x if and only if the passes they know of do not use it.
LEMMA AuditIsExact ==
    ASSUME NEW v \in DOMAIN Sources, NEW roots \in SUBSET Passes, NEW all \in SUBSET Passes,
           NEW stream \in SUBSET Diagnostics("audit", v, all),
           GlobalAuditSucceeds(stream, Diagnostics("audit", v, roots)),
           NEW x
    PROVE  LET output == Diagnostics("audit", v, roots)
               asked == {p \in roots : ShouldAnalyzePackage(p)}
               blamed == CollectGlobalStaleExceptionPatterns(stream, output)
           IN  /\ x \in blamed => \A r \in output : x \notin Sources[v].uses[r[1]]
               /\ (x \in Patterns /\ asked # {} /\ \A p \in asked : x \notin Sources[v].uses[p])
                     => x \in blamed
<1> DEFINE output == Diagnostics("audit", v, roots)
           asked == {p \in roots : ShouldAnalyzePackage(p)}
           records == StaleRecords(stream)
           packages == {PathOf[r[1]] : r \in {q \in records : q[2].msg = x}}
           seen == seenPackages(output)
<1>1. packages \subseteq seen
  BY DEF GlobalAuditSucceeds
<1>2. seen \subseteq asked
  BY RecordOf DEF seenPackages
<1>3. IsFiniteSet(seen)
  <2>1. seen \in SUBSET Passes
    BY <1>2
  <2> QED BY <2>1, FindingsAssumption, FS_Subset
<1>4. x \in CollectGlobalStaleExceptionPatterns(stream, output) <=>
        /\ x \in {r[2].msg : r \in records}
        /\ Cardinality(packages) = Cardinality(seen)
  BY DEF CollectGlobalStaleExceptionPatterns
<1>5. ASSUME x \in CollectGlobalStaleExceptionPatterns(stream, output), NEW r \in output
      PROVE  x \notin Sources[v].uses[r[1]]
  <2>1. packages = seen
    <3> HIDE DEF packages, seen
    <3> QED BY <1>1, <1>3, <1>4, <1>5, FS_Subset
  <2>2. r[1] \in seen /\ r[1] \in Passes
    BY <1>2 DEF seenPackages
  <2>3. PICK q \in records : q[2].msg = x /\ PathOf[q[1]] = r[1]
    BY <2>1, <2>2
  <2>4. q \in Diagnostics("audit", v, all) /\ q[2].cat = StaleException
    BY DEF StaleRecords
  <2>5. q[1] \in Passes /\ x \notin Sources[v].uses[q[1]]
    BY <2>3, <2>4, RecordOf
  <2> QED BY <2>2, <2>3, <2>5, FindingsAssumption
<1>6. ASSUME x \in Patterns, asked # {}, \A p \in asked : x \notin Sources[v].uses[p]
      PROVE  x \in CollectGlobalStaleExceptionPatterns(stream, output)
  <2>1. \A p \in asked : \E q \in records : PathOf[q[1]] = p /\ q[2].msg = x
    <3> TAKE p \in asked
    <3> DEFINE r == <<p, StaleFinding(p, x)>>
    <3>1. r[1] = p /\ r[2].cat = StaleException /\ r[2].msg = x
      BY DEF StaleFinding
    <3>2. StaleFinding(p, x) \in Reports("audit", v, p)
      BY <1>6 DEF Reports, staleExceptions
    <3>3. r \in output
      BY <3>2 DEF Diagnostics
    <3> QED BY <3>1, <3>3 DEF GlobalAuditSucceeds, StaleIsCovered
  <2>2. packages = seen
    BY <1>1, <1>2, <2>1
  <2>3. x \in {r[2].msg : r \in records}
    BY <1>6, <2>1
  <2> QED BY <1>4, <2>2, <2>3
<1> QED BY <1>5, <1>6

\* A finding of a pass that a repository audit printed is in its stream, for the
\* counts of both agree.
LEMMA AuditFinds ==
    ASSUME NEW v \in DOMAIN Sources, NEW roots \in SUBSET Passes, NEW all \in SUBSET Passes,
           NEW stream \in SUBSET Diagnostics("audit", v, all),
           TraversalHolds(stream, Diagnostics("audit", v, roots)),
           NEW p \in roots, ShouldAnalyzePackage(p), NEW f \in Sources[v].raw[p]
    PROVE  \E r \in stream : r[2] = f
<1> DEFINE output == Diagnostics("audit", v, roots)
           key == <<p, Key(f)>>
           S == {r \in stream : PathOf[r[1]] = p /\ Key(r[2]) = Key(f)}
           T == {r \in output : r[1] = p /\ Key(r[2]) = Key(f)}
<1>1. <<p, f>> \in output
  BY DEF Diagnostics, Reports
<1>2. key \in {OutputKeys(output)[r] : r \in output}
  BY <1>1 DEF OutputKeys
<1>3. Count(OutputKeys(output), key) = Count(StreamKeys(stream), key)
  BY <1>2 DEF TraversalHolds, ValidateFindingStreamCoverage
<1>4. Count(OutputKeys(output), key) = Cardinality(T)
  <2>1. {r \in DOMAIN OutputKeys(output) : OutputKeys(output)[r] = key} = T
    BY DEF OutputKeys
  <2> QED BY <2>1 DEF Count
<1>5. Count(StreamKeys(stream), key) = Cardinality(S)
  <2>1. {r \in DOMAIN StreamKeys(stream) : StreamKeys(stream)[r] = key} = S
    BY DEF StreamKeys
  <2> QED BY <2>1 DEF Count
<1>6. f.cat # StaleException
  BY FindingsAssumption
<1>7. \A r \in S : \E q \in Passes : r[2] \in Keyed(v, q, Key(f))
  <2> TAKE r \in S
  <2>1. r[2].cat = f.cat
    BY DEF Key
  <2>2. r[1] \in Passes /\ r[2] \in Sources[v].raw[r[1]]
    BY <1>6, <2>1, RecordOf
  <2> QED BY <2>2 DEF Keyed
<1>8. \A r, q \in S : r[2].id = q[2].id => r = q
  BY DEF TraversalHolds, ParseFindingStream, recordFindingStreamIdentity
<1>9. T = {p} \X Keyed(v, p, Key(f))
  <2>1. ASSUME NEW r \in T
        PROVE  r \in {p} \X Keyed(v, p, Key(f))
    <3>1. r[2].cat = f.cat
      BY DEF Key
    <3>2. r = <<r[1], r[2]>> /\ r[2] \in Sources[v].raw[p]
      BY <1>6, <3>1, RecordOf
    <3> QED BY <3>2 DEF Keyed
  <2>2. ASSUME NEW g \in Keyed(v, p, Key(f))
        PROVE  <<p, g>> \in T
    <3>1. g \in Sources[v].raw[p] /\ Key(g) = Key(f)
      BY DEF Keyed
    <3>2. <<p, g>> \in output
      BY <3>1 DEF Diagnostics, Reports
    <3> QED BY <3>1, <3>2
  <2> QED BY <2>1, <2>2
<1>10. Cardinality(S) >= Cardinality(T)
  <2>1. IsFiniteSet(T)
    <3>1. IsFiniteSet(Sources[v].raw[p])
      BY FindingsAssumption
    <3>2. IsFiniteSet(Keyed(v, p, Key(f)))
      BY <3>1, FS_Subset DEF Keyed
    <3>3. IsFiniteSet({p})
      BY FS_Singleton
    <3> QED BY <1>9, <3>2, <3>3, FS_Product
  <2>2. Cardinality(T) \in Nat
    BY <2>1, FS_CardinalityType
  <2> QED BY <2>2, <1>3, <1>4, <1>5
<1>11. \E r \in S : r[2] = f
  <2>1. p \in Passes
    OBVIOUS
  <2>2. \A r \in T : r \in Passes \X Keyed(v, p, Key(f))
    BY <1>9
  <2> HIDE DEF S, T
  <2> QED BY <2>1, <2>2, <1>7, <1>8, <1>9, <1>10, Finds
<1> QED BY <1>11

\* The result of a traversal of source v is true of a workspace with that source
\* and those entries.
LEMMA BuiltIsTrue ==
    ASSUME NEW v \in DOMAIN Sources, NEW roots \in AuditScopes, NEW inputs,
           inputs.workspace.source = v, inputs.patterns = roots,
           \/ inputs.workspace.file.entries \in Handwritten
           \/ OnlyDefinite(inputs.workspace.file.entries),
           NEW stream \in AuditStreams(v, roots),
           TraversalHolds(stream, AuditRecords(v, roots)),
           NEW packages
    PROVE  IsTrue(Build(inputs, stream, [entries |-> inputs.workspace.file.entries], packages,
                        CollectGlobalStaleExceptionPatterns(stream, AuditRecords(v, roots))))
<1> DEFINE output == Diagnostics("audit", v, roots)
           all == roots \cup Dependencies
           blamed == CollectGlobalStaleExceptionPatterns(stream, output)
           entries == inputs.workspace.file.entries
           baseline == [entries |-> entries]
           result == Build(inputs, stream, baseline, packages, blamed)
           analysed == {p \in roots : ShouldAnalyzePackage(p)}
<1>1. roots \in SUBSET Passes /\ all \in SUBSET Passes
  BY PassesAssumption DEF AuditScopes
<1>2. AuditRecords(v, roots) = output /\ AuditRecords(v, all) = Diagnostics("audit", v, all)
  BY DEF AuditRecords, Diagnostics
<1>3. stream \in SUBSET Diagnostics("audit", v, all)
  BY <1>2 DEF AuditStreams
<1>4. TraversalHolds(stream, output)
  BY <1>2
<1>5. result.inputs = inputs /\ result.stalePatterns = blamed
  BY DEF Build
<1>6. result.new = {Reference(r[2]) : r \in {q \in stream :
                      Disposition(baseline, q[2]) \in {"new", "always-visible"}}}
  BY DEF Build
<1>7. ASSUME blamed = {}, NEW x \in Patterns
      PROVE  \E p \in analysed : x \in Sources[v].uses[p]
  <2>1. PICK r \in output : TRUE
    BY <1>4 DEF TraversalHolds, AnalysisPackageCensus, seenPackages
  <2>2. r[1] \in analysed
    BY <1>1, <2>1, RecordOf
  <2>3. GlobalAuditSucceeds(stream, output)
    BY <1>4 DEF TraversalHolds
  <2> HIDE DEF output, blamed, all
  <2> QED BY <1>1, <1>3, <1>7, <2>2, <2>3, AuditIsExact DEF output, blamed
<1>8. ASSUME result.new = {}, NEW p \in analysed, NEW f \in Sources[v].raw[p]
      PROVE  /\ f.cat \in Suppressible /\ Accepts(entries, f)
             /\ f.unsure => entries \in Handwritten
  <2>1. PICK r \in stream : r[2] = f
    BY <1>1, <1>3, <1>4, AuditFinds
  <2>2. Disposition(baseline, f) \notin {"new", "always-visible"}
    BY <1>6, <1>8, <2>1
  <2>3. f.cat # StaleException
    BY <1>1, FindingsAssumption
  <2>4. f.cat \in Suppressible /\ ContainsFinding(baseline, f)
    BY <2>2, <2>3 DEF Disposition, IsGovernance
  <2>5. Accepts(entries, f)
    BY <2>4 DEF ContainsFinding, Accepts
  <2>6. f.unsure => ~OnlyDefinite(entries)
    BY <1>1, <2>5 DEF OnlyDefinite
  <2> QED BY <2>4, <2>5, <2>6
<1>9. IsTrue(result)
  <2> HIDE DEF result, blamed
  <2> QED BY <1>5, <1>7, <1>8 DEF IsTrue
<1> QED BY <1>2, <1>9

-----------------------------------------------------------------------------
(* Steps of the generating commands.                                        *)

LEMMA CommandRecords ==
    /\ Output = Diagnostics(gen.kind, gen.basis, gen.roots)
    /\ \A stream \in Streams :
          stream \in SUBSET Diagnostics(gen.kind, gen.basis, gen.roots \cup Dependencies)
BY DEF Output, Streams, Records, Diagnostics

LEMMA StartCommandStep ==
    ASSUME Commands, NEW kind \in {"update", "audit"}, NEW roots \in Scopes,
           StartCommand(kind, roots)
    PROVE  Commands'
<1>1. Disk' /\ Checking'
  BY DEF Commands, Disk, Checking, StartCommand, checking
<1>2. Generating'
  BY PassesAssumption DEF Commands, Disk, Generating, StartCommand, Idle
<1>3. WrittenMeansCovered' /\ GlobalAuditIsExact'
  BY DEF StartCommand, NoVerdict, WrittenMeansCovered, GlobalAuditIsExact
<1> QED BY <1>1, <1>2, <1>3 DEF Commands

LEMMA IdleStep ==
    ASSUME gen' = Idle
    PROVE  Generating'
BY DEF Generating, Idle

LEMMA FailureStep ==
    ASSUME Commands, Returns(Failure), UNCHANGED <<source, file, edits, checking>>
    PROVE  Commands'
<1>1. Disk' /\ Checking'
  BY DEF Commands, Disk, Checking, checking
<1>2. Generating'
  BY IdleStep DEF Returns
<1>3. WrittenMeansCovered' /\ GlobalAuditIsExact'
  BY DEF Returns, Failure, WrittenMeansCovered, GlobalAuditIsExact
<1> QED BY <1>1, <1>2, <1>3 DEF Commands

LEMMA GenerateStep ==
    ASSUME Commands, generateBaseline
    PROVE  Commands'
<1>1. PICK stream \in Streams :
          IF StreamIsUsable(stream) /\ ValidateBaselineFindingsCoverage(stream, Output)
          THEN /\ gen' = [gen EXCEPT !.kind = "write", !.printed = Output,
                            !.chosen = CollectBaselineFindingsFromStream(stream)]
               /\ file' = Holds({}, {})
               /\ UNCHANGED verdict
          ELSE Returns(Failure) /\ UNCHANGED file
  BY DEF generateBaseline
<1>2. gen.kind = "update" /\ UNCHANGED <<source, edits, checking>>
  BY DEF generateBaseline
<1>3. CASE ~(StreamIsUsable(stream) /\ ValidateBaselineFindingsCoverage(stream, Output))
  BY <1>1, <1>2, <1>3, FailureStep
<1>4. CASE StreamIsUsable(stream) /\ ValidateBaselineFindingsCoverage(stream, Output)
  <2> DEFINE entries == CollectBaselineFindingsFromStream(stream)
  <2>1. gen' = [gen EXCEPT !.kind = "write", !.printed = Output, !.chosen = entries]
        /\ file' = Holds({}, {}) /\ verdict' = verdict
    BY <1>1, <1>4
  <2>2. gen.basis \in DOMAIN Sources /\ gen.roots \in SUBSET Passes
    BY <1>2 DEF Commands, Generating
  <2>3. gen.roots \cup Dependencies \in SUBSET Passes
    BY <2>2, PassesAssumption
  <2>4. Output = Diagnostics("update", gen.basis, gen.roots)
        /\ stream \in SUBSET Diagnostics("update", gen.basis, gen.roots \cup Dependencies)
    BY <1>2, CommandRecords
  <2>5. Covers(entries, Diagnostics("check", gen.basis, gen.roots))
    BY <1>4, <2>2, <2>3, <2>4, UpdateCovers
  <2>6. \A e \in entries : e.cat \in Suppressible
    BY DEF CollectBaselineFindingsFromStream
  <2>11. OnlyDefinite(entries)
    BY <1>4, <2>2, <2>3, <2>4, UpdateIsDefinite
  <2>7. Output = Diagnostics("check", gen.basis, gen.roots)
    BY <2>4, DiagnosticsOfUpdate
  <2>8. Generating'
    <3> HIDE DEF entries
    <3> QED BY <1>2, <2>1, <2>2, <2>5, <2>6, <2>7, <2>11 DEF Commands, Generating
  <2>9. Disk'
    BY <1>2, <2>1 DEF Commands, Disk, Holds, IsBaseline, OnlyDefinite, Accepts
  <2>10. Checking' /\ WrittenMeansCovered' /\ GlobalAuditIsExact'
    BY <1>2, <2>1 DEF Commands, Checking, checking, WrittenMeansCovered, GlobalAuditIsExact
  <2> QED BY <2>8, <2>9, <2>10 DEF Commands
<1> QED BY <1>3, <1>4

\* What is on disk while a baseline is written: nothing that parses, or whole
\* tables of it, and all of them once it says what it is of.
LEMMA WrittenIsBaseline ==
    ASSUME NEW entries, \A e \in entries : e.cat \in Suppressible, OnlyDefinite(entries),
           NEW n \in Nat, NEW of,
           Covers(entries, Diagnostics("check", of.basis, of.roots))
    PROVE  LET f == Written(entries, n, of)
           IN  f = Garbled \/ (f = Holds(f.entries, f.of) /\ IsBaseline(f))
<1> DEFINE Table(i) == {e \in entries : e.cat = Sections[i]}
           whole == UNION {Table(i) : i \in 1..(n \div 2)}
           f == Written(entries, n, of)
<1>1. f = Garbled \/ f = Holds(whole, IF n = 2 * Len(Sections) THEN {of} ELSE {})
  BY DEF Written
<1>4. OnlyDefinite(whole)
  <2>1. whole \in SUBSET entries
    OBVIOUS
  <2> QED BY <2>1, PartIsDefinite
<1>2. CASE f = Holds(whole, {})
  <2> HIDE DEF f
  <2>1. f = Holds(f.entries, f.of) /\ f.entries = whole /\ f.of = {}
    BY <1>2 DEF Holds
  <2>2. \A e \in whole : e.cat \in Suppressible
    OBVIOUS
  <2> HIDE DEF whole
  <2>3. IsBaseline(f)
    BY <1>4, <2>1, <2>2 DEF IsBaseline
  <2> QED BY <2>1, <2>3 DEF f
<1>3. CASE n = 2 * Len(Sections) /\ f = Holds(whole, {of})
  <2>1. n \div 2 = Len(Sections)
    BY <1>3, FindingsAssumption
  <2>2. entries \subseteq whole
    <3> SUFFICES ASSUME NEW e \in entries
                 PROVE  e \in whole
      OBVIOUS
    <3>1. PICK i \in DOMAIN Sections : e.cat = Sections[i]
      BY DEF Suppressible
    <3>2. i \in 1..(n \div 2)
      BY <2>1, <3>1, FindingsAssumption
    <3> QED BY <3>1, <3>2
  <2>3. whole = entries
    BY <2>2
  <2>4. f = Holds(entries, {of})
    <3> HIDE DEF f, whole
    <3> QED BY <1>3, <2>3
  <2>5. IsBaseline(f) /\ f = Holds(f.entries, f.of)
    <3> HIDE DEF f
    <3> QED BY <2>4 DEF Holds, IsBaseline
  <2> QED BY <2>5
<1> QED BY <1>1, <1>2, <1>3

LEMMA WriteStep ==
    ASSUME Commands, WriteBaseline
    PROVE  Commands'
<1> DEFINE of == [basis |-> gen.basis, roots |-> gen.roots]
           n == gen.cut + 1
<1>1. /\ gen.kind = "write" /\ gen' = [gen EXCEPT !.cut = n]
      /\ file' = Written(gen.chosen, n, of)
      /\ UNCHANGED <<source, edits, verdict, checking>>
  BY DEF WriteBaseline
<1>2. /\ gen.printed = Diagnostics("check", of.basis, of.roots)
      /\ Covers(gen.chosen, gen.printed)
      /\ \A e \in gen.chosen : e.cat \in Suppressible
      /\ OnlyDefinite(gen.chosen)
      /\ n \in Nat
  BY <1>1 DEF Commands, Generating
<1>3. Disk'
  <2>1. file' = Garbled \/ (file' = Holds(file'.entries, file'.of) /\ IsBaseline(file'))
    <3> HIDE DEF of, n
    <3> QED BY <1>1, <1>2, WrittenIsBaseline
  <2>2. source' = source /\ source \in DOMAIN Sources
    BY <1>1 DEF Commands, Disk
  <2>3. IsBaseline(file') => IsBaseline(file)'
    BY DEF IsBaseline
  <2> QED BY <2>1, <2>2, <2>3 DEF Disk
<1>4. Generating'
  BY <1>1, <1>2 DEF Commands, Generating
<1>5. Checking' /\ WrittenMeansCovered' /\ GlobalAuditIsExact'
  BY <1>1 DEF Commands, Checking, checking, WrittenMeansCovered, GlobalAuditIsExact
<1> QED BY <1>3, <1>4, <1>5 DEF Commands

LEMMA FinishStep ==
    ASSUME Commands, FinishUpdate
    PROVE  Commands'
<1>1. /\ gen.kind = "write"
      /\ Returns([kind |-> "written", printed |-> gen.printed, entries |-> gen.chosen])
      /\ UNCHANGED <<source, file, edits, checking>>
  BY DEF FinishUpdate
<1>2. Covers(gen.chosen, gen.printed)
  BY <1>1 DEF Commands, Generating
<1>3. WrittenMeansCovered'
  BY <1>1, <1>2 DEF Returns, WrittenMeansCovered, Covers, Accepts
<1>4. GlobalAuditIsExact'
  BY <1>1 DEF Returns, GlobalAuditIsExact
<1>5. Generating'
  BY <1>1, IdleStep DEF Returns
<1>6. Disk' /\ Checking'
  BY <1>1 DEF Commands, Disk, Checking, checking
<1> QED BY <1>3, <1>4, <1>5, <1>6 DEF Commands

LEMMA GlobalAuditStep ==
    ASSUME Commands, auditExceptionsGlobal
    PROVE  Commands'
<1> DEFINE Audited(stream) ==
              [kind |-> "audited", basis |-> gen.basis, roots |-> gen.roots, printed |-> Output,
               stale |-> CollectGlobalStaleExceptionPatterns(stream, Output)]
<1>1. PICK stream \in Streams :
          Returns(IF GlobalAuditSucceeds(stream, Output) THEN Audited(stream) ELSE Failure)
  BY DEF auditExceptionsGlobal
<1>2. gen.kind = "audit" /\ UNCHANGED <<source, file, edits, checking>>
  BY DEF auditExceptionsGlobal
<1>3. CASE ~GlobalAuditSucceeds(stream, Output)
  BY <1>1, <1>2, <1>3, FailureStep
<1>4. CASE GlobalAuditSucceeds(stream, Output)
  <2>1. gen' = Idle /\ verdict' = Audited(stream)
    BY <1>1, <1>4 DEF Returns
  <2>2. gen.basis \in DOMAIN Sources /\ gen.roots \in SUBSET Passes
        /\ gen.roots \cup Dependencies \in SUBSET Passes
    BY <1>2, PassesAssumption DEF Commands, Generating
  <2>3. Output = Diagnostics("audit", gen.basis, gen.roots)
        /\ stream \in SUBSET Diagnostics("audit", gen.basis, gen.roots \cup Dependencies)
    BY <1>2, CommandRecords
  <2> DEFINE asked == {p \in gen.roots : ShouldAnalyzePackage(p)}
             uses == Sources[gen.basis].uses
             blamed == CollectGlobalStaleExceptionPatterns(stream, Output)
  <2>4. \A x : /\ x \in blamed => \A r \in Output : x \notin uses[r[1]]
               /\ (x \in Patterns /\ asked # {} /\ \A p \in asked : x \notin uses[p])
                     => x \in blamed
    <3> TAKE x
    <3> QED BY <1>4, <2>2, <2>3, AuditIsExact
  <2>5. GlobalAuditIsExact'
    <3>1. verdict'.basis = gen.basis /\ verdict'.roots = gen.roots
          /\ verdict'.printed = Output /\ verdict'.stale = blamed
      BY <2>1
    <3> HIDE DEF blamed
    <3> QED BY <2>4, <3>1 DEF GlobalAuditIsExact
  <2>6. WrittenMeansCovered'
    BY <2>1 DEF WrittenMeansCovered
  <2>7. Generating'
    BY <2>1, IdleStep
  <2>8. Disk' /\ Checking'
    BY <1>2 DEF Commands, Disk, Checking, checking
  <2> QED BY <2>5, <2>6, <2>7, <2>8 DEF Commands
<1> QED BY <1>3, <1>4

-----------------------------------------------------------------------------
(* Steps of an analysis with a baseline, and of the developers.             *)

\* Who changes neither the file nor the generating command disturbs only what the
\* analysis knows.
LEMMA OnlyChecks ==
    ASSUME Commands, UNCHANGED <<source, file, gen>>, Checking',
           verdict' = verdict \/ verdict' = NoVerdict
    PROVE  Commands'
<1>1. Disk' /\ Generating'
  BY DEF Commands, Disk, Generating
<1>2. CASE verdict' = verdict
  BY <1>1, <1>2 DEF Commands, WrittenMeansCovered, GlobalAuditIsExact
<1>3. CASE verdict' = NoVerdict
  BY <1>1, <1>3 DEF Commands, NoVerdict, WrittenMeansCovered, GlobalAuditIsExact
<1> QED BY <1>2, <1>3

LEMMA StartCheckStep ==
    ASSUME Commands, NEW roots \in Scopes, StartCheck(roots)
    PROVE  Commands'
<1>1. /\ chk.phase = "idle" /\ chk'.phase = "running" /\ verdict' = NoVerdict
      /\ UNCHANGED <<source, file, edits, gen, read, cache, shown>>
  BY DEF StartCheck
<1>2. \A p \in Passes : shown[p].state # "done"
  BY <1>1 DEF Commands, Checking, None
<1>3. Checking'
  BY <1>1, <1>2 DEF Commands, Checking
<1> QED BY <1>1, <1>3, OnlyChecks

\* What is loaded from the disk is what the command that wrote it promised.
LEMMA LoadedIsBaseline ==
    ASSUME Disk
    PROVE  IsLoad(loadBaseline(file)) /\ loadBaseline(file) # None
<1>1. CASE loadBaseline(file).state = "error"
  BY <1>1 DEF IsLoad, None
<1>2. CASE loadBaseline(file) = [state |-> "loaded", entries |-> file.entries, of |-> file.of]
           /\ file.state = "text"
  <2>1. IsBaseline(file)
    BY <1>2 DEF Disk, Absent, Garbled
  <2>2. loadBaseline(file).entries = file.entries /\ loadBaseline(file).of = file.of
        /\ loadBaseline(file).state = "loaded"
    BY <1>2
  <2>3. IsBaseline(loadBaseline(file))
    BY <2>1, <2>2 DEF IsBaseline
  <2> QED BY <2>2, <2>3 DEF IsLoad, None
<1> QED BY <1>1, <1>2 DEF loadBaseline

LEMMA ReadStep ==
    ASSUME Commands, NEW p \in Passes, ReadBaseline(p)
    PROVE  Commands'
<1>1. /\ read' = [read EXCEPT ![p] = loadBaseline(file)]
      /\ UNCHANGED <<source, file, edits, gen, verdict, chk, cache, shown>>
  BY DEF ReadBaseline, generating
<1>2. IsLoad(loadBaseline(file))
  BY LoadedIsBaseline DEF Commands
<1>3. \A q \in Passes : read'[q] = IF q = p THEN loadBaseline(file) ELSE read[q]
  BY <1>1 DEF Commands, Checking
<1>4. Checking'
  BY <1>1, <1>2, <1>3 DEF Commands, Checking
<1> QED BY <1>1, <1>4, OnlyChecks

LEMMA CheckPassStep ==
    ASSUME Commands, NEW p \in Passes, CheckPass(p)
    PROVE  Commands'
<1> DEFINE baseline == loadCacheEntry(p)
           report == IF baseline.state = "error" THEN baseline
                     ELSE [state |-> "done",
                           findings |-> {f \in Reports("check", chk.basis, p) :
                                           Reported(baseline, f)}]
<1>1. /\ chk.phase = "running" /\ p \in chk.roots
      /\ read[p] # None \/ cache # None
      /\ cache' = baseline
      /\ shown' = [shown EXCEPT ![p] = report]
      /\ UNCHANGED <<source, file, edits, gen, verdict, chk, read>>
  BY DEF CheckPass, Waiting, loadCacheEntry, generating
<1>2. baseline # None /\ IsLoad(baseline)
  BY <1>1 DEF Commands, Checking, loadCacheEntry
<1>3. \A q \in Passes : shown'[q] = IF q = p THEN report ELSE shown[q]
  BY <1>1 DEF Commands, Checking
<1>4. ASSUME NEW q \in Passes, shown'[q].state = "done"
      PROVE  /\ q \in chk.roots
             /\ cache'.state = "loaded"
             /\ shown'[q].findings = {f \in Reports("check", chk.basis, q) : Reported(cache', f)}
  <2>1. CASE q = p
    <3>1. baseline.state # "error"
      BY <1>3, <1>4, <2>1
    <3>2. baseline.state = "loaded"
      BY <1>2, <3>1 DEF IsLoad
    <3>3. report.findings = {f \in Reports("check", chk.basis, p) : Reported(baseline, f)}
      BY <3>1
    <3>4. shown'[q] = report /\ cache' = baseline
      BY <1>1, <1>3, <2>1
    <3> HIDE DEF baseline, report
    <3> QED BY <1>1, <2>1, <3>2, <3>3, <3>4
  <2>2. CASE q # p
    <3>1. shown'[q] = shown[q]
      BY <1>3, <2>2
    <3>2. q \in chk.roots /\ cache.state = "loaded"
          /\ shown[q].findings = {f \in Reports("check", chk.basis, q) : Reported(cache, f)}
      BY <1>4, <3>1 DEF Commands, Checking
    <3>3. cache' = cache
      BY <1>1, <3>2 DEF loadCacheEntry, None
    <3> QED BY <3>1, <3>2, <3>3
  <2> QED BY <2>1, <2>2
<1>5. Checking'
  <2>1. shown' = [q \in Passes |-> shown'[q]] /\ read' = [q \in Passes |-> read'[q]]
    <3> HIDE DEF report
    <3> QED BY <1>1 DEF Commands, Checking
  <2>2. IsLoad(cache)' /\ \A q \in Passes : IsLoad(read[q])'
    <3> HIDE DEF baseline, report
    <3> QED BY <1>1, <1>2 DEF Commands, Checking, IsLoad, IsBaseline
  <2>3. chk'.phase # "idle" /\ chk' = chk
    BY <1>1
  <2> QED BY <1>4, <2>1, <2>2, <2>3 DEF Checking
<1> QED BY <1>1, <1>5, OnlyChecks

LEMMA EndCheckStep ==
    ASSUME Commands, EndCheck
    PROVE  Commands'
<1>1. /\ read' = Nothing /\ cache' = None /\ shown' = Nothing
      /\ UNCHANGED <<source, file, edits, gen, verdict>>
  BY DEF EndCheck, generating
<1>2. Checking'
  BY <1>1 DEF Checking, Nothing, IsLoad, None
<1> QED BY <1>1, <1>2, OnlyChecks

LEMMA EditStep ==
    ASSUME Commands, EditSource \/ EditBaseline
    PROVE  Commands'
<1>1. UNCHANGED <<generating, checking>>
  BY DEF EditSource, EditBaseline
<1>2. Generating' /\ Checking' /\ WrittenMeansCovered' /\ GlobalAuditIsExact'
  BY <1>1 DEF Commands, Generating, Checking, checking, generating,
              WrittenMeansCovered, GlobalAuditIsExact
<1>3. CASE EditSource
  <2>1. Disk'
    BY <1>3 DEF EditSource, Commands, Disk
  <2> QED BY <1>2, <2>1 DEF Commands
<1>4. CASE EditBaseline
  <2>1. PICK entries \in Handwritten : file' = Holds(entries, {})
    BY <1>4 DEF EditBaseline
  <2>2. \A e \in entries : e.cat \in Suppressible
    BY FindingsAssumption
  <2>3. Disk'
    BY <1>4, <2>1, <2>2 DEF EditBaseline, Commands, Disk, Holds, IsBaseline
  <2> QED BY <1>2, <2>3 DEF Commands
<1> QED BY <1>3, <1>4

\* Every step of FindingsBaseline keeps its invariant.
LEMMA CommandsStep ==
    ASSUME Commands, Next
    PROVE  Commands'
<1>1. CASE \E kind \in {"update", "audit"}, roots \in Scopes : StartCommand(kind, roots)
  BY <1>1, StartCommandStep
<1>2. CASE Interrupted
  BY <1>2, FailureStep DEF Interrupted
<1>3. CASE generateBaseline
  BY <1>3, GenerateStep
<1>4. CASE WriteBaseline
  BY <1>4, WriteStep
<1>5. CASE FinishUpdate
  BY <1>5, FinishStep
<1>6. CASE auditExceptionsGlobal
  BY <1>6, GlobalAuditStep
<1>7. CASE \E roots \in Scopes : StartCheck(roots)
  BY <1>7, StartCheckStep
<1>8. CASE \E p \in Passes : ReadBaseline(p) \/ CheckPass(p)
  BY <1>8, ReadStep, CheckPassStep
<1>9. CASE EndCheck
  BY <1>9, EndCheckStep
<1>10. CASE EditSource \/ EditBaseline
  BY <1>10, EditStep
<1> QED BY <1>1, <1>2, <1>3, <1>4, <1>5, <1>6, <1>7, <1>8, <1>9, <1>10 DEF Next

-----------------------------------------------------------------------------
(* Steps of the repository audit.                                           *)

\* A step of the audit leaves what FindingsBaseline keeps, but for a verdict that
\* has been seen.
LEMMA AuditKeepsCommands ==
    ASSUME Commands, UNCHANGED <<source, file, gen, checking>>,
           verdict' = verdict \/ verdict' = NoVerdict
    PROVE  Commands' /\ Workspace' = Workspace
<1>1. Checking'
  BY DEF Commands, Checking, checking
<1>2. Commands'
  BY <1>1, OnlyChecks
<1>3. Workspace' = Workspace
  BY DEF Workspace, BaselineContent
<1> QED BY <1>2, <1>3

LEMMA VarsKept ==
    ASSUME Commands, UNCHANGED vars
    PROVE  Commands' /\ Workspace' = Workspace
BY AuditKeepsCommands DEF vars, generating, checking

LEMMA EndsStep ==
    ASSUME IInv, UNCHANGED vars, Ends, artifact' = artifact \/ artifact' = Absent \/ artifact' = Torn,
           accepted' = accepted \/ accepted' = None
    PROVE  IInv'
<1>1. Commands'
  BY VarsKept DEF IInv
<1>2. Auditing'
  BY DEF IInv, Auditing, Ends, NoAudit, Absent, Torn
<1>3. AcceptedAuditIsTrue'
  BY DEF IInv, AcceptedAuditIsTrue
<1> QED BY <1>1, <1>2, <1>3 DEF IInv

LEMMA StartAuditStep ==
    ASSUME IInv, NEW mode, NEW roots \in AuditScopes, StartAudit(mode, roots)
    PROVE  IInv'
<1>1. Commands' /\ Workspace' = Workspace
  BY AuditKeepsCommands DEF IInv, StartAudit
<1>2. aud' = [phase |-> "begin", mode |-> mode, roots |-> roots, digest |-> Workspace,
              left |-> FALSE] /\ artifact' = artifact /\ accepted' = None
  BY DEF StartAudit
<1>3. Auditing'
  BY <1>1, <1>2 DEF IInv, Auditing
<1>4. AcceptedAuditIsTrue'
  BY <1>2 DEF AcceptedAuditIsTrue
<1> QED BY <1>1, <1>3, <1>4 DEF IInv

LEMMA BeginStep ==
    ASSUME IInv, BeginTraversal
    PROVE  IInv'
<1>1. CASE Ends
  BY <1>1, EndsStep DEF BeginTraversal
<1>2. CASE aud' = [aud EXCEPT !.phase = "load"]
  <2>1. Commands' /\ Workspace' = Workspace /\ artifact' = artifact /\ accepted' = accepted
    BY VarsKept DEF IInv, BeginTraversal
  <2>2. aud # NoAudit
    BY DEF BeginTraversal, NoAudit
  <2>3. Auditing'
    BY <1>2, <2>1, <2>2 DEF IInv, Auditing
  <2>4. AcceptedAuditIsTrue'
    BY <2>1 DEF IInv, AcceptedAuditIsTrue
  <2> QED BY <2>1, <2>3, <2>4 DEF IInv
<1> QED BY <1>1, <1>2 DEF BeginTraversal

LEMMA LoadStep ==
    ASSUME IInv, LoadAuditBaseline
    PROVE  IInv'
<1> DEFINE baseline == loadBaseline(file)
<1>1. CASE baseline.state = "error"
  BY <1>1, EndsStep DEF LoadAuditBaseline
<1>2. CASE baseline.state # "error"
  <2>1. Commands' /\ Workspace' = Workspace /\ artifact' = artifact /\ accepted' = accepted
    BY VarsKept DEF IInv, LoadAuditBaseline
  <2>2. aud' = [phase |-> "scan", mode |-> aud.mode, roots |-> aud.roots, digest |-> aud.digest,
                left |-> aud.left, entries |-> baseline.entries]
    BY <1>2 DEF LoadAuditBaseline
  <2>3. file.state = "text" /\ baseline.entries = file.entries
    BY <1>2 DEF loadBaseline
  <2>4. Workspace.file.entries = file.entries
    BY <2>3 DEF Workspace, BaselineContent, IInv, Commands, Disk, Holds, Absent, Garbled
  <2>5. aud # NoAudit
    BY DEF LoadAuditBaseline, NoAudit
  <2>8. file.entries \in Handwritten \/ OnlyDefinite(file.entries)
    BY <2>3 DEF IInv, Commands, Disk, IsBaseline, Absent, Garbled
  <2>6. Auditing'
    <3> HIDE DEF baseline
    <3> QED BY <2>1, <2>2, <2>3, <2>4, <2>5, <2>8 DEF IInv, Auditing
  <2>7. AcceptedAuditIsTrue'
    BY <2>1 DEF IInv, AcceptedAuditIsTrue
  <2> QED BY <2>1, <2>6, <2>7 DEF IInv
<1> QED BY <1>1, <1>2

LEMMA TraverseStep ==
    ASSUME IInv, Traverse
    PROVE  IInv'
<1> DEFINE output == AuditRecords(source, aud.roots)
           Result(stream) == Build(InputBinding(aud.digest, aud.roots), stream,
                                   [entries |-> aud.entries], AnalysisPackageCensus(output),
                                   CollectGlobalStaleExceptionPatterns(stream, output))
<1>1. PICK stream \in AuditStreams(source, aud.roots) :
          IF TraversalHolds(stream, output) /\ AuditIsValid(Result(stream))
          THEN aud' = [phase |-> "final", mode |-> aud.mode, roots |-> aud.roots,
                       digest |-> aud.digest, left |-> aud.left, result |-> Result(stream)]
          ELSE Ends
  BY DEF Traverse
<1>2. CASE Ends
  BY <1>2, EndsStep DEF Traverse
<1>3. CASE TraversalHolds(stream, output) /\
           aud' = [phase |-> "final", mode |-> aud.mode, roots |-> aud.roots,
                   digest |-> aud.digest, left |-> aud.left, result |-> Result(stream)]
  <2>1. Commands' /\ Workspace' = Workspace /\ artifact' = artifact /\ accepted' = accepted
    BY VarsKept DEF IInv, Traverse
  <2>2. aud.phase = "scan" /\ aud # NoAudit
    BY DEF Traverse, NoAudit
  <2>3. ASSUME ~aud.left
        PROVE  IsTrue(Result(stream))
    <3> DEFINE inputs == InputBinding(aud.digest, aud.roots)
    <3>1. /\ aud.digest = Workspace /\ aud.entries = aud.digest.file.entries
          /\ aud.entries \in Handwritten \/ OnlyDefinite(aud.entries)
          /\ aud.roots \in AuditScopes
      BY <2>2, <2>3 DEF IInv, Auditing
    <3>2. inputs.workspace = aud.digest /\ inputs.patterns = aud.roots
      BY DEF InputBinding
    <3>3. inputs.workspace.source = source /\ source \in DOMAIN Sources
      BY <3>1, <3>2 DEF Workspace, IInv, Commands, Disk
    <3>4. aud.entries = inputs.workspace.file.entries
      BY <3>1, <3>2
    <3> HIDE DEF inputs
    <3>5. IsTrue(Build(inputs, stream, [entries |-> inputs.workspace.file.entries],
                       AnalysisPackageCensus(output),
                       CollectGlobalStaleExceptionPatterns(stream, output)))
      BY <1>3, <3>1, <3>2, <3>3, <3>4, BuiltIsTrue
    <3> QED BY <3>4, <3>5 DEF inputs
  <2>4. Auditing'
    <3> HIDE DEF Result
    <3> QED BY <1>3, <2>1, <2>2, <2>3 DEF IInv, Auditing
  <2>5. AcceptedAuditIsTrue'
    BY <2>1 DEF IInv, AcceptedAuditIsTrue
  <2> QED BY <2>1, <2>4, <2>5 DEF IInv
<1> QED BY <1>1, <1>2, <1>3

LEMMA CreateStep ==
    ASSUME IInv, CreateAudit
    PROVE  IInv'
<1>1. CASE Ends /\ UNCHANGED artifact
  BY <1>1, EndsStep DEF CreateAudit
<1>2. CASE aud' = [aud EXCEPT !.phase = "write"] /\ artifact' = Torn
  <2>1. Commands' /\ Workspace' = Workspace /\ accepted' = accepted
    BY VarsKept DEF IInv, CreateAudit
  <2>2. aud.phase = "final" /\ aud # NoAudit
    BY DEF CreateAudit, NoAudit
  <2>3. Auditing'
    BY <1>2, <2>1, <2>2 DEF IInv, Auditing, Torn
  <2>4. AcceptedAuditIsTrue'
    BY <2>1 DEF IInv, AcceptedAuditIsTrue
  <2> QED BY <2>1, <2>3, <2>4 DEF IInv
<1> QED BY <1>1, <1>2 DEF CreateAudit

LEMMA WriteAuditStep ==
    ASSUME IInv, WriteAudit
    PROVE  IInv'
<1>1. Commands' /\ Workspace' = Workspace /\ accepted' = accepted
  BY VarsKept DEF IInv, WriteAudit
<1>2. aud.phase = "write" /\ aud # NoAudit
  BY DEF WriteAudit, NoAudit
<1>3. artifact' = Retained(aud.result, aud.left)
  BY DEF WriteAudit
<1>4. artifact'.left = aud.left /\ artifact'.result = aud.result
  BY <1>3 DEF Retained
<1>5. ~aud.left => IsTrue(aud.result)
  BY <1>2 DEF IInv, Auditing
<1>6. (artifact.state = "whole" /\ ~artifact.left => IsTrue(artifact.result))'
  BY <1>4, <1>5 DEF IsTrue
<1>7. CASE aud' = NoAudit
  <2>1. Auditing'
    BY <1>6, <1>7 DEF Auditing, NoAudit
  <2> QED BY <1>1, <2>1 DEF IInv, AcceptedAuditIsTrue
<1>8. CASE aud' = [phase |-> "begin", mode |-> aud.mode, roots |-> aud.roots,
                   digest |-> aud.digest, left |-> aud.left]
  <2>1. Auditing'
    BY <1>1, <1>2, <1>6, <1>8 DEF IInv, Auditing
  <2> QED BY <1>1, <2>1 DEF IInv, AcceptedAuditIsTrue
<1> QED BY <1>7, <1>8 DEF WriteAudit

LEMMA ConsumeStep ==
    ASSUME IInv, ConsumeAudit
    PROVE  IInv'
<1> DEFINE result == artifact.result
           expected == InputBinding(aud.digest, aud.roots)
<1>1. UNCHANGED vars /\ Ends /\ artifact' = artifact
  BY DEF ConsumeAudit
<1>2. CASE accepted' = None
  BY <1>1, <1>2, EndsStep
<1>3. CASE /\ artifact.state = "whole" /\ ValidateConsumer(result, expected, aud.mode)
           /\ accepted' = [state |-> "accepted", mode |-> aud.mode, roots |-> aud.roots,
                           tree |-> aud.digest, left |-> artifact.left]
  <2>1. Commands'
    BY <1>1, VarsKept DEF IInv
  <2>2. Auditing'
    BY <1>1 DEF IInv, Auditing, Ends, NoAudit
  <2>3. result.inputs.workspace = aud.digest /\ result.inputs.patterns = aud.roots
    BY <1>3 DEF ValidateConsumer, InputBinding
  <2>4. IF aud.mode = "exceptions" THEN result.stalePatterns = {} ELSE result.new = {}
    BY <1>3 DEF ValidateConsumer
  <2>5. ~artifact.left => IsTrue(result)
    BY <1>3 DEF IInv, Auditing
  <2>6. /\ accepted'.mode = aud.mode /\ accepted'.roots = aud.roots
        /\ accepted'.tree = aud.digest /\ accepted'.left = artifact.left
    BY <1>3
  <2>7. AcceptedAuditIsTrue'
    <3> HIDE DEF result
    <3> QED BY <2>3, <2>4, <2>5, <2>6 DEF AcceptedAuditIsTrue, IsTrue, Accepts
  <2> QED BY <2>1, <2>2, <2>7 DEF IInv
<1> QED BY <1>2, <1>3 DEF ConsumeAudit

LEMMA CommandsNextStep ==
    ASSUME IInv, CommandsNext
    PROVE  IInv'
<1>1. Commands'
  BY CommandsStep DEF IInv, CommandsNext
<1>2. artifact' = artifact /\ accepted' = None
  BY DEF CommandsNext
<1>3. AcceptedAuditIsTrue'
  BY <1>2 DEF AcceptedAuditIsTrue
<1>4. CASE aud = NoAudit
  <2>1. aud' = NoAudit
    BY <1>4 DEF CommandsNext
  <2>2. Auditing'
    BY <1>2, <2>1 DEF IInv, Auditing, NoAudit
  <2> QED BY <1>1, <1>3, <2>2 DEF IInv
<1>5. CASE aud # NoAudit
  <2> DEFINE left == aud.left \/ Workspace' # aud.digest
  <2>1. aud' = [aud EXCEPT !.left = left]
    BY <1>5 DEF CommandsNext
  <2>2. {"phase", "mode", "roots", "digest", "left"} \subseteq DOMAIN aud
    BY <1>5 DEF IInv, Auditing
  <2>3. /\ DOMAIN aud' = DOMAIN aud
        /\ aud'.phase = aud.phase /\ aud'.roots = aud.roots /\ aud'.digest = aud.digest
        /\ "entries" \in DOMAIN aud => aud'.entries = aud.entries
        /\ "result" \in DOMAIN aud => aud'.result = aud.result
    <3> HIDE DEF left
    <3> QED BY <2>1, <2>2
  <2>4. aud'.left = left
    <3> HIDE DEF left
    <3> QED BY <2>1, <2>2
  <2>5. aud'.left \in BOOLEAN /\ (~aud'.left => ~aud.left /\ Workspace' = aud.digest)
    BY <2>4
  <2> HIDE DEF left
  <2>6. Auditing'
    BY <1>2, <1>5, <2>3, <2>5 DEF IInv, Auditing, IsTrue
  <2> QED BY <1>1, <1>3, <2>6 DEF IInv
<1> QED BY <1>4, <1>5

-----------------------------------------------------------------------------
(* The theorems.                                                            *)

LEMMA AuditInitInv == AuditInit => IInv
<1> SUFFICES ASSUME AuditInit
             PROVE  IInv
  OBVIOUS
<1>1. Disk
  BY DEF AuditInit, Init, Disk
<1>2. Generating
  BY DEF AuditInit, Init, Generating, Idle
<1>3. Checking
  BY DEF AuditInit, Init, Checking, Nothing, IsLoad, None
<1>4. WrittenMeansCovered /\ GlobalAuditIsExact
  BY DEF AuditInit, Init, NoVerdict, WrittenMeansCovered, GlobalAuditIsExact
<1>5. Auditing /\ AcceptedAuditIsTrue
  BY DEF AuditInit, NoAudit, Absent, Auditing, AcceptedAuditIsTrue
<1> QED BY <1>1, <1>2, <1>3, <1>4, <1>5 DEF IInv, Commands

LEMMA AuditStep == IInv /\ [AuditNext]_<<vars, auditing>> => IInv'
<1> SUFFICES ASSUME IInv, [AuditNext]_<<vars, auditing>>
             PROVE  IInv'
  OBVIOUS
<1>1. CASE CommandsNext
  BY <1>1, CommandsNextStep
<1>2. CASE \E mode \in Purposes \cup {"produce"}, roots \in AuditScopes : StartAudit(mode, roots)
  BY <1>2, StartAuditStep
<1>3. CASE BeginTraversal
  BY <1>3, BeginStep
<1>4. CASE LoadAuditBaseline
  BY <1>4, LoadStep
<1>5. CASE Traverse
  BY <1>5, TraverseStep
<1>6. CASE CreateAudit
  BY <1>6, CreateStep
<1>7. CASE WriteAudit
  BY <1>7, WriteAuditStep
<1>8. CASE ConsumeAudit
  BY <1>8, ConsumeStep
<1>9. CASE InterruptAudit
  BY <1>9, EndsStep DEF InterruptAudit
<1>10. CASE RemoveAudit
  BY <1>10, EndsStep DEF RemoveAudit, Ends
<1>11. CASE UNCHANGED <<vars, auditing>>
  <2>1. Commands' /\ Workspace' = Workspace
    BY <1>11, VarsKept DEF IInv
  <2>2. Auditing' /\ AcceptedAuditIsTrue'
    BY <1>11, <2>1 DEF IInv, Auditing, AcceptedAuditIsTrue, auditing
  <2> QED BY <2>1, <2>2 DEF IInv
<1> QED BY <1>1, <1>2, <1>3, <1>4, <1>5, <1>6, <1>7, <1>8, <1>9, <1>10, <1>11 DEF AuditNext

LEMMA AuditInvariant == AuditSpec => []IInv
BY AuditInitInv, AuditStep, PTL DEF AuditSpec

LEMMA InvariantImplies ==
    ASSUME IInv
    PROVE  ChecksFollowTheBaseline
<1> SUFFICES ASSUME NEW p \in Passes, shown[p].state = "done"
             PROVE  /\ cache.state = "loaded"
                    /\ \A f \in Reports("check", chk.basis, p) :
                          f \notin shown[p].findings <=> Definite(f) /\ Accepts(cache.entries, f)
                    /\ (\E o \in cache.of : o.basis = chk.basis /\ chk.roots \subseteq o.roots)
                          => \A f \in shown[p].findings : ~Definite(f)
  BY DEF ChecksFollowTheBaseline, OneBaselinePerCheck, UpdateQuietsNextCheck, Accepts
<1>1. /\ p \in chk.roots /\ cache.state = "loaded"
      /\ shown[p].findings = {f \in Reports("check", chk.basis, p) : Reported(cache, f)}
  BY DEF IInv, Commands, Checking
<1>2. IsBaseline(cache)
  BY <1>1 DEF IInv, Commands, Checking, IsLoad, None
<1>3. ASSUME NEW f \in Reports("check", chk.basis, p)
      PROVE  f \notin shown[p].findings <=> Definite(f) /\ Accepts(cache.entries, f)
  <2>1. f \notin shown[p].findings <=> ~f.unsure /\ f.cat \notin Inconclusive /\ Accepts(cache.entries, f)
    BY <1>1 DEF Reported, ContainsFinding, Accepts
  <2>2. Accepts(cache.entries, f) => f.cat \in Suppressible
    BY <1>2 DEF IsBaseline, Accepts
  <2>3. f.cat \in Suppressible => f.cat \notin Inconclusive
    BY FindingsAssumption
  <2> QED BY <2>1, <2>2, <2>3 DEF Definite
<1>4. ASSUME NEW o \in cache.of, o.basis = chk.basis, chk.roots \subseteq o.roots,
             NEW f \in shown[p].findings, Definite(f)
      PROVE  FALSE
  <2>1. f \in Reports("check", chk.basis, p)
    BY <1>1
  <2>2. <<p, f>> \in Diagnostics("check", o.basis, o.roots)
    BY <1>1, <1>4, <2>1 DEF Diagnostics
  <2>3. Covers(cache.entries, Diagnostics("check", o.basis, o.roots))
    BY <1>2 DEF IsBaseline
  <2>4. Accepts(cache.entries, f)
    BY <1>4, <2>2, <2>3 DEF Covers
  <2> QED BY <1>3, <1>4, <2>1, <2>4
<1> QED BY <1>1, <1>3, <1>4

\* A baseline that update-baseline reports as written covers its run: every
\* definite suppressible diagnostic that the driver printed has its entry, and no
\* result was inconclusive, whatever appends to the stream failed
\* (ValidateBaselineFindingsCoverage, recordFindingStreamIdentity).
THEOREM BaselineCovers == AuditSpec => []WrittenMeansCovered
<1>1. IInv => WrittenMeansCovered
  BY DEF IInv, Commands
<1> QED BY <1>1, AuditInvariant, PTL

\* The passes of an analysis hide exactly what one content of the baseline accepts,
\* although the file is rewritten while they read it (loadCacheEntry), and hide all
\* definite suppressible findings if it is the whole baseline of their source.
THEOREM ChecksFollow == AuditSpec => []ChecksFollowTheBaseline
<1>1. IInv => ChecksFollowTheBaseline
  BY InvariantImplies
<1> QED BY <1>1, AuditInvariant, PTL

\* The global audit of exceptions blames no pattern that a printed package uses and
\* every pattern that no package asked for uses, whatever records are missing
\* (CollectGlobalStaleExceptionPatternsFromStreams).
THEOREM GlobalAuditExact == AuditSpec => []GlobalAuditIsExact
<1>1. IInv => GlobalAuditIsExact
  BY DEF IInv, Commands
<1> QED BY <1>1, AuditInvariant, PTL

\* What a consumer of a repository audit accepts is true of the workspace it digested,
\* unless the workspace was changed and put back while the audit was made, and no
\* baseline of update-baseline made it accept an undecided finding.
THEOREM AcceptedAuditTrue == AuditSpec => []AcceptedAuditIsTrue
<1>1. IInv => AcceptedAuditIsTrue
  BY DEF IInv
<1> QED BY <1>1, AuditInvariant, PTL

=============================================================================
