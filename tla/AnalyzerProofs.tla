--------------------------- MODULE AnalyzerProofs ---------------------------
(***************************************************************************)
(* The two algebras the analyzer computes with.  The constraint fragment   *)
(* is examined for formulas and constants of every size: which             *)
(* contradictions are real, that connectives over-approximate, and what    *)
(* accepted evidence proves.  It compares the texts of two equalities, so  *)
(* that two spellings of one value, as 1 and 0x1, contradict each other;   *)
(* nothing else goes wrong.  The protocol domain is a monotone framework,  *)
(* and the effects that path edges carry compose as the paths do.          *)
(***************************************************************************)
EXTENDS SsaConstraints, ProtocolDomain, WellFoundedInduction, TLAPS

(***************************************************************************)
(* Constraints.                                                            *)
(***************************************************************************)

\* Constants as exprConstraintValue returns them: a text has one value, but a value may
\* have several texts.
Spelled(C) ==
    /\ C \subseteq [text : STRING, value : Int, numeric : BOOLEAN]
    /\ \A c, d \in C : c.text = d.text => c.value = d.value

\* Equalities with one value in two spellings.
TwoSpellings(a, b) ==
    /\ a.op = "eq" /\ b.op = "eq"
    /\ a.constant.text # b.constant.text /\ a.constant.value = b.constant.value

AtomsOver(C, S) == [subject : S, op : Ops, constant : C]

FormulasOver(C, S) == [alternatives : Seq(SUBSET AtomsOver(C, S)), unsupported : BOOLEAN]

\* Taking a branch the other way negates its comparison (negateCFGComparisonOp).
THEOREM NegateIsComplement ==
    ASSUME NEW v \in Int, NEW w \in Int, NEW op \in Ops
    PROVE  Compares(v, Negate(op), w) <=> ~Compares(v, op, w)
<1>1. CASE op \in {"eq", "neq"}  BY <1>1 DEF Compares, Negate
<1>2. CASE op \in {"lt", "ge"}  BY <1>2 DEF Compares, Negate
<1>3. CASE op \in {"le", "gt"}  BY <1>3 DEF Compares, Negate
<1> QED  BY <1>1, <1>2, <1>3 DEF Ops

\* Two atoms that the code takes for a contradiction can hold together if and only if
\* they are equalities with two spellings of one value (ssaConstraintsContradict).
THEOREM ContradictionIsReal ==
    ASSUME NEW C, NEW S, Spelled(C),
           NEW a \in AtomsOver(C, S), NEW b \in AtomsOver(C, S), AtomsContradict(a, b)
    PROVE  (\E v \in [S -> Int] : Satisfies(v, a) /\ Satisfies(v, b)) <=> TwoSpellings(a, b)
<1>1. /\ a.subject = b.subject /\ a.subject \in S
      /\ a.constant \in C /\ b.constant \in C
      /\ a.constant.value \in Int /\ b.constant.value \in Int
      /\ a.constant.text = b.constant.text => a.constant.value = b.constant.value
  BY DEF AtomsContradict, AtomsOver, Spelled
<1>2. ASSUME NEW v \in [S -> Int], Satisfies(v, a), Satisfies(v, b), ~TwoSpellings(a, b)
      PROVE  FALSE
  <2> DEFINE x == v[a.subject]
  <2>1. x \in Int /\ Compares(x, a.op, a.constant.value) /\ Compares(x, b.op, b.constant.value)
    BY <1>1, <1>2 DEF Satisfies
  <2> HIDE DEF x
  <2>2. CASE a.op = "eq" /\ b.op = "eq" /\ a.constant.text # b.constant.text
    BY <1>1, <1>2, <2>1, <2>2 DEF Compares, TwoSpellings
  <2>3. CASE a.op = "eq" /\ ValueContradicts(a.constant, b)
    BY <1>1, <2>1, <2>3 DEF Compares, ValueContradicts
  <2>4. CASE b.op = "eq" /\ ValueContradicts(b.constant, a)
    BY <1>1, <2>1, <2>4 DEF Compares, ValueContradicts
  <2>5. CASE Disjoint(a, b)
    BY <1>1, <2>1, <2>5 DEF Compares, Disjoint
  <2>6. CASE Disjoint(b, a)
    BY <1>1, <2>1, <2>6 DEF Compares, Disjoint
  <2> QED  BY <2>2, <2>3, <2>4, <2>5, <2>6 DEF AtomsContradict
<1>3. ASSUME TwoSpellings(a, b)
      PROVE  \E v \in [S -> Int] : Satisfies(v, a) /\ Satisfies(v, b)
  <2> DEFINE v == [s \in S |-> a.constant.value]
  <2>1. v \in [S -> Int] /\ v[a.subject] = a.constant.value
    BY <1>1
  <2>2. Satisfies(v, a) /\ Satisfies(v, b)
    BY <1>1, <1>3, <2>1 DEF Satisfies, Compares, TwoSpellings
  <2> QED  BY <2>1, <2>2
<1> QED  BY <1>2, <1>3

\* A formula found contradictory has a model only where one of its alternatives spells
\* one value in two ways (buildSSAConstraintEvidenceWithDeadline).
THEOREM UnsatIsSound ==
    ASSUME NEW C, NEW S, Spelled(C), NEW f \in FormulasOver(C, S),
           NEW v \in [S -> Int], Unsat(f), SatisfiesFormula(v, f)
    PROVE  \E i \in DOMAIN f.alternatives : \E a, b \in f.alternatives[i] : TwoSpellings(a, b)
<1>1. PICK i \in DOMAIN f.alternatives : \A a \in f.alternatives[i] : Satisfies(v, a)
  BY DEF SatisfiesFormula
<1>2. f.alternatives[i] \subseteq AtomsOver(C, S)
  BY DEF FormulasOver
<1>3. PICK a, b \in f.alternatives[i] : AtomsContradict(a, b)
  BY DEF Unsat, Contradictory
<1>4. a \in AtomsOver(C, S) /\ b \in AtomsOver(C, S) /\ Satisfies(v, a) /\ Satisfies(v, b)
  BY <1>1, <1>2
<1>5. TwoSpellings(a, b)
  BY <1>3, <1>4, ContradictionIsReal
<1> QED  BY <1>5

\* Evidence the checker accepts, whoever built it, proves that the formula has no model,
\* unless one of the pairs it names spells one value in two ways
\* (checkSSAConstraintFormulaEvidenceWithDeadline).
THEOREM AcceptedEvidenceIsProof ==
    ASSUME NEW C, NEW S, Spelled(C), NEW f \in FormulasOver(C, S),
           NEW v \in [S -> Int], NEW path, NEW evidence, EvidenceHolds(f, path, evidence)
    PROVE  \/ ~SatisfiesFormula(v, f)
           \/ \E i \in DOMAIN f.alternatives :
                 TwoSpellings(evidence.contradictions[i][1], evidence.contradictions[i][2])
<1> SUFFICES ASSUME NEW i \in DOMAIN f.alternatives,
                    \A a \in f.alternatives[i] : Satisfies(v, a)
             PROVE  TwoSpellings(evidence.contradictions[i][1], evidence.contradictions[i][2])
  BY DEF SatisfiesFormula
<1> DEFINE a == evidence.contradictions[i][1]
           b == evidence.contradictions[i][2]
<1>1. a \in f.alternatives[i] /\ b \in f.alternatives[i] /\ AtomsContradict(a, b)
  BY DEF EvidenceHolds
<1>2. f.alternatives[i] \subseteq AtomsOver(C, S)
  BY DEF FormulasOver
<1> HIDE DEF a, b
<1>3. a \in AtomsOver(C, S) /\ b \in AtomsOver(C, S) /\ Satisfies(v, a) /\ Satisfies(v, b)
  BY <1>1, <1>2
<1>4. TwoSpellings(a, b)
  BY <1>1, <1>3, ContradictionIsReal
<1> QED  BY <1>4 DEF a, b

\* Quotient and remainder of an index.
LEMMA QuotientRemainder ==
    ASSUME NEW m \in Nat \ {0}, NEW q \in Nat, NEW r \in 0..(m - 1)
    PROVE  (q * m + r) \div m = q /\ (q * m + r) % m = r
<1> DEFINE n == q * m + r
<1>1. n \in Nat
  OBVIOUS
<1>2. n = m * (n \div m) + (n % m) /\ n % m \in 0..(m - 1) /\ n \div m \in Nat
  BY <1>1
<1> DEFINE p == n \div m
           s == n % m
<1>3. m * p + s = m * q + r /\ p \in Nat /\ s \in 0..(m - 1)
  BY <1>2
<1> HIDE DEF n, p, s
<1>4. ~(p > q)
  <2> SUFFICES ASSUME p > q PROVE FALSE  OBVIOUS
  <2>1. p - q \in Nat \ {0} /\ m * (p - q) = r - s
    BY <1>3
  <2>2. m * (p - q) >= m
    BY <2>1
  <2> QED  BY <1>3, <2>1, <2>2
<1>5. ~(q > p)
  <2> SUFFICES ASSUME q > p PROVE FALSE  OBVIOUS
  <2>1. q - p \in Nat \ {0} /\ m * (q - p) = s - r
    BY <1>3
  <2>2. m * (q - p) >= m
    BY <2>1
  <2> QED  BY <1>3, <2>1, <2>2
<1>6. p = q /\ s = r
  BY <1>3, <1>4, <1>5
<1> QED  BY <1>6 DEF n, p, s

\* Every pair of alternatives is one of the products.
LEMMA ProductsArePairs ==
    ASSUME NEW T, NEW l \in Seq(T), NEW r \in Seq(T),
           NEW i \in DOMAIN l, NEW j \in DOMAIN r
    PROVE  \E k \in DOMAIN Products(l, r) : Products(l, r)[k] = l[i] \cup r[j]
<1> DEFINE m == Len(r)
           k == (i - 1) * m + j
<1>1. /\ Len(l) \in Nat /\ m \in Nat \ {0} /\ i \in 1..Len(l) /\ j \in 1..m
  OBVIOUS
<1> HIDE DEF m
<1>2. i - 1 \in Nat /\ j - 1 \in 0..(m - 1) /\ (i - 1) * m \in Nat
  BY <1>1
<1>3. k - 1 = (i - 1) * m + (j - 1)
  BY <1>1, <1>2
<1>4. (k - 1) \div m = i - 1 /\ (k - 1) % m = j - 1
  BY <1>1, <1>2, <1>3, QuotientRemainder
<1>5. k \in 1..(Len(l) * m)
  <2>1. (i - 1) * m \in Nat /\ k \in Int /\ k >= 1
    BY <1>1
  <2>2. (Len(l) - i) * m >= 0
    BY <1>1
  <2>3. Len(l) * m - k = (Len(l) - i) * m + (m - j)
    BY <1>1
  <2>4. Len(l) * m \in Int /\ (Len(l) - i) * m \in Int
    BY <1>1
  <2> HIDE DEF k
  <2>5. Len(l) * m - k >= 0
    BY <1>1, <2>2, <2>3, <2>4
  <2> QED  BY <2>1, <2>4, <2>5
<1> HIDE DEF k
<1>6. k \in DOMAIN Products(l, r)
  BY <1>5 DEF Products, m
<1>7. Products(l, r)[k] = l[((k - 1) \div m) + 1] \cup r[((k - 1) % m) + 1]
  BY <1>5 DEF Products, m
<1>8. ((k - 1) \div m) + 1 = i /\ ((k - 1) % m) + 1 = j
  BY <1>1, <1>4
<1> QED  BY <1>6, <1>7, <1>8

\* The same for any two sequences at once: for the provers, which instantiate a
\* quantifier more readily than an assumption.
LEMMA ProductsOfAny ==
    \A T : \A l, r \in Seq(T) : \A i \in DOMAIN l, j \in DOMAIN r :
        \E k \in DOMAIN Products(l, r) : Products(l, r)[k] = l[i] \cup r[j]
BY ProductsArePairs

\* A conjunction holds wherever both sides do: nothing feasible is lost, not even when the
\* alternatives are given up (cfgSSAFormulaAndWithControl).
THEOREM AndOverApproximates ==
    ASSUME NEW C, NEW S, NEW l \in FormulasOver(C, S), NEW r \in FormulasOver(C, S), NEW v,
           SatisfiesFormula(v, l), SatisfiesFormula(v, r)
    PROVE  SatisfiesFormula(v, And(l, r))
<1> DEFINE T == SUBSET AtomsOver(C, S)
           L == l.alternatives
           R == r.alternatives
<1>1. PICK i \in DOMAIN L : \A a \in L[i] : Satisfies(v, a)
  BY DEF SatisfiesFormula
<1>2. PICK j \in DOMAIN R : \A a \in R[j] : Satisfies(v, a)
  BY DEF SatisfiesFormula
<1>3. L \in Seq(T) /\ R \in Seq(T)
  BY DEF FormulasOver
<1>4. Len(L) # 0 /\ Len(R) # 0
  BY <1>1, <1>2, <1>3
<1>5. And(l, r) = UnsupportedFormula \/ And(l, r).alternatives = Products(L, R)
  BY <1>4 DEF And
<1>6. CASE And(l, r) = UnsupportedFormula
  BY <1>6 DEF UnsupportedFormula, SatisfiesFormula
<1>7. CASE And(l, r).alternatives = Products(L, R)
  <2> HIDE DEF T, L, R
  <2>1. \E k \in DOMAIN Products(L, R) : Products(L, R)[k] = L[i] \cup R[j]
    BY <1>1, <1>2, <1>3, ProductsOfAny
  <2> QED  BY <1>1, <1>2, <1>7, <2>1 DEF SatisfiesFormula
<1> QED  BY <1>5, <1>6, <1>7

\* Every element of either side is one of the concatenation.
LEMMA ConcatenationKeeps ==
    \A T : \A l, r \in Seq(T) :
        /\ \A i \in DOMAIN l : i \in DOMAIN (l \o r) /\ (l \o r)[i] = l[i]
        /\ \A j \in DOMAIN r :
              Len(l) + j \in DOMAIN (l \o r) /\ (l \o r)[Len(l) + j] = r[j]
OBVIOUS

\* A disjunction holds wherever one of its sides does (cfgSSAFormulaOrWithControl).
THEOREM OrOverApproximates ==
    ASSUME NEW C, NEW S, NEW l \in FormulasOver(C, S), NEW r \in FormulasOver(C, S), NEW v,
           SatisfiesFormula(v, l) \/ SatisfiesFormula(v, r)
    PROVE  SatisfiesFormula(v, Or(l, r))
<1> DEFINE T == SUBSET AtomsOver(C, S)
           L == l.alternatives
           R == r.alternatives
<1>1. L \in Seq(T) /\ R \in Seq(T)
  BY DEF FormulasOver
<1>2. \/ \E i \in DOMAIN L : \A a \in L[i] : Satisfies(v, a)
      \/ \E j \in DOMAIN R : \A a \in R[j] : Satisfies(v, a)
  BY DEF SatisfiesFormula
<1>3. Or(l, r) = UnsupportedFormula \/ Or(l, r).alternatives = L \o R
  BY DEF Or
<1>4. CASE Or(l, r) = UnsupportedFormula
  BY <1>4 DEF UnsupportedFormula, SatisfiesFormula
<1>5. CASE Or(l, r).alternatives = L \o R
  <2> HIDE DEF T, L, R
  <2>1. /\ \A i \in DOMAIN L : i \in DOMAIN (L \o R) /\ (L \o R)[i] = L[i]
        /\ \A j \in DOMAIN R : Len(L) + j \in DOMAIN (L \o R) /\ (L \o R)[Len(L) + j] = R[j]
    BY <1>1, ConcatenationKeeps
  <2> QED  BY <1>2, <1>5, <2>1 DEF SatisfiesFormula
<1> QED  BY <1>3, <1>4, <1>5

------------------------------------------------------------------------------
(***************************************************************************)
(* The protocol domain.                                                    *)
(***************************************************************************)

\* What interprocConditionalEdgeFunc may hold.
Conditional == [required : AbstractState, proven : AbstractState]

\* The fields of a state after one transfer.
LEMMA ApplyFields ==
    ASSUME NEW tag \in Tags, NEW s \in AbstractState
    PROVE  LET r == Apply(tag, s)
           IN  /\ r \in AbstractState
               /\ r.validation = IF tag = "validate" THEN "proven"
                                ELSE IF tag = "invalidate" THEN "required" ELSE s.validation
               /\ r.hazards = s.hazards \cup
                     {h \in Hazards : /\ s.validation = "required"
                                      /\ \/ h = "escaped" /\ tag = "escape"
                                         \/ h = "consumed" /\ tag = "consume"}
               /\ r.uncertainty = s.uncertainty /\ r.effects = s.effects
               /\ r.result = IF tag = "validate" THEN "nil" ELSE IF tag = "validation-failed" THEN "nonnil"
                            ELSE IF tag = "invalidate" THEN "unknown" ELSE s.result
               /\ tag \in {"identity", "validate", "validation-failed", "escape", "consume"} =>
                     r.deferred = s.deferred
               /\ tag = "invalidate" =>
                     r.deferred = IF s.deferred = "validation" THEN "other" ELSE s.deferred
               /\ tag = "deferred-nil" => r.deferred = "nil"
               /\ tag = "deferred-validation" => r.deferred = "validation"
               /\ tag = "deferred-other" => r.deferred = "other"
               /\ tag = "deferred-unknown" => r.deferred = "unknown"
               /\ r.identity = IF tag = "deferred-unknown" THEN UnknownIdentity ELSE s.identity
<1> USE DEF AbstractState, DeferredErrors, Results, Identities, UnknownIdentity, Unrelated, Hazards
<1>1. CASE tag = "identity"
  <2>1. Apply(tag, s) = s
    BY <1>1 DEF Apply
  <2> QED  BY <1>1, <2>1
<1>2. CASE tag = "validate"
  <2>1. Apply(tag, s) = [s EXCEPT !.validation = "proven", !.result = "nil"]
    BY <1>2 DEF Apply
  <2> QED  BY <1>2, <2>1
<1>3. CASE tag = "validation-failed"
  <2>1. Apply(tag, s) = [s EXCEPT !.result = "nonnil"]
    BY <1>3 DEF Apply
  <2> QED  BY <1>3, <2>1
<1>4. CASE tag = "invalidate"
  <2>1. Apply(tag, s) = Invalidate(s)
    BY <1>4 DEF Apply
  <2> QED  BY <1>4, <2>1 DEF Invalidate
<1>5. CASE tag \in {"escape", "consume"}
  <2>1. Apply(tag, s) = Hazard(s, IF tag = "escape" THEN "escaped" ELSE "consumed")
    BY <1>5 DEF Apply
  <2> QED  BY <1>5, <2>1 DEF Hazard
<1>6. CASE tag \in {"deferred-nil", "deferred-validation", "deferred-other"}
  <2>1. Apply(tag, s) = [s EXCEPT !.deferred = IF tag = "deferred-nil" THEN "nil"
                                               ELSE IF tag = "deferred-validation" THEN "validation"
                                               ELSE "other"]
    BY <1>6 DEF Apply
  <2> QED  BY <1>6, <2>1
<1>7. CASE tag = "deferred-unknown"
  <2>1. Apply(tag, s) = [s EXCEPT !.deferred = "unknown", !.identity = UnknownIdentity]
    BY <1>7 DEF Apply
  <2>2. Apply(tag, s) \in AbstractState
    <3>1. UnknownIdentity \in Identities /\ "unknown" \in DeferredErrors
      OBVIOUS
    <3> HIDE DEF Identities, UnknownIdentity, Unrelated, DeferredErrors, Results, Hazards
    <3> QED  BY <2>1, <3>1
  <2>3. Apply(tag, s).identity = UnknownIdentity /\ Apply(tag, s).deferred = "unknown"
    BY <2>1
  <2>4. /\ Apply(tag, s).validation = s.validation /\ Apply(tag, s).hazards = s.hazards
        /\ Apply(tag, s).uncertainty = s.uncertainty /\ Apply(tag, s).effects = s.effects
        /\ Apply(tag, s).result = s.result
    BY <2>1
  <2> QED  BY <1>7, <2>2, <2>3, <2>4
<1> QED  BY <1>1, <1>2, <1>3, <1>4, <1>5, <1>6, <1>7 DEF Tags

\* The fields of a state after an effect.
LEMMA EffectFields ==
    ASSUME NEW f \in Conditional, NEW s \in AbstractState
    PROVE  LET r == EffectApply(f, s)
               h == Selected(f, s)
           IN  /\ r \in AbstractState /\ h \in AbstractState
               /\ r.validation = h.validation
               /\ r.hazards = s.hazards \cup h.hazards
               /\ r.result = h.result
               /\ r.uncertainty = s.uncertainty /\ r.effects = s.effects
               /\ r.deferred = s.deferred /\ r.identity = s.identity
<1>1. Selected(f, s) \in AbstractState
  BY DEF Conditional, Selected
<1> QED  BY <1>1 DEF EffectApply, AbstractState

\* The part of a state that an effect decides; the rest of the state passes by.
Tracked(s) == << s.validation, s.hazards, s.result >>

\* Composing an effect with a transfer (then) and applying the result once is
\* applying first the one, then the other, for every entry state.
THEOREM ThenIsComposition ==
    ASSUME NEW f \in Conditional, NEW tag \in Tags, NEW s \in AbstractState
    PROVE  /\ Then(f, tag) \in Conditional
           /\ Tracked(EffectApply(Then(f, tag), s)) = Tracked(Apply(tag, EffectApply(f, s)))
<1> DEFINE h == Selected(f, s)
           t == EffectApply(f, s)
           g == Then(f, tag)
<1>1. g \in Conditional
  BY ApplyFields DEF Then, Conditional
<1>2. h \in AbstractState /\ t \in AbstractState /\ Selected(g, s) = Apply(tag, h)
  BY EffectFields DEF Then, Selected
<1>3. /\ t.validation = h.validation /\ t.hazards = s.hazards \cup h.hazards /\ t.result = h.result
      /\ EffectApply(g, s).validation = Apply(tag, h).validation
      /\ EffectApply(g, s).hazards = s.hazards \cup Apply(tag, h).hazards
      /\ EffectApply(g, s).result = Apply(tag, h).result
  BY <1>1, <1>2, EffectFields
<1> HIDE DEF h, t, g
<1>4. /\ Apply(tag, h).validation = Apply(tag, t).validation
      /\ Apply(tag, h).result = Apply(tag, t).result
  BY <1>2, <1>3, ApplyFields
<1>5. s.hazards \cup Apply(tag, h).hazards = Apply(tag, t).hazards
  BY <1>2, <1>3, ApplyFields
<1> QED  BY <1>1, <1>3, <1>4, <1>5 DEF Tracked, g, t

\* The effect of a caller's path composed with the summary of the callee
\* (thenSummary, when a dependency is resumed) is the one after the other.
THEOREM SummaryIsComposition ==
    ASSUME NEW f \in Conditional, NEW g \in Conditional, NEW s \in AbstractState
    PROVE  /\ ThenSummary(f, g) \in Conditional
           /\ EffectApply(ThenSummary(f, g), s) = EffectApply(g, EffectApply(f, s))
<1> DEFINE h == Selected(f, s)
           t == EffectApply(f, s)
           fg == ThenSummary(f, g)
<1>1. fg \in Conditional
  BY EffectFields DEF ThenSummary, Conditional
<1>2. h \in AbstractState /\ t \in AbstractState /\ Selected(fg, s) = EffectApply(g, h)
  BY EffectFields DEF ThenSummary, Selected
<1>3. Selected(g, t) = Selected(g, h)
  BY EffectFields DEF Selected
<1>4. EffectApply(fg, s) \in AbstractState /\ EffectApply(g, t) \in AbstractState
  BY <1>1, <1>2, EffectFields
<1>5. LET a == EffectApply(fg, s)
          b == EffectApply(g, t)
      IN  /\ a.validation = b.validation /\ a.hazards = b.hazards /\ a.result = b.result
          /\ a.uncertainty = b.uncertainty /\ a.effects = b.effects
          /\ a.deferred = b.deferred /\ a.identity = b.identity
  <2>1. /\ t.hazards = s.hazards \cup h.hazards
        /\ t.uncertainty = s.uncertainty /\ t.effects = s.effects
        /\ t.deferred = s.deferred /\ t.identity = s.identity
    BY EffectFields
  <2>2. /\ EffectApply(g, h).validation = Selected(g, h).validation
        /\ EffectApply(g, h).hazards = h.hazards \cup Selected(g, h).hazards
        /\ EffectApply(g, h).result = Selected(g, h).result
    BY <1>2, EffectFields
  <2> HIDE DEF h, t, fg
  <2>3. LET a == EffectApply(fg, s)
        IN  /\ a.validation = Selected(g, h).validation /\ a.result = Selected(g, h).result
            /\ a.hazards = s.hazards \cup (h.hazards \cup Selected(g, h).hazards)
            /\ a.uncertainty = s.uncertainty /\ a.effects = s.effects
            /\ a.deferred = s.deferred /\ a.identity = s.identity
    BY <1>1, <1>2, <2>2, EffectFields
  <2>4. LET b == EffectApply(g, t)
        IN  /\ b.validation = Selected(g, h).validation /\ b.result = Selected(g, h).result
            /\ b.hazards = (s.hazards \cup h.hazards) \cup Selected(g, h).hazards
            /\ b.uncertainty = s.uncertainty /\ b.effects = s.effects
            /\ b.deferred = s.deferred /\ b.identity = s.identity
    BY <1>2, <1>3, <2>1, EffectFields
  <2> QED  BY <2>3, <2>4
<1> HIDE DEF h, t, fg
<1>6. EffectApply(fg, s) = EffectApply(g, t)
  BY <1>4, <1>5 DEF AbstractState
<1> QED  BY <1>1, <1>6 DEF fg, t

LEMMA NatMin ==
    ASSUME NEW T \in SUBSET Nat, T # {}
    PROVE  \E x \in T : \A y \in T : x <= y
<1> DEFINE R == OpToRel(<, Nat)
<1>1. IsWellFoundedOn(R, Nat)
  BY NatLessThanWellFounded
<1> HIDE DEF R
<1>2. PICK x \in T : \A y \in T : ~(<<y, x>> \in R)
  BY <1>1, WFMin
<1>3. \A y \in T : ~(y < x)
  BY <1>2 DEF R, OpToRel
<1> QED  BY <1>3

\* State t is what an effect makes of its entry, up to an error result that the
\* effect does not know.
Covers(t, s, exact) ==
    /\ t.validation = s.validation /\ t.hazards = s.hazards
    /\ exact => FlatLessEqual(s.result, t.result)

\* One more transfer keeps it.
LEMMA CoversStep ==
    ASSUME NEW f \in Conditional, NEW tag \in Tags, NEW e \in AbstractState, NEW s \in AbstractState,
           NEW exact \in BOOLEAN, Covers(EffectApply(f, e), s, exact)
    PROVE  Covers(EffectApply(Then(f, tag), e), Apply(tag, s), exact)
<1> DEFINE t == EffectApply(f, e)
           u == EffectApply(Then(f, tag), e)
<1>1. t \in AbstractState
  BY EffectFields
<1>2. /\ u.validation = Apply(tag, t).validation /\ u.hazards = Apply(tag, t).hazards
      /\ u.result = Apply(tag, t).result
  BY ThenIsComposition DEF Tracked
<1> HIDE DEF t, u
<1>3. /\ t.validation = s.validation /\ t.hazards = s.hazards
      /\ exact => FlatLessEqual(s.result, t.result)
  BY DEF t, Covers
<1>4. Apply(tag, t).validation = Apply(tag, s).validation
  BY <1>1, <1>3, ApplyFields
<1>5. Apply(tag, t).hazards = Apply(tag, s).hazards
  <2> DEFINE new(r) == {h \in Hazards : /\ r.validation = "required"
                                        /\ \/ h = "escaped" /\ tag = "escape"
                                           \/ h = "consumed" /\ tag = "consume"}
  <2>1. Apply(tag, t).hazards = t.hazards \cup new(t) /\ Apply(tag, s).hazards = s.hazards \cup new(s)
    BY <1>1, ApplyFields
  <2> QED  BY <1>3, <2>1
<1>6. exact => FlatLessEqual(Apply(tag, s).result, Apply(tag, t).result)
  BY <1>1, <1>3, ApplyFields DEF FlatLessEqual
<1>7. Covers(u, Apply(tag, s), exact)
  BY <1>2, <1>4, <1>5, <1>6 DEF Covers
<1> QED  BY <1>7 DEF u

\* The effect the solver carries along a path of any length, applied to the entry
\* state when the path returns, is what the transfers on the path do one by one:
\* the same validation and the same hazards, and an error result that is no more
\* definite, when a proven entry is one whose error is nil.
THEOREM EffectCoversPath ==
    ASSUME NEW n \in Nat, NEW path \in [1..n -> Tags],
           NEW effect \in [0..n -> Conditional], effect[0] = IdentityEffect,
           \A k \in 1..n : effect[k] = Then(effect[k - 1], path[k]),
           NEW state \in [0..n -> AbstractState],
           \A k \in 1..n : state[k] = Apply(path[k], state[k - 1])
    PROVE  LET end == EffectApply(effect[n], state[0])
           IN  /\ end.validation = state[n].validation /\ end.hazards = state[n].hazards
               /\ (state[0].validation = "proven" => state[0].result = "nil") =>
                     FlatLessEqual(state[n].result, end.result)
<1> DEFINE exact == (state[0].validation = "proven" => state[0].result = "nil")
           Good(k) == Covers(EffectApply(effect[k], state[0]), state[k], exact)
           T == {k \in 0..n : ~Good(k)}
<1>1. Good(0)
  <2>1. state[0] \in AbstractState /\ IdentityEffect \in Conditional
    BY DEF Conditional, IdentityEffect, NeedsValidate, Validated, Plain, AbstractState,
           Results, DeferredErrors, Identities, Unrelated, UnknownIdentity
  <2>2. LET t == EffectApply(IdentityEffect, state[0])
        IN  /\ t.validation = state[0].validation /\ t.hazards = state[0].hazards
            /\ t.result = IF state[0].validation = "required" THEN "unknown" ELSE "nil"
    <3>1. Selected(IdentityEffect, state[0]) =
             IF state[0].validation = "required" THEN NeedsValidate ELSE Validated
      BY DEF Selected, IdentityEffect
    <3>2. /\ state[0].validation \in {"proven", "required"}
          /\ NeedsValidate.validation = "required" /\ Validated.validation = "proven"
          /\ NeedsValidate.hazards = {} /\ Validated.hazards = {}
          /\ NeedsValidate.result = "unknown" /\ Validated.result = "nil"
      BY <2>1 DEF NeedsValidate, Validated, Plain, AbstractState
    <3>3. LET t == EffectApply(IdentityEffect, state[0])
              h == Selected(IdentityEffect, state[0])
          IN  /\ t.validation = h.validation /\ t.hazards = state[0].hazards \cup h.hazards
              /\ t.result = h.result
      BY <2>1, EffectFields
    <3> QED  BY <3>1, <3>2, <3>3
  <2>3. state[0].validation \in {"proven", "required"}
    BY <2>1 DEF AbstractState
  <2> QED  BY <2>2, <2>3 DEF Covers, FlatLessEqual
<1>2. ASSUME NEW k \in 1..n, Good(k - 1) PROVE Good(k)
  <2>1. /\ effect[k - 1] \in Conditional /\ path[k] \in Tags /\ k - 1 \in 0..n
        /\ state[0] \in AbstractState /\ state[k - 1] \in AbstractState /\ exact \in BOOLEAN
    OBVIOUS
  <2> HIDE DEF exact
  <2> QED  BY <1>2, <2>1, CoversStep
<1>3. T = {}
  <2> SUFFICES ASSUME T # {} PROVE FALSE
    OBVIOUS
  <2> HIDE DEF Good
  <2>0. T \in SUBSET Nat
    OBVIOUS
  <2>1. PICK k \in T : \A j \in T : k <= j
    BY <2>0, NatMin
  <2>2. k \in 1..n /\ k - 1 \in 0..n /\ k - 1 \notin T
    BY <1>1, <2>1
  <2> QED  BY <1>2, <2>1, <2>2
<1>4. Good(n)
  BY <1>3
<1> QED  BY <1>4 DEF Covers

\* join is the least upper bound of lessEqual, so that the order in which states
\* are joined does not matter.
THEOREM JoinIsLeast ==
    ASSUME NEW s \in AbstractState, NEW t \in AbstractState
    PROVE  /\ Join(s, t) \in AbstractState
           /\ LessEqual(s, Join(s, t)) /\ LessEqual(t, Join(s, t))
           /\ \A u \in AbstractState : LessEqual(s, u) /\ LessEqual(t, u) => LessEqual(Join(s, t), u)
<1>0. /\ s.identity \in Int /\ t.identity \in Int /\ \A u \in AbstractState : u.identity \in Int
  BY DEF AbstractState, Identities, Unrelated, UnknownIdentity
<1>1. Join(s, t) \in AbstractState
  <2>1. JoinIdentity(s.identity, t.identity) \in Identities
    BY DEF AbstractState, JoinIdentity
  <2>2. FlatJoin(s.result, t.result) \in Results /\ FlatJoin(s.deferred, t.deferred) \in DeferredErrors
    BY DEF AbstractState, FlatJoin, Results, DeferredErrors
  <2> QED  BY <2>1, <2>2 DEF Join, AbstractState
<1>2. LessEqual(s, Join(s, t)) /\ LessEqual(t, Join(s, t))
  BY <1>0 DEF AbstractState, LessEqual, Join, FlatJoin, FlatLessEqual, JoinIdentity
<1>3. ASSUME NEW u \in AbstractState, LessEqual(s, u), LessEqual(t, u)
      PROVE  LessEqual(Join(s, t), u)
  BY <1>0, <1>3 DEF AbstractState, LessEqual, Join, FlatJoin, FlatLessEqual, JoinIdentity
<1> QED  BY <1>1, <1>2, <1>3

\* No transfer of ideEdgeFunc.Apply makes less of a state that says more.
THEOREM ApplyIsMonotone ==
    ASSUME NEW tag \in Tags, NEW s \in AbstractState, NEW t \in AbstractState, LessEqual(s, t)
    PROVE  LessEqual(Apply(tag, s), Apply(tag, t))
<1>1. /\ Apply(tag, s).validation = "required" => Apply(tag, t).validation = "required"
      /\ Apply(tag, s).hazards \subseteq Apply(tag, t).hazards
  BY ApplyFields DEF LessEqual, Tags, AbstractState
<1>2. FlatLessEqual(Apply(tag, s).result, Apply(tag, t).result)
  BY ApplyFields DEF LessEqual, FlatLessEqual, Tags
<1>3. FlatLessEqual(Apply(tag, s).deferred, Apply(tag, t).deferred)
  BY ApplyFields DEF LessEqual, FlatLessEqual, Tags
<1>4. /\ Apply(tag, s).uncertainty \subseteq Apply(tag, t).uncertainty
      /\ Apply(tag, s).effects \subseteq Apply(tag, t).effects
      /\ Apply(tag, s).identity <= Apply(tag, t).identity
  BY ApplyFields DEF LessEqual, UnknownIdentity
<1> QED  BY <1>1, <1>2, <1>3, <1>4 DEF LessEqual

\* An effect claims no more of an entry that needs validation than of one that is proven.
Coherent(f) == f \in Conditional /\ LessEqual(f.proven, f.required)

LEMMA EffectIsMonotone ==
    ASSUME NEW f, Coherent(f), NEW s \in AbstractState, NEW t \in AbstractState, LessEqual(s, t)
    PROVE  LessEqual(EffectApply(f, s), EffectApply(f, t))
<1>1. LET h == Selected(f, s)
          k == Selected(f, t)
      IN  /\ h.validation = "required" => k.validation = "required"
          /\ h.hazards \subseteq k.hazards /\ FlatLessEqual(h.result, k.result)
  BY DEF Coherent, Selected, LessEqual, FlatLessEqual, AbstractState
<1> QED  BY <1>1, EffectFields DEF Coherent, LessEqual

\* Every effect the solver builds (from the identity, by then and thenSummary) is
\* coherent, and a coherent effect is monotone: a summary that was computed for a
\* proven entry is not undercut by applying it where less is known.
THEOREM SummariesAreMonotone ==
    /\ Coherent(IdentityEffect)
    /\ \A f, g : Coherent(f) /\ Coherent(g) =>
          /\ \A tag \in Tags : Coherent(Then(f, tag))
          /\ Coherent(ThenSummary(f, g))
          /\ \A s, t \in AbstractState :
                LessEqual(s, t) => LessEqual(EffectApply(f, s), EffectApply(f, t))
<1>1. Coherent(IdentityEffect)
  BY DEF Coherent, Conditional, IdentityEffect, NeedsValidate, Validated, Plain, AbstractState,
         LessEqual, FlatLessEqual, Results, DeferredErrors, Identities, Unrelated, UnknownIdentity
<1>2. ASSUME NEW f, Coherent(f), NEW tag \in Tags PROVE Coherent(Then(f, tag))
  <2>1. f.proven \in AbstractState /\ f.required \in AbstractState /\ LessEqual(f.proven, f.required)
    BY <1>2 DEF Coherent, Conditional
  <2>2. Then(f, tag) \in Conditional
    BY <2>1, ApplyFields DEF Then, Conditional
  <2> QED  BY <2>1, <2>2, ApplyIsMonotone DEF Coherent, Then
<1>3. ASSUME NEW f, NEW g, Coherent(f), Coherent(g) PROVE Coherent(ThenSummary(f, g))
  <2>1. f.proven \in AbstractState /\ f.required \in AbstractState /\ LessEqual(f.proven, f.required)
    BY <1>3 DEF Coherent, Conditional
  <2>2. ThenSummary(f, g) \in Conditional
    BY <1>3, <2>1, EffectFields DEF ThenSummary, Coherent, Conditional
  <2> QED  BY <1>3, <2>1, <2>2, EffectIsMonotone DEF Coherent, ThenSummary
<1> QED  BY <1>1, <1>2, <1>3, EffectIsMonotone
=============================================================================
