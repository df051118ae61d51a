--------------------------- MODULE SsaConstraints ---------------------------
(***************************************************************************)
(* The constraint fragment of the feasibility check                        *)
(* (goplint/cfa_ssa_constraints.go, cfa_feasibility_ssa_constraints.go):   *)
(* comparisons of an SSA value with a constant, their disjunctive normal   *)
(* form, contradictions between two of them, and the evidence that every   *)
(* alternative of a formula is contradictory.                              *)
(*                                                                         *)
(* A constant is its spelling in the source (text), the value it has       *)
(* (value), and whether the spelling parses as a number (numeric). An      *)
(* alternative is the set of its atoms; a formula keeps the number and the *)
(* order of its alternatives.                                              *)
(***************************************************************************)
EXTENDS Integers, Sequences

CONSTANT AlternativeLimit   \* cfgSSAConstraintAlternativeLimit

ASSUME LimitAssumption == AlternativeLimit \in Nat \ {0}

Ops == {"eq", "neq", "lt", "le", "gt", "ge"}

\* negateCFGComparisonOp.
Negate(op) ==
    CASE op = "eq" -> "neq" [] op = "neq" -> "eq"
      [] op = "lt" -> "ge" [] op = "ge" -> "lt"
      [] op = "le" -> "gt" [] op = "gt" -> "le"

\* reverseComparisonToken.
ReverseOp(op) ==
    CASE op = "lt" -> "gt" [] op = "gt" -> "lt"
      [] op = "le" -> "ge" [] op = "ge" -> "le"
      [] OTHER -> op

-----------------------------------------------------------------------------
(* Formulas. *)

\* cfgSSAConstantFormula.
ConstantFormula(value) ==
    [alternatives |-> IF value THEN << {} >> ELSE << >>, unsupported |-> FALSE]

\* Mutant: an atom that is not understood contributes no alternative.
UnsupportedIsFalse == [alternatives |-> << >>, unsupported |-> TRUE]

\* cfgSSAUnsupportedFormula: an atom that is not understood contributes true.
UnsupportedFormula == [alternatives |-> << {} >>, unsupported |-> TRUE]

AtomFormula(atom) == [alternatives |-> << {atom} >>, unsupported |-> FALSE]

\* Every alternative of l with every alternative of r, those of r running faster.
Products(l, r) ==
    [k \in 1..(Len(l) * Len(r)) |-> l[((k - 1) \div Len(r)) + 1] \cup r[((k - 1) % Len(r)) + 1]]

\* Mutant: the conjunction is complete when its left side is.
AndComplete(l, r) ==
    IF Len(l.alternatives) * Len(r.alternatives) > AlternativeLimit
    THEN UnsupportedFormula
    ELSE [alternatives |-> Products(l.alternatives, r.alternatives),
          unsupported |-> l.unsupported]

\* cfgSSAFormulaAndWithControl.
And(l, r) ==
    IF Len(l.alternatives) = 0 \/ Len(r.alternatives) = 0
    THEN [alternatives |-> << >>, unsupported |-> l.unsupported \/ r.unsupported]
    ELSE IF Len(l.alternatives) * Len(r.alternatives) > AlternativeLimit
    THEN UnsupportedFormula
    ELSE [alternatives |-> Products(l.alternatives, r.alternatives),
          unsupported |-> l.unsupported \/ r.unsupported]

\* cfgSSAFormulaOrWithControl.
Or(l, r) ==
    IF Len(l.alternatives) + Len(r.alternatives) > AlternativeLimit
    THEN UnsupportedFormula
    ELSE [alternatives |-> l.alternatives \o r.alternatives,
          unsupported |-> l.unsupported \/ r.unsupported]

-----------------------------------------------------------------------------
(* Contradictions. *)

\* compareCFGNumericConstants can tell the order of the two.
Comparable(c, d) == c.numeric /\ d.numeric

\* cfgEqualityContradicts: the value c, and an atom that is not an equality.
ValueContradicts(c, atom) ==
    \/ atom.op = "neq" /\ c.text = atom.constant.text
    \/ /\ Comparable(c, atom.constant)
       /\ \/ atom.op = "lt" /\ c.value >= atom.constant.value
          \/ atom.op = "le" /\ c.value > atom.constant.value
          \/ atom.op = "gt" /\ c.value <= atom.constant.value
          \/ atom.op = "ge" /\ c.value < atom.constant.value

\* cfgOrderedBounds and cfgOrderedConstraintsContradict, the lower bound first.
Disjoint(lower, upper) ==
    /\ lower.op \in {"gt", "ge"}
    /\ upper.op \in {"lt", "le"}
    /\ Comparable(lower.constant, upper.constant)
    /\ \/ lower.constant.value > upper.constant.value
       \/ /\ lower.constant.value = upper.constant.value
          /\ lower.op = "gt" \/ upper.op = "lt"

\* ssaConstraintsContradict.
AtomsContradict(a, b) ==
    /\ a.subject = b.subject
    /\ \/ a.op = "eq" /\ b.op = "eq" /\ a.constant.text # b.constant.text
       \/ a.op = "eq" /\ ValueContradicts(a.constant, b)
       \/ b.op = "eq" /\ ValueContradicts(b.constant, a)
       \/ Disjoint(a, b)
       \/ Disjoint(b, a)

\* findSSAConstraintContradictionWithDeadline.
Contradictory(alternative) == \E a, b \in alternative : AtomsContradict(a, b)

\* Every alternative is contradictory, or there is none.
Unsat(f) == \A i \in DOMAIN f.alternatives : Contradictory(f.alternatives[i])

-----------------------------------------------------------------------------
(* Evidence. *)

\* ssaConstraintSubjectsWithDeadline.
SubjectsOf(f) ==
    UNION {{a.subject : a \in f.alternatives[i]} : i \in DOMAIN f.alternatives}

ContradictionOf(alternative) ==
    CHOOSE p \in alternative \X alternative : AtomsContradict(p[1], p[2])

\* buildSSAConstraintEvidenceWithDeadline, for a formula that is Unsat, with the path and
\* the subjects Check adds.
BuildEvidence(f, path) ==
    [constantFalse |-> Len(f.alternatives) = 0, path |-> path, subjects |-> SubjectsOf(f),
     contradictions |-> [i \in DOMAIN f.alternatives |-> ContradictionOf(f.alternatives[i])]]

\* checkSSAConstraintFormulaEvidenceWithDeadline.
EvidenceHolds(f, path, evidence) ==
    /\ evidence.path = path
    /\ evidence.subjects = SubjectsOf(f)
    /\ evidence.constantFalse <=> Len(f.alternatives) = 0
    /\ Len(evidence.contradictions) = Len(f.alternatives)
    /\ \A i \in DOMAIN f.alternatives :
          /\ evidence.contradictions[i][1] \in f.alternatives[i]
          /\ evidence.contradictions[i][2] \in f.alternatives[i]
          /\ AtomsContradict(evidence.contradictions[i][1], evidence.contradictions[i][2])

-----------------------------------------------------------------------------
(* What the constraints mean, for the properties. *)

Compares(v, op, w) ==
    \/ op = "eq" /\ v = w
    \/ op = "neq" /\ v # w
    \/ op = "lt" /\ v < w
    \/ op = "le" /\ v <= w
    \/ op = "gt" /\ v > w
    \/ op = "ge" /\ v >= w

Satisfies(v, atom) == Compares(v[atom.subject], atom.op, atom.constant.value)

SatisfiesFormula(v, f) ==
    \E i \in DOMAIN f.alternatives : \A a \in f.alternatives[i] : Satisfies(v, a)
=============================================================================
