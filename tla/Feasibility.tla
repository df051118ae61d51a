----------------------------- MODULE Feasibility -----------------------------
(***************************************************************************)
(* The feasibility check of one witness                                    *)
(* (cfgRefinementController.checkFeasibilityWithDeadline and               *)
(* cfgSSAConstraintsFeasibilityBackend.Check): the conditions of the       *)
(* branches that dominate the origin of the fact and of the branches the   *)
(* witness takes are turned into a formula, one branch after the other; a  *)
(* contradictory formula comes with evidence, which is checked against a   *)
(* formula extracted once more. The deadline may pass at every step.       *)
(*                                                                         *)
(* A block is its condition, the last expression of the block, and the tag *)
(* before it when it is the first case of a switch. Conditions are trees:  *)
(*   [kind |-> "constant", value]          true or false                   *)
(*   [kind |-> "boolean", subject]         a boolean variable              *)
(*   [kind |-> "compare", subject, op, constant, flipped, phi]             *)
(*   [kind |-> "not", of], [kind |-> "and" or "or", left, right]           *)
(*   [kind |-> "literal", constant]        the expression of a case        *)
(*   [kind |-> "opaque", subject]          anything else                   *)
(*   [kind |-> "receive", subject]         a receive or a type assertion   *)
(***************************************************************************)
EXTENDS SsaConstraints, SequencesExt

CONSTANTS
    Blocks,      \* the branching blocks a witness may pass
    Subjects,    \* SSA values, and the outcomes of opaque conditions
    Values,      \* the values they may have, false = 0 and true = 1 included
    MaxPrefix,   \* bound: branches that dominate the origin
    MaxSuffix,   \* bound: branches the witness takes
    NoTag        \* the block is not the case of a switch

VARIABLES
    query,     \* the branches of the witness: [block, truthy]
    pc,        \* "extract", "recheck" or "done"
    formula,   \* the conjunction so far
    next,      \* the next branch to extract
    evidence,  \* evidence of a contradiction
    verdict    \* [result, reason]

vars == << query, pc, formula, next, evidence, verdict >>

-----------------------------------------------------------------------------
(* Extraction. *)

True == [text |-> "true", value |-> 1, numeric |-> FALSE]
False == [text |-> "false", value |-> 0, numeric |-> FALSE]

Atom(subject, op, constant) == [subject |-> subject, op |-> op, constant |-> constant]

\* extractSSAComparisonAtom, and the comparison the other way round: the order of a loop
\* variable is not understood.
Comparison(c, truthy) ==
    LET op == IF c.flipped THEN ReverseOp(c.op) ELSE c.op
    IN  IF c.phi /\ op \notin {"eq", "neq"} THEN UnsupportedFormula
        ELSE AtomFormula(Atom(c.subject, IF truthy THEN op ELSE Negate(op), c.constant))

RECURSIVE PredicateFormula(_, _)

\* extractSSAPredicateFormulaWithControl: polarity moves to the leaves.
PredicateFormula(c, truthy) ==
    CASE c.kind = "constant" -> ConstantFormula(c.value = truthy)
      [] c.kind = "boolean" ->
            AtomFormula(Atom(c.subject, "eq", IF truthy THEN True ELSE False))
      [] c.kind = "compare" -> Comparison(c, truthy)
      [] c.kind = "not" -> PredicateFormula(c.of, ~truthy)
      [] c.kind = IF truthy THEN "and" ELSE "or" ->
            And(PredicateFormula(c.left, truthy), PredicateFormula(c.right, truthy))
      [] c.kind = IF truthy THEN "or" ELSE "and" ->
            Or(PredicateFormula(c.left, truthy), PredicateFormula(c.right, truthy))
      [] OTHER -> UnsupportedFormula

\* extractSSASwitchCasePredicate.
SwitchCase(block, truthy) ==
    IF block.tag = NoTag \/ block.condition.kind # "literal" THEN UnsupportedFormula
    ELSE AtomFormula(Atom(block.tag, IF truthy THEN "eq" ELSE "neq", block.condition.constant))

\* A dominating branch: extractSSADominatingConstraintsForWitnessStartWithControl keeps
\* what it understands of the condition.
DominatingFormula(b) ==
    IF /\ PredicateFormula(b.block.condition, b.truthy).unsupported
       /\ ~SwitchCase(b.block, b.truthy).unsupported
    THEN SwitchCase(b.block, b.truthy)
    ELSE PredicateFormula(b.block.condition, b.truthy)

\* cfgSSAPredicateProvenance and cfgSSAFormulaFromPredicateProvenanceWithControl: on an
\* edge of the witness a condition is kept as a whole or not at all, and a
\* nondeterministic branch constrains nothing.
EdgeFormula(b) ==
    IF ~PredicateFormula(b.block.condition, b.truthy).unsupported
    THEN PredicateFormula(b.block.condition, b.truthy)
    ELSE IF ~SwitchCase(b.block, b.truthy).unsupported
    THEN SwitchCase(b.block, b.truthy)
    ELSE IF b.block.condition.kind = "receive" THEN ConstantFormula(TRUE)
    ELSE UnsupportedFormula

Branches == query.prefix \o query.suffix

BranchFormula(q, i) ==
    IF i <= Len(q.prefix) THEN DominatingFormula(q.prefix[i])
    ELSE EdgeFormula(q.suffix[i - Len(q.prefix)])

\* extractSSAConstraintsForWitnessRecordWithControl in one go.
Extracted(q) ==
    LET conjunction(branches) == FoldLeft(And, ConstantFormula(TRUE), branches)
    IN  And(conjunction([i \in DOMAIN q.prefix |-> DominatingFormula(q.prefix[i])]),
            conjunction([i \in DOMAIN q.suffix |-> EdgeFormula(q.suffix[i])]))

-----------------------------------------------------------------------------
(* The check. *)

Verdict(result, reason) == [result |-> result, reason |-> reason]

Branch == [block : Blocks, truthy : BOOLEAN]

Init ==
    /\ query \in [prefix : BoundedSeq(Branch, MaxPrefix), suffix : BoundedSeq(Branch, MaxSuffix)]
    /\ pc = "extract"
    /\ formula = [prefix |-> ConstantFormula(TRUE), suffix |-> ConstantFormula(TRUE)]
    /\ next = 1
    /\ evidence = << >>
    /\ verdict = Verdict("none", "none")

\* The conjunction with the next branch, of the prefix or of the witness.
ExtractBranch ==
    /\ pc = "extract"
    /\ next <= Len(Branches)
    /\ formula' =
          IF next <= Len(query.prefix)
          THEN [formula EXCEPT !.prefix = And(@, BranchFormula(query, next))]
          ELSE [formula EXCEPT !.suffix = And(@, BranchFormula(query, next))]
    /\ next' = next + 1
    /\ UNCHANGED << query, pc, evidence, verdict >>

Return(v) ==
    /\ verdict' = v
    /\ pc' = "done"

\* The rest of Check: the prefix and the witness, evidence or the lack of it.
Conjunction == And(formula.prefix, formula.suffix)

Decide ==
    /\ pc = "extract"
    /\ next > Len(Branches)
    /\ IF Unsat(Conjunction)
       THEN /\ evidence' = << BuildEvidence(Conjunction, query) >>
            /\ pc' = "recheck"
            /\ UNCHANGED verdict
       ELSE /\ UNCHANGED evidence
            /\ IF Conjunction.unsupported THEN Return(Verdict("unknown", "unsupported-predicate"))
               ELSE Return(Verdict("sat", "none"))
    /\ UNCHANGED << query, formula, next >>

\* checkSSAConstraintEvidenceWithDigests on a formula extracted anew.
Recheck ==
    /\ pc = "recheck"
    /\ Return(IF EvidenceHolds(Extracted(query), query, evidence[1])
              THEN Verdict("unsat", "none") ELSE Verdict("unknown", "evidence-rejected"))
    /\ UNCHANGED << query, formula, next, evidence >>

\* The deadline has passed at one of the checkpoints.
Timeout ==
    /\ pc # "done"
    /\ Return(Verdict("unknown", "timeout"))
    /\ UNCHANGED << query, formula, next, evidence >>

Returned ==
    /\ pc = "done"
    /\ UNCHANGED vars

Next == ExtractBranch \/ Decide \/ Recheck \/ Timeout \/ Returned

Spec == Init /\ [][Next]_vars

-----------------------------------------------------------------------------
(* Properties. *)

\* The types of the variables, the bound on the alternatives included.
TypeOK ==
    /\ query.prefix \in BoundedSeq(Branch, MaxPrefix)
    /\ query.suffix \in BoundedSeq(Branch, MaxSuffix)
    /\ pc \in {"extract", "recheck", "done"}
    /\ \A part \in {formula.prefix, formula.suffix} :
          /\ Len(part.alternatives) <= AlternativeLimit
          /\ part.unsupported \in BOOLEAN
    /\ next \in 1..(Len(Branches) + 1)
    /\ Len(evidence) <= 1
    /\ verdict.result \in {"none", "sat", "unsat", "unknown"}

RECURSIVE Evaluate(_, _)

\* What the Go program makes of a condition when its values are v.
Evaluate(c, v) ==
    CASE c.kind = "constant" -> c.value
      [] c.kind = "boolean" -> v[c.subject] = 1
      [] c.kind = "compare" ->
            IF c.flipped THEN Compares(c.constant.value, c.op, v[c.subject])
            ELSE Compares(v[c.subject], c.op, c.constant.value)
      [] c.kind = "not" -> ~Evaluate(c.of, v)
      [] c.kind = "and" -> Evaluate(c.left, v) /\ Evaluate(c.right, v)
      [] c.kind = "or" -> Evaluate(c.left, v) \/ Evaluate(c.right, v)
      [] OTHER -> v[c.subject] = 1

\* The branch of a block: the first case of a switch is taken when the tag has its value.
Taken(block, v) ==
    IF block.tag = NoTag THEN Evaluate(block.condition, v)
    ELSE IF block.condition.kind = "literal" THEN v[block.tag] = block.condition.constant.value
    ELSE (v[block.tag] = 1) <=> Evaluate(block.condition, v)

Feasible(branches) ==
    \E v \in [Subjects -> Values] :
        \A i \in DOMAIN branches : Taken(branches[i].block, v) <=> branches[i].truthy

\* A witness is discharged as infeasible only when no values of the program take its
\* branches, whatever part of the conditions is not understood and however many
\* alternatives were given up (checkFeasibilityWithDeadline).
UnsatIsInfeasible == verdict.result = "unsat" => ~Feasible(Branches)

RECURSIVE Understood(_)

\* No part of the condition is replaced by true.
Understood(c) ==
    CASE c.kind = "not" -> Understood(c.of)
      [] c.kind \in {"and", "or"} -> Understood(c.left) /\ Understood(c.right)
      [] c.kind = "compare" -> ~(c.phi /\ c.op \notin {"eq", "neq"})
      [] OTHER -> c.kind # "opaque"

\* A witness is called satisfiable only when every condition on it was understood: what is
\* left out must stay unknown (cfgSSAConstraintFormula.unsupported).
SatIsComplete ==
    verdict.result = "sat" => \A i \in DOMAIN Branches : Understood(Branches[i].block.condition)

\* The evidence of a contradiction is accepted by the checker, which extracts the formula
\* again, unless the deadline passes (checkSSAConstraintEvidenceWithDigests).
EvidenceIsAccepted == verdict.reason # "evidence-rejected"

\* Both decided verdicts are backed: satisfiable by full understanding of the witness,
\* contradictory by evidence that survives its independent check.
VerdictsAreBacked == SatIsComplete /\ EvidenceIsAccepted
=============================================================================
