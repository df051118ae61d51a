----------------------------- MODULE MCAnalyzer -----------------------------
(***************************************************************************)
(* What the analyzer asks about one function: the solver (Tabulation), the *)
(* feasibility of a witness (Feasibility) and the aliases of a value       *)
(* (Aliases).  They share no state: a behaviour is one of component, and   *)
(* the variables of the others are at rest.                                *)
(***************************************************************************)
EXTENDS MCTabulation, SsaConstraints

CONSTANTS
    Branchings,                                     \* Blocks of Feasibility
    Subjects, MaxPrefix, MaxSuffix, NoTag,
    FunctionBodies,                                 \* Programs of Aliases
    MaxForeign,
    MaxInstructions                                 \* MaxSteps of Aliases

VARIABLES
    component,
    query, stage, formula, next, evidence, answer,  \* of Feasibility
    program, queue, cursor, state, reached, out, before, at, env, heap, leaked, steps

solving == vars
deciding == << query, stage, formula, next, evidence, answer >>
aliasing == << program, queue, cursor, state, reached, out, before, at, env, heap, leaked, steps >>

F == INSTANCE MCFeasibility WITH Blocks <- Branchings, pc <- stage, verdict <- answer
A == INSTANCE MCAliases WITH Programs <- FunctionBodies, MaxSteps <- MaxInstructions, pc <- at

\* The families alone, which depend on no set they become.
Conditions == INSTANCE MCFeasibility WITH Blocks <- {}, pc <- stage, verdict <- answer
Bodies == INSTANCE MCAliases WITH Programs <- {}, MaxSteps <- MaxInstructions, pc <- at

ConditionBlocks == Conditions!MCBlocks
AliasPrograms == Bodies!MCPrograms

-----------------------------------------------------------------------------
SolverRests ==
    /\ graph = << >> /\ order = "fifo" /\ requested = 0 /\ maxStates = 0 /\ expired = TRUE
    /\ pc = "done" /\ tab = [budget |-> NoResult] /\ result = NoResult /\ verdict = None
    /\ discharged = {} /\ iterations = 0 /\ queries = 0

FeasibilityRests ==
    /\ query = << >> /\ stage = "rests" /\ formula = << >> /\ next = 1 /\ evidence = << >>
    /\ answer = << >>

AliasesRest ==
    /\ program = << >> /\ queue = << >> /\ cursor = << >> /\ state = << >> /\ reached = {}
    /\ out = << >> /\ before = << >> /\ at = << >> /\ env = << >> /\ heap = << >>
    /\ leaked = {} /\ steps = 0

AnalyzerInit ==
    \/ component = "solver" /\ Init /\ FeasibilityRests /\ AliasesRest
    \/ component = "feasibility" /\ F!Init /\ SolverRests /\ AliasesRest
    \/ component = "aliases" /\ A!Init /\ SolverRests /\ FeasibilityRests

AnalyzerNext ==
    /\ \/ component = "solver" /\ Next /\ UNCHANGED << deciding, aliasing >>
       \/ component = "feasibility" /\ F!Next /\ UNCHANGED << solving, aliasing >>
       \/ component = "aliases" /\ A!Next /\ UNCHANGED << solving, deciding >>
    /\ UNCHANGED component

AnalyzerSpec ==
    /\ AnalyzerInit
    /\ [][AnalyzerNext]_<< component, solving, deciding, aliasing >>
    /\ Fairness /\ A!Fairness

-----------------------------------------------------------------------------
(* The properties of Feasibility and Aliases, in their behaviours. *)

\* A witness found contradictory is taken by no values (checkFeasibilityWithDeadline).
UnsatIsInfeasible == component = "feasibility" => F!UnsatIsInfeasible

\* Satisfiable only when all conditions were understood, contradictory only with evidence
\* that survives its check (checkSSAConstraintEvidenceWithDigests).
VerdictsAreBacked == component = "feasibility" => F!VerdictsAreBacked

\* What the analysis says a value certainly is, it is (resolveBefore).
MustIsSound == component = "aliases" => A!MustIsSound

\* A call matched to the tracked value is a call on it (resolutionAt).
MatchIsGenuine == component = "aliases" => A!MatchIsGenuine

\* The worklist over the blocks runs dry (analyzeProtocolAliases).
WorklistsRunDry == component = "aliases" => A!WorklistsRunDry
=============================================================================
