--------------------------- MODULE PathSemantics ---------------------------
(***************************************************************************)
(* What the paths of a program do, as the reference for the solver and the *)
(* graph it solves. The control flow of the program is in the flow and     *)
(* ends fields of a graph, which the solver does not look at. A            *)
(* configuration is a node, the abstract state there, the stack of open    *)
(* calls and the current value of every SSA subject. A configuration steps *)
(* along one edge; a return goes back to the call it matches. In the       *)
(* feasible semantics a branch is taken only when the values satisfy its   *)
(* predicate, and a node that computes a value anew gives it any value. In *)
(* the other one every branch may be taken.                                *)
(*                                                                         *)
(* The closure of the step relation needs a recursive operator, so this    *)
(* module is for TLC only.                                                 *)
(***************************************************************************)
EXTENDS Tabulation

CONSTANTS Values,    \* the values a subject may have
          MaxDepth   \* the deepest stack followed

Holds(env, a) ==
    CASE a.op = "eq"  -> env[a.subject] = a.value
      [] a.op = "neq" -> env[a.subject] # a.value
      [] a.op = "lt"  -> env[a.subject] < a.value
      [] a.op = "le"  -> env[a.subject] <= a.value
      [] a.op = "gt"  -> env[a.subject] > a.value
      [] a.op = "ge"  -> env[a.subject] >= a.value
      [] OTHER        -> TRUE

\* The values after node n has run.
Redefined(g, n, env) ==
    {f \in [DOMAIN env -> Values] : \A x \in DOMAIN env \ g.defines[n] : f[x] = env[x]}

Config(node, state, stack, env) ==
    [node |-> node, state |-> state, stack |-> stack, env |-> env]

Starts(g, feasible) ==
    LET subjects == IF feasible THEN g.subjects ELSE {}
    IN  {Config(g.start, NeedsValidate, << >>, env) :
            env \in {f \in [subjects -> Values] :
                        feasible => \A a \in g.prefix : Holds(f, a)}}

\* The edges a path takes from a node the solver judged v, with the calls of the
\* stack open.
OpenEdges(g, n, v, stack) ==
    {e \in g.flow :
        /\ e.from = n
        /\ IF e.kind = "return"
           THEN stack # << >> /\ Last(stack) = e.site
           ELSE /\ ~PruneEdge(g, e, v.state)
                /\ e.kind = "call" => Len(stack) < MaxDepth}

StackAfter(e, stack) ==
    CASE e.kind = "call"   -> Append(stack, e.site)
      [] e.kind = "return" -> Front(stack)
      [] OTHER             -> stack

Along(g, feasible, c, v, e) ==
    {Config(e.to, IF e.kind = "return" THEN v.state ELSE EdgeState(e, v.state),
            StackAfter(e, c.stack), env) :
        env \in {f \in Redefined(g, c.node, c.env) :
                    feasible => \A a \in e.preds : Holds(f, a)}}

MovesFrom(g, feasible, c, v) ==
    IF v.verdict \in {"blocked", "unsafe"} THEN {}
    ELSE UNION {Along(g, feasible, c, v, e) : e \in OpenEdges(g, c.node, v, c.stack)}

Moves(g, feasible, c) == MovesFrom(g, feasible, c, Visit(g, c.node, c.state))

RECURSIVE Closure(_, _, _, _)
Closure(g, feasible, seen, frontier) ==
    IF frontier = {} THEN seen
    ELSE LET next == UNION {Moves(g, feasible, c) : c \in frontier} \ seen
         IN  Closure(g, feasible, seen \cup next, next)

\* The class of an obligation by its paths: unsafe if one of them is, blocking
\* if one of them is unresolved, safe otherwise.
ClassOf(verdicts) ==
    IF "unsafe" \in verdicts THEN "unsafe"
    ELSE IF verdicts \cap {"blocked", "inconclusive"} # {} THEN "inconclusive"
    ELSE "safe"

PathClass(g, feasible) ==
    LET program == [g EXCEPT !.terminals = g.ends]
        starts  == Starts(program, feasible)
    IN  ClassOf({Visit(program, c.node, c.state).verdict :
                    c \in Closure(program, feasible, starts, starts)})

-----------------------------------------------------------------------------
\* Every local of the solver and of the refinement loop holds what its type
\* says, and the counters stay within their budgets.
TypeOK ==
    /\ order \in WorklistOrders
    /\ requested \in StateBudgets
    /\ maxStates \in StateBudgets \cup {DefaultMaxStates}
    /\ expired \in BOOLEAN
    /\ pc \in {"solve", "check", "attempt", "rerun", "done"}
    /\ verdict \in {None, "sat", "unsat", "unknown"}
    /\ result.class \in {"none", "safe", "unsafe", "inconclusive"}
    /\ Cardinality(discharged) = iterations
    /\ iterations \in 0..IterationBudget
    /\ queries \in 0..QueryBudget
    /\ \A p \in tab.edges \cup Range(tab.queue) : p.state \in AbstractState

\* A run that is not stopped by a budget or the deadline reports the class of
\* the realizable paths of the supergraph: reusing a summary at another call
\* site, and keeping only the least constrained witnesses, neither lose a path
\* nor invent one, whichever end of the worklist is taken.
SolverMatchesPaths ==
    (/\ iterations = 0
     /\ pc \in {"check", "attempt", "done"}
     /\ tab.budget = NoResult
     /\ ~expired)
    => TabResult(tab).class = PathClass(graph, FALSE)

\* An obligation that ends safe, at once or after witnesses were discharged, has
\* no feasible path that violates it and none that is unresolved. It holds of the
\* families of the passing run; MCBranchBeforeCall, MCValuePerIteration and MCLoopFirst
\* show graphs of which the solver claims it wrongly.
SafeIsFeasiblySafe ==
    (pc = "done" /\ result.class = "safe") => PathClass(graph, TRUE) = "safe"

\* A reported violation has a feasible path.
ViolationIsFeasible ==
    (pc = "done" /\ result.class = "unsafe") => PathClass(graph, TRUE) = "unsafe"

\* Every witness a run reports is a connected path of the supergraph whose
\* returns match its calls and whose states follow from its transfers.
WitnessesReplay ==
    result # NoResult => Replays(graph, result)

\* Every analysis ends, loops and recursion in the graph included.
Terminates == <>(pc = "done")
=============================================================================
