----------------------------- MODULE Tabulation -----------------------------
(***************************************************************************)
(* The interprocedural solver behind every path-sensitive check of the     *)
(* analyzer (cfa_ifds_tabulation.go): a worklist of path edges, procedure  *)
(* summaries and call dependencies over a supergraph, with an antichain of *)
(* witnesses per contribution and a budget of work units; and, around it,  *)
(* the refinement loop (cfa_refinement.go) that asks whether the reported  *)
(* witness is feasible, discharges the ones it shows contradictory and     *)
(* runs the solver again.                                                  *)
(*                                                                         *)
(* One worklist item is one step. The deadline may pass between any two    *)
(* steps; a deadline that passes inside a step is seen by the checkpoints  *)
(* of that step or by the next one, and in both cases the run returns      *)
(* "timeout", so the split makes no difference to the result.              *)
(*                                                                         *)
(* A graph is a record:                                                    *)
(*   check     the obligation: "cast", "ubv" (use before validation), or  *)
(*             "boundary" (use of a request before its validation)          *)
(*   start     the node the obligation starts at, func its procedures      *)
(*   edges     the sequence of edges, in the order outgoing sorts them;    *)
(*             an edge has a kind, a call site, the predicates of its       *)
(*             branch, the tag and the reason its edge transfer answers (a  *)
(*             call-to-return edge: the reason a relevant unresolved call   *)
(*             carries) and whether a failed validation on it discharges    *)
(*   label     what each node does to the tracked value                    *)
(*   terminals, sinks  the terminal nodes and the obligation sinks         *)
(*   prefix    the predicates that dominate the origin of the obligation   *)
(*   defines   the SSA values a node computes anew (used by PathSemantics) *)
(*   flow, ends  the control flow of the program and where its procedures  *)
(*             end (used by PathSemantics)                                  *)
(***************************************************************************)
EXTENDS ProtocolDomain, FiniteSets, FiniteSetsExt, SequencesExt

CONSTANTS
    Graphs,           \* the supergraphs to solve
    WorklistOrders,   \* subset of {"fifo", "lifo"}
    StateBudgets,     \* values of maxStates to start with
    DefaultMaxStates, \* defaultCFGMaxStates
    WitnessLimit,     \* interprocWitnessAntichainLimit
    IterationBudget,  \* refinement iterations
    QueryBudget       \* feasibility queries

ASSUME TabulationAssumption ==
    /\ WorklistOrders \subseteq {"fifo", "lifo"}
    /\ StateBudgets \subseteq Nat \ {0}
    /\ DefaultMaxStates \in Nat \ {0}
    /\ WitnessLimit \in Nat \ {0}
    /\ IterationBudget \in Nat
    /\ QueryBudget \in Nat \ {0}

VARIABLES
    graph,      \* the supergraph under analysis
    order,      \* the worklist order of the control
    requested,  \* the work-unit budget of the obligation
    maxStates,  \* the work-unit budget of the current run
    expired,    \* the control's deadline has passed
    pc,         \* "solve", "check", "attempt", "rerun" or "done"
    tab,        \* the locals of runIFDSPropagationWithStatsOptions
    result,     \* the result the refinement controller holds
    verdict,    \* the feasibility verdict on that result
    discharged, \* hashes of the witnesses with accepted UNSAT evidence, which
                \* are also the attempts the refinement cache has recorded
    iterations,
    queries

vars == << graph, order, requested, maxStates, expired, pc, tab, result, verdict,
           discharged, iterations, queries >>

-----------------------------------------------------------------------------
(* The supergraph. *)

EdgesWhere(g, Test(_)) == SelectSeq(g.edges, Test)

NonReturnEdges(g, n) == EdgesWhere(g, LAMBDA e : e.from = n /\ e.kind # "return")

ReturnsFrom(g, n) == {e \in Range(g.edges) : e.from = n /\ e.kind = "return"}

ReturnsForCall(g, call) ==
    EdgesWhere(g, LAMBDA e : /\ e.kind = "return"
                             /\ e.site = call.site
                             /\ g.func[e.from] = g.func[call.to])

Position(g, e) == CHOOSE i \in DOMAIN g.edges : g.edges[i] = e

\* The transfer closures of the cast and use-before-validation solvers, by what
\* they answer for the tracked value at a node.
Transfer(g, n, s) ==
    LET Always(tag, reason) == [tag |-> tag, reason |-> reason]
        Required(tag) ==
            Always(IF s.validation = "required" THEN tag ELSE "identity", None)
        failed == g.check = "cast" /\ s.result = "nonnil"
        Escape == Required(IF failed THEN "consume" ELSE "escape")
        Use == Required(IF failed \/ g.check # "cast" THEN "consume" ELSE "identity")
    IN  CASE g.label[n] = "validate"  -> Required("validate")
          [] g.label[n] = "use"       -> Use
          [] g.label[n] = "escape"    -> Escape
          [] g.label[n] = "store"     -> IF g.check = "boundary"
                                         THEN Always("identity", "escaped-heap-mutation")
                                         ELSE Escape
          [] g.label[n] = "reassign"  -> IF s.validation = "proven"
                                         THEN Always("invalidate", None)
                                         ELSE Always("identity", None)
          [] g.label[n] = "go"        -> Always("identity", "concurrent-mutation")
          [] g.label[n] = "ambiguous" -> Always("identity", IF s.validation = "required"
                                                            THEN "ambiguous-identity" ELSE None)
          [] g.label[n] = "opaque"    -> Always("identity", "unsupported-instruction")
          [] OTHER                    -> Always("identity", None)

SinkPolicy(g) ==
    IF g.check = "cast"
    THEN [terminalCanObserve |-> TRUE, unresolvedIdentity |-> FALSE,
          mustAliasUncertainty |-> FALSE]
    ELSE [terminalCanObserve |-> g.check = "boundary", unresolvedIdentity |-> TRUE,
          mustAliasUncertainty |-> g.check = "boundary"]

TerminalUnsafe(g, n, s) ==
    /\ g.func[n] = g.func[g.start]
    /\ n \in g.terminals
    /\ IF g.check = "cast" THEN s.validation = "required" ELSE s.hazards # {}

TerminalCanObserve(g, n) ==
    \E s \in {NeedsValidate, ValidationFailed, EscapedBefore, ConsumedBefore} :
        TerminalUnsafe(g, n, s)

\* targetEdgeTransfer: the checked result of a validation, while it is required;
\* an unresolved call that concerns the value adds its reason in any state.
EdgeState(e, s) ==
    LET required == s.validation = "required"
    IN  WithUncertainty(Apply(IF required THEN e.tag ELSE "identity", s),
                        IF required \/ e.kind = "call-to-return" THEN e.reason ELSE None)

\* PruneEdge: the cast solver drops an edge on which a failed validation ends
\* the procedure, a boundary request drops every edge once it is validated.
PruneEdge(g, e, s) ==
    IF g.check = "cast" THEN e.discharges /\ s.validation = "required"
    ELSE g.check = "boundary" /\ s.validation = "proven"

\* The identity the relevance query uses at node n.
QueryIdentity(g, n, after, why) ==
    LET atSink == IF SinkPolicy(g).unresolvedIdentity /\ n \in g.sinks
                  THEN IdentityAtUnresolvedSink(why, after.identity)
                  ELSE after.identity
    IN  IF /\ SinkPolicy(g).mustAliasUncertainty
           /\ n \in g.sinks
           /\ why # None
           /\ atSink = MustAlias
        THEN MayAlias ELSE atSink

SinkReachable(g, n) ==
    \/ n \in g.sinks
    \/ /\ SinkPolicy(g).terminalCanObserve
       /\ ReturnsFrom(g, n) = {}
       /\ TerminalCanObserve(g, n)

\* What the solver concludes at node n when its transfer leaves the state after
\* and the reason why: a violation if the value surely is the tracked one, then
\* a relevant uncertainty, then any other violation.
Judge(g, n, after, why) ==
    IF /\ after.validation = "required"
       /\ after.identity < MayAlias
       /\ TerminalUnsafe(g, n, after)
    THEN "unsafe"
    ELSE IF /\ why # None
            /\ Relevant(after, SinkReachable(g, n), QueryIdentity(g, n, after, why))
    THEN "inconclusive"
    ELSE IF TerminalUnsafe(g, n, after) THEN "unsafe" ELSE "clear"

\* A reason without possible effects blocks the path before the transfer is made.
VisitWith(g, n, tr, after) ==
    IF tr.reason # None /\ EffectsForUncertainty(tr.reason) = {}
    THEN [tag |-> tr.tag, state |-> after, verdict |-> "blocked", reason |-> tr.reason]
    ELSE [tag |-> tr.tag, state |-> after, reason |-> PathOutcomeReason(after),
          verdict |-> Judge(g, n, after, PathOutcomeReason(after))]

VisitTransfer(g, n, s, tr) ==
    VisitWith(g, n, tr, WithUncertainty(Apply(tr.tag, s), tr.reason))

Visit(g, n, s) == VisitTransfer(g, n, s, Transfer(g, n, s))

-----------------------------------------------------------------------------
(* Witnesses: the exact edges a path took and the state around each. *)

WitnessStep(g, e, before, after, tag) ==
    [edge |-> Position(g, e), before |-> before, after |-> after, tag |-> tag]

WitnessPredicates(g, w) == UNION {g.edges[w[i].edge].preds : i \in DOMAIN w}

WitnessSubsumes(g, retained, candidate) ==
    /\ Len(retained) <= Len(candidate)
    /\ WitnessPredicates(g, retained) \subseteq WitnessPredicates(g, candidate)

\* The total order of witness identities, taken edge by edge.
WitnessLeq(u, w) ==
    LET differ == {i \in 1..(IF Len(u) <= Len(w) THEN Len(u) ELSE Len(w)) :
                        u[i].edge # w[i].edge}
    IN  IF differ = {} THEN Len(u) <= Len(w)
        ELSE LET i == CHOOSE i \in differ : \A j \in differ : i <= j
             IN  u[i].edge < w[i].edge

\* interprocTransitionTag.
TransitionTag(before, after) ==
    CASE before = after -> "identity"
      [] before.validation = "required" /\ after.validation = "proven" -> "validate"
      [] before.validation = "required" /\ after.validation = "required"
         /\ before.result # "nonnil" /\ after.result = "nonnil" -> "validation-failed"
      [] before.validation = "proven" /\ after.validation = "required" -> "invalidate"
      [] "escaped" \in after.hazards \ before.hazards -> "escape"
      [] "consumed" \in after.hazards \ before.hazards -> "consume"
      [] OTHER -> "identity"

NoResult == [class |-> "none", reason |-> None, wit |-> << >>, terminal |-> None]

Outcome(class, reason, wit, terminal) ==
    [class |-> class, reason |-> reason, wit |-> wit, terminal |-> terminal]

Trigger(r) == IF r.class = "unsafe" THEN "unsafe-candidate" ELSE r.reason

\* The part of a witness hash that tells two witnesses of one obligation apart.
WitnessHash(r) == << r.wit, r.terminal, Trigger(r) >>

\* preferInterprocResult: the shorter witness, then the smaller one.
Prefer(current, candidate) ==
    IF \/ current = NoResult
       \/ Len(candidate.wit) < Len(current.wit)
       \/ /\ Len(candidate.wit) = Len(current.wit)
          /\ ~WitnessLeq(current.wit, candidate.wit)
    THEN candidate ELSE current

-----------------------------------------------------------------------------
(* The closures of runIFDSPropagationWithStatsOptions. Each takes the      *)
(* solver's locals and returns them changed. Once the budget result is set *)
(* the loops break, so every closure leaves the locals alone.              *)

NoTab == [edges |-> {}, queue |-> << >>, deps |-> {}, sums |-> {}, work |-> 0,
          budget |-> NoResult, unsafe |-> NoResult, inconclusive |-> NoResult]

SetBudgetExceeded(g, t, reason, wit) ==
    [t EXCEPT !.budget =
        Outcome("inconclusive", reason, wit,
                IF wit = << >> THEN g.start ELSE g.edges[Last(wit).edge].to)]

ReserveWorkUnit(g, t, wit) ==
    LET u == [t EXCEPT !.work = @ + 1]
    IN  IF u.work <= maxStates THEN u
        ELSE SetBudgetExceeded(g, u, "state-budget", wit)

PathEdge(entry, node, state, effect, wit) ==
    [entry |-> entry, node |-> node, state |-> state, effect |-> effect, wit |-> wit]

\* interprocPathEdge.key.
SameContribution(p, q) ==
    /\ p.entry = q.entry
    /\ p.node = q.node
    /\ p.state = q.state
    /\ p.effect = q.effect

Enqueue(g, t, p) ==
    LET retained == {r \in t.edges : SameContribution(r, p)}
        covered  == \E r \in retained :
                        /\ WitnessSubsumes(g, r.wit, p.wit)
                        /\ \/ ~WitnessSubsumes(g, p.wit, r.wit)
                           \/ WitnessLeq(r.wit, p.wit)
        replaced == {r \in retained : WitnessSubsumes(g, p.wit, r.wit)}
        rest     == [t EXCEPT !.edges = @ \ replaced]
        u        == ReserveWorkUnit(g, rest, p.wit)
    IN  IF t.budget # NoResult \/ covered THEN t
        ELSE IF Cardinality(retained \ replaced) >= WitnessLimit
        THEN SetBudgetExceeded(g, rest, "witness-budget", p.wit)
        ELSE IF u.budget # NoResult THEN u
        ELSE [u EXCEPT !.edges = @ \cup {p}, !.queue = Append(@, p)]

\* Mutant: the caller's witness skips the path through the callee.
ApplySummarySkippingCallee(g, t, dep, sum) ==
    LET return == CHOOSE e \in Range(g.edges) :
                     /\ e.kind = "return"
                     /\ e.from = dep.exit
                     /\ e.to = dep.returnNode
                     /\ e.site = dep.site
    IN  IF dep.exit # sum.exit THEN t
        ELSE Enqueue(g, t, PathEdge(dep.callerEntry, dep.returnNode, sum.state,
                ThenSummary(dep.effect, sum.effect),
                dep.wit \o << WitnessStep(g, return, sum.before, sum.state, sum.tag) >>))

ApplySummary(g, t, dep, sum) ==
    LET return == CHOOSE e \in Range(g.edges) :
                     /\ e.kind = "return"
                     /\ e.from = dep.exit
                     /\ e.to = dep.returnNode
                     /\ e.site = dep.site
    IN  IF dep.exit # sum.exit THEN t
        ELSE Enqueue(g, t, PathEdge(dep.callerEntry, dep.returnNode, sum.state,
                ThenSummary(dep.effect, sum.effect),
                dep.wit \o sum.wit
                    \o << WitnessStep(g, return, sum.before, sum.state, sum.tag) >>))

\* interprocCallDependency.key: the witness is not part of it.
SameDependency(d, e) == [d EXCEPT !.wit = << >>] = [e EXCEPT !.wit = << >>]

\* Mutant: a call registered after its callee was summarised is not resumed.
RegisterWithoutReplay(g, t, dep) ==
    IF t.budget # NoResult \/ \E d \in t.deps : SameDependency(d, dep) THEN t
    ELSE [ReserveWorkUnit(g, t, dep.wit) EXCEPT !.deps = @ \cup {dep}]

RegisterDependency(g, t, dep) ==
    IF t.budget # NoResult \/ \E d \in t.deps : SameDependency(d, dep) THEN t
    ELSE LET u == ReserveWorkUnit(g, t, dep.wit)
         IN  IF u.budget # NoResult THEN u
             ELSE FoldSet(LAMBDA sum, v : ApplySummary(g, v, dep, sum),
                          [u EXCEPT !.deps = @ \cup {dep}],
                          {sum \in u.sums : sum.entry = dep.calleeEntry})

\* interprocProcedureSummary.key: neither the witness nor the exit transfer.
SameSummary(s, r) ==
    /\ s.entry = r.entry
    /\ s.exit = r.exit
    /\ s.state = r.state
    /\ s.effect = r.effect

PublishSummary(g, t, sum) ==
    IF t.budget # NoResult \/ \E s \in t.sums : SameSummary(s, sum) THEN t
    ELSE LET u == ReserveWorkUnit(g, t, sum.wit)
         IN  IF u.budget # NoResult THEN u
             ELSE FoldSet(LAMBDA dep, v : ApplySummary(g, v, dep, sum),
                          [u EXCEPT !.sums = @ \cup {sum}],
                          {dep \in u.deps : dep.calleeEntry = sum.entry})

\* A call edge: one dependency for each return of the callee, then its entry.
FollowCall(g, t, p, e, state, effect, wit) ==
    LET entry == [node |-> e.to, state |-> state]
        Depend(u, r) ==
            RegisterDependency(g, u,
                [calleeEntry |-> entry, exit |-> r.from, callerEntry |-> p.entry,
                 site |-> e.site, returnNode |-> r.to, effect |-> effect, wit |-> wit])
    IN  Enqueue(g, FoldLeft(Depend, t, ReturnsForCall(g, e)),
                PathEdge(entry, e.to, state, IdentityEffect, << >>))

\* One outgoing edge of a node that left the state v.state.
Follow(g, t, p, v, e) ==
    LET state  == EdgeState(e, v.state)
        effect == Then(Then(p.effect, v.tag),
                       IF v.state.validation = "required" THEN e.tag ELSE "identity")
        wit    == Append(p.wit, WitnessStep(g, e, p.state, state,
                                            TransitionTag(p.state, state)))
    IN  IF t.budget # NoResult \/ PruneEdge(g, e, v.state) THEN t
        ELSE IF e.kind = "call" THEN FollowCall(g, t, p, e, state, effect, wit)
        ELSE Enqueue(g, t, PathEdge(p.entry, e.to, state, effect, wit))

\* What the node contributes to the result, and whether its path goes on.
Report(t, p, v) ==
    LET r == Outcome(IF v.verdict = "unsafe" THEN "unsafe" ELSE "inconclusive",
                     IF v.verdict = "unsafe" THEN None ELSE v.reason,
                     p.wit, p.node)
        silenced == WitnessHash(r) \in discharged
    IN  [ tab   |-> CASE v.verdict = "clear" \/ silenced -> t
                      [] v.verdict = "unsafe" -> [t EXCEPT !.unsafe = Prefer(@, r)]
                      [] OTHER -> [t EXCEPT !.inconclusive = Prefer(@, r)],
          goes  |-> \/ v.verdict = "clear"
                    \/ v.verdict = "inconclusive" /\ ~silenced ]

\* The body of the worklist loop for one path edge.
Process(g, t, p) ==
    LET v   == Visit(g, p.node, p.state)
        rep == Report(t, p, v)
    IN  IF p \notin t.edges THEN t
        ELSE IF ~rep.goes THEN rep.tab
        ELSE IF ReturnsFrom(g, p.node) # {}
        THEN PublishSummary(g, rep.tab,
                [entry |-> p.entry, exit |-> p.node, state |-> v.state,
                 effect |-> Then(p.effect, v.tag), wit |-> p.wit,
                 before |-> p.state, tag |-> v.tag])
        ELSE FoldLeft(LAMBDA u, e : Follow(g, u, p, v, e),
                      rep.tab, NonReturnEdges(g, p.node))

\* Mutant: the item taken from the front is put back at the end.
TakeAndRequeue(t) ==
    IF order = "lifo"
    THEN [edge |-> Last(t.queue), queue |-> Front(t.queue)]
    ELSE [edge |-> Head(t.queue), queue |-> Append(Tail(t.queue), Head(t.queue))]

\* takeProtocolWorklist.
Take(t) ==
    IF order = "lifo"
    THEN [edge |-> Last(t.queue), queue |-> Front(t.queue)]
    ELSE [edge |-> Head(t.queue), queue |-> Tail(t.queue)]

\* The locals at the start of a run, the root path edge enqueued.
StartTab(g) ==
    LET root == PathEdge([node |-> g.start, state |-> NeedsValidate], g.start,
                         NeedsValidate, IdentityEffect, << >>)
    IN  [NoTab EXCEPT !.edges = {root}, !.queue = << root >>, !.work = 1]

\* The precedence of the results when the loop has ended.
TabResult(t) ==
    CASE t.budget # NoResult -> t.budget
      [] expired -> Outcome("inconclusive", "timeout", << >>, graph.start)
      [] t.unsafe # NoResult -> t.unsafe
      [] t.inconclusive # NoResult -> t.inconclusive
      [] OTHER -> Outcome("safe", None, << >>, None)

-----------------------------------------------------------------------------
(* Feasibility: an atom compares one SSA value with a constant; a          *)
(* predicate outside the fragment is "unsupported" and constrains nothing. *)

\* Mutant: only two different equalities contradict each other.
ContradictEqualities(a, b) ==
    /\ a.subject = b.subject
    /\ a.op = "eq" /\ b.op = "eq" /\ a.value # b.value

\* cfgEqualityContradicts: the value v and an atom that is not an equality.
EqualityContradicts(v, a) ==
    \/ a.op = "neq" /\ v = a.value
    \/ a.op = "lt" /\ v >= a.value
    \/ a.op = "le" /\ v > a.value
    \/ a.op = "gt" /\ v <= a.value
    \/ a.op = "ge" /\ v < a.value

\* cfgOrderedConstraintsContradict, with the lower bound given first.
BoundsContradict(lower, upper) ==
    /\ lower.op \in {"gt", "ge"}
    /\ upper.op \in {"lt", "le"}
    /\ \/ lower.value > upper.value
       \/ lower.value = upper.value /\ (lower.op = "gt" \/ upper.op = "lt")

\* ssaConstraintsContradict, on an ordered pair: Verdict takes both orders.
Contradict(a, b) ==
    /\ a.subject = b.subject
    /\ \/ a.op = "eq" /\ b.op = "eq" /\ a.value # b.value
       \/ a.op = "eq" /\ EqualityContradicts(a.value, b)
       \/ BoundsContradict(a, b)

Formula(g, r) == g.prefix \cup WitnessPredicates(g, r.wit)

Atoms(formula) == {a \in formula : a.op # "unsupported"}

Verdict(g, r) ==
    IF expired THEN "unknown"
    ELSE IF \E a, b \in Atoms(Formula(g, r)) : Contradict(a, b) THEN "unsat"
    ELSE IF Atoms(Formula(g, r)) # Formula(g, r) THEN "unknown"
    ELSE "sat"

\* protocolWitnessTransferMatches.
TransferMatches(transferred, observed) ==
    /\ transferred.validation = observed.validation
    /\ transferred.hazards = observed.hazards
    /\ transferred.uncertainty \subseteq observed.uncertainty
    /\ transferred.identity <= observed.identity
    /\ transferred.effects \subseteq observed.effects

\* The open calls after a witness, or << "unmatched" >> if a return does not
\* match the most recent call.
CallStack(g, w) ==
    FoldLeft(LAMBDA stack, x :
                LET e == g.edges[x.edge]
                IN  CASE e.kind = "call" -> Append(stack, << e.site, g.func[e.from], g.func[e.to] >>)
                      [] e.kind = "return" ->
                            IF stack # << >> /\ Last(stack) = << e.site, g.func[e.to], g.func[e.from] >>
                            THEN Front(stack) ELSE << << "unmatched" >> >>
                      [] OTHER -> stack,
             << >>, w)

\* validateInterprocWitnessReplay accepts the witness of the result.
Replays(g, r) ==
    LET w == r.wit
        Edge(i) == g.edges[w[i].edge]
    IN  w # << >> =>
          /\ Edge(Len(w)).to = r.terminal
          /\ \A i \in DOMAIN w : TransferMatches(Apply(w[i].tag, w[i].before), w[i].after)
          /\ \A i \in 2..Len(w) : /\ Edge(i - 1).to = Edge(i).from
                                  /\ w[i - 1].after = w[i].before
          /\ << "unmatched" >> \notin Range(CallStack(g, w))

\* Mutant: a witness whose feasibility is unknown is discharged too.
AttemptUnlessSat(r, v) == r.class # "safe" /\ v # "sat"

ShouldAttempt(r, v) == r.class # "safe" /\ v = "unsat"

-----------------------------------------------------------------------------
Init ==
    /\ graph \in Graphs
    /\ order \in WorklistOrders
    /\ requested \in StateBudgets
    /\ maxStates = requested
    /\ expired = FALSE
    /\ pc = "solve"
    /\ tab = StartTab(graph)
    /\ result = NoResult
    /\ verdict = None
    /\ discharged = {}
    /\ iterations = 0
    /\ queries = 0

\* The control's deadline passes while the analysis is under way.
Expire ==
    /\ pc # "done"
    /\ ~expired
    /\ expired' = TRUE
    /\ UNCHANGED << graph, order, requested, maxStates, pc, tab, result, verdict,
                    discharged, iterations, queries >>

\* One item of the worklist.
Step ==
    /\ pc \in {"solve", "rerun"}
    /\ tab.queue # << >>
    /\ tab.budget = NoResult
    /\ ~expired
    /\ LET next == Take(tab)
       IN  tab' = Process(graph, [tab EXCEPT !.queue = next.queue], next.edge)
    /\ UNCHANGED << graph, order, requested, maxStates, expired, pc, result, verdict,
                    discharged, iterations, queries >>

LoopEnded == tab.queue = << >> \/ tab.budget # NoResult \/ expired

\* The first run returns, and Refine looks at its result: a safe one is final,
\* a witness that does not replay is blocking.
Solved ==
    /\ pc = "solve"
    /\ LoopEnded
    /\ LET r == TabResult(tab)
       IN  IF r.class = "safe"
           THEN /\ result' = r
                /\ pc' = "done"
           ELSE IF ~Replays(graph, r)
           THEN /\ result' = [r EXCEPT !.class = "inconclusive",
                                       !.reason = "feasibility-unknown"]
                /\ pc' = "done"
           ELSE /\ result' = r
                /\ pc' = "check"
    /\ UNCHANGED << graph, order, requested, maxStates, expired, tab, verdict, discharged, iterations, queries >>

\* One feasibility query on the witness held.
CheckFeasibility ==
    /\ pc = "check"
    /\ verdict' = Verdict(graph, result)
    /\ queries' = queries + 1
    /\ pc' = "attempt"
    /\ UNCHANGED << graph, order, requested, maxStates, expired, tab, result, discharged, iterations >>

\* What Refine returns when its loop ends with result r and verdict v.
Settled(r, v) ==
    IF ShouldAttempt(r, v) \/ v = "unknown"
    THEN [r EXCEPT !.class = "inconclusive", !.reason = "feasibility-unknown"]
    ELSE r

MayIterate ==
    /\ iterations < IterationBudget
    /\ queries < QueryBudget
    /\ ShouldAttempt(result, verdict)
    /\ ~expired
    /\ WitnessHash(result) \notin discharged

\* Discharge the contradictory witness and run the solver again, with the
\* default budget when the state budget was what stopped it.
Discharge ==
    /\ pc = "attempt"
    /\ MayIterate
    /\ discharged' = discharged \cup {WitnessHash(result)}
    /\ maxStates' = IF result.reason = "state-budget" THEN DefaultMaxStates ELSE requested
    /\ tab' = StartTab(graph)
    /\ iterations' = iterations + 1
    /\ pc' = "rerun"
    /\ UNCHANGED << graph, order, requested, expired, result, verdict, queries >>

\* The loop of Refine ends without another run.
Settle ==
    /\ pc = "attempt"
    /\ ~MayIterate
    /\ result' = Settled(result, IF expired /\ ShouldAttempt(result, verdict)
                                 THEN "unknown" ELSE verdict)
    /\ pc' = "done"
    /\ UNCHANGED << graph, order, requested, maxStates, expired, tab, verdict, discharged, iterations, queries >>

\* A rerun returns: a safe result found in time is final, one that came after
\* the deadline is not trusted, any other is checked in turn.
Rerun ==
    /\ pc = "rerun"
    /\ LoopEnded
    /\ LET r == TabResult(tab)
       IN  IF expired
           THEN /\ result' = Settled(r, "unknown")
                /\ pc' = "done"
           ELSE /\ result' = r
                /\ pc' = IF r.class = "safe" THEN "done" ELSE "check"
    /\ UNCHANGED << graph, order, requested, maxStates, expired, tab, verdict, discharged, iterations, queries >>

Finished == pc = "done" /\ UNCHANGED vars

Progress == \/ Step
            \/ Solved
            \/ CheckFeasibility
            \/ Discharge
            \/ Settle
            \/ Rerun

Next == Expire \/ Progress \/ Finished

\* The solver is one sequential loop: whatever it can do next it does. This is
\* weak fairness of Progress with its enabling condition, pc # "done", written
\* out.
Fairness == []<>(pc = "done") \/ []<><< Progress >>_vars

Spec == Init /\ [][Next]_vars /\ Fairness
=============================================================================
