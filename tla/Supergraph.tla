----------------------------- MODULE Supergraph -----------------------------
(***************************************************************************)
(* The interprocedural supergraph the solver runs on                       *)
(* (cfa_interproc_graph.go, cfa_interproc_cfg_graph.go), built from the    *)
(* control-flow graphs of procedures and the call events that associate    *)
(* the calls of a statement with SSA instructions (cfa_call_events.go).    *)
(*                                                                         *)
(* A program is a function from procedures, numbered from 1, to            *)
(*   [blocks, function, literal, free, bindings]                           *)
(* function is the SSA function of the procedure, or 0; free is the number *)
(* of variables a literal captures, bindings what the closures made of it  *)
(* bind them to.  blocks is the control-flow graph, a sequence of          *)
(* [nodes, succs] whose first block is where control starts:               *)
(*   a node is      [label, implicit, calls]                               *)
(*   a successor is [to, preds, tag, discharges]                           *)
(*   a call is      [pos, sites, phase, kind, callee, touches, label]      *)
(* label is what the statement or the call does to the tracked value, and  *)
(* touches whether the call concerns it at all; implicit marks the return  *)
(* at the closing brace, which the graph has only where control gets there.*)
(* sites are the SSA call instructions at the position of the call:        *)
(*   [caller, procedure, block, index]                                     *)
(* kind is "conversion", "panic", "builtin" (any other), "exit" (a call    *)
(* known not to return), "validate", "plain", "summarized" (an imported    *)
(* function with a valid fact), "reflect" or "unsafe"; callee is the       *)
(* procedure of the package it resolves to, or 0.  A call that does not    *)
(* return is a statement of its own.                                       *)
(*                                                                         *)
(* The code builds depth first with a cache. A procedure that is asked for *)
(* while it is being built already has its entry and exits, so the order   *)
(* is immaterial and the graph is the union over the procedures reached.   *)
(***************************************************************************)
EXTENDS ProtocolDomain, FiniteSets, FiniteSetsExt, SequencesExt

\* The kinds of nodes, in the order their keys sort.
CallSite   == 0
CfgNode    == 1
ReturnSite == 2

NoSite == 0

\* interprocNodeID.Key, with an order that is that of the keys.
Key(p, kind, b, n, o) == (((p * 3 + kind) * 10 + b) * 10 + n) * 10 + o

\* What is reached from a set by a function from elements to sets of elements.
Reachable(from, step) ==
    LET reach[k \in 0..Cardinality(DOMAIN step)] ==
            IF k = 0 THEN from ELSE reach[k - 1] \cup UNION {step[x] : x \in reach[k - 1]}
    IN  reach[Cardinality(DOMAIN step)]

-----------------------------------------------------------------------------
(* Call events. *)

\* The SSA function the calls of a node belong to: that of the procedure, or
\* the only one that has instructions for them.
CandidateCallers(prog, p, calls) ==
    LET sites == UNION {c.sites : c \in calls}
        named == {s.caller : s \in {t \in sites : t.procedure = p}}
    IN  IF prog[p].function # 0 THEN {prog[p].function}
        ELSE IF named # {} THEN named ELSE {s.caller : s \in sites}

Ordered(calls, index, mapped) ==
    LET sorted == SortSeq(calls, LAMBDA c, d : index[c] < index[d])
    IN  [i \in DOMAIN sorted |-> [call |-> sorted[i], mapped |-> mapped]]

\* In the order of their positions, which says nothing about execution.
UnmappedEvents(calls) == Ordered(calls, [c \in Range(calls) |-> c.pos], FALSE)

\* eventsForProcedureNode: the calls of a node in the order of their SSA
\* instructions, or all of them unmapped when one has not exactly one
\* instruction in the caller or they lie in several SSA blocks.
EventsForNode(prog, p, node) ==
    LET calls    == SelectSeq(node.calls, LAMBDA c : c.kind # "conversion")
        callers  == CandidateCallers(prog, p, Range(calls))
        Sites(c) == {s \in c.sites : s.caller \in callers}
        exact    == /\ Cardinality(callers) = 1
                    /\ \A c \in Range(calls) : Cardinality(Sites(c)) = 1
                    /\ Cardinality({s.block : s \in UNION {Sites(c) : c \in Range(calls)}}) = 1
        index    == [c \in Range(calls) |-> (CHOOSE s \in Sites(c) : TRUE).index]
    IN  IF exact THEN Ordered(calls, index, TRUE) ELSE UnmappedEvents(calls)

\* callMayReturn is false.
NeverReturns(c) == c.kind \in {"panic", "exit"}

-----------------------------------------------------------------------------
(* Which declared functions may return. *)

Declared(prog) == {p \in DOMAIN prog : ~prog[p].literal}

CallReturns(prog, returning, c) ==
    /\ ~NeverReturns(c)
    /\ c.callee \in Declared(prog) => c.callee \in returning

NodeReturns(prog, returning, node) ==
    \A c \in Range(node.calls) : CallReturns(prog, returning, c)

\* External: the blocks that control reaches when the calls outside returning
\* end their block.
LiveBlocks(prog, returning, p) ==
    LET blocks == prog[p].blocks
    IN  Reachable({1}, [b \in DOMAIN blocks |->
            IF \A n \in Range(blocks[b].nodes) : NodeReturns(prog, returning, n)
            THEN {s.to : s \in Range(blocks[b].succs)} ELSE {}])

\* protocolFunctionHasReturningPath.
HasReturningPath(prog, returning, p) ==
    \E b \in DOMAIN prog[p].blocks :
        LET nodes == prog[p].blocks[b].nodes
        IN  /\ nodes # << >>
            /\ prog[p].blocks[b].succs = << >>
            /\ NodeReturns(prog, returning, Last(nodes))
            /\ Last(nodes).implicit =>
                  /\ b \in LiveBlocks(prog, returning, p)
                  /\ \A n \in Range(nodes) : NodeReturns(prog, returning, n)

\* computeProtocolMayReturn: the least fixpoint.
MayReturn(prog) ==
    LET pass[k \in 0..Cardinality(DOMAIN prog)] ==
            IF k = 0 THEN {}
            ELSE {p \in Declared(prog) : HasReturningPath(prog, pass[k - 1], p)}
    IN  pass[Cardinality(DOMAIN prog)]

-----------------------------------------------------------------------------
(* Procedures. *)

NonEmpty(blocks) == {b \in DOMAIN blocks : blocks[b].nodes # << >>}

\* The blocks reached from b through empty ones, b itself included.
SkipEmpty(blocks, b) ==
    Reachable({b}, [c \in DOMAIN blocks |->
        IF c \in NonEmpty(blocks) THEN {} ELSE {s.to : s \in Range(blocks[c].succs)}])

NonEmptySuccessorEntries(blocks, b) == SkipEmpty(blocks, b) \cap NonEmpty(blocks)

Events(prog, p, b, n) == EventsForNode(prog, p, prog[p].blocks[b].nodes[n])

\* The places of a block: node n is << n, 0 >>, its o-th event << n, o >>.
Places(prog, p, b) ==
    UNION {{<< n, o >> : o \in 0..Len(Events(prog, p, b, n))} :
             n \in DOMAIN prog[p].blocks[b].nodes}

Earlier(x, y) == x[1] < y[1] \/ (x[1] = y[1] /\ x[2] < y[2])

LastPlace(prog, p, b) ==
    LET n == Len(prog[p].blocks[b].nodes) IN << n, Len(Events(prog, p, b, n)) >>

Previous(prog, p, b, x) ==
    IF x[2] > 0 THEN << x[1], x[2] - 1 >>
    ELSE << x[1] - 1, Len(Events(prog, p, b, x[1] - 1)) >>

\* The nodes by which control enters and leaves a place.
Into(p, b, x) == Key(p, IF x[2] = 0 THEN CfgNode ELSE CallSite, b, x[1], x[2])
OutOf(p, b, x) == Key(p, IF x[2] = 0 THEN CfgNode ELSE ReturnSite, b, x[1], x[2])

\* The node a procedure is entered at: the first block that is not empty.
EntryBlock(blocks) == Min(NonEmpty(blocks))

\* interprocFunctionCFGExits: the ends of blocks none of whose successors has a
\* node, unless the last statement does not return.
FunctionExits(prog, p) ==
    LET blocks == prog[p].blocks
        final  == {b \in NonEmpty(blocks) : \A s \in Range(blocks[b].succs) : s.to \notin NonEmpty(blocks)}
        Stops(b) == \E e \in Range(Events(prog, p, b, Len(blocks[b].nodes))) :
                        e.call.phase = "sync" /\ NeverReturns(e.call)
    IN  {OutOf(p, b, LastPlace(prog, p, b)) : b \in {c \in final : ~Stops(c)}}

Exits(prog, p) ==
    IF p \in Declared(prog) \ MayReturn(prog) THEN {} ELSE FunctionExits(prog, p)

UnresolvedReason(c) ==
    CASE c.kind = "summarized" -> None
      [] c.kind = "reflect"    -> "reflection"
      [] c.kind = "unsafe"     -> "unsafe"
      [] OTHER                 -> "unresolved-target"

\* protocolProcedureCaptureCandidates.
CaptureCandidates(proc) == {c \in proc.bindings : Len(c) = proc.free}

\* The captures of a literal are known: all its closures agree on them.
CaptureExact(proc) == proc.free = 0 \/ Cardinality(CaptureCandidates(proc)) = 1

\* appendInterprocCallEvent, without the edges: the call is passed over for a
\* reason, stops the path, or is followed into its callee.
Resolution(prog, e) ==
    LET Pass(reason) == [how |-> "pass", reason |-> reason]
        Stop == [how |-> "stop", reason |-> None]
        c == e.call
    IN  CASE c.phase # "sync"                        -> Pass(None)
          [] c.kind \in {"panic", "builtin"}         -> IF NeverReturns(c) THEN Stop ELSE Pass(None)
          [] ~e.mapped                               -> Pass("call-mapping")
          [] NeverReturns(c)                         -> Stop
          [] c.kind = "validate"                     -> Pass(None)
          [] c.callee = 0                            -> Pass(UnresolvedReason(c))
          [] prog[c.callee].literal /\ ~CaptureExact(prog[c.callee])
                                                     -> Pass("ambiguous-identity")
          [] NonEmpty(prog[c.callee].blocks) = {}    -> Pass(UnresolvedReason(c))
          [] OTHER                                   -> [how |-> "follow", reason |-> None]

-----------------------------------------------------------------------------
(* Edges. *)

Edge(from, to, kind, site) ==
    [from |-> from, to |-> to, kind |-> kind, site |-> site, reason |-> None,
     preds |-> {}, tag |-> "identity", discharges |-> FALSE]

\* The edges of one event of a block.
CallEdges(prog, p, b, x) ==
    LET e    == Events(prog, p, b, x[1])[x[2]]
        r    == Resolution(prog, e)
        q    == e.call.callee
        site == Into(p, b, x)
        back == OutOf(p, b, x)
    IN  CASE r.how = "pass" ->
                {[Edge(site, back, "call-to-return", site) EXCEPT
                    !.reason = IF e.call.touches THEN r.reason ELSE None]}
          [] r.how = "stop" -> {}
          [] OTHER ->
                {Edge(site, Key(q, CfgNode, EntryBlock(prog[q].blocks), 1, 0), "call", site)}
                \cup {Edge(exit, back, "return", site) : exit \in Exits(prog, q)}

\* The event stops the path: it does not return, or its callee has no exit.
\* Nothing that follows it in the block is built.
Continues(prog, p, b, x) ==
    x[2] > 0 => LET e == Events(prog, p, b, x[1])[x[2]]
                    r == Resolution(prog, e)
                IN  r.how = "pass" \/ (r.how = "follow" /\ Exits(prog, e.call.callee) # {})

BuiltPlaces(prog, p, b) ==
    {x \in Places(prog, p, b) :
        \A y \in Places(prog, p, b) : Earlier(y, x) => Continues(prog, p, b, y)}

SuccessorEdges(prog, p, b) ==
    UNION {{[Edge(OutOf(p, b, LastPlace(prog, p, b)), Key(p, CfgNode, t, 1, 0), "intra", NoSite)
                EXCEPT !.preds = s.preds, !.tag = s.tag, !.discharges = s.discharges] :
              t \in NonEmptySuccessorEntries(prog[p].blocks, s.to)} :
           s \in Range(prog[p].blocks[b].succs)}

Completes(prog, p, b) ==
    \A x \in Places(prog, p, b) : Continues(prog, p, b, x)

BlockEdges(prog, p, b) ==
    LET built == BuiltPlaces(prog, p, b)
    IN  {Edge(OutOf(p, b, Previous(prog, p, b, x)), Into(p, b, x), "intra", NoSite) :
            x \in built \ {<< 1, 0 >>}}
        \cup UNION {CallEdges(prog, p, b, x) : x \in {y \in built : y[2] > 0}}
        \cup (IF Completes(prog, p, b) THEN SuccessorEdges(prog, p, b) ELSE {})

\* The procedures the built events of p are followed into.
Callees(prog, p) ==
    UNION {{Events(prog, p, b, x[1])[x[2]].call.callee :
              x \in {y \in BuiltPlaces(prog, p, b) :
                        y[2] > 0 /\ Resolution(prog, Events(prog, p, b, y[1])[y[2]]).how = "follow"}} :
           b \in NonEmpty(prog[p].blocks)}

CollectReachableBlocks(blocks, b) ==
    Reachable({b}, [c \in DOMAIN blocks |-> {s.to : s \in Range(blocks[c].succs)}])

\* The procedure under analysis as the use-before-validation solver builds it:
\* from the blocks reachable from the definition, under a key of its own that
\* names no SSA function. Procedure 1 is then not the callee of any call.
FromReachableBlocks(prog, b) ==
    LET blocks == prog[1].blocks
        kept   == CollectReachableBlocks(blocks, b)
    IN  [prog EXCEPT ![1].function = 0,
                     ![1].blocks = [c \in DOMAIN blocks |->
                        IF c \in kept THEN blocks[c] ELSE [nodes |-> << >>, succs |-> << >>]]]

\* The procedures appended when the graph of procedure 1 is built.
Appended(prog) == Reachable({1}, [p \in DOMAIN prog |-> Callees(prog, p)])

BlocksOf(prog, procs) ==
    UNION {{p} \X NonEmpty(prog[p].blocks) : p \in procs}

GraphEdges(prog) ==
    UNION {BlockEdges(prog, pb[1], pb[2]) : pb \in BlocksOf(prog, Appended(prog))}

\* The ends of the blocks that control leaves with nowhere to go.
TerminalNodes(prog) ==
    {OutOf(pb[1], pb[2], LastPlace(prog, pb[1], pb[2])) :
       pb \in {x \in BlocksOf(prog, Appended(prog)) :
                 /\ Completes(prog, x[1], x[2])
                 /\ SuccessorEdges(prog, x[1], x[2]) = {}}}

\* The order in which outgoing sorts edges that leave one node.
EdgeOrder(e) ==
    << CASE e.kind = "call" -> 0 [] e.kind = "call-to-return" -> 1
         [] e.kind = "intra" -> 2 [] OTHER -> 3, e.site, e.to, e.from >>

LexLess(s, t) ==
    \E i \in DOMAIN s : s[i] < t[i] /\ \A j \in 1..(i - 1) : s[j] = t[j]

\* Edges that differ in their predicates only are in an arbitrary order, as
\* the text of predicates is not modelled.
Sorted(edges) ==
    SortSeq(FoldSet(LAMBDA e, seq : Append(seq, e), << >>, edges),
            LAMBDA e, f : LexLess(EdgeOrder(e), EdgeOrder(f)))

\* What the nodes of a program do to the tracked value.
NodeLabels(prog) ==
    LET places == UNION {{<< pb[1], pb[2], x >> : x \in Places(prog, pb[1], pb[2])} :
                           pb \in BlocksOf(prog, DOMAIN prog)}
        At(t)  == IF t[3][2] = 0 THEN prog[t[1]].blocks[t[2]].nodes[t[3][1]].label
                  ELSE Events(prog, t[1], t[2], t[3][1])[t[3][2]].call.label
        calls  == {t \in places : t[3][2] > 0}
    IN  [k \in {Into(t[1], t[2], t[3]) : t \in places} |->
            At(CHOOSE t \in places : Into(t[1], t[2], t[3]) = k)]
        @@ [k \in {OutOf(t[1], t[2], t[3]) : t \in calls} |-> "plain"]

ProcedureOf(key) == key \div 3000

-----------------------------------------------------------------------------
(***************************************************************************)
(* The control flow of the program itself, as the reference for the graph: *)
(* control enters a procedure at its first block and passes through empty  *)
(* blocks, it leaves at the blocks from which it can run out of blocks,    *)
(* and a call that is followed returns exactly when its callee leaves.     *)
(***************************************************************************)
Leaves(blocks, b) ==
    \/ blocks[b].succs = << >>
    \/ \E s \in Range(blocks[b].succs) : \E c \in SkipEmpty(blocks, s.to) :
          c \notin NonEmpty(blocks) /\ blocks[c].succs = << >>

FlowOfEvent(prog, p, b, x) ==
    LET e      == Events(prog, p, b, x[1])[x[2]]
        q      == e.call.callee
        blocks == prog[q].blocks
    IN  IF Resolution(prog, e).how # "follow" THEN CallEdges(prog, p, b, x)
        ELSE {Edge(Into(p, b, x), Key(q, CfgNode, c, 1, 0), "call", Into(p, b, x)) :
                c \in NonEmptySuccessorEntries(blocks, 1)}
             \cup {Edge(OutOf(q, c, LastPlace(prog, q, c)), OutOf(p, b, x), "return", Into(p, b, x)) :
                     c \in {d \in NonEmpty(blocks) : Leaves(blocks, d)}}

ProgramEnds(prog) ==
    {OutOf(pb[1], pb[2], LastPlace(prog, pb[1], pb[2])) :
       pb \in {x \in BlocksOf(prog, DOMAIN prog) : Leaves(prog[x[1]].blocks, x[2])}}

ProgramFlow(prog) ==
    UNION {LET places == Places(prog, pb[1], pb[2])
           IN  {Edge(OutOf(pb[1], pb[2], Previous(prog, pb[1], pb[2], x)),
                     Into(pb[1], pb[2], x), "intra", NoSite) : x \in places \ {<< 1, 0 >>}}
               \cup UNION {FlowOfEvent(prog, pb[1], pb[2], x) : x \in {y \in places : y[2] > 0}}
               \cup SuccessorEdges(prog, pb[1], pb[2]) :
           pb \in BlocksOf(prog, DOMAIN prog)}
=============================================================================
