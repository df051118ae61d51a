--------------------------- MODULE MCTabulation ---------------------------
(***************************************************************************)
(* Families of small supergraphs for the solver. Each skeleton has the     *)
(* shape of a Go function, and is taken with every choice of what its      *)
(* nodes do and what its branches compare.                                 *)
(***************************************************************************)
EXTENDS PathSemantics, Supergraph

Go(from, to)            == Edge(from, to, "intra", NoSite)
Guarded(from, to, preds) == [Go(from, to) EXCEPT !.preds = preds]
Branch(from, to, pred)  == Guarded(from, to, {pred})
Call(from, to, site)    == Edge(from, to, "call", site)
Return(from, to, site)  == Edge(from, to, "return", site)

Atom(subject, op, value) == [subject |-> subject, op |-> op, value |-> value]
Negated(a) == [a EXCEPT !.op = 
    CASE @ = "eq" -> "neq" [] @ = "neq" -> "eq" [] @ = "lt" -> "ge" [] @ = "ge" -> "lt"
      [] @ = "le" -> "gt"  [] @ = "gt" -> "le"  [] OTHER -> @]
Opaque == Atom(None, "unsupported", 0)

\* A graph for the solver, in which nodes not labelled are plain and define
\* nothing.
SolverGraph(check, start, edges, flow, ends, func, labels, terminals, prefix) ==
    [check |-> check, start |-> start, edges |-> edges, flow |-> flow, ends |-> ends, func |-> func,
     label |-> [n \in DOMAIN func |-> IF n \in DOMAIN labels THEN labels[n] ELSE "plain"],
     terminals |-> terminals,
     sinks |-> {n \in DOMAIN labels :
                  IF check = "cast" THEN n \in terminals /\ labels[n] = "validate"
                  ELSE labels[n] \in {"use", "escape", "store"}},
     prefix |-> prefix, subjects |-> {"x", "y"},
     defines |-> [n \in DOMAIN func |-> {}]]

\* One given by its edges, with the nodes of callee in a second procedure.
Graph(check, nodes, edges, labels, callee, terminals, prefix) ==
    SolverGraph(check, 1, edges, Range(edges), terminals,
                [n \in nodes |-> IF n \in callee THEN 2 ELSE 1], labels, terminals, prefix)

\* One built from a program, for an obligation of its first statement.
Built(check, program) ==
    LET prog   == IF check = "ubv" THEN FromReachableBlocks(program, 1) ELSE program
        labels == NodeLabels(prog)
    IN  SolverGraph(check, Key(1, CfgNode, 1, 1, 0), Sorted(GraphEdges(prog)), ProgramFlow(prog),
                    ProgramEnds(prog), [n \in DOMAIN labels |-> ProcedureOf(n)], labels, TerminalNodes(prog), {})

\* The values of a subject: on both sides of every constant compared with.
SmallValues == -1..2

X(v) == Atom("x", "eq", v)
Y(v) == Atom("y", "eq", v)

\* if a { 2 } else { 3 }; 4; if b { 5 } else { 6 }; 7
Diamonds ==
    {Graph("cast", 1..7,
           << Branch(1, 2, X(0)), Branch(1, 3, Negated(X(0))), Go(2, 4), Go(3, 4),
              Branch(4, 5, b), Branch(4, 6, Negated(b)), Go(5, 7), Go(6, 7) >>,
           labels, {}, {7}, prefix) :
        b \in {X(0), X(1), Y(0), Atom("x", "lt", 1), Opaque},
        labels \in [{2, 3, 5} -> {"plain", "validate"}],
        prefix \in {{}, {Negated(X(0))}, {Atom("x", "gt", 0)}, {Y(0)}}}

\* switch x { case 0: 2; case 1: 3; case 2: 4; default: 5: validate }; 6
Switches ==
    {Graph("cast", 1..6,
           << Branch(1, 2, X(0)), Branch(1, 3, X(1)), Branch(1, 4, X(2)),
              Guarded(1, 5, {Negated(X(k)) : k \in 0..2}),
              Go(2, 6), Go(3, 6), Go(4, 6), Go(5, 6) >>,
           [n \in {5} |-> "validate"] @@ labels, {}, {6}, {X(v)}) :
        labels \in [{2, 3} -> {"plain", "validate"}],
        v \in SmallValues}

\* 1; err := validate; if err == nil { 3 } else { 4 }; 5, as transfers of edges.
CheckedErrors ==
    {Graph(check, 1..5,
           << Go(1, 2),
              [Branch(2, 3, X(0)) EXCEPT !.tag = "validate"],
              [Branch(2, 4, Negated(X(0))) EXCEPT !.tag = "validation-failed",
                                                  !.discharges = ends],
              [Go(3, 5) EXCEPT !.kind = "call-to-return", !.site = 1, !.reason = reason],
              Go(4, 5) >>,
           labels, {}, {5}, {}) :
        check \in {"cast", "ubv", "boundary"},
        ends \in BOOLEAN,
        reason \in {None, "unresolved-target"},
        labels \in [{3, 4, 5} -> {"plain", "use", "escape", "reassign"}]}

\* 1; for c { 3 }; 4, with a condition outside the constraint fragment.
Loops ==
    {Graph(check, 1..4,
           << Go(1, 2), Branch(2, 3, Opaque), Go(3, 2), Branch(2, 4, Opaque) >>,
           labels, {}, {4}, {}) :
        check \in {"cast", "ubv"},
        labels \in [{2, 3, 4} -> {"plain", "escape", "validate", "reassign"}]}

\* 1; g(); 3; g(); if b { 6 } else { 7 }, where g is 10; { 11 | 12 }; 13.
TwoCalls ==
    {Graph("cast", (1..7) \cup (10..13),
           << Go(1, 2), Call(2, 10, 1), Return(13, 3, 1),
              Go(3, 4), Call(4, 10, 2), Return(13, 5, 2),
              Branch(5, 6, X(0)), Branch(5, 7, Negated(X(0))),
              Branch(10, 11, Opaque), Branch(10, 12, Opaque), Go(11, 13), Go(12, 13) >>,
           labels, 10..13, {6, 7}, prefix) :
        labels \in [{3, 5, 7, 11, 12} -> {"plain", "validate", "reassign"}],
        prefix \in {{}, {X(0)}}}

\* 1; g(); 3, where g is 10; { 11: g(); 12 | } 13, and the effects vary.
Recursions ==
    {Graph(check, (1..3) \cup (10..13),
           << Go(1, 2), Call(2, 10, 1), Return(13, 3, 1),
              Branch(10, 11, Opaque), Branch(10, 13, Opaque),
              Call(11, 10, 2), Return(13, 12, 2), Go(12, 13) >>,
           labels, 10..13, {3}, {}) :
        check \in {"cast", "boundary"},
        labels \in [{3, 12, 13} ->
                        {"plain", "validate", "reassign", "use", "store", "go",
                         "ambiguous", "opaque"}]}

-----------------------------------------------------------------------------
(* Programs: procedure 1 is under analysis, 2 and 3 may be called.         *)

Node(label, calls) == [label |-> label, implicit |-> FALSE, calls |-> calls]
Stmt(label) == Node(label, << >>)
End == [Stmt("plain") EXCEPT !.implicit = TRUE]

Succ(to, preds) == [to |-> to, preds |-> preds, tag |-> "identity", discharges |-> FALSE]
To(to) == << Succ(to, {}) >>
Either(then, else, pred) == << Succ(then, {pred}), Succ(else, {Negated(pred)}) >>

Block(nodes, succs) == [nodes |-> nodes, succs |-> succs]

\* The call at position pos of procedure p, whose SSA instruction has the index
\* and lies in the block given.
CallAt(p, pos, block, index, kind, callee) ==
    [pos |-> pos, phase |-> "sync", kind |-> kind, callee |-> callee,
     touches |-> TRUE, label |-> "plain",
     sites |-> {[caller |-> p, procedure |-> p, block |-> block, index |-> index]}]

Only(c) == << c >>
Calling(callee) == CallAt(1, 1, 0, 0, "plain", callee)

Procedure(p, blocks) ==
    [blocks |-> blocks, function |-> p, literal |-> FALSE, free |-> 0, bindings |-> {}]
Literal(p, blocks, bindings) ==
    [Procedure(p, blocks) EXCEPT !.literal = TRUE, !.free = 1, !.bindings = bindings]

\* v := T(raw); the calls; after
Caller(calls, after) ==
    Procedure(1, << Block(<< Stmt("plain"), Node("plain", calls), Stmt(after), End >>, << >>) >>)

Straight(p, label) == Procedure(p, << Block(<< Stmt(label), End >>, << >>) >>)

\* Every way a single call is resolved, its callee a function or a literal.
SingleCall(check, c, after, captures) ==
    Built(check, << Caller(Only(c), after),
                    IF captures = {} THEN Straight(2, "validate")
                    ELSE Literal(2, << Block(<< Stmt("validate"), End >>, << >>) >>, captures) >>)

SingleCalls ==
    {SingleCall(check, [Calling(2) EXCEPT !.kind = kind], "use", q) :
        check \in {"cast", "ubv"}, q \in {{}, {<< "v" >>}, {<< "v" >>, << "w" >>}},
        kind \in {"conversion", "panic", "builtin", "exit", "validate", "plain"}}
    \cup {SingleCall(check, [Calling(0) EXCEPT !.kind = kind, !.touches = touches], "use", {}) :
            check \in {"cast", "ubv"}, touches \in BOOLEAN,
            kind \in {"plain", "summarized", "reflect", "unsafe"}}
    \cup {SingleCall(check, [Calling(2) EXCEPT !.phase = phase, !.label = label], "plain", {}) :
            check \in {"cast", "ubv"}, phase \in {"defer", "go"}, label \in {"plain", "escape", "go"}}

\* f(g()), g validates and f lets the value escape, or the reverse: what SSA
\* says of the order and of the blocks of the two calls varies.
NestedCalls ==
    {Built("cast", << Caller(<< CallAt(1, 1, 0, i, "plain", 2), CallAt(1, 2, b, 1 - i, "plain", 3) >>, "plain"),
                      Straight(2, l), Straight(3, m) >>) :
        i \in 0..1, b \in 0..1, l \in {"validate", "escape"}, m \in {"validate", "reassign"}}

\* The callee branches: if x == 0 { a; return }; b, where b may end in a panic
\* and a may call the third procedure, which panics or returns.
BranchingCallee(a, bNode, dies) ==
    << Caller(Only(Calling(2)), "plain"),
       Procedure(2, << Block(<< Stmt("plain") >>, Either(2, 3, X(0))),
                       Block(<< Node(a, IF dies THEN Only(CallAt(2, 1, 0, 0, "plain", 3)) ELSE << >>),
                                Stmt("plain") >>, << >>),
                       Block(<< bNode, End >>, << >>) >>),
       Procedure(3, << Block(<< Node("plain", Only(CallAt(3, 1, 0, 0, "panic", 0))) >>, << >>) >>) >>

BranchingCallees ==
    {Built("cast", BranchingCallee(a, b, dies)) :
        a \in {"plain", "validate"}, dies \in BOOLEAN,
        b \in {Stmt("plain"), Stmt("validate"), Node("plain", Only(CallAt(2, 2, 1, 0, "exit", 0)))}}

\* Mutual recursion: 2 calls 3 on one branch, 3 calls 2 or 1.
RecursiveCallees ==
    {Built(check, << Caller(Only(Calling(2)), "use"),
                     Procedure(2, << Block(<< Stmt(a) >>, Either(2, 3, Opaque)),
                                     Block(<< Node("plain", Only(CallAt(2, 1, 0, 0, "plain", 3))) >>, To(3)),
                                     Block(<< Stmt(b), End >>, << >>) >>),
                     Procedure(3, << Block(<< Node("plain", Only(CallAt(3, 1, 0, 0, "plain", q))), End >>, << >>) >>) >>) :
        check \in {"cast", "ubv"}, q \in {2, 3},
        a \in {"plain", "validate"}, b \in {"plain", "escape"}}

\* if x == 0 { if x == c { 4 } }; 6, with blocks that are empty, in the
\* procedure under analysis.
EmptyBlocks ==
    {Built("cast", << Procedure(1, << Block(<< Stmt("plain"), Stmt("plain") >>, Either(2, 5, X(0))),
                                      Block(<< Stmt("plain") >>, Either(3, 4, X(c))),
                                      Block(<< Stmt(l) >>, To(4)),
                                      Block(<< >>, To(5)),
                                      Block(<< Stmt(m), End >>, << >>) >>) >>) :
        c \in 0..1, l \in {"plain", "validate"}, m \in {"plain", "validate"}}

Programs == SingleCalls \cup NestedCalls \cup BranchingCallees \cup RecursiveCallees \cup EmptyBlocks

Labelled(g) == {n \in DOMAIN g.label : g.label[n] # "plain"}

\* An edge that ends the procedure is one of a cast, and its statement does not
\* mention the value.
SoundGraphs ==
    Diamonds \cup Switches \cup Loops
    \cup {g \in CheckedErrors : g.edges[3].discharges => g.check = "cast" /\ 4 \notin Labelled(g)}
    \cup {g \in TwoCalls : Cardinality(Labelled(g)) <= 2}
    \cup {g \in Recursions : Cardinality(Labelled(g)) <= 2}
    \cup Programs

-----------------------------------------------------------------------------
(* Graphs for which a feasible violation is lost (SafeIsFeasiblySafe); the *)
(* last one has a path that the program has not.                           *)

\* 1; if x == 0 { 2 } else { 3 }; 4: g(); if x != 0 { 6 } else { 7: validate }.
BranchBeforeCall ==
    {Graph("cast", (1..7) \cup {10, 11},
           << Branch(1, 2, X(0)), Branch(1, 3, Negated(X(0))), Go(2, 4), Go(3, 4),
              Call(4, 10, 1), Return(11, 5, 1), Go(10, 11),
              Branch(5, 6, Negated(X(0))), Branch(5, 7, X(0)) >>,
           [n \in {7} |-> "validate"], {10, 11}, {6, 7}, {})}

\* 1; for { 2: x := next(); if x == 0 { 3: reassign } else { break } }; 4, the
\* value validated before the loop.
ValuePerIteration ==
    {[Graph("cast", 1..5,
            << Go(1, 5), Go(5, 2), Branch(2, 3, X(0)), Go(3, 2), Branch(2, 4, Negated(X(0))) >>,
            [n \in {3, 5} |-> IF n = 3 THEN "reassign" ELSE "validate"], {}, {4}, {})
        EXCEPT !.defines = [n \in 1..5 |-> IF n = 2 THEN {"x"} ELSE {}]]}

\* v := T(raw); func() { for x == 0 { validate(v) } }(): the callee has an empty
\* first block, its body, what follows the loop and its condition.
LoopFirst ==
    {Built("cast", << Caller(Only(Calling(2)), "plain"),
                      Literal(2, << Block(<< >>, To(4)), Block(<< Stmt("validate") >>, To(4)),
                                    Block(<< End >>, << >>),
                                    Block(<< Stmt("plain") >>, Either(2, 3, X(0))) >>, {<< "v" >>}) >>)}

\* v := T(raw); func() { if x == 0 { if y == 0 { log() } }; validate(v) }().
NestedIf ==
    {Built("cast", << Caller(Only(Calling(2)), "plain"),
                      Literal(2, << Block(<< Stmt("plain") >>, Either(2, 5, X(0))),
                                    Block(<< Stmt("plain") >>, Either(3, 4, Y(0))),
                                    Block(<< Stmt("plain") >>, To(4)), Block(<< >>, To(5)),
                                    Block(<< Stmt("validate"), End >>, << >>) >>, {<< "v" >>}) >>)}
=============================================================================
