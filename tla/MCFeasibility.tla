---------------------------- MODULE MCFeasibility ----------------------------
(***************************************************************************)
(* Instances of Feasibility for TLC: an integer x, booleans b and c and an *)
(* opaque outcome o, in conditions with every connective and comparison.   *)
(***************************************************************************)
EXTENDS Feasibility

Number(n, spelling) == [text |-> spelling, value |-> n, numeric |-> TRUE]
Zero == Number(0, "0")
One == Number(1, "1")

Cmp(op, constant) ==
    [kind |-> "compare", subject |-> "x", op |-> op, constant |-> constant,
     flipped |-> FALSE, phi |-> FALSE]
Flip(op, constant) == [Cmp(op, constant) EXCEPT !.flipped = TRUE]
Phi(op, constant) == [Cmp(op, constant) EXCEPT !.phi = TRUE]
Bool(s) == [kind |-> "boolean", subject |-> s]
Opaque(s) == [kind |-> "opaque", subject |-> s]
Receive(s) == [kind |-> "receive", subject |-> s]
Const(v) == [kind |-> "constant", value |-> v]
Not(c) == [kind |-> "not", of |-> c]
AndAlso(c, d) == [kind |-> "and", left |-> c, right |-> d]
OrElse(c, d) == [kind |-> "or", left |-> c, right |-> d]

If(c) == [tag |-> NoTag, condition |-> c]
Case(tag, constant) == [tag |-> tag, condition |-> [kind |-> "literal", constant |-> constant]]

MCBlocks ==
    {If(Cmp("eq", One)), If(Cmp("neq", Zero)), If(Cmp("lt", One)), If(Cmp("ge", Zero)),
     If(Flip("lt", Zero)), If(Flip("ge", One)), If(Phi("gt", Zero)), If(Phi("eq", Zero)),
     If(Not(Bool("b"))), If(AndAlso(Bool("b"), Cmp("gt", One))),
     If(OrElse(Not(Bool("b")), Cmp("eq", One))),
     If(AndAlso(Opaque("o"), Bool("b"))), If(OrElse(Opaque("o"), Bool("b"))),
     If(Receive("o")), If(OrElse(Const(FALSE), AndAlso(Cmp("le", Zero), Bool("c")))),
     If(Not(OrElse(Bool("c"), AndAlso(Cmp("neq", One), Const(TRUE))))),
     Case("x", One), Case("x", Zero)}
=============================================================================
