----------------------------- MODULE MCAliases -----------------------------
(***************************************************************************)
(* Instances of Aliases for TLC. Every function takes a cell p and a       *)
(* pointer to a cell h, allocates a struct a, addresses its field f and    *)
(* converts c; what the two branches of a diamond, or the body of a loop,  *)
(* do to them varies, and the last block looks at the result.              *)
(***************************************************************************)
EXTENDS Aliases

Alloc(d) == [op |-> "alloc", dst |-> d]
Make(d) == [op |-> "make", dst |-> d]
Cast(d, x) == [op |-> "cast", dst |-> d, of |-> x]
Copy(d, x) == [op |-> "copy", dst |-> d, of |-> x]
Field(d, x, f) == [op |-> "field", dst |-> d, of |-> x, field |-> f]
Index(d, x) == [op |-> "index", dst |-> d, of |-> x]
Phi(d, edges) == [op |-> "phi", dst |-> d, edges |-> edges]
Load(d, x) == [op |-> "load", dst |-> d, of |-> x]
StoreTo(x, v) == [op |-> "store", of |-> x, val |-> v, global |-> FALSE]
StoreGlobal(x, v) == [op |-> "store", of |-> x, val |-> v, global |-> TRUE]
Leak(v) == [op |-> "escape", val |-> v]
Closure(d, free, x, escapes) ==
    [op |-> "closure", dst |-> d, free |-> free, of |-> x, escapes |-> escapes]
Use(x) == [op |-> "use", of |-> x]
UseFree(x) == [op |-> "useFree", of |-> x]

Block(instrs, succs) == [instrs |-> instrs, succs |-> succs]

Function(pinned, blocks) ==
    [params |-> {"p", "h", "raw"}, pointers |-> {"p", "h", "a", "f", "q", "x", "y", "n", "g"},
     cast |-> "c", pinned |-> pinned, blocks |-> blocks]

Entry == << Alloc("a"), Field("f", "a", "f"), Cast("c", "raw"), Make("d") >>

Fragments ==
    {<< Make("s") >>, << StoreTo("f", "c") >>, << StoreTo("f", "d") >>,
     << StoreTo("f", "c"), StoreTo("f", "d") >>, << StoreTo("p", "c") >>,
     << StoreTo("f", "c"), Leak("f") >>,
     << Load("q", "h"), StoreTo("q", "d") >>,
     << StoreTo("f", "c"), Index("x", "a"), StoreTo("x", "d") >>,
     << StoreTo("h", "f"), Load("q", "h"), StoreTo("q", "c") >>}

Others == {<< Make("t") >>, << StoreTo("f", "c") >>, << StoreTo("f", "d") >>,
           << StoreTo("p", "c") >>, << Load("y", "h"), StoreTo("y", "c") >>}

Looks ==
    {<< Phi("m", 2 :> "c" @@ 3 :> "d"), Use("m"), Load("v", "f"), Use("v") >>,
     << Phi("m", 2 :> "c" @@ 3 :> "c"), Use("m"), Field("g", "a", "f"), Load("v", "g"),
        Copy("w", "v"), Use("w") >>,
     << Load("v", "p"), Use("v"), Use("p"), Use("f") >>,
     << StoreGlobal("p", "a"), Field("g", "a", "f"), Load("v", "g"), Use("v") >>}

Diamonds ==
    {Function(pinned, << Block(Entry, << 2, 3 >>), Block(l, << 4 >>), Block(r, << 4 >>),
                         Block(e, << >>) >>) :
        pinned \in BOOLEAN, l \in Fragments, r \in Others, e \in Looks}

\* A struct leaks in one branch; its field is addressed again afterwards.
Leaks ==
    {Function(FALSE,
        << Block(Entry \o << StoreTo("f", "c") >>, << 2, 3 >>),
           Block(leak, << 4 >>), Block(<< Make("t") >>, << 4 >>),
           Block(<< Field("g", "a", "f") >> \o again \o << Load("v", "g"), Use("v") >>, << >>) >>) :
        leak \in {<< Leak("a") >>, << StoreGlobal("p", "a") >>, << Copy("x", "a"), Leak("x") >>},
        again \in {<< >>, << StoreTo("g", "c") >>}}

\* A loop: the header carries a value around, the body allocates and stores.
Bodies ==
    {<< Alloc("n"), StoreTo("p", "n"), Make("z") >>, << Load("z", "f"), StoreTo("f", "c") >>,
     << Load("z", "f"), StoreTo("f", "m") >>, << Load("q", "h"), StoreTo("q", "c"), Make("z") >>,
     << Load("z", "p"), Use("z"), StoreTo("p", "c") >>,
     << Cast("z", "m"), StoreTo("f", "z"), Leak("a") >>}

Loops ==
    {Function(FALSE,
        << Block(Entry \o first, << 2 >>), Block(<< Phi("m", 1 :> "c" @@ 3 :> "z"), Use("m") >>, << 3, 4 >>),
           Block(body, << 2 >>), Block(<< Load("v", "f"), Use("v"), Load("k", "p"), Use("k") >>, << >>) >>) :
        first \in {<< >>, << StoreTo("f", "c"), StoreTo("p", "d") >>}, body \in Bodies}

\* A closure over the variable a, which is set before and perhaps after it is made.
Closures ==
    {Function(TRUE,
        << Block(Entry \o << StoreTo("a", s), Closure("k", "free", "a", escapes) >> \o after
                   \o << UseFree("free") >>, << >>) >>) :
        s \in {"c", "d"}, escapes \in BOOLEAN,
        after \in {<< >>, << StoreTo("a", "c") >>, << StoreTo("a", "d") >>,
                   << Load("v", "a"), StoreTo("p", "v") >>}}

MCPrograms == Diamonds \cup Leaks \cup Loops \cup Closures

\* A value is read from a field, the field is set to the converted value, and the value
\* read before is validated.
StaleLoad ==
    {Function(FALSE, << Block(Entry \o << Load("v", "f"), StoreTo("f", "c"), Use("v") >>, << >>) >>)}

\* One branch makes *h point at a; a store through *h then counts as a store to a.
PartialPointee ==
    {Function(FALSE,
        << Block(Entry, << 2, 3 >>), Block(<< StoreTo("h", "f") >>, << 4 >>),
           Block(<< Make("t") >>, << 4 >>),
           Block(<< Load("q", "h"), StoreTo("q", "c"), Load("v", "f"), Use("v") >>, << >>) >>)}
=============================================================================
