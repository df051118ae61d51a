---------------------------- MODULE MCSummaries ----------------------------
(***************************************************************************)
(* Instances of Constructors, and so of Summaries, for TLC.                *)
(***************************************************************************)
EXTENDS Constructors

Op(op) == [op |-> op]
Validating(d) == [op |-> "validate", dst |-> d]
Calling(d, p) == [op |-> "call", dst |-> d, callee |-> p]
Returning(r) == [op |-> "return", result |-> r]
Block(instrs, succs) == [instrs |-> instrs, succs |-> succs, test |-> "none"]
Test(instrs, e, failure, success) == [instrs |-> instrs, succs |-> << failure, success >>, test |-> e]

Writes == {"nop", "mutate", "escape", "consume"}

-----------------------------------------------------------------------------
(* Recursive procedures. *)

\* if ... { x; e := v.Validate(); y; return e }; z; e := callee(v); w; return e
Recursive(callee, x, y, z, w) ==
    << Block(<< Op("nop") >>, << 2, 3 >>),
       Block(<< Op(x), Validating("e1"), Op(y), Returning("e1") >>, << >>),
       Block(<< Op(z), Calling("e2", callee), Op(w), Returning("e2") >>, << >>) >>

\* for { e := v.Validate(); if ... { return e }; x }
Loop(x) == << Block(<< Validating("e1") >>, << 2, 3 >>), Block(<< Op(x) >>, << 1 >>),
              Block(<< Returning("e1") >>, << >>) >>

\* return callee(v) or nil
Unclassified(callee) ==
    << Block(<< Calling("e1", callee) >>, << 2, 3 >>), Block(<< Returning("e1") >>, << >>),
       Block(<< Returning("none") >>, << >>) >>

-----------------------------------------------------------------------------
(* Other procedures. *)

\* x; e := v.Validate(); y; return e
Straight(x, y) == << Block(<< Op(x), Validating("e1"), Op(y), Returning("e1") >>, << >>) >>

\* x; return nil
Plain(x) == << Block(<< Op(x), Returning("none") >>, << >>) >>

\* if err := v.Validate(); err != nil { panic }; y; return nil
Must(y) == << Test(<< Validating("e1") >>, "e1", 2, 3), Block(<< Op("panic") >>, << >>),
              Block(<< Op(y), Returning("none") >>, << >>) >>

\* if ... { x; return nil }; y; return nil
Either(x, y) == << Block(<< Op("other") >>, << 2, 3 >>), Block(<< Op(x), Returning("none") >>, << >>),
                   Block(<< Op(y), Returning("none") >>, << >>) >>

Never(x) == << Block(<< Op(x), Op("panic") >>, << >>) >>

\* x; e := callee(v); y; return e
Forward(callee, x, y) ==
    << Block(<< Op(x), Calling("e1", callee), Op(y), Returning("e1") >>, << >>) >>

\* if err := callee(v); err != nil { panic }; y; return nil
Checked(callee, y) ==
    << Test(<< Calling("e1", callee) >>, "e1", 2, 3), Block(<< Op("panic") >>, << >>),
       Block(<< Op(y), Returning("none") >>, << >>) >>

\* callee(v); y; return nil
Unchecked(callee, y) == << Block(<< Calling("e1", callee), Op(y), Returning("none") >>, << >>) >>

\* if err := v.Validate(); err != nil { panic }; callee(v); return nil
Then(callee) ==
    << Test(<< Validating("e1") >>, "e1", 2, 3), Block(<< Op("panic") >>, << >>),
       Block(<< Calling("e2", callee), Returning("none") >>, << >>) >>

\* if err := v.Validate(); err != nil { return err }; return nil
Guard == << Test(<< Validating("e1") >>, "e1", 2, 3), Block(<< Returning("e1") >>, << >>),
            Block(<< Returning("none") >>, << >>) >>

-----------------------------------------------------------------------------
(* Systems. *)

NoConstructors == [constructors |-> {}, named |-> {}, literals |-> {}]

\* One package.
Alone(r, s) ==
    [root |-> "R", code |-> ("R" :> r @@ "S" :> s), passes |-> [main |-> {"R", "S"}],
     after |-> [main |-> {}], wants |-> [main |-> {"R", "S"}], exported |-> {}] @@ NoConstructors

\* S is in a package that main imports.
Imported(r, s) ==
    [root |-> "R", code |-> ("R" :> r @@ "S" :> s),
     passes |-> [main |-> {"R"}, base |-> {"S"}], after |-> [main |-> {"base"}, base |-> {}],
     wants |-> [main |-> {"R"}, base |-> {}], exported |-> {"S"}] @@ NoConstructors

\* A package and its test variant.
Variants(r, s) ==
    [root |-> "R", code |-> ("R" :> r @@ "S" :> s),
     passes |-> [main |-> {"R", "S"}, other |-> {"R", "S"}],
     after |-> [main |-> {}, other |-> {}], wants |-> [main |-> {"R"}, other |-> {"S"}],
     exported |-> {}] @@ NoConstructors

\* Two packages that import the one S is in.
Importers(r, q, s) ==
    [root |-> "R", code |-> ("R" :> r @@ "Q" :> q @@ "S" :> s),
     passes |-> [main |-> {"R"}, other |-> {"Q"}, base |-> {"S"}],
     after |-> [main |-> {"base"}, other |-> {"base"}, base |-> {}],
     wants |-> [main |-> {"R"}, other |-> {"Q"}, base |-> {}], exported |-> {"S"}] @@ NoConstructors

Effects == {"nop", "other", "mutate", "replace", "escape", "consume", "discard"}

RecursiveSystems ==
    {Alone(Recursive("R", x, y, "nop", "nop"), Straight("nop", "nop")) : x \in Writes, y \in Writes}
    \cup {Alone(Recursive("R", "nop", "nop", "nop", w), Straight("nop", "nop")) : w \in Writes}
    \cup {Alone(Recursive("S", xz[1], "nop", xz[2], "nop"), s) :
            xz \in {<< "nop", "consume" >>, << "mutate", "nop" >>},
            s \in {Recursive("R", "nop", "mutate", "nop", "nop"), Loop("consume"),
                   Straight("nop", "replace"), Unclassified("R"),
                   Forward("R", "consume", "nop"), Forward("S", "nop", "nop")}}
    \cup {Alone(Forward("S", "nop", "nop"), s) :
            s \in {Forward("R", "nop", "nop"), Recursive("R", "nop", "nop", "nop", "mutate"),
                   Recursive("S", "mutate", "consume", "nop", "nop")}}

\* R reads the transfer of S before or after S is known to mutate the value, and says
\* something else (OrderIndependent).
ConsumedLater == {Alone(Forward("S", "nop", "consume"), Recursive("S", "mutate", "nop", "nop", "mutate"))}

\* Procedures that call no other.
LeafSystems ==
    {Alone(Straight(x, y), Either(y, x)) : x \in Effects \ {"replace", "other"},
                                           y \in Effects \ {"nop", "other"}}
    \cup {Alone(Must(x), Plain(x)) : x \in Effects} \cup {Alone(Never(x), Plain("nop")) : x \in Effects}

\* The callees and callers the summaries are sound for (see the README for the others).
Helpers == {Straight("nop", y) : y \in Effects} \cup {Straight("mutate", "nop")}
             \cup {Plain("mutate"), Plain("escape"), Plain("other"), Must("nop"), Must("mutate"),
                   Never("nop"), Either("mutate", "consume")}
Consuming == {Straight("nop", "consume")}
Few == {Straight("nop", "nop"), Straight("nop", "consume"), Plain("mutate"), Must("nop")}

CallerSystems ==
    {Alone(r, s) : s \in Helpers, r \in {Forward("S", "mutate", "nop"), Then("S")}}
    \cup {Alone(Checked("S", "nop"), s) : s \in Helpers \ Consuming}
    \cup {Alone(r, s) : s \in Few, r \in {Unchecked("S", "consume"), Forward("S", "nop", "consume")}}

ImportedSystems ==
    {Imported(Then("S"), s) : s \in Helpers} \cup {Imported(Unchecked("S", "consume"), s) : s \in Few}
    \cup {Imported(Checked("S", "mutate"), s) : s \in Helpers \ Consuming}

RacingSystems ==
    {Variants(r, s) : r \in {Checked("S", "nop"), Recursive("S", "nop", "nop", "nop", "nop")},
                      s \in {Straight("nop", "nop"), Recursive("R", "nop", "mutate", "nop", "nop")}}
    \cup {Importers(Checked("S", "nop"), Checked("S", "mutate"), Straight("nop", "nop")),
          Importers(Checked("S", "nop"), Then("S"), Straight("nop", "escape"))}

-----------------------------------------------------------------------------
(* Constructors. *)

Obtaining(d, c) == [op |-> "obtain", dst |-> d, callee |-> c]
Defer(p) == [op |-> "defer", callee |-> p]
Set(d, from) == [op |-> "set", dst |-> d, from |-> from]
Exit == Op("exit")

\* e := v.Validate(); if err == nil { err = e }
Preserving == << Test(<< Validating("e1") >>, "err", 2, 3), Block(<< Exit >>, << >>),
                 Block(<< Set("err", "e1"), Exit >>, << >>) >>

\* e := v.Validate(); if e != nil { err = e }
Adopting == << Test(<< Validating("e1") >>, "e1", 2, 3), Block(<< Set("err", "e1"), Exit >>, << >>),
               Block(<< Exit >>, << >>) >>

\* if ... { err = v.Validate() }
Perhaps == << Block(<< Op("nop") >>, << 2, 3 >>), Block(<< Validating("err"), Exit >>, << >>),
              Block(<< Exit >>, << >>) >>

\* if err != nil { err = fmt.Errorf(...) }
Wrapping == << Test(<< Op("nop") >>, "err", 2, 3), Block(<< Set("err", "new"), Exit >>, << >>),
               Block(<< Exit >>, << >>) >>

Doing(instr) == << Block(<< instr, Exit >>, << >>) >>

Clear == Doing(Set("err", "none"))
Assign == Doing(Validating("err"))
Literals == {Preserving, Adopting, Perhaps, Wrapping, Assign, Clear, Doing(Set("err", "new")),
             Doing(Set("e1", "err")), Doing(Calling("err", "S")), Doing(Calling("e1", "S")),
             Doing(Op("escape"))}

\* defer D; defer E; e := v.Validate(); return v, e, or nil
Deferring(result) ==
    << Block(<< Defer("D"), Defer("E"), Validating("e1"), Returning(result) >>, << >>) >>

\* defer D; return v, nil
DeferringOnly == << Block(<< Defer("D"), Returning("none") >>, << >>) >>

\* if ... { defer D }; defer E; return v, nil
DeferringPerhaps == << Block(<< Op("nop") >>, << 2, 3 >>), Block(<< Defer("D") >>, << 3 >>),
                       Block(<< Defer("E"), Returning("none") >>, << >>) >>

\* if ... { return v, nil }; defer D; return v, nil
DeferringLate == << Block(<< Op("nop") >>, << 2, 3 >>), Block(<< Returning("none") >>, << >>),
                    Block(<< Defer("D"), Returning("none") >>, << >>) >>

\* for ... { defer D }; return v, nil
DeferringOften == << Block(<< Op("nop") >>, << 2, 3 >>), Block(<< Defer("D") >>, << 1 >>),
                     Block(<< Returning("none") >>, << >>) >>

\* if e := v.Validate(); e != nil { return v, failure }; return v, success
Returns(failure, success) ==
    << Test(<< Validating("e1") >>, "e1", 2, 3), Block(<< Returning(failure) >>, << >>),
       Block(<< Returning(success) >>, << >>) >>

\* if e := v.Validate(); e != nil { log(e) }; return v, nil
Logging == << Test(<< Validating("e1") >>, "e1", 2, 3), Block(<< Op("other") >>, << 3 >>),
              Block(<< Returning("none") >>, << >>) >>

\* v, e := Q(); return v, e
Delegating == << Block(<< Obtaining("e1", "Q"), Returning("e1") >>, << >>) >>

\* if ... { v, e := Q(); return v, e }; return v, v.Validate()
Choosing(r) == << Block(<< Op("nop") >>, << 2, 3 >>),
                  Block(<< Obtaining("e1", "Q"), Returning("e1") >>, << >>),
                  Block(<< Validating("e2"), Returning(r) >>, << >>) >>

\* if ... { v, e = Q() }; return v, v.Validate()
Merging == << Block(<< Op("nop") >>, << 2, 3 >>), Block(<< Obtaining("e1", "Q") >>, << 3 >>),
              Block(<< Validating("e2"), Returning("e2") >>, << >>) >>

Constructor(c, q, s, d, e) ==
    [root |-> "S", code |-> ("C" :> c @@ "Q" :> q @@ "S" :> s @@ "D" :> d @@ "E" :> e),
     passes |-> [main |-> {"C", "Q", "S", "D", "E"}], after |-> [main |-> {}],
     wants |-> [main |-> {"C"}], exported |-> {}, constructors |-> {"C", "Q"},
     named |-> {"C"}, literals |-> {"D", "E"}]

Good == Straight("nop", "nop")

DeferringSystems ==
    {Constructor(Deferring("none"), Good, Good, d, e) :
        d \in Literals, e \in {Preserving, Clear, Doing(Op("escape"))}}
    \cup {Constructor(Deferring("e1"), Good, s, d, Assign) :
            s \in {Good, Plain("mutate")}, d \in Literals \ {Clear}}
    \cup {Constructor(c, Good, Good, d, Wrapping) :
            c \in {DeferringOnly, DeferringLate, DeferringOften, DeferringPerhaps},
            d \in {Preserving, Assign, Doing(Calling("err", "S")), Plain("nop")}}

\* The constructors the analysis is sound for (see the README for the others).
ReturningSystems ==
    {Constructor(c, q, Good, Assign, Assign) :
        c \in {Delegating, Choosing("e2"), Choosing("none"), Merging},
        q \in {Good, Plain("nop"), Delegating, Returns("e1", "none")}}
    \cup {Constructor(c, Good, s, Assign, Assign) :
            c \in {Forward("S", "nop", "nop"), Unchecked("S", "nop"), Checked("S", "nop"), Then("S")},
            s \in {Good, Plain("mutate"), Must("nop")}}
    \cup {Constructor(Returns(f, r), Good, Good, Assign, Assign) :
            f \in {"e1", "new"}, r \in {"none", "e1", "new"}}

MCSystems ==
    RecursiveSystems \cup LeafSystems \cup CallerSystems \cup ImportedSystems \cup RacingSystems
    \cup DeferringSystems \cup ReturningSystems

Logged == {Constructor(Logging, Good, Good, Assign, Assign)}
=============================================================================
