---------------------------- MODULE MCRaceRepeat ----------------------------
(***************************************************************************)
(* Instances of RaceRepeat for TLC: three tests, up to two shards, two     *)
(* normal iterations, groups of the plan and two workers.                  *)
(***************************************************************************)
EXTENDS RaceRepeat

Sample(f) == [m \in DOMAIN f |-> [top |-> f[m], nested |-> << >>]]
Nested(f, m, cases) == [Sample(f) EXCEPT ![m].nested = cases]

\* Manifests captured on all the tests, on some of them, and with a family of
\* nested cases that is light or that dominates its shard.
Even == <<Sample(<<2, 2, 2>>)>>
Uneven == <<Sample(<<1, 3, 2>>), Sample(<<1, 1, 2>>), Sample(<<0, 3, 1>>)>>
Partial == <<Sample(<<1, 2>>), Sample(<<2, 1>>)>>
Light == <<Nested(<<2, 2, 3>>, 3, <<1, 3>>)>>
Dominant == <<Nested(<<1, 1, 2>>, 3, <<1, 9>>)>>

Same(tests, samples) == [normal |-> tests, race |-> tests, samples |-> samples]
Drifted(samples) == [normal |-> 1..3, race |-> 1..2, samples |-> samples]

MCMaxEdits == 1

\* Both numbers have two digits here, so that the lexical order is numeric.
MCLexicalPosition(mode, iteration, shard) ==
    (IF mode = "race" THEN 10000 ELSE 0) + iteration * 100 + shard

\* The workspace before and after an edit.
Histories ==
    {[v \in 0..MCMaxEdits |-> Same(1..3, s)] : s \in {Even, Uneven, Partial, Light, Dominant}}
       \cup {[v \in 0..MCMaxEdits |-> IF v = 0 THEN Same(1..3, Uneven) ELSE t] :
               t \in {Same(1..2, Uneven), Same(1..3, Partial), Drifted(Even)}}

Options(trees, shards, repeat, group) ==
    [trees |-> trees, shards |-> shards, repeat |-> repeat, group |-> group, workers |-> 2]

Fixed(samples) == [v \in 0..MCMaxEdits |-> Same(1..3, samples)]

MCInputs ==
    {Options(h, 2, 1, <<1, 2>>) : h \in Histories}
       \cup {Options(Fixed(s), 2, 2, g) : s \in {Uneven}, g \in {<<2, 2>>, <<3, 4>>, <<1, 9>>}}
       \cup {Options(Fixed(Partial), s, 1, <<>>) : s \in {1, 4}}
=============================================================================
