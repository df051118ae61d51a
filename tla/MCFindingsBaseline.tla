------------------------- MODULE MCFindingsBaseline -------------------------
(* Package a, a package b it depends on, a package c outside               *)
(* include_packages, and the test variant of a, which has its import path. *)
EXTENDS RepositoryAudit

MCSections == <<"primitive", "boundary">>
MCInconclusive == {"cast-inconclusive"}

MCPathOf == [p \in {"a", "a.test", "b", "c"} |->
               CASE p = "a.test" -> "a" [] OTHER -> p]

MCScopes == {{"a", "b"}, {"a", "c"}, {"a", "a.test"}}

F(id, cat, msg, posn, unsure) ==
    [id |-> <<id>>, cat |-> cat, msg |-> msg, posn |-> posn, unsure |-> unsure]

\* Two fields of one type with one message, a boundary parameter that is
\* violated in one version and undecided in another, and a finding that is
\* not suppressible.
field1 == F("f1", "primitive", "string", "a1", FALSE)
field2 == F("f2", "primitive", "string", "a2", FALSE)
param == F("p1", "boundary", "request", "b1", FALSE)
unsureParam == F("p2", "boundary", "unsure request", "b1", TRUE)
unsureCast == F("c1", "cast-inconclusive", "cast", "b2", TRUE)
directive == F("u1", "directive", "unknown", "b3", FALSE)
collided == F("f1", "primitive", "string", "a3", FALSE)

Raw(a, b) ==
    [p \in DOMAIN MCPathOf |->
       CASE MCPathOf[p] = "a" -> a [] p = "b" -> b [] p = "c" -> {}]

\* Pattern x is used by package a only, y by b in the first version, then by nobody.
Uses(b) ==
    [p \in DOMAIN MCPathOf |->
       CASE MCPathOf[p] = "a" -> {"x"} [] p = "b" -> b [] p = "c" -> {}]

MCSources ==
    <<[raw |-> Raw({field1, field2}, {param}), uses |-> Uses({"y"})],
      [raw |-> Raw({field1}, {unsureParam}), uses |-> Uses({})],
      [raw |-> Raw({field1}, {directive}), uses |-> Uses({})],
      [raw |-> Raw({field1, collided}, {unsureCast}), uses |-> Uses({})]>>

Entry(f) == [cat |-> f.cat, id |-> f.id, msg |-> f.msg]

MCHandwritten ==
    {{Entry(field1), Entry(unsureParam)}, {Entry(field1), [Entry(param) EXCEPT !.id = field1.id]}}

=============================================================================
