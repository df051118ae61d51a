----------------------------- MODULE MCExecution -----------------------------
(***************************************************************************)
(* The scheduler (GatePlan) and one of the commands it runs, the targeted  *)
(* mutations (TargetedMutation).  They share no state: the command is      *)
(* looked at in the behaviours of one plan, which the scheduler refuses,   *)
(* and in the others it stays as it starts.                                *)
(***************************************************************************)
EXTENDS MCGateScheduler, TargetedMutation, TLC

-----------------------------------------------------------------------------
(* Mutations: two of two files, one guarded by a subtest, one by two       *)
(* assertions of one test; profiles that are accepted and profiles that    *)
(* are not; and the traces of both guards, clean or failing as declared,   *)
(* with every deviation in one respect.                                    *)

MCRoots == {"T1", "T2"}
MCParentOf == ("T1/s" :> "T1")
MCCategories == << "cast", "boundary" >>

Mismatch(test, id) == [test |-> test, id |-> id, expected |-> "good", actual |-> "bad"]

Mutant(id, file, selected, expected, categories) ==
    [id |-> id, file |-> file, anchored |-> IF id = "m1" THEN {0, 1} ELSE {0},
     guard |-> [selected |-> selected, expected |-> expected],
     categories |-> categories, stages |-> {"propagation"}]

InSubtest == Mutant("m1", "f1", {"T1"}, {Mismatch("T1/s", "a")}, {"cast", "boundary"})
TwoAssertions == Mutant("m2", "f2", {"T2"}, {Mismatch("T2", "b"), Mismatch("T2", "c")}, {"cast"})

Profile(count, ids, mutations) == [count |-> count, ids |-> ids, mutations |-> mutations]

MCProfiles ==
    {Profile(2, << "m2", "m1" >>, {InSubtest, TwoAssertions}),
     Profile(3, << "m1" >>, {InSubtest}),
     Profile(1, << "m1" >>, {InSubtest}),
     Profile(2, << "m1" >>, {InSubtest, TwoAssertions}),
     Profile(2, << "m2" >>, {TwoAssertions}),
     Profile(2, << "m1" >>, {[InSubtest EXCEPT !.guard.expected = {Mismatch("T2", "a")}]})}

-----------------------------------------------------------------------------
(* Traces. *)

Passing(tests) ==
    [decodes |-> TRUE, timedOut |-> FALSE, panicked |-> FALSE, err |-> FALSE,
     packageFailed |-> FALSE, ran |-> tests, ranRight |-> tests, passedRight |-> tests,
     failed |-> {}, skipped |-> {}, mismatches |-> << >>]

Failing(tests, mismatches) ==
    [Passing(tests) EXCEPT !.err = TRUE, !.packageFailed = TRUE, !.passedRight = {},
                           !.failed = tests, !.mismatches = mismatches]

Deviations(tr) ==
    {tr, [tr EXCEPT !.decodes = FALSE], [tr EXCEPT !.timedOut = TRUE],
     [tr EXCEPT !.panicked = TRUE], [tr EXCEPT !.err = ~@], [tr EXCEPT !.packageFailed = ~@],
     [tr EXCEPT !.ran = MCRoots \cup @], [tr EXCEPT !.ranRight = {}],
     [tr EXCEPT !.passedRight = {}], [tr EXCEPT !.skipped = {"T1/s"}],
     [tr EXCEPT !.failed = IF @ = {} THEN tr.ran ELSE {}],
     [tr EXCEPT !.failed = @ \cap MCRoots], [tr EXCEPT !.mismatches = << >>],
     [tr EXCEPT !.mismatches = @ \o @],
     [tr EXCEPT !.mismatches = << Mismatch("T1", "a") >> \o @],
     [tr EXCEPT !.mismatches = << Mismatch("T2", "d") >> \o @]}
    \cup (IF tr.mismatches = << >> THEN {}
          ELSE {[tr EXCEPT !.mismatches = Tail(@)],
                [tr EXCEPT !.mismatches[1].expected = "other"],
                [tr EXCEPT !.mismatches[1].actual = "other"]})

MCGuardTraces ==
    UNION {Deviations(tr) : tr \in
        {Passing({"T1", "T1/s"}), Passing({"T2"}),
         Failing({"T1", "T1/s"}, << Mismatch("T1/s", "a") >>),
         Failing({"T2"}, << Mismatch("T2", "c"), Mismatch("T2", "b") >>)}}
    \cup {Failing({"T2"}, << Mismatch("T2", "b"), Mismatch("T2", "c") >>)}

-----------------------------------------------------------------------------
(* The composition. *)

\* Of three units, one asks for more than there is.
Refused ==
    MkPlan(<<1, 5, 1>>, <<1, 1, 1>>, [u \in MCUnits |-> {}], [u \in MCUnits |-> {}], 3)

ExecutionInit ==
    /\ Init
    /\ MutationInit
    /\ plan # Refused => chosen = CHOOSE p \in MutationProfiles : TRUE

ExecutionNext ==
    \/ Next /\ UNCHANGED mutationVars
    \/ plan = Refused /\ pc = "returned" /\ cancel = "none" /\ MutationNext /\ UNCHANGED vars

\* The fairness of FairSpec.
ExecutionSpec ==
    /\ ExecutionInit
    /\ [][ExecutionNext]_<<vars, mutationVars>>
    /\ WF_vars(Scheduler)
    /\ \A u \in UNION {p.units : p \in Plans} : WF_vars(Worker(u))
=============================================================================
