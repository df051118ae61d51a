--------------------------- MODULE Constructors ---------------------------
(***************************************************************************)
(* Whether a constructor validates the value it returns                    *)
(* (cfa_ifds_constructor_path.go, constructor_ssa_identity.go,             *)
(* constructor_deferred.go), and the passes that ask about procedures and  *)
(* constructors. The value of a constructor is made by it or obtained from *)
(* another constructor; its deferred calls run when it returns and may     *)
(* change the error it returns.                                            *)
(*                                                                         *)
(* The recursive summary of system.root is built first, in every order of  *)
(* its maps; the passes then take the result every order leads to.         *)
(***************************************************************************)
EXTENDS Summaries

\* constructorNamedErrorResult, and the defer statements.
Named(c) == c \in system.named
Registrations(c) == OpsOf(c, {"defer"})
IsLiteral(p) == p \in system.literals
LiteralsOf(c) == {At(c, d).callee : d \in Registrations(c)} \cap system.literals

\* go/ssa keeps the named results of a function with deferred calls in memory.
ResultsInMemory(c) == Named(c) /\ Registrations(c) # {}

-----------------------------------------------------------------------------
(* The values returned (buildConstructorSSAIdentityModel).                 *)

Made == << 0, 0 >>
Obtains(c) == OpsOf(c, {"obtain"})

\* Where the value at an instruction may come from.
OriginsAt(c, i) ==
    LET before == {o \in Obtains(c) : o[1] = i[1] /\ o[2] < i[2]}
        others == {o[1] : o \in Obtains(c)} \ {i[1]}
    IN  IF before # {} THEN {LastIn(before)}
        ELSE {o \in Obtains(c) : MayPrecede(c, o, i)}
               \cup IF i[1] \in Reachable(c, {1}, others) THEN {Made} ELSE {}

\* constructorSSAErrorResultAtReturn: a constant, a new error, or an error whose comparison
\* with nil has one branch that dominates the return.
ReturnErrorResult(c, r) ==
    LET e == At(c, r).result
        proves(b, n) == Dominates(c, system.code[c][b].succs[n], r[1])
        guards == {b \in Blocks(c) : system.code[c][b].test = e /\ proves(b, 1) # proves(b, 2)}
        relations == {IF proves(b, 1) THEN "nonnil" ELSE "nil" : b \in guards}
    IN  CASE ResultsInMemory(c) -> "unknown"
          [] ~ResultsInMemory(c) /\ e = "none" -> "nil"
          [] ~ResultsInMemory(c) /\ e = "new" -> "nonnil"
          [] OTHER -> IF Cardinality(relations) = 1 THEN CHOOSE x \in relations : TRUE ELSE "unknown"

MaySucceed(c) == {r \in ReturnsOf(c) : ReturnErrorResult(c, r) # "nonnil"}

\* returnPositionHasObject.
Obligations(c, t) == {r \in MaySucceed(c) : OriginsAt(c, r) = {t}}
UncertainReturns(c) == {r \in MaySucceed(c) : Cardinality(OriginsAt(c, r)) # 1}

\* returnObjectKeys.
ReturnObjects(c) == UNION {OriginsAt(c, r) : r \in MaySucceed(c) \ UncertainReturns(c)}

\* delegatedCallForObject: the returned value is the result of the call itself.
Delegated(c, t) == t # Made /\ ~ResultsInMemory(c)

\* protocolInvocationTargetResolution.
InvocationsOn(c, t, kept) == {i \in InvocationsOf(c, kept) : OriginsAt(c, i) = {t}}

ReturnPropagates(c, r, t, kept) ==
    \E i \in InvocationsOn(c, t, kept) : At(c, i).dst = At(c, r).result

-----------------------------------------------------------------------------
(* Deferred calls (constructorDeferredPlanner). A state says whether the   *)
(* value is validated and what the named error holds: nil, the result of   *)
(* the validation, or another error.                                       *)

RegistrationBefore(c, d, e) ==
    IF d[1] = e[1] THEN d[2] < e[2] ELSE Dominates(c, d[1], e[1])

RegistrationMayReach(c, d, r) ==
    IF d[1] = r[1] THEN d[2] < r[2] ELSE r[1] \in Reachable(c, {d[1]}, {})

RegistrationCanRepeat(c, d) == d[1] \in ReachedFrom(c, d[1])

\* nodeReferencesError.
ReferencesError(p) ==
    \/ \E b \in Blocks(p) : system.code[p][b].test = "err"
    \/ \E i \in OpsOf(p, {"set", "validate", "call"}) : At(p, i).dst = "err"
    \/ \E i \in OpsOf(p, {"set"}) : At(p, i).from = "err"

\* deferCallRelevant: a call that is passed the value, or a literal with the named error.
DeferCallRelevant(c, d) == IsLiteral(At(c, d).callee) => ReferencesError(At(c, d).callee)

\* The validations of a literal, if the variable it shares never gets another value.
InvocationsIn(c, l, kept) == IF Obtains(c) = {} THEN InvocationsOf(l, kept) ELSE {}

\* The stores of a literal in the named error.
StoresError(l, i) == At(l, i).op \in {"set", "validate", "call"} /\ At(l, i).dst = "err"

\* storeRelation: what an instruction leaves in the named error, "same" if it does not
\* store in it.
StoreRelation(c, l, i, kept) ==
    LET instr == At(l, i)
        from == IF instr.op = "set" THEN instr.from ELSE "err"
        validation == {j \in InvocationsIn(c, l, kept) : j = i \/ At(l, j).dst = from}
    IN  IF ~StoresError(l, i) THEN "same"
        ELSE CASE from = "none" -> "nil"
               [] from = "err" /\ instr.op = "set" -> "same"
               [] OTHER -> IF validation # {} THEN "validation" ELSE "other"

\* ideEdgeFuncInvalidate.
Invalidate(s) == [s EXCEPT !.validated = FALSE, !.error = IF @ = "validation" THEN "other" ELSE @]

\* protocolDeferredErrorProgram.nodeTransfer: the error of the validation stands for it.
AfterDeferredNode(pass, c, l, i, s, kept, answers) ==
    LET relation == StoreRelation(c, l, i, kept)
        stored(u) == IF relation = "same" THEN u ELSE [u EXCEPT !.error = relation]
        doubt == [s EXCEPT !.unsure = TRUE]
        effective == s.validated \/ s.error = "validation"
        after == AfterValidatedCall([Unvalidated EXCEPT !.validated = TRUE],
                                    answers[At(l, i).callee])
    IN  CASE i \in InvocationsIn(c, l, kept) -> stored(s)
          [] i \in Unresolved(pass, l) \ InvocationsIn(c, l, kept) -> doubt
          [] i \in CallsOf(l) \ (Unresolved(pass, l) \cup InvocationsIn(c, l, kept)) ->
               IF ~effective THEN stored(s)
               ELSE IF after.unsure # {} THEN doubt
               ELSE stored(IF after.validated THEN s ELSE Invalidate(s))
          [] i \in DirectEscapes(l) -> IF effective THEN doubt ELSE s
          [] OTHER -> stored(s)

\* pruneEdge: the named error is not different from nil where it is known to be nil.
AfterDeferredEdges(l, b, s) ==
    LET block == system.code[l][b]
    IN  {<< n, s >> : n \in IF block.test = "err" /\ s.error = "nil" THEN {block.succs[2]}
                            ELSE Range(block.succs)}

\* executeRegistration.
ExecuteRegistration(pass, c, d, s, gathered, answers) ==
    LET l == At(c, d).callee
        reached == Reached(l, s,
                     LAMBDA i, u : AfterDeferredNode(pass, c, l, i, u, gathered[l], answers),
                     LAMBDA b, u : AfterDeferredEdges(l, b, u))
        exits == {e[2] : e \in {f \in reached : At(l, f[1]).op = "exit"}}
    IN  IF ~IsLiteral(l) \/ exits = {} THEN {[s EXCEPT !.unsure = TRUE]} ELSE exits

\* The order of registration.
PlannedInOrder(c, r) ==
    LET active == {d \in Registrations(c) : RegistrationMayReach(c, d, r)}
    IN  SetToSortSeq(active, LAMBDA d, e : d = e \/ RegistrationBefore(c, d, e))

\* The active registrations, the last registered first.
Planned(c, r) ==
    LET active == {d \in Registrations(c) : RegistrationMayReach(c, d, r)}
    IN  SetToSortSeq(active, LAMBDA d, e : d = e \/ RegistrationBefore(c, e, d))

Incomparable(c, ds) ==
    \E d, e \in ds : d # e /\ ~RegistrationBefore(c, d, e) /\ ~RegistrationBefore(c, e, d)

\* returnEffect.
ReturnEffect(pass, c, r, initially, gathered, answers) ==
    LET plan == Planned(c, r)
        start == [validated |-> initially, error |-> "nil", unsure |-> FALSE]
        skipped(d, states) == IF RegistrationBefore(c, d, r) THEN {} ELSE states
        after[n \in Nat] ==
            IF n = 0 THEN {start}
            ELSE UNION {skipped(plan[n], states)
                          \cup UNION {ExecuteRegistration(pass, c, plan[n], s, gathered, answers) :
                                        s \in states} : states \in {after[n - 1]}}
        effect(states) ==
            IF \E s \in states : s.unsure \/ s.error = "other" THEN "inconclusive"
            ELSE IF \A s \in states : s.validated \/ s.error = "validation" THEN "validate"
            ELSE IF initially THEN "invalidate" ELSE "identity"
    IN  IF ~Named(c) \/ plan = << >> THEN "identity"
        ELSE IF \/ \E d \in Range(plan) : RegistrationCanRepeat(c, d) /\ DeferCallRelevant(c, d)
                \/ Incomparable(c, Range(plan))
        THEN "inconclusive"
        ELSE CHOOSE x \in {effect(states) : states \in {after[Len(plan)]}} : TRUE

-----------------------------------------------------------------------------
(* evaluateLocalReturnTarget. failed: a validation returned an error.      *)

\* The effects of the deferred calls at each return, of a value validated before or not.
ReturnEffects(pass, c, gathered, answers) ==
    [r \in ReturnsOf(c) |-> [initially \in BOOLEAN |->
        ReturnEffect(pass, c, r, initially, gathered, answers)]]

\* A return: the deferred calls come first, then the error it returns.
AfterReturn(c, r, t, s, kept, effects) ==
    LET propagates == ReturnPropagates(c, r, t, kept)
        effect == effects[r][s.validated \/ propagates]
        validated == [s EXCEPT !.validated = TRUE, !.failed = FALSE]
        unsure == [s EXCEPT !.unsure = @ \cup {"unresolved"}]
    IN  CASE effect = "validate" -> validated
          [] effect = "invalidate" -> [s EXCEPT !.validated = FALSE, !.failed = FALSE]
          [] effect = "inconclusive" -> unsure
          [] effect = "identity" ->
               IF s.validated \/ s.failed THEN s
               ELSE IF propagates THEN validated
               ELSE IF r \in Obligations(c, t) /\ ReturnErrorResult(c, r) = "unknown" THEN unsure
               ELSE s

AfterConstructorNode(pass, c, i, t, s, kept, effects, answers) ==
    LET op == At(c, i).op
        unresolved == IF i \in Unresolved(pass, c) \ InvocationsOf(c, kept)
                      THEN {"unresolved"} ELSE {}
        doubt(u) == [u EXCEPT !.unsure = @ \cup unresolved]
    IN  CASE op = "return" -> AfterReturn(c, i, t, s, kept, effects)
          [] op # "return" /\ OriginsAt(c, i) # {t} -> s
          [] op = "call" /\ OriginsAt(c, i) = {t} ->
               IF s.validated THEN doubt(AfterValidatedCall(s, answers[At(c, i).callee]))
               ELSE IF ~s.failed /\ i \in DOMAIN kept THEN [s EXCEPT !.validated = kept[i]]
               ELSE doubt(s)
          [] op = "escape" /\ OriginsAt(c, i) = {t} ->
               IF s.validated THEN [s EXCEPT !.unsure = @ \cup {"escaped"}] ELSE s
          [] OTHER -> s

AfterConstructorEdges(c, b, t, s, kept) ==
    LET block == system.code[c][b]
        tested == TestedAt(c, b, kept) \cap InvocationsOn(c, t, kept)
    IN  IF tested = {} \/ s.validated THEN {<< n, s >> : n \in Range(block.succs)}
        ELSE {<< block.succs[1], [s EXCEPT !.failed = TRUE] >>,
              << block.succs[2], [s EXCEPT !.validated = TRUE, !.failed = FALSE] >>}

EvaluateLocalReturnTarget(pass, c, t, kept, effects, answers) ==
    LET initial == [validated |-> FALSE, failed |-> FALSE, unsure |-> {}]
        after(i, s) == AfterConstructorNode(pass, c, i, t, s, kept, effects, answers)
        reached == Reached(c, initial, after, LAMBDA b, s : AfterConstructorEdges(c, b, t, s, kept))
        ends == {<< e[1], after(e[1], e[2]) >> : e \in {f \in reached : f[1] \in Obligations(c, t)}}
        unsafe(r, s) == /\ ~s.validated /\ ~s.failed
                        /\ ~(ReturnErrorResult(c, r) = "unknown" /\ s.unsure # {})
    IN  IF \E e \in ends : unsafe(e[1], e[2]) THEN Unsafe
        ELSE IF \E e \in ends : e[2].unsure # {} THEN Inconclusive
        ELSE Safe

-----------------------------------------------------------------------------
(* EvaluateConstructorPath. Its frames are among those of the summaries.   *)

NewConstructor(c, above) ==
    [name |-> c, pc |-> "gather", asked |-> {}, kept |-> << >>, always |-> FALSE,
     above |-> above, gathered |-> << >>, todo |-> ReturnObjects(c), verdicts |-> {}]

\* The checks of inspectConstructorValidates that ask for a path evaluation.
AskConstructor(pass, c) ==
    /\ phase = "ask" /\ steps = 0
    /\ work[pass] = << >>
    /\ c \in system.wants[pass] \cap system.constructors /\ ~HasAnswer(pass, c)
    /\ \A q \in system.after[pass] : Settled(q)
    /\ work' = [work EXCEPT ![pass] = << NewConstructor(c, {}) >>]
    /\ UNCHANGED << cache, given >>

Gathered(pass) ==
    Asks(pass, "gather") /\ CallsOf(Innermost(pass).name) = Innermost(pass).asked

\* The calls of a literal that validate are kept by the constructor.
EndLiteral(pass) ==
    /\ Gathered(pass) /\ IsLiteral(Innermost(pass).name)
    /\ LET frame == Innermost(pass)
           rest == SubSeq(work[pass], 1, Len(work[pass]) - 1)
       IN  work' = [work EXCEPT ![pass] = [rest EXCEPT ![Len(rest)].gathered =
                        (frame.name :> CheckedCalls(frame.name, frame.kept)) @@ @]]
    /\ UNCHANGED << cache, given >>

AskLiteral(pass) ==
    /\ Gathered(pass) /\ ~IsLiteral(Innermost(pass).name)
    /\ \E l \in LiteralsOf(Innermost(pass).name) \ DOMAIN Innermost(pass).gathered :
         work' = [work EXCEPT ![pass] = Append(@, NewConstructor(l, {}))]
    /\ UNCHANGED << cache, given >>

EndGather(pass) ==
    /\ Gathered(pass) /\ ~IsLiteral(Innermost(pass).name)
    /\ LiteralsOf(Innermost(pass).name) = DOMAIN Innermost(pass).gathered
    /\ GoOn(pass, [Innermost(pass) EXCEPT !.pc = "construct",
                                          !.kept = CheckedCalls(Innermost(pass).name, @)])

\* The summaries the evaluation looks up for the constructor and its literals.
ConstructorAnswers(pass, c) ==
    [q \in UNION {{At(p, i).callee : i \in CallsOf(p)} : p \in {c} \cup LiteralsOf(c)} |->
        Lookup(pass, q)]

\* The verdict goes to the constructor that delegates, or is the answer.
Conclude(pass, verdict) ==
    LET frame == Innermost(pass)
        rest == SubSeq(work[pass], 1, Len(work[pass]) - 1)
    IN  /\ work' = [work EXCEPT ![pass] = IF rest = << >> THEN << >>
                        ELSE [rest EXCEPT ![Len(rest)].verdicts = @ \cup {verdict}]]
        /\ given' = IF rest = << >> THEN given \cup {<< pass, frame.name, verdict >>} ELSE given
        /\ UNCHANGED cache

\* The verdict of the constructor's own paths, with the answers and effects it looks up.
EvaluateLocally(pass, frame, t) ==
    LET c == frame.name
    IN  UNION {{EvaluateLocalReturnTarget(pass, c, t, frame.kept, effects, answers) :
                    effects \in {ReturnEffects(pass, c, frame.gathered, answers)}} :
                 answers \in {ConstructorAnswers(pass, c)}}

\* localValidationPossible.
LocalValidationPossible(c, t, kept) == InvocationsOn(c, t, kept) # {}

\* One returned value: what the constructor does itself is enough if it validates the
\* value; else the constructor the value comes from is evaluated, which is not done for one
\* that is being evaluated for another one already.
Construct(pass) ==
    /\ Asks(pass, "construct")
    /\ Unsafe \notin Innermost(pass).verdicts
    /\ Innermost(pass).todo # {}
    /\ LET frame == Innermost(pass)
           c == frame.name
           t == FirstOf(frame.todo)
           delegated == Delegated(c, t)
           locally == ~delegated \/ LocalValidationPossible(c, t, frame.kept)
           rest == [frame EXCEPT !.todo = @ \ {t}]
           concluding(v) == GoOn(pass, [rest EXCEPT !.verdicts = @ \cup {v}])
       IN  \E local \in IF locally THEN EvaluateLocally(pass, frame, t) ELSE {Inconclusive} :
             IF local = Safe \/ ~delegated \/ ~Local(pass, At(c, t).callee) THEN concluding(local)
             ELSE IF At(c, t).callee \in frame.above THEN concluding(Inconclusive)
             ELSE /\ work' = [work EXCEPT ![pass] =
                                [@ EXCEPT ![Len(@)] = rest]
                                  \o << NewConstructor(At(c, t).callee,
                                                       frame.above \cup {At(c, t).callee}) >>]
                  /\ UNCHANGED << cache, given >>

EndConstruct(pass) ==
    /\ Asks(pass, "construct")
    /\ LET frame == Innermost(pass)
       IN  /\ frame.todo = {} \/ Unsafe \in frame.verdicts
           /\ Conclude(pass, IF Unsafe \in frame.verdicts THEN Unsafe
                             ELSE IF Inconclusive \in frame.verdicts
                                       \/ UncertainReturns(frame.name) # {} THEN Inconclusive
                             ELSE Safe)

-----------------------------------------------------------------------------
(* The passes. *)

ConstructorStep(pass) ==
    \/ EndLiteral(pass) \/ AskLiteral(pass) \/ EndGather(pass)
    \/ Construct(pass) \/ EndConstruct(pass)

PassStep(pass) ==
    \/ Load(pass) \/ LoadOrStore(pass) \/ Import(pass) \/ AskCallee(pass)
    \/ EndCollect(pass) \/ CastPath(pass) \/ CrossBlock(pass) \/ ConstructorStep(pass)
    \/ \E p \in Names : Ask(pass, p) \/ AskConstructor(pass, p)

\* Any procedure an answer was given about, or constructor found safe, is called.
Check ==
    /\ phase = "ask" /\ AllSettled
    /\ \E g \in given : /\ g[3] \notin {NoSummary, Unsafe, Inconclusive}
                        /\ Call(g[2], g[3])

Init ==
    /\ system \in Systems
    /\ StartBuilding /\ Idle
    /\ cache = << >> /\ given = {}
    /\ recursive = [pass \in Passes |-> [p \in system.passes[pass] \ (system.constructors
                        \cup system.literals) |-> RecursiveAnswer(pass, p)]]
    /\ work = [pass \in Passes |-> << >>]

Work ==
    \/ \E p \in Names : /\ DiscardProcedure(p) \/ ReachProcedure(p)
                           \/ GrowTransfer(p) \/ CompleteTransfer(p)
                        /\ UNCHANGED << system, running, asking >>
    \/ /\ EndDiscard \/ EndReach \/ EndGrow \/ Publish \/ StartPasses
       /\ UNCHANGED << system, running, asking >>
    \/ \E pass \in Passes : /\ PassStep(pass)
                            /\ UNCHANGED << system, running, building, recursive >>
    \/ Check /\ UNCHANGED << building, asking >>
    \/ Execute /\ UNCHANGED << building, asking >>

Next == Work /\ UNCHANGED scanned

\* Every pass runs in a goroutine of its own, and summaries are built before they are asked.
Fairness ==
    /\ WF_vars((Build \/ StartPasses) /\ UNCHANGED << system, scanned, running, asking >>)
    /\ \A pass \in {"main", "other", "base"} :
          WF_vars(/\ pass \in Passes /\ PassStep(pass)
                  /\ UNCHANGED << system, scanned, running, building, recursive >>)

Spec == Init /\ [][Next]_vars /\ Fairness

-----------------------------------------------------------------------------
(* Properties. *)

\* A constructor that is found safe returns a valid value whenever it returns without an
\* error, whichever of its deferred calls ran and whatever they did to the error: what
\* discharges a constructor is the validation of the value it returns together with the
\* error of that validation.
ConstructorsAreSound == claim = Safe /\ returned /\ ~failed => valid
=============================================================================
