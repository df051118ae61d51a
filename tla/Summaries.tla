----------------------------- MODULE Summaries -----------------------------
(***************************************************************************)
(* Effect summaries of the procedures a value is passed to                 *)
(* (cfa_summary.go). Passes, one for each package or test variant of one,  *)
(* ask for the summaries of the procedures their code calls. An answer is  *)
(* read from a cache all passes share, or derived: from the facts of an    *)
(* imported package, from the recursive summary (RecursiveSummaries), or   *)
(* from two path evaluations over the body. Deriving asks for the          *)
(* summaries of the callees first.                                         *)
(*                                                                         *)
(* Beside root and code a system has                                       *)
(*   passes   pass -> the procedures whose bodies the pass has             *)
(*   after    pass -> the passes that end before it starts                 *)
(*   wants    pass -> the procedures it asks for                           *)
(*   exported the procedures facts are exported about                      *)
(* and, for Constructors, constructors, named and literals.                *)
(***************************************************************************)
EXTENDS RecursiveSummaries, SequencesExt

\* What a pass finds out about a constructor.
Safe == << "safe" >>
Unsafe == << "unsafe" >>
Inconclusive == << "inconclusive" >>

VARIABLES
    cache,  \* calleeSummaryCache: name -> [owner, answer, inProgress]
    work,   \* pass -> the summaries it is computing, the innermost last
    given,  \* << pass, procedure, answer >>: the answers passes got
    recursive   \* pass -> procedure -> its recursive summary, or NoSummary

asking == << cache, work, given, recursive >>
vars == << system, scanned, running, building, asking >>

Passes == DOMAIN system.passes
Local(pass, p) == p \in system.passes[pass]

-----------------------------------------------------------------------------
(* The body of a procedure. *)

OpsOf(p, ops) == {i \in InstructionsOf(p) : At(p, i).op \in ops}
CallsOf(p) == OpsOf(p, {"call"})
Pos(i) == 1000 * i[1] + i[2]
FirstOf(is) == CHOOSE i \in is : \A j \in is : Pos(i) <= Pos(j)
LastIn(is) == CHOOSE i \in is : \A j \in is : Pos(j) <= Pos(i)
LastInstruction(p, b) == << b, Len(system.code[p][b].instrs) >>

\* protocolFunctionAlwaysReturnsValueFromSlot.
AlwaysReturns(p, e) == ReturnsOf(p) # {} /\ \A r \in ReturnsOf(p) : At(p, r).result = e

Dominates(p, b, c) == c \notin Reachable(p, {1}, {b})

\* protocolReachableSSABlocksBeforeGuardReentry.
Region(p, start, guard) ==
    Reachable(p, {start}, {b \in Blocks(p) : b # guard /\ Dominates(p, b, guard)})

\* protocolInvocationHasCheckedSuccess: the error of the call is returned, or every test of
\* it parts the blocks that follow a success from the ones that follow a failure.
CheckedSuccess(p, i) ==
    LET e      == At(p, i).dst
        guards == {b \in Blocks(p) : system.code[p][b].test = e}
        after(n) == UNION {Region(p, system.code[p][b].succs[n], i[1]) : b \in guards}
    IN  \/ \E r \in ReturnsOf(p) : r[1] = i[1] /\ At(p, r).result = e
        \/ AlwaysReturns(p, e)
        \/ guards # {} /\ after(1) \cap after(2) = {}

\* protocolCFGHasReturningPath.
MayReturn(p) ==
    \E b \in Blocks(p) : /\ system.code[p][b].succs = << >>
                         /\ At(p, LastInstruction(p, b)).op = "return"

Validations(p) == OpsOf(p, {"validate"})

\* The ways the body mentions the value.
References == {"validate", "call", "mutate", "replace", "escape", "consume", "discard"}

OnlyDiscarded(p) == OpsOf(p, References) # {} /\ OpsOf(p, References) = OpsOf(p, {"discard"})
UnreferencedAndPure(p) == OpsOf(p, References \cup {"other"}) = {}

\* isVarUseTarget, callUsesTargetOutcomeWithSummaryStack and isVarEscapeTargetOutcome: a
\* method other than Validate, an argument of any call, a copy to anything but a variable
\* of the function.
MethodUses == {"consume"}
CallUses == {"call"}
Escapes == {"escape", "discard"}

\* firstDirectTargetEscapePosition, and firstTargetConsumptionPosition for the calls that
\* are no validation.
DirectEscapes(p) == OpsOf(p, Escapes)
Consumptions(p, kept) == OpsOf(p, MethodUses \cup CallUses) \ kept

\* Effects at their positions, in the order of the source; the sort is stable.
Positioned(entries) ==
    LET leq(x, y) == x[1] < y[1] \/ (x[1] = y[1] /\ x[2] <= y[2])
        sorted == SetToSortSeq(entries, leq)
    IN  [n \in 1..Len(sorted) |-> sorted[n][3]]

AtFirst(is, order, effect) == IF is = {} THEN {} ELSE {<< Pos(FirstOf(is)), order, effect >>}

\* targetMutationSummaryEffect: the walk goes on, so the last write is the one recorded.
Mutation(p, order) ==
    LET is == OpsOf(p, {"mutate", "replace"})
    IN  IF is = {} THEN {} ELSE {<< Pos(LastIn(is)), order, At(p, LastIn(is)).op >>}

-----------------------------------------------------------------------------
(* Facts: what a pass exports of its procedures to the passes that import  *)
(* its package (protocol_summary_fact.go).                                 *)

\* buildStraightLineProtocolSummaryForSlot.
StraightLineFact(p) ==
    LET validations == Validations(p)
        exact  == {i \in validations : AlwaysReturns(p, At(p, i).dst)}
        used   == IF OnlyDiscarded(p) THEN {<< 0, 3, "preserve" >>}
                  ELSE IF Consumptions(p, {}) # {} THEN AtFirst(Consumptions(p, {}), 3, "consume")
                  ELSE AtFirst(OpsOf(p, {"escape"}), 3, "escape")
        entries == {<< Pos(LastIn(validations)), 1, "validate" >> : i \in exact}
                     \cup Mutation(p, 2) \cup used
    IN  IF entries # {} THEN Positioned(entries)
        ELSE IF UnreferencedAndPure(p) THEN << "pure" >> ELSE NoSummary

\* protocolSummaryExcludedFunctionName and protocolSummaryRelevantInputSlots.
IsExported(p) == p \in system.exported

\* exportProtocolSummaryFacts and buildCompleteProtocolSummaryFact.
FactOf(p) ==
    IF ~IsExported(p) THEN NoSummary
    ELSE IF ~MayReturn(p) THEN << "terminal" >>
    ELSE IF Len(system.code[p]) > 1 THEN NoSummary
    ELSE StraightLineFact(p)

-----------------------------------------------------------------------------
(* Path evaluations (cfa_ifds_solver.go, cfa_ifds_ubv.go). The state is    *)
(* whether the value is validated, was used before, and the reasons for    *)
(* which the analysis cannot tell. kept are the calls that validate:       *)
(* instruction -> whether by returning at all.                             *)

Unvalidated == [validated |-> FALSE, hazard |-> FALSE, unsure |-> {}]

\* collectProtocolValidationInvocations and the calls of the validation program.
InvocationsOf(p, kept) == Validations(p) \cup DOMAIN kept

\* The calls of a body that resolve neither to a body nor to a fact.
Unresolved(pass, p) ==
    {i \in CallsOf(p) : ~Local(pass, At(p, i).callee) /\ FactOf(At(p, i).callee) = NoSummary}

\* postValidationReceiverEffectWithSummaryStack: a call once the value is validated.
AfterValidatedCall(s, answer) ==
    IF answer = NoSummary THEN s
    ELSE IF "escape" \in Range(answer) THEN [s EXCEPT !.unsure = @ \cup {"escaped"}]
    ELSE [s EXCEPT !.validated = ContinuationValid(answer, TRUE)]

\* postValidationNonCallTargetEffect: the value leaves the function.
AfterValidatedEscape(s) == [s EXCEPT !.unsure = @ \cup {"escaped"}]

\* ubvGraphNodeEdgeTag: the uses of a value that is not validated.
UsesOf(p, kept) == DirectEscapes(p) \cup Consumptions(p, DOMAIN kept)

\* The node transfers of evaluateCastPathIFDS and evaluateUBVCrossBlockIFDS. Writes in the
\* body itself are no effect of the path: they are recorded by position.
AfterInstruction(pass, p, i, s, kept, answers) ==
    LET op == At(p, i).op
        unresolved == IF i \in Unresolved(pass, p) \ InvocationsOf(p, kept)
                      THEN {"unresolved"} ELSE {}
    IN  CASE s.validated /\ op = "call" ->
               LET t == AfterValidatedCall(s, answers[At(p, i).callee])
               IN  [t EXCEPT !.unsure = @ \cup unresolved]
          [] s.validated /\ i \in DirectEscapes(p) -> AfterValidatedEscape(s)
          [] ~s.validated /\ i \in DOMAIN kept -> [s EXCEPT !.validated = kept[i]]
          [] ~s.validated /\ i \in UsesOf(p, kept) ->
               [s EXCEPT !.hazard = TRUE, !.unsure = @ \cup unresolved]
          [] OTHER -> s

\* targetFailureDischargesObligationOnEdge: the failure of a validation only returns.
FailureEnds(p, i, b) ==
    /\ At(p, LastInstruction(p, b)).op = "return"
    /\ \/ Len(system.code[p][b].instrs) = 1
       \/ /\ system.code[p][i[1]].test = At(p, i).dst
          /\ \A j \in InstructionsOf(p) : j[1] = b => At(p, j).op \notin References

\* edgeResultFacts: the validations whose error the end of a block compares with nil.
TestedAt(p, b, kept) ==
    {i \in InvocationsOf(p, kept) : /\ system.code[p][b].test # "none"
                                    /\ At(p, i).dst = system.code[p][b].test}

\* targetEdgeTransfer and PruneEdge, over the edges out of a block.
AfterEdges(p, b, s, kept, evaluation) ==
    LET block == system.code[p][b]
        tested == TestedAt(p, b, kept)
        failure == {<< block.succs[1], s >>}
        pruned == evaluation = "cast" /\ \E i \in tested : FailureEnds(p, i, block.succs[1])
    IN  IF tested = {} \/ s.validated THEN {<< c, s >> : c \in Range(block.succs)}
        ELSE {<< block.succs[2], [s EXCEPT !.validated = TRUE] >>}
               \cup IF pruned THEN {} ELSE failure

\* The states in which each instruction is reached, << instruction, state >>, when an
\* instruction leads from a state to after(i, s) and the end of a block to the blocks and
\* states of out(b, s).
Reached(p, initial, after(_, _), out(_, _)) ==
    LET next(c) ==
            LET i == c[1]
                from(s) == IF i # LastInstruction(p, i[1]) THEN {<< << i[1], i[2] + 1 >>, s >>}
                           ELSE {<< << e[1], 1 >>, e[2] >> : e \in out(i[1], s)}
            IN  UNION {from(s) : s \in {after(i, c[2])}}
        more(w) == {[seen |-> w.seen \cup found, new |-> found \ w.seen] :
                        found \in {UNION {next(c) : c \in w.new}}}
        within[n \in Nat] ==
            IF n = 0 THEN [seen |-> {<< << 1, 1 >>, initial >>}, new |-> {<< << 1, 1 >>, initial >>}]
            ELSE CHOOSE w \in UNION {more(v) : v \in {within[n - 1]}} : TRUE
    IN  within[2 * Cardinality(InstructionsOf(p))].seen

ReachedStates(pass, p, kept, answers, evaluation) ==
    Reached(p, Unvalidated,
            LAMBDA i, s : AfterInstruction(pass, p, i, s, kept, answers),
            LAMBDA b, s : AfterEdges(p, b, s, kept, evaluation))

\* returnPropagatesTargetValidationError.
PropagatesError(p, ret, kept) ==
    \E i \in InvocationsOf(p, kept) : At(p, i).dst = At(p, ret).result

\* EvaluateCastPath: a return without a validation; returning the error of one is enough.
EvaluateCastPath(pass, p, kept, answers) ==
    LET ends == {c \in ReachedStates(pass, p, kept, answers, "cast") : c[1] \in ReturnsOf(p)}
    IN  IF \E c \in ends : ~c[2].validated /\ ~PropagatesError(p, c[1], kept) THEN "unsafe"
        ELSE IF \E c \in ends : c[2].validated /\ c[2].unsure # {} THEN "inconclusive"
        ELSE "safe"

\* EvaluateUBVCrossBlock: an end after a use of the value before its validation; what is
\* uncertain counts where the value is used.
EvaluateUBVCrossBlock(pass, p, kept, answers) ==
    LET reached == ReachedStates(pass, p, kept, answers, "ubv")
        unsure(c) == LET s == AfterInstruction(pass, p, c[1], c[2], kept, answers)
                     IN  IF s.validated THEN s.unsure # {}
                         ELSE "unresolved" \in c[2].unsure
    IN  IF \E c \in reached : c[1] \in OpsOf(p, {"return", "panic"}) /\ c[2].hazard THEN "unsafe"
        ELSE IF \E c \in reached : c[1] \in UsesOf(p, kept) /\ unsure(c) THEN "inconclusive"
        ELSE "safe"

\* The positioned effects of deriveCalleeSummaryForSlotWithStack.
EffectsFrom(p, kept, always, early) ==
    LET validations == InvocationsOf(p, kept)
        exact == \E i \in Validations(p) : AlwaysReturns(p, At(p, i).dst)
        validation == IF exact THEN AtFirst(validations, 1, "validate")
                      ELSE IF always THEN AtFirst(validations, 1, "ensure") ELSE {}
        uses == OpsOf(p, References)
        used == IF OnlyDiscarded(p) THEN {<< 0, 3, "preserve" >>}
                ELSE IF DirectEscapes(p) # {} THEN AtFirst(DirectEscapes(p), 3, "escape")
                ELSE IF Consumptions(p, DOMAIN kept) # {}
                THEN AtFirst(Consumptions(p, DOMAIN kept), 3, "consume")
                ELSE IF early THEN {<< Pos(LastIn(uses)), 3, "escape" >>} ELSE {}
        ends == IF MayReturn(p) THEN {} ELSE {<< 1000 * (Len(system.code[p]) + 1), 4, "terminal" >>}
        entries == validation \cup Mutation(p, 2) \cup used \cup ends
    IN  IF entries # {} THEN Positioned(entries)
        ELSE IF UnreferencedAndPure(p) THEN << "pure" >> ELSE << "preserve" >>

-----------------------------------------------------------------------------
(* Asking. *)

Recursion(sys, scan) == INSTANCE RecursiveSummaries WITH system <- sys, scanned <- scan

\* buildProtocolRecursiveSummary over the bodies of the pass.
RecursiveAnswer(pass, p) ==
    LET bodies == [root |-> p, code |->
                     [q \in Names |-> IF Local(pass, q) THEN system.code[q] ELSE << >>]]
        scan == [q \in Names |-> IF Local(pass, q) THEN scanned[q]
                                 ELSE [routes |-> {}, admitted |-> FALSE]]
        answer(least) ==
            IF /\ p \in DOMAIN least
               /\ \A q \in DOMAIN least :
                     Recursion(bodies, scan)!ReadyRoutes(q, least) = scan[q].routes
               /\ least[p].validation
            THEN EffectList(least[p]) ELSE NoSummary
    IN  CHOOSE a \in {answer(least) : least \in {Recursion(bodies, scan)!Least}} : TRUE

Innermost(pass) == work[pass][Len(work[pass])]
Scope(pass) == {work[pass][n].name : n \in {m \in DOMAIN work[pass] : work[pass][m].pc # "load"}}

\* recursiveCalleeSummary: the function is looked up in the SSA program of the entry's
\* owner, which only has it for the owner's own objects.
RecursiveCalleeSummary(pass, owner, p) ==
    IF owner = pass /\ Local(pass, p) THEN recursive[pass][p] ELSE NoSummary

\* What the cache answers, where it has an entry or the summary is being derived.
Answered(pass, p) == p \in Scope(pass) \cup DOMAIN cache

Lookup(pass, p) ==
    IF p \in Scope(pass) THEN RecursiveCalleeSummary(pass, pass, p)
    ELSE IF cache[p].inProgress THEN RecursiveCalleeSummary(pass, cache[p].owner, p)
    ELSE cache[p].answer

NewFrame(p) == [name |-> p, pc |-> "load", asked |-> {}, kept |-> << >>, always |-> FALSE]

Validates(answer) == answer # NoSummary /\ ConditionallyValidatesWithoutHazard(answer)

\* The answer goes to the derivation that asked, which keeps a call that validates.
Resume(frame, answer) ==
    LET call == FirstOf(CallsOf(frame.name) \ frame.asked)
    IN  [frame EXCEPT !.asked = @ \cup {call},
                      !.kept = IF Validates(answer)
                               THEN (call :> ("ensure" \in Range(answer))) @@ @ ELSE @]

Answer(pass, answer) ==
    LET rest == SubSeq(work[pass], 1, Len(work[pass]) - 1)
    IN  /\ work' = [work EXCEPT ![pass] =
                      IF rest = << >> THEN << >>
                      ELSE [rest EXCEPT ![Len(rest)] = Resume(@, answer)]]
        /\ given' = given \cup {<< pass, Innermost(pass).name, answer >>}

\* Publication of a derived summary, or of a refusal.
Store(pass, answer) ==
    /\ cache' = [cache EXCEPT ![Innermost(pass).name] =
                    [owner |-> pass, answer |-> answer, inProgress |-> FALSE]]
    /\ Answer(pass, answer)

GoOn(pass, frame) ==
    /\ work' = [work EXCEPT ![pass][Len(work[pass])] = frame]
    /\ UNCHANGED << cache, given >>

Asks(pass, pc) == work[pass] # << >> /\ Innermost(pass).pc = pc

HasAnswer(pass, p) == \E g \in given : g[1] = pass /\ g[2] = p

Settled(pass) ==
    /\ work[pass] = << >>
    /\ \A p \in system.wants[pass] : HasAnswer(pass, p)

\* The passes start once the recursive summary is settled.
StartPasses ==
    /\ phase = "done" /\ phase' = "ask"
    /\ usable' = {} /\ reaching' = {} /\ transfers' = << >> /\ unpublished' = {}
    /\ summary' = NoSummary

Ask(pass, p) ==
    /\ phase = "ask" /\ steps = 0
    /\ work[pass] = << >>
    /\ p \in system.wants[pass] \ system.constructors /\ ~HasAnswer(pass, p)
    /\ \A q \in system.after[pass] : Settled(q)
    /\ work' = [work EXCEPT ![pass] = << NewFrame(p) >>]
    /\ UNCHANGED << cache, given >>

\* A pass that waits for the entry of another one, or its own.
LoadOrWait(pass) ==
    /\ Asks(pass, "load")
    /\ Innermost(pass).name \in DOMAIN cache => ~cache[Innermost(pass).name].inProgress
    /\ LET p == Innermost(pass).name
       IN  IF Answered(pass, p) THEN Answer(pass, Lookup(pass, p)) /\ UNCHANGED cache
           ELSE GoOn(pass, [Innermost(pass) EXCEPT !.pc = "store"])

Load(pass) ==
    /\ Asks(pass, "load")
    /\ LET p == Innermost(pass).name
       IN  IF Answered(pass, p) THEN Answer(pass, Lookup(pass, p)) /\ UNCHANGED cache
           ELSE GoOn(pass, [Innermost(pass) EXCEPT !.pc = "store"])

\* LoadOrStore of the pending entry.
LoadOrStore(pass) ==
    /\ Asks(pass, "store")
    /\ LET p == Innermost(pass).name
       IN  IF p \in DOMAIN cache
           THEN Answer(pass, IF cache[p].inProgress
                             THEN RecursiveCalleeSummary(pass, cache[p].owner, p)
                             ELSE cache[p].answer) /\ UNCHANGED cache
           ELSE /\ cache' = (p :> [owner |-> pass, answer |-> NoSummary, inProgress |-> TRUE])
                              @@ cache
                /\ work' = [work EXCEPT ![pass][Len(work[pass])].pc =
                                IF Local(pass, p) THEN "collect" ELSE "import"]
                /\ UNCHANGED given

\* importedProtocolSummaryForSlot.
Import(pass) == Asks(pass, "import") /\ Store(pass, FactOf(Innermost(pass).name))

\* collectCalleeValidatedCalls, one call at a time.
AskCallee(pass) ==
    /\ Asks(pass, "collect") \/ Asks(pass, "gather")
    /\ CallsOf(Innermost(pass).name) # Innermost(pass).asked
    /\ LET call == FirstOf(CallsOf(Innermost(pass).name) \ Innermost(pass).asked)
       IN  work' = [work EXCEPT ![pass] =
                        Append(@, NewFrame(At(Innermost(pass).name, call).callee))]
    /\ UNCHANGED << cache, given >>

CheckedCalls(p, kept) ==
    [i \in {j \in DOMAIN kept : kept[j] \/ CheckedSuccess(p, j)} |-> kept[i]]

EndCollect(pass) ==
    /\ Asks(pass, "collect")
    /\ CallsOf(Innermost(pass).name) = Innermost(pass).asked
    /\ LET frame == Innermost(pass)
           least == recursive[pass][frame.name]
       IN  IF least # NoSummary THEN Store(pass, least)
           ELSE GoOn(pass, [frame EXCEPT !.pc = "cast", !.kept = CheckedCalls(frame.name, @)])

\* The summaries the path evaluations look up again.
CalleeAnswers(pass, p) ==
    [q \in {At(p, i).callee : i \in CallsOf(p)} |-> Lookup(pass, q)]

CastPath(pass) ==
    /\ Asks(pass, "cast")
    /\ LET frame == Innermost(pass)
           outcome == EvaluateCastPath(pass, frame.name, frame.kept,
                                       CalleeAnswers(pass, frame.name))
       IN  IF outcome = "inconclusive" THEN Store(pass, NoSummary)
           ELSE GoOn(pass, [frame EXCEPT !.pc = "ubv", !.always = outcome = "safe"])

CrossBlock(pass) ==
    /\ Asks(pass, "ubv")
    /\ LET frame == Innermost(pass)
           outcome == EvaluateUBVCrossBlock(pass, frame.name, frame.kept,
                                            CalleeAnswers(pass, frame.name))
       IN  Store(pass, IF outcome = "inconclusive" THEN NoSummary
                       ELSE EffectsFrom(frame.name, frame.kept, frame.always,
                                        outcome = "unsafe"))

AllSettled == \A pass \in Passes : Settled(pass)

-----------------------------------------------------------------------------
(* Properties. *)

\* Whatever the schedule of the passes, an answer covers every call of the procedure: a use
\* of a value that is not valid is announced, the value is valid after a call the answer
\* counts as a validation, and a call announced as terminal does not return.
AnswersAreSound ==
    claim # Safe =>
        /\ hazard => ContinuationHazard(claim, entered)
        /\ returned =>
            /\ ContinuationValid(claim, entered) => valid
            /\ ConditionallyValidates(claim) /\ ~failed => valid
            /\ "terminal" \notin Range(claim)

\* Mutual recursion and passes that meet at one entry never wait for each other: every
\* pass gets an answer for everything it asks.
EveryAskIsAnswered == <>(phase = "ask" /\ AllSettled)
=============================================================================
