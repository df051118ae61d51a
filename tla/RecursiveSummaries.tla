------------------------ MODULE RecursiveSummaries ------------------------
(***************************************************************************)
(* The summary of a recursive procedure for one of its slots               *)
(* (protocol_recursive_validation.go): the procedures that pass the slot   *)
(* on are scanned for the routes by which an error result reaches a        *)
(* return, three fixed points over maps, which Go walks in any order,      *)
(* select the usable procedures and compute their transfers, and the       *)
(* transfer of the root becomes a list of effects.                         *)
(***************************************************************************)
EXTENDS Procedures

VARIABLES
    scanned,    \* procedure -> its routes, and whether all its returns are classified
    phase,      \* "valid", "direct", "transfer", "publish", "done", "ask"
    usable,     \* valid[key]
    reaching,   \* reachesDirect[key]
    transfers,  \* available transfers
    unpublished,\* procedures whose complete transfer is still to be joined
    summary     \* effects of the root, or NoSummary

building == << phase, usable, reaching, transfers, unpublished, summary >>

NoSummary == << "no summary" >>

-----------------------------------------------------------------------------
(* The scan of a procedure. *)

\* protocolRecursiveBlockReaches over one edge or more.
ReachedFrom(p, b) == Reachable(p, Range(system.code[p][b].succs), {})

\* protocolInstructionMayPrecede.
MayPrecede(p, i, j) ==
    /\ i # j
    /\ (i[1] = j[1] /\ i[2] < j[2]) \/ j[1] \in ReachedFrom(p, i[1])

\* protocolClassifyRecursiveSummaryReturn: the instruction an error result comes from.
TerminalsOf(p, i) ==
    {t \in InstructionsOf(p) :
        At(p, t).op \in {"validate", "call"} /\ At(p, t).dst = At(p, i).result}

\* protocolRecursiveInstructionEffects: a call that is passed the value lets it escape.
EffectsOf(p, i) ==
    CASE At(p, i).op = "call" -> {"escape"}
      [] At(p, i).op \in {"mutate", "replace", "escape", "consume"} -> {At(p, i).op}
      [] OTHER -> {}

\* protocolScanRecursiveSummaryNode and protocolRecursiveRouteEffects: one route for
\* every classified return, with the effects that may come before and after its terminal.
RouteOf(p, ret) ==
    LET t == CHOOSE u \in TerminalsOf(p, ret) : TRUE
        others == InstructionsOf(p) \ {t}
    IN  [direct |-> At(p, t).op = "validate",
         dep    |-> IF At(p, t).op = "call" THEN At(p, t).callee ELSE p,
         before |-> UNION {EffectsOf(p, i) : i \in {j \in others :
                        MayPrecede(p, j, t) /\ MayPrecede(p, t, ret)}},
         after  |-> UNION {EffectsOf(p, i) : i \in {j \in others :
                        MayPrecede(p, t, j) /\ MayPrecede(p, j, ret)}}]

Scan(p) ==
    [routes   |-> {RouteOf(p, r) : r \in {s \in ReturnsOf(p) : TerminalsOf(p, s) # {}}},
     admitted |-> ReturnsOf(p) # {} /\ \A r \in ReturnsOf(p) : TerminalsOf(p, r) # {}]

RoutesOf(p) == scanned[p].routes
Dependencies(p) == {r.dep : r \in {s \in RoutesOf(p) : ~s.direct}}

\* node.returning && !node.invalid && len(node.routes) > 0.
Admitted(p) == scanned[p].admitted

-----------------------------------------------------------------------------
(* Transfers. *)

Identity == [validation |-> FALSE, pre |-> {}, post |-> {}, escape |-> FALSE,
             consumeBefore |-> FALSE, consumeAfter |-> FALSE, validated |-> FALSE]

\* protocolRecursiveTransferBuilder.apply and applyInvalidation.
ApplyEffect(t, effect) ==
    CASE effect = "validate" -> [t EXCEPT !.pre = @ \cup t.post, !.post = {},
                                          !.validation = TRUE, !.validated = TRUE]
      [] effect \in {"mutate", "replace"} ->
            IF t.validation THEN [t EXCEPT !.post = @ \cup {effect}, !.validated = FALSE]
            ELSE [t EXCEPT !.pre = @ \cup {effect}, !.validated = FALSE]
      [] effect = "escape"  -> [t EXCEPT !.escape = TRUE]
      [] effect = "consume" -> IF t.validated THEN [t EXCEPT !.consumeAfter = TRUE]
                               ELSE [t EXCEPT !.consumeBefore = TRUE]

ApplyEffects(t, effects) ==
    LET done[n \in 0..Len(effects)] ==
            IF n = 0 THEN t
            ELSE CHOOSE u \in {ApplyEffect(s, effects[n]) : s \in {done[n - 1]}} : TRUE
    IN  done[Len(effects)]

\* The elements of a set of effects, in a given order.
Ordered(order, effects) == SelectSeq(order, LAMBDA e : e \in effects)

\* applyLocalEffects: invalidations before observations.
ApplyLocalEffects(t, effects) ==
    ApplyEffects(t, Ordered(<< "mutate", "replace", "escape", "consume" >>, effects))

\* The list of effects of a transfer: applyTransfer applies it, effects publishes it.
EffectList(t) ==
    LET when(b, e) == IF b THEN << e >> ELSE << >>
        invalidations(set) == Ordered(<< "mutate", "replace" >>, set)
    IN  when(t.escape, "escape") \o when(t.consumeBefore, "consume")
          \o invalidations(t.pre) \o when(t.validation, "validate")
          \o when(t.consumeAfter, "consume") \o invalidations(t.post)

\* finish drops the position in the list.
Finish(t) == [t EXCEPT !.validated = FALSE]

\* A join that keeps only the invalidations every route makes.
JoinCommonTransfers(all) ==
    [validation    |-> \E t \in all : t.validation,
     pre           |-> UNION {t.pre : t \in all},
     post          |-> {e \in {"mutate", "replace"} : \A t \in all : e \in t.post},
     escape        |-> \E t \in all : t.escape,
     consumeBefore |-> \E t \in all : t.consumeBefore,
     consumeAfter  |-> \E t \in all : t.consumeAfter,
     validated     |-> FALSE]

\* joinProtocolRecursiveTransfers.
JoinTransfers(all) ==
    [validation    |-> \E t \in all : t.validation,
     pre           |-> UNION {t.pre : t \in all},
     post          |-> UNION {t.post : t \in all},
     escape        |-> \E t \in all : t.escape,
     consumeBefore |-> \E t \in all : t.consumeBefore,
     consumeAfter  |-> \E t \in all : t.consumeAfter,
     validated     |-> FALSE]

RouteTransfer(route, known) ==
    LET start  == ApplyLocalEffects(Identity, route.before)
        middle == IF route.direct THEN << "validate" >> ELSE EffectList(known[route.dep])
    IN  Finish(ApplyLocalEffects(ApplyEffects(start, middle), route.after))

\* protocolRecursiveNodeTransfer: the routes whose dependency has a transfer.
ReadyRoutes(p, known) == {r \in RoutesOf(p) : r.direct \/ r.dep \in DOMAIN known}

NodeTransfer(p, known) == JoinTransfers({RouteTransfer(r, known) : r \in ReadyRoutes(p, known)})

-----------------------------------------------------------------------------
(* buildProtocolRecursiveSummary. *)

\* protocolCollectRecursiveSummaryNode: the procedures reached from the root.
Collected ==
    LET within[n \in Nat] ==
            IF n = 0 THEN {system.root}
            ELSE UNION {seen \cup UNION {Dependencies(p) : p \in seen} : seen \in {within[n - 1]}}
    IN  within[Cardinality(Names)]

StartBuilding ==
    /\ scanned = [p \in Names |-> Scan(p)]
    /\ phase = "valid"
    /\ usable = {p \in Collected : Admitted(p)}
    /\ reaching = {} /\ transfers = << >> /\ unpublished = {} /\ summary = NoSummary

\* A procedure with an unusable dependency is not usable.
Discard ==
    {p \in usable : ~(Dependencies(p) \subseteq usable)}

DiscardProcedure(p) ==
    /\ phase = "valid" /\ p \in Discard
    /\ usable' = usable \ {p}
    /\ UNCHANGED << phase, reaching, transfers, unpublished, summary >>

EndDiscard ==
    /\ phase = "valid" /\ Discard = {}
    /\ phase' = "direct"
    /\ reaching' = {p \in usable : \E r \in RoutesOf(p) : r.direct}
    /\ UNCHANGED << usable, transfers, unpublished, summary >>

Reach == {p \in usable \ reaching : Dependencies(p) \cap reaching # {}}

ReachProcedure(p) ==
    /\ phase = "direct" /\ p \in Reach
    /\ reaching' = reaching \cup {p}
    /\ UNCHANGED << phase, usable, transfers, unpublished, summary >>

EndReach ==
    /\ phase = "direct" /\ Reach = {}
    /\ phase' = IF system.root \in reaching THEN "transfer" ELSE "done"
    /\ UNCHANGED << usable, reaching, transfers, unpublished, summary >>

Merged(p) ==
    JoinTransfers({NodeTransfer(p, transfers)}
                    \cup IF p \in DOMAIN transfers THEN {transfers[p]} ELSE {})

\* A worklist that takes every procedure once.
GrowingOnce == {p \in usable \ DOMAIN transfers : ReadyRoutes(p, transfers) # {}}

Growing ==
    {p \in usable : /\ ReadyRoutes(p, transfers) # {}
                    /\ p \in DOMAIN transfers => Merged(p) # transfers[p]}

GrowTransfer(p) ==
    /\ phase = "transfer" /\ p \in Growing
    /\ transfers' = (p :> Merged(p)) @@ transfers
    /\ UNCHANGED << phase, usable, reaching, unpublished, summary >>

EndGrow ==
    /\ phase = "transfer" /\ Growing = {}
    /\ phase' = "publish" /\ unpublished' = usable
    /\ UNCHANGED << usable, reaching, transfers, summary >>

\* Publication requires every route of every procedure.
CompleteTransfer(p) ==
    /\ phase = "publish" /\ p \in unpublished
    /\ unpublished' = unpublished \ {p}
    /\ IF ReadyRoutes(p, transfers) = RoutesOf(p)
       THEN phase' = phase /\ transfers' = (p :> Merged(p)) @@ transfers
       ELSE phase' = "done" /\ transfers' = transfers
    /\ UNCHANGED << usable, reaching, summary >>

Publish ==
    /\ phase = "publish" /\ unpublished = {}
    /\ phase' = "done"
    /\ summary' = IF transfers[system.root].validation
                  THEN EffectList(transfers[system.root]) ELSE NoSummary
    /\ UNCHANGED << usable, reaching, transfers, unpublished >>

Build ==
    \/ \E p \in Names : \/ DiscardProcedure(p) \/ ReachProcedure(p)
                        \/ GrowTransfer(p) \/ CompleteTransfer(p)
    \/ EndDiscard \/ EndReach \/ EndGrow \/ Publish

-----------------------------------------------------------------------------
(* Properties. *)

\* The least transfers: what the equations say whatever the order of the maps.
Least ==
    LET good[n \in Nat] ==
            IF n = 0 THEN {p \in Collected : Admitted(p)}
            ELSE UNION {{p \in g : Dependencies(p) \subseteq g} : g \in {good[n - 1]}}
        nodes == good[Cardinality(Names)]
        ready(p, known) == {r \in RoutesOf(p) : r.direct \/ r.dep \in DOMAIN known}
        iterate[n \in Nat] ==
            IF n = 0 THEN << >>
            ELSE CHOOSE better \in
                    {[p \in {q \in nodes : ready(q, known) # {}} |->
                        JoinTransfers({RouteTransfer(r, known) : r \in ready(p, known)})] :
                            known \in {iterate[n - 1]}} : TRUE
    IN  iterate[6 * Cardinality(Names)]

\* The result does not depend on the order in which the maps are walked: the transfers are
\* the least ones, and there is a summary exactly when every one of them is complete. It
\* holds of procedures that consume the value after no call that may come to invalidate it;
\* MCConsumedLater shows two of which it does not.
OrderIndependent ==
    phase = "done" =>
        /\ summary # NoSummary =>
              transfers = Least /\ summary = EffectList(Least[system.root])
        /\ summary = NoSummary =>
              ~ /\ system.root \in DOMAIN Least
                /\ \A p \in DOMAIN Least : ReadyRoutes(p, Least) = RoutesOf(p)
                /\ Least[system.root].validation
=============================================================================
