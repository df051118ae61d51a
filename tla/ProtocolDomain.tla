--------------------------- MODULE ProtocolDomain ---------------------------
(***************************************************************************)
(* The canonical protocol domain of the analyzer: the abstract state of    *)
(* one tracked value on one path (protocol_domain.go), the transfers a     *)
(* node or an edge applies to it (cfa_ide_edgefunc.go), the summary effect *)
(* a path edge carries (cfa_ifds_tabulation.go) and the relevance of an    *)
(* uncertainty at a sink (protocol_relevance.go).                          *)
(*                                                                         *)
(* Bit sets are sets, the numeric enumerations keep the order the code     *)
(* compares them in, and a path reason stands for its uncertainty bit: the *)
(* table of protocolPathReasonOrder pairs them one to one.                 *)
(***************************************************************************)
EXTENDS Integers, Sequences

None == "none"

\* The pairs of protocolPathReasonOrder, most blocking first.
PathReasonOrder ==
    << "timeout", "state-budget", "witness-budget", "recursion-cycle",
       "feasibility-unknown", "missing-ssa", "unsupported-instruction",
       "concurrent-mutation", "escaped-heap-mutation", "ambiguous-identity",
       "reflection", "unsafe", "unresolved-target", "call-mapping" >>

Reasons == {PathReasonOrder[i] : i \in 1..Len(PathReasonOrder)}

Hazards == {"escaped", "consumed"}

Effects == {"validate", "mutate", "replace", "escape", "consume",
            "terminate", "constraint"}

Results == {"unknown", "nil", "nonnil"}

DeferredErrors == {"unknown", "nil", "validation", "other"}

\* protocolIdentityRelevance, ordered as the code compares it.
Unrelated == 0
MustAlias == 1
MayAlias  == 2
UnknownIdentity == 3
Identities == Unrelated..UnknownIdentity

Tags == {"identity", "validate", "validation-failed", "invalidate", "escape",
         "consume", "deferred-nil", "deferred-validation", "deferred-other",
         "deferred-unknown"}

AbstractState ==
    [validation  : {"proven", "required"},
     hazards     : SUBSET Hazards,
     uncertainty : SUBSET Reasons,
     result      : Results,
     deferred    : DeferredErrors,
     identity    : Identities,
     effects     : SUBSET Effects]

\* A state with one component given and every other at its zero value.
Plain(validation, hazards, result) ==
    [validation |-> validation, hazards |-> hazards, uncertainty |-> {},
     result |-> result, deferred |-> "unknown", identity |-> Unrelated,
     effects |-> {}]

NeedsValidate   == Plain("required", {}, "unknown")
Validated       == Plain("proven", {}, "nil")
ValidationFailed == Plain("required", {}, "nonnil")
EscapedBefore   == Plain("required", {"escaped"}, "unknown")
ConsumedBefore  == Plain("required", {"consumed"}, "unknown")

-----------------------------------------------------------------------------
(* The information order and its join. *)

FlatLessEqual(a, b) == a = b \/ b = "unknown"

FlatJoin(a, b) == IF a = b THEN a ELSE "unknown"

LessEqual(s, t) ==
    /\ s.validation = "required" => t.validation = "required"
    /\ s.hazards \subseteq t.hazards
    /\ s.uncertainty \subseteq t.uncertainty
    /\ FlatLessEqual(s.result, t.result)
    /\ FlatLessEqual(s.deferred, t.deferred)
    /\ s.identity <= t.identity
    /\ s.effects \subseteq t.effects

JoinIdentity(a, b) == IF a >= b THEN a ELSE b

Join(s, t) ==
    [validation  |-> IF "required" \in {s.validation, t.validation}
                     THEN "required" ELSE "proven",
     hazards     |-> s.hazards \cup t.hazards,
     uncertainty |-> s.uncertainty \cup t.uncertainty,
     result      |-> FlatJoin(s.result, t.result),
     deferred    |-> FlatJoin(s.deferred, t.deferred),
     identity    |-> JoinIdentity(s.identity, t.identity),
     effects     |-> s.effects \cup t.effects]

-----------------------------------------------------------------------------
(* Transfers. *)

\* apply with protocolEffectEscape or protocolEffectConsume.
Hazard(s, h) ==
    IF s.validation = "required" THEN [s EXCEPT !.hazards = @ \cup {h}] ELSE s

Invalidate(s) ==
    [s EXCEPT !.validation = "required",
              !.result     = "unknown",
              !.deferred   = IF @ = "validation" THEN "other" ELSE @]

\* ideEdgeFunc.Apply.
Apply(tag, s) ==
    CASE tag = "validate"            -> [s EXCEPT !.validation = "proven",
                                                  !.result = "nil"]
      [] tag = "validation-failed"   -> [s EXCEPT !.result = "nonnil"]
      [] tag = "invalidate"          -> Invalidate(s)
      [] tag = "escape"              -> Hazard(s, "escaped")
      [] tag = "consume"             -> Hazard(s, "consumed")
      [] tag = "deferred-nil"        -> [s EXCEPT !.deferred = "nil"]
      [] tag = "deferred-validation" -> [s EXCEPT !.deferred = "validation"]
      [] tag = "deferred-other"      -> [s EXCEPT !.deferred = "other"]
      [] tag = "deferred-unknown"    -> [s EXCEPT !.deferred = "unknown",
                                                  !.identity = UnknownIdentity]
      [] OTHER                       -> s

EffectsForUncertainty(reason) ==
    CASE reason = "concurrent-mutation"   -> {"mutate", "replace"}
      [] reason = "escaped-heap-mutation" -> {"mutate", "replace", "escape"}
      [] reason = "ambiguous-identity"    ->
            {"mutate", "replace", "escape", "consume", "constraint"}
      [] reason \in {"unresolved-target", "call-mapping", "reflection", "unsafe"}
                                          -> Effects
      [] OTHER                            -> {}

IdentityForUncertainty(reason) ==
    IF reason = "ambiguous-identity" THEN MayAlias
    ELSE IF EffectsForUncertainty(reason) # {} THEN MustAlias ELSE Unrelated

WithUncertainty(s, reason) ==
    IF reason = None THEN s
    ELSE [s EXCEPT !.uncertainty = @ \cup {reason},
                   !.effects     = @ \cup EffectsForUncertainty(reason),
                   !.identity    = JoinIdentity(@, IdentityForUncertainty(reason))]

\* pathOutcomeReason: the most blocking reason the state carries.
PathOutcomeReason(s) ==
    LET hits == {i \in 1..Len(PathReasonOrder) : PathReasonOrder[i] \in s.uncertainty}
    IN  IF hits = {} THEN None
        ELSE PathReasonOrder[CHOOSE i \in hits : \A j \in hits : i <= j]

-----------------------------------------------------------------------------
(* The conditional effect a path edge carries: what the path does to an    *)
(* entry state whose validation is required, and to one where it is proven.*)

IdentityEffect == [required |-> NeedsValidate, proven |-> Validated]

\* The half of the effect that an entry state selects.
Selected(f, s) == IF s.validation = "required" THEN f.required ELSE f.proven

EffectApply(f, s) ==
    [s EXCEPT !.validation = Selected(f, s).validation,
              !.hazards    = @ \cup Selected(f, s).hazards,
              !.result     = Selected(f, s).result]

Then(f, tag) == [required |-> Apply(tag, f.required),
                 proven   |-> Apply(tag, f.proven)]

ThenSummary(f, g) == [required |-> EffectApply(g, f.required),
                      proven   |-> EffectApply(g, f.proven)]

-----------------------------------------------------------------------------
(* protocolRelevanceQuery.relevant, for a query that is forward reachable. *)

ProvenRelevantEffects == {"mutate", "replace", "escape", "consume", "constraint"}

Relevant(s, sinkReachable, identity) ==
    /\ sinkReachable
    /\ identity # Unrelated
    /\ s.effects # {}
    /\ IF s.validation = "required"
       THEN identity >= MayAlias
       ELSE s.effects \cap ProvenRelevantEffects # {}

IdentityAtUnresolvedSink(reason, identity) ==
    IF reason \in {"unresolved-target", "call-mapping", "reflection", "unsafe"}
    THEN JoinIdentity(identity, UnknownIdentity) ELSE identity
=============================================================================
