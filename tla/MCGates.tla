------------------------------ MODULE MCGates -------------------------------
(***************************************************************************)
(* The local gate (GateRun) and the distributed gate (DistributedGate).    *)
(* They share no state, so a behaviour is one of either, and the other     *)
(* stays as it starts; the one the distributed gate leaves alone is of     *)
(* runs that retain nothing.                                               *)
(*                                                                         *)
(* Local runs are interchangeable in every definition and property.  The   *)
(* distributed gate has the audit producer and one consumer, enough        *)
(* attempts to retry both, one edit.                                       *)
(***************************************************************************)
EXTENDS GateRun, DistributedGate, TLC

Symmetry == Permutations(Runs)

AuditUnit == "repository-audit"
ConsumerUnit == "full-scan"
AllUnits == {AuditUnit, ConsumerUnit}
AuditConsumers == {ConsumerUnit}

GatesInit == Init /\ DistributedInit

LocalRests ==
    /\ Init
    /\ \A r \in Runs : wants[r] = {} /\ executor[r] = "parallel"

GatesNext ==
    \/ DistributedInit /\ Next /\ UNCHANGED gateVars
    \/ LocalRests /\ DistributedNext /\ UNCHANGED vars

GatesSpec == GatesInit /\ [][GatesNext]_<<vars, gateVars>>
=============================================================================
