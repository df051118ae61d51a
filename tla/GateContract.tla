---------------------------- MODULE GateContract ----------------------------
(***************************************************************************)
(* What every execution mode of the soundness gate promises its caller:    *)
(* work units pass one after another, a unit passes only after all the     *)
(* units it requires, and the gate accepts only when every unit of the     *)
(* plan has passed.  A verdict, once returned, never changes.              *)
(*                                                                         *)
(* The contract is deliberately silent about workers, resources, channels, *)
(* bundles and cancellation; GateScheduler is one implementation of it.    *)
(***************************************************************************)
CONSTANT Contracts        \* the admissible [units, requires] records

VARIABLES contract,       \* the units to run and what each of them requires
          passed,         \* the units whose evidence was accepted so far
          verdict         \* "open", "accepted" or "rejected"

cvars == <<contract, passed, verdict>>

Init ==
    /\ contract \in Contracts
    /\ passed = {}
    /\ verdict = "open"

\* The evidence of one unit is accepted, after that of all it requires.
Pass(u) ==
    /\ verdict = "open"
    /\ contract.requires[u] \subseteq passed
    /\ passed' = passed \cup {u}
    /\ UNCHANGED <<contract, verdict>>

\* The whole gate is accepted, on complete evidence only.
Accept ==
    /\ verdict = "open"
    /\ passed = contract.units
    /\ verdict' = "accepted"
    /\ UNCHANGED <<contract, passed>>

\* The gate may be refused at any time before its verdict.
Reject ==
    /\ verdict = "open"
    /\ verdict' = "rejected"
    /\ UNCHANGED <<contract, passed>>

Next ==
    \/ \E u \in contract.units : Pass(u)
    \/ Accept
    \/ Reject

Spec == Init /\ [][Next]_cvars
=============================================================================
