-------------------------- MODULE MCGateScheduler ---------------------------
(***************************************************************************)
(* Small execution plans for the scheduler.  Made by hand: three units     *)
(* under every dependency relation of the family below, cyclic and         *)
(* dangling ones included, so that Validate has something to reject; two   *)
(* exclusivity groups; reservations that fit alone but not all together.   *)
(* Generated: from manifests of four subgates, valid or not.               *)
(***************************************************************************)
EXTENDS GatePlan

MCUnits == 1..3

MkPlan(cpu, mem, groups, requires, limit) ==
    [units |-> DOMAIN cpu, cpu |-> cpu, mem |-> mem,
     slots |-> [u \in DOMAIN cpu |-> 1], groups |-> groups,
     requires |-> requires, cpuBudget |-> 4, memBudget |-> 4,
     maxWorkers |-> limit, profile |-> "consumer", registry |-> <<>>]

\* Unit 3 may require anything, unit 1 may close a cycle or dangle.
MCRequires ==
    {[u \in MCUnits |-> CASE u = 1 -> a [] u = 2 -> b [] OTHER -> c] :
        a \in {{}, {3}, {9}}, b \in {{}, {1}}, c \in {{}, {1}, {2}, {1, 2}}}

MCGroups == {"audit", "suite"}

MCGroupings ==
    {[u \in MCUnits |-> {}],
     [u \in MCUnits |-> {"audit"}],
     [u \in MCUnits |-> IF u = 2 THEN MCGroups ELSE {"suite"}]}

HandmadePlans ==
    {MkPlan(<<2, 1, 1>>, <<1, 2, 1>>, g, r, 2) : g \in MCGroupings, r \in MCRequires}
    \cup {MkPlan(<<1, 1, 3>>, <<1, 1, 1>>, g, r, 3) : g \in MCGroupings, r \in MCRequires}
    \cup {MkPlan(<<1, 5, 1>>, <<1, 1, 1>>, g, r, 3) : g \in MCGroupings,
            r \in {[u \in MCUnits |-> {}]}}
    \cup {MkPlan(<<2, 1, 1, 2>>, <<1, 1, 1, 1>>,
                 [u \in 1..4 |-> IF u = 3 THEN {} ELSE {"audit"}],
                 <<{}, {}, {1}, {2}>>, 3),
          MkPlan(<<1, 1, 1, 2>>, <<2, 1, 2, 1>>, [u \in 1..4 |-> {}],
                 <<{}, {}, {1}, {2}>>, 3)}

(***************************************************************************)
(* Manifests: the benchmarks (11), the freshness check (12), the           *)
(* repository audit (13) and a policy (14) that consumes the audit and may *)
(* or may not be semantic.                                                 *)
(***************************************************************************)
Audit == 13
Policy == 14

Selections ==
    {[q \in Profiles |->
        CASE q = "complete" -> semantic \cup {12} [] q = "semantic" -> semantic
          [] q = "consumer" -> {Audit, Policy} [] OTHER -> harness] :
       semantic \in {{11, Audit}, {11, Audit, Policy}},
       harness \in {{Audit, Policy}, {Audit}}}

\* A manifest with the given profiles, dependencies of the audit and owners.
Manifest(profiles, audit, registry, found) ==
    [profiles |-> profiles,
     subgates |-> [id \in 11..14 |->
        [cpu |-> 1, mem |-> IF id = 12 THEN 2 ELSE 1,
         requires |-> CASE id = Audit -> audit [] id = Policy -> {Audit} [] OTHER -> {},
         groups |-> IF id \in {12, Audit} THEN {"audit"} ELSE {},
         profiles |-> {q \in Profiles : id \in profiles[q]},
         registrations |-> {r \in DOMAIN registry : registry[r] = id},
         found |-> found, safe |-> TRUE]]]

\* One registration of the audit, one of the policy or of nobody, and one of
\* the benchmarks.
Registries == {<<Audit, Policy>>, <<Audit, 11>>, <<Audit, 15>>}

\* The host has two CPUs and 4 units of memory, or unknown memory.
Override(explicit, env) == [explicit |-> explicit, env |-> env]

Budgets ==
    UNION {discoverResourceBudget([cpu |-> cpu, mem |-> Override(0, <<>>), workers |-> limit],
                                  [cpu |-> 2, mem |-> mem]) :
             cpu \in {Override(0, <<>>), Override(0, <<3>>)},
             limit \in {Override(0, <<>>), Override(8, <<>>), Override(0, <<0>>)},
             mem \in {0, 4}}

GeneratedPlans ==
    UNION {generatePlan(Manifest(profiles, audit, registry, found), registry, q, b) :
             profiles \in Selections, audit \in {{}, {11}, {Policy}},
             registry \in Registries, found \in BOOLEAN, q \in Profiles, b \in Budgets}

MCPlans == HandmadePlans \cup GeneratedPlans
=============================================================================
