------------------------------ MODULE GatePlan -------------------------------
(***************************************************************************)
(* From the reviewed manifest to a running plan: Manifest.Validate and     *)
(* SubgatesForProfile (model.go, manifest_resources.go), the discovery of  *)
(* the resource budget (resources.go), generatePlan (plan.go), and the     *)
(* scheduler that runs what it made.                                       *)
(*                                                                         *)
(* A manifest is [subgates, profiles]: a function from subgate IDs to      *)
(*   [cpu, mem, requires, groups, profiles, registrations, found, safe]    *)
(* and one from the four profiles to sets of IDs.  Lists that must be      *)
(* canonical (sorted, no duplicates) are the sets they denote; found and   *)
(* safe say whether the executable resolves and whether the command vector *)
(* is free of shell evaluation.  A registry maps a registration to its     *)
(* producer.  generatePlan makes one plan or, on an error, none, so it is  *)
(* a set of at most one plan; a plan has one work unit, one shard and one  *)
(* expected report per subgate, so the three are one here.  The binding of *)
(* a plan to the registry is its digest, hence the registry itself.        *)
(***************************************************************************)
EXTENDS GateScheduler

CONSTANTS performanceCertificationSubgateID, cleanTreeFreshnessID

Profiles == {"complete", "consumer", "harness", "semantic"}

IsManifest(m) ==
    /\ DOMAIN m.subgates \subseteq Nat /\ IsFiniteSet(DOMAIN m.subgates)
    /\ \A id \in DOMAIN m.subgates :
          LET s == m.subgates[id]
          IN  /\ s.cpu \in Int /\ s.mem \in Int
              /\ s.requires \subseteq Nat /\ s.groups \subseteq Groups
              /\ s.profiles \subseteq Profiles
              /\ s.found \in BOOLEAN /\ s.safe \in BOOLEAN
    /\ m.profiles \in [Profiles -> SUBSET Nat]

------------------------------------------------------------------------------
(* Manifest.Validate. *)

validateSubgate(s) == s.cpu > 0 /\ s.mem > 0 /\ s.profiles # {}

\* Mutant of validateRegistrations: the producers need not be semantic.
OwnershipOnly(m, registry) ==
    /\ \A id \in DOMAIN m.subgates : \A r \in m.subgates[id].registrations :
          r \in DOMAIN registry /\ registry[r] = id
    /\ \A r \in DOMAIN registry :
          registry[r] \in DOMAIN m.subgates /\ r \in m.subgates[registry[r]].registrations

\* Every registration is required by its producer, by no other subgate, and
\* its producer belongs to the semantic profile.
validateRegistrations(m, registry) ==
    /\ \A id \in DOMAIN m.subgates : \A r \in m.subgates[id].registrations :
          r \in DOMAIN registry /\ registry[r] = id
    /\ \A r \in DOMAIN registry :
          /\ registry[r] \in DOMAIN m.subgates
          /\ r \in m.subgates[registry[r]].registrations
          /\ registry[r] \in m.profiles["semantic"]

validateDependencies(m) ==
    /\ \A id \in DOMAIN m.subgates :
          m.subgates[id].requires \subseteq DOMAIN m.subgates \ {id}
    /\ \A S \in SUBSET DOMAIN m.subgates :
          S # {} => \E id \in S : m.subgates[id].requires \cap S = {}

\* The profiles each subgate says it belongs to.
validateSubgateProfileMembership(m) ==
    \A id \in DOMAIN m.subgates :
       m.subgates[id].profiles = {q \in Profiles : id \in m.profiles[q]}

\* The four profiles.  A subgate of the harness alone is refused as well.
validateProfiles(m) ==
    LET of == m.profiles
    IN  /\ \A q \in Profiles : of[q] # {} /\ of[q] \subseteq DOMAIN m.subgates
        /\ of["complete"] = of["semantic"] \cup {cleanTreeFreshnessID}
        /\ cleanTreeFreshnessID \notin
              of["semantic"] \cup of["consumer"] \cup of["harness"]
        /\ of["consumer"] \subseteq of["harness"]
        /\ DOMAIN m.subgates \subseteq of["complete"] \cup of["consumer"]
        /\ validateSubgateProfileMembership(m)

ValidManifest(m, registry) ==
    /\ DOMAIN m.subgates # {}
    /\ \A id \in DOMAIN m.subgates : validateSubgate(m.subgates[id])
    /\ validateDependencies(m)
    /\ validateProfiles(m)
    /\ validateRegistrations(m, registry)

------------------------------------------------------------------------------
(***************************************************************************)
(* The budget.  An override is [explicit, env]: zero or a flag's value,    *)
(* and <<>> or the variable's value (one that is no positive integer is    *)
(* not positive here).  A host whose memory is unknown has mem = 0.        *)
(***************************************************************************)
conservativeMemoryFallback == 4
maximumPlanWorkers == 1024

overrideRefused(o) ==
    \/ o.explicit < 0
    \/ o.explicit = 0 /\ o.env # <<>> /\ o.env[1] <= 0

resolveOverride(o) ==
    IF o.explicit # 0 \/ o.env = <<>> THEN o.explicit ELSE o.env[1]

ValidResources(b) ==
    b.cpu > 0 /\ b.mem > 0 /\ b.workers > 0 /\ b.workers <= maximumPlanWorkers

discoverResourceBudget(o, host) ==
    LET or(value, default) == IF value # 0 THEN value ELSE default
        cpu == or(resolveOverride(o.cpu), IF host.cpu > 0 THEN host.cpu ELSE 1)
        mem == or(resolveOverride(o.mem),
                  IF host.mem > 0 THEN (host.mem * 3) \div 4
                  ELSE conservativeMemoryFallback)
        asked == or(resolveOverride(o.workers), cpu)
        budget == [cpu |-> cpu, mem |-> mem,
                   workers |-> IF asked < cpu THEN asked ELSE cpu]
    IN  {b \in {budget} : /\ \A k \in {"cpu", "mem", "workers"} : ~overrideRefused(o[k])
                          /\ ValidResources(b)}

------------------------------------------------------------------------------
(* generatePlan. *)

SubgatesForProfile(m, profile) == m.profiles[profile]

\* Mutant of plannedResourceReservation: no carve-out for the certification.
ReserveDeclared(m, id, budget) == m.subgates[id].cpu

\* The performance certification reserves every CPU of the budget.
plannedResourceReservation(m, id, budget) ==
    IF id = performanceCertificationSubgateID THEN budget.cpu ELSE m.subgates[id].cpu

executableDigest(s) == s.found

validateSafeCommandVector(s) == s.safe

MakePlan(m, registry, profile, budget) ==
    LET units == SubgatesForProfile(m, profile)
        of == m.subgates
    IN  [units |-> units,
         cpu |-> [u \in units |-> plannedResourceReservation(m, u, budget)],
         mem |-> [u \in units |-> of[u].mem],
         slots |-> [u \in units |-> 1],
         groups |-> [u \in units |-> of[u].groups],
         requires |-> [u \in units |-> of[u].requires],
         cpuBudget |-> budget.cpu, memBudget |-> budget.mem,
         maxWorkers |-> budget.workers,
         profile |-> profile, registry |-> registry]

generatePlan(m, registry, profile, budget) ==
    {p \in {MakePlan(m, registry, profile, budget)} :
       /\ ValidManifest(m, registry)
       /\ ValidResources(budget)
       /\ \A id \in SubgatesForProfile(m, profile) :
             LET s == m.subgates[id]
             IN  /\ s.cpu <= budget.cpu /\ s.mem <= budget.mem
                 /\ s.requires \subseteq SubgatesForProfile(m, profile)
                 /\ executableDigest(s) /\ validateSafeCommandVector(s)}

------------------------------------------------------------------------------
(* Properties. *)

\* While the performance certification runs nothing else does, whatever the
\* order of admissions and completions: the planner reserves every CPU for
\* it, so that its thresholds are measured "without local contention".
CertificationRunsAlone ==
    performanceCertificationSubgateID \in Active =>
       Active = {performanceCertificationSubgateID}

\* When a semantic or complete plan is accepted, the producer of every
\* registered piece of evidence has passed, and the complete profile has
\* checked the freshness of the clean tree: nothing that the registry asks
\* for can be left out by the selection of a profile.
SuccessCoversRegistry ==
    result.status = "ok" =>
       /\ plan.profile \in {"complete", "semantic"} =>
             \A r \in DOMAIN plan.registry : plan.registry[r] \in completed
       /\ plan.profile = "complete" => cleanTreeFreshnessID \in completed
=============================================================================
