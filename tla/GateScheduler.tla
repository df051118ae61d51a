--------------------------- MODULE GateScheduler ----------------------------
(***************************************************************************)
(* The resource-aware work-unit scheduler of the soundness gate:           *)
(* schedulePlan and schedulerState of internal/soundnessgate/scheduler.go, *)
(* with the worker closure runPlanParallel hands to it.                    *)
(*                                                                         *)
(* The scheduler is one goroutine; every admitted work unit is another.    *)
(* They share a context (cancelled by the scheduler's fail-fast, or by the *)
(* caller) and a completion channel.  The channel has room for every unit, *)
(* so a send never blocks; because nothing orders two workers between      *)
(* their last context check and their send, the channel is a set here.     *)
(***************************************************************************)
EXTENDS Integers, FiniteSets

CONSTANTS Plans,     \* the execution plans a caller may pass
          Groups     \* the exclusivity group identifiers

(***************************************************************************)
(* A plan: its work units (naturals, in the lexical order of their IDs),   *)
(* what each reserves, the exclusivity groups it holds, what it requires,  *)
(* and the budget.  A dependency may name a unit that does not exist.      *)
(***************************************************************************)
IsPlan(p) ==
    /\ p.units \subseteq Nat
    /\ IsFiniteSet(p.units)
    /\ p.cpu \in [p.units -> Int]
    /\ p.mem \in [p.units -> Int]
    /\ p.slots \in [p.units -> Int]
    /\ p.groups \in [p.units -> SUBSET Groups]
    /\ p.requires \in [p.units -> SUBSET Nat]
    /\ p.cpuBudget \in Int
    /\ p.memBudget \in Int
    /\ p.maxWorkers \in Int

ASSUME PlansAssumption == \A p \in Plans : IsPlan(p)

VARIABLES
    plan,              \* the immutable execution plan
    pc,                \* where the scheduler goroutine is
    pass,              \* pending units the admission pass has yet to examine
    pending,           \* units not launched yet
    completed,         \* units whose completion carried no error
    availableCPU, availableMemory, running, exclusive,   \* schedulerState
    workers,           \* units whose goroutine runs
    channel,           \* completions sent and not received
    results,           \* completions received
    directFailures,    \* units whose failure is their own
    internalFailure,   \* the scheduler has begun to fail fast
    launched,          \* the current pass launched a unit
    cancel,            \* cause of the context: "none", "failfast", "external"
    result             \* what schedulePlan returned

vars == <<plan, pc, pass, pending, completed, availableCPU, availableMemory,
          running, exclusive, workers, channel, results, directFailures,
          internalFailure, launched, cancel, result>>

schedulerState == <<availableCPU, availableMemory, running, exclusive>>

Outcomes == {"ok", "failed", "timeout", "canceled"}

Completions == [unit : plan.units, err : Outcomes]

Units(completions) == {c.unit : c \in completions}

\* Units that hold a reservation: launched and not yet received.
Active == workers \cup Units(channel)

------------------------------------------------------------------------------
(***************************************************************************)
(* ExecutionPlan.Validate, as far as the scheduler depends on it.          *)
(***************************************************************************)

ValidBudget(p) == p.cpuBudget > 0 /\ p.memBudget > 0 /\ p.maxWorkers > 0

ValidCommands(p) ==
    /\ p.units # {}
    /\ \A u \in p.units :
         /\ p.cpu[u] > 0 /\ p.mem[u] > 0 /\ p.slots[u] > 0
         /\ p.cpu[u] <= p.cpuBudget
         /\ p.mem[u] <= p.memBudget
         /\ p.slots[u] <= p.maxWorkers

\* No dependency cycle: every set of units has one that requires none of it.
Acyclic(p) ==
    \A S \in SUBSET p.units :
       S # {} => \E u \in S : p.requires[u] \cap S = {}

ValidDependencies(p) ==
    /\ \A u \in p.units : p.requires[u] \subseteq p.units \ {u}
    /\ Acyclic(p)

Valid(p) == ValidBudget(p) /\ ValidCommands(p) /\ ValidDependencies(p)

------------------------------------------------------------------------------
(***************************************************************************)
(* schedulerState.                                                         *)
(***************************************************************************)

\* compareSchedulerPriority: u is examined before v.
Before(u, v) ==
    \/ plan.cpu[u] > plan.cpu[v]
    \/ plan.cpu[u] = plan.cpu[v] /\ plan.mem[u] > plan.mem[v]
    \/ plan.cpu[u] = plan.cpu[v] /\ plan.mem[u] = plan.mem[v] /\ u < v

\* Mutant of dependenciesComplete: dependencies are not waited for.
IgnoreDependencies(u) == TRUE

dependenciesComplete(u) == plan.requires[u] \subseteq completed

\* Mutant of canAdmit: one worker too many.
AdmitOneTooMany(u) ==
    /\ running <= plan.maxWorkers
    /\ plan.cpu[u] <= availableCPU
    /\ plan.mem[u] <= availableMemory
    /\ plan.groups[u] \cap exclusive = {}

canAdmit(u) ==
    /\ running < plan.maxWorkers
    /\ plan.cpu[u] <= availableCPU
    /\ plan.mem[u] <= availableMemory
    /\ plan.groups[u] \cap exclusive = {}

reserve(u) ==
    /\ availableCPU' = availableCPU - plan.cpu[u]
    /\ availableMemory' = availableMemory - plan.mem[u]
    /\ running' = running + 1
    /\ exclusive' = exclusive \cup plan.groups[u]

\* Mutants of release: memory is not given back; the counter is not.
ReleaseLeakingMemory(u) ==
    /\ availableCPU' = availableCPU + plan.cpu[u]
    /\ running' = running - 1
    /\ exclusive' = exclusive \ plan.groups[u]
    /\ UNCHANGED availableMemory

ReleaseLeakingWorker(u) ==
    /\ availableCPU' = availableCPU + plan.cpu[u]
    /\ availableMemory' = availableMemory + plan.mem[u]
    /\ exclusive' = exclusive \ plan.groups[u]
    /\ UNCHANGED running

release(u) ==
    /\ availableCPU' = availableCPU + plan.cpu[u]
    /\ availableMemory' = availableMemory + plan.mem[u]
    /\ running' = running - 1
    /\ exclusive' = exclusive \ plan.groups[u]

------------------------------------------------------------------------------
(***************************************************************************)
(* The specification.                                                      *)
(***************************************************************************)

NoResult == [status |-> "none", unit |-> 0]

Results == [status : {"none", "invalid", "ended", "stuck", "failed",
                      "incomplete", "ok"}, unit : Nat]

Init ==
    /\ plan \in Plans
    /\ pc = "validate"
    /\ pass = {} /\ pending = {} /\ completed = {}
    /\ availableCPU = 0 /\ availableMemory = 0
    /\ running = 0 /\ exclusive = {}
    /\ workers = {} /\ channel = {} /\ results = {}
    /\ directFailures = {}
    /\ internalFailure = FALSE
    /\ launched = FALSE
    /\ cancel = "none"
    /\ result = NoResult

Return(status, unit) ==
    /\ pc' = "returned"
    /\ result' = [status |-> status, unit |-> unit]

\* Lines 48-73: the plan is validated, then the scheduler's state is built.
Validate ==
    /\ pc = "validate"
    /\ IF Valid(plan)
       THEN /\ pc' = "loop"
            /\ pending' = plan.units
            /\ availableCPU' = plan.cpuBudget
            /\ availableMemory' = plan.memBudget
            /\ UNCHANGED result
       ELSE /\ Return("invalid", 0)
            /\ UNCHANGED <<pending, availableCPU, availableMemory>>
    /\ UNCHANGED <<plan, pass, completed, running, exclusive, workers, channel,
                   results, directFailures, internalFailure, launched, cancel>>

\* Mutant of LoopTop: a loop that ends with the pending units although workers
\* still run.
LoopWhilePending ==
    /\ pc = "loop"
    /\ launched' = FALSE
    /\ IF pending = {}
       THEN pc' = "finish" /\ pass' = {}
       ELSE IF ~internalFailure /\ cancel = "none"
       THEN pc' = "admit" /\ pass' = pending
       ELSE pc' = "settle" /\ pass' = {}
    /\ UNCHANGED <<plan, pending, completed, schedulerState, workers, channel,
                   results, directFailures, internalFailure, cancel, result>>

\* Lines 74-76: the loop condition and the one read of the context that
\* decides whether this iteration admits work.
LoopTop ==
    /\ pc = "loop"
    /\ launched' = FALSE
    /\ IF pending = {} /\ running = 0
       THEN pc' = "finish" /\ pass' = {}
       ELSE IF ~internalFailure /\ cancel = "none"
       THEN pc' = "admit" /\ pass' = pending
       ELSE pc' = "settle" /\ pass' = {}
    /\ UNCHANGED <<plan, pending, completed, schedulerState, workers, channel,
                   results, directFailures, internalFailure, cancel, result>>

\* Lines 77-95: one pending command of the pass, in priority order, is
\* launched when it is ready and fits, and skipped otherwise.
AdmitOne(u) ==
    /\ pc = "admit"
    /\ u \in pass
    /\ \A v \in pass \ {u} : Before(u, v)
    /\ pass' = pass \ {u}
    /\ IF dependenciesComplete(u) /\ canAdmit(u)
       THEN /\ pending' = pending \ {u}
            /\ reserve(u)
            /\ launched' = TRUE
            /\ workers' = workers \cup {u}
       ELSE UNCHANGED <<pending, schedulerState, launched, workers>>
    /\ UNCHANGED <<plan, pc, completed, channel, results, directFailures,
                   internalFailure, cancel, result>>

PassDone ==
    /\ pc = "admit" /\ pass = {}
    /\ pc' = "settle"
    /\ UNCHANGED <<plan, pass, pending, completed, schedulerState, workers,
                   channel, results, directFailures, internalFailure, launched,
                   cancel, result>>

\* Lines 97-108: nothing runs, so there is nothing to wait for.
SettleIdle ==
    /\ pc = "settle" /\ running = 0
    /\ CASE internalFailure -> pc' = "finish" /\ UNCHANGED result
         [] ~internalFailure /\ cancel # "none" -> Return("ended", 0)
         [] ~internalFailure /\ cancel = "none" /\ pending # {} /\ ~launched ->
              Return("stuck", 0)
         [] OTHER -> pc' = "loop" /\ UNCHANGED result
    /\ UNCHANGED <<plan, pass, pending, completed, schedulerState, workers,
                   channel, results, directFailures, internalFailure, launched,
                   cancel>>

\* Mutant of cancellationFallout: every error is a direct failure.
NoFallout(c) == FALSE

\* Lines 117-118: an error the scheduler's own cancellation caused.
cancellationFallout(c) == internalFailure /\ c.err = "canceled"

\* Lines 109-129: one completion is received.
Receive(c) ==
    /\ pc = "settle" /\ running # 0
    /\ c \in channel
    /\ channel' = channel \ {c}
    /\ release(c.unit)
    /\ results' = results \cup {c}
    /\ IF c.err = "ok"
       THEN /\ completed' = completed \cup {c.unit}
            /\ UNCHANGED <<directFailures, internalFailure, cancel>>
       ELSE /\ directFailures' = IF cancellationFallout(c) THEN directFailures
                                 ELSE directFailures \cup {c.unit}
            /\ IF ~internalFailure /\ cancel = "none"
               THEN internalFailure' = TRUE /\ cancel' = "failfast"
               ELSE UNCHANGED <<internalFailure, cancel>>
            /\ UNCHANGED completed
    /\ pc' = "loop"
    /\ UNCHANGED <<plan, pass, pending, workers, launched, result>>

\* Lines 134-149: the verdict.
Finish ==
    /\ pc = "finish"
    /\ IF directFailures # {}
       THEN \E u \in directFailures :
               /\ \A v \in directFailures : u <= v
               /\ Return("failed", u)
       ELSE IF cancel # "none" THEN Return("ended", 0)
       ELSE IF completed # plan.units THEN Return("incomplete", 0)
       ELSE Return("ok", 0)
    /\ UNCHANGED <<plan, pass, pending, completed, schedulerState, workers,
                   channel, results, directFailures, internalFailure, launched,
                   cancel>>

(***************************************************************************)
(* The goroutine of one admitted unit (scheduler.go 88-94 with the closure *)
(* of parallel_runner.go 127-178).  The closure reads the command context  *)
(* after the command ended, so work that succeeded is reported "canceled"  *)
(* when the context ended first; an expired deadline is "timeout"; every   *)
(* other refusal (exit status, report, census) is "failed".                *)
(***************************************************************************)
Work(u, err) ==
    /\ u \in workers
    /\ err = "canceled" => cancel # "none"
    /\ workers' = workers \ {u}
    /\ channel' = channel \cup {[unit |-> u, err |-> err]}
    /\ UNCHANGED <<plan, pc, pass, pending, completed, schedulerState, results,
                   directFailures, internalFailure, launched, cancel, result>>

\* The caller's context ends (an interrupt); the first cause is the one kept.
CancelExternally ==
    /\ pc # "returned"
    /\ cancel = "none"
    /\ cancel' = "external"
    /\ UNCHANGED <<plan, pc, pass, pending, completed, schedulerState, workers,
                   channel, results, directFailures, internalFailure, launched,
                   result>>

Scheduler ==
    \/ Validate
    \/ LoopTop
    \/ \E u \in plan.units : AdmitOne(u)
    \/ PassDone
    \/ SettleIdle
    \/ \E c \in channel : Receive(c)
    \/ Finish

Worker(u) == \E err \in Outcomes : Work(u, err)

Next ==
    \/ Scheduler
    \/ \E u \in plan.units : Worker(u)
    \/ CancelExternally

Spec == Init /\ [][Next]_vars

(***************************************************************************)
(* Fairness: the scheduler goroutine runs while it can, and a worker ends: *)
(* every command has a positive timeout and a wait delay after the kill.   *)
(***************************************************************************)
FairSpec ==
    /\ Spec
    /\ WF_vars(Scheduler)
    /\ \A u \in UNION {p.units : p \in Plans} : WF_vars(Worker(u))

------------------------------------------------------------------------------
(***************************************************************************)
(* Properties.                                                             *)
(***************************************************************************)

\* The variables keep their types.
TypeOK ==
    /\ plan \in Plans
    /\ pc \in {"validate", "loop", "admit", "settle", "finish", "returned"}
    /\ pending \subseteq plan.units
    /\ pass \subseteq pending
    /\ completed \subseteq plan.units
    /\ availableCPU \in Int /\ availableMemory \in Int /\ running \in Int
    /\ exclusive \subseteq Groups
    /\ workers \subseteq plan.units
    /\ channel \subseteq Completions
    /\ results \subseteq Completions
    /\ directFailures \subseteq plan.units
    /\ internalFailure \in BOOLEAN /\ launched \in BOOLEAN
    /\ cancel \in {"none", "failfast", "external"}
    /\ result \in Results

\* One token per unit of a resource that the work units in S reserve.
Reserved(amount, S) == UNION {{u} \X (1..amount[u]) : u \in S}

\* The counters of schedulerState, adjusted on every launch and on every
\* completion in whatever order completions arrive, never let the units that
\* run together exceed the CPU, the memory or the worker budget of the plan.
ReservationsWithinBudget ==
    pc # "validate" /\ Active # {} =>
       /\ Cardinality(Reserved(plan.cpu, Active)) <= plan.cpuBudget
       /\ Cardinality(Reserved(plan.mem, Active)) <= plan.memBudget
       /\ Cardinality(Active) <= plan.maxWorkers

\* Two units that share an exclusivity group never run together, although
\* release deletes a group without looking for another holder.
GroupsAreExclusive ==
    \A u, v \in Active : u # v => plan.groups[u] \cap plan.groups[v] = {}

\* Nothing is overcommitted, in whatever order completions arrive: neither the
\* budgets of the plan nor an exclusivity group.
NothingOvercommitted == ReservationsWithinBudget /\ GroupsAreExclusive

\* When the scheduler blocks on the channel after a pass, no pending unit could
\* still be started: one pass in priority order leaves no admissible work idle.
WorkConserving ==
    pc = "settle" /\ ~internalFailure /\ cancel = "none" =>
       ~ \E u \in pending : dependenciesComplete(u) /\ canAdmit(u)

\* "cannot admit any remaining dependency-ready work unit" and "completed n of
\* m required work units" are never returned: a validated plan cannot stall.
NeverStuck == result.status \notin {"stuck", "incomplete"}

\* schedulePlan keeps moving: it waits only when nothing can be started, and the
\* wait is never for nothing.
KeepsMoving == WorkConserving /\ NeverStuck

\* When the caller did not cancel, the unit an error names failed by itself;
\* a unit the fail-fast cancelled is never blamed, whichever arrives first.
BlameIsGenuine ==
    result.status = "failed" /\ cancel # "external" =>
       \E c \in results : c.unit = result.unit /\ c.err \in {"failed", "timeout"}

\* No goroutine of the run outlives schedulePlan, on any return path: the
\* caller then removes the evidence directory they write to.
NoOrphanWorker == pc = "returned" => Active = {}

\* schedulePlan returns, whatever fails and whoever cancels.
EventuallyReturns == <>(pc = "returned")

(***************************************************************************)
(* Refinement of GateContract: a unit passes when its error-free           *)
(* completion is received, and only status "ok" accepts the run.           *)
(***************************************************************************)
ContractOf(p) == [units |-> p.units, requires |-> p.requires]

Verdict ==
    CASE result.status = "none" -> "open"
      [] result.status = "ok"   -> "accepted"
      [] OTHER                  -> "rejected"

Contract == INSTANCE GateContract WITH
                Contracts <- {ContractOf(p) : p \in Plans},
                contract  <- ContractOf(plan),
                passed    <- completed,
                verdict   <- Verdict

\* Every behaviour of the scheduler is one the gate's contract allows.
ImplementsContract == Contract!Spec
=============================================================================
