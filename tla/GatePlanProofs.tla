--------------------------- MODULE GatePlanProofs ---------------------------
(***************************************************************************)
(* Proofs about GateScheduler, for every set of plans; then what           *)
(* generatePlan guarantees of every plan it makes, and what follows for    *)
(* the scheduler that runs such plans.                                     *)
(***************************************************************************)
EXTENDS GatePlan, FiniteSetTheorems, TLAPS

Started == pc # "validate" /\ result.status # "invalid"

\* Where a unit is: not launched, running, in the channel, or received.
Placement ==
    /\ pending \cap Active = {}
    /\ pending \cap Units(results) = {}
    /\ workers \cap Units(channel) = {}
    /\ Active \cap Units(results) = {}
    /\ \A c, d \in channel : c.unit = d.unit => c = d
    /\ Started => plan.units = pending \cup Active \cup Units(results)
    /\ ~Started => pending = {} /\ Active = {} /\ results = {}
    /\ Started => Valid(plan)
    /\ (pc = "returned") = (result.status # "none")

\* The counters of schedulerState describe the active units.
Accounting ==
    /\ IsFiniteSet(Reserved(plan.cpu, Active))
    /\ IsFiniteSet(Reserved(plan.mem, Active))
    /\ IsFiniteSet(Active)
    /\ running = Cardinality(Active)
    /\ Started => availableCPU = plan.cpuBudget - Cardinality(Reserved(plan.cpu, Active))
    /\ Started => availableMemory = plan.memBudget - Cardinality(Reserved(plan.mem, Active))
    /\ Started => availableCPU >= 0 /\ availableMemory >= 0
    /\ Started => running <= plan.maxWorkers

\* The held groups are exactly those of the active units.
Holding ==
    /\ exclusive = UNION {plan.groups[u] : u \in Active}
    /\ GroupsAreExclusive

\* What the received and the travelling completions say.
Outcome ==
    /\ completed = {c.unit : c \in {d \in results : d.err = "ok"}}
    /\ \A u \in Active : plan.requires[u] \subseteq completed
    /\ internalFailure = (cancel = "failfast")
    /\ cancel = "none" => directFailures = {} /\ \A c \in results : c.err = "ok"
    /\ \A c \in channel : c.err = "canceled" => cancel # "none"
    /\ cancel # "external" =>
         \A u \in directFailures :
            \E c \in results : c.unit = u /\ c.err \in {"failed", "timeout"}
    /\ BlameIsGenuine

\* What a finished pass, and a finished run, have established.
PassResult ==
    /\ pc = "admit" =>
         \A u \in pending \ pass : ~(dependenciesComplete(u) /\ canAdmit(u))
    /\ WorkConserving
    /\ pc = "finish" => Active = {} /\ (internalFailure \/ pending = {})
    /\ pc = "finish" => Started
    /\ NoOrphanWorker
    /\ NeverStuck

IInv == TypeOK /\ Placement /\ Accounting /\ Holding /\ Outcome /\ PassResult

------------------------------------------------------------------------------
(***************************************************************************)
(* Counting reservations.                                                  *)
(***************************************************************************)

\* A unit that reserves n has n tokens.
LEMMA TokenCount ==
    ASSUME NEW n \in Nat PROVE IsFiniteSet(1..n) /\ Cardinality(1..n) = n
<1>1. /\ IsFiniteSet(1..n)
      /\ Cardinality(1..n) = IF 1 > n THEN 0 ELSE n - 1 + 1
  BY FS_Interval
<1> QED  BY <1>1

\* Launching u adds exactly its reservation to what is reserved.
LEMMA ReservedAdd ==
    ASSUME NEW amount, NEW S, NEW u, u \notin S, amount[u] \in Nat,
           IsFiniteSet(Reserved(amount, S))
    PROVE  /\ IsFiniteSet(Reserved(amount, S \cup {u}))
           /\ Cardinality(Reserved(amount, S \cup {u})) =
                 Cardinality(Reserved(amount, S)) + amount[u]
<1> DEFINE T == {u} \X (1..amount[u])
<1>1. Reserved(amount, S \cup {u}) = Reserved(amount, S) \cup T
  BY DEF Reserved
<1>2. Reserved(amount, S) \cap T = {}
  BY DEF Reserved
<1>3. IsFiniteSet(T) /\ Cardinality(T) = amount[u]
  <2>1. IsFiniteSet(1..amount[u]) /\ Cardinality(1..amount[u]) = amount[u]
    BY TokenCount
  <2>2. IsFiniteSet({u}) /\ Cardinality({u}) = 1
    BY FS_Singleton
  <2>3. IsFiniteSet(T) /\ Cardinality(T) = Cardinality({u}) * Cardinality(1..amount[u])
    BY <2>1, <2>2, FS_Product
  <2> QED  BY <2>1, <2>2, <2>3
<1>4. Cardinality(Reserved(amount, S)) \in Nat
  BY FS_CardinalityType
<1>5. Cardinality({}) = 0
  BY FS_EmptySet
<1> HIDE DEF T
<1>6. /\ IsFiniteSet(Reserved(amount, S) \cup T)
      /\ Cardinality(Reserved(amount, S) \cup T) =
            Cardinality(Reserved(amount, S)) + Cardinality(T)
              - Cardinality(Reserved(amount, S) \cap T)
  BY <1>3, FS_Union
<1>7. Cardinality(Reserved(amount, S) \cap T) = 0
  BY <1>2, <1>5
<1>8. Cardinality(Reserved(amount, S) \cup T) = Cardinality(Reserved(amount, S)) + amount[u]
  BY <1>3, <1>4, <1>6, <1>7
<1> QED  BY <1>1, <1>6, <1>8

\* Receiving the completion of u takes exactly its reservation away.
LEMMA ReservedRemove ==
    ASSUME NEW amount, NEW S, NEW u \in S, amount[u] \in Nat,
           IsFiniteSet(Reserved(amount, S))
    PROVE  /\ IsFiniteSet(Reserved(amount, S \ {u}))
           /\ Cardinality(Reserved(amount, S \ {u})) =
                 Cardinality(Reserved(amount, S)) - amount[u]
           /\ Cardinality(Reserved(amount, S \ {u})) \in Nat
<1> DEFINE R == S \ {u}
<1>1. R \cup {u} = S /\ u \notin R
  OBVIOUS
<1>2. Reserved(amount, R) \in SUBSET Reserved(amount, S)
  BY DEF Reserved
<1>3. IsFiniteSet(Reserved(amount, R))
  BY <1>2, FS_Subset
<1> HIDE DEF R
<1>4. Cardinality(Reserved(amount, S)) = Cardinality(Reserved(amount, R)) + amount[u]
  BY <1>1, <1>3, ReservedAdd
<1>5. Cardinality(Reserved(amount, R)) \in Nat
  BY <1>3, FS_CardinalityType
<1> QED  BY <1>3, <1>4, <1>5 DEF R

------------------------------------------------------------------------------
(***************************************************************************)
(* Initial states.                                                         *)
(***************************************************************************)

\* Every initial state satisfies the inductive invariant.
LEMMA InitIInv == Init => IInv
<1> SUFFICES ASSUME Init PROVE IInv
  OBVIOUS
<1> USE DEF Init
<1>1. TypeOK
  <2>1. result \in Results
    BY DEF NoResult, Results
  <2>2. internalFailure \in BOOLEAN /\ launched \in BOOLEAN
    OBVIOUS
  <2> QED  BY <2>1, <2>2 DEF TypeOK
<1>2. Active = {} /\ Units(results) = {} /\ ~Started
  BY DEF Active, Units, Started
<1>3. Placement
  BY <1>2 DEF Placement, Units, NoResult
<1>4. Accounting
  <2>1. Reserved(plan.cpu, {}) = {} /\ Reserved(plan.mem, {}) = {}
    BY DEF Reserved
  <2>2. IsFiniteSet({}) /\ Cardinality({}) = 0
    BY FS_EmptySet
  <2> QED  BY <1>2, <2>1, <2>2 DEF Accounting
<1>5. Holding
  BY <1>2 DEF Holding, GroupsAreExclusive
<1>6. Outcome
  BY <1>2 DEF Outcome, BlameIsGenuine, NoResult
<1>7. PassResult
  BY <1>2 DEF PassResult, WorkConserving, NoOrphanWorker, NeverStuck, NoResult
<1> QED  BY <1>1, <1>3, <1>4, <1>5, <1>6, <1>7 DEF IInv

------------------------------------------------------------------------------
(***************************************************************************)
(* Types and places.                                                       *)
(***************************************************************************)

\* Every step of the scheduler, of a worker or of the caller keeps the types.
LEMMA TypeStep == TypeOK /\ [Next]_vars => TypeOK'
<1> SUFFICES ASSUME TypeOK, [Next]_vars PROVE TypeOK'
  OBVIOUS
<1>0. IsPlan(plan)
  BY PlansAssumption DEF TypeOK
<1> USE DEF TypeOK, Completions, Outcomes
<1>1. CASE Validate
  BY <1>0, <1>1 DEF Validate, Return, Results, Valid, ValidBudget, IsPlan
<1>2. CASE LoopTop
  BY <1>2 DEF LoopTop, schedulerState
<1>3. ASSUME NEW u \in plan.units, AdmitOne(u) PROVE TypeOK'
  <2>1. CASE dependenciesComplete(u) /\ canAdmit(u)
    <3>1. /\ availableCPU' \in Int /\ availableMemory' \in Int
          /\ running' \in Int /\ exclusive' \subseteq Groups
      BY <1>0, <1>3, <2>1 DEF AdmitOne, reserve, IsPlan
    <3>2. launched' \in BOOLEAN
      BY <1>3, <2>1 DEF AdmitOne
    <3> QED  BY <1>3, <2>1, <3>1, <3>2 DEF AdmitOne
  <2>2. CASE ~(dependenciesComplete(u) /\ canAdmit(u))
    BY <1>3, <2>2 DEF AdmitOne, schedulerState
  <2> QED  BY <2>1, <2>2
<1>4. CASE PassDone
  BY <1>4 DEF PassDone, schedulerState
<1>5. CASE SettleIdle
  <2>1. pc' \in {"finish", "returned", "loop"} /\ result' \in Results
    BY <1>5 DEF SettleIdle, Return, Results
  <2> QED  BY <1>5, <2>1 DEF SettleIdle, schedulerState
<1>6. ASSUME NEW c \in channel, Receive(c) PROVE TypeOK'
  <2>1. c.unit \in plan.units
    BY <1>6
  <2>2. /\ availableCPU' \in Int /\ availableMemory' \in Int
        /\ running' \in Int /\ exclusive' \subseteq Groups
    BY <1>0, <1>6, <2>1 DEF Receive, release, IsPlan
  <2> QED  BY <1>6, <2>1, <2>2 DEF Receive
<1>7. CASE Finish
  <2>1. pc' = "returned" /\ result' \in Results
    BY <1>0, <1>7 DEF Finish, Return, Results, IsPlan
  <2> QED  BY <1>7, <2>1 DEF Finish, schedulerState
<1>8. ASSUME NEW u \in plan.units, NEW err \in Outcomes, Work(u, err) PROVE TypeOK'
  BY <1>8 DEF Work, schedulerState
<1>9. CASE CancelExternally
  BY <1>9 DEF CancelExternally, schedulerState
<1>10. CASE UNCHANGED vars
  BY <1>10 DEF vars
<1> QED  BY <1>1, <1>2, <1>3, <1>4, <1>5, <1>6, <1>7, <1>8, <1>9, <1>10
         DEF Next, Scheduler, Worker

\* A worker's send moves its unit inside the active set.
LEMMA WorkKeepsActive ==
    ASSUME NEW u, NEW err, Work(u, err)
    PROVE  Active' = Active /\ Units(channel') = Units(channel) \cup {u}
<1>1. Units(channel') = Units(channel) \cup {u}
  <2>1. channel' = channel \cup {[unit |-> u, err |-> err]}
    BY DEF Work
  <2>2. [unit |-> u, err |-> err].unit = u
    OBVIOUS
  <2> QED  BY <2>1, <2>2 DEF Units
<1>2. workers' = workers \ {u} /\ u \in workers
  BY DEF Work
<1> QED  BY <1>1, <1>2 DEF Active

\* Receiving a completion takes its unit out of the active set for good.
LEMMA ReceiveMovesUnit ==
    ASSUME TypeOK, Placement, NEW c \in channel, Receive(c)
    PROVE  /\ c.unit \in Active
           /\ c.unit \in plan.units
           /\ Active' = Active \ {c.unit}
           /\ Units(results') = Units(results) \cup {c.unit}
<1>1. c.unit \in Units(channel) /\ c.unit \in plan.units
  BY DEF Units, TypeOK, Completions
<1>2. channel' = channel \ {c} /\ results' = results \cup {c} /\ workers' = workers
  BY DEF Receive
<1>3. Units(channel') = Units(channel) \ {c.unit}
  BY <1>2 DEF Units, Placement
<1>4. c.unit \notin workers
  BY <1>1 DEF Placement
<1>5. Units(results') = Units(results) \cup {c.unit}
  BY <1>2 DEF Units
<1> QED  BY <1>1, <1>2, <1>3, <1>4, <1>5 DEF Active

\* Launching a unit moves it from the pending to the active units.
LEMMA AdmitMovesUnit ==
    ASSUME TypeOK, NEW u, AdmitOne(u), dependenciesComplete(u), canAdmit(u)
    PROVE  /\ u \in pending /\ u \in plan.units
           /\ pending' = pending \ {u}
           /\ Active' = Active \cup {u}
           /\ UNCHANGED <<plan, pc, completed, channel, results, directFailures,
                          internalFailure, cancel, result>>
           /\ reserve(u)
           /\ pass' = pass \ {u}
<1>1. /\ u \in pass /\ pass' = pass \ {u} /\ pending' = pending \ {u}
      /\ workers' = workers \cup {u} /\ reserve(u)
      /\ UNCHANGED <<plan, pc, completed, channel, results, directFailures,
                     internalFailure, cancel, result>>
  BY DEF AdmitOne
<1> QED  BY <1>1 DEF TypeOK, Active

\* A unit the pass skips changes nothing but the pass.
LEMMA SkipKeepsAll ==
    ASSUME NEW u, AdmitOne(u), ~(dependenciesComplete(u) /\ canAdmit(u))
    PROVE  /\ pc = "admit" /\ pass' = pass \ {u}
           /\ UNCHANGED <<plan, pc, pending, completed, availableCPU,
                availableMemory, running, exclusive, workers, channel, results,
                directFailures, internalFailure, launched, cancel, result>>
BY DEF AdmitOne, schedulerState

\* Every step keeps each unit in exactly one place.
LEMMA PlacementStep == TypeOK /\ Placement /\ [Next]_vars => Placement'
<1> SUFFICES ASSUME TypeOK, Placement, [Next]_vars PROVE Placement'
  OBVIOUS
<1> DEFINE Places == UNCHANGED <<plan, pending, workers, channel, results>>
<1>0. ASSUME Places, Started' = Started, (pc' = "returned") = (result'.status # "none")
      PROVE  Placement'
  <2>1. Active' = Active /\ Units(results)' = Units(results) /\ Units(channel)' = Units(channel)
    BY <1>0 DEF Active, Units
  <2>2. Valid(plan)' = Valid(plan)
    BY <1>0 DEF Valid, ValidBudget, ValidCommands, ValidDependencies, Acyclic
  <2> QED  BY <1>0, <2>1, <2>2 DEF Placement
<1>1. CASE Validate
  <2>1. Active' = Active /\ Units(results)' = Units(results) /\ Units(channel)' = Units(channel)
    BY <1>1 DEF Validate, Active, Units
  <2>2. ~Started /\ result.status = "none"
    BY <1>1 DEF Validate, Started, Placement
  <2>3. pending = {} /\ Active = {} /\ results = {}
    BY <2>2 DEF Placement
  <2>4. Units(results) = {} /\ channel' = channel /\ workers' = workers /\ results' = results
    BY <1>1, <2>3 DEF Units, Validate
  <2>5. CASE Valid(plan)
    <3>1. plan' = plan /\ pending' = plan.units /\ pc' = "loop" /\ result' = result
      BY <1>1, <2>5 DEF Validate
    <3>2. Valid(plan)'
      BY <2>5, <3>1 DEF Valid, ValidBudget, ValidCommands, ValidDependencies, Acyclic
    <3>3. Started'
      BY <2>2, <3>1 DEF Started
    <3> QED  BY <2>1, <2>2, <2>3, <2>4, <3>1, <3>2, <3>3 DEF Placement
  <2>6. CASE ~Valid(plan)
    <3>1. pending' = pending /\ pc' = "returned" /\ result'.status = "invalid"
      BY <1>1, <2>6 DEF Validate, Return
    <3>2. ~Started'
      BY <3>1 DEF Started
    <3> QED  BY <2>1, <2>2, <2>3, <2>4, <3>1, <3>2 DEF Placement
  <2> QED  BY <2>5, <2>6
<1>2. CASE LoopTop
  BY <1>0, <1>2 DEF LoopTop, Started, Placement
<1>3. ASSUME NEW u \in plan.units, AdmitOne(u) PROVE Placement'
  <2>1. CASE dependenciesComplete(u) /\ canAdmit(u)
    <3>1. /\ u \in pending /\ pending' = pending \ {u} /\ Active' = Active \cup {u}
          /\ UNCHANGED <<plan, pc, channel, results, result>>
      BY <1>3, <2>1, AdmitMovesUnit
    <3>2. workers' = workers \cup {u}
      BY <1>3, <2>1 DEF AdmitOne
    <3>3. Units(results)' = Units(results) /\ Units(channel)' = Units(channel)
      BY <3>1 DEF Units
    <3>4. u \notin Units(channel) /\ u \notin Units(results)
      BY <3>1 DEF Placement, Active
    <3>5. Started' = Started /\ Valid(plan)' = Valid(plan)
      BY <3>1 DEF Started, Valid, ValidBudget, ValidCommands, ValidDependencies, Acyclic
    <3> QED  BY <3>1, <3>2, <3>3, <3>4, <3>5 DEF Placement
  <2>2. CASE ~(dependenciesComplete(u) /\ canAdmit(u))
    BY <1>0, <1>3, <2>2, SkipKeepsAll DEF Started, Placement
  <2> QED  BY <2>1, <2>2
<1>4. CASE PassDone
  BY <1>0, <1>4 DEF PassDone, Started, Placement
<1>5. CASE SettleIdle
  <2>1. /\ pc' \in {"finish", "returned", "loop"} /\ result'.status # "invalid"
        /\ (pc' = "returned") = (result'.status # "none")
    BY <1>5 DEF SettleIdle, Return, Placement
  <2> QED  BY <1>0, <1>5, <2>1 DEF SettleIdle, Started, Placement
<1>6. ASSUME NEW c \in channel, Receive(c) PROVE Placement'
  <2>1. /\ c.unit \in Active /\ Active' = Active \ {c.unit}
        /\ Units(results)' = Units(results) \cup {c.unit}
    BY <1>6, ReceiveMovesUnit
  <2>2. /\ channel' = channel \ {c} /\ workers' = workers /\ pending' = pending
        /\ plan' = plan /\ result' = result /\ pc = "settle" /\ pc' = "loop"
    BY <1>6 DEF Receive
  <2>3. Units(channel)' \subseteq Units(channel)
    BY <2>2 DEF Units
  <2>4. Started' = Started /\ Valid(plan)' = Valid(plan) /\ Started
    BY <2>2 DEF Started, Placement, Valid, ValidBudget, ValidCommands, ValidDependencies, Acyclic
  <2>5. (pending \cap Active = {} /\ pending \cap Units(results) = {}
         /\ workers \cap Units(channel) = {} /\ Active \cap Units(results) = {})'
    BY <2>1, <2>2, <2>3 DEF Placement
  <2>6. plan.units = pending \cup Active' \cup Units(results)'
    BY <2>1, <2>4 DEF Placement
  <2>7. \A d, e \in channel' : d.unit = e.unit => d = e
    BY <2>2 DEF Placement
  <2>8. Valid(plan)' /\ (pc' = "returned") = (result'.status # "none")
    BY <2>2, <2>4 DEF Placement
  <2> QED  BY <2>2, <2>4, <2>5, <2>6, <2>7, <2>8 DEF Placement
<1>7. CASE Finish
  <2>1. pc' = "returned" /\ result'.status \in {"failed", "ended", "incomplete", "ok"}
    BY <1>7 DEF Finish, Return
  <2> QED  BY <1>0, <1>7, <2>1 DEF Finish, Started, Placement
<1>8. ASSUME NEW u \in plan.units, NEW err \in Outcomes, Work(u, err) PROVE Placement'
  <2>1. Active' = Active /\ Units(channel)' = Units(channel) \cup {u}
    BY <1>8, WorkKeepsActive
  <2>2. /\ u \in workers /\ workers' = workers \ {u}
        /\ channel' = channel \cup {[unit |-> u, err |-> err]}
        /\ UNCHANGED <<plan, pc, pending, results, result>>
    BY <1>8 DEF Work
  <2>3. \A c \in channel : c.unit # u
    BY <2>2 DEF Placement, Units
  <2>4. \A c, d \in channel' : c.unit = d.unit => c = d
    BY <2>2, <2>3 DEF Placement
  <2>5. Units(results)' = Units(results) /\ Started' = Started /\ Valid(plan)' = Valid(plan)
    BY <2>2 DEF Units, Started, Valid, ValidBudget, ValidCommands, ValidDependencies, Acyclic
  <2> QED  BY <2>1, <2>2, <2>4, <2>5 DEF Placement
<1>9. CASE CancelExternally
  BY <1>0, <1>9 DEF CancelExternally, Started, Placement
<1>10. CASE UNCHANGED vars
  BY <1>0, <1>10 DEF vars, Started, Placement
<1> QED  BY <1>1, <1>2, <1>3, <1>4, <1>5, <1>6, <1>7, <1>8, <1>9, <1>10
         DEF Next, Scheduler, Worker

------------------------------------------------------------------------------
(***************************************************************************)
(* Resources and exclusivity groups.                                       *)
(***************************************************************************)

\* Steps other than a launch, a receive and Validate keep the active units,
\* the plan, the scheduler's state and whether the run has started.
LEMMA QuietStep ==
    ASSUME TypeOK, Placement,
           \/ LoopTop \/ PassDone \/ SettleIdle \/ Finish \/ CancelExternally
           \/ \E u \in plan.units, err \in Outcomes : Work(u, err)
           \/ \E u \in plan.units : AdmitOne(u) /\ ~(dependenciesComplete(u) /\ canAdmit(u))
           \/ UNCHANGED vars
    PROVE  /\ Active' = Active /\ Started' = Started
           /\ UNCHANGED <<plan, pending, completed, availableCPU, availableMemory,
                          running, exclusive, results, directFailures, internalFailure>>
<1> USE DEF schedulerState
<1>1. CASE LoopTop
  BY <1>1 DEF LoopTop, Active, Units, Started
<1>2. CASE PassDone
  BY <1>2 DEF PassDone, Active, Units, Started
<1>3. CASE SettleIdle
  <2>1. pc = "settle" /\ pc' \in {"finish", "returned", "loop"} /\ result'.status # "invalid"
    BY <1>3 DEF SettleIdle, Return, Placement
  <2>2. result.status # "invalid"
    BY <2>1 DEF Placement
  <2> QED  BY <1>3, <2>1, <2>2 DEF SettleIdle, Active, Units, Started
<1>4. CASE Finish
  <2>1. pc = "finish" /\ pc' = "returned" /\ result'.status # "invalid"
    BY <1>4 DEF Finish, Return
  <2>2. result.status # "invalid"
    BY <2>1 DEF Placement
  <2> QED  BY <1>4, <2>1, <2>2 DEF Finish, Active, Units, Started
<1>5. CASE CancelExternally
  BY <1>5 DEF CancelExternally, Active, Units, Started
<1>6. ASSUME NEW u \in plan.units, NEW err \in Outcomes, Work(u, err)
      PROVE  /\ Active' = Active /\ Started' = Started
             /\ UNCHANGED <<plan, pending, completed, availableCPU, availableMemory,
                            running, exclusive, results, directFailures, internalFailure>>
  BY <1>6, WorkKeepsActive DEF Work, Started
<1>7. ASSUME NEW u \in plan.units, AdmitOne(u), ~(dependenciesComplete(u) /\ canAdmit(u))
      PROVE  /\ Active' = Active /\ Started' = Started
             /\ UNCHANGED <<plan, pending, completed, availableCPU, availableMemory,
                            running, exclusive, results, directFailures, internalFailure>>
  BY <1>7, SkipKeepsAll DEF Active, Units, Started
<1>8. CASE UNCHANGED vars
  BY <1>8 DEF vars, Active, Units, Started
<1> QED  BY <1>1, <1>2, <1>3, <1>4, <1>5, <1>6, <1>7, <1>8

\* Next, sorted by what a step does to the active units.
LEMMA StepKinds ==
    ASSUME [Next]_vars
    PROVE  \/ Validate
           \/ \E u \in plan.units : AdmitOne(u) /\ dependenciesComplete(u) /\ canAdmit(u)
           \/ \E c \in channel : Receive(c)
           \/ \/ LoopTop \/ PassDone \/ SettleIdle \/ Finish \/ CancelExternally
              \/ \E u \in plan.units, err \in Outcomes : Work(u, err)
              \/ \E u \in plan.units : AdmitOne(u) /\ ~(dependenciesComplete(u) /\ canAdmit(u))
              \/ UNCHANGED vars
BY DEF Next, Scheduler, Worker

\* The reservation of a unit of a validated plan is positive and fits alone.
LEMMA ValidUnit ==
    ASSUME TypeOK, Valid(plan), NEW u \in plan.units
    PROVE  /\ plan.cpu[u] \in Nat /\ plan.mem[u] \in Nat
           /\ plan.cpu[u] <= plan.cpuBudget /\ plan.mem[u] <= plan.memBudget
           /\ plan.cpuBudget \in Nat /\ plan.memBudget \in Nat
           /\ plan.maxWorkers \in Nat \ {0}
BY PlansAssumption DEF TypeOK, IsPlan, Valid, ValidBudget, ValidCommands

\* Every step keeps the counters equal to what the active units leave free.
LEMMA AccountingStep ==
    ASSUME TypeOK, Placement, Accounting, [Next]_vars PROVE Accounting'
<1>1. CASE Validate
  <2>1. ~Started /\ pc = "validate" /\ result.status = "none"
    BY <1>1 DEF Validate, Started, Placement
  <2>2. Active = {} /\ Active' = {} /\ plan' = plan /\ running' = running
    BY <1>1, <2>1 DEF Placement, Validate, Active, Units
  <2>3. Cardinality(Reserved(plan.cpu, {})) = 0 /\ Cardinality(Reserved(plan.mem, {})) = 0
    BY FS_EmptySet DEF Reserved
  <2>4. running = 0
    BY <2>2, FS_EmptySet DEF Accounting
  <2>5. CASE Valid(plan)
    <3>1. availableCPU' = plan.cpuBudget /\ availableMemory' = plan.memBudget
      BY <1>1, <2>5 DEF Validate
    <3>2. plan.cpuBudget \in Int /\ plan.cpuBudget > 0 /\ plan.memBudget \in Int
          /\ plan.memBudget > 0 /\ plan.maxWorkers \in Int /\ plan.maxWorkers > 0
      BY <2>5, PlansAssumption DEF Valid, ValidBudget, TypeOK, IsPlan
    <3> QED  BY <2>2, <2>3, <2>4, <3>1, <3>2 DEF Accounting
  <2>6. CASE ~Valid(plan)
    <3>1. ~Started'
      BY <1>1, <2>6 DEF Validate, Return, Started
    <3> QED  BY <2>2, <3>1 DEF Accounting
  <2> QED  BY <2>5, <2>6
<1>2. ASSUME NEW u \in plan.units, AdmitOne(u), dependenciesComplete(u), canAdmit(u)
      PROVE  Accounting'
  <2>1. /\ u \in pending /\ Active' = Active \cup {u} /\ plan' = plan /\ reserve(u)
        /\ pc' = pc /\ result' = result
    BY <1>2, AdmitMovesUnit
  <2>2. u \notin Active
    BY <2>1 DEF Placement
  <2>3. Started' /\ Started
    BY <1>2, <2>1 DEF AdmitOne, Started, Placement
  <2>4. Valid(plan)
    BY <2>3 DEF Placement
  <2>5. /\ IsFiniteSet(Reserved(plan.cpu, Active \cup {u}))
        /\ Cardinality(Reserved(plan.cpu, Active \cup {u})) =
             Cardinality(Reserved(plan.cpu, Active)) + plan.cpu[u]
    BY <2>2, <2>4, ValidUnit, ReservedAdd DEF Accounting
  <2>6. /\ IsFiniteSet(Reserved(plan.mem, Active \cup {u}))
        /\ Cardinality(Reserved(plan.mem, Active \cup {u})) =
             Cardinality(Reserved(plan.mem, Active)) + plan.mem[u]
    BY <2>2, <2>4, ValidUnit, ReservedAdd DEF Accounting
  <2>7. /\ IsFiniteSet(Active \cup {u})
        /\ Cardinality(Active \cup {u}) = Cardinality(Active) + 1
    BY <2>2, FS_AddElement DEF Accounting
  <2>8. /\ Cardinality(Active) \in Nat
        /\ Cardinality(Reserved(plan.cpu, Active)) \in Nat
        /\ Cardinality(Reserved(plan.mem, Active)) \in Nat
    BY FS_CardinalityType DEF Accounting
  <2>9. /\ availableCPU' = plan.cpuBudget - Cardinality(Reserved(plan.cpu, Active \cup {u}))
        /\ availableMemory' = plan.memBudget - Cardinality(Reserved(plan.mem, Active \cup {u}))
        /\ availableCPU' >= 0 /\ availableMemory' >= 0
    BY <1>2, <2>1, <2>3, <2>4, <2>5, <2>6, <2>8, ValidUnit DEF Accounting, canAdmit, reserve
  <2>10. running' = Cardinality(Active \cup {u}) /\ running' <= plan.maxWorkers
    BY <1>2, <2>1, <2>4, <2>7, <2>8, ValidUnit DEF Accounting, canAdmit, reserve
  <2> QED  BY <2>1, <2>3, <2>5, <2>6, <2>7, <2>9, <2>10 DEF Accounting
<1>3. ASSUME NEW c \in channel, Receive(c) PROVE Accounting'
  <2>1. c.unit \in Active /\ c.unit \in plan.units /\ Active' = Active \ {c.unit}
    BY <1>3, ReceiveMovesUnit
  <2>2. plan' = plan /\ release(c.unit) /\ pc = "settle" /\ pc' = "loop" /\ result' = result
    BY <1>3 DEF Receive
  <2>3. Started' /\ Started
    BY <2>2 DEF Started, Placement
  <2>4. Valid(plan)
    BY <2>3 DEF Placement
  <2>5. /\ IsFiniteSet(Reserved(plan.cpu, Active \ {c.unit}))
        /\ Cardinality(Reserved(plan.cpu, Active \ {c.unit})) =
             Cardinality(Reserved(plan.cpu, Active)) - plan.cpu[c.unit]
    BY <2>1, <2>4, ValidUnit, ReservedRemove DEF Accounting
  <2>6. /\ IsFiniteSet(Reserved(plan.mem, Active \ {c.unit}))
        /\ Cardinality(Reserved(plan.mem, Active \ {c.unit})) =
             Cardinality(Reserved(plan.mem, Active)) - plan.mem[c.unit]
    BY <2>1, <2>4, ValidUnit, ReservedRemove DEF Accounting
  <2>7. /\ IsFiniteSet(Active \ {c.unit})
        /\ Cardinality(Active \ {c.unit}) = Cardinality(Active) - 1
    BY <2>1, FS_RemoveElement DEF Accounting
  <2>8. /\ Cardinality(Active) \in Nat
        /\ Cardinality(Reserved(plan.cpu, Active)) \in Nat
        /\ Cardinality(Reserved(plan.mem, Active)) \in Nat
    BY FS_CardinalityType DEF Accounting
  <2>9. /\ availableCPU' = plan.cpuBudget - Cardinality(Reserved(plan.cpu, Active \ {c.unit}))
        /\ availableMemory' = plan.memBudget - Cardinality(Reserved(plan.mem, Active \ {c.unit}))
        /\ availableCPU' >= 0 /\ availableMemory' >= 0
    BY <2>1, <2>2, <2>3, <2>4, <2>5, <2>6, <2>8, ValidUnit DEF Accounting, release
  <2>10. running' = Cardinality(Active \ {c.unit}) /\ running' <= plan.maxWorkers
    BY <2>1, <2>2, <2>3, <2>4, <2>7, <2>8, ValidUnit DEF Accounting, release
  <2> QED  BY <2>1, <2>2, <2>3, <2>5, <2>6, <2>7, <2>9, <2>10 DEF Accounting
<1>4. ASSUME Active' = Active, Started' = Started,
             UNCHANGED <<plan, availableCPU, availableMemory, running>>
      PROVE  Accounting'
  BY <1>4 DEF Accounting
<1> QED  BY <1>1, <1>2, <1>3, <1>4, StepKinds, QuietStep

\* Every step keeps the held groups exact, and so exclusive.
LEMMA HoldingStep ==
    ASSUME TypeOK, Placement, Holding, [Next]_vars PROVE Holding'
<1> USE DEF Holding, GroupsAreExclusive
<1>1. CASE Validate
  <2>1. ~Started
    BY <1>1 DEF Validate, Started
  <2>2. Active = {} /\ Active' = {} /\ plan' = plan /\ exclusive' = exclusive
    BY <1>1, <2>1 DEF Placement, Validate, Active, Units
  <2> QED  BY <2>2
<1>2. ASSUME NEW u \in plan.units, AdmitOne(u), dependenciesComplete(u), canAdmit(u)
      PROVE  Holding'
  <2>1. Active' = Active \cup {u} /\ plan' = plan /\ reserve(u)
    BY <1>2, AdmitMovesUnit
  <2>2. \A v \in Active : plan.groups[u] \cap plan.groups[v] = {}
    BY <1>2 DEF canAdmit
  <2>3. exclusive' = UNION {plan.groups[v] : v \in Active \cup {u}}
    BY <2>1 DEF reserve
  <2>4. \A v, w \in Active \cup {u} : v # w => plan.groups[v] \cap plan.groups[w] = {}
    BY <2>2
  <2> QED  BY <2>1, <2>3, <2>4
<1>3. ASSUME NEW c \in channel, Receive(c) PROVE Holding'
  <2>1. c.unit \in Active /\ Active' = Active \ {c.unit}
    BY <1>3, ReceiveMovesUnit
  <2>2. plan' = plan /\ exclusive' = exclusive \ plan.groups[c.unit]
    BY <1>3 DEF Receive, release
  <2>3. \A v \in Active \ {c.unit} : plan.groups[v] \cap plan.groups[c.unit] = {}
    BY <2>1
  <2>4. exclusive' = UNION {plan.groups[v] : v \in Active \ {c.unit}}
    BY <2>1, <2>2, <2>3
  <2> QED  BY <2>1, <2>2, <2>4
<1>4. ASSUME Active' = Active, UNCHANGED <<plan, exclusive>> PROVE Holding'
  BY <1>4
<1> QED  BY <1>1, <1>2, <1>3, <1>4, StepKinds, QuietStep

------------------------------------------------------------------------------
(***************************************************************************)
(* Completions, failures and verdicts.                                     *)
(***************************************************************************)

\* Every step keeps what completions say and who is to blame for a failure.
LEMMA OutcomeStep ==
    ASSUME TypeOK, Placement, Outcome, PassResult, [Next]_vars PROVE Outcome'
<1> DEFINE Done(r) == {c.unit : c \in {d \in r : d.err = "ok"}}
           Genuine(F, r) == \A u \in F :
              \E c \in r : c.unit = u /\ c.err \in {"failed", "timeout"}
<1>0. ASSUME Active' = Active, result' = result,
             UNCHANGED <<plan, completed, channel, results, directFailures,
                         internalFailure, cancel>>
      PROVE  Outcome'
  BY <1>0 DEF Outcome, BlameIsGenuine
<1>1. CASE Validate
  <2>1. ~Started /\ result'.status \in {"none", "invalid"}
    BY <1>1 DEF Validate, Started, Return, Placement
  <2>2. /\ Active' = Active
        /\ UNCHANGED <<plan, completed, channel, results, directFailures,
                       internalFailure, cancel>>
    BY <1>1 DEF Validate, Active, Units
  <2> QED  BY <2>1, <2>2 DEF Outcome, BlameIsGenuine
<1>2. CASE LoopTop
  BY <1>0, <1>2 DEF LoopTop, Active, Units
<1>3. ASSUME NEW u \in plan.units, AdmitOne(u) PROVE Outcome'
  <2>1. CASE dependenciesComplete(u) /\ canAdmit(u)
    <3>1. /\ Active' = Active \cup {u}
          /\ UNCHANGED <<plan, completed, channel, results, directFailures,
                         internalFailure, cancel, result>>
      BY <1>3, <2>1, AdmitMovesUnit
    <3>2. plan.requires[u] \subseteq completed
      BY <2>1 DEF dependenciesComplete
    <3> QED  BY <3>1, <3>2 DEF Outcome, BlameIsGenuine
  <2>2. CASE ~(dependenciesComplete(u) /\ canAdmit(u))
    BY <1>0, <1>3, <2>2, SkipKeepsAll DEF Active, Units
  <2> QED  BY <2>1, <2>2
<1>4. CASE PassDone
  BY <1>0, <1>4 DEF PassDone, Active, Units
<1>5. CASE SettleIdle
  <2>1. /\ result'.status # "failed"
        /\ Active' = Active
        /\ UNCHANGED <<plan, completed, channel, results, directFailures,
                       internalFailure, cancel>>
    BY <1>5 DEF SettleIdle, Return, Active, Units, Placement
  <2> QED  BY <2>1 DEF Outcome, BlameIsGenuine
<1>6. ASSUME NEW c \in channel, Receive(c) PROVE Outcome'
  <2>1. /\ Active' = Active \ {c.unit} /\ plan' = plan /\ result' = result
        /\ results' = results \cup {c} /\ channel' = channel \ {c}
        /\ result.status = "none"
    BY <1>6, ReceiveMovesUnit DEF Receive, Placement
  <2>2. c \in Completions
    BY DEF TypeOK
  <2>3. CASE c.err = "ok"
    <3>1. completed' = completed \cup {c.unit} /\ UNCHANGED <<directFailures, internalFailure, cancel>>
      BY <1>6, <2>3 DEF Receive
    <3>2. completed' = Done(results')
      BY <2>1, <2>3, <3>1 DEF Outcome
    <3>3. cancel # "external" => Genuine(directFailures', results')
      BY <2>1, <3>1 DEF Outcome
    <3>4. \A u \in Active' : plan.requires[u] \subseteq completed'
      BY <2>1, <3>1 DEF Outcome
    <3>5. cancel' = "none" => directFailures' = {} /\ \A d \in results' : d.err = "ok"
      BY <2>1, <2>3, <3>1 DEF Outcome
    <3> QED  BY <2>1, <3>1, <3>2, <3>3, <3>4, <3>5 DEF Outcome, BlameIsGenuine
  <2>4. CASE c.err # "ok"
    <3>1. /\ completed' = completed /\ cancel' # "none"
          /\ directFailures' = IF cancellationFallout(c) THEN directFailures
                               ELSE directFailures \cup {c.unit}
          /\ internalFailure' = (cancel' = "failfast")
          /\ cancel = "none" => cancel' = "failfast"
          /\ cancel # "none" => cancel' = cancel
      BY <1>6, <2>4 DEF Receive, Outcome
    <3>2. completed' = Done(results')
      BY <2>1, <2>4, <3>1 DEF Outcome
    <3>3. cancel' # "external" => Genuine(directFailures', results')
      <4>1. SUFFICES ASSUME cancel' # "external" PROVE Genuine(directFailures', results')
        OBVIOUS
      <4>2. cancel # "external"
        BY <3>1, <4>1 DEF TypeOK
      <4>3. Genuine(directFailures, results')
        BY <2>1, <4>2 DEF Outcome
      <4>4. c.err = "canceled" => cancellationFallout(c)
        BY <4>2 DEF Outcome, cancellationFallout, TypeOK
      <4>5. c.err \in {"failed", "timeout", "canceled"}
        BY <2>2, <2>4 DEF Completions, Outcomes
      <4> QED  BY <2>1, <3>1, <4>3, <4>4, <4>5
    <3> QED  BY <2>1, <3>1, <3>2, <3>3 DEF Outcome, BlameIsGenuine
  <2> QED  BY <2>3, <2>4
<1>7. CASE Finish
  <2>1. /\ Active' = Active
        /\ UNCHANGED <<plan, completed, channel, results, directFailures,
                       internalFailure, cancel>>
    BY <1>7 DEF Finish, Active, Units
  <2>2. result'.status = "failed" => result'.unit \in directFailures
    BY <1>7 DEF Finish, Return
  <2>3. BlameIsGenuine'
    BY <2>1, <2>2 DEF Outcome, BlameIsGenuine
  <2> QED  BY <2>1, <2>3 DEF Outcome
<1>8. ASSUME NEW u \in plan.units, NEW err \in Outcomes, Work(u, err) PROVE Outcome'
  <2>1. /\ Active' = Active /\ channel' = channel \cup {[unit |-> u, err |-> err]}
        /\ err = "canceled" => cancel # "none"
        /\ UNCHANGED <<plan, completed, results, directFailures, internalFailure, cancel, result>>
    BY <1>8, WorkKeepsActive DEF Work
  <2>2. \A d \in channel' : d.err = "canceled" => cancel' # "none"
    BY <2>1 DEF Outcome
  <2> QED  BY <2>1, <2>2 DEF Outcome, BlameIsGenuine
<1>9. CASE CancelExternally
  <2>1. /\ Active' = Active /\ cancel = "none" /\ cancel' = "external"
        /\ UNCHANGED <<plan, completed, channel, results, directFailures, internalFailure, result>>
    BY <1>9 DEF CancelExternally, Active, Units
  <2> QED  BY <2>1 DEF Outcome, BlameIsGenuine
<1>10. CASE UNCHANGED vars
  BY <1>0, <1>10 DEF vars, Active, Units
<1> QED  BY <1>1, <1>2, <1>3, <1>4, <1>5, <1>6, <1>7, <1>8, <1>9, <1>10
         DEF Next, Scheduler, Worker

\* With nothing running and nothing failed, some pending unit can be admitted:
\* acyclic dependencies leave one ready, and alone it fits the budget.
LEMMA IdleHasReadyWork ==
    ASSUME IInv, Started, running = 0, cancel = "none", pending # {}
    PROVE  \E u \in pending : dependenciesComplete(u) /\ canAdmit(u)
<1> USE DEF IInv
<1>1. Active = {}
  BY FS_EmptySet DEF Accounting
<1>2. Valid(plan) /\ plan.units = pending \cup Units(results)
  BY <1>1 DEF Placement
<1>3. completed = Units(results)
  BY DEF Outcome, Units
<1>4. PICK u \in pending : plan.requires[u] \cap pending = {}
  BY <1>2 DEF Valid, ValidDependencies, Acyclic, TypeOK
<1>5. u \in plan.units /\ plan.requires[u] \subseteq plan.units
  BY <1>2, <1>4 DEF Valid, ValidDependencies
<1>6. dependenciesComplete(u)
  BY <1>2, <1>3, <1>4, <1>5 DEF dependenciesComplete
<1>7. availableCPU = plan.cpuBudget /\ availableMemory = plan.memBudget
  <2>1. Cardinality(Reserved(plan.cpu, {})) = 0 /\ Cardinality(Reserved(plan.mem, {})) = 0
    BY FS_EmptySet DEF Reserved
  <2>2. plan.cpuBudget \in Nat /\ plan.memBudget \in Nat
    BY <1>2, <1>5, ValidUnit
  <2> QED  BY <1>1, <2>1, <2>2 DEF Accounting
<1>8. exclusive = {}
  BY <1>1 DEF Holding
<1>9. canAdmit(u)
  BY <1>2, <1>5, <1>7, <1>8, ValidUnit DEF canAdmit
<1> QED  BY <1>6, <1>9

\* Launching a unit never makes another unit admissible.
LEMMA AdmitOnlyConsumes ==
    ASSUME IInv, NEW u, AdmitOne(u), dependenciesComplete(u), canAdmit(u), Started,
           NEW v \in pending, ~(dependenciesComplete(v) /\ canAdmit(v))
    PROVE  ~(dependenciesComplete(v) /\ canAdmit(v))'
<1>1. /\ u \in plan.units /\ plan' = plan /\ completed' = completed /\ reserve(u)
  BY AdmitMovesUnit DEF IInv
<1>2. v \in plan.units /\ Valid(plan)
  BY DEF IInv, TypeOK, Placement
<1>3. dependenciesComplete(v)' = dependenciesComplete(v)
  BY <1>1 DEF dependenciesComplete
<1>4. availableCPU \in Int /\ availableMemory \in Int /\ running \in Int
  BY DEF IInv, TypeOK
<1>5. canAdmit(v)' => canAdmit(v)
  <2>1. /\ plan.cpu[u] \in Nat /\ plan.mem[u] \in Nat
        /\ plan.cpu[v] \in Nat /\ plan.mem[v] \in Nat /\ plan.maxWorkers \in Nat
    BY <1>1, <1>2, ValidUnit DEF IInv
  <2>2. plan.groups[v] \cap exclusive' = {} => plan.groups[v] \cap exclusive = {}
    BY <1>1 DEF reserve
  <2>3. /\ running' < plan.maxWorkers => running < plan.maxWorkers
        /\ plan.cpu[v] <= availableCPU' => plan.cpu[v] <= availableCPU
        /\ plan.mem[v] <= availableMemory' => plan.mem[v] <= availableMemory
    BY <1>1, <1>4, <2>1 DEF reserve
  <2> QED  BY <1>1, <2>2, <2>3 DEF canAdmit
<1> QED  BY <1>3, <1>5

\* Every step keeps what a pass and a verdict have established.
LEMMA PassResultStep == IInv /\ [Next]_vars => PassResult'
<1> SUFFICES ASSUME IInv, [Next]_vars PROVE PassResult'
  OBVIOUS
<1> USE DEF IInv
<1> DEFINE Idle(u) == ~(dependenciesComplete(u) /\ canAdmit(u))
<1>1. CASE Validate
  <2>1. Active' = Active /\ Active = {} /\ pc' \in {"loop", "returned"}
        /\ result'.status \notin {"stuck", "incomplete"}
    BY <1>1 DEF Validate, Started, Placement, Active, Units, Return
  <2> QED  BY <2>1 DEF PassResult, WorkConserving, NoOrphanWorker, NeverStuck
<1>2. CASE LoopTop
  <2>1. /\ pc' \in {"finish", "admit", "settle"} /\ result' = result /\ pc = "loop"
        /\ Active' = Active /\ pending' = pending /\ internalFailure' = internalFailure
        /\ cancel' = cancel
    BY <1>2 DEF LoopTop, Active, Units
  <2>2. pc' = "admit" => pass' = pending
    BY <1>2 DEF LoopTop
  <2>3. pc' = "settle" => internalFailure \/ cancel # "none"
    BY <1>2 DEF LoopTop
  <2>4. pc' = "finish" => Active = {} /\ pending = {}
    BY <1>2, FS_EmptySet DEF LoopTop, Accounting
  <2>5. Started'
    BY <2>1 DEF Started, Placement
  <2> QED  BY <2>1, <2>2, <2>3, <2>4, <2>5 DEF PassResult, WorkConserving, NoOrphanWorker, NeverStuck
<1>3. ASSUME NEW u \in plan.units, AdmitOne(u) PROVE PassResult'
  <2>1. pc = "admit" /\ pc' = "admit" /\ result' = result /\ pass' = pass \ {u} /\ Started
    BY <1>3 DEF AdmitOne, Started, Placement
  <2>2. \A v \in pending' \ pass' : Idle(v)'
    <3>1. CASE dependenciesComplete(u) /\ canAdmit(u)
      <4>1. pending' = pending \ {u}
        BY <1>3, <3>1, AdmitMovesUnit
      <4>2. \A v \in pending' \ pass' : v \in pending /\ Idle(v)
        BY <2>1, <4>1 DEF PassResult
      <4>3. ASSUME NEW v \in pending' \ pass' PROVE Idle(v)'
        <5>1. v \in pending /\ Idle(v)
          BY <4>2
        <5> QED  BY <1>3, <2>1, <3>1, <5>1, AdmitOnlyConsumes
      <4> QED  BY <4>3
    <3>2. CASE ~(dependenciesComplete(u) /\ canAdmit(u))
      <4>1. UNCHANGED <<plan, pending, completed, availableCPU, availableMemory, running, exclusive>>
        BY <1>3, <3>2, SkipKeepsAll
      <4>2. \A v \in pending \ pass' : Idle(v)
        BY <2>1, <3>2 DEF PassResult
      <4> QED  BY <4>1, <4>2 DEF dependenciesComplete, canAdmit
    <3> QED  BY <3>1, <3>2
  <2> QED  BY <2>1, <2>2 DEF PassResult, WorkConserving, NoOrphanWorker, NeverStuck
<1>4. CASE PassDone
  <2>1. /\ pc = "admit" /\ pass = {} /\ pc' = "settle"
        /\ UNCHANGED <<plan, pending, completed, availableCPU, availableMemory, running, exclusive, result>>
    BY <1>4 DEF PassDone, schedulerState
  <2>2. \A v \in pending' : Idle(v)'
    BY <2>1 DEF PassResult, dependenciesComplete, canAdmit
  <2> QED  BY <2>1, <2>2 DEF PassResult, WorkConserving, NoOrphanWorker, NeverStuck
<1>5. CASE SettleIdle
  <2>1. Active' = Active /\ Active = {} /\ Started /\ Started' = Started /\ running = 0
        /\ internalFailure' = internalFailure /\ pending' = pending
    <3>1. running = 0 /\ pc = "settle"
      BY <1>5 DEF SettleIdle
    <3>2. Active = {}
      BY <3>1, FS_EmptySet DEF Accounting
    <3>3. Started
      BY <3>1 DEF Started, Placement
    <3> QED  BY <1>5, <3>1, <3>2, <3>3, QuietStep
  <2>2. ~(~internalFailure /\ cancel = "none" /\ pending # {} /\ ~launched)
    BY <1>5, <2>1, IdleHasReadyWork DEF SettleIdle, PassResult, WorkConserving
  <2>3. pc' \in {"finish", "returned", "loop"} /\ result'.status \notin {"stuck", "incomplete"}
        /\ (pc' = "finish" => internalFailure)
    BY <1>5, <2>2 DEF SettleIdle, Return, PassResult, NeverStuck
  <2> QED  BY <2>1, <2>3 DEF PassResult, WorkConserving, NoOrphanWorker, NeverStuck
<1>6. ASSUME NEW c \in channel, Receive(c) PROVE PassResult'
  BY <1>6 DEF Receive, PassResult, WorkConserving, NoOrphanWorker, NeverStuck
<1>7. CASE Finish
  <2>1. Active' = Active /\ pc = "finish" /\ Started /\ Active = {} /\ pc' = "returned"
        /\ (internalFailure \/ pending = {})
    BY <1>7, QuietStep DEF Finish, Return, PassResult
  <2>2. ~(directFailures = {} /\ cancel = "none" /\ completed # plan.units)
    <3>1. SUFFICES ASSUME cancel = "none" PROVE completed = plan.units
      OBVIOUS
    <3>2. completed = Units(results) /\ pending = {}
      BY <2>1, <3>1 DEF Outcome, Units
    <3> QED  BY <2>1, <3>2 DEF Placement
  <2>3. result'.status \in {"failed", "ended", "ok"}
    BY <1>7, <2>2 DEF Finish, Return
  <2> QED  BY <2>1, <2>3 DEF PassResult, WorkConserving, NoOrphanWorker, NeverStuck
<1>8. ASSUME NEW u \in plan.units, NEW err \in Outcomes, Work(u, err) PROVE PassResult'
  <2>1. Active' = Active /\ UNCHANGED <<plan, pc, pass, pending, completed, availableCPU,
              availableMemory, running, exclusive, internalFailure, cancel, result>>
    BY <1>8, WorkKeepsActive DEF Work, schedulerState
  <2> QED  BY <2>1 DEF PassResult, WorkConserving, NoOrphanWorker, NeverStuck,
                      dependenciesComplete, canAdmit, Started
<1>9. CASE CancelExternally
  <2>1. Active' = Active /\ cancel' = "external" /\ UNCHANGED <<plan, pc, pass, pending, completed,
              availableCPU, availableMemory, running, exclusive, internalFailure, result>>
    BY <1>9 DEF CancelExternally, schedulerState, Active, Units
  <2> QED  BY <2>1 DEF PassResult, WorkConserving, NoOrphanWorker, NeverStuck,
                      dependenciesComplete, canAdmit, Started
<1>10. CASE UNCHANGED vars
  BY <1>10 DEF vars, PassResult, WorkConserving, NoOrphanWorker, NeverStuck,
               dependenciesComplete, canAdmit, Started, Active, Units
<1> QED  BY <1>1, <1>2, <1>3, <1>4, <1>5, <1>6, <1>7, <1>8, <1>9, <1>10
         DEF Next, Scheduler, Worker

------------------------------------------------------------------------------
(***************************************************************************)
(* The theorems.                                                           *)
(***************************************************************************)

\* IInv is an invariant of the scheduler.
THEOREM Invariance == Spec => []IInv
<1>1. IInv /\ [Next]_vars => IInv'
  <2> SUFFICES ASSUME IInv, [Next]_vars PROVE IInv'
    OBVIOUS
  <2>1. TypeOK'
    BY TypeStep DEF IInv
  <2>2. Placement'
    BY PlacementStep DEF IInv
  <2>3. Accounting'
    BY AccountingStep DEF IInv
  <2>4. Holding'
    BY HoldingStep DEF IInv
  <2>5. Outcome'
    BY OutcomeStep DEF IInv
  <2>6. PassResult'
    BY PassResultStep
  <2> QED  BY <2>1, <2>2, <2>3, <2>4, <2>5, <2>6 DEF IInv
<1> QED  BY InitIInv, <1>1, PTL DEF Spec

\* schedulePlan's variables keep their types, for every set of plans.
THEOREM TypeCorrect == Spec => []TypeOK
<1>1. IInv => TypeOK
  BY DEF IInv
<1> QED  BY Invariance, <1>1, PTL

\* The units that run together never exceed the budget of the plan.
THEOREM BudgetRespected == Spec => []ReservationsWithinBudget
<1>1. IInv => ReservationsWithinBudget
  <2> SUFFICES ASSUME IInv, pc # "validate", Active # {}
               PROVE  /\ Cardinality(Reserved(plan.cpu, Active)) <= plan.cpuBudget
                      /\ Cardinality(Reserved(plan.mem, Active)) <= plan.memBudget
                      /\ Cardinality(Active) <= plan.maxWorkers
    BY DEF ReservationsWithinBudget
  <2>1. Started /\ IsPlan(plan)
    BY PlansAssumption DEF IInv, Placement, TypeOK
  <2>2. /\ Cardinality(Reserved(plan.cpu, Active)) \in Nat
        /\ Cardinality(Reserved(plan.mem, Active)) \in Nat
        /\ Cardinality(Active) \in Nat
    BY FS_CardinalityType DEF IInv, Accounting
  <2>3. plan.cpuBudget \in Int /\ plan.memBudget \in Int /\ plan.maxWorkers \in Int
    BY <2>1 DEF IsPlan
  <2> QED  BY <2>1, <2>2, <2>3 DEF IInv, Accounting
<1> QED  BY Invariance, <1>1, PTL

\* Units of one exclusivity group never run together.
THEOREM GroupExclusion == Spec => []GroupsAreExclusive
<1>1. IInv => GroupsAreExclusive
  BY DEF IInv, Holding
<1> QED  BY Invariance, <1>1, PTL

\* Neither budgets nor exclusivity groups are ever overcommitted.
THEOREM NoOvercommitment == Spec => []NothingOvercommitted
<1> QED  BY BudgetRespected, GroupExclusion, PTL DEF NothingOvercommitted

\* A pass leaves no admissible unit behind when the scheduler starts to wait.
THEOREM Conserving == Spec => []WorkConserving
<1>1. IInv => WorkConserving
  BY DEF IInv, PassResult
<1> QED  BY Invariance, <1>1, PTL

\* The scheduler never gives up on a plan it has validated.
THEOREM StallFreedom == Spec => []NeverStuck
<1>1. IInv => NeverStuck
  BY DEF IInv, PassResult
<1> QED  BY Invariance, <1>1, PTL

\* The scheduler waits only for running units and never gives up.
THEOREM Progress == Spec => []KeepsMoving
<1> QED  BY Conserving, StallFreedom, PTL DEF KeepsMoving

\* Without an interrupt, the unit an error names has failed by itself.
THEOREM GenuineBlame == Spec => []BlameIsGenuine
<1>1. IInv => BlameIsGenuine
  BY DEF IInv, Outcome
<1> QED  BY Invariance, <1>1, PTL

\* No worker outlives schedulePlan.
THEOREM NoOrphans == Spec => []NoOrphanWorker
<1>1. IInv => NoOrphanWorker
  BY DEF IInv, PassResult
<1> QED  BY Invariance, <1>1, PTL

\* schedulePlan implements the contract of the gate: units pass after what they
\* require, and the run is accepted only when every unit has passed.
THEOREM Refinement == Spec => ImplementsContract
<1> USE DEF ContractOf
<1>1. Init => Contract!Init
  BY DEF Init, Contract!Init, NoResult, Verdict
<1>2. IInv /\ [Next]_vars => [Contract!Next]_(Contract!cvars)
  <2> SUFFICES ASSUME IInv, [Next]_vars PROVE [Contract!Next]_(Contract!cvars)
    OBVIOUS
  <2>0. ASSUME plan' = plan, completed' = completed, result.status = "none",
               pc' = "returned", result'.status = "ok" => completed = plan.units,
               result'.status # "none"
        PROVE  Contract!Next
    <3>1. CASE result'.status = "ok"
      <4>1. Contract!Accept
        BY <2>0, <3>1 DEF Contract!Accept, Verdict
      <4> QED  BY <4>1 DEF Contract!Next
    <3>2. CASE result'.status # "ok"
      <4>1. Contract!Reject
        BY <2>0, <3>2 DEF Contract!Reject, Verdict
      <4> QED  BY <4>1 DEF Contract!Next
    <3> QED  BY <3>1, <3>2
  <2>00. ASSUME plan' = plan, completed' = completed, result' = result
         PROVE  UNCHANGED Contract!cvars
    BY <2>00 DEF Contract!cvars, Verdict
  <2>1. CASE Validate
    <3>1. result.status = "none" /\ plan' = plan /\ completed' = completed
      BY <2>1 DEF Validate, IInv, Placement
    <3>2. CASE Valid(plan)
      BY <2>00, <2>1, <3>1, <3>2 DEF Validate
    <3>3. CASE ~Valid(plan)
      <4>1. pc' = "returned" /\ result'.status = "invalid"
        BY <2>1, <3>3 DEF Validate, Return
      <4> QED  BY <2>0, <3>1, <4>1
    <3> QED  BY <3>2, <3>3
  <2>2. CASE LoopTop \/ PassDone \/ CancelExternally
    BY <2>00, <2>2 DEF LoopTop, PassDone, CancelExternally
  <2>3. ASSUME NEW u \in plan.units, AdmitOne(u) PROVE UNCHANGED Contract!cvars
    BY <2>00, <2>3 DEF AdmitOne
  <2>4. CASE SettleIdle
    <3>1. result.status = "none" /\ plan' = plan /\ completed' = completed
      BY <2>4 DEF SettleIdle, IInv, Placement
    <3>2. CASE result' = result
      BY <2>00, <3>1, <3>2
    <3>3. CASE result' # result
      <4>1. pc' = "returned" /\ result'.status \in {"ended", "stuck"}
        BY <2>4, <3>3 DEF SettleIdle, Return
      <4> QED  BY <2>0, <3>1, <4>1
    <3> QED  BY <3>2, <3>3
  <2>5. ASSUME NEW c \in channel, Receive(c) PROVE [Contract!Next]_(Contract!cvars)
    <3>1. plan' = plan /\ result' = result /\ result.status = "none"
      BY <2>5 DEF Receive, IInv, Placement
    <3>2. c.unit \in Active /\ c.unit \in plan.units
      BY <2>5, ReceiveMovesUnit DEF IInv
    <3>3. CASE c.err = "ok"
      <4>1. completed' = completed \cup {c.unit}
        BY <2>5, <3>3 DEF Receive
      <4>2. plan.requires[c.unit] \subseteq completed
        BY <3>2 DEF IInv, Outcome
      <4>3. Contract!Pass(c.unit)
        BY <3>1, <4>1, <4>2 DEF Contract!Pass, Verdict
      <4> QED  BY <3>2, <4>3 DEF Contract!Next
    <3>4. CASE c.err # "ok"
      BY <2>00, <2>5, <3>1, <3>4 DEF Receive
    <3> QED  BY <3>3, <3>4
  <2>6. CASE Finish
    <3>1. result.status = "none" /\ plan' = plan /\ completed' = completed /\ pc' = "returned"
      BY <2>6 DEF Finish, Return, IInv, Placement
    <3>2. /\ result'.status \in {"failed", "ended", "incomplete", "ok"}
          /\ result'.status = "ok" => completed = plan.units
      BY <2>6 DEF Finish, Return
    <3> QED  BY <2>0, <3>1, <3>2
  <2>7. ASSUME NEW u \in plan.units, NEW err \in Outcomes, Work(u, err)
        PROVE  UNCHANGED Contract!cvars
    BY <2>00, <2>7 DEF Work
  <2>8. CASE UNCHANGED vars
    BY <2>00, <2>8 DEF vars
  <2> QED  BY <2>1, <2>2, <2>3, <2>4, <2>5, <2>6, <2>7, <2>8, <2>00
           DEF Next, Scheduler, Worker, LoopTop, PassDone, CancelExternally
<1> QED  BY <1>1, <1>2, Invariance, PTL DEF Spec, ImplementsContract, Contract!Spec

------------------------------------------------------------------------------
(***************************************************************************)
(* Generated plans.                                                        *)
(***************************************************************************)

Budget == [cpu : Int, mem : Int, workers : Int]

\* A validated manifest knows what its profiles select.
LEMMA SelectedSubgates ==
    ASSUME NEW m, NEW registry, NEW profile \in Profiles, IsManifest(m),
           ValidManifest(m, registry)
    PROVE  /\ m.profiles[profile] \subseteq DOMAIN m.subgates
           /\ m.profiles[profile] # {}
           /\ \A id \in m.profiles[profile] :
                 /\ m.subgates[id].cpu \in Nat \ {0}
                 /\ m.subgates[id].mem \in Nat \ {0}
                 /\ m.subgates[id].requires \subseteq Nat
                 /\ m.subgates[id].groups \subseteq Groups
BY DEF IsManifest, ValidManifest, validateProfiles, validateSubgate

\* Every plan that generatePlan makes is well formed and passes
\* ExecutionPlan.Validate: the error "validate generated soundness execution
\* plan" cannot be reached with commands that are safe, and the scheduler
\* never refuses a generated plan.
THEOREM GeneratedPlansAreValid ==
    ASSUME NEW m, NEW registry, NEW profile \in Profiles, NEW budget \in Budget,
           IsManifest(m), NEW p \in generatePlan(m, registry, profile, budget)
    PROVE  IsPlan(p) /\ Valid(p)
<1> DEFINE ids == m.profiles[profile]
<1>1. /\ p = MakePlan(m, registry, profile, budget)
      /\ ValidManifest(m, registry) /\ ValidResources(budget)
      /\ \A id \in ids : /\ m.subgates[id].cpu <= budget.cpu
                         /\ m.subgates[id].mem <= budget.mem
                         /\ m.subgates[id].requires \subseteq ids
  BY DEF generatePlan, SubgatesForProfile
<1>2. /\ ids \subseteq DOMAIN m.subgates /\ ids # {}
      /\ \A id \in ids : /\ m.subgates[id].cpu \in Nat \ {0}
                         /\ m.subgates[id].mem \in Nat \ {0}
                         /\ m.subgates[id].requires \subseteq Nat
                         /\ m.subgates[id].groups \subseteq Groups
  BY <1>1, SelectedSubgates
<1>3. /\ budget.cpu \in Nat \ {0} /\ budget.mem \in Nat \ {0}
      /\ budget.workers \in Nat \ {0}
  BY <1>1 DEF ValidResources, Budget
<1>4. /\ p.units = ids
      /\ p.cpu = [u \in ids |-> plannedResourceReservation(m, u, budget)]
      /\ p.mem = [u \in ids |-> m.subgates[u].mem]
      /\ p.slots = [u \in ids |-> 1]
      /\ p.groups = [u \in ids |-> m.subgates[u].groups]
      /\ p.requires = [u \in ids |-> m.subgates[u].requires]
      /\ p.cpuBudget = budget.cpu /\ p.memBudget = budget.mem
      /\ p.maxWorkers = budget.workers
  BY <1>1 DEF MakePlan, SubgatesForProfile
<1>5. \A u \in ids : /\ plannedResourceReservation(m, u, budget) \in Nat \ {0}
                     /\ plannedResourceReservation(m, u, budget) <= budget.cpu
  BY <1>1, <1>2, <1>3 DEF plannedResourceReservation
<1>6. ids \subseteq Nat /\ IsFiniteSet(ids)
  <2>1. DOMAIN m.subgates \subseteq Nat /\ IsFiniteSet(DOMAIN m.subgates)
    BY DEF IsManifest
  <2> QED  BY <2>1, <1>2, FS_Subset
<1>7. IsPlan(p)
  BY <1>2, <1>3, <1>4, <1>5, <1>6 DEF IsPlan
<1>8. ValidBudget(p)
  BY <1>3, <1>4 DEF ValidBudget
<1>9. ValidCommands(p)
  BY <1>1, <1>2, <1>3, <1>4, <1>5 DEF ValidCommands
<1>10. ValidDependencies(p)
  <2>1. /\ \A id \in DOMAIN m.subgates :
              m.subgates[id].requires \subseteq DOMAIN m.subgates \ {id}
        /\ \A S \in SUBSET DOMAIN m.subgates :
              S # {} => \E id \in S : m.subgates[id].requires \cap S = {}
    BY <1>1 DEF ValidManifest, validateDependencies
  <2>2. \A u \in p.units : p.requires[u] \subseteq p.units \ {u}
    BY <2>1, <1>1, <1>2, <1>4
  <2>3. Acyclic(p)
    BY <2>1, <1>2, <1>4 DEF Acyclic
  <2> QED  BY <2>2, <2>3 DEF ValidDependencies
<1> QED  BY <1>7, <1>8, <1>9, <1>10 DEF Valid

\* What the planner arranges: the certification takes the whole CPU budget.
CertificationTakesAll(p) ==
    performanceCertificationSubgateID \in p.units =>
       p.cpu[performanceCertificationSubgateID] = p.cpuBudget

\* What the planner arranges: the registry's producers are selected.
SelectsProducers(p) ==
    /\ p.profile \in {"complete", "semantic"} =>
          \A r \in DOMAIN p.registry : p.registry[r] \in p.units
    /\ p.profile = "complete" => cleanTreeFreshnessID \in p.units

\* Every generated plan reserves the whole CPU budget for the performance
\* certification, and a semantic or complete one selects the producer of
\* every registration.
THEOREM GeneratedPlansArrange ==
    ASSUME NEW m, NEW registry, NEW profile \in Profiles, NEW budget,
           NEW p \in generatePlan(m, registry, profile, budget)
    PROVE  CertificationTakesAll(p) /\ SelectsProducers(p)
<1>1. /\ p = MakePlan(m, registry, profile, budget)
      /\ validateProfiles(m) /\ validateRegistrations(m, registry)
  BY DEF generatePlan, ValidManifest
<1>2. /\ p.units = m.profiles[profile]
      /\ p.cpu = [u \in m.profiles[profile] |-> plannedResourceReservation(m, u, budget)]
      /\ p.cpuBudget = budget.cpu
      /\ p.profile = profile /\ p.registry = registry
  BY <1>1 DEF MakePlan, SubgatesForProfile
<1>3. CertificationTakesAll(p)
  BY <1>2 DEF CertificationTakesAll, plannedResourceReservation
<1>4. m.profiles["complete"] = m.profiles["semantic"] \cup {cleanTreeFreshnessID}
  BY <1>1 DEF validateProfiles
<1>5. \A r \in DOMAIN registry : registry[r] \in m.profiles["semantic"]
  BY <1>1 DEF validateRegistrations
<1>6. SelectsProducers(p)
  BY <1>2, <1>4, <1>5 DEF SelectsProducers
<1> QED  BY <1>3, <1>6

\* With such plans nothing runs beside the performance certification, in any
\* interleaving: its reservation leaves no CPU, and every other unit of a
\* validated plan needs at least one.
THEOREM CertificationAlone ==
    ASSUME \A p \in Plans : CertificationTakesAll(p)
    PROVE  Spec => []CertificationRunsAlone
<1>1. IInv => CertificationRunsAlone
  <2> DEFINE cert == performanceCertificationSubgateID
             tokens(S) == Reserved(plan.cpu, S)
  <2> SUFFICES ASSUME IInv, cert \in Active, NEW v \in Active, v # cert
               PROVE  FALSE
    BY DEF CertificationRunsAlone
  <2>1. Started /\ Valid(plan) /\ TypeOK
    BY DEF IInv, Placement
  <2>2. Active \subseteq plan.units
    BY <2>1 DEF Active, Units, TypeOK, Completions
  <2>3. plan.cpu[cert] = plan.cpuBudget
    BY <2>1, <2>2 DEF CertificationTakesAll, TypeOK
  <2>4. /\ plan.cpu[cert] \in Nat /\ plan.cpu[v] \in Nat \ {0}
        /\ plan.cpuBudget \in Nat
    BY <2>1, <2>2, ValidUnit DEF Valid, ValidCommands
  <2>5. /\ IsFiniteSet(tokens(Active))
        /\ availableCPU = plan.cpuBudget - Cardinality(tokens(Active))
        /\ availableCPU >= 0
    BY <2>1 DEF IInv, Accounting
  <2>6. Cardinality(tokens(Active)) \in Nat
    BY <2>5, FS_CardinalityType
  <2>7. /\ IsFiniteSet(tokens(Active \ {cert}))
        /\ Cardinality(tokens(Active \ {cert})) = Cardinality(tokens(Active)) - plan.cpu[cert]
    BY <2>4, <2>5, ReservedRemove
  <2>8. /\ Cardinality(tokens((Active \ {cert}) \ {v})) =
               Cardinality(tokens(Active \ {cert})) - plan.cpu[v]
        /\ Cardinality(tokens((Active \ {cert}) \ {v})) \in Nat
    BY <2>4, <2>7, ReservedRemove
  <2> HIDE DEF tokens
  <2> QED  BY <2>3, <2>4, <2>5, <2>6, <2>7, <2>8
<1> QED  BY Invariance, <1>1, PTL

\* An accepted run has passed every unit of its plan.
AcceptedIsAll == result.status = "ok" => completed = plan.units

\* With such plans, an accepted semantic or complete run has passed the
\* producer of everything the registry asks for.
THEOREM RegistryCovered ==
    ASSUME \A p \in Plans : SelectsProducers(p)
    PROVE  Spec => []SuccessCoversRegistry
<1>1. Init => AcceptedIsAll
  BY DEF Init, NoResult, AcceptedIsAll
<1>2. IInv /\ AcceptedIsAll /\ [Next]_vars => AcceptedIsAll'
  <2> SUFFICES ASSUME IInv, AcceptedIsAll, [Next]_vars PROVE AcceptedIsAll'
    OBVIOUS
  <2>1. result.status # "none" => pc = "returned"
    BY DEF IInv, Placement
  <2>2. CASE Finish
    BY <2>2 DEF Finish, Return, AcceptedIsAll
  <2>3. CASE Validate
    BY <2>1, <2>3 DEF Validate, Return, AcceptedIsAll
  <2>4. CASE SettleIdle
    BY <2>1, <2>4 DEF SettleIdle, Return, AcceptedIsAll
  <2>5. ASSUME NEW c \in channel, Receive(c) PROVE AcceptedIsAll'
    BY <2>1, <2>5 DEF Receive, AcceptedIsAll
  <2>6. CASE \/ LoopTop \/ PassDone \/ CancelExternally \/ UNCHANGED vars
             \/ \E u \in plan.units : AdmitOne(u)
             \/ \E u \in plan.units, err \in Outcomes : Work(u, err)
    BY <2>6 DEF LoopTop, PassDone, CancelExternally, vars, AdmitOne, Work, AcceptedIsAll
  <2> QED  BY <2>2, <2>3, <2>4, <2>5, <2>6 DEF Next, Scheduler, Worker
<1>3. IInv /\ AcceptedIsAll => SuccessCoversRegistry
  BY DEF IInv, TypeOK, AcceptedIsAll, SelectsProducers, SuccessCoversRegistry
<1> QED  BY Invariance, <1>1, <1>2, <1>3, PTL DEF Spec
=============================================================================
