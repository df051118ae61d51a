----------------------------- MODULE RaceRepeat -----------------------------
(***************************************************************************)
(* The race-repeat command (cmd/race-repeat, internal/racerepeat): it      *)
(* builds the test binary of the analyzer in a normal and a race mode,     *)
(* plans work units that run every test once per mode and iteration,       *)
(* selects the group of units this process is responsible for, runs them   *)
(* in a pool of goroutines, and accepts the result when the workspace is   *)
(* the one it started from.                                                *)
(*                                                                         *)
(* Test names are numbers in lexical order; digests are the workspace      *)
(* version that was read.  Versions do not recur: an edit that is undone   *)
(* between the two digests is not noticed by the code.                     *)
(***************************************************************************)
EXTENDS Integers, Sequences, FiniteSets, FiniteSetsExt

CONSTANTS
    Inputs,     \* the command lines and workspace histories considered
    MaxEdits,   \* how often the workspace may change during a run
    LexicalPosition(_, _, _)    \* where "%s-%02d-%02d" of a mode, an iteration
                                \* and a shard stands among such identities

Modes == {"normal", "race"}

\* The samples of a manifest that BuildTimingManifest and Validate accept: at
\* least one, each with a pass of every test of a census that is not empty.
IsSamples(samples) ==
    /\ Len(samples) \in Nat \ {0} /\ DOMAIN samples = 1..Len(samples)
    /\ IsFiniteSet(DOMAIN samples[1]) /\ DOMAIN samples[1] # {}
    /\ \A i \in DOMAIN samples :
          /\ DOMAIN samples[i] = DOMAIN samples[1]
          /\ \A m \in DOMAIN samples[i] :
                LET s == samples[i][m]
                IN  /\ s.top \in Nat /\ IsFiniteSet(DOMAIN s.nested)
                    /\ \A c \in DOMAIN s.nested : s.nested[c] \in Nat

\* ParseWorkGroup, resolveWorkerResources and NewPlan check the numbers.
IsInput(in) ==
    /\ in.shards \in Nat \ {0} /\ in.repeat \in Nat \ {0} /\ in.workers \in Nat \ {0}
    /\ in.group # <<>> => in.group[2] \in Nat /\ in.group[1] \in 1..in.group[2]
    /\ \A v \in 0..MaxEdits :
          /\ IsSamples(in.trees[v].samples)
          /\ \A m \in Modes : IsFiniteSet(in.trees[v][m]) /\ in.trees[v][m] \subseteq Int

\* Identities that differ in a part are different strings.
IsLexical(in) ==
    \A m, n \in Modes : \A i, j \in 1..in.repeat : \A s, t \in 1..in.shards :
       /\ LexicalPosition(m, i, s) \in Nat
       /\ LexicalPosition(m, i, s) = LexicalPosition(n, j, t) => m = n /\ i = j /\ s = t

ASSUME MaxEditsAssumption == MaxEdits \in Nat
ASSUME InputsAssumption == \A in \in Inputs : IsInput(in) /\ IsLexical(in)

VARIABLES
    input,      \* [trees, shards, repeat, group, workers]
    ws,         \* the current version of the workspace
    started,    \* the version of the initial workspace digest
    timing,     \* [manifest, digest]: the version each of the two reads saw
    built,      \* the version each test binary was built from
    plan,       \* the set of work units, {} before planning
    selected,   \* the identities of the units of this process, in order
    next,       \* index of the unit the feeder offers
    feeder,     \* "feeding" or "closed" (the jobs channel)
    worker,     \* the goroutines of the pool
    cancelled,  \* workerCtx is done
    results,    \* units whose result the collector appended, with status
    firstErr,   \* the first error the collector received
    runs,       \* ghost: how often each unit's command was started
    pc

pool == <<next, feeder, worker, cancelled, results, firstErr, runs>>
vars == <<input, ws, started, timing, built, plan, selected, pool, pc>>

NoError == [unit |-> 0, status |-> "none"]

(***************************************************************************)
(* Timing manifests.                                                       *)
(***************************************************************************)

\* The value at index len/2 of the sorted durations.
UpperMedian(d) ==
    CHOOSE v \in {d[i] : i \in DOMAIN d} :
       /\ Cardinality({i \in DOMAIN d : d[i] < v}) <= Len(d) \div 2
       /\ Cardinality({i \in DOMAIN d : d[i] <= v}) > Len(d) \div 2

\* One entry per test of the captured census, from a sequence of samples
\* [test -> [top: Nat, nested: [case -> Nat]]].
BuildTimingManifest(samples) ==
    [m \in DOMAIN samples[1] |->
       LET cases == UNION {DOMAIN samples[i][m].nested : i \in DOMAIN samples}
           longest == Max({0} \cup UNION {{samples[i][m].nested[c] : c \in DOMAIN samples[i][m].nested}
                                             : i \in DOMAIN samples})
       IN  [weight |-> Max({UpperMedian([i \in DOMAIN samples |-> Max({samples[i][m].top, 1})]), longest}),
            nested |-> Cardinality(cases)]]

\* A test the manifest does not know gets the largest weight it has.
Resolve(manifest, census) ==
    [m \in census |->
       IF m \in DOMAIN manifest THEN manifest[m]
       ELSE [weight |-> Max({manifest[k].weight : k \in DOMAIN manifest}), nested |-> 0]]

Weight(entries) == [m \in DOMAIN entries |-> entries[m].weight]

\* The sum of the weights of S: an element that weighs n is n tokens.
Total(weight, S) == Cardinality(UNION {{e} \X (1..weight[e]) : e \in S})

ValidateNestedFamilies(entries, shards) ==
    LET target == Total(Weight(entries), DOMAIN entries) \div shards
    IN  \A m \in DOMAIN entries : entries[m].nested >= 2 => entries[m].weight <= 2 * target

(***************************************************************************)
(* Allocation: longest first, each to the lightest bin so far.             *)
(***************************************************************************)

\* The elements of S by descending weight, ties by ascending rank.
Descending(S, weight, rank) ==
    [i \in 1..Cardinality(S) |->
       CHOOSE e \in S :
          Cardinality({x \in S : \/ weight[x] > weight[e]
                                 \/ weight[x] = weight[e] /\ rank[x] < rank[e]}) = i - 1]

LightestButLast(load) ==
    LET bins == 1..Max({1, Len(load) - 1})
    IN  CHOOSE i \in bins : \A j \in bins : load[i] < load[j] \/ (load[i] = load[j] /\ i <= j)

Lightest(load) ==
    CHOOSE i \in DOMAIN load :
       \A j \in DOMAIN load : load[i] < load[j] \/ (load[i] = load[j] /\ i <= j)

\* Both allocators.  bins[k] holds the one allocation of the first k elements.
Greedy(order, weight, count) ==
    LET Put(allocation, e) ==
          {[allocation EXCEPT ![i] = @ \cup {e}] :
             i \in {Lightest([j \in 1..count |-> Total(weight, allocation[j])])}}
        bins[k \in 0..Len(order)] ==
          IF k = 0 THEN {[i \in 1..count |-> {}]}
          ELSE UNION {Put(allocation, order[k]) : allocation \in bins[k - 1]}
    IN  CHOOSE allocation \in bins[Len(order)] : TRUE

AllocateLPT(entries, shards) ==
    LET weight == Weight(entries)
        ids == [m \in DOMAIN entries |-> m]
    IN  Greedy(Descending(DOMAIN entries, weight, ids), weight, shards)

Iterations(mode, repeat) == IF mode = "race" THEN {1} ELSE 1..repeat

buildWorkUnits(entries, shards, repeat) ==
    LET shard == AllocateLPT(entries, shards)
    IN  UNION {{[mode |-> mode, iteration |-> i, shard |-> s, members |-> shard[s],
                 weight |-> Total(Weight(entries), shard[s])]
                   : i \in Iterations(mode, repeat), s \in 1..shards} : mode \in Modes}

\* The order of the identities.
Rank(units) == [u \in units |-> LexicalPosition(u.mode, u.iteration, u.shard)]

\* Exact coverage of the census by every iteration of every mode.
validateWorkUnits(units, census, repeat, shards) ==
    \A mode \in Modes : \A i \in Iterations(mode, repeat) :
       LET here == {u \in units : u.mode = mode /\ u.iteration = i}
       IN  /\ UNION {u.members : u \in here} = census
           /\ \A u, v \in here : u # v => u.members \cap v.members = {}
           /\ \A u \in here : u.members # {} /\ u.weight > 0
           /\ Cardinality(here) = shards

effectiveGroupWeight(units) ==
    [u \in units |-> Max({1, IF u.mode = "race" THEN 4 * u.weight ELSE u.weight})]

WorkGroups(units, count) ==
    LET weight == effectiveGroupWeight(units)
    IN  Greedy(Descending(units, weight, Rank(units)), weight, count)

\* The identities of units, in the order the plan lists them.
InOrder(units) ==
    LET ids == {Rank(units)[u] : u \in units}
    IN  [i \in 1..Cardinality(ids) |-> CHOOSE k \in ids : Cardinality({j \in ids : j < k}) = i - 1]

(***************************************************************************)
(* The command.                                                            *)
(***************************************************************************)
Tree(v) == input.trees[v]

Ready == [state |-> "idle", unit |-> 0, status |-> "none"]

Init ==
    /\ input \in Inputs
    /\ ws = 0 /\ started = -1
    /\ timing = [manifest |-> -1, digest |-> -1]
    /\ built = [m \in Modes |-> -1]
    /\ plan = {} /\ selected = <<>>
    /\ next = 1 /\ feeder = "feeding" /\ worker = <<>> /\ cancelled = FALSE
    /\ results = {} /\ firstErr = NoError /\ runs = << >>
    /\ pc = "start"

Step(from, to) == pc = from /\ pc' = to

Fails(from) ==
    Step(from, "failed") /\ UNCHANGED <<input, ws, started, timing, built, plan, selected, pool>>

InitialDigest ==
    /\ Step("start", "timing") /\ started' = ws
    /\ UNCHANGED <<input, ws, timing, built, plan, selected, pool>>

\* The manifest is decoded from one read and its digest taken from another.
LoadTimingManifest ==
    /\ Step("timing", "timing-digest") /\ timing' = [timing EXCEPT !.manifest = ws]
    /\ UNCHANGED <<input, ws, started, built, plan, selected, pool>>

DigestTiming ==
    /\ Step("timing-digest", "normal") /\ timing' = [timing EXCEPT !.digest = ws]
    /\ UNCHANGED <<input, ws, started, built, plan, selected, pool>>

\* go test -c, for one mode and then the other.
BuildBinary(mode) ==
    /\ Step(mode, IF mode = "normal" THEN "race" ELSE "plan")
    /\ built' = [built EXCEPT ![mode] = ws]
    /\ UNCHANGED <<input, ws, started, timing, plan, selected, pool>>

BuildFails == \E mode \in Modes : Fails(mode)

Census(mode) == Tree(built[mode])[mode]
Manifest == BuildTimingManifest(Tree(timing.manifest).samples)

Plannable ==
    /\ Census("normal") = Census("race")
    /\ DOMAIN Manifest \subseteq Census("normal")
    /\ ValidateNestedFamilies(Resolve(Manifest, Census("normal")), input.shards)
    /\ input.shards <= Cardinality(Census("normal"))

NewPlan ==
    /\ pc = "plan" /\ Plannable
    /\ \E units \in {buildWorkUnits(Resolve(Manifest, Census("normal")), input.shards, input.repeat)} :
          IF validateWorkUnits(units, Census("normal"), input.repeat, input.shards)
          THEN Step("plan", "select") /\ plan' = units
          ELSE Step("plan", "invalid-plan") /\ plan' = plan
    /\ UNCHANGED <<input, ws, started, timing, built, selected, pool>>

RejectPlan == pc = "plan" /\ ~Plannable /\ Fails("plan")

\* All units, or one group of a partition that every process computes alike.
SelectWorkGroup ==
    /\ pc = "select"
    /\ input.group # <<>> => input.group[2] <= Cardinality(plan)
    /\ \E group \in {IF input.group = <<>> THEN plan
                     ELSE WorkGroups(plan, input.group[2])[input.group[1]]} :
          IF group = {}
          THEN pc' = "empty-group" /\ UNCHANGED <<selected, worker, runs>>
          ELSE /\ pc' = "execute"
               /\ selected' = InOrder(group)
               /\ worker' = [w \in 1..Min({input.workers, Cardinality(group)}) |-> Ready]
               /\ runs' = [i \in 1..Cardinality(group) |-> 0]
    /\ UNCHANGED <<input, ws, started, timing, built, plan, next, feeder, cancelled, results, firstErr>>

TooManyGroups ==
    input.group # <<>> /\ input.group[2] > Cardinality(plan) /\ Fails("select")

(***************************************************************************)
(* executePlan: a feeder, the workers and a collector, joined by two       *)
(* unbuffered channels and one cancellable context.                        *)
(***************************************************************************)
Pool(w) == worker[w].state

\* case jobs <- unit: chosen at random against a context that is done too.
FeedJob(w) ==
    /\ pc = "execute" /\ feeder = "feeding" /\ next <= Len(selected) /\ Pool(w) = "idle"
    /\ worker' = [worker EXCEPT ![w] = [@ EXCEPT !.state = "running", !.unit = selected[next]]]
    /\ next' = next + 1
    /\ runs' = [runs EXCEPT ![next] = @ + 1]
    /\ UNCHANGED <<input, ws, started, timing, built, plan, selected, feeder, cancelled, results, firstErr, pc>>

FeederStopsSilently ==
    /\ pc = "execute" /\ feeder = "feeding"
    /\ next > Len(selected) \/ cancelled
    /\ feeder' = IF cancelled THEN "stopped" ELSE "closed"
    /\ UNCHANGED <<input, ws, started, timing, built, plan, selected, next, worker, cancelled, results, firstErr, runs, pc>>

\* The deferred close(jobs), after the last unit or when the context is done.
FeederStops ==
    /\ pc = "execute" /\ feeder = "feeding"
    /\ next > Len(selected) \/ cancelled
    /\ feeder' = "closed"
    /\ UNCHANGED <<input, ws, started, timing, built, plan, selected, next, worker, cancelled, results, firstErr, runs, pc>>

\* What executeWorkUnit may return.  The unit's context decides the status when
\* it is done: cancelled by a peer, or timed out before that.  "inexact" is a
\* passing command whose tests did not each run and pass exactly once;
\* "unwritable" is an error that leaves no result.
Statuses ==
    IF cancelled THEN {"canceled", "timed-out", "unwritable"}
    ELSE {"passed", "failed", "timed-out", "inexact", "unwritable"}

executeWorkUnitCancels(w, status) ==
    /\ pc = "execute" /\ Pool(w) = "running" /\ status \in Statuses
    /\ worker' = [worker EXCEPT ![w] = [@ EXCEPT !.state = "sending", !.status = status]]
    /\ cancelled' = (cancelled \/ status # "passed")
    /\ UNCHANGED <<input, ws, started, timing, built, plan, selected, next, feeder, results, firstErr, runs, pc>>

executeWorkUnit(w, status) ==
    /\ pc = "execute" /\ Pool(w) = "running" /\ status \in Statuses
    /\ worker' = [worker EXCEPT ![w] = [@ EXCEPT !.state = "sending", !.status = status]]
    /\ UNCHANGED <<input, ws, started, timing, built, plan, selected, next, feeder, cancelled, results, firstErr, runs, pc>>

\* ParseWorkResult fails unless the status is "passed" and every observation exact.
Erroneous(status) == status # "passed"

\* outcomes <- outcome: the send completes when the collector has received it.
SendOutcome(w) ==
    LET o == [unit |-> worker[w].unit, status |-> worker[w].status]
    IN  /\ pc = "execute" /\ Pool(w) = "sending"
        /\ results' = IF o.status = "unwritable" THEN results ELSE results \cup {o}
        /\ firstErr' = IF Erroneous(o.status) /\ firstErr = NoError THEN o ELSE firstErr
        /\ worker' = [worker EXCEPT ![w] = IF Erroneous(o.status) THEN [@ EXCEPT !.state = "failing"]
                                                                  ELSE Ready]
        /\ UNCHANGED <<input, ws, started, timing, built, plan, selected, next, feeder, cancelled, runs, pc>>

Cancel(w) ==
    /\ pc = "execute" /\ Pool(w) = "failing"
    /\ cancelled' = TRUE
    /\ worker' = [worker EXCEPT ![w] = Ready]
    /\ UNCHANGED <<input, ws, started, timing, built, plan, selected, next, feeder, results, firstErr, runs, pc>>

WorkerEnds(w) ==
    /\ pc = "execute" /\ Pool(w) = "idle" /\ feeder = "closed"
    /\ worker' = [worker EXCEPT ![w] = [@ EXCEPT !.state = "ended"]]
    /\ UNCHANGED <<input, ws, started, timing, built, plan, selected, next, feeder, cancelled, results, firstErr, runs, pc>>

\* outcomes is closed when every worker has ended.
executePlan ==
    /\ pc = "execute" /\ \A w \in DOMAIN worker : Pool(w) = "ended"
    /\ pc' = IF firstErr # NoError THEN "failed"
             ELSE IF Cardinality(results) # Len(selected) THEN "incomplete" ELSE "final"
    /\ UNCHANGED <<input, ws, started, timing, built, plan, selected, pool>>

FinalDigest ==
    /\ Step("final", IF ws = started THEN "accepted" ELSE "failed")
    /\ UNCHANGED <<input, ws, started, timing, built, plan, selected, pool>>

\* Another process edits the repository.
Edit ==
    /\ ws < MaxEdits /\ ws' = ws + 1
    /\ pc \notin {"failed", "accepted"}
    /\ UNCHANGED <<input, started, timing, built, plan, selected, pool, pc>>

Ended == {"accepted", "failed", "invalid-plan", "empty-group", "incomplete"}

Returned == pc \in Ended /\ UNCHANGED vars

Program ==
    \/ InitialDigest
    \/ LoadTimingManifest
    \/ DigestTiming
    \/ \E mode \in Modes : BuildBinary(mode)
    \/ BuildFails
    \/ NewPlan
    \/ RejectPlan
    \/ SelectWorkGroup
    \/ TooManyGroups
    \/ FeederStops
    \/ \E w \in DOMAIN worker :
          \/ FeedJob(w)
          \/ \E status \in Statuses : executeWorkUnit(w, status)
          \/ SendOutcome(w)
          \/ Cancel(w)
          \/ WorkerEnds(w)
    \/ executePlan
    \/ FinalDigest

Next == Program \/ Edit \/ Returned

\* Every step of the command ends: the unit's context kills a test command that
\* outlives its deadline, and WaitDelay bounds the wait for its pipes.
Spec == Init /\ [][Next]_vars /\ WF_vars(Program)

(***************************************************************************)
(* Properties.                                                             *)
(***************************************************************************)

\* "The union of all groups is the exact plan work-unit set and no unit appears
\* twice" (groups.go), no group is empty, and the planner never produces a plan
\* that its own coverage check rejects: across the processes of all groups each
\* test runs once in race mode and once in every normal iteration.
PlanIsPartitioned ==
    /\ pc \notin {"invalid-plan", "empty-group"}
    /\ pc = "select" =>
         \A count \in 1..Cardinality(plan) :
            LET groups == WorkGroups(plan, count)
            IN  /\ UNION {groups[i] : i \in 1..count} = plan
                /\ \A i, j \in 1..count : i # j => groups[i] \cap groups[j] = {}
                /\ \A i \in 1..count : groups[i] # {}

\* Timing balance: a shard without its lightest test is never heavier than
\* another shard, and a group without its lightest unit never heavier than
\* another group, although weights are defaulted and race units count fourfold.
LoadIsBalanced ==
    pc = "select" =>
       /\ \A u, v \in {x \in plan : x.mode = "normal" /\ x.iteration = 1} :
             LET weight == Weight(Resolve(Manifest, Census("normal")))
             IN  u.weight - Min({weight[m] : m \in u.members}) <= v.weight
       /\ input.group # <<>> /\ input.group[2] <= Cardinality(plan) =>
             LET weight == effectiveGroupWeight(plan)
                 groups == WorkGroups(plan, input.group[2])
             IN  \A i, j \in DOMAIN groups :
                    Total(weight, groups[i]) - Min({weight[u] : u \in groups[i]})
                       <= Total(weight, groups[j])

\* Work groups partition the plan, and evenly, for every manifest and group count.
PlanIsExactAndBalanced == PlanIsPartitioned /\ LoadIsBalanced

\* Success is exhaustive: every selected unit was started exactly once, every
\* one of them passed exactly, and the workspace of the final digest is the one
\* both binaries were built from and both reads of the manifest saw.
SuccessIsExhaustive ==
    pc = "accepted" =>
       /\ \A i \in DOMAIN selected : runs[i] = 1
       /\ results = {[unit |-> selected[i], status |-> "passed"] : i \in DOMAIN selected}
       /\ {started, timing.manifest, timing.digest, built["normal"], built["race"]} = {ws}

\* The error a run returns is a unit's own: an outcome is received before its
\* worker cancels the context, so a unit killed for another's failure never
\* hides that failure; and no error means no missing result.
FirstErrorIsGenuine ==
    /\ firstErr # NoError => firstErr.status # "canceled"
    /\ pc # "incomplete"

\* Whatever the pool returns is true: success of all of its work, an error of its cause.
OutcomeIsGenuine == SuccessIsExhaustive /\ FirstErrorIsGenuine

\* The command returns: no goroutine waits forever for another one.
EventuallyReturns == <>(pc \in Ended)
=============================================================================
