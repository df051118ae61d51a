----------------------------- MODULE MCWorkers ------------------------------
(***************************************************************************)
(* Concurrent workers that wait for one another: the processes of a        *)
(* race-repeat run (RaceRepeat), and the passes of an analysis that share  *)
(* a cache of summaries (Constructors).  The two share no state: a         *)
(* behaviour is one of either, and the variables of the other are at rest. *)
(***************************************************************************)
EXTENDS MCRaceRepeat

CONSTANTS Systems, InitiallyValid, MaxDepth, MaxSteps  \* of Constructors

VARIABLES
    asked,  \* a behaviour of Constructors
    system, claim, stack, valid, entered, hazard, failed, returned, steps,
    scanned, phase, usable, reaching, transfers, unpublished, summary,
    cache, work, given, recursive

summarizing ==
    << system, claim, stack, valid, entered, hazard, failed, returned, steps,
       scanned, phase, usable, reaching, transfers, unpublished, summary,
       cache, work, given, recursive >>

S == INSTANCE MCSummaries

\* The families alone, which depend on no constant.
Families == INSTANCE MCSummaries WITH Systems <- {}

SummarySystems == Families!MCSystems

-----------------------------------------------------------------------------
SummariesRest ==
    /\ system = [code |-> << >>, passes |-> << >>] /\ claim = << >> /\ stack = << >>
    /\ valid = FALSE /\ entered = FALSE /\ hazard = FALSE /\ failed = FALSE
    /\ returned = FALSE /\ steps = 0
    /\ scanned = << >> /\ phase = "rests" /\ usable = << >> /\ reaching = << >>
    /\ transfers = << >> /\ unpublished = {} /\ summary = << >>
    /\ cache = << >> /\ work = << >> /\ given = {} /\ recursive = << >>

\* A command that has returned.
RaceRepeatRests ==
    /\ input = << >> /\ ws = 0 /\ started = 0 /\ timing = << >> /\ built = << >> /\ plan = {}
    /\ selected = << >> /\ next = 0 /\ feeder = "closed" /\ worker = << >> /\ cancelled = FALSE
    /\ results = {} /\ firstErr = NoError /\ runs = << >> /\ pc = "failed"

WorkersInit ==
    /\ asked \in BOOLEAN
    /\ IF asked THEN S!Init /\ RaceRepeatRests ELSE Init /\ SummariesRest

\* Passes that have their answers may stop.
WorkersNext ==
    /\ \/ ~asked /\ Next /\ UNCHANGED summarizing
       \/ asked /\ (S!Next \/ UNCHANGED summarizing) /\ UNCHANGED vars
    /\ UNCHANGED asked

\* Each half is fair to the goroutines of its own program.
WorkersSpec ==
    /\ WorkersInit
    /\ [][WorkersNext]_<< asked, vars, summarizing >>
    /\ WF_vars(~asked /\ Program)
    /\ S!Fairness

-----------------------------------------------------------------------------
(* The properties of the summaries, in their behaviours. *)

\* A recursive summary does not depend on the order of the maps
\* (protocol_recursive_validation.go).
OrderIndependent == asked => S!OrderIndependent

\* An answer covers every call of the procedure it is about (cfa_summary.go).
AnswersAreSound == asked => S!AnswersAreSound

\* A constructor found safe returns a valid value or an error.
ConstructorsAreSound == asked => S!ConstructorsAreSound

\* No pass waits for another one for ever (calleeSummaryCache).
EveryAskIsAnswered == asked => S!EveryAskIsAnswered
=============================================================================
