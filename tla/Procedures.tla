----------------------------- MODULE Procedures -----------------------------
(***************************************************************************)
(* Procedures that are passed a value by pointer, and what calling one     *)
(* does to the value. A procedure is a sequence of blocks, in the order of *)
(* the source; a block is [instrs, succs, test]: it goes on to one of      *)
(* succs, and when test is not "none" to the first if that error is not    *)
(* nil and to the second if it is. Instructions are about the value:       *)
(*   "validate" dst         Validate(), its error in dst                   *)
(*   "call" dst, callee     a static call that is passed the value         *)
(*   "mutate", "replace"    a write through the pointer                    *)
(*   "escape"               a store in a variable of the package           *)
(*   "consume"              another method called on the value             *)
(*   "discard"              _ = value                                      *)
(*   "nop", "other"         nothing, and a statement about something else  *)
(*   "return" result        return the error in result, nil for "none" and *)
(*                          a new one for "new"                            *)
(*   "panic"                a call that does not return                    *)
(* In a constructor, which makes the value or obtains it from another one, *)
(*   "obtain" dst, callee   value, dst = callee()                          *)
(*   "defer" callee         defer callee(value), or a literal              *)
(* and in a literal, which shares the value and the named error "err" of   *)
(* the constructor,                                                        *)
(*   "set" dst, from        dst = from, which is like the result of return *)
(*   "exit"                 the end of the literal                         *)
(***************************************************************************)
EXTENDS Integers, Sequences, FiniteSets, Functions, TLC

CONSTANTS
    Systems,        \* sets of procedures: [root, code, ...], code : name -> blocks
    InitiallyValid, \* whether the value may be valid when it is passed
    MaxDepth,       \* bound: frames on the stack of an execution
    MaxSteps        \* bound: instructions executed

VARIABLES
    system,     \* the procedures
    claim,      \* the effects a summary gives to the procedure executed
    stack,      \* frames: [procedure, at, errors, defers, returning]
    valid,      \* the value is valid now
    entered,    \* it was when the procedure was called
    hazard,     \* it escaped or was consumed while it was not
    failed,     \* the procedure returned an error, last
    returned,   \* the execution came to an end without a panic
    steps

running == << claim, stack, valid, entered, hazard, failed, returned, steps >>

Names == DOMAIN system.code
Blocks(p) == 1..Len(system.code[p])
InstructionsOf(p) ==
    UNION {{<< b, k >> : k \in 1..Len(system.code[p][b].instrs)} : b \in Blocks(p)}
At(p, i) == system.code[p][i[1]].instrs[i[2]]
ReturnsOf(p) == {i \in InstructionsOf(p) : At(p, i).op = "return"}

\* The blocks reached from a set of blocks, without passing through those in avoiding.
Reachable(p, from, avoiding) ==
    LET within[n \in Nat] ==
            IF n = 0 THEN from \ avoiding
            ELSE UNION {seen \cup (UNION {Range(system.code[p][c].succs) : c \in seen} \ avoiding) :
                            seen \in {within[n - 1]}}
    IN  within[Len(system.code[p])]

Idle ==
    /\ claim = << >> /\ stack = << >> /\ valid = FALSE /\ entered = FALSE /\ hazard = FALSE
    /\ failed = FALSE /\ returned = FALSE /\ steps = 0

Frame(p) == [procedure |-> p, at |-> << 1, 1 >>, errors |-> << >>, defers |-> << >>,
             returning |-> FALSE]

Call(p, effects) ==
    /\ stack = << >> /\ steps = 0
    /\ stack' = << Frame(p) >> /\ claim' = effects
    /\ \E v \in InitiallyValid : valid' = v /\ entered' = v
    /\ steps' = 1
    /\ UNCHANGED << system, hazard, failed, returned >>

Top == stack[Len(stack)]
Below == SubSeq(stack, 1, Len(stack) - 1)
Here == At(Top.procedure, Top.at)

\* The frame after its current instruction, in every way control may go on.
Advance(frame) ==
    LET block == system.code[frame.procedure][frame.at[1]]
        next  == IF block.test = "none" THEN Range(block.succs)
                 ELSE {block.succs[IF frame.errors[block.test] THEN 1 ELSE 2]}
    IN  IF frame.at[2] < Len(block.instrs)
        THEN {[frame EXCEPT !.at[2] = @ + 1]}
        ELSE {[frame EXCEPT !.at = << b, 1 >>] : b \in next}

Step ==
    /\ stack # << >> /\ steps < MaxSteps
    /\ steps' = steps + 1
    /\ UNCHANGED << system, claim, entered >>

RunValidate ==
    /\ Step /\ Here.op = "validate"
    /\ \E ok \in BOOLEAN :
         /\ valid' = (valid \/ ok)
         /\ valid => ok
         /\ \E f \in Advance([Top EXCEPT !.errors = (Here.dst :> ~ok) @@ @]) :
                stack' = Append(Below, f)
    /\ UNCHANGED << hazard, failed, returned >>

RunEffect ==
    /\ Step
    /\ Here.op \in {"mutate", "replace", "escape", "consume", "discard", "nop", "other"}
    /\ valid' = (valid /\ Here.op \notin {"mutate", "replace"})
    /\ hazard' = (hazard \/ (~valid /\ Here.op \in {"escape", "consume"}))
    /\ \E f \in Advance(Top) : stack' = Append(Below, f)
    /\ UNCHANGED << failed, returned >>

RunCall ==
    /\ Step /\ Here.op \in {"call", "obtain"}
    /\ Len(stack) < MaxDepth
    /\ stack' = Append(stack, Frame(Here.callee))
    /\ valid' = (valid /\ Here.op = "call")
    /\ UNCHANGED << hazard, failed, returned >>

ErrorIn(frame, result) == result = "new" \/ (result # "none" /\ frame.errors[result])

RunSet ==
    /\ Step /\ Here.op = "set"
    /\ \E f \in Advance([Top EXCEPT !.errors = (Here.dst :> ErrorIn(Top, Here.from)) @@ @]) :
           stack' = Append(Below, f)
    /\ UNCHANGED << valid, hazard, failed, returned >>

RunDefer ==
    /\ Step /\ Here.op = "defer"
    /\ \E f \in Advance([Top EXCEPT !.defers = Append(@, Here.callee)]) :
           stack' = Append(Below, f)
    /\ UNCHANGED << valid, hazard, failed, returned >>

\* The error a frame returns: what its deferred calls left in the named error.
ErrorReturned == IF Top.returning THEN Top.errors["err"] ELSE ErrorIn(Top, Here.result)

\* The deferred calls run before the return, the last one first.
RunDeferred ==
    /\ Step /\ Here.op = "return" /\ Top.defers # << >>
    /\ Len(stack) < MaxDepth
    /\ LET named == "err" :> ErrorReturned
           frame == [Top EXCEPT !.returning = TRUE, !.errors = named @@ @,
                                !.defers = SubSeq(@, 1, Len(@) - 1)]
           callee == Top.defers[Len(Top.defers)]
       IN  stack' = Append(Below, frame) \o << [Frame(callee) EXCEPT !.errors = named] >>
    /\ UNCHANGED << valid, hazard, failed, returned >>

RunExit ==
    /\ Step /\ Here.op = "exit"
    /\ stack' = [Below EXCEPT ![Len(stack) - 1].errors["err"] = Top.errors["err"]]
    /\ UNCHANGED << valid, hazard, failed, returned >>

RunReturn ==
    /\ Step /\ Here.op = "return" /\ Top.defers = << >>
    /\ failed' = ErrorReturned
    /\ IF Len(stack) = 1 THEN stack' = << >> /\ returned' = TRUE
       ELSE LET caller == stack[Len(stack) - 1]
                call == At(caller.procedure, caller.at)
            IN  /\ IF caller.returning THEN stack' = Below
                   ELSE \E f \in Advance([caller EXCEPT !.errors =
                                              (call.dst :> ErrorReturned) @@ @]) :
                           stack' = Append(SubSeq(stack, 1, Len(stack) - 2), f)
                /\ UNCHANGED returned
    /\ UNCHANGED << valid, hazard >>

RunPanic ==
    /\ Step /\ Here.op = "panic"
    /\ stack' = << >>
    /\ UNCHANGED << valid, hazard, failed, returned >>

Execute ==
    \/ RunValidate \/ RunEffect \/ RunCall \/ RunSet \/ RunDefer \/ RunDeferred \/ RunExit
    \/ RunReturn \/ RunPanic

\* The execution is over, or stopped at a bound.
Stopped ==
    /\ steps > 0
    /\ \/ stack = << >>
       \/ steps >= MaxSteps
       \/ Here.op \in {"call", "obtain", "return"} /\ Len(stack) >= MaxDepth

-----------------------------------------------------------------------------
(* What a list of effects says of a call. "validate" is conditioned on the  *)
(* error the call returns, "ensure" on its returning at all. *)

\* protocolContinuationStateFrom: whether the value is validated after the first n effects.
ValidatedAfter(effects, from, n) ==
    LET at[k \in 0..Len(effects)] ==
            IF k = 0 THEN from
            ELSE CASE effects[k] = "ensure" -> TRUE
                   [] effects[k] \in {"mutate", "replace"} -> FALSE
                   [] OTHER -> at[k - 1]
    IN  at[n]

ContinuationValid(effects, from) == ValidatedAfter(effects, from, Len(effects))

\* Hazards: a use of the value before it is validated.
ContinuationHazard(effects, from) ==
    \E n \in 1..Len(effects) :
        effects[n] \in {"escape", "consume"} /\ ~ValidatedAfter(effects, from, n - 1)

LastOf(effects, kinds) ==
    CHOOSE n \in 0..Len(effects) :
        /\ n > 0 => effects[n] \in kinds
        /\ \A m \in n + 1..Len(effects) : effects[m] \notin kinds

\* conditionallyValidatesWithoutHazard, without its hazards: the last validation is not undone.
ConditionallyValidates(effects) ==
    LastOf(effects, {"validate", "ensure"}) > LastOf(effects, {"mutate", "replace"})

\* Its hazards: a use before there is a validation, conditioned or not.
HelperHazard(effects) ==
    \E n \in 1..Len(effects) :
        \/ effects[n] = "escape"
        \/ effects[n] = "consume" /\ ~ConditionallyValidates(SubSeq(effects, 1, n))

ConditionallyValidatesWithoutHazard(effects) ==
    /\ effects # << >> /\ "terminal" \notin Range(effects)
    /\ ConditionallyValidates(effects) /\ ~HelperHazard(effects)
=============================================================================
