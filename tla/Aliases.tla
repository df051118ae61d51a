------------------------------ MODULE Aliases ------------------------------
(***************************************************************************)
(* The alias analysis of one SSA function (protocol_alias_analysis.go over *)
(* the identities of protocol_identity.go), the matcher that asks it       *)
(* whether a value is the tracked one (cfa_ssa_alias.go), and the function *)
(* itself, executed afterwards so that what the analysis claims at an      *)
(* instruction can be compared with what holds there.                      *)
(*                                                                         *)
(* A function is [params, pointers, cast, pinned, blocks]; a block is its  *)
(* instructions and its successors. Instructions carry op and:             *)
(*   "alloc" dst            "make" dst (another value)   "cast" dst, of    *)
(*   "copy" dst, of         "field" dst, of, field (a static index too)    *)
(*   "index" dst, of (dynamic)      "phi" dst, edges (predecessor -> value)*)
(*   "load" dst, of         "store" of, val, global      "escape" val      *)
(*   "closure" dst, free, of (the value free is bound to), escapes         *)
(*   "use" of (a method call on it)       "useFree" of (the same, on what  *)
(*   a free variable of a closure refers to, in the called closure, which  *)
(*   writes nothing)                                                       *)
(***************************************************************************)
EXTENDS Integers, Sequences, FiniteSets, Functions, TLC

CONSTANTS
    Programs,   \* the functions analysed
    MaxForeign, \* bound: cells that hold what another goroutine wrote
    MaxSteps    \* bound: instructions executed after the analysis

VARIABLES
    program,  \* the function
    queue,    \* blocks waiting, in order; inQueue is membership
    cursor,   \* the next instruction of the block under analysis, << >> between blocks
    state,    \* the snapshot before it
    reached,  \* blocks processed at least once
    out,      \* reached block -> snapshot after it
    before,   \* instruction -> snapshot before it
    pc,       \* next instruction executed: << block, index >>, << >> before and after
    env,      \* SSA value -> object it holds
    heap,     \* written cell -> object
    leaked,   \* objects other goroutines may hold
    steps     \* instructions executed

analysis == << queue, cursor, state, reached, out, before >>
execution == << pc, env, heap, leaked, steps >>
vars == << program, analysis, execution >>

Blocks == 1..Len(program.blocks)
InstructionsOf(b) == program.blocks[b].instrs
Preds(b) == {p \in Blocks : b \in Range(program.blocks[p].succs)}
Instructions == UNION {{<< b, k >> : k \in 1..Len(InstructionsOf(b))} : b \in Blocks}
At(i) == InstructionsOf(i[1])[i[2]]

Defines(i, v) == "dst" \in DOMAIN At(i) /\ At(i).dst = v
DefOf(v) == At(CHOOSE i \in Instructions : Defines(i, v))
IsOp(v, op) == \E i \in Instructions : Defines(i, v) /\ At(i).op = op

-----------------------------------------------------------------------------
(* Identities: a value, or a cell named by a path from a value. Two         *)
(* addresses of one field of one base share an identity. *)

\* internValue; a field address of a field address has a longer path.
IdentityOf(v) ==
    IF ~IsOp(v, "field") THEN << v >>
    ELSE LET base == DefOf(v).of
         IN  IF IsOp(base, "field")
             THEN << DefOf(base).of, DefOf(base).field, DefOf(v).field >>
             ELSE << base, DefOf(v).field >>

\* identityIsFreshAllocation.
IsFreshAllocation(object) == Len(object) = 1 /\ IsOp(object[1], "alloc")

-----------------------------------------------------------------------------
(* Snapshots: two sets of bindings, of values and of memory cells. *)

NoBindings == [must |-> << >>, ambiguous |-> {}, possible |-> << >>]
EmptySnapshot == [values |-> NoBindings, memory |-> NoBindings]

Without(f, x) == Restrict(f, DOMAIN f \ {x})

Bind(b, x, object) ==
    [must      |-> (x :> object) @@ b.must,
     ambiguous |-> b.ambiguous \ {x},
     possible  |-> Without(b.possible, x)]

\* markAmbiguous for every name may has: a name without candidates may be anything.
MarkAmbiguous(b, may) ==
    LET bounded == {x \in DOMAIN may : may[x] # {}}
    IN  [must      |-> Restrict(b.must, DOMAIN b.must \ DOMAIN may),
         ambiguous |-> b.ambiguous \cup DOMAIN may,
         possible  |-> Restrict(may, bounded)
                         @@ Restrict(b.possible, DOMAIN b.possible \ DOMAIN may)]

Resolution(b, x) ==
    IF x \in b.ambiguous THEN "ambiguous"
    ELSE IF x \in DOMAIN b.must THEN "must" ELSE "unknown"

PossibleObjects(b, x) ==
    IF x \in DOMAIN b.must THEN {b.must[x]}
    ELSE IF x \in DOMAIN b.possible THEN b.possible[x] ELSE {}

MayResolveTo(b, x, object) ==
    IF x \in DOMAIN b.must THEN b.must[x] = object
    ELSE /\ x \in b.ambiguous
         /\ x \in DOMAIN b.possible => object \in b.possible[x]

\* copyBinding: what one name resolves to, under another.
CopyBinding(b, x, source) ==
    IF Resolution(b, source) = "must" THEN Bind(b, x, b.must[source])
    ELSE MarkAmbiguous(b, x :> PossibleObjects(b, source))

\* markMemoryAmbiguous: a cell may also hold what it held, and with something new to hold
\* keeps its other candidates.
WeakenCells(m, cells, objects) ==
    MarkAmbiguous(m, [cell \in cells |->
        IF objects = {} /\ cell \notin DOMAIN m.must THEN {}
        ELSE objects \cup PossibleObjects(m, cell)])

StoreInto(s, address, value) ==
    LET cells == PossibleObjects(s.values, address)
    IN  [s EXCEPT !.memory =
            IF cells = {} THEN WeakenCells(@, DOMAIN @.must, {})
            ELSE IF Cardinality(cells) = 1 /\ Resolution(s.values, value) = "must"
            THEN Bind(@, CHOOSE c \in cells : TRUE, s.values.must[value])
            ELSE WeakenCells(@, cells, PossibleObjects(s.values, value))]

PossibleMemoryObjects(s, address) ==
    UNION {PossibleObjects(s.memory, cell) : cell \in PossibleObjects(s.values, address)}

ResolveMemory(s, address) ==
    IF /\ Resolution(s.values, address) = "must"
       /\ s.values.must[address] \in DOMAIN s.memory.must
    THEN "must"
    ELSE IF PossibleMemoryObjects(s, address) = {} THEN "unknown" ELSE "ambiguous"

PointeeOf(s, address) == s.memory.must[s.values.must[address]]

LoadFrom(s, x, address) ==
    [s EXCEPT !.values = IF ResolveMemory(s, address) = "must"
                         THEN Bind(@, x, PointeeOf(s, address))
                         ELSE MarkAmbiguous(@, x :> PossibleMemoryObjects(s, address))]

\* bindDerivedAddress: the cell of a field, under every object the base may be. A cell of
\* a fresh allocation holds its own zero value.
BindDerivedAddress(s, x, base, field) ==
    LET objects == PossibleObjects(s.values, base)
        derived == {Append(o, field) : o \in objects}
        fresh   == {Append(o, field) : o \in {p \in objects : IsFreshAllocation(p)}}
                     \ (DOMAIN s.memory.must \cup s.memory.ambiguous)
    IN  [values |-> IF Resolution(s.values, base) = "must"
                    THEN Bind(s.values, x, Append(s.values.must[base], field))
                    ELSE MarkAmbiguous(s.values, x :> derived),
         memory |-> [s.memory EXCEPT !.must = [c \in fresh |-> c] @@ @]]

\* escapeProtocolValue, of a value that may carry a mutable identity: the cells it may name
\* become uncertain, and so does every name of the object (killObject).
EscapeValue(s, v) ==
    LET x      == IdentityOf(v)
        cells  == PossibleObjects(s.values, x)
        object == IF Resolution(s.values, x) = "must" THEN s.values.must[x] ELSE x
        names  == {x} \cup {n \in DOMAIN s.values.must : s.values.must[n] = object}
    IN  IF v \notin program.pointers THEN s
        ELSE [values |-> IF Resolution(s.values, x) = "ambiguous"
                         THEN MarkAmbiguous(s.values, x :> cells)
                         ELSE MarkAmbiguous(s.values, [n \in names |-> {object}]),
              memory |-> MarkAmbiguous(s.memory,
                            [c \in cells |-> PossibleObjects(s.memory, c)])]

-----------------------------------------------------------------------------
(* Joins. *)

\* A join that keeps an alias only one predecessor has.
JoinAnyBindings(all) ==
    LET names  == UNION {DOMAIN b.must \cup b.ambiguous : b \in all}
        may    == [x \in names |-> UNION {PossibleObjects(b, x) : b \in all}]
        agreed == {x \in names : Cardinality(may[x]) = 1}
    IN  [must      |-> [x \in agreed |-> CHOOSE o \in may[x] : TRUE],
         ambiguous |-> names \ agreed,
         possible  |-> Restrict(may, {x \in names \ agreed : may[x] # {}})]

\* joinProtocolAliasBindings, of all the predecessors at once.
JoinBindings(all) ==
    LET names  == UNION {DOMAIN b.must \cup b.ambiguous : b \in all}
        may    == [x \in names |-> UNION {PossibleObjects(b, x) : b \in all}]
        agreed == {x \in names : /\ \A b \in all : x \in DOMAIN b.must
                                 /\ Cardinality(may[x]) = 1}
    IN  [must      |-> [x \in agreed |-> CHOOSE o \in may[x] : TRUE],
         ambiguous |-> names \ agreed,
         possible  |-> Restrict(may, {x \in names \ agreed : may[x] # {}})]

\* protocolAliasInputState: parameters and free variables are their own objects; a block
\* with no reached predecessor has no input.
InputState(b) ==
    IF b = 1
    THEN [EmptySnapshot EXCEPT !.values.must = [x \in {<< p >> : p \in program.params} |-> x]]
    ELSE LET ready == Preds(b) \cap reached
         IN  [values |-> JoinBindings({out[p].values : p \in ready}),
              memory |-> JoinBindings({out[p].memory : p \in ready})]

\* transferProtocolPhi, from the outputs of the reached predecessors.
BindPhi(s, x, phi, b) ==
    LET ready   == {p \in DOMAIN phi.edges : p \in reached}
        edge(p) == IdentityOf(phi.edges[p])
        objects == UNION {PossibleObjects(out[p].values, edge(p)) : p \in ready}
        allMust == \A p \in ready : Resolution(out[p].values, edge(p)) = "must"
    IN  [s EXCEPT !.values = IF allMust /\ Cardinality(objects) = 1
                             THEN Bind(@, x, CHOOSE o \in objects : TRUE)
                             ELSE MarkAmbiguous(@, x :> objects)]

\* protocolAliasStoreEscapes: stores to a global, or to a field of one.
StoreTransfer(s, i) ==
    LET stored == StoreInto(s, IdentityOf(i.of), IdentityOf(i.val))
    IN  IF i.global THEN EscapeValue(stored, i.val) ELSE stored

\* transferProtocolAliasInstruction. Sends, map updates, go statements and returns
\* escape their operands, one after the other.
Transfer(s, i, b) ==
    CASE i.op = "store"  -> StoreTransfer(s, i)
      [] i.op = "escape" -> EscapeValue(s, i.val)
      [] i.op = "closure" ->
            LET t == IF i.escapes THEN EscapeValue(s, i.of) ELSE s
            IN  [t EXCEPT !.values = Bind(@, << i.dst >>, << i.dst >>)]
      [] i.op = "field"  -> BindDerivedAddress(s, IdentityOf(i.dst), IdentityOf(i.of), i.field)
      [] i.op = "index"  -> [s EXCEPT !.values = MarkAmbiguous(@, << i.dst >> :> {})]
      [] i.op = "phi"    -> BindPhi(s, << i.dst >>, i, b)
      [] i.op = "load"   -> LoadFrom(s, << i.dst >>, IdentityOf(i.of))
      [] i.op = "copy"   -> [s EXCEPT !.values = CopyBinding(@, << i.dst >>, IdentityOf(i.of))]
      [] i.op \in {"alloc", "make", "cast"} ->
            [s EXCEPT !.values = Bind(@, << i.dst >>, << i.dst >>)]
      [] OTHER -> s

-----------------------------------------------------------------------------
(* The worklist. *)

Init ==
    /\ program \in Programs
    /\ queue = [b \in 1..Len(program.blocks) |-> b]
    /\ cursor = << >> /\ state = EmptySnapshot
    /\ reached = {}
    /\ out = << >> /\ before = << >>
    /\ pc = << >> /\ env = << >> /\ heap = << >> /\ leaked = {} /\ steps = 0

\* analyzeProtocolAliases takes the first waiting block; one without input is dropped.
TakeBlock ==
    /\ cursor = << >> /\ queue # << >>
    /\ LET b == Head(queue)
           ready == b = 1 \/ Preds(b) \cap reached # {}
       IN  /\ cursor' = IF ready THEN << b, 1 >> ELSE << >>
           /\ state' = IF ready THEN InputState(b) ELSE EmptySnapshot
           /\ reached' = IF ready THEN reached \cup {b} ELSE reached
    /\ queue' = Tail(queue)
    /\ UNCHANGED << program, out, before, execution >>

TransferInstruction ==
    /\ cursor # << >> /\ cursor[2] <= Len(InstructionsOf(cursor[1]))
    /\ before' = (cursor :> state) @@ before
    /\ state' = Transfer(state, At(cursor), cursor[1])
    /\ cursor' = << cursor[1], cursor[2] + 1 >>
    /\ UNCHANGED << program, queue, reached, out, execution >>

\* Successors enqueued whether or not the output changed.
LeaveBlockAlways ==
    /\ cursor # << >> /\ cursor[2] > Len(InstructionsOf(cursor[1]))
    /\ LET b == cursor[1]
           more == SelectSeq(program.blocks[b].succs, LAMBDA x : x \notin Range(queue))
       IN  queue' = queue \o more /\ out' = (b :> state) @@ out
    /\ cursor' = << >> /\ state' = EmptySnapshot
    /\ UNCHANGED << program, reached, before, execution >>

\* Successors are enqueued when the output of the block changed.
LeaveBlock ==
    /\ cursor # << >> /\ cursor[2] > Len(InstructionsOf(cursor[1]))
    /\ LET b == cursor[1]
           more == SelectSeq(program.blocks[b].succs, LAMBDA x : x \notin Range(queue))
       IN  IF b \in DOMAIN out /\ out[b] = state
           THEN UNCHANGED << queue, out >>
           ELSE queue' = queue \o more /\ out' = (b :> state) @@ out
    /\ cursor' = << >> /\ state' = EmptySnapshot
    /\ UNCHANGED << program, reached, before, execution >>

Analyze == TakeBlock \/ TransferInstruction \/ LeaveBlock

Analyzed == queue = << >> /\ cursor = << >>

-----------------------------------------------------------------------------
(* The matcher: is a value, at an instruction, the tracked one? pinned is   *)
(* the matcher made for the identity of a returned value, otherwise it is   *)
(* made for a cast. *)

\* protocolValueDerivedFrom: through conversions, and phis of which every edge is derived.
DerivedFrom(source) ==
    LET definitions == {At(i) : i \in {j \in Instructions : At(j).op \in {"copy", "phi"}}}
        within[n \in Nat] ==
            IF n = 0 THEN {source}
            ELSE within[n - 1] \cup
                 {d.dst : d \in {e \in definitions :
                     IF e.op = "copy" THEN e.of \in within[n - 1]
                     ELSE Range(e.edges) \subseteq within[n - 1]}}
    IN  within[Cardinality(definitions)]

\* castStoreAddresses; a pinned matcher has none.
CastStoreAddresses ==
    IF program.pinned THEN {}
    ELSE {At(i).of : i \in {j \in Instructions :
                               At(j).op = "store" /\ At(j).val \in DerivedFrom(program.cast)}}

Origin == IdentityOf(program.cast)

OriginResolution(i) ==
    IF program.pinned THEN "must" ELSE Resolution(before[i].values, Origin)

\* What the tracked value resolves to, when that is certain.
OriginAt(i) == IF program.pinned THEN Origin ELSE before[i].values.must[Origin]

PhiResolutionAt(i, v) ==
    LET b       == before[i].values
        edges   == {IdentityOf(e) : e \in Range(DefOf(v).edges)}
        same(e) == Resolution(b, e) = "must" /\ b.must[e] = OriginAt(i)
        may(e)  == \/ same(e)
                   \/ Resolution(b, e) = "ambiguous" /\ MayResolveTo(b, e, OriginAt(i))
    IN  IF \A e \in edges : same(e) THEN "must"
        ELSE IF \E e \in edges : may(e) THEN "ambiguous" ELSE "unknown"

\* candidateLoadProvenDisjoint.
LoadProvenDisjoint(i, v) ==
    /\ IsOp(v, "load")
    /\ LET s       == before[i]
           address == IdentityOf(DefOf(v).of)
           objects == PossibleMemoryObjects(s, address)
       IN  /\ OriginAt(i) \notin objects
           /\ \/ objects # {}
              \/ /\ CastStoreAddresses # {}
                 /\ Resolution(s.values, address) = "must"
                 /\ \A a \in CastStoreAddresses :
                       /\ Resolution(s.values, IdentityOf(a)) = "must"
                       /\ s.values.must[IdentityOf(a)] # s.values.must[address]

PointeeMayAlias(i, v) == OriginAt(i) \in PossibleMemoryObjects(before[i], IdentityOf(v))

\* What the candidate resolves to: [resolution, object]. A loaded candidate is resolved
\* by what its cell holds at the instruction.
CandidateAt(i, v) ==
    LET s == before[i]
        direct  == [resolution |-> Resolution(s.values, IdentityOf(v)),
                    object |-> IF Resolution(s.values, IdentityOf(v)) = "must"
                               THEN s.values.must[IdentityOf(v)] ELSE << >>]
        pointee(address) ==
            [resolution |-> ResolveMemory(s, address),
             object |-> IF ResolveMemory(s, address) = "must" THEN PointeeOf(s, address)
                        ELSE << >>]
    IN  IF v \in program.pointers /\ program.cast \notin program.pointers
        THEN pointee(IdentityOf(v))
        ELSE IF IsOp(v, "load") /\ ResolveMemory(s, IdentityOf(DefOf(v).of)) # "unknown"
        THEN pointee(IdentityOf(DefOf(v).of)) ELSE direct

ResolutionAt(i, v) ==
    IF program.pinned /\ (v = program.cast \/ IdentityOf(v) = Origin) THEN "must"
    ELSE IF OriginResolution(i) # "must" THEN OriginResolution(i)
    ELSE IF IsOp(v, "load") /\ IdentityOf(DefOf(v).of) = OriginAt(i) THEN "must"
    ELSE IF IsOp(v, "phi") THEN PhiResolutionAt(i, v)
    ELSE LET c == CandidateAt(i, v)
             may == PossibleObjects(before[i].values, IdentityOf(v))
             throughPointer == v \in program.pointers /\ program.cast \notin program.pointers
         IN  IF c.resolution = "must"
             THEN IF c.object = OriginAt(i) THEN "must" ELSE "unknown"
             ELSE IF /\ c.resolution = "ambiguous"
                     /\ may # {} => OriginAt(i) \in may
                     /\ ~LoadProvenDisjoint(i, v)
                     /\ IF throughPointer THEN PointeeMayAlias(i, v)
                        ELSE MayResolveTo(before[i].values, IdentityOf(v), OriginAt(i))
             THEN "ambiguous" ELSE "unknown"

\* resolution: a mention of a variable, resolved where it is mentioned.
MentionResolution(i, v) ==
    LET s == before[i]
        throughPointer == v \in program.pointers /\ program.cast \notin program.pointers
        resolution == IF throughPointer THEN ResolveMemory(s, IdentityOf(v))
                      ELSE Resolution(s.values, IdentityOf(v))
        object == IF throughPointer THEN PointeeOf(s, IdentityOf(v))
                  ELSE s.values.must[IdentityOf(v)]
        may == IF throughPointer THEN PointeeMayAlias(i, v)
               ELSE MayResolveTo(s.values, IdentityOf(v), OriginAt(i))
    IN  IF OriginResolution(i) # "must" THEN OriginResolution(i)
        ELSE IF resolution = "must" THEN IF object = OriginAt(i) THEN "must" ELSE "unknown"
        ELSE IF resolution = "ambiguous" /\ may THEN "ambiguous" ELSE "unknown"

\* collectClosureBindings: what a captured variable held when the closure was made; the
\* closure is ambiguous when the variable is also stored something else.
ClosureOf(free) ==
    CHOOSE i \in Instructions : At(i).op = "closure" /\ At(i).free = free

\* Captured variables taken for constants.
NeverReassigned(binding) == FALSE

BindingReassigned(binding) ==
    \E i \in Instructions :
        /\ At(i).op = "store" /\ At(i).of = binding
        /\ ~ /\ Resolution(before[i].values, IdentityOf(At(i).val)) = "must"
             /\ before[i].values.must[IdentityOf(At(i).val)] = Origin

ClosureResolution(i, free) ==
    LET made    == ClosureOf(free)
        binding == At(made).of
        s       == before[made]
        address == IdentityOf(binding)
        held    == IF binding \in program.pointers /\ ResolveMemory(s, address) = "must"
                   THEN PointeeOf(s, address)
                   ELSE IF Resolution(s.values, address) = "must" THEN s.values.must[address]
                   ELSE << >>
        captured == IF /\ ResolveMemory(before[i], address) = "must"
                       /\ PointeeOf(before[i], address) = Origin THEN "must"
                    ELSE IF /\ ResolveMemory(before[i], address) = "ambiguous"
                            /\ Origin \in PossibleMemoryObjects(before[i], address)
                    THEN "ambiguous" ELSE "unknown"
    IN  IF ~program.pinned THEN "unknown"
        ELSE IF held # Origin THEN captured
        ELSE IF BindingReassigned(binding) THEN "ambiguous" ELSE "must"

-----------------------------------------------------------------------------
(* The execution. Objects are sequences of << name, instant >>: an          *)
(* allocation makes a new object every time, a field of an object is one    *)
(* more element. *)

Fresh(name) == << << name, steps + 1 >> >>

IsAllocated(object) == IsOp(object[1][1], "alloc")

\* A field nobody wrote holds its zero value, named as the analysis names it; a cell of
\* unknown origin holds an object nothing else refers to.
Contents(cell) ==
    IF cell \in DOMAIN heap THEN heap[cell]
    ELSE IF IsAllocated(cell) /\ Len(cell) > 1 THEN cell
    ELSE Append(cell, << "held", 0 >>)

StartExecution ==
    /\ Analyzed /\ pc = << >> /\ steps = 0
    /\ pc' = << 1, 1 >>
    /\ env' = [p \in program.params |-> << << p, 0 >> >>]
    /\ steps' = 1
    /\ UNCHANGED << program, analysis, heap, leaked >>

\* Where control may go after an instruction, with the values of the phis of a new block.
Continue(newEnv) ==
    IF pc[2] < Len(InstructionsOf(pc[1]))
    THEN pc' = << pc[1], pc[2] + 1 >> /\ env' = newEnv
    ELSE IF program.blocks[pc[1]].succs = << >>
    THEN pc' = << >> /\ env' = newEnv
    ELSE \E b \in Range(program.blocks[pc[1]].succs) :
            /\ pc' = << b, 1 >>
            /\ env' = [v \in {i.dst : i \in {j \in Range(InstructionsOf(b)) : j.op = "phi"}}
                         |-> newEnv[DefOf(v).edges[pc[1]]]] @@ newEnv

Execute ==
    /\ pc # << >> /\ steps < MaxSteps
    /\ LET i == At(pc)
           result == CASE i.op \in {"alloc", "make", "cast", "closure"} -> Fresh(i.dst)
                       [] i.op = "copy" -> env[i.of]
                       [] i.op = "field" -> Append(env[i.of], << i.field, 0 >>)
                       [] i.op = "load" -> Contents(env[i.of])
                       [] OTHER -> << >>
           results == IF i.op = "index"
                      THEN {Append(env[i.of], << f, 0 >>) : f \in {"0", "1"}} ELSE {result}
           escaping == IF i.op = "escape" \/ (i.op = "store" /\ i.global) THEN {i.val} ELSE {}
       IN  /\ \E r \in results :
                 Continue(IF "dst" \in DOMAIN i /\ i.op # "phi" THEN (i.dst :> r) @@ env ELSE env)
           /\ heap' = IF i.op = "store" THEN (env[i.of] :> env[i.val]) @@ heap ELSE heap
           /\ leaked' = leaked \cup {env[v] : v \in escaping \cap program.pointers}
    /\ steps' = steps + 1
    /\ UNCHANGED << program, analysis >>

\* The cells of a leaked object.
Exposed == leaked \cup {Append(o, << f, 0 >>) : o \in leaked,
                          f \in {At(i).field : i \in {j \in Instructions : At(j).op = "field"}}}

Foreign == << << "foreign", 0 >> >>

\* Another goroutine writes through a leaked pointer.
Interfere(cell) ==
    /\ pc # << >> /\ steps < MaxSteps
    /\ Cardinality({c \in DOMAIN heap : heap[c] = Foreign}) < MaxForeign
    /\ heap' = (cell :> Foreign) @@ heap
    /\ UNCHANGED << program, analysis, pc, env, leaked, steps >>

Finished ==
    /\ Analyzed /\ steps > 0
    /\ pc = << >> \/ steps >= MaxSteps
    /\ UNCHANGED vars

Next == Analyze \/ StartExecution \/ Execute \/ (\E c \in Exposed : Interfere(c)) \/ Finished

\* The analysis is one sequential loop.
Fairness == WF_vars(Analyze)

Spec == Init /\ [][Next]_vars /\ Fairness

-----------------------------------------------------------------------------
(* Properties. *)

\* The object an identity names now.
Named(identity) ==
    LET rest == [k \in 1..Len(identity) - 1 |-> << identity[k + 1], 0 >>]
    IN  env[identity[1]] \o rest

Executing == pc # << >> /\ pc \in DOMAIN before

\* What the analysis says a value certainly is before an instruction (resolveBefore), or
\* what the operand of the instruction certainly points at (resolvePointeeBefore), it is on
\* every execution that gets there, whatever other goroutines write through leaked pointers.
MustIsSound ==
    Executing =>
        LET s == before[pc]
        IN  /\ \A v \in DOMAIN env :
                  Resolution(s.values, IdentityOf(v)) = "must"
                    => env[v] = Named(s.values.must[IdentityOf(v)])
            /\ At(pc).op \in {"load", "store", "use"}
                 /\ ResolveMemory(s, IdentityOf(At(pc).of)) = "must"
                    => Contents(env[At(pc).of]) = Named(PointeeOf(s, IdentityOf(At(pc).of)))

\* The value a call is about: a pointer stands for what it points at, unless pointers are
\* tracked, and then a value loaded through one stands for the pointer.
Designated(v) ==
    IF program.cast \in program.pointers
    THEN IF IsOp(v, "load") /\ v \notin program.pointers THEN env[DefOf(v).of] ELSE env[v]
    ELSE IF v \in program.pointers THEN Contents(env[v]) ELSE env[v]

\* A call on a value the matcher takes for the tracked one is a call on the tracked one
\* (resolutionAt, which decides what a Validate call discharges).
MatchIsGenuine ==
    Executing /\ program.cast \in DOMAIN env =>
        LET i == At(pc)
        IN  /\ i.op = "use" /\ "must" \in {ResolutionAt(pc, i.of), MentionResolution(pc, i.of)}
                 => env[program.cast] = Designated(i.of)
            /\ i.op = "useFree" /\ ClosureResolution(pc, i.of) = "must"
                 => LET cell == env[At(ClosureOf(i.of)).of]
                    IN  env[program.cast] = Contents(cell)

\* Every worklist runs dry, although outputs are replaced and not accumulated.
WorklistsRunDry == <>Analyzed
=============================================================================
