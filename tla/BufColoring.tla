---------------------------- MODULE BufColoring ----------------------------
(***************************************************************************)
(* The assignment of wire buffers to the outputs of a synth definition's   *)
(* units (DoBufferColoring in SC_GraphDef.cpp).                            *)
(*                                                                         *)
(* The units of a synth compute one after the other, in the order of the   *)
(* definition.  Audio-rate outputs write a block of samples into a buffer, *)
(* and a buffer is used again as soon as all consumers of what is in it    *)
(* have computed: by counting them, and releasing one count for each input *)
(* of a unit.  A unit's outputs may get the buffers of its own inputs,     *)
(* unless the unit cannot work in place.  Demand-rate units compute when a *)
(* later unit asks them to, so their inputs are never released.            *)
(*                                                                         *)
(* A step is one turn of a loop: an input released, an output given its    *)
(* buffer, or on to the next unit.  At the end the number of buffers is    *)
(* compared with those that there are.                                     *)
(*                                                                         *)
(* Counts, indices and sizes are int16: a count is cut to 16 bits, and the *)
(* two arrays, which double from 32 entries, cannot double a second time   *)
(* at the limit, where their size is negative already.                     *)
(*                                                                         *)
(* A definition whose inputs come from later units is not considered:      *)
(* sclang sorts the units.                                                 *)
(***************************************************************************)
EXTENDS Naturals, Sequences, FiniteSets

SeqExt == INSTANCE SequencesExt

CONSTANTS
    Outs,        \* for every unit the number of its outputs
    MaxIns,      \* bound on the inputs of a unit
    Kind,        \* the kinds of units
    RefMod,      \* the counts that an int16 tells apart: 65536
    MaxBufs,     \* the indices that an int16 has room for: 32768
    UintMod,     \* 2^32, as which mNumWireBufs sees a negative nextIndex
    MaxStack,    \* how far the stack goes before its size fails it: 16385
    MaxWireBufs  \* the option mMaxWireBufs

ASSUME ColoringAssumption ==
    /\ Outs \in Seq(Nat) /\ MaxIns \in Nat
    /\ RefMod \in Nat \ {0} /\ MaxBufs \in Nat /\ MaxStack \in Nat /\ MaxWireBufs \in Nat
    /\ UintMod \in Nat /\ UintMod >= 2 * MaxBufs
    /\ Kind \subseteq {"audio", "audioNoAlias", "control", "demand"}

VARIABLES
    kind,        \* the kind of every unit
    ins,         \* its inputs: the outputs they come from
    unit,        \* the unit whose turn it is
    released,    \* how many of its inputs were looked at by ReleaseInputBuffers
    given,       \* how many of its outputs have their buffers
    pool,        \* the BufColorAllocator
    bufferIndex, \* mBufferIndex of every output
    holds,       \* for every buffer the output that was last assigned to it
    maxWireBufs, \* mMaxWireBufs of the world
    outcome      \* how DoBufferColoring ended, if it has

endVars == <<maxWireBufs, outcome>>
colorVars == <<kind, ins, unit, released, given, pool, bufferIndex, holds, endVars>>

Unit == DOMAIN Outs
Output == UNION {{u} \X (1 .. Outs[u]) : u \in Unit}
IsAudio(u) == kind[u] \in {"audio", "audioNoAlias"}

\* More buffers than outputs are never needed.
Buffer == 0 .. Cardinality(Output)
NoBuffer == Cardinality(Output) + 1

ColoringInit ==
    /\ ins \in [Unit -> SeqExt!BoundedSeq(Output, MaxIns)]
    /\ \A u \in Unit : \A i \in DOMAIN ins[u] : ins[u][i][1] < u
    /\ kind \in [Unit -> Kind]
    /\ unit = 1 /\ released = 0 /\ given = 0
    /\ pool = [refs |-> [b \in Buffer |-> 0], stack |-> <<>>, nextIndex |-> 0, error |-> FALSE]
    /\ bufferIndex = [o \in Output |-> NoBuffer]
    /\ holds = [b \in Buffer |-> <<>>]
    /\ maxWireBufs = MaxWireBufs /\ outcome = "none"
-----------------------------------------------------------------------------
\* Slip: a unit that reads an output twice is counted once.
ConsumersOnce(o) == Cardinality({u \in Unit : \E i \in DOMAIN ins[u] : ins[u][i] = o})

\* mNumConsumers, counted in the first loop: inputs, demand-rate units' too.
Consumers(o) ==
    Cardinality({r \in Unit \X (1 .. MaxIns) : r[2] <= Len(ins[r[1]]) /\ ins[r[1]][r[2]] = o})

\* BufColorAllocator::alloc: the buffer given back last, or a new one.  The
\* count is stored as an int16; release only counts down and looks for zero, so
\* that negative counts stand for the upper half.
Alloc(p, count) ==
    LET b == IF p.stack # <<>> THEN p.stack[Len(p.stack)] ELSE p.nextIndex
    IN  [index |-> b,
         pool |-> [p EXCEPT !.refs[b] = count % RefMod,
                            !.stack = IF @ # <<>> THEN SeqExt!Front(@) ELSE @,
                            !.nextIndex = IF p.stack = <<>> THEN @ + 1 ELSE @]]

\* Slip: the buffer goes back with the first release.
ReleaseAtOnce(p, b) == [p EXCEPT !.refs[b] = 0, !.stack = Append(@, b)]

\* BufColorAllocator::release; returning false makes DoBufferColoring throw.
Release(p, b) ==
    IF p.refs[b] = 0 THEN [p EXCEPT !.error = TRUE]
    ELSE [p EXCEPT !.refs[b] = @ - 1, !.stack = IF p.refs[b] = 1 THEN Append(@, b) ELSE @]

\* The inputs that ReleaseInputBuffers looks at, and the outputs that get a
\* buffer: none is released for a demand-rate unit.
NumReleases(u) == IF kind[u] = "demand" THEN 0 ELSE Len(ins[u])
NumAllocs(u) == IF IsAudio(u) THEN Outs[u] ELSE 0

\* Slip: the flag kUnitDef_CantAliasInputsToOutputs is not looked at.
AllocsFirstNever(u) == FALSE

\* The unit has the flag kUnitDef_CantAliasInputsToOutputs.
AllocsFirst(u) == kind[u] = "audioNoAlias"

Coloring == unit \in Unit /\ ~pool.error /\ outcome = "none"

\* ReleaseInputBuffers has inputs left, from the last to the first.
Releasing ==
    /\ Coloring
    /\ AllocsFirst(unit) => given = NumAllocs(unit)
    /\ released < NumReleases(unit)

\* AllocOutputBuffers has outputs left.
Allocating ==
    /\ Coloring
    /\ ~AllocsFirst(unit) => released = NumReleases(unit)
    /\ given < NumAllocs(unit)

\* The input to be released now, and whether its buffer comes onto the stack.
Input == ins[unit][Len(ins[unit]) - released]
Pushes == IsAudio(Input[1]) /\ pool.refs[bufferIndex[Input]] = 1

\* There is no room for one more on the stack, or for one more count.
StackFull == Pushes /\ Len(pool.stack) = MaxStack
RefsFull == pool.stack = <<>> /\ pool.nextIndex = MaxBufs

ReleaseInput ==
    /\ Releasing /\ ~StackFull
    /\ pool' = IF IsAudio(Input[1]) THEN Release(pool, bufferIndex[Input]) ELSE pool
    /\ released' = released + 1
    /\ UNCHANGED <<kind, ins, unit, given, bufferIndex, holds, endVars>>

AllocOutput ==
    /\ Allocating /\ ~RefsFull
    /\ LET o == <<unit, given + 1>>
           a == Alloc(pool, Consumers(o))
       IN  /\ pool' = a.pool
           /\ bufferIndex' = [bufferIndex EXCEPT ![o] = a.index]
           /\ holds' = [holds EXCEPT ![a.index] = o]
    /\ given' = given + 1
    /\ UNCHANGED <<kind, ins, unit, released, endVars>>

\* realloc is asked for a negative size, which is a huge one, and the allocator
\* throws.
ReallocFails ==
    /\ (Releasing /\ StackFull) \/ (Allocating /\ RefsFull)
    /\ outcome' = "thrown"
    /\ UNCHANGED <<kind, ins, unit, released, given, pool, bufferIndex, holds, maxWireBufs>>

NextUnit ==
    /\ Coloring
    /\ released = NumReleases(unit) /\ given = NumAllocs(unit)
    /\ unit' = unit + 1 /\ released' = 0 /\ given' = 0
    /\ UNCHANGED <<kind, ins, pool, bufferIndex, holds, endVars>>

\* mNumWireBufs: nextIndex after the last of all indices is negative.
NumWireBufs == IF pool.nextIndex < MaxBufs THEN pool.nextIndex ELSE UintMod - MaxBufs

\* After the last unit.  While audio runs the wire buffers that there are must
\* do; before that, as many are going to be there as some definition needs.
CheckWireBufs ==
    /\ unit \notin Unit /\ ~pool.error /\ outcome = "none"
    /\ \/ /\ outcome' = IF NumWireBufs > maxWireBufs THEN "thrown" ELSE "accepted"
          /\ UNCHANGED maxWireBufs
       \/ /\ outcome' = "accepted"
          /\ maxWireBufs' = IF NumWireBufs > maxWireBufs THEN NumWireBufs ELSE maxWireBufs
    /\ UNCHANGED <<kind, ins, unit, released, given, pool, bufferIndex, holds>>

ColoringNext == ReleaseInput \/ AllocOutput \/ ReallocFails \/ NextUnit \/ CheckWireBufs

ColoringSpec == ColoringInit /\ [][ColoringNext]_colorVars
-----------------------------------------------------------------------------
AudioIns(u) == {ins[u][i] : i \in {i \in DOMAIN ins[u] : IsAudio(ins[u][i][1])}}

\* How many of a unit's outputs have a buffer.
Given(u) == IF u < unit THEN NumAllocs(u) ELSE IF u = unit THEN given ELSE 0

\* No output is read so often that its count is cut.
Countable == \A o \in Output : Consumers(o) < RefMod

\* The exception "tried to release output with zero count" is not thrown unless
\* an output is read 65536 times: the counts match the releases.
NoColoringError == pool.error => ~Countable

\* What a unit reads when its turn comes is still there: the buffer of each of
\* its inputs was given to no other output meanwhile, however often inputs and
\* outputs branch.  The inputs of a demand-rate unit stay there to the end: it
\* may be asked to compute by any later unit.
InputsThere ==
    \A u \in Unit : u > unit \/ (u = unit /\ given = 0) \/ kind[u] = "demand" =>
        \A o \in AudioIns(u) : o[1] < unit => holds[bufferIndex[o]] = o

\* So it is unless an output is read 65536 times, when its buffer goes back to
\* the stack too early.
InputsIntact == InputsThere \/ ~Countable

\* A unit that cannot work in place does not write over what it reads, and no
\* unit has one buffer for two of its outputs.
OwnBuffers ==
    \A u \in Unit :
        /\ \A i, j \in 1 .. Given(u) : bufferIndex[<<u, i>>] = bufferIndex[<<u, j>>] => i = j
        /\ kind[u] = "audioNoAlias" =>
              \A o \in AudioIns(u), i \in 1 .. Given(u) : bufferIndex[o] # bufferIndex[<<u, i>>]

\* So it is, with the same exception; and a definition that is accepted has no
\* output beyond the wire buffers that there are.
OutputsApart ==
    \/ /\ OwnBuffers
       /\ outcome = "accepted" =>
              \A o \in Output : IsAudio(o[1]) => bufferIndex[o] < maxWireBufs
    \/ ~Countable
=============================================================================
