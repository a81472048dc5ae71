---------------------------- MODULE MCStructures ----------------------------
(***************************************************************************)
(* Five structures that one thread at a time works on, for TLC: the supply *)
(* of client IDs (ClientIDs), the scheduler's heap (PriorityQueue), the    *)
(* wire buffers of a definition (BufColoring), the memory pool (AllocPool) *)
(* and hash tables (HashTable).  A behaviour is one of one of them; the    *)
(* others stay as they begin.                                              *)
(***************************************************************************)
EXTENDS ClientIDs, BufColoring, HashTable, AllocPool

CONSTANTS N, Time, MaxTime, Packet, MaxCount     \* of PriorityQueue

VARIABLES mSize, mEvents, mStabilityCounter, removed, added
VARIABLE which      \* the one that this is about

\* One client more than there are IDs, and wishes for an ID that is often
\* taken, for one that is not, and for one that does not exist.
Wishes == {-1, 0, 2, 9}

\* All definitions of four units, the first with two outputs.  Only inputs at
\* audio rate have wire buffers; others are left out.  The first unit has no
\* inputs, so that all its kinds but one would only stand for fewer units.  Its
\* outputs are interchangeable, and the one that is read first is the first.
FourUnits == <<2, 1, 1, 1>>
From(u) == SeqExt!BoundedSeq({o \in Output : o[1] <= u}, MaxIns)
Definitions == {<<(<<>>), r, s, t>> : r \in From(1), s \in From(2), t \in From(3)}
FirstReadFirst ==
    LET reads == SelectSeq(ins[2] \o ins[3] \o ins[4], LAMBDA o : o[1] = 1)
    IN  reads # <<>> => reads[1] = <<1, 1>>
AudioInputs ==
    /\ \A u \in Unit : \A i \in DOMAIN ins[u] : IsAudio(ins[u][i][1])
    /\ which = "coloring" => kind[1] = "audio" /\ FirstReadFirst

\* A pool of fixed size, as scsynth has it, and one that grows, as sclang has.
\* One that begins without an area is what the latter is after FreeAll; it is
\* there for the behaviours that are not about a pool.
ThePools == {[init |-> 36, more |-> 0], [init |-> 20, more |-> 20], [init |-> 0, more |-> 20]}

\* Hashes around the end of tables with 2, 4 and 8 slots.  Keys are
\* interchangeable but for the one with two items, and come in the order of
\* their hashes.
Hashes == {6, 7, 8}
Items == Key \X {1} \cup {<<2, 2>>}
InOrderOfHash == \A k, l \in Key : k < l => hash[k] <= hash[l]

ASSUME StructuresAssumption ==
    /\ N \in Nat \ {0} /\ Time \subseteq Nat /\ MaxTime \in Nat /\ \A t \in Time : t < MaxTime

H == INSTANCE PriorityQueue

heapVars == <<mSize, mEvents, mStabilityCounter, removed, added>>
allVars == <<which, vars, heapVars, colorVars, poolVars, tableVars>>

StructuresInit ==
    /\ which \in {"clients", "heap", "coloring", "pool", "table"}
    /\ Init /\ H!Init
    /\ which = "coloring" => ins \in Definitions
    /\ which # "coloring" => ins = [u \in Unit |-> <<>>] /\ kind = [u \in Unit |-> "control"]
    /\ which # "table" => hash = [k \in Key |-> 6] /\ canResize = FALSE /\ maxItems = 1
    /\ ColoringInit /\ PoolInit /\ (which = "pool" <=> sizes.init # 0) /\ AudioInputs /\ TableInit /\ InOrderOfHash

ClientsNext == which = "clients" /\ Next /\ UNCHANGED <<which, heapVars, colorVars, poolVars, tableVars>>
HeapNext == which = "heap" /\ H!Next /\ UNCHANGED <<which, vars, colorVars, poolVars, tableVars>>
WiresNext == which = "coloring" /\ ColoringNext /\ UNCHANGED <<which, vars, heapVars, poolVars, tableVars>>
MemoryNext == which = "pool" /\ PoolNext /\ UNCHANGED <<which, vars, heapVars, colorVars, tableVars>>
HashNext == which = "table" /\ TableNext /\ UNCHANGED <<which, vars, heapVars, colorVars, poolVars>>

StructuresNext == ClientsNext \/ HeapNext \/ WiresNext \/ MemoryNext \/ HashNext

StructuresSpec == StructuresInit /\ [][StructuresNext]_allVars
-----------------------------------------------------------------------------
\* PriorityQueueT is a stable timed queue (PriorityQueue).
Implements == H!Implements
=============================================================================
