----------------------------- MODULE GraphDefs -----------------------------
(***************************************************************************)
(* The synth definitions (SC_GraphDef.cpp).                                *)
(*                                                                         *)
(* The NRT thread reads definitions (stage 2 of /d_recv, /d_load and       *)
(* /d_loadDir), the audio thread puts them into mGraphDefLib (stage 3),    *)
(* creates synths from them and counts in mRefCount who needs a            *)
(* definition: the library and every synth.  At zero it is sent through    *)
(* mDeleteGraphDefs to the NRT thread, which frees it.                     *)
(*                                                                         *)
(* A definition may have variants: copies of its GraphDef, with names and  *)
(* reference counts of their own, in memory that belongs to the original   *)
(* and is freed with it.                                                   *)
(***************************************************************************)
EXTENDS Integers, Sequences, FiniteSets

CONSTANTS
    MaxDefs,       \* bound on the number of definitions read
    DefFile,       \* what clients load: sequences of [name, variants]
    Synth,         \* the synths that can exist at a time
    Null,          \* no definition
    MaxGraphDefs,  \* the capacity of mGraphDefLib
    FifoSize,      \* how many messages mDeleteGraphDefs takes (511 in the code)
    ReadFails      \* whether files may be damaged

ASSUME DefAssumption ==
    /\ MaxGraphDefs \in Nat /\ FifoSize \in Nat
    /\ ReadFails \in BOOLEAN
    /\ IsFiniteSet(Synth) /\ MaxDefs \in Nat

\* A definition's name and those of its variants.
Def == [name : STRING, variants : Seq(STRING)]

ASSUME FileAssumption == \A file \in DefFile : file \in Seq(Def)

VARIABLES
    mem,           \* what each block of memory is: unused, live or freed
    shape,         \* name and variants of the definition in it
    refCount,      \* mRefCount of the definition and its variants
    lib,           \* mGraphDefLib: the GraphDefs in it
    synth,         \* the GraphDef each synth was made from
    toEngine,      \* lists of definitions read, on their way to stage 3
    defining,      \* the list that GraphDef_Define is at
    deletes,       \* mDeleteGraphDefs
    lost,          \* definitions whose memory nobody will free
    telling,       \* the GraphDef that GraphDef_DeleteMsg is sending /d_removed for
    wild,          \* what was used of freed memory: a definition, or only the name
                   \* that GraphDef_DeleteMsg reads
    careful        \* clients make no synths from variants, and do not send
                   \* /d_freeAll while there are synths or variants

vars == <<mem, shape, refCount, lib, synth, toEngine, defining, deletes, lost, telling,
          wild, careful>>

\* The memory of the definitions, in the order in which it is allocated.
Block == 1 .. MaxDefs
NoShape == [name |-> Null, variants |-> <<>>]

\* A pointer to a GraphDef: the block, and which variant; 0 is the original.
Ptr == Block \X Nat
ASSUME NullAssumption == Null \notin Ptr
Original(b) == <<b, 0>>
BlockOf(p) == p[1]
Variants(b) == {<<b, i>> : i \in DOMAIN shape[b].variants}
NameOf(p) == IF p[2] = 0 THEN shape[p[1]].name ELSE shape[p[1]].variants[p[2]]
Live(p) == mem[BlockOf(p)] = "live"

Init ==
    /\ mem = [b \in Block |-> "unused"] /\ shape = [b \in Block |-> NoShape]
    /\ refCount = [b \in Block |-> <<>>]
    /\ lib = {} /\ synth = [s \in Synth |-> Null]
    /\ toEngine = <<>> /\ defining = <<>> /\ deletes = <<>>
    /\ lost = {} /\ telling = Null /\ wild = {}
    /\ careful \in BOOLEAN

RefCount(p) == refCount[p[1]][p[2]]
Counted(p, n) == [refCount EXCEPT ![p[1]][p[2]] = @ + n]
-----------------------------------------------------------------------------
(***************************************************************************)
(* Reading, on the NRT thread.                                             *)
(***************************************************************************)
\* The memory for n definitions: malloc.
Used == Cardinality({b \in Block : mem[b] # "unused"})
Fresh(n) == [i \in 1 .. n |-> Used + i]

\* GraphDef_Read: a variant is a copy of the original, the count included.
CountsOf(def) == [i \in 0 .. Len(def.variants) |-> 1]

\* GraphDefLib_Read puts each definition of the file in front of the list:
\* list is in the order of GraphDef_Define, opposite to the file's.
Read(file, list) ==
    /\ \A i \in DOMAIN list : list[i] \in Block
    /\ LET DefOf(b) == file[Len(file) + list[1] - b]
           read == {list[i] : i \in DOMAIN list}
       IN  /\ mem' = [b \in Block |-> IF b \in read THEN "live" ELSE mem[b]]
           /\ shape' = [b \in Block |-> IF b \in read THEN DefOf(b) ELSE shape[b]]
           /\ refCount' = [b \in Block |-> IF b \in read THEN CountsOf(DefOf(b)) ELSE refCount[b]]
    /\ UNCHANGED <<lib, synth, defining, deletes, telling, wild>>

\* A command goes on to stage 3 with some of what was read; the rest is forgotten.
Send(list, rest) ==
    /\ toEngine' = Append(toEngine, list)
    /\ lost' = lost \cup {rest[i] : i \in DOMAIN rest}

\* Stage 2 of /d_recv.  GraphDef_Recv catches what reading throws and goes on
\* with the list as it was before the file.
Recv_Stage2(file) ==
    LET list == Fresh(Len(file))
    IN  /\ Read(file, list)
        /\ \/ Send(list, <<>>)
           \/ ReadFails /\ Send(<<>>, list)

\* Some definitions are read that stage 3 gets, and some that are forgotten.
Read_Forgetting(f, g) ==
    LET list == Fresh(Len(f) + Len(g))
    IN  /\ Read(f \o g, list)
        /\ Send(SubSeq(list, Len(g) + 1, Len(list)), SubSeq(list, 1, Len(g)))

\* Stage 2 of /d_load: kept is what GraphDef_LoadGlob finds in the .scsyndef
\* files its pattern matches.  It reads each of them twice and drops what it gets
\* the second time; it reads the others it matches once and drops what is in them;
\* and of a damaged file it forgets what both readings got.
Load_Stage2(kept, others) ==
    /\ kept \o others # <<>>
    /\ \/ Read_Forgetting(kept, kept \o others)
       \/ ReadFails /\ Read_Forgetting(kept, kept \o others \o others)

\* Stage 2 of /d_loadDir, of a directory with two files: GraphDef_Load catches
\* what reading one of them throws.
LoadDir_Stage2(f, g) ==
    \/ LET list == Fresh(Len(f) + Len(g)) IN Read(f \o g, list) /\ Send(list, <<>>)
    \/ ReadFails /\ Read_Forgetting(f, g)
-----------------------------------------------------------------------------
(***************************************************************************)
(* The audio thread.  GraphDef_DeleteMsg ignores that mDeleteGraphDefs may *)
(* be full.  It hands the definition to the NRT thread and then reads its  *)
(* name for /d_removed, which the NRT thread may come before: a step of    *)
(* its own, which the audio thread takes before any other.                 *)
(***************************************************************************)
Idle == defining = <<>> /\ telling = Null

GraphDef_DeleteMsg(p) ==
    /\ telling' = p
    /\ IF Len(deletes) < FifoSize THEN deletes' = Append(deletes, p) /\ lost' = lost
       ELSE deletes' = deletes /\ lost' = lost \cup {b \in Block : p = Original(b)}

\* The name is read, and sent to every client (which ends in the reply FIFO).
d_removed ==
    /\ telling # Null
    /\ telling' = Null
    /\ wild' = wild \cup IF Live(telling) THEN {} ELSE {"name"}
    /\ UNCHANGED <<mem, shape, refCount, lib, synth, toEngine, defining, deletes, lost>>

NotSent == UNCHANGED <<deletes, lost, telling>>

Get(name) == {p \in lib : NameOf(p) = name}

\* Slip: the variants stay in the library.
WithoutButVariants(p) == lib \ {p}

\* World_RemoveGraphDef
Without(p) == lib \ ({p} \cup IF p[2] = 0 THEN Variants(p[1]) ELSE {})

\* World_AddGraphDef: Add of the original, then of one variant after the other.
\* Add fails if the table is full or the name is taken.
Named(l, name) == \E q \in l : NameOf(q) = name
World_AddGraphDef(b, l) ==
    LET first == IF Cardinality(l) >= MaxGraphDefs \/ Named(l, shape[b].name) THEN l
                 ELSE l \cup {Original(b)}
        names == shape[b].variants
        new == {i \in DOMAIN names : ~Named(first, names[i]) /\ \A j \in 1 .. i - 1 : names[j] # names[i]}
        Before(i) == {j \in new : j < i}
    IN  first \cup {<<b, i>> : i \in {i \in new : Cardinality(first) + Cardinality(Before(i)) < MaxGraphDefs}}

Stage3_Begin ==
    /\ Idle /\ toEngine # <<>>
    /\ defining' = Head(toEngine) /\ toEngine' = Tail(toEngine)
    /\ UNCHANGED <<mem, shape, refCount, lib, synth, deletes, lost, telling, wild>>

\* The library gives up p: GraphDef_Remove, and GraphDef_Define for what it
\* replaces.  Slip: it is deleted although synths need it.
ReleaseAnyway(p) == refCount' = Counted(p, -1) /\ GraphDef_DeleteMsg(p)

Release(p) ==
    /\ refCount' = Counted(p, -1)
    /\ IF RefCount(p) - 1 = 0 THEN GraphDef_DeleteMsg(p) ELSE NotSent

\* GraphDef_Define, one turn of its loop each: nothing is resident under the
\* name, or something is.  In a table that is full the new one is lost.
Define_New ==
    /\ defining # <<>> /\ telling = Null
    /\ LET b == Head(defining)
       IN  /\ Get(shape[b].name) = {}
           /\ lib' = World_AddGraphDef(b, lib)
           /\ lost' = lost \cup ({b} \ {p[1] : p \in lib'})
    /\ defining' = Tail(defining)
    /\ UNCHANGED <<mem, shape, refCount, synth, toEngine, deletes, telling, wild>>

\* Slip: the new one is added before the old one is removed.
Define_OverAddFirst ==
    /\ defining # <<>> /\ telling = Null
    /\ LET b == Head(defining)
       IN  \E p \in Get(shape[b].name) : Release(p) /\ lib' = World_AddGraphDef(b, lib) \ {p}
    /\ defining' = Tail(defining)
    /\ UNCHANGED <<mem, shape, synth, toEngine, wild>>

Define_Over ==
    /\ defining # <<>> /\ telling = Null
    /\ LET b == Head(defining)
       IN  \E p \in Get(shape[b].name) : Release(p) /\ lib' = World_AddGraphDef(b, Without(p))
    /\ defining' = Tail(defining)
    /\ UNCHANGED <<mem, shape, synth, toEngine, wild>>

\* GraphDef_Remove
d_free(name) ==
    /\ Idle
    /\ \E p \in Get(name) : Release(p) /\ lib' = Without(p)
    /\ UNCHANGED <<mem, shape, synth, toEngine, defining, wild>>

\* World_FreeAllGraphDefs goes through the table and frees the originals,
\* counts or not.  A variant that comes after its original in the table, by
\* its hash, is looked at when it is freed already.
d_freeAll ==
    /\ Idle
    /\ careful => /\ \A s \in Synth : synth[s] = Null
                  /\ \A p \in lib : shape[p[1]].variants = <<>>
    /\ mem' = [b \in Block |-> IF Original(b) \in lib THEN "freed" ELSE mem[b]]
    /\ \/ wild' = wild
       \/ /\ \E p \in lib : p[2] # 0 /\ Original(p[1]) \in lib
          /\ wild' = wild \cup {"definition"}
    /\ lib' = {}
    /\ UNCHANGED <<shape, refCount, synth, toEngine, defining, deletes, lost, telling>>

\* Slip: the count stays.
s_newUncounted(s, name) ==
    /\ Idle /\ synth[s] = Null
    /\ \E p \in Get(name) :
          /\ careful => p[2] = 0
          /\ synth' = [synth EXCEPT ![s] = p]
    /\ UNCHANGED <<mem, shape, refCount, lib, toEngine, defining, deletes, lost, telling, wild>>

\* meth_s_new as far as Graph_Ctor takes part in it.
s_new(s, name) ==
    /\ Idle /\ synth[s] = Null
    /\ \E p \in Get(name) :
          /\ careful => p[2] = 0
          /\ synth' = [synth EXCEPT ![s] = p]
          /\ refCount' = Counted(p, 1)
    /\ UNCHANGED <<mem, shape, lib, toEngine, defining, deletes, lost, telling, wild>>

\* The count that is read from freed memory may be anything.
Graph_Dtor(s) ==
    /\ Idle /\ synth[s] # Null
    /\ LET p == synth[s]
       IN  IF Live(p)
           THEN /\ refCount' = Counted(p, -1)
                /\ IF RefCount(p) - 1 <= 0 THEN GraphDef_DeleteMsg(p) ELSE NotSent
                /\ UNCHANGED wild
           ELSE /\ GraphDef_DeleteMsg(p) \/ NotSent
                /\ wild' = wild \cup {"definition"} /\ UNCHANGED refCount
    /\ synth' = [synth EXCEPT ![s] = Null]
    /\ UNCHANGED <<mem, shape, lib, toEngine, defining>>

-----------------------------------------------------------------------------
\* GraphDef_Free: a variant is left to its original.
GraphDef_Free(p) ==
    /\ mem' = IF p[2] = 0 THEN [mem EXCEPT ![p[1]] = "freed"] ELSE mem
    /\ wild' = wild \cup IF Live(p) THEN {} ELSE {"definition"}

\* DeleteGraphDefMsg::Perform, on the NRT thread.
Delete_Perform ==
    /\ deletes # <<>>
    /\ GraphDef_Free(Head(deletes))
    /\ deletes' = Tail(deletes)
    /\ UNCHANGED <<shape, refCount, lib, synth, toEngine, defining, lost, telling>>

NameUsed == {NameOf(p) : p \in lib}

Next ==
    /\ \/ \E file \in DefFile : Recv_Stage2(file)
       \/ \E kept, others \in DefFile \cup {<<>>} : Load_Stage2(kept, others)
       \/ \E f, g \in DefFile : f # g /\ LoadDir_Stage2(f, g)
       \/ Stage3_Begin \/ Define_New \/ Define_Over
       \/ \E name \in NameUsed : d_free(name)
       \/ d_freeAll \/ d_removed
       \/ \E s \in Synth : Graph_Dtor(s) \/ \E name \in NameUsed : s_new(s, name)
       \/ Delete_Perform
    /\ UNCHANGED careful

Spec == Init /\ [][Next]_vars
-----------------------------------------------------------------------------
Pending(b) ==
    \/ \E i \in DOMAIN defining : defining[i] = b
    \/ \E n \in DOMAIN toEngine : \E i \in DOMAIN toEngine[n] : toEngine[n][i] = b
UsedBy(p) == {s \in Synth : synth[s] = p}
Queued(p) == \E i \in DOMAIN deletes : deletes[i] = p

TypeOK ==
    /\ mem \in [Block -> {"unused", "live", "freed"}]
    /\ lib \subseteq Ptr /\ lost \subseteq Block /\ careful \in BOOLEAN
    /\ telling \in Ptr \cup {Null}
    /\ wild \subseteq {"definition", "name"}
    /\ synth \in [Synth -> Ptr \cup {Null}]
    /\ defining \in Seq(Block) /\ toEngine \in Seq(Seq(Block))
    /\ deletes \in Seq(Ptr) /\ Len(deletes) <= FifoSize
    /\ Cardinality(lib) <= MaxGraphDefs

\* The library finds what it holds: every entry is in memory that is not
\* freed, and no name is taken twice, with variants whose names collide with
\* those of other definitions (World_AddGraphDef, World_RemoveGraphDef).
LibSound ==
    /\ \A p \in lib : Live(p)
    /\ \A p, q \in lib : NameOf(p) = NameOf(q) => p = q

\* The reference count of a definition is the number of its synths, and one
\* for the library or the command that brings it (GraphDef_Define, Graph_Ctor,
\* Graph_Dtor).
\* No definition is forgotten: one that is live is resident, about to be,
\* used by a synth, on its way to be freed, or lost where the code drops it.
Accounted ==
    \A b \in Block : mem[b] = "live" /\ b \notin lost =>
        /\ refCount[b][0] = Cardinality(UsedBy(Original(b)))
                            + IF Original(b) \in lib \/ Pending(b) THEN 1 ELSE 0
        /\ \/ Original(b) \in lib \/ Pending(b) \/ UsedBy(Original(b)) # {}
           \/ Queued(Original(b))

\* No synth is left with a definition that was freed, whatever is replaced and
\* removed while it plays, and no thread uses the memory of a definition that
\* was freed, or frees it again (World_FreeAllGraphDefs, Graph_Dtor,
\* GraphDef_Free), but for one place: GraphDef_DeleteMsg reads the name of the
\* definition after the NRT thread may have freed it.  (With variants all of it
\* happens: see the README.)
SynthsSound ==
    careful => /\ wild \subseteq {"name"}
               /\ \A s \in Synth : synth[s] # Null => Live(synth[s])

\* "Resident definitions with the same names are overwritten": the library
\* never refuses a definition that replaces one, even when it is full.
Overwritten ==
    [][\A b \in Block :
          defining # <<>> /\ b = Head(defining) /\ defining' = Tail(defining)
          /\ Get(shape[b].name) # {}
          => Get(shape[b].name)' = {Original(b)}]_vars
=============================================================================
