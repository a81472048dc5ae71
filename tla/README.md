# TLA+ models of scsynth and supernova

SuperCollider has a language with its interpreter, sclang, and two servers,
scsynth and supernova, that clients control with OSC messages and that compute
sound in real time. This directory models the core of **scsynth**
(`server/scsynth` and the parts of `common` it rests on): the data structures
that its threads share, the node tree that the audio thread walks, the life of
an OSC packet, the asynchronous commands, the synth definitions, the memory
pool; and the part of **supernova** that scsynth does not have: the tree with
parallel groups, the dependency graph made of it, and the threads that work it
off. The modules are checked with TLC on small instances, and for ten of the components
there are proofs, checked by TLAPS, for every size.

1. [The system](#1-the-system)
2. [Modules](#2-modules)
3. [Runs and bounds](#3-runs-and-bounds)
4. [Fairness](#4-fairness)
5. [Proofs](#5-proofs)
6. [Where the code and its comments disagree](#6-where-the-code-and-its-comments-disagree)
7. [Abstractions and what is not modelled](#7-abstractions-and-what-is-not-modelled)
8. [Plan](#8-plan)

## 1. The system

### Threads

| thread | what it does | what may block it |
|---|---|---|
| network threads (UDP, TCP; `SC_ComPort.cpp`) | allocate a packet and write it to `mOscPacketsToEngine` under `mDriverLock` | `mDriverLock` |
| audio callback (RT; `SC_JackDriver::Run` and its siblings) | performs packets and scheduled bundles, walks the node tree once per block, posts to five FIFOs, signals | nothing: it takes no lock and allocates only from its own pool |
| non-real-time thread (NRT; `SC_AudioDriver::RunThread`) | waits for the signal, then performs the five FIFOs under `mNRTLock`: triggers, node notifications, node ends, definitions to free, messages from the engine | the condition, `mNRTLock` |
| plugin threads (for example DiskIO) | read and write sound files under `mNRTLock` | `mNRTLock` |
| supernova's DSP helpers (`dsp_thread`) | run queue items while the audio thread computes a block | a semaphore per thread; otherwise they spin |
| main thread (`World_Cleanup`) | stops and deletes the driver, frees everything | `mDriverLock`, the join of the NRT thread |

### Components

| component | state | operations | what makes it correct |
|---|---|---|---|
| Engine FIFOs, `MsgFifo.h` | ring of items, heads for writing, reading, freeing | `Write`, `Perform`, `Free` | the two threads never meet in a slot; performed once, in order; reclaimed once, afterwards |
| Scheduler, `PriorityQueue.h` | binary heap, stability counter | `Add`, `Remove`, `Empty` | earliest first; first come first served among equal times |
| Node tree, `SC_Node.cpp`, `SC_Group.cpp`, `SC_Graph.cpp` | links, IDs, `mCalcFunc` | linking, deletion, done actions, the walk of a block | links agree; no node lost or used after it was freed; every node called once per block |
| Node commands, `SC_MiscCmds.cpp` | (the tree) | `/s_new`, `/g_new`, `/n_free`, `/n_before`, ... | IDs unique; clients are told what exists |
| Wake-up and shutdown, `SC_SyncCondition.h`, `SC_CoreAudio.cpp` | two counters, a condition variable, a flag | `WaitNext`, `Signal`, destructor | nothing posted stays unperformed; shutdown ends |
| Path of a packet, `SC_ComPort.cpp`, `SC_CoreAudio.cpp`, `SC_Jack.cpp` | packets in FIFOs and scheduler | receive, perform, schedule, free | exactly one owner; order; the right block |
| Buffer commands, `SC_SequencedCommand.cpp` | two copies of each `SndBuf`, commands in flight | stages 1-4 of eleven commands | no dangling memory, no double free, the copies agree in the end |
| Clients, `NotifyCmd` | users, IDs, the supply of IDs | `/notify` | IDs not shared, not lost |
| Synth definitions, `SC_GraphDef.cpp`, `SC_World.cpp` | library, reference counts | load, replace, free, play | counts exact; freed when and only when unused |
| Wire buffers, `DoBufferColoring` | counts per buffer, free stack | one pass over the units | no unit finds its input overwritten |
| Hash tables, `HashTable.h` | slots, count | `Add`, `Remove`, `Get`, `Resize`, `MakeEmpty` | a set with keys; the loops end |
| Memory pool, `SC_AllocPool.cpp` | areas tiled with chunks, bins of free chunks | `Alloc`, `Free`, `Realloc`, `FreeAll`, `Reinit` | headers agree, free chunks are found, blocks keep their contents |
| supernova's tree, `group.hpp`, `node_graph.hpp` | parents, child lists, counters, reference counts, lists of done actions | commands, done actions | parents, lists and counters agree; no deleted node is used |
| supernova's dependency graph, `dependency_graph_generator.hpp` | queue items with successors and activation limits | made anew when the tree has changed | every synth once, in the tree's order and no stricter |
| supernova's DSP threads, `dsp_thread_queue.hpp` | stack of runnable items, activation counts, `node_count`, semaphores | tick, run item, reset queue, terminate | no item before its predecessors; ticks end and leave the queue as it was |

They interact through FIFOs (`MsgFifo`) in all directions, through the library
tables (`HashTable`), and through shared structures that one thread owns by
convention: a packet, the memory of a buffer or a definition changes hands with
a message. That convention is where most of the hazards in `PROJECT.json` are.

## 2. Modules

Slips: next to a definition there may be a variant with a plausible mistake,
marked "slip" in its comment. `PROJECT.json` ("mutants") pairs each property
with one; a property that no slip violates would say nothing. They are not part
of the specification.

**MsgFifo, EngineQueue.** One action per memory access of `Write`, `Free` (the
producer) and `Perform` (the consumer): `WriteItem` stores the item,
`WritePublish` the head. An item that has been performed may be `Moved`, having
given its payload away. `EngineQueue` is what the users expect: a queue that
performs in order, a queue of spent messages, and a `Write` that is refused when
both together have N - 1 messages. `Implements` maps the ring to it, seeing an
item at the moment its head is stored.

**PriorityQueue, TimedQueue.** The heap of `PriorityQueueT` with the keys of
`SC_ScheduledEvent`; percolation and demotion as recursive functions with the
holes that the code moves. `TimedQueue` is a sequence in order of arrival from
which the earliest of the first is taken; the refinement orders heap entries
by stability count, which start again when the queue empties.

**NodeLinks, NodeTree.** `NodeLinks` has the pointers and the five functions
that change them. `NodeTree` has everything else: which nodes are allocated,
their IDs, `mCalcFunc`, and the commands as actions, each performed between two
blocks. A block is not atomic: `stack` holds the calls of `Group_Calc` under
way, each with the next child it has put aside, and every child is called in a
step of its own in which the units of a synth may take done actions, one after
the other (`DoneActions`; `Unit_DoneAction`, 1 to 15). Overflowing the call
stack (a cycle of groups) and null pointers set `crashed`, after which nothing
happens. `built` and `unbuiltDtor` record which
synths had their units constructed. Notifications are in `notes`, those of the
last action only. `mNodeEnds` takes 1023 of them and `Node_StateMsg` does not look
whether it was full, so each may get lost: `Notify` chooses which the client hears
of, and `client` is what the client makes of them, the IDs it knows and the IDs
whose last notification was lost. The variable `use`, constant along a behaviour, selects one
of the ways to use the server in `Uses`: which commands, careful clients or not,
notifications or not. Careful clients do not move a node next to itself or
a group into or next to something below it, and put nothing beside the root.

**AudioSync.** `WaitNext` and `Signal` statement by statement. The data races of
`SC_SyncCondition` (`read` and `write` are plain ints, `Signal` takes no lock)
are interleavings of its loads and stores; the counters appear as `ahead`,
whether they differ, since the code only compares them. Spurious wake-ups are
included.

**OscEngine.** Two network threads, the callback and the NRT thread around
`mOscPacketsToEngine`, the scheduler and `mFromEngine`, which are the abstract
queues of EngineQueue and TimedQueue. `dropped` records the packets let go of
by `AddEvent` with a full scheduler, by `ClearSched`, and by `FreeInNRT` with a
full FIFO. `oscTime` advances with jitter, as the delay-locked loop of the
driver lets it.

**BufferCmds.** The four stages of `/b_alloc`, `/b_allocRead`,
`/b_allocReadChannel`, `/b_gen`, `/b_free`, `/b_zero`, `/b_read`,
`/b_readChannel`, `/b_write`, `/b_close` and `/sync`. A `SndBuf` is the pair of
its memory and its sound file. Stage 2 computes what becomes of the mirror, what
stage 4 is to free, and which files are opened and closed, failures included;
stage 3 copies what the code copies. A completion message is another
asynchronous command for the same buffer, performed in stage 3. `lost` tells
that a FIFO refused a command, `noSamples` that a `/b_alloc` asked for zero
samples. `use` selects calm use (completion messages, nothing lost) or rough use
(all commands, full FIFOs, quitting at any time).

**ClientIDs.** `NotifyCmd::Stage2` with its five outcomes; the deque of IDs keeps
its order.

**GraphDefs.** Reading on the NRT thread, definition and use on the audio thread,
freeing on the NRT thread. Pointers are pairs of a block of memory and a variant
in it. `wild` tells what was used of freed memory: a definition, or only the name
that `GraphDef_DeleteMsg` reads for `/d_removed` after it has queued the definition
for the NRT thread to free; that reading is a step of its own (`d_removed`), before
which the NRT thread may run. `careful`, constant along a
behaviour, that clients play no variants and send `/d_freeAll` only when there
are no synths and no variants (see 6). Definitions dropped because a table or a
FIFO is full, or because a file is damaged, are in `lost`.

**BufColoring.** One step per turn of a loop of `DoBufferColoring`: an input
released, an output given its buffer, on to the next unit; at the end
`CheckWireBufs` compares with `mMaxWireBufs`, while audio runs or before. Counts
are cut to 16 bits (`RefMod`), and the two arrays end where their 16-bit sizes do
(`MaxBufs`, `MaxStack`; `ReallocFails` is the exception thrown there). The initial
states are all definitions whose inputs come from earlier units.

**HashTable, KeyedSet.** Open addressing with linear probing. The loop that
moves items back after a removal and the one that moves all of them into a larger
table are taken turn by turn (`doing`, `oldIndex`), so that the states inside them are
states of the model; to the users, `Contents`, an operation has its effect when it
ends. `canResize` is constant along a behaviour. The
same text serves `HashTable` (definitions, libraries) and `IntHashTable` (nodes);
in the map some definitions point to the one and some to the other. `KeyedSet`
is a bounded set with at most one item per key.

**AllocPool.** The pool as the headers that the code reads and writes: `mSize`
where chunks begin, `mPrevSize` where the next begins, the marks at the ends of
an area, the bins in their order, the bits of `mBinBlocks`. Sizes count units of
64 bytes, to which `RequestToSize` rounds, with the real boundaries of the bins.
An operation is one step, but for `FreeAllInternal`, which goes from area to area (`todo`).
The search is the one of `Alloc`, with its special cases for small bins and for
chunks that are too big. Users hold `blocks`; `kept` becomes false when a header
is written where a user has data, which is how the model knows about contents
without having any.

**DependencyGraph.** `fill_queue_recursive` as recursive operators on a tree:
the items, their successors, the limits counted ahead by `tail_nodes`. What the
queue should be is defined independently: `Ordered`, the pairs of synths that
some group puts one after the other, and `Follows`, the pairs that the queue
runs one after the other.

**NodeGraph.** supernova's tree with both records of every parenthood (the
parent pointer with its counters, and the child list), the node set, the
commands, and `missing`, which collects nodes that are used after their last
reference is gone. A tick is done actions, commands, the queue, the block, as in
`nova_server::tick`. During a block the synths in the queue register done
actions in any order (`Finish`), several units of one synth too; `NextTick` goes
through the five lists. Commands that put a node before, after or in place of the
root follow its null parent (`NoParent`), after which nothing is known, as after the
use of a deleted node.

**DspQueue.** `dsp_queue_interpreter` with one step per atomic access: the loads
of `node_count`, the pops, each decrement of an activation count, the
subtraction at the end of a chain. Helpers are woken by semaphores that count,
so they may come when the tick is over or in the next one, and may give up
polling (the watchdog). Its queues are those that `DependencyGraph` makes of
four trees.

**MC...** modules give TLC its instances. `MCThreads` holds the three components
in which threads meet without a lock (`MsgFifo`, `AudioSync`, `DspQueue`), and
`MCStructures` the five that one thread at a time works on (`ClientIDs`,
`PriorityQueue`, `BufColoring`, `AllocPool`, `HashTable`): a variable `which`,
constant along a behaviour, says which of them a behaviour is one of, and the
others do not move. It extends the four that have proofs and instantiates the other. Nothing is composed there; composed are `OscEngine` (packets,
with the abstract queues), `NodeGraph` with `DependencyGraph`, and `DspQueue`
with the queues of `DependencyGraph`. The **...Proofs** modules are described in
section 5.

## 3. Runs and bounds

| run | instance | shows |
|---|---|---|
| `threads` | a ring of 4 slots with 3 messages; FIFOs of one message and shutdown; 2 helpers, 4 trees | `SlotExclusive`: no slot accessed by both threads. `Implements`: the abstract queue. `Drains`: what was written gets performed. `QuietDrains`: all five FIFOs are drained in spite of lost notifications. `InOrder`: an item runs once, after its predecessors, and no counter underflows. `IdleIsClean`: between ticks the queue is as it was and nobody holds an item. `TickEnds`, `ThreadsEnd` |
| `structures` | 4 clients, 3 IDs; 5 events, 2 times; definitions of 4 units; pools of 36 and of 20 units with 4 sizes and 3 blocks; 4 keys with colliding hashes | `IDsDistinct`, `NoneLost`, `NeverPopsEmpty`; `Implements` the stable timed queue; `NoColoringError`, `InputsIntact`, `OutputsApart`; `PoolSound`, `BestFit`, `Intact`; `LoopsEnd`, `TableImplements` the set with keys |
| `tree` | root and 3 nodes, six uses | `LinksOK` (with unique IDs), `Connected`, `WalkSafe`, `WalkComplete`, `NotesTell` |
| `osc` | 2 threads, 3 packets, FIFO of 2, scheduler of 2, `mFromEngine` of 1, 2 blocks per callback | `OneOwner` (nobody else, and not nobody), `SendOrder`, `OnTime`, `Performed` |
| `buffers` | 1 buffer, 3 commands, both uses | `NeverDangling`, `ReleasedOnce` (memory and files), `Settled`, `SyncedIsSynced` |
| `defs` | 3 definitions, 2 synths, library of 2, FIFO of 1 | `LibSound`, `Accounted` (reference counts exact, nothing lost but where the code drops it), `SynthsSound` (no use after free, but of the name that `GraphDef_DeleteMsg` reads), `Overwritten` |
| `graph` | root and 4 nodes, all 15 done actions, two in a block | `Placed`, `QueueSound`, `OnlyContested` (which nodes can be used after their deletion) |
| `tree_dtors` | as `tree` | violates `DtorsAfterCtors`, see 6 |
| `sync_stop` | as the second part of `threads` | violates `StopEnds`, see 6 |
| `graph_move` | as `graph`, moving across groups | violates `Placed`, see 6 |
| `graph_tails` | 5 nodes, no done actions | violates `TailsCounted`, see 6 |
| `pool_realloc` | as the pool of `structures` | violates `ReallocKeeps`, see 6 |

Why the bounds are enough:

- The ring: four slots hold three messages, so that the ring gets full, wraps
  around and has room, spent and waiting messages at once.
- The wake-up: the counters of the condition and the FIFOs matter only as empty or
  not.
- The DSP threads: three threads in all, on an empty queue, a diamond, a complete
  bipartite graph of two and two, and a chain beside a single item; queues are
  exchanged between ticks. `MaxBehind` 2 lets a helper miss a whole tick.
- The heap: five events make a heap of three levels with a node that has one child;
  two times leave ties everywhere; `MaxCount` = 6 lets the counter pass the
  queue's size.
- Clients: one more than there are IDs.
- Wire buffers: the first unit is an audio-rate one; as it has no inputs, other
  kinds of it would only stand for definitions with fewer units, and its two
  outputs are interchangeable, so that the one read first is the first. Four units
  suffice for a value to be consumed twice by one unit, by two units, or by
  none, and for a buffer to be released and given away twice.
  `RefMod` 5, `MaxBufs` 4, `MaxStack` 3 and `MaxWireBufs` 3 stand for 65536, 32768,
  16385 and the option; some of the definitions exceed each of them.
- The pool: of the sizes 3, 16, 17 and 22 the first has a small bin, two share a
  large one, and the last, beyond `mAreaMoreSize`, gets an area of its own; three
  blocks make a block with free chunks on both sides; two areas in the pool that
  grows, which is reached also without any (`FreeAll`).
- Tables: hashes 6, 7 and 8 collide across the end of a table with 2, 4 and 8
  slots, and one key has two items. `LeastSize` stands for the constant 32 of
  `Resize`.
- `tree`: with three nodes below the root there are a group in a group with a
  synth in it, three siblings (every position of a done action that looks left or
  right), and every pair of nodes that can be moved relative to each other. The
  six uses split what would otherwise be too many states: *Careless* (every
  command, no tree discipline), *Tidy* (the same from careful clients), *Walk*
  (all done actions, of one unit of each synth), *WalkTwice* (of two units, one action
  of each sort), *Switched* (pausing and tracing), *Told* (notifications, which may
  get lost). Every use has the complete commands it names.
- `osc`: every queue overflows; `Horizon` 2 with jitter 1 leaves bundles early,
  on time and late. `MaxSent` 3 is one more than the FIFO holds.
- `buffers`: three commands are one in each place they can be (on the way to
  stage 2, 3, 4); buffers do not influence one another, so one is enough.
- `defs`: one definition more than the library holds; the files have a variant, a
  definition named like the variant, and a pair; `/d_load` finds `.scsyndef` files,
  others, or both. Memory blocks are used once
  (`MaxDefs`), so that use after free can be seen.
- `graph`: four nodes make a parallel group of two before or after a synth, a group in a
  parallel group, and a neighbour on each side of a synth. One command between two
  blocks (`MaxCommands`) is no restriction on the trees; it keeps every tree
  paired with a queue. In a block there are up to two done actions (`MaxDone`), any two of
  any two units: what one action does to the node of another takes no third, and all
  ways to contend for a node that section 6 lists come up.

Symmetry is used for nodes (`tree`, `graph`) and synths (`defs`), in runs that check
safety only. `CHECK_DEADLOCK FALSE` is set where the system may stop: the server is
quit or has crashed (`tree`, `threads`, `osc`, `buffers`), the bounded input has been
used up (`osc`, `buffers`, `defs`), the algorithm has ended (`structures`), or a node that
is gone was used (`graph`).

The modules with VARIABLES that have proofs, and most that section 8 plans proofs for,
also have a type invariant, `TypeOK`; it holds in the instances above and is part of what is proved.

## 4. Fairness

- `MsgFifo`: weak fairness of the consumer, for `Drains`: the callback keeps being
  called and performs until `HasData` is false. The producer owes nothing.
- `AudioSync`: weak fairness of the callback's steps (the sound card keeps
  calling), of the NRT thread's steps, of a plugin's unlocking and of a cleanup
  that has begun; strong fairness of taking `mNRTLock`, since a plugin thread can
  take and release it again and again while the operating system's mutex lets
  a waiter in eventually. Nobody is obliged to post, to lock, or to quit.
- `OscEngine`: weak fairness of the callback (`Engine`) and of the NRT thread's
  freeing (`FreeOSCPacket`), which `AudioSync` justifies. Network threads may stop
  anywhere, even with `mDriverLock`.

- `DspQueue`: weak fairness of the audio thread from the first push to the end of
  a tick and while it joins, and of every helper's waking and running: they have real-time
  priorities on processors of their own. Ticks need not come, and `GiveUp` is never owed.

In `MCThreads` each of these holds where its component is the one that moves. The
other modules state safety only.

## 5. Proofs

| theorem | statement |
|---|---|
| `MsgFifoProofs!RingImplementsQueue` | `Spec => Implements`, for every ring size and set of messages |
| `MsgFifoProofs!SlotsExclusive`, `HeadsInOrder`, `PublishedUnharmed`, `TypeCorrect` | the invariants of the ring; `HeadOrder` is proved and no longer model-checked by itself |
| `StructuresProofs!ClientsApart`, `NoIDLost`, `PopsSafely` | `[]IDsDistinct`, `[]NoneLost`, `[]NeverPopsEmpty`, for every number of clients and IDs |
| `OscEngineProofs!PacketsOwned`, `ClientOrder`, `BundlesOnTime`, `TypeCorrect` | `[]OneOwner`, `[]SendOrder`, the action property `OnTime`, `[]TypeOK`, for every number of threads and packets and all sizes of the queues |
| `StructuresProofs!NeverOverReleased`, `NothingOverwritten`, `OutputsNeverAlias` | `[]NoColoringError`, `[]InputsIntact`, `[]OutputsApart`, for definitions of any size; their exception are outputs with 65536 consumers |
| `StructuresProofs!LoopsAlwaysEnd`, `TableIsKeyedSet` | `[]LoopsEnd`, and the refinement `TableSpec => TableImplements`, for tables of every size, all keys and all hashes |
| `AllocPoolProofs!PoolStaysSound`, `AllocFindsBest`, `BlocksStayIntact` | `[]PoolSound`, `[]BestFit`, `[]Intact`, for pools of every size, fixed and growing, with any number of areas and blocks |
| `NodeTreeProofs!MoveKeepsLinks` | every move of a node, itself and the root included, keeps the links of any tree consistent |
| `NodeTreeProofs!LinksAgree`, `TreeConnected`, `WalkIsSafe`, `TypeCorrect` | `[]LinksOK`, `[]Connected`, `[]WalkSafe`, `[]TypeOK`, for trees of any size and every use |
| `NodeTreeProofs!NotesAreTrue`, `BlocksAreComplete` | `[]NotesTell` and the action property `WalkComplete`, for trees of any size, every command and every done action |
| `BufferCmdsProofs!BuffersNeverDangle`, `NothingReleasedTwice`, `SyncOvertakesNothing`, `AllSettled`, `TypeCorrect` | `[]NeverDangling`, `[]ReleasedOnce`, `[]SyncedIsSynced`, `[]Settled`, `[]TypeOK`, for any number of buffers and commands |
| `GraphDefsProofs!LibrarySound`, `CountsExact`, `SynthsKeepDefs`, `AlwaysOverwritten`, `TypeCorrect` | `[]LibSound`, `[]Accounted`, `[]SynthsSound` (with its exception), the action property `Overwritten`, `[]TypeOK`, for any definitions, synths and capacities |
| `DspQueueProofs!RunsInOrder`, `IdleLeavesNothing`, `TypeCorrect` | `[]InOrder`, `[]IdleIsClean`, `[]DspTypeOK`, for any number of helpers and all good queues |

Each inductive invariant was first checked by TLC on the instance of its run, or one
near it, before it was proved. The theorems `Invariance` of the larger modules state it;
the others follow from it.

**MsgFifo** rests on `NAssumption` (two slots at least). Distances around the
ring are `Dist`; everything about `NextPos` and `Dist` is in the first lemmas,
proved by arithmetic once. `HeadOrder` alone is not inductive: that `Write`
publishes what it was given needs `Published` (the item in the slot before the
head is stored), and both need the ranges of `TypeOK`; the inductive invariant
is their conjunction. The refinement (`StepImplements`) goes action by action:
an access that moves no head is a stutter, since neither of the two stretches of
the ring that the mapping sees contains the slot (`Mapped`); one that moves a
head appends to, or takes from, exactly one of the two sequences (`SeqAppend`,
`SeqTail`).

**ClientIDs** rests on `ClientAssumption`. `NeverPopsEmpty` follows from
a counting argument, not from any local fact: with fewer clients than IDs and
every ID either with a client or in the deque (`NoneLost`), the deque cannot be
empty (`DequeNotEmpty`, by the cardinality of an injective image). Keeping
`IDsDistinct` needs to know that the deque has no ID twice and none that a client
has (`Apart`), so the invariant is `TypeOK /\ IDsDistinct /\ Apart /\ NoneLost`.
`EraseLeaves` says what the code's `erase` does to such a deque.

**BufColoring** rests on `ColoringAssumption`. `InputsIntact` is about inputs still to be
read, so the invariant counts them: `Remaining(o)` are the places that read output `o` and
are not yet released, those of demand-rate units for good. While there is one, the count
of the buffer is their number (`Counted`), the buffer holds `o` and is not on the
free stack (`Owned`); the outputs of the unit whose turn it is own theirs in any case,
which is why two of them never share one, although an output that nobody reads
has a count of zero. A release takes exactly one place away
(`FS_RemoveElement`); hence no count is ever released below zero. The stack has no buffer
twice and only buffers that were given (`Stacked`), which bounds `nextIndex` by the number
of outputs. All this is about definitions in which no output has as many consumers as an
`int16` has values (`Countable`, fixed along a behaviour), as the count stored is then
the number of consumers. That what is accepted fits (`Fits`) needs that all
buffers given, also those not in use any more, are below `nextIndex` (`Within`).

**HashTable** rests on `TableAssumption`: items are finitely many, and pairs with their
keys first. `Reachable`, that between the slot a key's hash names and the item with that
key there is no empty slot, is what makes `Get` right, and `Remove` breaks it: it makes a hole.
While `FixCollisionsFrom` is under way, the hole hides items, but only such as are further
on than the slot looked at last, `oldIndex`, and from the hole up to there no slot is
empty (`Hidden`). A turn either leaves the next item, which the hole does not hide, or
moves it into the hole and makes its slot the hole; when the next slot is empty, nothing
behind it can be hidden by the hole. Exchanging an item with the slot found for it is right only
because the search stops at the hole or at the item itself. For this the loop must
not come all the way round, and it ends because there is a second empty slot, by the counts of
`LoopsEnd`. `Resize` re-adds to a table with room for one item more than can come
(`Moving`). For the refinement each step that ends an operation is one of `KeyedSet`
and the others leave `Contents` as it is.

**AllocPool** rests on `PoolAssumption`: `malloc` puts areas where they do not touch, and the
requests of section 6 that leave no room for a rest are left out. That headers agree is
not preserved by any single write, so the invariant is one that also holds in the middle of
an operation: `Fine(q, L, x)` says that all is well with the pool `q` but for the chunks of
`L`, which are in no bin and have no block since the operation has them in hand, and for the block
at `x`, which `Realloc` is about to change. Between operations `L` is empty; while
`FreeAllInternal` is under way it is what lies in the areas of `todo`. Each operation then is a
sequence of few moves, one lemma each: a chunk leaves its bin and is in hand
(`FineUnlinked`), a stretch of chunks in hand becomes one chunk or two (`SetSizeMerges`,
`SetSizeDivides`), a chunk goes into its bin (`FineLinked`), an area comes or goes (`NewAreaIs`,
`FreeAreaIs`), a chunk gets its block (`BlockIs`). That such a stretch tiles its area
as before is `RewrittenLaid`, for any headers written between two that stay; it rests on areas
being apart (`AreasApart`) and on every header but an area's first having a chunk before it (`PrevChunk`),
which takes the greatest header below. Contents survive since all headers written lie in the stretch
in hand and chunks do not overlap (`ChunksApart`, `HeldRelaid`); in `Realloc` they lie beyond
what is wanted of the block, unless it moves back. `BestFit` needs what the loop of
`LinkFree` keeps, large bins sorted by size, and that `BinIndex` is
monotone over its ten ranges (`BinIndexOrder`): the first fit of the first bin with one is a best fit.

**OscEngine** rests on the assumptions on its sizes. `OneOwner` counts the places that
refer to a packet. Inductive is that no queue has a packet twice, that no two
places share one (`InOnePlace`), and that the places together hold what is allocated and
not dropped (`Owned`). `SendOrder` is about packets performed; its invariant `InTurn`
orders those that are not: what a thread holds was sent after what it has in the FIFO,
that after what it has in the scheduler or the log, and a bundle that overtook another in
the scheduler has the earlier time. For `OnTime` the scheduler must find something to
perform whenever something is due (`NextExists`): the earliest of the first exists, which
is the least element of a set of numbers (`LeastNat`, from well-foundedness).

**NodeTree** rests on `RootAssumption` and the assumptions on its uses. `LinksOK` is not
inductive: neighbours that form a ring agree with each other. The invariant has no rings
(`NoRing`), links only of and to allocated nodes (`Within`) and children only of groups
(`Grouped`); together `Sane`. `Held`, that every allocated node is below the root, is what
careful clients get, and what keeps `Below`, `Group_DeleteAll` and the recursions from
going round in circles. `Walked` says of the stack of calls that each group is the
parent of the one called from it, up to the root, all different, and each has put aside
one of its children: that is why a done action that frees its group, or everything before
or after it, leaves every `Group_Calc` with a child that is still its own.

`NotesTell` says that the client knows which IDs there are, but for those whose last
notification was lost (`Agrees`). A step keeps that (`NotifyAgrees`) if what was written to
`mNodeEnds` in it is the difference of the IDs before and after (`HeardStep`). The
deletions recurse, so what is proved is closed under composition: a part of a command has told
what it did to the IDs (`Told`), an ID that ends was there and does not come back in the same
command. The done actions of several units are a recursion too, over a sequence of any
length (`DoneActionsDef`). The inductive part (`Heard`) is small: notes of a state speak of nodes as they are in it.
`WalkComplete` needs what `visited` has to do with the calls under way (`Seen`): in
a group that is being gone through, a child not yet called is followed by children not yet
called, and is not just before the child put aside (`Front`); a group that was called, runs
and is not being gone through has had all its children called; the parent of a called node was called. That
the last child of a group is called follows since children not called would lead to one
another for ever, which `NoRing` excludes. Done actions only take nodes out of the tree, which
keeps all this, shown for `Node_Remove` and lifted to the deletions.

**NodeLinks** is about the operators that change links: `RemoveLinked`,
`LinkBetweenLinked` and their uses in `Node_AddAfter`, `Node_AddBefore`, `Group_AddHead`,
`Group_AddTail`, on which the proofs about `NodeTree` are built. The remarkable case is a
node moved next to itself, which leaves it in no group but the links consistent.

**BufferCmds.** What a command will free in stage 4 must have left all the places from
which it could be used (`Apart`): the mirror since its stage 2; before its stage 3, what
travels to the audio thread behind it; after its stage 3, the audio thread's copy too.
`InOrder` is the order of the FIFOs, from which `SyncedIsSynced` follows: of two commands
the earlier one is at the same stage or further, and a completion message is the latest of
all. `Agree` says that the last message on its way for a buffer brings what the mirror
has; `Settled` is the case in which none is. Stage 3 with a completion message is two
steps in the proof, a command received and a stage 3 without one. `ReleasedOnce` counts:
memory that is still to be freed by somebody was freed zero times (`FreedOnce`), a sound file
in the mirror was closed zero times (`ClosedOnce`), and no command in the FIFO to the NRT thread has
been answered. `World_Cleanup` frees the memory of all buffers at once, as a number for
each block of memory, which needs that buffers are finitely many (`BufAssumption`).

**GraphDefs** rests on `DefAssumption`, `FileAssumption` (what is loaded are sequences of
definitions with names) and `NullAssumption`. `BlockOK` says for each block of memory
in which of its states it is: on a list to be added, in the library, used by synths, on
its way to be freed, lost; and that its count is exact. It needs that a block is on one
list and once (`Once`), that a variant is in the library only together with its
original (`Library`), and that a name is taken once (`Names`). `InTime` is about careful
clients: a message for a variant comes before the one for its original, and nothing comes
after that. The name that `GraphDef_DeleteMsg` reads late is the exception of `SynthsSound`:
the proof is about everything else (`Wild`). Replacing a definition is two steps in the proof: after the first (`Removed`)
there is room, so the second (`Added`) refuses nothing, whence `Overwritten`. That the
variants which fit do not exceed the capacity goes by the last of them
(`GreatestOne`, `FittingOK`).

**DspQueue** is proved for queues that are good ones (`GoodQueues`): an item's limit is the
number of places in lists of successors that name it, and the items nobody names are in
`initial`, once. This is a hypothesis of the theorems: `MCThreads` assumes it of its
queues (`QueuesAssumption`, which TLC evaluates), and the run `graph` checks it, as part of
`QueueSound`, of those that `DependencyGraph` makes. The invariant says where an item is (to be
pushed, on the stack, kept by a thread, being run, run; `Apart`) and what the counters
stand for: an activation count is the number of places not gone past (`Counted`), and
`node_count` the number of items that no thread has subtracted, for which each finished item has a
thread that owes it (`Accounted`, an existential statement).

Only model-checked:

- liveness (`Drains`, `QuietDrains`, `TickEnds`, `ThreadsEnd`, `Performed`): fairness is
  outside the prover's reach, and these are the properties for which `AudioSync` exists;
- `Implements` of the scheduler: percolation and demotion are recursive functions, and what
  they do to a heap of any depth needs induction over data;
- `Placed`, `QueueSound` and `OnlyContested` of supernova's tree: `DependencyGraph` goes through
  the tree with RECURSIVE operators, which the prover does not accept.

## 6. Where the code and its comments disagree

Five runs show a disagreement, as a trace of what the code does:

- **`tree_dtors`.** `Graph_Dtor` (`SC_Graph.cpp:49`) runs the units' destructors
  unless `mCalcFunc` is `Graph_FirstCalc`: "the above test insures that dtors are
  not called if ctors have not been called". A synth that is paused before its
  first block has `Graph_NullFirstCalc`, and freeing it runs destructors of units
  that were never constructed.
- **`sync_stop`.** `SC_SyncCondition::Signal` takes no lock because there is "only
  supposed to be one signaller and one waiter". The destructor of the driver is
  a second signaller, signals once, and joins; if that falls between the
  waiter's test and its wait, the join never returns. While the callback runs this
  is harmless (`QuietDrains`): it signals again at the next block.
- **`graph_move`.** supernova's `move_before_or_after` (`group.hpp:221`) takes the
  parent of the node that is moved for the one of the target. `/n_before` and
  `/n_after` between two groups put the node in the other group's list, but
  leave its parent and the counters, against the command reference ("Places node A in
  the same group as node B") and the assertions of `child_count`. Within a group
  everything is right; `graph` has that (`Across`).
- **`graph_tails`.** `group::tail_nodes` (`group.hpp:322`) returns 0 for a group that
  ends with a group of empty groups, although synths come before that. The synth
  after such a group is then runnable at once and runs beside the ones it should
  wait for ("The tree defines the order of execution of all Synths"); their
  decrement takes its activation count below zero. `QueueSound` leaves out trees with
  a group that has children and no synth.
- **`pool_realloc`.** When `Realloc` (`SC_AllocPool.cpp:504`) moves a block into the
  free chunk before it, it splits off the rest before it moves the data, and
  the rest's header can lie in them. `Intact` says that this is the only way in
  which a block loses contents (`back`).

Met while modelling; the properties are stated so that they exclude exactly these
cases, by the named variable where there is one:

- `/b_alloc` without samples: stage 2 notes the old memory for stage 4 to free, but
  `bufAlloc` leaves the `SndBuf` pointing to it (`SC_SequencedCommand.cpp:276`;
  `noSamples`).
- A full scheduler, `/clearSched`, and `FreeInNRT` with a full FIFO let go of packets
  without freeing them (`SC_CoreAudio.h:224`, `:209`, `SC_CoreAudio.cpp:405`;
  `dropped`).
- A synth made from a variant counts in the variant, whose memory goes with the
  original (`SC_Graph.cpp:430`); `/d_freeAll` frees definitions in use and looks at
  variants in memory it has freed (`SC_World.cpp:787`; `careful`).
- A sound file closed by a command stays in the audio thread's copy of the `SndBuf`
  until some stage 3 overwrites it; `World_Cleanup` closes it again
  (`SC_World.cpp:935`; `ReleasedOnce` speaks of commands only).
- `/n_after` with a node and itself takes the node out of the tree; `/g_head` of a group
  with a group above it makes a cycle in which deletion and the walk never end
  (`use.careful`).
- Add action 4 and `/s_noid` take an ID away without `/n_end` (`SC_MiscCmds.cpp:811`);
  `/g_head` within a group sends no `/n_move` (`:1222`).
- `/n_run 1` does not resume a synth that was paused before its first block
  (`SC_Node.cpp:262`): only `Node_NullCalc` counts as paused. The synth is
  constructed in the next block and stays paused.
- The reply to `/notify` always has `maxLogins` (`SC_SequencedCommand.cpp:1211`), which
  the command reference has only for requests with an ID.
- `World_Cleanup` deletes `mDriverLock` right after unlocking it (`SC_World.cpp:920`),
  when network threads may be waiting for it; `OscEngine` lets them have it.
- In supernova, done actions 6, 8 and 12, which are to free what follows, use
  `previous_node` (`sc_plugin_interface.cpp:231`, `:252`, `:274`); `NodeGraph` does as the
  code does.
- Two done actions of one block can contend for a node, which `apply_done_actions`
  (`sc_plugin_interface.cpp:755-772`) then uses after its deletion or without its parent:
  `freeGroup` and `freeAllInGroup` of two synths of a group, since `free_node` deletes the
  group that `group_free_all` goes through; `freeGroup` of synths in a group and in a group
  in it; `freeAllInGroup` likewise; emptying a group that another action frees; and pausing
  or resuming a node that another action frees, for which `assert(parent_node)` fails
  (`sc_osc_handler.cpp:93`). `OnlyContested` says that no other node is used when it is
  gone; synths that are freed twice are safe, as the queue refers to them.
- `/s_new` and the like, `/n_before`, `/n_after` and `/n_order` before, after or in place of
  the root pass `node_position_sanity_check` (`sc_osc_handler.cpp:998`) in supernova, and
  `add_node` follows the root's null parent (`node_graph.hpp:70`, `:96`; `NoParent`).
- `GraphDef_DeleteMsg` queues the definition for the NRT thread (`SC_GraphDef.cpp:569`) and
  then reads its name (`:576`), when it may have been freed (`wild`).
- `Node_StateMsg` drops the result of `mNodeEnds.Write` (`SC_Node.cpp:372`): with 1023
  notifications waiting, the next is lost and the client is not told (`client.unsure`).
- The number of consumers of an output is cut to an `int16` (`SC_GraphDef.cpp:801`): with
  65536 the first release throws, with more the buffer is given away too early
  (`Countable`). After 32768 buffers, `NumBufs` is negative and `mNumWireBufs` huge.
- `/b_readChannel` does not compare the channels of the file with the buffer's
  (`SC_SequencedCommand.cpp:865`); with a negative offset it opens a file for a buffer that
  has no memory.
- A node that is replaced (add action 4) in supernova leaves the tree, but not the node
  set (`node_graph.hpp:97`): its ID stays taken. `/n_order` to the head or after a
  node reverses the nodes it is given (`sc_osc_handler.cpp:1668`).
- `used_helper_threads` of an empty parallel queue is 255 (`dsp_thread_queue.hpp:365`);
  such a queue is never run.
- A pool that grows and gets a request of exactly `mAreaMoreSize`, or one unit less,
  splits a new area into the chunk and a rest of no or one unit (`SC_AllocPool.cpp:395`),
  whose header overwrites the mark at the area's end: the area is never given back,
  and chunk checks run on beyond it; so does one of fixed size for `mAreaInitSize` when its area is
  gone after `FreeAll`. `PoolAssumption` leaves these requests out.
- `mRealTimeMemorySize * 1024` (`SC_World.cpp:308`) and `remainder_size`
  (`SC_AllocPool.cpp:303`) are 32 bits wide: pools of 2 GB and more overflow.
- `World_GetNRTBuf` accepts an index one past the end (`SC_World.h:115`).
- The disk thread writes `mask` of the audio thread's `SndBuf` while stage 3 of a command
  may overwrite it (`DiskIO_UGens.cpp:117`); `BufferCmds` leaves the field out.

## 7. Abstractions and what is not modelled

- **Memory model.** `MsgFifo` and `AudioSync` are sequentially consistent. The loads of
  the other thread's head in `HasData`, `NeedsFree` and `Write` are relaxed; whether
  stores of the item may be seen after the head on weakly ordered hardware is not
  answered here.
- **Allocation.** Allocation succeeds, except where `NodeTree` lets `mNodeLib` be full
  and `BufferCmds` lets commands fail. `AllocPool` models the pool itself; it is not
  composed with its users.
- **Node IDs made by the server** (negative) are one value, `Hidden`, never looked
  up; that `mHiddenID` wraps around after 2^28 of them is left out.
- **OscEngine**: packets are messages and bundles without bundles inside. The callback
  is that of the JACK driver; the others have the same structure. Sample
  offsets within a block are left out.
- **BufferCmds**: sample data, sizes, rates and the field `mask` are left out, and the
  sequential mode (`CallEveryStage`). Completion messages are one asynchronous command
  for the same buffer, or none.
- **GraphDefs**: contents and parsing of definitions, the clients that `/d_removed` goes to
  (a data race with `NotifyCmd` on `mUsers`), loading at startup; `/d_free` has one name.
- **BufColoring**: `realloc` fails only where the size it is given is negative. The
  outputs of a unit have the unit's rate. Units are in topological order, as sclang
  sorts them.
- **HashTable**: sizes are powers of two, as the server options have them.
- **AllocPool**: the first half unit of data that shares a unit with the header is not
  told apart from it; `malloc` gives areas far from each other.
- **NodeGraph**: pausing has no effect but its notification; clients name nodes in the
  tree, or the root, and do not move a group into itself. Synth definitions, controls and notifications
  are left out.
- **DspQueue**: the lock-free stack is boost's and is atomic here; counting a successor
  down to zero and pushing it is one step. The audio thread's watchdog, which aborts the
  program after ten seconds, is left out. Memory is sequentially consistent; the code
  has release and acquire where the model relies on it.
- **NodeTree**: control values, bus mappings and queries, which read or move data only.
- Not modelled at all: unit generators (signal processing), non-real-time synthesis (a
  sequential loop over a file), the other audio backends, the rest of supernova
  (asynchronous commands, backends, definitions), sclang and its class library, editors,
  GUI and help, third-party code.

## 8. Plan

Done, in this order: the FIFOs and the scheduler, on which everything rests; the
node tree; wake-up and shutdown; the path of a packet, composed from the abstract
queues; the asynchronous commands; clients; definitions; wire buffers; tables; the
memory pool; supernova's tree, dependency graph and threads.

Proved, in this order: the ring and its refinement, clients, moves of nodes; the path of
packets; the DSP threads; the node tree; the buffer commands; the definitions; then what
was left of these (`ReleasedOnce`, `NotesTell`, `WalkComplete`), wire buffers, the hash
tables with their refinement, and the memory pool.

Next, the proofs that are left and not out of reach: `TypeOK` of `AudioSync`, and `Placed` of
`NodeGraph`, in a module of its own that does not need the queue.

Models that could follow: nested bundles (`UnrollOSCPacket`, which needs byte
offsets); the ownership of completion messages, and the other fields of `SndBuf` (sample
rate, the `mask` that the disk thread writes); `GraphDefs` composed with `NodeTree`;
`MsgFifoNoFree`, and a weaker memory model for both FIFOs; sclang's `PyrSched` and the
allocators of `Engine.sc`.
