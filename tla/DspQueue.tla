------------------------------ MODULE DspQueue ------------------------------
(***************************************************************************)
(* The threads that compute a block of supernova (dsp_queue_interpreter    *)
(* in dsp_thread_queue.hpp, dsp_thread and dsp_thread_pool in              *)
(* dsp_thread.hpp).                                                        *)
(*                                                                         *)
(* The audio thread and its helpers take runnable items from a lock-free   *)
(* stack.  Who has run an item counts down the successors; of those that   *)
(* have no predecessor left it runs the first itself and puts the others   *)
(* on the stack.  node_count is the number of items still to be run: a     *)
(* thread takes off what it has run when it finds no more to go on with,   *)
(* and the tick ends at zero.  Helpers are woken by semaphores, and may    *)
(* come late: to the end of a tick, or into the next one.                  *)
(*                                                                         *)
(* One atomic access is one step.  Between counting a successor down to    *)
(* zero and putting it on the stack no other thread can tell the           *)
(* difference, so that is one step.                                        *)
(***************************************************************************)
EXTENDS Integers, Sequences, FiniteSets

CONSTANTS
    Helpers,     \* the number of helper threads
    Queues,      \* the queues that the node tree gives
    MaxBehind    \* bound on the wakings that a helper has not come to yet

VARIABLES
    queue,       \* items with their successors and limits, initial, parallel
    count,       \* activation_count of every item
    runnable,    \* runnable_items, the top first
    nodeCount,   \* node_count
    used,        \* used_helper_threads
    sem,         \* cycle_sem of every helper
    stop,        \* its flag stop
    pc,          \* where every thread is; 0 is the audio thread
    cur,         \* the item it runs; NoItem between items
    next,        \* the one it is to run after that
    pos,         \* its loop counter
    consumed,    \* the items it has run since it took one from the stack
    ran          \* the items that were run in this tick

threadVars == <<pc, cur, next, pos, consumed>>
dspVars == <<queue, count, runnable, nodeCount, used, sem, stop, threadVars, ran>>

Helper == 1 .. Helpers
Thread == 0 .. Helpers
NoItem == 0
Item == DOMAIN queue.items
Succ(i) == queue.items[i].succ
Limit(i) == queue.items[i].limit

\* used_helper_threads for a queue.  thread_count_t has 8 bits: an empty queue
\* makes it the largest, but is never run.
UsedHelpers(q) ==
    IF ~q.parallel THEN 0
    ELSE ((IF Len(q.items) < Helpers + 1 THEN Len(q.items) ELSE Helpers + 1) - 1) % 256

DspInit ==
    /\ queue \in Queues
    /\ count = [i \in Item |-> Limit(i)] /\ used = UsedHelpers(queue) /\ ran = Item
    /\ runnable = <<>> /\ nodeCount = 0
    /\ sem = [h \in Helper |-> 0] /\ stop = [h \in Helper |-> FALSE]
    /\ pc = [t \in Thread |-> IF t = 0 THEN "idle" ELSE "wait"]
    /\ cur = [t \in Thread |-> NoItem] /\ next = [t \in Thread |-> NoItem]
    /\ pos = [t \in Thread |-> 0] /\ consumed = [t \in Thread |-> 0]

At(t, here) == pc[t] = here
Goto(t, there) == pc' = [pc EXCEPT ![t] = there]
Set(f, t, x) == [f EXCEPT ![t] = x]
-----------------------------------------------------------------------------
(* The audio thread. *)

\* reset_queue, reset_activation_counts
ResetQueue(q) ==
    /\ At(0, "idle")
    /\ queue' = q /\ used' = UsedHelpers(q)
    /\ count' = [i \in DOMAIN q.items |-> q.items[i].limit] /\ ran' = DOMAIN q.items
    /\ UNCHANGED <<runnable, nodeCount, sem, stop, threadVars>>

\* init_tick
InitTick ==
    /\ At(0, "idle") /\ queue.items # <<>> /\ \A h \in Helper : sem[h] < MaxBehind
    /\ nodeCount' = Len(queue.items) /\ ran' = {}
    /\ pos' = Set(pos, 0, 1) /\ Goto(0, "push")
    /\ UNCHANGED <<queue, count, runnable, used, sem, stop, cur, next, consumed>>

PushInitial ==
    /\ At(0, "push") /\ pos[0] <= Len(queue.initial)
    /\ runnable' = <<queue.initial[pos[0]]>> \o runnable
    /\ pos' = Set(pos, 0, pos[0] + 1)
    /\ UNCHANGED <<queue, count, nodeCount, used, sem, stop, pc, cur, next, consumed, ran>>

\* wake_threads, and on to tick_master
WakeThreads ==
    /\ At(0, "push") /\ pos[0] > Len(queue.initial)
    /\ Goto(0, IF used = 0 THEN "load" ELSE "wake") /\ pos' = Set(pos, 0, 1)
    /\ UNCHANGED <<queue, count, runnable, nodeCount, used, sem, stop, cur, next, consumed, ran>>

WakeThread ==
    /\ At(0, "wake") /\ sem' = [sem EXCEPT ![pos[0]] = @ + 1]
    /\ pos' = Set(pos, 0, pos[0] + 1)
    /\ Goto(0, IF pos[0] = used THEN "load" ELSE "wake")
    /\ UNCHANGED <<queue, count, runnable, nodeCount, used, stop, cur, next, consumed, ran>>

\* wait_for_end
WaitForEnd ==
    /\ At(0, "end") /\ nodeCount = 0 /\ Goto(0, "idle")
    /\ UNCHANGED <<queue, count, runnable, nodeCount, used, sem, stop, cur, next, pos, consumed, ran>>

\* Slip: nobody is woken.
JoinQuietly ==
    /\ At(0, "join") /\ pos[0] <= Helpers
    /\ stop' = [stop EXCEPT ![pos[0]] = TRUE]
    /\ Goto(0, "joining")
    /\ UNCHANGED <<queue, count, runnable, nodeCount, used, sem, cur, next, pos, consumed, ran>>

\* terminate_threads, when there are no more ticks: dsp_thread::join of one
\* after the other
TerminateThreads ==
    /\ At(0, "idle") /\ Goto(0, "join") /\ pos' = Set(pos, 0, 1)
    /\ UNCHANGED <<queue, count, runnable, nodeCount, used, sem, stop, cur, next, consumed, ran>>

Join ==
    /\ At(0, "join") /\ pos[0] <= Helpers
    /\ stop' = [stop EXCEPT ![pos[0]] = TRUE] /\ sem' = [sem EXCEPT ![pos[0]] = @ + 1]
    /\ Goto(0, "joining")
    /\ UNCHANGED <<queue, count, runnable, nodeCount, used, cur, next, pos, consumed, ran>>

Joined ==
    /\ At(0, "joining") /\ At(pos[0], "exited")
    /\ pos' = Set(pos, 0, pos[0] + 1)
    /\ Goto(0, IF pos[0] = Helpers THEN "ended" ELSE "join")
    /\ UNCHANGED <<queue, count, runnable, nodeCount, used, sem, stop, cur, next, consumed, ran>>

\* dsp_thread::run
Wake(h) ==
    /\ At(h, "wait") /\ sem[h] > 0 /\ sem' = [sem EXCEPT ![h] = @ - 1]
    /\ Goto(h, IF stop[h] THEN "exited" ELSE "load")
    /\ UNCHANGED <<queue, count, runnable, nodeCount, used, stop, cur, next, pos, consumed, ran>>
-----------------------------------------------------------------------------
(* run_item, of every thread. *)

Back(t) == IF t = 0 THEN "end" ELSE "wait"

Load(t) ==
    /\ At(t, "load") /\ Goto(t, IF nodeCount = 0 THEN Back(t) ELSE "pop")
    /\ UNCHANGED <<queue, count, runnable, nodeCount, used, sem, stop, cur, next, pos, consumed, ran>>

\* run_next_item
Pop(t) ==
    /\ At(t, "pop") /\ runnable # <<>>
    /\ cur' = Set(cur, t, Head(runnable)) /\ runnable' = Tail(runnable)
    /\ consumed' = Set(consumed, t, 0) /\ Goto(t, "run")
    /\ UNCHANGED <<queue, count, nodeCount, used, sem, stop, next, pos, ran>>

\* fifo_empty
Poll(t) ==
    /\ At(t, "pop") /\ runnable = <<>> /\ Goto(t, "load")
    /\ UNCHANGED <<queue, count, runnable, nodeCount, used, sem, stop, cur, next, pos, consumed, ran>>

\* A helper that has polled for too long goes back to sleep.  The audio thread
\* would abort the program: jobs are taken to be shorter than the ten seconds.
GiveUp(h) ==
    /\ At(h, "pop") /\ runnable = <<>> /\ Goto(h, "wait")
    /\ UNCHANGED <<queue, count, runnable, nodeCount, used, sem, stop, cur, next, pos, consumed, ran>>

\* The end of the job of an item.
Run(t) ==
    /\ At(t, "run") /\ Goto(t, "update") /\ ran' = ran \cup {cur[t]}
    /\ pos' = Set(pos, t, 1) /\ next' = Set(next, t, NoItem)
    /\ UNCHANGED <<queue, count, runnable, nodeCount, used, sem, stop, cur, consumed>>

\* Slip: the first predecessor that has run makes an item runnable.
AnyPredecessor(s) == TRUE

\* decrement_activation_count finds no other predecessor to wait for.
LastPredecessor(s) == count[s] = 1

\* Slip: all successors that are runnable are kept for itself.
UpdateNoPush(t) ==
    /\ At(t, "update") /\ pos[t] <= Len(Succ(cur[t]))
    /\ LET s == Succ(cur[t])[pos[t]]
       IN  /\ count' = [count EXCEPT ![s] = @ - 1]
           /\ next' = IF LastPredecessor(s) THEN Set(next, t, s) ELSE next
    /\ pos' = Set(pos, t, pos[t] + 1)
    /\ UNCHANGED <<queue, runnable, nodeCount, used, sem, stop, pc, cur, consumed, ran>>

\* update_dependencies, decrement_activation_count, mark_as_runnable
UpdateDependencies(t) ==
    /\ At(t, "update") /\ pos[t] <= Len(Succ(cur[t]))
    /\ LET s == Succ(cur[t])[pos[t]]
           mine == LastPredecessor(s) /\ next[t] = NoItem
       IN  /\ count' = [count EXCEPT ![s] = @ - 1]
           /\ next' = IF mine THEN Set(next, t, s) ELSE next
           /\ runnable' = IF LastPredecessor(s) /\ ~mine THEN <<s>> \o runnable ELSE runnable
    /\ pos' = Set(pos, t, pos[t] + 1)
    /\ UNCHANGED <<queue, nodeCount, used, sem, stop, pc, cur, consumed, ran>>

\* Slip: the count is not set back.
KeepCount(t) ==
    /\ At(t, "update") /\ pos[t] > Len(Succ(cur[t]))
    /\ cur' = Set(cur, t, next[t])
    /\ consumed' = Set(consumed, t, consumed[t] + 1)
    /\ Goto(t, IF next[t] = NoItem THEN "sub" ELSE "run")
    /\ UNCHANGED <<queue, count, runnable, nodeCount, used, sem, stop, next, pos, ran>>

\* reset_activation_count, and the next item
ResetActivationCount(t) ==
    /\ At(t, "update") /\ pos[t] > Len(Succ(cur[t]))
    /\ count' = [count EXCEPT ![cur[t]] = Limit(cur[t])]
    /\ cur' = Set(cur, t, next[t])
    /\ consumed' = Set(consumed, t, consumed[t] + 1)
    /\ Goto(t, IF next[t] = NoItem THEN "sub" ELSE "run")
    /\ UNCHANGED <<queue, runnable, nodeCount, used, sem, stop, next, pos, ran>>

\* node_count.fetch_sub
Subtract(t) ==
    /\ At(t, "sub") /\ nodeCount' = nodeCount - consumed[t]
    /\ Goto(t, IF nodeCount = consumed[t] THEN Back(t) ELSE "load")
    /\ pos' = Set(pos, t, 0) /\ consumed' = Set(consumed, t, 0)
    /\ UNCHANGED <<queue, count, runnable, used, sem, stop, cur, next, ran>>

RunItem(t) ==
    \/ Load(t) \/ Pop(t) \/ Poll(t) \/ Run(t)
    \/ UpdateDependencies(t) \/ ResetActivationCount(t) \/ Subtract(t)

Master ==
    \/ PushInitial \/ WakeThreads \/ WakeThread \/ WaitForEnd \/ Join \/ Joined
    \/ RunItem(0)

DspNext ==
    \/ \E q \in Queues : ResetQueue(q)
    \/ InitTick \/ TerminateThreads \/ Master
    \/ \E h \in Helper : Wake(h) \/ RunItem(h) \/ GiveUp(h)
    \/ At(0, "ended") /\ UNCHANGED dspVars

\* The threads have the highest priorities, each on a processor of its own.
DspFairness == WF_dspVars(Master) /\ \A h \in Helper : WF_dspVars(Wake(h) \/ RunItem(h))

DspSpec == DspInit /\ [][DspNext]_dspVars /\ DspFairness
-----------------------------------------------------------------------------
\* The places in lists of successors where the item i is, with the items that
\* have these lists.
Tellings(q, i) ==
    UNION {{<<j, k>> : k \in {k \in DOMAIN q.items[j].succ : q.items[j].succ[k] = i}} :
           j \in DOMAIN q.items}

\* What run_item takes for granted of a queue: an item's limit is how often it
\* will be told, and those that nobody tells are in initial, once.
GoodQueue(q) ==
    LET items == 1 .. Len(q.items)
    IN  /\ DOMAIN q.items = items
        /\ \A i \in items : /\ q.items[i].succ \in Seq(items)
                            /\ q.items[i].limit = Cardinality(Tellings(q, i))
        /\ q.initial \in Seq(items)
        /\ \A k \in DOMAIN q.initial : q.items[q.initial[k]].limit = 0
        /\ \A k, l \in DOMAIN q.initial : q.initial[k] = q.initial[l] => k = l

GoodQueues == \A q \in Queues : Len(q.items) \in Nat /\ GoodQueue(q)

\* Ranges of the variables.
DspTypeOK ==
    /\ queue \in Queues /\ count \in [Item -> Nat] /\ ran \subseteq Item
    /\ runnable \in Seq(Item) /\ nodeCount \in 0 .. Len(queue.items)
    /\ used \in 0 .. 255
    /\ sem \in [Helper -> Nat] /\ stop \in [Helper -> BOOLEAN]
    /\ pc \in [Thread -> {"idle", "push", "wake", "load", "pop", "run", "update", "sub", "end",
                          "wait", "join", "joining", "exited", "ended"}]
    /\ cur \in [Thread -> Item \cup {NoItem}] /\ next \in [Thread -> Item \cup {NoItem}]
    /\ pos \in [Thread -> Nat] /\ consumed \in [Thread -> Nat]

Predecessors(i) == {j \in Item : \E k \in DOMAIN Succ(j) : Succ(j)[k] = i}

\* An item is run when all its predecessors have been, by one thread and once
\* in a tick; the counters that say so never go below zero, as the asserts in
\* run, decrement_activation_count and run_next_item say.
InOrder == \A t \in Thread :
    /\ At(t, "run") =>
          /\ Predecessors(cur[t]) \subseteq ran /\ cur[t] \notin ran
          /\ \A u \in Thread \ {t} : ~(At(u, "run") /\ cur[u] = cur[t])
          /\ count[cur[t]] = 0
    /\ At(t, "update") /\ pos[t] <= Len(Succ(cur[t])) => count[Succ(cur[t])[pos[t]]] > 0
    /\ At(t, "sub") => nodeCount >= consumed[t]

\* Between two ticks everything has been run and the queue is as it was; no
\* helper, however late, has an item: reset_queue is not to be called "if
\* threads are currently accessing the queue".
IdleIsClean == At(0, "idle") =>
    /\ nodeCount = 0 /\ runnable = <<>> /\ ran = Item
    /\ \A i \in Item : count[i] = Limit(i)
    /\ \A h \in Helper : cur[h] = NoItem

\* A tick ends, also when helpers are late or have given up.
TickEnds == At(0, "push") ~> At(0, "idle")

\* All helpers end when they are told to.
ThreadsEnd == At(0, "join") ~> At(0, "ended")
=============================================================================
