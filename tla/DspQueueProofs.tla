--------------------------- MODULE DspQueueProofs ---------------------------
(***************************************************************************)
(* supernova's DSP threads for every number of helpers and all queues that *)
(* are good ones.                                                          *)
(*                                                                         *)
(* What is inductive is where the items are: to be pushed, on the stack,   *)
(* kept by a thread as its next one, being run, or run (Apart), and what   *)
(* the counters stand for.  The activation count of an item is the number  *)
(* of places in lists of successors that have not been gone past (Counted) *)
(* and node_count the number of items that no thread has subtracted        *)
(* (Accounted).  A thread that is late keeps none of this from being true. *)
(***************************************************************************)
EXTENDS DspQueue, FiniteSetTheorems, SequenceTheorems, TLAPS

Left == -1       \* not run to the end
Gone == -2       \* subtracted from node_count

Busy(t) == pc[t] \in {"run", "update"}

ThreadTyped(t) ==
    /\ pc[t] \in {"idle", "push", "wake", "load", "pop", "run", "update", "sub", "end",
                  "wait", "join", "joining", "exited", "ended"}
    /\ pos[t] \in Nat /\ consumed[t] \in Nat
    /\ At(t, "push") \/ At(t, "update") => pos[t] # 0
    /\ cur[t] \in Item \cup {NoItem} /\ next[t] \in Item \cup {NoItem}
    /\ Busy(t) <=> cur[t] # NoItem
    /\ next[t] # NoItem => Busy(t)
    /\ consumed[t] # 0 => Busy(t) \/ At(t, "sub")
Typed ==
    /\ queue \in Queues /\ count \in [Item -> Int] /\ ran \subseteq Item
    /\ runnable \in Seq(Item) /\ nodeCount \in Int /\ used \in 0 .. 255
    /\ sem \in [Helper -> Nat] /\ stop \in [Helper -> BOOLEAN]
    /\ DOMAIN pc = Thread /\ DOMAIN cur = Thread /\ DOMAIN next = Thread
    /\ DOMAIN pos = Thread /\ DOMAIN consumed = Thread
    /\ \A t \in Thread : ThreadTyped(t)

\* The items in a list, and that it has none twice.
Members(s) == {s[k] : k \in DOMAIN s}
Once(s) == \A k, l \in DOMAIN s : s[k] = s[l] => k = l

ToPush == {queue.initial[k] : k \in {k \in DOMAIN queue.initial : At(0, "push") /\ k >= pos[0]}}
OnStack == Members(runnable)
Kept == {next[t] : t \in {t \in Thread : At(t, "update")}} \ {NoItem}
Running == {cur[t] : t \in {t \in Thread : At(t, "run")}}
Ready == ToPush \cup OnStack \cup Kept \cup Running \cup ran

\* Every item is in one place at most.
Apart ==
    /\ Once(runnable)
    /\ \A t, u \in Thread :
          At(t, "update") /\ At(u, "update") /\ next[t] = next[u] /\ next[t] # NoItem => t = u
    /\ \A t, u \in Thread : Busy(t) /\ Busy(u) /\ cur[t] = cur[u] => t = u
    /\ \A t \in Thread : At(t, "update") => cur[t] \in ran
    /\ ToPush \cap (OnStack \cup Kept \cup Running \cup ran) = {}
    /\ OnStack \cap (Kept \cup Running \cup ran) = {}
    /\ Kept \cap (Running \cup ran) = {}
    /\ Running \cap ran = {}

\* The place e in a list of successors has been gone past.
Told(e) ==
    /\ e[1] \in ran
    /\ \A t \in Thread : At(t, "update") /\ cur[t] = e[1] => e[2] < pos[t]
Untold(i) == {e \in Tellings(queue, i) : ~Told(e)}

Finished(i) == i \in ran /\ \A t \in Thread : At(t, "update") => cur[t] # i

AllTold == \A i \in Ready : Untold(i) = {}
Counted ==
    \A i \in Item : count[i] = IF Finished(i) THEN Limit(i) ELSE Cardinality(Untold(i))

\* Which thread has run the items that are not subtracted yet.
Owns(own) ==
    /\ \A i \in Item : own[i] # Left <=> Finished(i)
    /\ \A t \in Thread : consumed[t] = Cardinality({i \in Item : own[i] = t})
    /\ nodeCount = Cardinality({i \in Item : own[i] # Gone})
Accounted == \E own \in [Item -> Thread \cup {Left, Gone}] : Owns(own)

NoTick == pc[0] \in {"idle", "join", "joining", "ended"} => nodeCount = 0

Inv == Typed /\ Apart /\ AllTold /\ Counted /\ Accounted /\ NoTick
-----------------------------------------------------------------------------
(* Queues. *)

LEMMA Queue ==
    ASSUME GoodQueues, NEW q \in Queues
    PROVE  /\ Len(q.items) \in Nat /\ DOMAIN q.items = 1 .. Len(q.items)
           /\ NoItem \notin DOMAIN q.items
           /\ IsFiniteSet(DOMAIN q.items) /\ Cardinality(DOMAIN q.items) = Len(q.items)
           /\ \A i \in DOMAIN q.items : q.items[i].succ \in Seq(DOMAIN q.items)
           /\ q.initial \in Seq(DOMAIN q.items)
           /\ \A k, l \in DOMAIN q.initial : q.initial[k] = q.initial[l] => k = l
  <1>1. Len(q.items) \in Nat /\ GoodQueue(q)
    BY DEF GoodQueues
  <1>2. /\ DOMAIN q.items = 1 .. Len(q.items)
        /\ \A i \in DOMAIN q.items : q.items[i].succ \in Seq(DOMAIN q.items)
        /\ q.initial \in Seq(DOMAIN q.items)
        /\ \A k, l \in DOMAIN q.initial : q.initial[k] = q.initial[l] => k = l
    BY <1>1 DEF GoodQueue
  <1>3. IsFiniteSet(1 .. Len(q.items)) /\ Cardinality(1 .. Len(q.items)) = Len(q.items)
    <2>1. 1 \in Int /\ Len(q.items) \in Int
      BY <1>1
    <2>2. /\ IsFiniteSet(1 .. Len(q.items))
          /\ Cardinality(1 .. Len(q.items)) = IF 1 > Len(q.items) THEN 0 ELSE Len(q.items) - 1 + 1
      BY <2>1, FS_Interval
    <2>3. QED
      BY <1>1, <2>2
  <1>4. NoItem \notin 1 .. Len(q.items)
    BY <1>1 DEF NoItem
  <1>5. QED
    BY <1>1, <1>2, <1>3, <1>4

\* A telling is a place in a list of successors.
LEMMA Telling ==
    ASSUME NEW q, NEW i, NEW e
    PROVE  e \in Tellings(q, i) <=>
             \E j \in DOMAIN q.items : \E k \in DOMAIN q.items[j].succ :
                e = <<j, k>> /\ q.items[j].succ[k] = i
  BY DEF Tellings

LEMMA FewTellings ==
    ASSUME GoodQueues, NEW q \in Queues, NEW i \in DOMAIN q.items
    PROVE  /\ IsFiniteSet(Tellings(q, i)) /\ q.items[i].limit = Cardinality(Tellings(q, i))
           /\ q.items[i].limit \in Nat
           /\ q.items[i].limit = 0 => Tellings(q, i) = {}
  <1> DEFINE I == DOMAIN q.items
             places == [j \in I |-> DOMAIN q.items[j].succ]
             P == {places[j] : j \in I}
  <1>1. IsFiniteSet(I) /\ \A j \in I : q.items[j].succ \in Seq(I)
    BY Queue
  <1>2. \A K \in P : IsFiniteSet(K)
    <2> SUFFICES ASSUME NEW j \in I PROVE IsFiniteSet(DOMAIN q.items[j].succ)
      OBVIOUS
    <2>1. Len(q.items[j].succ) \in Int /\ 1 \in Int /\ DOMAIN q.items[j].succ = 1 .. Len(q.items[j].succ)
      BY <1>1
    <2>2. QED
      BY <2>1, FS_Interval
  <1>3. IsFiniteSet(P)
    <2>1. places \in Surjection(I, P)
      BY DEF Surjection
    <2>2. QED
      BY <1>1, <2>1, FS_Surjection
  <1>4. IsFiniteSet(UNION P)
    BY <1>2, <1>3, FS_UNION
  <1>5. IsFiniteSet(I \X UNION P)
    BY <1>1, <1>4, FS_Product
  <1>6. Tellings(q, i) \subseteq I \X UNION P
    BY Telling
  <1>7. IsFiniteSet(Tellings(q, i))
    BY <1>5, <1>6, FS_Subset
  <1>8. q.items[i].limit = Cardinality(Tellings(q, i))
    BY Queue DEF GoodQueues, GoodQueue
  <1>9. QED
    BY <1>7, <1>8, FS_CardinalityType, FS_EmptySet

\* The queue that is worked on.
LEMMA Items ==
    ASSUME GoodQueues, Typed
    PROVE  /\ Len(queue.items) \in Nat /\ Item = 1 .. Len(queue.items) /\ NoItem \notin Item
           /\ IsFiniteSet(Item) /\ Cardinality(Item) = Len(queue.items)
           /\ \A i \in Item : /\ Succ(i) \in Seq(Item) /\ Limit(i) \in Nat
                              /\ IsFiniteSet(Tellings(queue, i))
                              /\ Limit(i) = Cardinality(Tellings(queue, i))
           /\ \A i, e : e \in Tellings(queue, i) <=>
                           \E j \in Item : \E k \in DOMAIN Succ(j) : e = <<j, k>> /\ Succ(j)[k] = i
  <1>1. queue \in Queues
    BY DEF Typed
  <1>2. QED
    BY <1>1, Queue, FewTellings, Telling DEF Item, Succ, Limit
-----------------------------------------------------------------------------
(* Steps that leave the items alone. *)

LEMMA Frame ==
    ASSUME Inv, Typed', UNCHANGED <<queue, count, runnable, nodeCount, ran, cur, next, consumed>>,
           \A t \in Thread : /\ At(t, "run") <=> At(t, "run")'
                             /\ At(t, "update") <=> At(t, "update")'
                             /\ At(t, "update") => pos'[t] = pos[t],
           ToPush' = ToPush, NoTick'
    PROVE  Inv'
  <1>1. OnStack' = OnStack /\ Kept' = Kept /\ Running' = Running
    BY DEF OnStack, Kept, Running
  <1>2. \A t \in Thread : Busy(t)' <=> Busy(t)
    BY DEF Busy, At
  <1>3. Apart'
    BY <1>1, <1>2 DEF Inv, Apart
  <1>4. \A e : Told(e)' <=> Told(e)
    BY DEF Told
  <1>5. \A i : Untold(i)' = Untold(i) /\ (Finished(i)' <=> Finished(i))
    BY <1>4 DEF Untold, Finished
  <1>6. AllTold'
    BY <1>1, <1>5 DEF Inv, AllTold, Ready
  <1>7. Item' = Item /\ \A i : Limit(i)' = Limit(i)
    BY DEF Item, Limit
  <1>8. Counted'
    BY <1>5, <1>7 DEF Inv, Counted
  <1>9. Accounted'
    BY <1>5, <1>7 DEF Inv, Accounted, Owns
  <1>10. QED
    BY <1>3, <1>6, <1>8, <1>9 DEF Inv

Quiet == {"idle", "push", "wake", "load", "pop", "end", "wait", "join", "joining", "exited", "ended"}

\* A thread that has no item goes somewhere else.
LEMMA QuietStep ==
    ASSUME Helpers \in Nat, Inv, UNCHANGED <<queue, count, runnable, nodeCount, ran, cur, next, consumed>>,
           used' \in 0 .. 255, sem' \in [Helper -> Nat], stop' \in [Helper -> BOOLEAN],
           NEW t \in Thread, pc[t] \in Quiet, NEW there \in Quiet \ {"push"}, Goto(t, there),
           DOMAIN pos' = Thread, \A u \in Thread : pos'[u] \in Nat,
           \A u \in Thread : u # t => pos'[u] = pos[u],
           ToPush' = ToPush, NoTick'
    PROVE  Inv'
  <1>1. \A u \in Thread : pc'[u] = IF u = t THEN there ELSE pc[u]
    BY DEF Goto, Inv, Typed
  <1>2. DOMAIN pc' = Thread
    BY DEF Goto, Inv, Typed
  <1>3. \A x \in Quiet : x \notin {"run", "update", "sub"}
    BY DEF Quiet
  <1>4. \A u \in Thread : /\ At(u, "run") <=> At(u, "run")'
                          /\ At(u, "update") <=> At(u, "update")'
                          /\ At(u, "sub") <=> At(u, "sub")'
                          /\ At(u, "update") => pos'[u] = pos[u]
                          /\ Busy(u) <=> Busy(u)'
    BY <1>1, <1>3 DEF At, Busy
  <1>5. Typed'
    <2>1. Item' = Item
      BY DEF Item
    <2>2. \A u \in Thread : At(u, "push")' => u # t /\ At(u, "push")
      BY <1>1 DEF At
    <2>4. \A u \in Thread : ThreadTyped(u)'
      BY <1>1, <1>4, <2>1, <2>2 DEF Inv, Typed, ThreadTyped, Quiet
    <2>3. QED
      BY <1>2, <2>1, <2>4 DEF Inv, Typed
  <1>6. QED
    BY <1>4, <1>5, Frame

\* Waking, waiting and joining.
LEMMA MasterQuiet ==
    ASSUME GoodQueues, Helpers \in Nat, Inv,
           WakeThreads \/ WakeThread \/ WaitForEnd \/ TerminateThreads \/ Join \/ Joined
    PROVE  Inv'
  <1> USE DEF Set
  <1>1. 0 \in Thread /\ pos[0] \in Nat /\ DOMAIN pos = Thread
    <2>1. 0 \in Thread
      BY DEF Thread
    <2>2. QED
      BY <2>1 DEF Inv, Typed, ThreadTyped
  <1>2. UNCHANGED <<queue, count, runnable, nodeCount, ran, cur, next, consumed, used>>
    BY DEF WakeThreads, WakeThread, WaitForEnd, TerminateThreads, Join, Joined
  <1>3. \A x \in Nat : pos' = [pos EXCEPT ![0] = x] =>
           /\ DOMAIN pos' = Thread /\ \A u \in Thread : pos'[u] \in Nat
           /\ \A u \in Thread : u # 0 => pos'[u] = pos[u]
    BY <1>1 DEF Inv, Typed, ThreadTyped
  <1>4. /\ DOMAIN pos' = Thread /\ \A u \in Thread : pos'[u] \in Nat
        /\ \A u \in Thread : u # 0 => pos'[u] = pos[u]
    <2>1. (\E x \in Nat : pos' = [pos EXCEPT ![0] = x]) \/ pos' = pos
      BY <1>1 DEF WakeThreads, WakeThread, WaitForEnd, TerminateThreads, Join, Joined
    <2>2. QED
      BY <1>3, <2>1 DEF Inv, Typed, ThreadTyped
  <1>5. sem' \in [Helper -> Nat] /\ stop' \in [Helper -> BOOLEAN] /\ used' \in 0 .. 255
    <2>1. sem \in [Helper -> Nat] /\ stop \in [Helper -> BOOLEAN] /\ used' \in 0 .. 255
      BY <1>2 DEF Inv, Typed
    <2>2. \/ sem' = sem \/ sem' = [sem EXCEPT ![pos[0]] = sem[pos[0]] + 1]
      BY DEF WakeThreads, WakeThread, WaitForEnd, TerminateThreads, Join, Joined
    <2>3. \/ stop' = stop \/ stop' = [stop EXCEPT ![pos[0]] = TRUE]
      BY DEF WakeThreads, WakeThread, WaitForEnd, TerminateThreads, Join, Joined
    <2>4. sem' \in [Helper -> Nat]
      <3>1. CASE sem' = sem
        BY <2>1, <3>1
      <3>2. CASE sem' = [sem EXCEPT ![pos[0]] = sem[pos[0]] + 1]
        <4>1. sem' = [h \in Helper |-> IF h = pos[0] THEN sem[h] + 1 ELSE sem[h]]
          BY <2>1, <3>2
        <4>2. \A h \in Helper : sem[h] \in Nat /\ sem[h] + 1 \in Nat
          BY <2>1
        <4>3. QED
          BY <4>1, <4>2
      <3>3. QED
        BY <2>2, <3>1, <3>2
    <2>5. stop' \in [Helper -> BOOLEAN]
      BY <2>1, <2>3
    <2>6. QED
      BY <2>1, <2>4, <2>5
  <1>6. ASSUME NEW there \in {"load", "wake", "idle", "join", "joining", "ended"},
               pc[0] \in {"push", "wake", "end", "idle", "join", "joining"}, Goto(0, there),
               pc[0] = "push" => pos[0] > Len(queue.initial),
               there \in {"idle", "join", "joining", "ended"} =>
                  nodeCount = 0 \/ pc[0] \in {"idle", "join", "joining"}
        PROVE  Inv'
    <2>1. pc'[0] = there
      BY <1>1, <1>6 DEF Goto, Inv, Typed
    <2>2. pc[0] \in Quiet /\ there \in Quiet \ {"push"}
      BY <1>6 DEF Quiet
    <2>3. ToPush' = {} /\ ToPush = {}
      <3>1. ToPush' = {}
        BY <2>1 DEF ToPush, At
      <3>2. CASE pc[0] = "push"
        <4>1. \A k \in DOMAIN queue.initial : ~(k >= pos[0])
          <5>1. pos[0] > Len(queue.initial)
            BY <1>6, <3>2
          <5>2. \A k \in DOMAIN queue.initial : k \in Nat /\ k <= Len(queue.initial) /\ Len(queue.initial) \in Nat
            BY Queue DEF Inv, Typed
          <5>3. QED
            BY <1>1, <5>1, <5>2
        <4>2. QED
          BY <3>1, <4>1 DEF ToPush
      <3>3. CASE pc[0] # "push"
        BY <3>1, <3>3 DEF ToPush, At
      <3>4. QED
        BY <3>2, <3>3
    <2>4. NoTick'
      BY <1>2, <1>6, <2>1 DEF Inv, NoTick
    <2>5. QED
      BY <1>1, <1>2, <1>4, <1>5, <1>6, <2>2, <2>3, <2>4, QuietStep
  <1>7. QED
    <2> USE DEF At
    <2>1. CASE WakeThreads
      BY <2>1, <1>6 DEF WakeThreads
    <2>2. CASE WakeThread
      BY <2>2, <1>6 DEF WakeThread
    <2>3. CASE WaitForEnd
      BY <2>3, <1>6 DEF WaitForEnd
    <2>4. CASE TerminateThreads
      BY <2>4, <1>6 DEF TerminateThreads
    <2>5. CASE Join
      BY <2>5, <1>6 DEF Join
    <2>6. CASE Joined
      BY <2>6, <1>6 DEF Joined
    <2>7. QED
      BY <2>1, <2>2, <2>3, <2>4, <2>5, <2>6

\* Looking for an item, in vain.
LEMMA SearchQuiet ==
    ASSUME Helpers \in Nat, Inv, NEW t \in Thread,
           Load(t) \/ Poll(t) \/ (t # 0 /\ GiveUp(t)) \/ (t # 0 /\ Wake(t))
    PROVE  Inv'
  <1>1. /\ UNCHANGED <<queue, count, runnable, nodeCount, ran, cur, next, consumed, used, stop, pos>>
        /\ pc[t] \in {"load", "pop", "wait"}
        /\ \E there \in {"end", "wait", "pop", "load", "exited"} : Goto(t, there)
    BY DEF Load, Poll, GiveUp, Wake, At, Back
  <1>2. sem' \in [Helper -> Nat] /\ stop' \in [Helper -> BOOLEAN] /\ used' \in 0 .. 255
    <2>1. sem \in [Helper -> Nat] /\ stop' \in [Helper -> BOOLEAN] /\ used' \in 0 .. 255
      BY <1>1 DEF Inv, Typed
    <2>2. sem' = sem \/ (sem[t] > 0 /\ sem' = [sem EXCEPT ![t] = sem[t] - 1] /\ t # 0)
      BY DEF Load, Poll, GiveUp, Wake
    <2>3. t # 0 => t \in Helper
      BY DEF Thread, Helper
    <2>4. QED
      BY <2>1, <2>2, <2>3
  <1>3. PICK there \in {"end", "wait", "pop", "load", "exited"} : Goto(t, there)
    BY <1>1
  <1>4. there \in Quiet \ {"push"} /\ pc[t] \in Quiet
    BY <1>1 DEF Quiet
  <1>5. pc'[t] = there /\ 0 \in Thread /\ \A u \in Thread : u # t => pc'[u] = pc[u]
    BY <1>3 DEF Goto, Inv, Typed, Thread
  <1>6. ToPush' = ToPush
    BY <1>1, <1>5 DEF ToPush, At
  <1>7. NoTick'
    BY <1>1, <1>5 DEF Inv, NoTick
  <1>8. DOMAIN pos' = Thread /\ \A u \in Thread : pos'[u] \in Nat
    BY <1>1 DEF Inv, Typed, ThreadTyped
  <1>9. QED
    BY <1>1, <1>2, <1>3, <1>4, <1>6, <1>7, <1>8, QuietStep
-----------------------------------------------------------------------------
(* Between ticks. *)

\* When node_count is zero nobody has an item, not even a thread that is late.
LEMMA AllRun ==
    ASSUME GoodQueues, Helpers \in Nat, Inv, nodeCount = 0
    PROVE  /\ ran = Item /\ runnable = <<>>
           /\ \A i \in Item : Finished(i) /\ count[i] = Limit(i)
           /\ \A t \in Thread : ~Busy(t) /\ cur[t] = NoItem /\ next[t] = NoItem /\ consumed[t] = 0
  <1>1. PICK own \in [Item -> Thread \cup {Left, Gone}] : Owns(own)
    BY DEF Inv, Accounted
  <1>2. IsFiniteSet(Item)
    BY Items DEF Inv
  <1>3. \A i \in Item : own[i] = Gone
    <2>1. IsFiniteSet({i \in Item : own[i] # Gone})
      BY <1>2, FS_Subset
    <2>2. {i \in Item : own[i] # Gone} = {}
      BY <1>1, <2>1, FS_EmptySet DEF Owns
    <2>3. QED
      BY <2>2
  <1>4. \A i \in Item : Finished(i)
    BY <1>1, <1>3 DEF Owns, Left, Gone
  <1>5. \A i \in Item : count[i] = Limit(i)
    BY <1>4 DEF Inv, Counted
  <1>6. ran = Item
    BY <1>4 DEF Finished, Inv, Typed
  <1>7. runnable = <<>>
    <2>1. OnStack = {} /\ runnable \in Seq(Item)
      <3>1. runnable \in Seq(Item)
        BY DEF Inv, Typed
      <3>2. OnStack \subseteq Item
        BY <3>1 DEF OnStack, Members
      <3>3. QED
        BY <1>6, <3>1, <3>2 DEF Inv, Apart
    <2>2. DOMAIN runnable = {}
      BY <2>1 DEF OnStack, Members
    <2>3. QED
      BY <2>1, <2>2
  <1>8. ASSUME NEW t \in Thread PROVE ~Busy(t) /\ cur[t] = NoItem /\ next[t] = NoItem
    <2>1. ~At(t, "run")
      BY <1>6 DEF Inv, Apart, Running, Typed, ThreadTyped, Busy, At
    <2>2. ~At(t, "update")
      BY <1>4 DEF Finished, Inv, Typed, ThreadTyped, Busy, At
    <2>3. QED
      BY <2>1, <2>2 DEF Inv, Typed, ThreadTyped, Busy, At
  <1>9. ASSUME NEW t \in Thread PROVE consumed[t] = 0
    <2>1. {i \in Item : own[i] = t} = {}
      <3>1. t # Gone
        BY DEF Gone, Thread
      <3>2. QED
        BY <1>3, <3>1
    <2>2. QED
      BY <1>1, <2>1, FS_EmptySet DEF Owns
  <1>10. QED
    BY <1>4, <1>5, <1>6, <1>7, <1>8, <1>9

LEMMA ResetQueueStep ==
    ASSUME GoodQueues, Helpers \in Nat, Inv, NEW q \in Queues, ResetQueue(q)
    PROVE  Inv'
  <1>0. nodeCount = 0 /\ pc[0] = "idle"
    BY DEF ResetQueue, At, Inv, NoTick
  <1>1. /\ runnable = <<>>
        /\ \A t \in Thread : ~Busy(t) /\ cur[t] = NoItem /\ next[t] = NoItem /\ consumed[t] = 0
    BY <1>0, AllRun
  <1>2. /\ queue' = q /\ Item' = DOMAIN q.items /\ ran' = Item' /\ used' = UsedHelpers(q)
        /\ count' = [i \in Item' |-> q.items[i].limit]
        /\ \A i : Limit(i)' = q.items[i].limit
        /\ UNCHANGED <<runnable, nodeCount, sem, stop, pc, cur, next, pos, consumed>>
    BY DEF ResetQueue, Item, Limit, threadVars
  <1>3. \A t \in Thread : ~Busy(t)' /\ ~At(t, "update")'
    BY <1>1, <1>2 DEF Busy, At
  <1>4. Typed'
    <2>1. used' \in 0 .. 255
      <3>1. Len(q.items) \in Nat
        BY Queue
      <3>2. \A x \in Int : x % 256 \in 0 .. 255
        OBVIOUS
      <3> DEFINE few == (IF Len(q.items) < Helpers + 1 THEN Len(q.items) ELSE Helpers + 1) - 1
      <3>3. few \in Int
        BY <3>1
      <3>4. used' = IF ~q.parallel THEN 0 ELSE few % 256
        BY <1>2 DEF UsedHelpers
      <3> HIDE DEF few
      <3>5. few % 256 \in 0 .. 255
        BY <3>2, <3>3
      <3>6. QED
        BY <3>4, <3>5
    <2>2. count' \in [Item' -> Int]
      BY <1>2, FewTellings
    <2>3. runnable' \in Seq(Item')
      BY <1>1, <1>2
    <2>4. \A t \in Thread : ThreadTyped(t)'
      BY <1>1, <1>2, <1>3 DEF Inv, Typed, ThreadTyped, At
    <2>5. QED
      BY <1>2, <2>1, <2>2, <2>3, <2>4 DEF Inv, Typed
  <1>5. OnStack' = {} /\ Kept' = {} /\ Running' = {} /\ ToPush' = {}
    <2>1. OnStack' = {} /\ Kept' = {} /\ Running' = {}
      BY <1>1, <1>2, <1>3 DEF OnStack, Members, Kept, Running, Busy, At
    <2>2. ToPush' = {}
      BY <1>0, <1>2 DEF ToPush, At
    <2>3. QED
      BY <2>1, <2>2
  <1>6. Apart'
    <2>1. Once(runnable')
      BY <1>1, <1>2 DEF Once
    <2>2. QED
      BY <1>3, <1>5, <2>1 DEF Apart
  <1>7. \A i : Untold(i)' = {}
    <2> SUFFICES ASSUME NEW i, NEW e \in Tellings(q, i) PROVE Told(e)'
      BY <1>2 DEF Untold
    <2>1. e[1] \in DOMAIN q.items
      BY Telling
    <2>2. QED
      BY <1>2, <1>3, <2>1 DEF Told
  <1>8. AllTold'
    BY <1>7 DEF AllTold
  <1>9. \A i \in Item' : Finished(i)'
    BY <1>2, <1>3 DEF Finished
  <1>10. Counted'
    BY <1>2, <1>9 DEF Counted
  <1>11. Accounted'
    <2>0. PICK own : own = [i \in Item' |-> Gone]
      OBVIOUS
    <2>1. own \in [Item' -> Thread \cup {Left, Gone}]
      BY <2>0
    <2>2. {i \in Item' : own[i] # Gone} = {} /\ \A t \in Thread : {i \in Item' : own[i] = t} = {}
      BY <2>0 DEF Gone, Thread
    <2>3. \A i \in Item' : own[i] # Left
      BY <2>0 DEF Gone, Left
    <2>4. Owns(own)'
      BY <1>0, <1>1, <1>2, <1>9, <2>2, <2>3, FS_EmptySet DEF Owns
    <2>5. QED
      BY <2>1, <2>4 DEF Accounted
  <1>12. NoTick'
    BY <1>0, <1>2 DEF NoTick
  <1>13. QED
    BY <1>4, <1>6, <1>8, <1>10, <1>11, <1>12 DEF Inv

LEMMA InitTickStep ==
    ASSUME GoodQueues, Helpers \in Nat, Inv, InitTick
    PROVE  Inv'
  <1>0. nodeCount = 0 /\ pc[0] = "idle" /\ 0 \in Thread
    BY DEF InitTick, At, Inv, NoTick, Thread
  <1>1. /\ runnable = <<>>
        /\ \A i \in Item : count[i] = Limit(i)
        /\ \A t \in Thread : ~Busy(t) /\ cur[t] = NoItem /\ next[t] = NoItem /\ consumed[t] = 0
    BY <1>0, AllRun
  <1>2. /\ nodeCount' = Len(queue.items) /\ ran' = {}
        /\ pos' = [pos EXCEPT ![0] = 1] /\ pc' = [pc EXCEPT ![0] = "push"]
        /\ UNCHANGED <<queue, count, runnable, used, sem, stop, cur, next, consumed>>
        /\ Item' = Item /\ \A i : Limit(i)' = Limit(i)
    BY DEF InitTick, Set, Goto, Item, Limit
  <1>3. /\ DOMAIN pc' = Thread /\ DOMAIN pos' = Thread /\ pc'[0] = "push" /\ pos'[0] = 1
        /\ \A t \in Thread : t # 0 => pc'[t] = pc[t] /\ pos'[t] = pos[t]
    BY <1>0, <1>2 DEF Inv, Typed
  <1>4. \A t \in Thread : ~Busy(t)' /\ ~At(t, "update")'
    BY <1>1, <1>3 DEF Busy, At
  <1>5. Typed'
    <2>1. \A t \in Thread : ThreadTyped(t)'
      BY <1>1, <1>2, <1>3, <1>4 DEF Inv, Typed, ThreadTyped, At
    <2>2. nodeCount' \in Int
      BY <1>2, Items DEF Inv
    <2>3. QED
      BY <1>2, <1>3, <2>1, <2>2 DEF Inv, Typed
  <1>6. OnStack' = {} /\ Kept' = {} /\ Running' = {}
    BY <1>1, <1>2, <1>4 DEF OnStack, Members, Kept, Running, Busy, At
  <1>7. Apart'
    <2>1. Once(runnable')
      BY <1>1, <1>2 DEF Once
    <2>2. QED
      BY <1>2, <1>4, <1>6, <2>1 DEF Apart
  <1>8. \A i : Untold(i)' = Tellings(queue, i) /\ ~Finished(i)'
    BY <1>2 DEF Untold, Told, Finished
  <1>9. AllTold'
    <2> SUFFICES ASSUME NEW i \in ToPush' PROVE Tellings(queue, i) = {}
      BY <1>2, <1>6, <1>8 DEF AllTold, Ready
    <2>1. PICK k \in DOMAIN queue.initial : i = queue.initial[k]
      BY <1>2 DEF ToPush
    <2>2. queue \in Queues
      BY DEF Inv, Typed
    <2>3. i \in Item /\ queue.items[i].limit = 0
      <3>1. GoodQueue(queue)
        BY <2>2 DEF GoodQueues
      <3>2. queue.initial \in Seq(Item)
        BY <2>2, Queue DEF Item
      <3>3. QED
        BY <2>1, <3>1, <3>2 DEF GoodQueue
    <2>4. QED
      BY <2>2, <2>3, FewTellings DEF Item
  <1>10. Counted'
    BY <1>1, <1>2, <1>8, Items DEF Counted, Inv
  <1>11. Accounted'
    <2>0. PICK own : own = [i \in Item |-> Left]
      OBVIOUS
    <2>1. own \in [Item -> Thread \cup {Left, Gone}]
      BY <2>0
    <2>2. {i \in Item : own[i] # Gone} = Item /\ \A t \in Thread : {i \in Item : own[i] = t} = {}
      BY <2>0 DEF Gone, Left, Thread
    <2>3. \A i \in Item : own[i] = Left
      BY <2>0
    <2>4. Cardinality(Item) = Len(queue.items)
      BY Items DEF Inv
    <2>5. Owns(own)'
      BY <1>1, <1>2, <1>8, <2>2, <2>3, <2>4, FS_EmptySet DEF Owns
    <2>6. QED
      BY <1>2, <2>1, <2>5 DEF Accounted
  <1>12. NoTick'
    BY <1>3 DEF NoTick
  <1>13. QED
    BY <1>5, <1>7, <1>9, <1>10, <1>11, <1>12 DEF Inv
-----------------------------------------------------------------------------
(* The stack. *)

LEMMA Pushed ==
    ASSUME NEW S, NEW s \in Seq(S), NEW x \in S
    PROVE  /\ <<x>> \o s \in Seq(S)
           /\ Members(<<x>> \o s) = Members(s) \cup {x}
           /\ Once(s) /\ x \notin Members(s) => Once(<<x>> \o s)
  <1> DEFINE u == <<x>> \o s
  <1>1. <<x>> \in Seq(S) /\ Len(<<x>>) = 1 /\ <<x>>[1] = x
    OBVIOUS
  <1>2. /\ u \in Seq(S) /\ Len(u) = 1 + Len(s)
        /\ \A k \in 1 .. 1 + Len(s) : u[k] = IF k <= 1 THEN <<x>>[k] ELSE s[k - 1]
    BY <1>1, ConcatProperties, Zenon
  <1>3. Len(s) \in Nat /\ DOMAIN s = 1 .. Len(s) /\ DOMAIN u = 1 .. 1 + Len(s)
    BY <1>2
  <1> HIDE DEF u
  <1>4. u[1] = x
    BY <1>1, <1>2, <1>3
  <1>5. \A k \in DOMAIN s : k + 1 \in DOMAIN u /\ u[k + 1] = s[k]
    <2> SUFFICES ASSUME NEW k \in DOMAIN s PROVE k + 1 \in DOMAIN u /\ u[k + 1] = s[k]
      OBVIOUS
    <2>1. k + 1 \in 1 .. 1 + Len(s) /\ ~(k + 1 <= 1) /\ (k + 1) - 1 = k
      BY <1>3
    <2>2. QED
      BY <1>2, <1>3, <2>1
  <1>6. \A k \in DOMAIN u : k = 1 \/ (k - 1 \in DOMAIN s /\ u[k] = s[k - 1])
    BY <1>2, <1>3
  <1>7. 1 \in DOMAIN u
    BY <1>3
  <1>8. {u[k] : k \in DOMAIN u} = {s[k] : k \in DOMAIN s} \cup {x}
    <2>1. \A k \in DOMAIN u : u[k] \in {s[l] : l \in DOMAIN s} \cup {x}
      BY <1>4, <1>6
    <2>2. x \in {u[k] : k \in DOMAIN u}
      BY <1>4, <1>7
    <2>3. \A k \in DOMAIN s : s[k] \in {u[l] : l \in DOMAIN u}
      BY <1>5
    <2>4. QED
      BY <2>1, <2>2, <2>3, Zenon
  <1>9. ASSUME \A k, l \in DOMAIN s : s[k] = s[l] => k = l, x \notin {s[k] : k \in DOMAIN s},
               NEW k \in DOMAIN u, NEW l \in DOMAIN u, u[k] = u[l]
        PROVE  k = l
    <2>1. CASE k = 1 \/ l = 1
      BY <1>4, <1>6, <1>9, <2>1
    <2>2. CASE k # 1 /\ l # 1
      <3>1. k - 1 = l - 1
        BY <1>6, <1>9, <2>2
      <3>2. QED
        BY <1>3, <3>1
    <2>3. QED
      BY <2>1, <2>2
  <1>10. QED
    BY <1>2, <1>8, <1>9 DEF u, Members, Once

LEMMA Popped ==
    ASSUME NEW S, NEW s \in Seq(S), s # <<>>, Once(s)
    PROVE  /\ Tail(s) \in Seq(S) /\ Head(s) \in S /\ Head(s) \in Members(s)
           /\ Members(Tail(s)) = Members(s) \ {Head(s)}
           /\ Once(Tail(s))
  <1> DEFINE u == Tail(s)
  <1>1. /\ u \in Seq(S) /\ Head(s) = s[1] /\ 1 \in DOMAIN s /\ s[1] \in S
        /\ Len(s) \in Nat /\ DOMAIN s = 1 .. Len(s) /\ DOMAIN u = 1 .. Len(s) - 1
        /\ \A k \in DOMAIN u : u[k] = s[k + 1]
    OBVIOUS
  <1> HIDE DEF u
  <1>2. \A k \in DOMAIN u : k + 1 \in DOMAIN s /\ k + 1 # 1
    BY <1>1
  <1>3. \A k \in DOMAIN s : k = 1 \/ (k - 1 \in DOMAIN u /\ u[k - 1] = s[k])
    <2> SUFFICES ASSUME NEW k \in DOMAIN s, k # 1 PROVE k - 1 \in DOMAIN u /\ u[k - 1] = s[k]
      OBVIOUS
    <2>1. k - 1 \in DOMAIN u /\ (k - 1) + 1 = k
      BY <1>1
    <2>2. QED
      BY <1>1, <2>1
  <1>4. {u[k] : k \in DOMAIN u} = {s[k] : k \in DOMAIN s} \ {s[1]}
    <2>1. \A k \in DOMAIN u : u[k] \in {s[l] : l \in DOMAIN s} \ {s[1]}
      BY <1>1, <1>2 DEF Once
    <2>2. \A k \in DOMAIN s : s[k] = s[1] \/ s[k] \in {u[l] : l \in DOMAIN u}
      BY <1>3
    <2>3. QED
      BY <2>1, <2>2
  <1>5. ASSUME NEW k \in DOMAIN u, NEW l \in DOMAIN u, u[k] = u[l] PROVE k = l
    <2>1. k + 1 = l + 1
      BY <1>1, <1>2, <1>5 DEF Once
    <2>2. QED
      BY <1>1, <2>1
  <1>6. QED
    BY <1>1, <1>4, <1>5 DEF u, Members, Once
-----------------------------------------------------------------------------
(* Items on their way through the queue. *)

LEMMA ToldFrame ==
    ASSUME UNCHANGED <<queue, ran>>,
           \A t \in Thread : /\ At(t, "update") <=> At(t, "update")'
                             /\ At(t, "update") => cur'[t] = cur[t] /\ pos'[t] = pos[t]
    PROVE  /\ \A i : Untold(i)' = Untold(i) /\ (Finished(i)' <=> Finished(i))
           /\ Item' = Item /\ \A i : Limit(i)' = Limit(i)
  <1>1. \A e : Told(e)' <=> Told(e)
    BY DEF Told
  <1>2. QED
    BY <1>1 DEF Untold, Finished, Item, Limit

LEMMA CountFrame ==
    ASSUME Inv, UNCHANGED <<count, nodeCount>>,
           \A t \in Thread : consumed'[t] = consumed[t],
           \A i \in Item : Untold(i)' = Untold(i) /\ (Finished(i)' <=> Finished(i)),
           Item' = Item, \A i : Limit(i)' = Limit(i)
    PROVE  Counted' /\ Accounted'
  <1>1. Counted'
    BY DEF Inv, Counted
  <1>2. Accounted'
    BY DEF Inv, Accounted, Owns
  <1>3. QED
    BY <1>1, <1>2

LEMMA PushInitialStep ==
    ASSUME GoodQueues, Helpers \in Nat, Inv, PushInitial
    PROVE  Inv'
  <1> DEFINE x == queue.initial[pos[0]]
  <1>1. /\ pc[0] = "push" /\ pos[0] <= Len(queue.initial) /\ runnable' = <<x>> \o runnable
        /\ pos' = [pos EXCEPT ![0] = pos[0] + 1]
        /\ UNCHANGED <<queue, count, nodeCount, used, sem, stop, pc, cur, next, consumed, ran>>
    BY DEF PushInitial, At, Set
  <1>2. 0 \in Thread /\ pos[0] \in Nat
    BY DEF Thread, Inv, Typed, ThreadTyped
  <1>3. /\ DOMAIN pos' = Thread /\ pos'[0] = pos[0] + 1
        /\ \A t \in Thread : t # 0 => pos'[t] = pos[t]
    BY <1>1, <1>2 DEF Inv, Typed
  <1>4. /\ queue.initial \in Seq(Item)
        /\ \A k, l \in DOMAIN queue.initial : queue.initial[k] = queue.initial[l] => k = l
    BY Queue DEF Inv, Typed, Item
  <1>5. /\ \A i : Untold(i)' = Untold(i) /\ (Finished(i)' <=> Finished(i))
        /\ Item' = Item /\ \A i : Limit(i)' = Limit(i)
    <2>1. \A t \in Thread : /\ At(t, "update") <=> At(t, "update")'
                            /\ At(t, "update") => cur'[t] = cur[t] /\ pos'[t] = pos[t]
      BY <1>1, <1>3 DEF At
    <2>2. QED
      BY <1>1, <2>1, ToldFrame
  <1>6. x \in Item /\ x \in ToPush /\ ToPush' \subseteq ToPush \ {x}
    <2>1. pos[0] # 0
      BY <1>1, <1>2 DEF Inv, Typed, ThreadTyped, At
    <2>2. pos[0] \in DOMAIN queue.initial
      BY <1>1, <1>2, <1>4, <2>1
    <2>3. x \in Item /\ x \in ToPush
      BY <1>1, <1>2, <1>4, <2>2 DEF ToPush, At
    <2>4. ASSUME NEW y \in ToPush' PROVE y \in ToPush \ {x}
      <3>1. PICK k \in DOMAIN queue.initial : y = queue.initial[k] /\ k >= pos[0] + 1
        BY <1>1, <1>3 DEF ToPush
      <3>2. k \in Nat /\ k >= pos[0] /\ k # pos[0]
        BY <1>2, <1>4, <3>1
      <3>3. QED
        BY <1>1, <1>4, <2>2, <3>1, <3>2 DEF ToPush, At
    <2>5. QED
      BY <2>3, <2>4
  <1> HIDE DEF x
  <1>7. Kept' = Kept /\ Running' = Running /\ \A t \in Thread : Busy(t)' <=> Busy(t)
    BY <1>1 DEF Kept, Running, At, Busy
  <1>8. runnable \in Seq(Item)
    BY DEF Inv, Typed
  <1>9. x \notin OnStack /\ Once(runnable)
    BY <1>6 DEF Inv, Apart
  <1>10. /\ runnable' \in Seq(Item) /\ OnStack' = OnStack \cup {x} /\ Once(runnable')
    BY <1>1, <1>6, <1>8, <1>9, Pushed DEF OnStack
  <1>11. Typed'
    <2>1. \A t \in Thread : ThreadTyped(t)'
      BY <1>1, <1>2, <1>3, <1>5, <1>7 DEF Inv, Typed, ThreadTyped, At
    <2>2. QED
      BY <1>1, <1>3, <1>5, <1>10, <2>1 DEF Inv, Typed
  <1>12. Apart'
    <2>1. ToPush' \cap (OnStack' \cup Kept' \cup Running' \cup ran') = {}
      BY <1>1, <1>6, <1>7, <1>10 DEF Inv, Apart
    <2>2. OnStack' \cap (Kept' \cup Running' \cup ran') = {}
      BY <1>1, <1>6, <1>7, <1>10 DEF Inv, Apart
    <2>3. QED
      BY <1>1, <1>7, <1>10, <2>1, <2>2 DEF Inv, Apart, At
  <1>13. AllTold'
    BY <1>1, <1>5, <1>6, <1>7, <1>10 DEF Inv, AllTold, Ready
  <1>14. Counted' /\ Accounted'
    BY <1>1, <1>5, CountFrame
  <1>15. NoTick'
    BY <1>1 DEF Inv, NoTick
  <1>16. QED
    BY <1>11, <1>12, <1>13, <1>14, <1>15 DEF Inv

LEMMA PopStep ==
    ASSUME GoodQueues, Helpers \in Nat, Inv, NEW t \in Thread, Pop(t)
    PROVE  Inv'
  <1> DEFINE x == Head(runnable)
  <1>1. /\ pc[t] = "pop" /\ runnable # <<>> /\ runnable' = Tail(runnable)
        /\ cur' = [cur EXCEPT ![t] = x] /\ consumed' = [consumed EXCEPT ![t] = 0]
        /\ pc' = [pc EXCEPT ![t] = "run"]
        /\ UNCHANGED <<queue, count, nodeCount, used, sem, stop, next, pos, ran>>
    BY DEF Pop, At, Set, Goto
  <1>2. /\ DOMAIN cur' = Thread /\ DOMAIN consumed' = Thread /\ DOMAIN pc' = Thread
        /\ \A u \in Thread : /\ cur'[u] = IF u = t THEN x ELSE cur[u]
                             /\ consumed'[u] = IF u = t THEN 0 ELSE consumed[u]
                             /\ pc'[u] = IF u = t THEN "run" ELSE pc[u]
    BY <1>1 DEF Inv, Typed
  <1>3. /\ cur[t] = NoItem /\ next[t] = NoItem /\ consumed[t] = 0 /\ consumed[t] \in Nat
        /\ ~Busy(t)
    BY <1>1 DEF Inv, Typed, ThreadTyped, Busy, At
  <1>4. runnable \in Seq(Item) /\ Once(runnable)
    BY DEF Inv, Typed, Apart
  <1>5. /\ runnable' \in Seq(Item) /\ x \in Item /\ x \in OnStack /\ OnStack' = OnStack \ {x}
        /\ Once(runnable')
    BY <1>1, <1>4, Popped DEF OnStack
  <1> HIDE DEF x
  <1>6. /\ \A i : Untold(i)' = Untold(i) /\ (Finished(i)' <=> Finished(i))
        /\ Item' = Item /\ \A i : Limit(i)' = Limit(i)
    <2>1. \A u \in Thread : /\ At(u, "update") <=> At(u, "update")'
                            /\ At(u, "update") => cur'[u] = cur[u] /\ pos'[u] = pos[u]
      BY <1>1, <1>2 DEF At
    <2>2. QED
      BY <1>1, <2>1, ToldFrame
  <1>7. ToPush' = ToPush
    BY <1>1, <1>2 DEF ToPush, At, Thread
  <1>8. Kept' = Kept
    BY <1>1, <1>2 DEF Kept, At
  <1>9. Running' = Running \cup {x}
    <2>1. \A u \in Thread : At(u, "run")' <=> u = t \/ At(u, "run")
      BY <1>2 DEF At
    <2>2. \A u \in Thread : At(u, "run") => u # t
      BY <1>1 DEF At
    <2>3. QED
      BY <1>2, <2>1, <2>2 DEF Running
  <1>10. NoItem \notin Item
    BY Items DEF Inv
  <1>11. Typed'
    <2>1. \A u \in Thread : ThreadTyped(u)'
      BY <1>1, <1>2, <1>3, <1>5, <1>6, <1>10 DEF Inv, Typed, ThreadTyped, Busy, At
    <2>2. QED
      BY <1>1, <1>2, <1>5, <1>6, <2>1 DEF Inv, Typed
  <1>12. Apart'
    <2>1. /\ ToPush' \cap (OnStack' \cup Kept' \cup Running' \cup ran') = {}
          /\ OnStack' \cap (Kept' \cup Running' \cup ran') = {}
          /\ Kept' \cap (Running' \cup ran') = {}
          /\ Running' \cap ran' = {}
      BY <1>1, <1>5, <1>7, <1>8, <1>9 DEF Inv, Apart
    <2>2. \A u \in Thread : Busy(u) => cur[u] # x
      BY <1>5 DEF Inv, Apart, Running, Busy, At
    <2>3. \A u \in Thread : Busy(u)' <=> u = t \/ Busy(u)
      BY <1>2 DEF Busy
    <2>4. \A u, v \in Thread : Busy(u)' /\ Busy(v)' /\ cur'[u] = cur'[v] => u = v
      BY <1>2, <1>3, <2>2, <2>3 DEF Inv, Apart
    <2>5. \A u \in Thread : At(u, "update")' => At(u, "update") /\ u # t
      BY <1>2 DEF At
    <2>6. QED
      BY <1>1, <1>2, <1>5, <2>1, <2>4, <2>5 DEF Inv, Apart
  <1>13. AllTold'
    BY <1>1, <1>5, <1>6, <1>7, <1>8, <1>9 DEF Inv, AllTold, Ready
  <1>14. Counted' /\ Accounted'
    BY <1>1, <1>2, <1>3, <1>6, CountFrame
  <1>15. NoTick'
    BY <1>1, <1>2 DEF Inv, NoTick, Thread
  <1>16. QED
    BY <1>11, <1>12, <1>13, <1>14, <1>15 DEF Inv

LEMMA ReadyItems ==
    ASSUME GoodQueues, Typed
    PROVE  Ready \subseteq Item
  <1>1. ToPush \subseteq Item
    BY Queue DEF Typed, ToPush, Item
  <1>2. OnStack \subseteq Item
    BY DEF Typed, OnStack, Members
  <1>3. Kept \subseteq Item /\ Running \subseteq Item /\ ran \subseteq Item
    BY DEF Typed, ThreadTyped, Kept, Running, Busy, At
  <1>4. QED
    BY <1>1, <1>2, <1>3 DEF Ready

LEMMA RunStep ==
    ASSUME GoodQueues, Helpers \in Nat, Inv, NEW t \in Thread, Run(t)
    PROVE  Inv'
  <1> DEFINE x == cur[t]
  <1>1. /\ pc[t] = "run" /\ ran' = ran \cup {x}
        /\ pos' = [pos EXCEPT ![t] = 1] /\ next' = [next EXCEPT ![t] = NoItem]
        /\ pc' = [pc EXCEPT ![t] = "update"]
        /\ UNCHANGED <<queue, count, runnable, nodeCount, used, sem, stop, cur, consumed>>
    BY DEF Run, At, Set, Goto
  <1>2. /\ DOMAIN next' = Thread /\ DOMAIN pos' = Thread /\ DOMAIN pc' = Thread
        /\ \A u \in Thread : /\ next'[u] = IF u = t THEN NoItem ELSE next[u]
                             /\ pos'[u] = IF u = t THEN 1 ELSE pos[u]
                             /\ pc'[u] = IF u = t THEN "update" ELSE pc[u]
    BY <1>1 DEF Inv, Typed
  <1>3. Busy(t) /\ x \in Item /\ x \in Running
    BY <1>1 DEF Inv, Typed, ThreadTyped, Busy, At, Running
  <1>4. x \notin ran /\ \A u \in Thread : u # t /\ Busy(u) => cur[u] # x
    BY <1>3 DEF Inv, Apart
  <1> HIDE DEF x
  <1>5. Item' = Item /\ \A i : Limit(i)' = Limit(i)
    BY <1>1 DEF Item, Limit
  <1>6. \A u \in Thread : /\ At(u, "update")' <=> u = t \/ At(u, "update")
                          /\ Busy(u)' <=> Busy(u)
                          /\ At(u, "run")' <=> u # t /\ At(u, "run")
                          /\ At(u, "update") => u # t
    BY <1>1, <1>2 DEF At, Busy
  <1>7. \A i \in Item : Untold(i)' = Untold(i)
    <2> SUFFICES ASSUME NEW i \in Item, NEW e \in Tellings(queue, i) PROVE Told(e)' <=> Told(e)
      BY <1>1 DEF Untold
    <2>0. PICK j \in Item : \E k \in DOMAIN Succ(j) : e = <<j, k>>
      BY Items DEF Inv
    <2>1. PICK k \in DOMAIN Succ(j) : e = <<j, k>>
      BY <2>0
    <2>2. e[1] = j /\ e[2] = k /\ ~(k < 1)
      <3>1. Succ(j) \in Seq(Item)
        BY Items DEF Inv
      <3>2. QED
        BY <2>1, <3>1
    <2>3. CASE j = x
      <3>1. ~Told(e)
        BY <1>4, <2>2, <2>3 DEF Told
      <3>2. ~Told(e)'
        BY <1>1, <1>2, <1>6, <2>2, <2>3 DEF Told, x
      <3>3. QED
        BY <3>1, <3>2
    <2>4. CASE j # x
      BY <1>1, <1>2, <1>6, <2>2, <2>4 DEF Told, x
    <2>5. QED
      BY <2>3, <2>4
  <1>8. \A i \in Item : Finished(i)' <=> Finished(i)
    <2> SUFFICES ASSUME NEW i \in Item PROVE Finished(i)' <=> Finished(i)
      OBVIOUS
    <2>1. CASE i = x
      BY <1>1, <1>4, <1>6, <2>1 DEF Finished, x
    <2>2. CASE i # x
      BY <1>1, <1>6, <2>2 DEF Finished, x
    <2>3. QED
      BY <2>1, <2>2
  <1>9. OnStack' = OnStack /\ ToPush' = ToPush
    <2>1. OnStack' = OnStack
      BY <1>1 DEF OnStack
    <2>2. CASE t = 0
      BY <1>1, <1>2, <2>1, <2>2 DEF ToPush, At
    <2>3. CASE t # 0
      BY <1>1, <1>2, <2>1, <2>3 DEF ToPush, At, Thread
    <2>4. QED
      BY <2>2, <2>3
  <1>10. Kept' = Kept
    BY <1>2, <1>6 DEF Kept
  <1>11. Running' = Running \ {x}
    <2>1. \A u \in Thread : At(u, "run") /\ u # t => cur[u] # x
      BY <1>4 DEF Busy, At
    <2>2. QED
      BY <1>1, <1>6, <2>1 DEF Running, x
  <1>12. Typed'
    <2>1. \A u \in Thread : ThreadTyped(u)'
      BY <1>1, <1>2, <1>3, <1>5, <1>6 DEF Inv, Typed, ThreadTyped, At
    <2>2. QED
      BY <1>1, <1>2, <1>3, <1>5, <2>1 DEF Inv, Typed
  <1>13. Apart'
    <2>1. /\ ToPush' \cap (OnStack' \cup Kept' \cup Running' \cup ran') = {}
          /\ OnStack' \cap (Kept' \cup Running' \cup ran') = {}
          /\ Kept' \cap (Running' \cup ran') = {}
          /\ Running' \cap ran' = {}
      BY <1>1, <1>3, <1>9, <1>10, <1>11 DEF Inv, Apart
    <2>2. \A u, v \in Thread : Busy(u)' /\ Busy(v)' /\ cur'[u] = cur'[v] => u = v
      BY <1>1, <1>6 DEF Inv, Apart
    <2>3. \A u \in Thread : At(u, "update")' => cur'[u] \in ran'
      BY <1>1, <1>6 DEF Inv, Apart, x
    <2>4. \A u, v \in Thread :
             At(u, "update")' /\ At(v, "update")' /\ next'[u] = next'[v] /\ next'[u] # NoItem => u = v
      BY <1>2, <1>6 DEF Inv, Apart
    <2>5. QED
      BY <1>1, <2>1, <2>2, <2>3, <2>4 DEF Inv, Apart
  <1>14. AllTold'
    <2>1. Ready' \subseteq Ready /\ Ready \subseteq Item
      BY <1>1, <1>3, <1>9, <1>10, <1>11, ReadyItems DEF Ready, Inv
    <2>2. QED
      BY <1>7, <2>1 DEF Inv, AllTold
  <1>15. Counted' /\ Accounted'
    BY <1>1, <1>5, <1>7, <1>8, CountFrame
  <1>16. NoTick'
    BY <1>1, <1>2 DEF Inv, NoTick, Thread
  <1>17. QED
    BY <1>12, <1>13, <1>14, <1>15, <1>16 DEF Inv

LEMMA UpdateStep ==
    ASSUME GoodQueues, Helpers \in Nat, Inv, NEW t \in Thread, UpdateDependencies(t)
    PROVE  Inv'
  <1>a. PICK c : c = cur[t]
    OBVIOUS
  <1>b. PICK s : s = Succ(c)[pos[t]]
    OBVIOUS
  <1>c. PICK e0 : e0 = <<c, pos[t]>>
    OBVIOUS
  <1>1. /\ pc[t] = "update" /\ pos[t] <= Len(Succ(c))
        /\ count' = [count EXCEPT ![s] = @ - 1]
        /\ pos' = [pos EXCEPT ![t] = pos[t] + 1]
        /\ UNCHANGED <<queue, nodeCount, used, sem, stop, pc, cur, consumed, ran>>
    BY <1>a, <1>b DEF UpdateDependencies, At, Set
  <1>2. \/ count[s] # 1 /\ UNCHANGED <<next, runnable>>
        \/ count[s] = 1 /\ next[t] = NoItem /\ next' = [next EXCEPT ![t] = s] /\ UNCHANGED runnable
        \/ count[s] = 1 /\ next[t] # NoItem /\ UNCHANGED next /\ runnable' = <<s>> \o runnable
    BY <1>a, <1>b DEF UpdateDependencies, LastPredecessor, Set
  <1>3. /\ Busy(t) /\ At(t, "update") /\ c \in Item /\ c \in ran /\ pos[t] \in Nat /\ pos[t] # 0
        /\ NoItem \notin Item /\ Succ(c) \in Seq(Item)
    <2>1. Busy(t) /\ At(t, "update")
      BY <1>1 DEF Busy, At
    <2>2. c \in Item /\ c \in ran /\ pos[t] \in Nat /\ pos[t] # 0
      BY <1>a, <2>1 DEF Inv, Typed, ThreadTyped, Apart
    <2>3. QED
      BY <2>1, <2>2, Items DEF Inv
  <1>4. pos[t] \in DOMAIN Succ(c) /\ s \in Item
    BY <1>b, <1>1, <1>3
  <1>5. Item' = Item /\ \A i : Limit(i)' = Limit(i) /\ Succ(i)' = Succ(i)
    BY <1>1 DEF Item, Limit, Succ
  <1>6. /\ DOMAIN pos' = Thread
        /\ \A u \in Thread : pos'[u] = IF u = t THEN pos[t] + 1 ELSE pos[u]
    BY <1>1 DEF Inv, Typed
  <1>7. e0 \in Tellings(queue, s) /\ \A i : e0 \in Tellings(queue, i) => i = s
    BY <1>b, <1>c, <1>3, <1>4, Items, SMTT(40) DEF Inv
  <1>8. ~Told(e0)
    BY <1>a, <1>c, <1>3 DEF Told
  <1>9. \A u \in Thread : At(u, "update") /\ cur[u] = c => u = t
    BY <1>a, <1>3 DEF Inv, Apart, Busy, At
  <1>10. \A i \in Item : Untold(i)' = Untold(i) \ {e0}
    <2> SUFFICES ASSUME NEW i \in Item, NEW e \in Tellings(queue, i)
                 PROVE  Told(e)' <=> Told(e) \/ e = e0
      BY <1>1 DEF Untold
    <2>0. PICK j \in Item : \E k \in DOMAIN Succ(j) : e = <<j, k>>
      BY Items DEF Inv
    <2>1. PICK k \in DOMAIN Succ(j) : e = <<j, k>>
      BY <2>0
    <2>2. e[1] = j /\ e[2] = k /\ k \in Nat
      <3>1. Succ(j) \in Seq(Item)
        BY Items DEF Inv
      <3>2. QED
        BY <2>1, <3>1
    <2>3. \A u \in Thread : At(u, "update")' <=> At(u, "update")
      BY <1>1 DEF At
    <2>4. CASE j = c
      <3>1. Told(e) <=> k < pos[t]
        BY <1>a, <1>3, <1>9, <2>2, <2>4 DEF Told
      <3>2. Told(e)' <=> k < pos[t] + 1
        BY <1>a, <1>1, <1>3, <1>6, <1>9, <2>2, <2>3, <2>4 DEF Told
      <3>3. e = e0 <=> k = pos[t]
        BY <1>c, <2>1, <2>4
      <3>4. k < pos[t] + 1 <=> k < pos[t] \/ k = pos[t]
        BY <1>3, <2>2
      <3>5. QED
        BY <3>1, <3>2, <3>3, <3>4
    <2>5. CASE j # c
      <3>1. e # e0
        BY <1>c, <2>1, <2>5
      <3>2. \A u \in Thread : cur[u] = j => u # t
        BY <1>a, <2>5
      <3>3. QED
        BY <1>1, <1>6, <2>2, <2>3, <3>1, <3>2 DEF Told
    <2>6. QED
      BY <2>4, <2>5
  <1>11. \A i \in Item : Finished(i)' <=> Finished(i)
    BY <1>1 DEF Finished, At
  <1>12. e0 \in Untold(s) /\ s \notin Ready /\ s \notin ran
    BY <1>7, <1>8 DEF Untold, Inv, AllTold, Ready
  <1>13. \A i \in Item : i # s => Untold(i)' = Untold(i)
    BY <1>7, <1>10 DEF Untold
  <1>14. /\ count[s] \in Nat /\ Cardinality(Untold(s)') = count[s] - 1
         /\ IsFiniteSet(Untold(s)')
    <2>1. IsFiniteSet(Untold(s))
      <3>1. IsFiniteSet(Tellings(queue, s))
        BY <1>4, Items DEF Inv
      <3>2. Untold(s) \subseteq Tellings(queue, s)
        BY DEF Untold
      <3>3. QED
        BY <3>1, <3>2, FS_Subset
    <2>2. count[s] = Cardinality(Untold(s)) /\ Cardinality(Untold(s)) \in Nat
      BY <1>4, <1>12, <2>1, FS_CardinalityType DEF Inv, Counted, Finished
    <2>3. Untold(s)' = Untold(s) \ {e0}
      BY <1>4, <1>10
    <2>4. IsFiniteSet(Untold(s) \ {e0}) /\ Cardinality(Untold(s) \ {e0}) = Cardinality(Untold(s)) - 1
      BY <1>12, <2>1, FS_RemoveElement
    <2>5. QED
      BY <2>2, <2>3, <2>4
  <1>15. count[s] = 1 => Untold(s)' = {}
    BY <1>14, FS_EmptySet
  <1>16. count' = [i \in Item |-> IF i = s THEN count[s] - 1 ELSE count[i]]
    BY <1>1, <1>4 DEF Inv, Typed
  <1>17. Counted'
    <2> SUFFICES ASSUME NEW i \in Item
                 PROVE  count'[i] = IF Finished(i)' THEN Limit(i)' ELSE Cardinality(Untold(i)')
      BY <1>5 DEF Counted
    <2>1. CASE i = s
      BY <1>4, <1>11, <1>12, <1>14, <1>16, <2>1 DEF Finished
    <2>2. CASE i # s
      BY <1>5, <1>11, <1>13, <1>16, <2>2 DEF Inv, Counted
    <2>3. QED
      BY <2>1, <2>2
  <1>18. Accounted'
    BY <1>1, <1>5, <1>11 DEF Inv, Accounted, Owns
  <1>19. NoTick'
    BY <1>1 DEF Inv, NoTick
  <1>20. ToPush' = ToPush
    <2>1. t = 0 => ~At(0, "push")
      BY <1>1 DEF At
    <2>2. t # 0 => pos'[0] = pos[0]
      BY <1>6 DEF Thread
    <2>3. QED
      BY <1>1, <2>1, <2>2 DEF ToPush, At
  <1>21. Running' = Running /\ \A u \in Thread : /\ Busy(u)' <=> Busy(u)
                                                 /\ At(u, "update")' <=> At(u, "update")
    BY <1>1 DEF Running, At, Busy
  <1>22. /\ DOMAIN next' = Thread
         /\ \A u \in Thread : next'[u] = IF u = t /\ count[s] = 1 /\ next[t] = NoItem THEN s ELSE next[u]
    BY <1>2 DEF Inv, Typed
  <1>23. Kept' = Kept \cup (IF count[s] = 1 /\ next[t] = NoItem THEN {s} ELSE {})
    <2>1. CASE count[s] = 1 /\ next[t] = NoItem
      <3>1. \A u \in Thread : next'[u] = IF u = t THEN s ELSE next[u]
        BY <1>22, <2>1
      <3>2. s # NoItem
        BY <1>3, <1>4
      <3>3. Kept' \subseteq Kept \cup {s}
        BY <1>21, <3>1 DEF Kept
      <3>4. s \in Kept'
        BY <1>3, <1>21, <3>1, <3>2 DEF Kept
      <3>5. Kept \subseteq Kept'
        BY <1>21, <2>1, <3>1 DEF Kept
      <3>6. QED
        BY <2>1, <3>3, <3>4, <3>5
    <2>2. CASE ~(count[s] = 1 /\ next[t] = NoItem)
      BY <1>21, <1>22, <2>2 DEF Kept
    <2>3. QED
      BY <2>1, <2>2
  <1>24. /\ runnable' \in Seq(Item) /\ Once(runnable')
         /\ OnStack' = OnStack \cup (IF count[s] = 1 /\ next[t] # NoItem THEN {s} ELSE {})
    <2>1. runnable \in Seq(Item) /\ Once(runnable) /\ s \notin OnStack
      BY <1>12 DEF Inv, Typed, Apart, Ready
    <2>2. CASE count[s] = 1 /\ next[t] # NoItem
      <3>1. runnable' = <<s>> \o runnable
        BY <1>2, <2>2
      <3>2. QED
        BY <1>4, <2>1, <2>2, <3>1, Pushed DEF OnStack
    <2>3. CASE ~(count[s] = 1 /\ next[t] # NoItem)
      <3>1. runnable' = runnable
        BY <1>2, <2>3
      <3>2. QED
        BY <2>1, <2>3, <3>1 DEF OnStack
    <2>4. QED
      BY <2>2, <2>3
  <1>25. Typed'
    <2>1. \A u \in Thread : ThreadTyped(u)'
      <3>1. \A u \in Thread : next'[u] \in Item \cup {NoItem} /\ (next'[u] # NoItem => Busy(u)')
        BY <1>3, <1>4, <1>21, <1>22 DEF Inv, Typed, ThreadTyped
      <3>2. \A u \in Thread : pos'[u] \in Nat /\ (pos[u] # 0 => pos'[u] # 0)
        BY <1>3, <1>6 DEF Inv, Typed, ThreadTyped
      <3>3. QED
        BY <1>1, <1>5, <1>21, <3>1, <3>2 DEF Inv, Typed, ThreadTyped, At
    <2>2. count' \in [Item -> Int]
      BY <1>14, <1>16 DEF Inv, Typed
    <2>3. QED
      BY <1>1, <1>5, <1>6, <1>22, <1>24, <2>1, <2>2 DEF Inv, Typed
  <1>26. Apart'
    <2>1. /\ s \notin ToPush /\ s \notin OnStack /\ s \notin Kept /\ s \notin Running /\ s \notin ran
      BY <1>12 DEF Ready
    <2>2. /\ ToPush' \cap (OnStack' \cup Kept' \cup Running' \cup ran') = {}
          /\ OnStack' \cap (Kept' \cup Running' \cup ran') = {}
          /\ Kept' \cap (Running' \cup ran') = {}
          /\ Running' \cap ran' = {}
      <3>1. CASE count[s] = 1 /\ next[t] = NoItem
        BY <1>1, <1>20, <1>21, <1>23, <1>24, <2>1, <3>1 DEF Inv, Apart
      <3>2. CASE count[s] = 1 /\ next[t] # NoItem
        BY <1>1, <1>20, <1>21, <1>23, <1>24, <2>1, <3>2 DEF Inv, Apart
      <3>3. CASE count[s] # 1
        BY <1>1, <1>20, <1>21, <1>23, <1>24, <2>1, <3>3 DEF Inv, Apart
      <3>4. QED
        BY <3>1, <3>2, <3>3
    <2>3. \A u, v \in Thread : At(u, "update")' /\ At(v, "update")' /\ next'[u] = next'[v]
                               /\ next'[u] # NoItem => u = v
      <3>1. \A u \in Thread : At(u, "update") => next[u] # s
        BY <1>3, <1>4, <2>1 DEF Kept
      <3>2. QED
        BY <1>21, <1>22, <3>1 DEF Inv, Apart
    <2>4. QED
      BY <1>1, <1>21, <1>24, <2>2, <2>3 DEF Inv, Apart
  <1>27. AllTold'
    <2>1. Ready' \subseteq Ready \cup (IF count[s] = 1 THEN {s} ELSE {})
      BY <1>1, <1>20, <1>21, <1>23, <1>24 DEF Ready
    <2>2. Ready \subseteq Item
      BY ReadyItems DEF Inv
    <2>3. \A i \in Ready : Untold(i)' = {}
      BY <1>10, <2>2 DEF Inv, AllTold
    <2>4. QED
      BY <1>15, <2>1, <2>3 DEF AllTold
  <1>28. QED
    BY <1>17, <1>18, <1>19, <1>25, <1>26, <1>27 DEF Inv

LEMMA ResetCountStep ==
    ASSUME GoodQueues, Helpers \in Nat, Inv, NEW t \in Thread, ResetActivationCount(t)
    PROVE  Inv'
  <1>a. PICK c : c = cur[t]
    OBVIOUS
  <1>b. PICK n : n = next[t]
    OBVIOUS
  <1>1. /\ pc[t] = "update" /\ pos[t] > Len(Succ(c))
        /\ count' = [count EXCEPT ![c] = Limit(c)]
        /\ cur' = [cur EXCEPT ![t] = n] /\ consumed' = [consumed EXCEPT ![t] = consumed[t] + 1]
        /\ pc' = [pc EXCEPT ![t] = IF n = NoItem THEN "sub" ELSE "run"]
        /\ UNCHANGED <<queue, runnable, nodeCount, used, sem, stop, next, pos, ran>>
    BY <1>a, <1>b DEF ResetActivationCount, At, Set, Goto
  <1>2. /\ DOMAIN cur' = Thread /\ DOMAIN consumed' = Thread /\ DOMAIN pc' = Thread
        /\ \A u \in Thread : /\ cur'[u] = IF u = t THEN n ELSE cur[u]
                             /\ consumed'[u] = IF u = t THEN consumed[t] + 1 ELSE consumed[u]
                             /\ pc'[u] = IF u = t THEN (IF n = NoItem THEN "sub" ELSE "run") ELSE pc[u]
    BY <1>1 DEF Inv, Typed
  <1>3. /\ Busy(t) /\ At(t, "update") /\ c \in Item /\ c \in ran /\ pos[t] \in Nat
        /\ n \in Item \cup {NoItem} /\ consumed[t] \in Nat
        /\ NoItem \notin Item /\ Succ(c) \in Seq(Item) /\ Limit(c) \in Nat
    <2>1. Busy(t) /\ At(t, "update")
      BY <1>1 DEF Busy, At
    <2>2. c \in Item /\ c \in ran /\ pos[t] \in Nat /\ n \in Item \cup {NoItem} /\ consumed[t] \in Nat
      BY <1>a, <1>b, <2>1 DEF Inv, Typed, ThreadTyped, Apart
    <2>3. QED
      BY <2>1, <2>2, Items DEF Inv
  <1>4. Item' = Item /\ \A i : Limit(i)' = Limit(i)
    BY <1>1 DEF Item, Limit
  <1>5. \A u \in Thread : /\ At(u, "update")' <=> u # t /\ At(u, "update")
                          /\ At(u, "run")' <=> IF u = t THEN n # NoItem ELSE At(u, "run")
                          /\ Busy(u)' <=> IF u = t THEN n # NoItem ELSE Busy(u)
    BY <1>1, <1>2 DEF At, Busy
  <1>6. \A u \in Thread : Busy(u) /\ cur[u] = c => u = t
    BY <1>a, <1>3 DEF Inv, Apart
  <1>7. \A u \in Thread : At(u, "update") => Busy(u)
    BY DEF At, Busy
  <1>8. \A i \in Item : Untold(i)' = Untold(i)
    <2> SUFFICES ASSUME NEW i \in Item, NEW e \in Tellings(queue, i) PROVE Told(e)' <=> Told(e)
      BY <1>1 DEF Untold
    <2>0. PICK j \in Item : \E k \in DOMAIN Succ(j) : e = <<j, k>>
      BY Items DEF Inv
    <2>1. PICK k \in DOMAIN Succ(j) : e = <<j, k>>
      BY <2>0
    <2>2. e[1] = j /\ e[2] = k
      BY <2>1
    <2>3. CASE j = c
      <3>1. k < pos[t]
        BY <1>1, <1>3, <2>3
      <3>2. Told(e)
        BY <1>3, <1>6, <1>7, <2>2, <2>3, <3>1 DEF Told
      <3>3. Told(e)'
        BY <1>1, <1>2, <1>3, <1>5, <1>6, <1>7, <2>2, <2>3 DEF Told
      <3>4. QED
        BY <3>2, <3>3
    <2>4. CASE j # c
      BY <1>a, <1>1, <1>2, <1>5, <2>2, <2>4 DEF Told
    <2>5. QED
      BY <2>3, <2>4
  <1>9. ~Finished(c) /\ \A i \in Item : Finished(i)' <=> Finished(i) \/ i = c
    <2>1. ~Finished(c)
      BY <1>a, <1>3 DEF Finished
    <2>2. Finished(c)'
      BY <1>1, <1>2, <1>3, <1>5, <1>6, <1>7 DEF Finished
    <2>3. \A i \in Item : i # c => (Finished(i)' <=> Finished(i))
      BY <1>a, <1>1, <1>2, <1>5 DEF Finished
    <2>4. QED
      BY <1>3, <2>1, <2>2, <2>3
  <1>10. count' = [i \in Item |-> IF i = c THEN Limit(c) ELSE count[i]]
    BY <1>1, <1>3 DEF Inv, Typed
  <1>11. Counted'
    BY <1>3, <1>4, <1>8, <1>9, <1>10 DEF Inv, Counted
  <1>12. Accounted'
    <2>1. PICK own \in [Item -> Thread \cup {Left, Gone}] : Owns(own)
      BY DEF Inv, Accounted
    <2>2. PICK o : o = [own EXCEPT ![c] = t]
      OBVIOUS
    <2>3. o \in [Item -> Thread \cup {Left, Gone}] /\ o[c] = t /\ \A i \in Item : i # c => o[i] = own[i]
      BY <1>3, <2>1, <2>2
    <2>4. own[c] = Left
      BY <1>3, <1>9, <2>1 DEF Owns
    <2>5. \A u \in Thread : u # Left /\ u # Gone
      BY DEF Thread, Left, Gone
    <2>6. Left # Gone
      BY DEF Left, Gone
    <2>7. \A i \in Item : o[i] # Left <=> Finished(i)'
      BY <1>9, <2>1, <2>3, <2>5 DEF Owns
    <2>8. {i \in Item : o[i] # Gone} = {i \in Item : own[i] # Gone}
      BY <2>3, <2>4, <2>5, <2>6
    <2>9. \A u \in Thread : u # t => {i \in Item : o[i] = u} = {i \in Item : own[i] = u}
      BY <2>3, <2>4, <2>5
    <2>10. {i \in Item : o[i] = t} = {i \in Item : own[i] = t} \cup {c} /\ c \notin {i \in Item : own[i] = t}
      BY <1>3, <2>3, <2>4, <2>5
    <2>11. Cardinality({i \in Item : o[i] = t}) = Cardinality({i \in Item : own[i] = t}) + 1
      <3>1. IsFiniteSet({i \in Item : own[i] = t})
        BY Items, FS_Subset DEF Inv
      <3>2. QED
        BY <2>10, <3>1, FS_AddElement
    <2>12. \A u \in Thread : consumed'[u] = Cardinality({i \in Item : o[i] = u})
      BY <1>2, <2>1, <2>9, <2>11 DEF Owns
    <2>13. Owns(o)'
      BY <1>1, <1>4, <2>1, <2>7, <2>8, <2>12 DEF Owns
    <2>14. QED
      BY <1>4, <2>3, <2>13 DEF Accounted
  <1>13. NoTick'
    BY <1>1, <1>2 DEF Inv, NoTick, Thread
  <1>14. ToPush' = ToPush
    BY <1>1, <1>2 DEF ToPush, At, Thread
  <1>15. OnStack' = OnStack
    BY <1>1 DEF OnStack
  <1>16. n # NoItem => n \in Kept
    BY <1>b, <1>3 DEF Kept
  <1>17. Kept' = Kept \ {n}
    <2>1. \A u \in Thread : At(u, "update") /\ next[u] = n /\ n # NoItem => u = t
      BY <1>b, <1>3 DEF Inv, Apart
    <2>2. Kept' \subseteq Kept \ {n}
      BY <1>1, <1>5, <2>1 DEF Kept
    <2>3. Kept \ {n} \subseteq Kept'
      BY <1>b, <1>1, <1>5 DEF Kept
    <2>4. QED
      BY <2>2, <2>3
  <1>18. Running' = Running \cup ({n} \ {NoItem})
    <2>1. ~At(t, "run")
      BY <1>1 DEF At
    <2>2. Running' \subseteq Running \cup ({n} \ {NoItem})
      BY <1>2, <1>5 DEF Running
    <2>3. Running \subseteq Running'
      BY <1>2, <1>5, <2>1 DEF Running
    <2>4. n # NoItem => n \in Running'
      BY <1>2, <1>5 DEF Running
    <2>5. QED
      BY <2>2, <2>3, <2>4
  <1>19. Typed'
    <2>1. \A u \in Thread : ThreadTyped(u)'
      <3>1. \A u \in Thread : u # t => ThreadTyped(u)'
        BY <1>1, <1>2, <1>4, <1>5 DEF Inv, Typed, ThreadTyped, At
      <3>2. ThreadTyped(t)'
        BY <1>b, <1>1, <1>2, <1>3, <1>4, <1>5 DEF ThreadTyped, At
      <3>3. QED
        BY <3>1, <3>2
    <2>2. count' \in [Item -> Int]
      BY <1>3, <1>10 DEF Inv, Typed
    <2>3. QED
      BY <1>1, <1>2, <1>4, <2>1, <2>2 DEF Inv, Typed
  <1>20. Apart'
    <2>1. /\ ToPush' \cap (OnStack' \cup Kept' \cup Running' \cup ran') = {}
          /\ OnStack' \cap (Kept' \cup Running' \cup ran') = {}
          /\ Kept' \cap (Running' \cup ran') = {}
          /\ Running' \cap ran' = {}
      BY <1>1, <1>14, <1>15, <1>16, <1>17, <1>18 DEF Inv, Apart
    <2>2. \A u \in Thread : Busy(u) /\ n # NoItem => cur[u] # n
      <3>1. n # NoItem => n \notin Running /\ n \notin ran
        BY <1>16 DEF Inv, Apart
      <3>2. \A u \in Thread : Busy(u) => cur[u] \in Running \cup ran
        BY DEF Busy, At, Running, Inv, Apart
      <3>3. QED
        BY <3>1, <3>2
    <2>3. \A u, v \in Thread : Busy(u)' /\ Busy(v)' /\ cur'[u] = cur'[v] => u = v
      BY <1>2, <1>5, <2>2 DEF Inv, Apart
    <2>4. \A u \in Thread : At(u, "update")' => cur'[u] \in ran'
      BY <1>1, <1>2, <1>5 DEF Inv, Apart
    <2>5. \A u, v \in Thread : At(u, "update")' /\ At(v, "update")' /\ next'[u] = next'[v]
                               /\ next'[u] # NoItem => u = v
      BY <1>1, <1>5 DEF Inv, Apart
    <2>6. QED
      BY <1>1, <2>1, <2>3, <2>4, <2>5 DEF Inv, Apart
  <1>21. AllTold'
    <2>1. Ready' \subseteq Ready
      BY <1>1, <1>14, <1>15, <1>16, <1>17, <1>18 DEF Ready
    <2>2. Ready \subseteq Item
      BY ReadyItems DEF Inv
    <2>3. QED
      BY <1>8, <2>1, <2>2 DEF Inv, AllTold
  <1>22. QED
    BY <1>11, <1>12, <1>13, <1>19, <1>20, <1>21 DEF Inv

\* What a thread subtracts is no more than node_count.
LEMMA Subtraction ==
    ASSUME GoodQueues, Inv, NEW t \in Thread, NEW own \in [Item -> Thread \cup {Left, Gone}],
           Owns(own)
    PROVE  /\ Cardinality({i \in Item : own[i] # Gone} \ {i \in Item : own[i] = t})
                = nodeCount - consumed[t]
           /\ nodeCount >= consumed[t]
  <1> DEFINE A == {i \in Item : own[i] # Gone}
             B == {i \in Item : own[i] = t}
  <1>1. IsFiniteSet(A) /\ IsFiniteSet(B) /\ B \subseteq A
    <2>1. t # Gone
      BY DEF Thread, Gone
    <2>2. QED
      BY <2>1, Items, FS_Subset DEF Inv
  <1>2. nodeCount = Cardinality(A) /\ consumed[t] = Cardinality(B)
    BY DEF Owns
  <1> HIDE DEF A, B
  <1>3. A \cap B = B
    BY <1>1
  <1>4. Cardinality(A \ B) = Cardinality(A) - Cardinality(A \cap B)
    BY <1>1, FS_Difference
  <1>5. Cardinality(B) <= Cardinality(A) /\ Cardinality(A) \in Nat /\ Cardinality(B) \in Nat
    BY <1>1, FS_Subset, FS_CardinalityType
  <1>6. QED
    BY <1>2, <1>3, <1>4, <1>5 DEF A, B

LEMMA SubtractStep ==
    ASSUME GoodQueues, Helpers \in Nat, Inv, NEW t \in Thread, Subtract(t)
    PROVE  Inv'
  <1>1. PICK there \in {"end", "wait", "load"} :
        /\ pc[t] = "sub" /\ nodeCount' = nodeCount - consumed[t]
        /\ pos' = [pos EXCEPT ![t] = 0] /\ consumed' = [consumed EXCEPT ![t] = 0]
        /\ pc' = [pc EXCEPT ![t] = there]
        /\ UNCHANGED <<queue, count, runnable, used, sem, stop, cur, next, ran>>
    BY DEF Subtract, At, Set, Goto, Back
  <1>2. /\ DOMAIN pos' = Thread /\ DOMAIN consumed' = Thread /\ DOMAIN pc' = Thread
        /\ \A u \in Thread : /\ pos'[u] = IF u = t THEN 0 ELSE pos[u]
                             /\ consumed'[u] = IF u = t THEN 0 ELSE consumed[u]
                             /\ pc'[u] = IF u = t THEN there ELSE pc[u]
    BY <1>1 DEF Inv, Typed
  <1>3. \A u \in Thread : /\ At(u, "update")' <=> At(u, "update")
                          /\ At(u, "run")' <=> At(u, "run")
                          /\ Busy(u)' <=> Busy(u)
                          /\ At(u, "update") => cur'[u] = cur[u] /\ pos'[u] = pos[u]
    BY <1>1, <1>2 DEF At, Busy
  <1>4. /\ \A i : Untold(i)' = Untold(i) /\ (Finished(i)' <=> Finished(i))
        /\ Item' = Item /\ \A i : Limit(i)' = Limit(i)
    BY <1>1, <1>3, ToldFrame
  <1>5. ToPush' = ToPush
    <2>1. 0 \in Thread
      BY DEF Thread
    <2>2. t = 0 => ~At(0, "push") /\ ~At(0, "push")'
      BY <1>1, <1>2 DEF At
    <2>3. t # 0 => pos'[0] = pos[0] /\ pc'[0] = pc[0]
      BY <1>2, <2>1
    <2>4. QED
      BY <1>1, <2>2, <2>3 DEF ToPush, At
  <1>6. Kept' = Kept /\ Running' = Running /\ OnStack' = OnStack
    BY <1>1, <1>3 DEF Kept, Running, OnStack
  <1>7. Typed'
    <2>1. \A u \in Thread : ThreadTyped(u)'
      <3>1. \A u \in Thread : u # t => ThreadTyped(u)'
        BY <1>1, <1>2, <1>3, <1>4 DEF Inv, Typed, ThreadTyped, At
      <3>2. ThreadTyped(t)'
        BY <1>1, <1>2, <1>3, <1>4 DEF Inv, Typed, ThreadTyped, At
      <3>3. QED
        BY <3>1, <3>2
    <2>2. nodeCount' \in Int
      BY <1>1 DEF Inv, Typed, ThreadTyped
    <2>3. QED
      BY <1>1, <1>2, <1>4, <2>1, <2>2 DEF Inv, Typed
  <1>8. Apart'
    BY <1>1, <1>3, <1>5, <1>6 DEF Inv, Apart
  <1>9. AllTold'
    BY <1>1, <1>4, <1>5, <1>6 DEF Inv, AllTold, Ready
  <1>10. Counted'
    BY <1>1, <1>4 DEF Inv, Counted
  <1>11. Accounted'
    <2>1. PICK own \in [Item -> Thread \cup {Left, Gone}] : Owns(own)
      BY DEF Inv, Accounted
    <2>2. PICK o : o = [i \in Item |-> IF own[i] = t THEN Gone ELSE own[i]]
      OBVIOUS
    <2>3. o \in [Item -> Thread \cup {Left, Gone}]
      BY <2>1, <2>2
    <2>4. t # Gone /\ t # Left /\ Left # Gone /\ \A u \in Thread : u # Gone
      BY DEF Thread, Gone, Left
    <2>5. \A i \in Item : o[i] # Left <=> own[i] # Left
      BY <2>2, <2>4
    <2>6. /\ {i \in Item : o[i] = t} = {}
          /\ \A u \in Thread : u # t => {i \in Item : o[i] = u} = {i \in Item : own[i] = u}
      BY <2>2, <2>4
    <2>7. {i \in Item : o[i] # Gone} = {i \in Item : own[i] # Gone} \ {i \in Item : own[i] = t}
      BY <2>2
    <2>8. Cardinality({i \in Item : o[i] # Gone}) = nodeCount'
      BY <1>1, <2>1, <2>7, Subtraction
    <2>9. \A u \in Thread : consumed'[u] = Cardinality({i \in Item : o[i] = u})
      BY <1>2, <2>1, <2>6, FS_EmptySet, ZenonT(60) DEF Owns
    <2>10. Owns(o)'
      BY <1>4, <2>1, <2>5, <2>8, <2>9 DEF Owns
    <2>11. QED
      BY <1>4, <2>3, <2>10 DEF Accounted
  <1>12. NoTick'
    <2> SUFFICES ASSUME pc'[0] \in {"idle", "join", "joining", "ended"} PROVE nodeCount' = 0
      BY DEF NoTick
    <2>1. pc'[0] = pc[0]
      BY <1>1, <1>2 DEF Thread
    <2>2. nodeCount = 0
      BY <2>1 DEF Inv, NoTick
    <2>3. consumed[t] = 0
      BY <2>2, AllRun
    <2>4. QED
      BY <1>1, <2>2, <2>3
  <1>13. QED
    BY <1>7, <1>8, <1>9, <1>10, <1>11, <1>12 DEF Inv
-----------------------------------------------------------------------------
LEMMA InvInit ==
    ASSUME GoodQueues, Helpers \in Nat
    PROVE  DspInit => Inv
  <1> SUFFICES ASSUME DspInit PROVE Inv
    OBVIOUS
  <1>0. /\ queue \in Queues /\ Len(queue.items) \in Nat /\ NoItem \notin Item
        /\ \A i \in Item : Limit(i) \in Nat
    BY Queue, FewTellings DEF DspInit, Item, Limit
  <1>1. /\ \A t \in Thread : /\ pc[t] \in {"idle", "wait"} /\ cur[t] = NoItem /\ next[t] = NoItem
                             /\ pos[t] = 0 /\ consumed[t] = 0 /\ ~Busy(t)
                             /\ ~At(t, "update") /\ ~At(t, "run") /\ ~At(t, "push")
        /\ 0 \in Thread
    BY DEF DspInit, Busy, At, Thread
  <1>2. Typed
    <2>1. \A t \in Thread : ThreadTyped(t)
      BY <1>1 DEF ThreadTyped
    <2>2. used \in 0 .. 255
      <3> DEFINE few == (IF Len(queue.items) < Helpers + 1 THEN Len(queue.items) ELSE Helpers + 1) - 1
      <3>1. few \in Int /\ used = IF ~queue.parallel THEN 0 ELSE few % 256
        BY <1>0 DEF DspInit, UsedHelpers
      <3> HIDE DEF few
      <3>2. few % 256 \in 0 .. 255
        BY <3>1
      <3>3. QED
        BY <3>1, <3>2
    <2>3. QED
      BY <1>0, <2>1, <2>2 DEF DspInit, Typed
  <1>3. ToPush = {} /\ OnStack = {} /\ Kept = {} /\ Running = {}
    <2>1. ToPush = {} /\ Kept = {} /\ Running = {}
      BY <1>1 DEF ToPush, Kept, Running
    <2>2. runnable = <<>>
      BY DEF DspInit
    <2>3. QED
      BY <2>1, <2>2 DEF OnStack, Members
  <1>4. Apart
    <2>1. Once(runnable)
      BY DEF DspInit, Once
    <2>2. QED
      BY <1>1, <1>3, <2>1 DEF Apart
  <1>5. \A i \in Item : Finished(i)
    BY <1>1 DEF DspInit, Finished
  <1>6. \A i : Untold(i) = {}
    <2> SUFFICES ASSUME NEW i, NEW e \in Tellings(queue, i) PROVE Told(e)
      BY DEF Untold
    <2>1. e[1] \in Item
      BY Telling DEF Item
    <2>2. QED
      BY <1>1, <2>1 DEF Told, DspInit
  <1>7. AllTold
    BY <1>6 DEF AllTold
  <1>8. Counted
    BY <1>5 DEF Counted, DspInit
  <1>9. Accounted
    <2>1. PICK own : own = [i \in Item |-> Gone]
      OBVIOUS
    <2>2. {i \in Item : own[i] # Gone} = {} /\ \A t \in Thread : {i \in Item : own[i] = t} = {}
      BY <2>1 DEF Gone, Thread
    <2>3. \A i \in Item : own[i] # Left
      BY <2>1 DEF Gone, Left
    <2>4. nodeCount = 0
      BY DEF DspInit
    <2>5. Owns(own)
      BY <1>1, <1>5, <2>2, <2>3, <2>4, FS_EmptySet DEF Owns
    <2>6. QED
      BY <2>1, <2>5 DEF Accounted
  <1>10. NoTick
    BY DEF DspInit, NoTick
  <1>11. QED
    BY <1>2, <1>4, <1>7, <1>8, <1>9, <1>10 DEF Inv

LEMMA InvStep ==
    ASSUME GoodQueues, Helpers \in Nat
    PROVE  Inv /\ [DspNext]_dspVars => Inv'
  <1> SUFFICES ASSUME Inv, [DspNext]_dspVars PROVE Inv'
    OBVIOUS
  <1>0. 0 \in Thread /\ \A h \in Helper : h \in Thread /\ h # 0
    BY DEF Thread, Helper
  <1>1. CASE UNCHANGED dspVars
    <2>1. /\ UNCHANGED <<queue, count, runnable, nodeCount, used, sem, stop>>
          /\ UNCHANGED <<pc, cur, next, pos, consumed, ran>>
      BY <1>1 DEF dspVars, threadVars
    <2>2. Item' = Item
      BY <2>1 DEF Item
    <2>3. \A t \in Thread : ThreadTyped(t)'
      BY <2>1, <2>2 DEF Inv, Typed, ThreadTyped, Busy, At
    <2>4. Typed'
      BY <2>1, <2>2, <2>3 DEF Inv, Typed
    <2>5. ToPush' = ToPush /\ NoTick'
      BY <2>1 DEF ToPush, At, Inv, NoTick
    <2>6. QED
      BY <2>1, <2>4, <2>5, Frame DEF At
  <1>2. ASSUME NEW t \in Thread, RunItem(t) PROVE Inv'
    BY <1>2, SearchQuiet, PopStep, RunStep, UpdateStep, ResetCountStep, SubtractStep DEF RunItem
  <1>3. ASSUME NEW h \in Helper, Wake(h) \/ GiveUp(h) PROVE Inv'
    BY <1>0, <1>3, SearchQuiet
  <1>4. CASE \E q \in Queues : ResetQueue(q)
    BY <1>4, ResetQueueStep
  <1>5. CASE InitTick
    BY <1>5, InitTickStep
  <1>6. CASE TerminateThreads
    BY <1>6, MasterQuiet
  <1>7. CASE Master
    BY <1>0, <1>2, <1>7, MasterQuiet, PushInitialStep DEF Master
  <1>8. QED
    BY <1>0, <1>1, <1>2, <1>3, <1>4, <1>5, <1>6, <1>7 DEF DspNext

LEMMA AlwaysInv ==
    ASSUME GoodQueues, Helpers \in Nat
    PROVE  DspSpec => []Inv
  BY InvInit, InvStep, PTL DEF DspSpec

\* The threads' variables are functions.
IsFunction(f) == f = [t \in DOMAIN f |-> f[t]]
AreFunctions == IsFunction(pc) /\ IsFunction(cur) /\ IsFunction(next) /\ IsFunction(pos)
             /\ IsFunction(consumed)

LEMMA SetFunction == \A f, t, x : IsFunction([f EXCEPT ![t] = x])
  BY DEF IsFunction

LEMMA AlwaysFunctions == DspSpec => []AreFunctions
  <1>1. DspInit => AreFunctions
    BY DEF DspInit, AreFunctions, IsFunction
  <1>2. AreFunctions /\ [DspNext]_dspVars => AreFunctions'
    <2> SUFFICES ASSUME AreFunctions, [DspNext]_dspVars PROVE AreFunctions'
      OBVIOUS
    <2>1. /\ pc' = pc \/ \E t, x : pc' = [pc EXCEPT ![t] = x]
          /\ cur' = cur \/ \E t, x : cur' = [cur EXCEPT ![t] = x]
          /\ next' = next \/ \E t, x : next' = [next EXCEPT ![t] = x]
          /\ pos' = pos \/ \E t, x : pos' = [pos EXCEPT ![t] = x]
          /\ consumed' = consumed \/ \E t, x : consumed' = [consumed EXCEPT ![t] = x]
      <3> USE DEF Goto, Set
      <3>1. CASE UNCHANGED dspVars
        BY <3>1 DEF dspVars, threadVars
      <3>2. ASSUME NEW t, RunItem(t) \/ Wake(t) \/ GiveUp(t) PROVE <2>1!:
        BY <3>2 DEF RunItem, Load, Pop, Poll, Run, UpdateDependencies, ResetActivationCount,
                    Subtract, Wake, GiveUp
      <3>3. CASE \E q \in Queues : ResetQueue(q)
        BY <3>3 DEF ResetQueue, threadVars
      <3>4. CASE InitTick \/ TerminateThreads
        BY <3>4 DEF InitTick, TerminateThreads
      <3>5. CASE Master
        BY <3>2, <3>5 DEF Master, PushInitial, WakeThreads, WakeThread, WaitForEnd, Join, Joined
      <3>6. QED
        BY <3>1, <3>2, <3>3, <3>4, <3>5 DEF DspNext
    <2>2. \A f, g : IsFunction(f) /\ (g = f \/ \E t, x : g = [f EXCEPT ![t] = x]) => IsFunction(g)
      BY SetFunction
    <2>3. /\ IsFunction(pc') /\ IsFunction(cur') /\ IsFunction(next') /\ IsFunction(pos')
          /\ IsFunction(consumed')
      BY <2>1, <2>2, Zenon DEF AreFunctions
    <2>4. QED
      BY <2>3 DEF AreFunctions, IsFunction
  <1>3. QED
    BY <1>1, <1>2, PTL DEF DspSpec

\* The counters of the queue keep to their ranges: activation_count and
\* node_count never go below zero.
THEOREM TypeCorrect ==
    ASSUME GoodQueues, Helpers \in Nat
    PROVE  DspSpec => []DspTypeOK
  <1>1. Inv /\ AreFunctions => DspTypeOK
    <2> SUFFICES ASSUME Inv, AreFunctions PROVE DspTypeOK
      OBVIOUS
    <2>1. count \in [Item -> Nat]
      <3>1. \A i \in Item : count[i] \in Nat
        <4> SUFFICES ASSUME NEW i \in Item PROVE count[i] \in Nat
          OBVIOUS
        <4>1. Limit(i) \in Nat /\ IsFiniteSet(Tellings(queue, i))
          BY Items DEF Inv
        <4>2. Untold(i) \subseteq Tellings(queue, i)
          BY DEF Untold
        <4>3. Cardinality(Untold(i)) \in Nat
          BY <4>1, <4>2, FS_Subset, FS_CardinalityType
        <4>4. QED
          BY <4>1, <4>3 DEF Inv, Counted
      <3>2. QED
        BY <3>1 DEF Inv, Typed
    <2>2. nodeCount \in 0 .. Len(queue.items)
      <3>1. PICK own \in [Item -> Thread \cup {Left, Gone}] : Owns(own)
        BY DEF Inv, Accounted
      <3>2. IsFiniteSet(Item) /\ Cardinality(Item) = Len(queue.items) /\ Len(queue.items) \in Nat
        BY Items DEF Inv
      <3> DEFINE A == {i \in Item : own[i] # Gone}
      <3>3. nodeCount = Cardinality(A)
        BY <3>1 DEF Owns
      <3>4. A \subseteq Item
        OBVIOUS
      <3> HIDE DEF A
      <3>5. Cardinality(A) \in Nat /\ Cardinality(A) <= Cardinality(Item)
        BY <3>2, <3>4, FS_Subset, FS_CardinalityType
      <3>6. QED
        BY <3>2, <3>3, <3>5
    <2>3. /\ pc \in [Thread -> {"idle", "push", "wake", "load", "pop", "run", "update", "sub", "end",
                                "wait", "join", "joining", "exited", "ended"}]
          /\ cur \in [Thread -> Item \cup {NoItem}] /\ next \in [Thread -> Item \cup {NoItem}]
          /\ pos \in [Thread -> Nat] /\ consumed \in [Thread -> Nat]
      BY DEF Inv, Typed, ThreadTyped, AreFunctions, IsFunction
    <2>4. QED
      BY <2>1, <2>2, <2>3 DEF Inv, Typed, DspTypeOK
  <1>2. QED
    BY <1>1, AlwaysInv, AlwaysFunctions, PTL

\* However many helpers there are and however late they come, run_item runs
\* an item after all its predecessors, once in a tick and on one thread, and
\* the counters that say so are never taken below zero.
THEOREM RunsInOrder ==
    ASSUME GoodQueues, Helpers \in Nat
    PROVE  DspSpec => []InOrder
  <1>1. Inv => InOrder
    <2> SUFFICES ASSUME Inv, NEW t \in Thread
                 PROVE  /\ At(t, "run") =>
                              /\ Predecessors(cur[t]) \subseteq ran /\ cur[t] \notin ran
                              /\ \A u \in Thread \ {t} : ~(At(u, "run") /\ cur[u] = cur[t])
                              /\ count[cur[t]] = 0
                        /\ At(t, "update") /\ pos[t] <= Len(Succ(cur[t])) =>
                              count[Succ(cur[t])[pos[t]]] > 0
                        /\ At(t, "sub") => nodeCount >= consumed[t]
      BY DEF InOrder
    <2>1. ASSUME At(t, "run")
          PROVE  /\ Predecessors(cur[t]) \subseteq ran /\ cur[t] \notin ran
                 /\ \A u \in Thread \ {t} : ~(At(u, "run") /\ cur[u] = cur[t])
                 /\ count[cur[t]] = 0
      <3>1. Busy(t) /\ cur[t] \in Item /\ cur[t] \in Running
        BY <2>1 DEF Inv, Typed, ThreadTyped, Busy, At, Running
      <3>2. cur[t] \notin ran /\ Untold(cur[t]) = {}
        BY <3>1 DEF Inv, Apart, AllTold, Ready
      <3>3. \A u \in Thread \ {t} : ~(At(u, "run") /\ cur[u] = cur[t])
        BY <3>1 DEF Inv, Apart, Busy, At
      <3>4. count[cur[t]] = 0
        BY <3>1, <3>2, FS_EmptySet DEF Inv, Counted, Finished
      <3>5. ASSUME NEW j \in Predecessors(cur[t]) PROVE j \in ran
        <4>1. PICK k \in DOMAIN Succ(j) : Succ(j)[k] = cur[t] /\ j \in Item
          BY DEF Predecessors
        <4>2. <<j, k>> \in Tellings(queue, cur[t])
          BY <4>1, Items DEF Inv
        <4>3. Told(<<j, k>>)
          BY <3>2, <4>2 DEF Untold
        <4>4. QED
          BY <4>3 DEF Told
      <3>6. QED
        BY <3>2, <3>3, <3>4, <3>5
    <2>2. ASSUME At(t, "update"), pos[t] <= Len(Succ(cur[t]))
          PROVE  count[Succ(cur[t])[pos[t]]] > 0
      <3>1. PICK c, s, e : c = cur[t] /\ s = Succ(c)[pos[t]] /\ e = <<c, pos[t]>>
        OBVIOUS
      <3>2. c \in Item /\ pos[t] \in Nat /\ pos[t] # 0
        BY <2>2, <3>1 DEF Inv, Typed, ThreadTyped, Busy, At
      <3>3. Succ(c) \in Seq(Item)
        BY <3>2, Items DEF Inv
      <3>4. pos[t] \in DOMAIN Succ(c) /\ s \in Item
        BY <2>2, <3>1, <3>2, <3>3
      <3>5. e \in Tellings(queue, s)
        BY <3>1, <3>2, <3>4, Items DEF Inv
      <3>6. ~Told(e)
        BY <2>2, <3>1, <3>2 DEF Told
      <3>7. e \in Untold(s)
        BY <3>5, <3>6 DEF Untold
      <3>8. s \notin ran
        BY <3>7 DEF Inv, AllTold, Ready
      <3>9. count[s] = Cardinality(Untold(s))
        BY <3>4, <3>8 DEF Inv, Counted, Finished
      <3>10. IsFiniteSet(Untold(s))
        <4>1. Untold(s) \subseteq Tellings(queue, s) /\ IsFiniteSet(Tellings(queue, s))
          BY <3>4, Items DEF Inv, Untold
        <4>2. QED
          BY <4>1, FS_Subset
      <3>11. Cardinality(Untold(s)) \in Nat /\ Cardinality(Untold(s)) # 0
        BY <3>7, <3>10, FS_CardinalityType, FS_EmptySet
      <3>12. QED
        BY <3>1, <3>9, <3>11
    <2>3. nodeCount >= consumed[t]
      BY Subtraction DEF Inv, Accounted
    <2>4. QED
      BY <2>1, <2>2, <2>3
  <1>2. QED
    BY <1>1, AlwaysInv, PTL

\* When the audio thread is out of a tick, every item has been run, the counts
\* are set back for the next one, and no helper has an item: reset_queue may
\* take the queue away.
THEOREM IdleLeavesNothing ==
    ASSUME GoodQueues, Helpers \in Nat
    PROVE  DspSpec => []IdleIsClean
  <1>1. Inv => IdleIsClean
    <2> SUFFICES ASSUME Inv, At(0, "idle")
                 PROVE  /\ nodeCount = 0 /\ runnable = <<>> /\ ran = Item
                        /\ \A i \in Item : count[i] = Limit(i)
                        /\ \A h \in Helper : cur[h] = NoItem
      BY DEF IdleIsClean
    <2>1. nodeCount = 0
      BY DEF Inv, NoTick, At
    <2>2. \A h \in Helper : h \in Thread
      BY DEF Helper, Thread
    <2>3. QED
      BY <2>1, <2>2, AllRun
  <1>2. QED
    BY <1>1, AlwaysInv, PTL
=============================================================================
