---------------------------- MODULE PriorityQueue ----------------------------
(***************************************************************************)
(* The binary heap PriorityQueueT<SC_ScheduledEvent, N> of the scheduler   *)
(* (PriorityQueue.h), with the keys of SC_ScheduledEvent (SC_CoreAudio.h): *)
(* the time, and for equal times the counter that Add takes the event's    *)
(* mStabilityCount from and that starts again when the queue runs empty.   *)
(* It is used by the audio thread alone, so one call is one action.        *)
(***************************************************************************)
EXTENDS Naturals, Sequences, FiniteSets

CONSTANTS N,          \* the size of the heap
          Time,       \* the times of events
          MaxTime,    \* kMaxInt64
          Packet,     \* what events carry
          MaxCount    \* bound on mStabilityCounter

VARIABLES mSize, mEvents, mStabilityCounter,
          removed,    \* what the last call of Remove returned
          added       \* what the last call of Add returned

vars == <<mSize, mEvents, mStabilityCounter, removed, added>>

Index == 0 .. N - 1
Event == [mTime : Time \cup {0, MaxTime}, mStabilityCount : Nat, mPacket : Packet \cup {"none"}]
NoEvent == [mTime |-> 0, mStabilityCount |-> 0, mPacket |-> "none"]

\* SetEmptyTime.  Places from mSize on are never read: they hold NoEvent here.
EmptyHeap == [[i \in Index |-> NoEvent] EXCEPT ![0].mTime = MaxTime]

Init ==
    /\ mSize = 0 /\ mStabilityCounter = 0
    /\ mEvents = EmptyHeap
    /\ removed = NoEvent /\ added = TRUE

\* A slip: the times alone are compared.
BeforeByTime(e, f) == e.mTime < f.mTime

\* key_t::operator<
Before(e, f) ==
    \/ e.mTime < f.mTime
    \/ e.mTime = f.mTime /\ e.mStabilityCount < f.mStabilityCount

Mom(me) == (me - 1) \div 2

\* The heap with e put in at the free place me, those of its ancestors that
\* come after e moved down by one.
Percolate(events, place, e) ==
    LET up[me \in Index] ==
            IF me > 0 /\ Before(e, events[Mom(me)])
            THEN [up[Mom(me)] EXCEPT ![me] = events[Mom(me)]]
            ELSE [events EXCEPT ![me] = e]
    IN up[place]

\* The heap of this size with e put in at the root, the earlier of the
\* children moved up wherever one comes before e.
Demote(events, size, e) ==
    LET down[mom \in Index] ==
            LET left == 2 * mom + 1
                me == IF left + 1 < size /\ Before(events[left + 1], events[left])
                      THEN left + 1 ELSE left
            IN IF left < size /\ Before(events[me], e)
               THEN [down[me] EXCEPT ![mom] = events[me]]
               ELSE [events EXCEPT ![mom] = e]
    IN down[0]

Add(time, packet) ==
    /\ mSize < N
    /\ mStabilityCounter < MaxCount
    /\ mEvents' = Percolate(mEvents, mSize,
                            [mTime |-> time, mStabilityCount |-> mStabilityCounter,
                             mPacket |-> packet])
    /\ mStabilityCounter' = mStabilityCounter + 1
    /\ mSize' = mSize + 1
    /\ added' = TRUE
    /\ UNCHANGED removed

AddFull ==
    /\ mSize >= N
    /\ added' = FALSE
    /\ UNCHANGED <<mSize, mEvents, mStabilityCounter, removed>>

\* The last event goes to the root and from there to its place.
DropRoot ==
    [Demote(mEvents, mSize - 1, mEvents[mSize - 1]) EXCEPT ![mSize - 1] = NoEvent]

\* Remove, called when NextTime() is not kMaxInt64.
Remove ==
    /\ mEvents[0].mTime < MaxTime
    /\ removed' = mEvents[0]
    /\ mSize' = mSize - 1
    /\ mEvents' = IF mSize = 1 THEN EmptyHeap ELSE DropRoot
    /\ mStabilityCounter' = IF mSize = 1 THEN 0 ELSE mStabilityCounter
    /\ UNCHANGED added

\* ClearSched
Empty ==
    /\ mSize' = 0
    /\ mEvents' = EmptyHeap
    /\ mStabilityCounter' = 0
    /\ UNCHANGED <<removed, added>>

Next ==
    \/ \E time \in Time, packet \in Packet : Add(time, packet)
    \/ AddFull \/ Remove \/ Empty

Spec == Init /\ [][Next]_vars

-----------------------------------------------------------------------------
Payload(e) == [mTime |-> e.mTime, mPacket |-> e.mPacket]

\* The events of the heap in the order of arrival: the i-th is the one that
\* i - 1 others have a smaller count than.
Arrivals ==
    LET Earlier(k) == {j \in 0 .. mSize - 1 :
                          mEvents[j].mStabilityCount < mEvents[k].mStabilityCount}
    IN [i \in 1 .. mSize |->
           Payload(mEvents[CHOOSE k \in 0 .. mSize - 1 : Cardinality(Earlier(k)) = i - 1])]

Queue == INSTANCE TimedQueue
            WITH events <- Arrivals, removed <- Payload(removed), Capacity <- N

(* Type correctness of the heap; events in it have different counts.       *)
TypeOK ==
    /\ mSize \in 0 .. N
    /\ mEvents \in [Index -> Event]
    /\ mStabilityCounter \in Nat
    /\ \A i, j \in 0 .. mSize - 1 :
          /\ mEvents[i].mStabilityCount < mStabilityCounter
          /\ mEvents[i].mStabilityCount = mEvents[j].mStabilityCount => i = j
    /\ removed \in Event /\ added \in BOOLEAN

(* The heap implements the scheduler's queue: earliest first, and first    *)
(* come, first served among events for the same time.                      *)
Implements == Queue!Spec
=============================================================================
