----------------------------- MODULE TimedQueue -----------------------------
(***************************************************************************)
(* What the server's scheduler promises: events come out in the order of   *)
(* their times, and events for the same time in the order they were added. *)
(***************************************************************************)
EXTENDS Naturals, Sequences

SeqExt == INSTANCE SequencesExt

CONSTANTS Time, Packet, Capacity

VARIABLES events,     \* in the order of arrival
          removed,    \* the event taken out last
          added       \* what the last call of Add returned

qvars == <<events, removed, added>>

NoEvent == [mTime |-> 0, mPacket |-> "none"]

Init == events = <<>> /\ removed = NoEvent /\ added = TRUE

Add(time, packet) ==
    /\ Len(events) < Capacity
    /\ events' = Append(events, [mTime |-> time, mPacket |-> packet])
    /\ added' = TRUE
    /\ UNCHANGED removed

Refuse ==
    /\ Len(events) >= Capacity
    /\ added' = FALSE
    /\ UNCHANGED <<events, removed>>

\* The first of the events that no other one precedes in time.
IsNext(i) ==
    \A j \in 1 .. Len(events) :
        /\ events[i].mTime <= events[j].mTime
        /\ j < i => events[i].mTime < events[j].mTime

Remove ==
    \E i \in 1 .. Len(events) :
        /\ IsNext(i)
        /\ removed' = events[i]
        /\ events' = SeqExt!RemoveAt(events, i)
        /\ UNCHANGED added

Empty == events' = <<>> /\ UNCHANGED <<removed, added>>

Next ==
    \/ \E time \in Time, packet \in Packet : Add(time, packet)
    \/ Refuse \/ Remove \/ Empty

Spec == Init /\ [][Next]_qvars
=============================================================================
