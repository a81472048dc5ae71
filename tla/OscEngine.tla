----------------------------- MODULE OscEngine -----------------------------
(***************************************************************************)
(* The way of an OSC packet through scsynth, from the thread that received *)
(* it to the one that frees it.                                            *)
(*                                                                         *)
(*   network threads   malloc a packet and write it to mOscPacketsToEngine *)
(*                     under mDriverLock, freeing the packets that the     *)
(*                     engine is done with first;                          *)
(*   audio callback    performs the packets of that FIFO: messages and     *)
(*                     immediate bundles at once, timed bundles go to the  *)
(*                     scheduler; then, for each block of the callback,    *)
(*                     performs the scheduled bundles that are due and     *)
(*                     hands their packets over for freeing;               *)
(*   NRT thread        frees the packets handed over in mFromEngine.       *)
(*                                                                         *)
(* The FIFOs are the abstract queues of EngineQueue and the scheduler the  *)
(* one of TimedQueue (modules MsgFifo and PriorityQueue implement them).   *)
(* A packet and its data, allocated and freed together, are one packet.    *)
(* Packets are messages and bundles without bundles inside.                *)
(***************************************************************************)
EXTENDS Integers, Sequences, FiniteSets

SeqExt == INSTANCE SequencesExt

CONSTANTS
    Thread,      \* the threads that receive packets
    Time,        \* the times of timed bundles
    Command,     \* what packets say: "plain" and perhaps "clearSched"
    MaxSent,     \* bound on the number of packets received
    OscSize,     \* the packets that mOscPacketsToEngine holds
    FromSize,    \* the messages that mFromEngine holds
    SchedSize,   \* the events that the scheduler holds
    Blocks,      \* numBufs: control blocks per callback
    Inc,         \* oscInc: the time that a block takes
    Jitter,      \* how far the DLL moves the time of a callback
    Horizon      \* bound on the time

ASSUME EngineAssumption ==
    /\ Time \subseteq 1 .. Horizon
    /\ Command \subseteq {"plain", "clearSched"}
    /\ {MaxSent, OscSize, FromSize, SchedSize, Blocks, Inc, Horizon} \subseteq Nat \ {0}
    /\ Jitter \in Nat

VARIABLES
    sent,        \* the packets received so far are 1 .. sent
    packet,      \* of each of them, its time (0: at once), command and thread
    heap,        \* the packets that are allocated
    net,         \* where each network thread is, and the packet it holds
    driverLock,  \* who holds mDriverLock
    driver,      \* whether there is an audio driver
    osc,         \* mOscPacketsToEngine: packets to perform, and performed
    from,        \* mFromEngine: packets to free, and the number of spent messages
    sched,       \* mScheduler, in the order of arrival
    rt,          \* where the audio callback is
    block,       \* the block that it calculates
    oscTime,     \* mOSCbuftime
    log,         \* the packets performed, in order
    dropped      \* packets that a full queue or /clearSched let go of

vars == <<sent, packet, heap, net, driverLock, driver, osc, from, sched, rt,
          block, oscTime, log, dropped>>
netVars == <<sent, packet, net, driverLock>>
rtVars == <<sched, rt, block, oscTime, log, dropped>>

None == 0        \* no packet: a null pointer
NoOne == "none"  \* nobody holds the lock

Init ==
    /\ sent = 0 /\ packet = <<>> /\ heap = {}
    /\ net = [t \in Thread |-> [pc |-> "idle", p |-> None]]
    /\ driverLock = NoOne /\ driver = TRUE
    /\ osc = [pending |-> <<>>, spent |-> <<>>]
    /\ from = [pending |-> <<>>, spent |-> 0]
    /\ sched = <<>>
    /\ rt = "idle" /\ block = 0 /\ oscTime = 0
    /\ log = <<>> /\ dropped = {}
-----------------------------------------------------------------------------
(***************************************************************************)
(* The network threads: UnrollOSCPacket, ProcessOSCPacket and              *)
(* SendOscPacketMsgToEngine.                                               *)
(***************************************************************************)
Goto(t, pc) == net' = [net EXCEPT ![t].pc = pc]
Leave(t) == net' = [net EXCEPT ![t] = [pc |-> "idle", p |-> None]]

Receive(t, time, command) ==
    /\ net[t].pc = "idle"
    /\ sent < MaxSent
    /\ sent' = sent + 1
    /\ packet' = Append(packet, [at |-> time, command |-> command, by |-> t])
    /\ heap' = heap \cup {sent'}
    /\ net' = [net EXCEPT ![t] = [pc |-> "lock", p |-> sent']]
    /\ UNCHANGED <<driverLock, driver, osc, from, rtVars>>

\* The lock is taken and the driver looked up; without one the lock is
\* released again and the packet refused.
ProcessOSCPacket(t) ==
    /\ net[t].pc = "lock"
    /\ driverLock = NoOne
    /\ \/ driver /\ driverLock' = t /\ Goto(t, "free")
       \/ ~driver /\ driverLock' = NoOne /\ Goto(t, "refused")
    /\ UNCHANGED <<sent, packet, heap, driver, osc, from, rtVars>>

\* mOscPacketsToEngine.Free: FreeOSCPacket for a message that the engine has
\* performed, unless its packet went to the scheduler.
FreeSpent(t) ==
    /\ net[t].pc = "free"
    /\ osc.spent # <<>>
    /\ heap' = heap \ {Head(osc.spent)}
    /\ osc' = [osc EXCEPT !.spent = Tail(@)]
    /\ UNCHANGED <<netVars, driver, from, rtVars>>

FreeSpentEnd(t) ==
    /\ net[t].pc = "free"
    /\ osc.spent = <<>>
    /\ Goto(t, "write")
    /\ UNCHANGED <<sent, packet, heap, driverLock, driver, osc, from, rtVars>>

\* mOscPacketsToEngine.Write and the release of the lock.
WriteOSCPacket(t) ==
    /\ net[t].pc = "write"
    /\ IF Len(osc.pending) + Len(osc.spent) < OscSize
       THEN osc' = [osc EXCEPT !.pending = Append(@, net[t].p)] /\ Leave(t)
       ELSE osc' = osc /\ Goto(t, "refused")
    /\ driverLock' = NoOne
    /\ UNCHANGED <<sent, packet, heap, driver, from, rtVars>>

\* A refused packet is freed by the thread that received it.
DropRefusedPacket(t) ==
    /\ net[t].pc = "refused"
    /\ heap' = heap \ {net[t].p}
    /\ Leave(t)
    /\ UNCHANGED <<sent, packet, driverLock, driver, osc, from, rtVars>>
-----------------------------------------------------------------------------
(***************************************************************************)
(* The audio callback, SC_JackDriver::Run.                                 *)
(***************************************************************************)
nextTime == oscTime + Inc

\* What performing a packet does to the scheduler, once it is out of it.
Perform(p, scheduled) ==
    /\ sched' = IF packet[p].command = "clearSched" THEN <<>> ELSE scheduled
    /\ log' = Append(log, p)

\* The packets of these events that are not in the scheduler any more.
Cleared(scheduled) == {scheduled[i] : i \in DOMAIN scheduled} \ {sched'[i] : i \in DOMAIN sched'}

\* mFromEngine.Free
Run ==
    /\ rt = "idle"
    /\ driver
    /\ rt' = "osc"
    /\ from' = [from EXCEPT !.spent = 0]
    /\ UNCHANGED <<netVars, heap, driver, osc, sched, block, oscTime, log, dropped>>

\* Perform_ToEngine_Msg for a packet that PerformOSCPacket performs at once.
PerformAtOnce ==
    /\ rt = "osc"
    /\ osc.pending # <<>>
    /\ LET p == Head(osc.pending)
       IN  /\ packet[p].at = 0
           /\ Perform(p, sched)
           /\ dropped' = dropped \cup Cleared(sched)
           /\ osc' = [pending |-> Tail(osc.pending), spent |-> Append(osc.spent, p)]
    /\ UNCHANGED <<netVars, heap, driver, from, rt, block, oscTime>>

\* A slip: the FIFO's message keeps the packet given to the scheduler.
PerformScheduleKeeping ==
    /\ rt = "osc"
    /\ osc.pending # <<>>
    /\ LET p == Head(osc.pending)
       IN  /\ packet[p].at > 0
           /\ sched' = IF Len(sched) < SchedSize THEN Append(sched, p) ELSE sched
           /\ dropped' = IF Len(sched) < SchedSize THEN dropped ELSE dropped \cup {p}
           /\ osc' = [pending |-> Tail(osc.pending), spent |-> Append(osc.spent, p)]
    /\ UNCHANGED <<netVars, heap, driver, from, rt, block, oscTime, log>>

\* A slip: a bundle that comes late is dropped, and freed like a performed one.
PerformScheduleLate ==
    /\ rt = "osc"
    /\ osc.pending # <<>>
    /\ LET p == Head(osc.pending)
           late == packet[p].at <= oscTime
       IN  /\ packet[p].at > 0
           /\ sched' = IF late \/ Len(sched) >= SchedSize THEN sched ELSE Append(sched, p)
           /\ dropped' = IF late \/ Len(sched) < SchedSize THEN dropped ELSE dropped \cup {p}
           /\ osc' = [pending |-> Tail(osc.pending),
                      spent |-> Append(osc.spent, IF late THEN p ELSE None)]
    /\ UNCHANGED <<netVars, heap, driver, from, rt, block, oscTime, log>>

\* Perform_ToEngine_Msg for a timed bundle.  AddEvent passes on nothing of
\* what Add returned: the packet counts as scheduled even if there is no room.
PerformSchedule ==
    /\ rt = "osc"
    /\ osc.pending # <<>>
    /\ LET p == Head(osc.pending)
       IN  /\ packet[p].at > 0
           /\ sched' = IF Len(sched) < SchedSize THEN Append(sched, p) ELSE sched
           /\ dropped' = IF Len(sched) < SchedSize THEN dropped ELSE dropped \cup {p}
           /\ osc' = [pending |-> Tail(osc.pending), spent |-> Append(osc.spent, None)]
    /\ UNCHANGED <<netVars, heap, driver, from, rt, block, oscTime, log>>

\* The time of the callback's first block, from the DLL.
StartBlocks ==
    /\ rt = "osc"
    /\ osc.pending = <<>>
    /\ rt' = "sched"
    /\ block' = 1
    /\ oscTime' \in {time \in 0 .. Horizon : time - oscTime \in -Jitter .. Jitter}
    /\ UNCHANGED <<netVars, heap, driver, osc, from, sched, log, dropped>>

\* A slip: bundles for the end of the block have to wait.
DueBefore(i) == packet[sched[i]].at < nextTime

\* NextTime() <= nextTime
Due(i) == packet[sched[i]].at <= nextTime

\* A slip: of the events for one time, the newest goes first.
IsNextNewest(i) ==
    \A j \in DOMAIN sched :
        /\ packet[sched[i]].at <= packet[sched[j]].at
        /\ j > i => packet[sched[i]].at < packet[sched[j]].at

\* The event that Remove returns: the earliest, the first to come among those
\* for the same time.
IsNext(i) ==
    \A j \in DOMAIN sched :
        /\ packet[sched[i]].at <= packet[sched[j]].at
        /\ j < i => packet[sched[i]].at < packet[sched[j]].at

\* SC_ScheduledEvent::FreeInNRT, which ignores what SendMsgFromEngine returns.
FreeInNRT(p) ==
    /\ from' = IF Len(from.pending) + from.spent < FromSize
               THEN [from EXCEPT !.pending = Append(@, p)]
               ELSE from
    /\ UNCHANGED heap

PerformDue ==
    /\ rt = "sched"
    /\ \E i \in DOMAIN sched :
          /\ IsNext(i) /\ Due(i)
          /\ Perform(sched[i], SeqExt!RemoveAt(sched, i))
          /\ FreeInNRT(sched[i])
          /\ dropped' = dropped \cup Cleared(SeqExt!RemoveAt(sched, i))
                         \cup (IF from' = from THEN {sched[i]} ELSE {})
    /\ UNCHANGED <<netVars, driver, osc, rt, block, oscTime>>

\* World_Run, when nothing is due, and on to the next block.
World_Run ==
    /\ rt = "sched"
    /\ ~ \E i \in DOMAIN sched : IsNext(i) /\ Due(i)
    /\ rt' = IF block < Blocks THEN "sched" ELSE "idle"
    /\ block' = IF block < Blocks THEN block + 1 ELSE 0
    /\ oscTime' = IF nextTime > Horizon THEN Horizon ELSE nextTime
    /\ UNCHANGED <<netVars, heap, driver, osc, from, sched, log, dropped>>
-----------------------------------------------------------------------------
(***************************************************************************)
(* The NRT thread and the end of the driver.                               *)
(***************************************************************************)
\* mFromEngine.Perform: FreeOSCPacket.
FreeOSCPacket ==
    /\ driver
    /\ from.pending # <<>>
    /\ heap' = heap \ {Head(from.pending)}
    /\ from' = [pending |-> Tail(from.pending), spent |-> from.spent + 1]
    /\ UNCHANGED <<netVars, driver, osc, rtVars>>

\* The driver is stopped and, under the lock, deleted.
World_Cleanup ==
    /\ driver
    /\ rt = "idle"
    /\ driverLock = NoOne
    /\ driver' = FALSE
    /\ UNCHANGED <<netVars, heap, osc, from, rtVars>>
-----------------------------------------------------------------------------
Network(t) ==
    \/ ProcessOSCPacket(t) \/ FreeSpent(t) \/ FreeSpentEnd(t)
    \/ WriteOSCPacket(t) \/ DropRefusedPacket(t)

Engine == Run \/ PerformAtOnce \/ PerformSchedule \/ StartBlocks \/ PerformDue \/ World_Run

Next ==
    \/ \E t \in Thread, time \in Time \cup {0}, command \in Command :
          Receive(t, time, command)
    \/ \E t \in Thread : Network(t)
    \/ Engine \/ FreeOSCPacket \/ World_Cleanup

\* The audio callback is called again and again and each call ends; the NRT
\* thread gets round to what it has to do (module AudioSync).
Spec == Init /\ [][Next]_vars /\ WF_vars(Engine) /\ WF_vars(FreeOSCPacket)
-----------------------------------------------------------------------------
(***************************************************************************)
(* Properties.                                                             *)
(***************************************************************************)
Sent == 1 .. sent

\* The places that refer to packet p.
Places(p) ==
    UNION {{<<"net", t>> : t \in {t \in Thread : net[t].p = p}},
           {<<"pending", i>> : i \in {i \in DOMAIN osc.pending : osc.pending[i] = p}},
           {<<"spent", i>> : i \in {i \in DOMAIN osc.spent : osc.spent[i] = p}},
           {<<"sched", i>> : i \in {i \in DOMAIN sched : sched[i] = p}},
           {<<"from", i>> : i \in {i \in DOMAIN from.pending : from.pending[i] = p}}}

\* What the threads and the queues hold is what they should.
TypeOK ==
    /\ sent \in 0 .. MaxSent
    /\ packet \in [Sent -> [at : Time \cup {0}, command : Command, by : Thread]]
    /\ heap \subseteq Sent
    /\ net \in [Thread -> [pc : {"idle", "lock", "free", "write", "refused"},
                           p : Sent \cup {None}]]
    /\ driverLock \in Thread \cup {NoOne} /\ driver \in BOOLEAN
    /\ Len(osc.pending) + Len(osc.spent) \in 0 .. OscSize
    /\ Len(from.pending) + from.spent \in 0 .. FromSize
    /\ Len(sched) \in 0 .. SchedSize
    /\ rt \in {"idle", "osc", "sched"} /\ block \in 0 .. Blocks
    /\ oscTime \in 0 .. Horizon

\* Every allocated packet has one owner, from whom it will be freed, but for
\* those that AddEvent and FreeInNRT drop because a queue is full, and those
\* that ClearSched drops: "memory ownership is transferred from the caller to
\* the scheduler" with a bundle that is scheduled, and then to the NRT thread.
\* None is referred to after it was freed, by whichever thread freed it.
OneOwner == \A p \in Sent :
    /\ Cardinality(Places(p)) <= (IF p \in heap THEN 1 ELSE 0)
    /\ p \in heap \ dropped => Places(p) # {}

\* What a client sends one after the other takes effect in that order, through
\* the FIFO and the scheduler: packets to perform at once among themselves,
\* and timed bundles among themselves if their times do not say otherwise.
SendOrder ==
    \A i, j \in DOMAIN log :
        LET p == log[i]
            q == log[j]
        IN  /\ packet[p].by = packet[q].by
            /\ p < q
            /\ packet[p].at <= packet[q].at
            /\ packet[p].at = 0 <=> packet[q].at = 0
            => i < j

\* A timed bundle takes effect in the first block, of those calculated since
\* it was scheduled, that ends no earlier than the bundle's time: not before,
\* and no block is calculated while a bundle that should have taken effect in
\* it, or in an earlier one, is in the scheduler.
OnTime ==
    [][/\ \A i \in DOMAIN log' \ DOMAIN log : packet[log'[i]].at <= nextTime
       /\ (block' # block \/ oscTime' # oscTime) /\ rt = "sched" =>
              \A i \in DOMAIN sched : packet[sched[i]].at > nextTime]_vars

\* A packet that a network thread got into the FIFO is performed, however
\* late it comes, unless it is dropped.
Performed ==
    \A p \in 1 .. MaxSent :
        (\E i \in DOMAIN osc.pending : osc.pending[i] = p)
            ~> (~driver \/ p \in dropped \/ \E i \in DOMAIN log : log[i] = p)
=============================================================================
