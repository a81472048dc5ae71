-------------------------- MODULE OscEngineProofs --------------------------
(***************************************************************************)
(* The path of OSC packets for every number of threads and packets and     *)
(* every size of the queues.                                               *)
(*                                                                         *)
(* OneOwner counts the places that refer to a packet.  What is inductive   *)
(* is that no place holds a packet twice, that no two places have one in   *)
(* common (InOnePlace), and that what the places hold is what is allocated *)
(* and not dropped (Owned).                                                *)
(*                                                                         *)
(* SendOrder speaks of what was performed.  It follows from the order in   *)
(* the places before that (InTurn): a thread has sent what it holds after  *)
(* what is in the FIFO, that after what is scheduled or performed; and a   *)
(* bundle that overtook an older one in the scheduler has an earlier time. *)
(***************************************************************************)
EXTENDS OscEngine, FiniteSetTheorems, SequenceTheorems, WellFoundedInduction, TLAPS

\* The packets in a queue, and that it has none twice; None may be in it often.
Members(s) == {s[i] : i \in DOMAIN s} \ {None}
Once(s) == \A i, j \in DOMAIN s : s[i] = s[j] /\ s[i] # None => i = j

\* The packets that network threads hold.
Held == {net[t].p : t \in Thread} \ {None}

NetTyped ==
    /\ sent \in 0 .. MaxSent
    /\ packet \in [Sent -> [at : Time \cup {0}, command : Command, by : Thread]]
    /\ net \in [Thread -> [pc : {"idle", "lock", "free", "write", "refused"},
                           p : Sent \cup {None}]]
    /\ \A t \in Thread : net[t].pc = "idle" <=> net[t].p = None
QueuesTyped ==
    /\ heap \subseteq Sent /\ dropped \subseteq Sent
    /\ osc \in [pending : Seq(Sent), spent : Seq(Sent \cup {None})]
    /\ from \in [pending : Seq(Sent), spent : Nat]
    /\ sched \in Seq(Sent) /\ log \in Seq(Sent)
Room ==
    /\ Len(osc.pending) + Len(osc.spent) <= OscSize
    /\ Len(from.pending) + from.spent <= FromSize
    /\ Len(sched) <= SchedSize
RtTyped ==
    /\ driverLock \in Thread \cup {NoOne} /\ driver \in BOOLEAN
    /\ rt \in {"idle", "osc", "sched"} /\ block \in 0 .. Blocks
    /\ oscTime \in 0 .. Horizon
Typed == NetTyped /\ QueuesTyped /\ Room /\ RtTyped

InOnePlace ==
    /\ \A t, u \in Thread : net[t].p = net[u].p /\ net[t].p # None => t = u
    /\ Once(osc.pending) /\ Once(osc.spent) /\ Once(sched) /\ Once(from.pending)
    /\ Held \cap (Members(osc.pending) \cup Members(osc.spent) \cup Members(sched)
                  \cup Members(from.pending)) = {}
    /\ Members(osc.pending) \cap (Members(osc.spent) \cup Members(sched)
                                  \cup Members(from.pending)) = {}
    /\ Members(osc.spent) \cap (Members(sched) \cup Members(from.pending)) = {}
    /\ Members(sched) \cap Members(from.pending) = {}

InPlaces ==
    Held \cup Members(osc.pending) \cup Members(osc.spent) \cup Members(sched)
         \cup Members(from.pending)
Owned == InPlaces \subseteq heap /\ heap \subseteq InPlaces \cup dropped

SameThread(p, q) == packet[p].by = packet[q].by
Ascending(s, pk) == \A i, j \in DOMAIN s : i < j /\ pk[s[i]].by = pk[s[j]].by => s[i] < s[j]

\* A thread has sent what it holds after all that it got into the queues.
HeldLast ==
    \A t \in Thread : net[t].p # None =>
       /\ packet[net[t].p].by = t
       /\ \A q \in Members(osc.pending) \cup Members(sched) \cup Members(log) :
             packet[q].by = t => q < net[t].p
PendingLater ==
    \A p \in Members(osc.pending), q \in Members(sched) \cup Members(log) :
       SameThread(p, q) => q < p
SchedTimed == \A p \in Members(sched) : packet[p].at > 0
Overtaking ==
    \A p \in Members(sched), q \in Members(log) :
       SameThread(p, q) /\ packet[q].at > 0 /\ p < q => packet[q].at < packet[p].at
InTurn ==
    /\ HeldLast /\ PendingLater /\ SchedTimed /\ Overtaking
    /\ Ascending(osc.pending, packet) /\ Ascending(sched, packet)
-----------------------------------------------------------------------------
(* Queues. *)

LEMMA EmptyQueue == Members(<<>>) = {} /\ Once(<<>>)
  BY DEF Members, Once

\* A packet that is put into a queue.
LEMMA AppendOnce ==
    ASSUME NEW S, NEW s \in Seq(S), NEW x \in S
    PROVE  /\ Append(s, x) \in Seq(S) /\ Len(Append(s, x)) = Len(s) + 1
           /\ Members(Append(s, x)) = Members(s) \cup ({x} \ {None})
           /\ Once(s) /\ x \notin Members(s) => Once(Append(s, x))
  <1> DEFINE u == Append(s, x)
  <1>1. /\ u \in Seq(S) /\ Len(u) = Len(s) + 1 /\ Len(s) \in Nat
        /\ DOMAIN u = 1 .. Len(s) + 1 /\ DOMAIN s = 1 .. Len(s)
        /\ \A i \in 1 .. Len(s) : u[i] = s[i]
        /\ u[Len(s) + 1] = x
    OBVIOUS
  <1> HIDE DEF u
  <1>2. Members(u) = Members(s) \cup ({x} \ {None})
    <2>1. ASSUME NEW y \in Members(u) PROVE y \in Members(s) \cup ({x} \ {None})
      <3>1. PICK i \in DOMAIN u : y = u[i] /\ y # None
        BY DEF Members
      <3>2. CASE i = Len(s) + 1
        BY <3>1, <3>2, <1>1
      <3>3. CASE i # Len(s) + 1
        <4>1. i \in 1 .. Len(s)
          BY <3>3, <1>1
        <4>2. QED
          BY <4>1, <3>1, <1>1 DEF Members
      <3>4. QED
        BY <3>2, <3>3
    <2>2. ASSUME NEW y \in Members(s) PROVE y \in Members(u)
      <3>1. PICK i \in 1 .. Len(s) : y = s[i] /\ y # None
        BY <1>1 DEF Members
      <3>2. i \in DOMAIN u /\ u[i] = y
        BY <3>1, <1>1
      <3>3. QED
        BY <3>1, <3>2 DEF Members
    <2>3. ASSUME x # None PROVE x \in Members(u)
      <3>1. Len(s) + 1 \in DOMAIN u
        BY <1>1
      <3>2. QED
        BY <2>3, <3>1, <1>1 DEF Members
    <2>4. QED
      BY <2>1, <2>2, <2>3
  <1>3. ASSUME Once(s), x \notin Members(s) PROVE Once(u)
    <2> SUFFICES ASSUME NEW i \in DOMAIN u, NEW j \in DOMAIN u, u[i] = u[j], u[i] # None
                 PROVE  i = j
      BY DEF Once
    <2>1. \A k \in 1 .. Len(s) : s[k] # None => s[k] # x
      BY <1>1, <1>3 DEF Members
    <2>2. QED
      BY <1>1, <1>3, <2>1 DEF Once
  <1>4. QED
    BY <1>1, <1>2, <1>3 DEF u

\* A packet that is taken from the front of a queue.
LEMMA TailOnce ==
    ASSUME NEW S, NEW s \in Seq(S), s # <<>>, Once(s)
    PROVE  /\ Tail(s) \in Seq(S) /\ Len(Tail(s)) = Len(s) - 1 /\ Len(s) > 0 /\ Head(s) \in S
           /\ Once(Tail(s)) /\ Members(Tail(s)) = Members(s) \ {Head(s)}
           /\ Head(s) # None => Head(s) \in Members(s)
  <1> DEFINE u == Tail(s)
  <1>1. /\ u \in Seq(S) /\ Len(s) \in Nat /\ Len(s) > 0 /\ Len(u) = Len(s) - 1
        /\ DOMAIN u = 1 .. Len(s) - 1 /\ DOMAIN s = 1 .. Len(s)
        /\ \A i \in 1 .. Len(s) - 1 : u[i] = s[i + 1]
        /\ Head(s) = s[1] /\ s[1] \in S /\ 1 \in DOMAIN s
    OBVIOUS
  <1> HIDE DEF u
  <1>2. Once(u)
    <2> SUFFICES ASSUME NEW i \in DOMAIN u, NEW j \in DOMAIN u, u[i] = u[j], u[i] # None
                 PROVE  i = j
      BY DEF Once
    <2>1. i + 1 \in DOMAIN s /\ j + 1 \in DOMAIN s /\ s[i + 1] = s[j + 1] /\ s[i + 1] # None
      BY <1>1
    <2>2. i + 1 = j + 1
      BY <2>1 DEF Once
    <2>3. QED
      BY <2>2, <1>1
  <1>3. ASSUME NEW y \in Members(u) PROVE y \in Members(s) \ {Head(s)}
    <2>1. PICK i \in 1 .. Len(s) - 1 : y = s[i + 1] /\ y # None
      BY <1>1 DEF Members
    <2>2. i + 1 \in DOMAIN s /\ i + 1 # 1
      BY <1>1
    <2>3. QED
      BY <2>1, <2>2, <1>1 DEF Members, Once
  <1>4. ASSUME NEW y \in Members(s), y # Head(s) PROVE y \in Members(u)
    <2>1. PICK i \in 1 .. Len(s) : y = s[i] /\ y # None
      BY <1>1 DEF Members
    <2>2. i # 1
      BY <2>1, <1>1, <1>4
    <2>3. i - 1 \in DOMAIN u /\ (i - 1) + 1 = i
      BY <2>2, <1>1
    <2>4. u[i - 1] = y
      BY <2>1, <2>3, <1>1
    <2>5. QED
      BY <2>1, <2>3, <2>4 DEF Members
  <1>5. Head(s) # None => Head(s) \in Members(s)
    BY <1>1, SMTT(40) DEF Members
  <1>6. QED
    BY <1>1, <1>2, <1>3, <1>4, <1>5 DEF u

\* What RemoveAt returns.
LEMMA RemoveAtIs ==
    ASSUME NEW S, NEW s \in Seq(S), NEW i \in DOMAIN s
    PROVE  /\ SeqExt!RemoveAt(s, i) \in Seq(S)
           /\ Len(s) \in Nat /\ Len(s) >= 1 /\ DOMAIN s = 1 .. Len(s)
           /\ Len(SeqExt!RemoveAt(s, i)) = Len(s) - 1
           /\ DOMAIN SeqExt!RemoveAt(s, i) = 1 .. Len(s) - 1
           /\ \A j \in 1 .. Len(s) - 1 :
                 SeqExt!RemoveAt(s, i)[j] = IF j < i THEN s[j] ELSE s[j + 1]
  <1> DEFINE a == SubSeq(s, 1, i - 1)
             b == SubSeq(s, i + 1, Len(s))
             u == a \o b
  <1>1. SeqExt!RemoveAt(s, i) = u
    BY DEF SeqExt!RemoveAt
  <1>2. Len(s) \in Nat /\ DOMAIN s = 1 .. Len(s) /\ i \in 1 .. Len(s) /\ i \in Nat /\ Len(s) >= 1
    OBVIOUS
  <1>3. /\ a \in Seq(S) /\ Len(a) = i - 1
        /\ \A j \in 1 .. i - 1 : a[j] = s[j]
    <2>1. \A j \in 1 .. i - 1 : s[j] \in S
      BY <1>2
    <2>2. QED
      BY <1>2, <2>1
  <1>4. /\ b \in Seq(S) /\ Len(b) = Len(s) - i
        /\ \A j \in 1 .. Len(s) - i : b[j] = s[j + i]
    <2>1. \A j \in i + 1 .. Len(s) : s[j] \in S
      BY <1>2
    <2>2. QED
      BY <1>2, <2>1, SMTT(40)
  <1>5. /\ u \in Seq(S) /\ Len(u) = Len(a) + Len(b) /\ DOMAIN u = 1 .. Len(u)
        /\ \A j \in 1 .. Len(a) + Len(b) : u[j] = IF j <= Len(a) THEN a[j] ELSE b[j - Len(a)]
    <2> HIDE DEF a, b
    <2>1. /\ u \in Seq(S) /\ Len(u) = Len(a) + Len(b)
          /\ \A j \in 1 .. Len(a) + Len(b) : u[j] = IF j <= Len(a) THEN a[j] ELSE b[j - Len(a)]
      BY <1>3, <1>4, ConcatProperties, Zenon
    <2> HIDE DEF u
    <2>2. DOMAIN u = 1 .. Len(u)
      BY <2>1
    <2>3. QED
      BY <2>1, <2>2
  <1> HIDE DEF a, b, u
  <1>6. Len(u) = Len(s) - 1
    BY <1>2, <1>3, <1>4, <1>5
  <1>7. ASSUME NEW j \in 1 .. Len(s) - 1 PROVE u[j] = IF j < i THEN s[j] ELSE s[j + 1]
    <2>1. u[j] = IF j <= i - 1 THEN a[j] ELSE b[j - (i - 1)]
      BY <1>2, <1>3, <1>4, <1>5, SMTT(40)
    <2>2. CASE j < i
      <3>1. j \in 1 .. i - 1
        BY <2>2, <1>2
      <3>2. QED
        BY <2>1, <2>2, <3>1, <1>2, <1>3
    <2>3. CASE ~(j < i)
      <3>1. j - (i - 1) \in 1 .. Len(s) - i /\ (j - (i - 1)) + i = j + 1 /\ ~(j <= i - 1)
        BY <2>3, <1>2
      <3>2. QED
        BY <2>1, <2>3, <3>1, <1>4
    <2>4. QED
      BY <2>2, <2>3
  <1>8. QED
    BY <1>1, <1>2, <1>5, <1>6, <1>7

\* A packet that is taken out of the scheduler.
LEMMA RemoveOnce ==
    ASSUME NEW S, NEW s \in Seq(S), NEW i \in DOMAIN s, Once(s), None \notin S
    PROVE  /\ SeqExt!RemoveAt(s, i) \in Seq(S) /\ Len(SeqExt!RemoveAt(s, i)) = Len(s) - 1
           /\ Len(s) \in Nat /\ Len(s) >= 1
           /\ Once(SeqExt!RemoveAt(s, i)) /\ s[i] \in S
           /\ Members(SeqExt!RemoveAt(s, i)) = Members(s) \ {s[i]}
           /\ s[i] \in Members(s)
  <1> DEFINE u == SeqExt!RemoveAt(s, i)
             from_(j) == IF j < i THEN j ELSE j + 1
  <1>1. /\ u \in Seq(S) /\ Len(s) \in Nat /\ Len(s) >= 1 /\ DOMAIN s = 1 .. Len(s)
        /\ Len(u) = Len(s) - 1 /\ DOMAIN u = 1 .. Len(s) - 1
        /\ \A j \in 1 .. Len(s) - 1 : u[j] = IF j < i THEN s[j] ELSE s[j + 1]
    BY RemoveAtIs
  <1>2. i \in 1 .. Len(s) /\ s[i] \in S /\ s[i] # None
    BY <1>1
  <1> HIDE DEF u
  <1>3. ASSUME NEW j \in DOMAIN u PROVE from_(j) \in DOMAIN s /\ u[j] = s[from_(j)] /\ from_(j) # i
    BY <1>1, <1>2
  <1>4. Once(u)
    <2> SUFFICES ASSUME NEW j \in DOMAIN u, NEW k \in DOMAIN u, u[j] = u[k], u[j] # None
                 PROVE  j = k
      BY DEF Once
    <2>1. from_(j) = from_(k)
      BY <1>3 DEF Once
    <2>2. QED
      BY <2>1, <1>1, <1>2
  <1>5. ASSUME NEW y \in Members(u) PROVE y \in Members(s) \ {s[i]}
    <2>1. PICK j \in DOMAIN u : y = u[j] /\ y # None
      BY DEF Members
    <2>2. from_(j) \in DOMAIN s /\ y = s[from_(j)] /\ from_(j) # i
      BY <2>1, <1>3
    <2> HIDE DEF from_
    <2>3. QED
      BY <2>1, <2>2 DEF Members, Once
  <1>6. ASSUME NEW y \in Members(s), y # s[i] PROVE y \in Members(u)
    <2>1. PICK k \in 1 .. Len(s) : y = s[k] /\ y # None
      BY <1>1 DEF Members
    <2>2. CASE k < i
      <3>1. k \in DOMAIN u /\ u[k] = y
        BY <2>1, <2>2, <1>1, <1>2
      <3>2. QED
        BY <2>1, <3>1 DEF Members
    <2>3. CASE ~(k < i)
      <3>1. k - 1 \in DOMAIN u /\ ~(k - 1 < i) /\ (k - 1) + 1 = k
        BY <2>1, <2>3, <1>1, <1>2, <1>6
      <3>2. u[k - 1] = y
        BY <2>1, <3>1, <1>1
      <3>3. QED
        BY <2>1, <3>1, <3>2 DEF Members
    <2>4. QED
      BY <2>2, <2>3
  <1>7. s[i] \in Members(s)
    BY <1>2 DEF Members
  <1>8. QED
    BY <1>1, <1>2, <1>4, <1>5, <1>6, <1>7 DEF u
-----------------------------------------------------------------------------
(* Types. *)

LEMMA Sizes ==
    /\ MaxSent \in Nat /\ OscSize \in Nat /\ FromSize \in Nat /\ SchedSize \in Nat
    /\ Blocks \in Nat /\ Inc \in Nat /\ Horizon \in Nat /\ Jitter \in Nat
    /\ Blocks >= 1
    /\ \A time \in Time \cup {0} : time \in Nat
  BY EngineAssumption

LEMMA SeqOfMore ==
    ASSUME NEW S, NEW T, S \subseteq T, NEW s \in Seq(S)
    PROVE  s \in Seq(T)
  <1>1. Len(s) \in Nat /\ s = [i \in 1 .. Len(s) |-> s[i]] /\ \A i \in 1 .. Len(s) : s[i] \in T
    OBVIOUS
  <1>2. QED
    BY <1>1

\* The fields of the queues.
LEMMA Fields ==
    ASSUME QueuesTyped
    PROVE  /\ osc.pending \in Seq(Sent) /\ osc.spent \in Seq(Sent \cup {None})
           /\ from.pending \in Seq(Sent) /\ from.spent \in Nat
           /\ sched \in Seq(Sent) /\ log \in Seq(Sent)
           /\ Len(osc.pending) \in Nat /\ Len(osc.spent) \in Nat
           /\ Len(from.pending) \in Nat /\ Len(sched) \in Nat
  <1>1. /\ osc.pending \in Seq(Sent) /\ osc.spent \in Seq(Sent \cup {None})
        /\ from.pending \in Seq(Sent) /\ from.spent \in Nat
        /\ sched \in Seq(Sent) /\ log \in Seq(Sent)
    BY DEF QueuesTyped
  <1>2. QED
    BY <1>1

\* What a network thread does keeps the types.
LEMMA NetworkTyped ==
    ASSUME Typed, NEW t \in Thread, Network(t)
    PROVE  Typed'
  <1> USE DEF Goto, Leave, netVars, rtVars
  <1>1. CASE ProcessOSCPacket(t)
    <2>1. NetTyped'
      BY <1>1, SMTT(40) DEF ProcessOSCPacket, Typed, NetTyped, Sent
    <2>2. QueuesTyped' /\ Room'
      BY <1>1 DEF ProcessOSCPacket, Typed, QueuesTyped, Room, Sent
    <2>3. RtTyped'
      BY <1>1 DEF ProcessOSCPacket, Typed, RtTyped
    <2>4. QED
      BY <2>1, <2>2, <2>3 DEF Typed
  <1>2. CASE FreeSpent(t)
    <2>1. NetTyped' /\ RtTyped'
      BY <1>2 DEF FreeSpent, Typed, NetTyped, RtTyped, Sent
    <2>2. /\ Tail(osc.spent) \in Seq(Sent \cup {None}) /\ Len(Tail(osc.spent)) = Len(osc.spent) - 1
          /\ osc' = [osc EXCEPT !.spent = Tail(@)]
      BY <1>2, Fields DEF FreeSpent, Typed
    <2>3. osc' \in [pending : Seq(Sent), spent : Seq(Sent \cup {None})]
          /\ osc'.spent = Tail(osc.spent) /\ osc'.pending = osc.pending
      BY <2>2, Fields DEF Typed, QueuesTyped
    <2>4. QueuesTyped'
      BY <1>2, <2>3 DEF FreeSpent, Typed, QueuesTyped, Sent
    <2>5. Room'
      BY <1>2, <2>2, <2>3, Fields, Sizes, SMTT(40) DEF FreeSpent, Typed, Room
    <2>6. QED
      BY <2>1, <2>4, <2>5 DEF Typed
  <1>3. CASE FreeSpentEnd(t)
    <2>1. NetTyped'
      BY <1>3 DEF FreeSpentEnd, Typed, NetTyped, Sent
    <2>2. QueuesTyped' /\ Room' /\ RtTyped'
      BY <1>3 DEF FreeSpentEnd, Typed, QueuesTyped, Room, RtTyped, Sent
    <2>3. QED
      BY <2>1, <2>2 DEF Typed
  <1>4. CASE WriteOSCPacket(t)
    <2>1. net[t].p \in Sent
      BY <1>4 DEF WriteOSCPacket, Typed, NetTyped
    <2>2. NetTyped' /\ RtTyped'
      <3>1. NetTyped'
        <4>1. UNCHANGED <<sent, packet>> /\ (Leave(t) \/ Goto(t, "refused"))
          BY <1>4 DEF WriteOSCPacket
        <4>2. net[t].pc = "write" /\ net[t].p # None
          BY <1>4 DEF WriteOSCPacket, Typed, NetTyped
        <4>3. CASE Leave(t)
          BY <4>1, <4>3 DEF Typed, NetTyped, Sent
        <4>4. CASE Goto(t, "refused")
          BY <4>1, <4>2, <4>4 DEF Typed, NetTyped, Sent
        <4>5. QED
          BY <4>1, <4>3, <4>4
      <3>2. RtTyped'
        BY <1>4 DEF WriteOSCPacket, Typed, RtTyped
      <3>3. QED
        BY <3>1, <3>2
    <2>3. CASE Len(osc.pending) + Len(osc.spent) < OscSize
      <3>1. /\ Append(osc.pending, net[t].p) \in Seq(Sent)
            /\ Len(Append(osc.pending, net[t].p)) = Len(osc.pending) + 1
            /\ osc' = [osc EXCEPT !.pending = Append(@, net[t].p)]
        BY <1>4, <2>1, <2>3, Fields DEF WriteOSCPacket, Typed
      <3>2. osc' \in [pending : Seq(Sent), spent : Seq(Sent \cup {None})]
            /\ osc'.spent = osc.spent /\ osc'.pending = Append(osc.pending, net[t].p)
        BY <3>1, Fields DEF Typed, QueuesTyped
      <3>3. QueuesTyped'
        BY <1>4, <3>2 DEF WriteOSCPacket, Typed, QueuesTyped, Sent
      <3>4. Room'
        BY <1>4, <2>3, <3>1, <3>2, Fields, Sizes, SMTT(40) DEF WriteOSCPacket, Typed, Room
      <3>5. QED
        BY <2>2, <3>3, <3>4 DEF Typed
    <2>4. CASE ~(Len(osc.pending) + Len(osc.spent) < OscSize)
      BY <1>4, <2>2, <2>4 DEF WriteOSCPacket, Typed, QueuesTyped, Room, Sent
    <2>5. QED
      BY <2>3, <2>4
  <1>5. CASE DropRefusedPacket(t)
    <2>1. NetTyped'
      BY <1>5 DEF DropRefusedPacket, Typed, NetTyped, Sent
    <2>2. QueuesTyped' /\ Room' /\ RtTyped'
      BY <1>5 DEF DropRefusedPacket, Typed, QueuesTyped, Room, RtTyped, Sent
    <2>3. QED
      BY <2>1, <2>2 DEF Typed
  <1>6. QED
    BY <1>1, <1>2, <1>3, <1>4, <1>5 DEF Network

\* A packet is received.
LEMMA ReceiveTyped ==
    ASSUME Typed, NEW t \in Thread, NEW time \in Time \cup {0}, NEW command \in Command,
           Receive(t, time, command)
    PROVE  /\ Typed'
           /\ sent' = sent + 1 /\ sent \in Nat /\ Sent' = Sent \cup {sent'} /\ sent' \notin Sent
           /\ sent' # None
           /\ packet'[sent'] = [at |-> time, command |-> command, by |-> t]
           /\ \A p \in Sent : packet'[p] = packet[p]
  <1>1. sent' = sent + 1 /\ sent \in Nat /\ sent' \in 0 .. MaxSent /\ sent + 1 \in Nat
    BY Sizes DEF Receive, Typed, NetTyped
  <1>2. Sent \subseteq Sent' /\ Sent' = Sent \cup {sent'} /\ sent' \notin Sent /\ sent' # None
    BY <1>1 DEF Sent, None
  <1>3. LET R == [at : Time \cup {0}, command : Command, by : Thread]
            new == [at |-> time, command |-> command, by |-> t]
        IN  packet' \in [Sent' -> R] /\ packet'[sent'] = new /\ \A p \in Sent : packet'[p] = packet[p]
    <2> DEFINE R == [at : Time \cup {0}, command : Command, by : Thread]
               new == [at |-> time, command |-> command, by |-> t]
    <2>1. new \in R
      OBVIOUS
    <2>2. packet \in [1 .. sent -> R] /\ packet' = Append(packet, new)
      BY DEF Receive, Typed, NetTyped, Sent
    <2> HIDE DEF R, new
    <2>3. packet \in Seq(R) /\ Len(packet) = sent
      BY <2>2, <1>1
    <2>4. /\ packet' \in Seq(R) /\ Len(packet') = sent + 1 /\ packet'[sent + 1] = new
          /\ \A p \in 1 .. sent : packet'[p] = packet[p]
      BY <2>1, <2>2, <2>3
    <2>5. packet' \in [1 .. sent + 1 -> R]
      BY <2>4
    <2>6. QED
      BY <1>1, <2>4, <2>5 DEF Sent, R, new
  <1>4. QueuesTyped'
    <2>1. /\ osc' = osc /\ from' = from /\ sched' = sched /\ log' = log
          /\ osc = [pending |-> osc.pending, spent |-> osc.spent]
          /\ from = [pending |-> from.pending, spent |-> from.spent]
      BY DEF Receive, Typed, QueuesTyped, rtVars
    <2>2. /\ osc.pending \in Seq(Sent') /\ from.pending \in Seq(Sent')
          /\ sched \in Seq(Sent') /\ log \in Seq(Sent')
      BY <1>2, Fields, SeqOfMore DEF Typed
    <2>3. osc.spent \in Seq(Sent' \cup {None})
      <3>1. Sent \cup {None} \subseteq Sent' \cup {None}
        BY <1>2
      <3>2. QED
        BY <3>1, Fields, SeqOfMore DEF Typed
    <2>4. osc' \in [pending : Seq(Sent'), spent : Seq(Sent' \cup {None})]
      BY <2>1, <2>2, <2>3
    <2>5. from' \in [pending : Seq(Sent'), spent : Nat]
      BY <2>1, <2>2, Fields DEF Typed
    <2>6. heap' \subseteq Sent' /\ dropped' \subseteq Sent'
      BY <1>2 DEF Receive, Typed, QueuesTyped, rtVars
    <2>7. QED
      BY <2>1, <2>2, <2>4, <2>5, <2>6 DEF QueuesTyped
  <1>5. /\ net' \in [Thread -> [pc : {"idle", "lock", "free", "write", "refused"},
                                p : Sent' \cup {None}]]
        /\ \A u \in Thread : net'[u].pc = "idle" <=> net'[u].p = None
    <2>1. sent' \in Sent' /\ net' = [net EXCEPT ![t] = [pc |-> "lock", p |-> sent']]
      BY <1>2 DEF Receive
    <2>2. QED
      BY <2>1, <1>2 DEF Typed, NetTyped
  <1>6. NetTyped'
    BY <1>1, <1>3, <1>5 DEF NetTyped
  <1>7. Room' /\ RtTyped'
    BY DEF Receive, Typed, Room, RtTyped, rtVars
  <1>8. QED
    BY <1>1, <1>2, <1>3, <1>4, <1>6, <1>7 DEF Typed

\* What performing a packet leaves of the scheduler.
LEMMA PerformLeaves ==
    ASSUME NEW S, NEW p, NEW s \in Seq(S), Perform(p, s)
    PROVE  sched' \in Seq(S) /\ (sched' = s \/ sched' = <<>>) /\ log' = Append(log, p)
  BY DEF Perform

\* What the audio callback does keeps the types.
LEMMA EngineTyped ==
    ASSUME Typed, Engine
    PROVE  Typed'
  <1> USE DEF netVars, rtVars
  <1>0. /\ osc.pending \in Seq(Sent) /\ osc.spent \in Seq(Sent \cup {None})
        /\ from.pending \in Seq(Sent) /\ from.spent \in Nat
        /\ sched \in Seq(Sent) /\ log \in Seq(Sent)
        /\ Len(osc.pending) \in Nat /\ Len(osc.spent) \in Nat
        /\ Len(from.pending) \in Nat /\ Len(sched) \in Nat
    BY Fields DEF Typed
  <1>1. CASE Run
    <2>1. NetTyped' /\ RtTyped'
      BY <1>1 DEF Run, Typed, NetTyped, RtTyped, Sent
    <2>2. from' \in [pending : Seq(Sent), spent : Nat] /\ from'.pending = from.pending /\ from'.spent = 0
      BY <1>1, Fields DEF Run, Typed, QueuesTyped
    <2>3. QueuesTyped'
      BY <1>1, <2>2 DEF Run, Typed, QueuesTyped, Sent
    <2>4. Room'
      <3>1. Len(from.pending) + from.spent <= FromSize
        BY DEF Typed, Room
      <3>2. Len(from'.pending) + from'.spent <= FromSize
        BY <1>0, <2>2, <3>1, Sizes
      <3>3. QED
        BY <1>1, <3>2 DEF Run, Typed, Room
    <2>5. QED
      BY <2>1, <2>3, <2>4 DEF Typed
  <1>2. CASE PerformAtOnce \/ PerformSchedule
    <2> DEFINE p == Head(osc.pending)
    <2>1. p \in Sent /\ Tail(osc.pending) \in Seq(Sent) /\ Len(Tail(osc.pending)) = Len(osc.pending) - 1
      BY <1>2, Fields DEF PerformAtOnce, PerformSchedule, Typed
    <2>2. PICK q \in Sent \cup {None} :
              osc' = [pending |-> Tail(osc.pending), spent |-> Append(osc.spent, q)]
      BY <1>2, <2>1 DEF PerformAtOnce, PerformSchedule
    <2>3. /\ Append(osc.spent, q) \in Seq(Sent \cup {None})
          /\ Len(Append(osc.spent, q)) = Len(osc.spent) + 1
      BY Fields DEF Typed
    <2>4. /\ osc' \in [pending : Seq(Sent), spent : Seq(Sent \cup {None})]
          /\ osc'.pending = Tail(osc.pending) /\ osc'.spent = Append(osc.spent, q)
      BY <2>1, <2>2, <2>3
    <2> HIDE DEF p
    <2>5. /\ sched' \in Seq(Sent) /\ Len(sched') <= SchedSize
          /\ log' \in Seq(Sent) /\ dropped' \subseteq Sent
      <3>1. CASE PerformAtOnce
        <4>1. Perform(p, sched) /\ dropped' = dropped \cup Cleared(sched)
          BY <3>1 DEF PerformAtOnce, p
        <4>2. sched' \in Seq(Sent) /\ (sched' = sched \/ sched' = <<>>) /\ log' = Append(log, p)
          BY <4>1, Fields, PerformLeaves DEF Typed
        <4>3. Len(sched') <= SchedSize
          BY <4>2, Sizes DEF Typed, Room
        <4>4. Cleared(sched) \subseteq Sent
          BY Fields DEF Cleared, Typed
        <4>5. log' \in Seq(Sent)
          BY <4>2, <2>1, Fields DEF Typed
        <4>6. QED
          BY <4>1, <4>2, <4>3, <4>4, <4>5 DEF Typed, QueuesTyped
      <3>2. CASE PerformSchedule
        <4>1. /\ log' = log
              /\ \/ Len(sched) < SchedSize /\ sched' = Append(sched, p) /\ dropped' = dropped
                 \/ sched' = sched /\ dropped' = dropped \cup {p}
          BY <3>2 DEF PerformSchedule, p
        <4>2. Append(sched, p) \in Seq(Sent) /\ Len(Append(sched, p)) = Len(sched) + 1
          BY <2>1, Fields DEF Typed
        <4>3. Len(sched') <= SchedSize
          BY <4>1, <4>2, <1>0, Sizes DEF Typed, Room
        <4>4. QED
          BY <4>1, <4>2, <4>3, <2>1, <1>0 DEF Typed, QueuesTyped
      <3>3. QED
        BY <1>2, <3>1, <3>2
    <2>6. UNCHANGED <<sent, packet, net, driverLock, heap, driver, from, rt, block, oscTime>>
      BY <1>2 DEF PerformAtOnce, PerformSchedule
    <2>7. NetTyped' /\ RtTyped'
      BY <2>6 DEF Typed, NetTyped, RtTyped, Sent
    <2>8. QueuesTyped'
      BY <2>4, <2>5, <2>6 DEF Typed, QueuesTyped, Sent
    <2>9. Room'
      <3>1. Len(osc'.pending) + Len(osc'.spent) <= OscSize
        <4>1. Len(osc'.pending) = Len(osc.pending) - 1 /\ Len(osc'.spent) = Len(osc.spent) + 1
          BY <2>1, <2>3, <2>4
        <4>2. Len(osc.pending) + Len(osc.spent) <= OscSize
          BY DEF Typed, Room
        <4>3. Len(osc.pending) \in Nat /\ Len(osc.spent) \in Nat /\ OscSize \in Nat
          BY <1>0, Sizes
        <4>4. \A m, n, k \in Nat : m + n <= k => (m - 1) + (n + 1) <= k
          OBVIOUS
        <4>5. (Len(osc.pending) - 1) + (Len(osc.spent) + 1) <= OscSize
          BY <4>2, <4>3, <4>4
        <4>6. QED
          BY <4>1, <4>5
      <3>2. QED
        BY <2>5, <2>6, <3>1 DEF Typed, Room
    <2>10. QED
      BY <2>7, <2>8, <2>9 DEF Typed
  <1>3. CASE StartBlocks
    <2>1. NetTyped' /\ QueuesTyped' /\ Room'
      BY <1>3 DEF StartBlocks, Typed, NetTyped, QueuesTyped, Room, Sent
    <2>2. RtTyped'
      BY <1>3, Sizes DEF StartBlocks, Typed, RtTyped
    <2>3. QED
      BY <2>1, <2>2 DEF Typed
  <1>4. CASE PerformDue
    <2>1. PICK i \in DOMAIN sched :
              /\ Perform(sched[i], SeqExt!RemoveAt(sched, i))
              /\ FreeInNRT(sched[i])
              /\ dropped' = dropped \cup Cleared(SeqExt!RemoveAt(sched, i))
                              \cup (IF from' = from THEN {sched[i]} ELSE {})
      BY <1>4 DEF PerformDue
    <2>2. sched[i] \in Sent
      BY Fields DEF Typed
    <2>3. /\ SeqExt!RemoveAt(sched, i) \in Seq(Sent)
          /\ Len(SeqExt!RemoveAt(sched, i)) = Len(sched) - 1
      BY Fields, RemoveAtIs DEF Typed
    <2>4. /\ sched' \in Seq(Sent) /\ (sched' = SeqExt!RemoveAt(sched, i) \/ sched' = <<>>)
          /\ log' = Append(log, sched[i])
      BY <2>1, <2>3, PerformLeaves
    <2>5. log' \in Seq(Sent)
      BY <2>2, <2>4, Fields DEF Typed
    <2>6. Cleared(SeqExt!RemoveAt(sched, i)) \subseteq Sent
      <3>1. \A j \in DOMAIN SeqExt!RemoveAt(sched, i) : SeqExt!RemoveAt(sched, i)[j] \in Sent
        BY <2>3
      <3>2. QED
        BY <3>1 DEF Cleared
    <2>7. dropped' \subseteq Sent
      BY <2>1, <2>2, <2>6 DEF Typed, QueuesTyped
    <2>8. /\ from' \in [pending : Seq(Sent), spent : Nat]
          /\ Len(from'.pending) + from'.spent <= FromSize
      <3>1. CASE from' = from
        BY <3>1 DEF Typed, QueuesTyped, Room
      <3>2. CASE /\ Len(from.pending) + from.spent < FromSize
                 /\ from' = [from EXCEPT !.pending = Append(@, sched[i])]
        <4>1. /\ Append(from.pending, sched[i]) \in Seq(Sent)
              /\ Len(Append(from.pending, sched[i])) = Len(from.pending) + 1
          BY <2>2, Fields DEF Typed
        <4>2. /\ from' \in [pending : Seq(Sent), spent : Nat] /\ from'.spent = from.spent
              /\ from'.pending = Append(from.pending, sched[i])
          BY <3>2, <4>1, Fields DEF Typed, QueuesTyped
        <4>3. QED
          BY <3>2, <4>1, <4>2, Fields, Sizes, SMTT(40) DEF Typed
      <3>3. QED
        BY <2>1, <3>1, <3>2 DEF FreeInNRT
    <2>9. UNCHANGED <<sent, packet, net, driverLock, heap, driver, osc, rt, block, oscTime>>
      BY <1>4 DEF PerformDue, FreeInNRT
    <2>10. NetTyped' /\ RtTyped'
      BY <2>9 DEF Typed, NetTyped, RtTyped, Sent
    <2>11. QueuesTyped'
      BY <2>4, <2>5, <2>7, <2>8, <2>9 DEF Typed, QueuesTyped, Sent
    <2>12. Len(sched') <= SchedSize
      BY <2>3, <2>4, Fields, Sizes DEF Typed, Room
    <2>13. Room'
      BY <2>8, <2>9, <2>12 DEF Typed, Room
    <2>14. QED
      BY <2>10, <2>11, <2>13 DEF Typed
  <1>5. CASE World_Run
    <2>1. NetTyped' /\ QueuesTyped' /\ Room'
      BY <1>5 DEF World_Run, Typed, NetTyped, QueuesTyped, Room, Sent
    <2>2. RtTyped'
      BY <1>5, Sizes DEF World_Run, nextTime, Typed, RtTyped
    <2>3. QED
      BY <2>1, <2>2 DEF Typed
  <1>6. QED
    BY <1>1, <1>2, <1>3, <1>4, <1>5 DEF Engine

\* The NRT thread frees a packet.
LEMMA FreeTyped ==
    ASSUME Typed, FreeOSCPacket
    PROVE  Typed'
  <1>1. UNCHANGED <<sent, packet, net, driverLock, driver, osc, sched, rt, block, oscTime, log, dropped>>
    BY DEF FreeOSCPacket, netVars, rtVars
  <1>2. /\ Tail(from.pending) \in Seq(Sent) /\ Len(Tail(from.pending)) = Len(from.pending) - 1
        /\ from' = [pending |-> Tail(from.pending), spent |-> from.spent + 1]
        /\ from.spent + 1 \in Nat
    BY Fields DEF FreeOSCPacket, Typed
  <1>3. from' \in [pending : Seq(Sent), spent : Nat]
    BY <1>2
  <1>4. Len(from'.pending) + from'.spent <= FromSize
    <2>1. Len(from.pending) \in Nat /\ from.spent \in Nat /\ FromSize \in Nat
      BY Fields, Sizes DEF Typed
    <2>2. Len(from.pending) + from.spent <= FromSize
      BY DEF Typed, Room
    <2>3. (Len(from.pending) - 1) + (from.spent + 1) <= FromSize
      BY <2>1, <2>2
    <2>4. Len(from'.pending) = Len(from.pending) - 1 /\ from'.spent = from.spent + 1
      BY <1>2
    <2>5. QED
      BY <2>3, <2>4
  <1>5. NetTyped' /\ RtTyped'
    BY <1>1 DEF Typed, NetTyped, RtTyped, Sent
  <1>6. heap' \subseteq Sent
    BY DEF FreeOSCPacket, Typed, QueuesTyped
  <1>7. QueuesTyped' /\ Room'
    BY <1>1, <1>3, <1>4, <1>6 DEF Typed, QueuesTyped, Room, Sent
  <1>8. QED
    BY <1>5, <1>7 DEF Typed

LEMMA TypedInit == Init => Typed
  <1> SUFFICES ASSUME Init PROVE Typed
    OBVIOUS
  <1>1. sent = 0 /\ Sent = {}
    BY DEF Init, Sent
  <1>2. packet \in [Sent -> [at : Time \cup {0}, command : Command, by : Thread]]
    BY <1>1 DEF Init
  <1>3. NetTyped
    BY <1>1, <1>2, Sizes DEF Init, NetTyped
  <1>4. QueuesTyped
    BY DEF Init, QueuesTyped
  <1>5. Room /\ RtTyped
    BY Sizes DEF Init, Room, RtTyped
  <1>6. QED
    BY <1>3, <1>4, <1>5 DEF Typed

LEMMA TypedStep == Typed /\ [Next]_vars => Typed'
  <1> SUFFICES ASSUME Typed, [Next]_vars PROVE Typed'
    OBVIOUS
  <1>1. CASE UNCHANGED <<sent, packet, heap, net, osc, from, sched, log, dropped>> /\ RtTyped'
    BY <1>1 DEF Typed, NetTyped, QueuesTyped, Room, Sent
  <1>2. CASE World_Cleanup
    <2>1. RtTyped'
      BY <1>2 DEF World_Cleanup, Typed, RtTyped, netVars, rtVars
    <2>2. QED
      BY <1>1, <1>2, <2>1 DEF World_Cleanup, netVars, rtVars
  <1>3. CASE UNCHANGED vars
    <2>1. RtTyped'
      BY <1>3 DEF vars, Typed, RtTyped
    <2>2. QED
      BY <1>1, <1>3, <2>1 DEF vars
  <1>4. CASE \E t \in Thread, time \in Time \cup {0}, command \in Command : Receive(t, time, command)
    BY <1>4, ReceiveTyped
  <1>5. CASE \E t \in Thread : Network(t)
    BY <1>5, NetworkTyped
  <1>6. QED
    BY <1>2, <1>3, <1>4, <1>5, EngineTyped, FreeTyped DEF Next

LEMMA AllTyped == Spec => []Typed
  BY TypedInit, TypedStep, PTL DEF Spec

\* What the threads and the queues hold is what they should, and no queue
\* holds more than it has room for.
THEOREM TypeCorrect == Spec => []TypeOK
  <1>1. Typed => TypeOK
    <2> SUFFICES ASSUME Typed PROVE TypeOK
      OBVIOUS
    <2>1. /\ Len(osc.pending) \in Nat /\ Len(osc.spent) \in Nat
          /\ Len(from.pending) \in Nat /\ Len(sched) \in Nat /\ from.spent \in Nat
      BY Fields DEF Typed
    <2>2. /\ Len(osc.pending) + Len(osc.spent) \in 0 .. OscSize
          /\ Len(from.pending) + from.spent \in 0 .. FromSize
          /\ Len(sched) \in 0 .. SchedSize
      <3>1. \A m, n, k \in Nat : m + n <= k => m + n \in 0 .. k
        OBVIOUS
      <3>2. /\ Len(osc.pending) + Len(osc.spent) <= OscSize
            /\ Len(from.pending) + from.spent <= FromSize
            /\ Len(sched) <= SchedSize
        BY DEF Typed, Room
      <3>3. Len(osc.pending) + Len(osc.spent) \in 0 .. OscSize
        BY <2>1, <3>1, <3>2, Sizes
      <3>4. Len(from.pending) + from.spent \in 0 .. FromSize
        BY <2>1, <3>1, <3>2, Sizes
      <3>5. Len(sched) \in 0 .. SchedSize
        BY <2>1, <3>2, Sizes
      <3>6. QED
        BY <3>3, <3>4, <3>5
    <2>3. QED
      BY <2>2 DEF Typed, NetTyped, QueuesTyped, RtTyped, TypeOK
  <1>2. QED
    BY <1>1, AllTyped, PTL
-----------------------------------------------------------------------------
(* Owners. *)

\* The threads hold different packets, and what one of them gives away or
\* takes is held or not held afterwards.
NetOnce == \A t, u \in Thread : net[t].p = net[u].p /\ net[t].p # None => t = u

LEMMA HeldChanges ==
    ASSUME NetTyped, NetOnce, NEW t \in Thread
    PROVE  /\ \A pc : Goto(t, pc) => Held' = Held /\ NetOnce'
           /\ Leave(t) => Held' = Held \ {net[t].p} /\ NetOnce'
           /\ \A p : /\ net' = [net EXCEPT ![t] = [pc |-> "lock", p |-> p]]
                     /\ net[t].p = None /\ p \notin Held /\ p # None
                     => Held' = Held \cup {p} /\ NetOnce'
           /\ net[t].p # None => net[t].p \in Held
  <1>1. net \in [Thread -> [pc : {"idle", "lock", "free", "write", "refused"},
                            p : Sent \cup {None}]]
    BY DEF NetTyped
  <1>2. ASSUME NEW pc, Goto(t, pc) PROVE Held' = Held /\ NetOnce'
    <2>1. \A u \in Thread : net'[u].p = net[u].p
      BY <1>1, <1>2 DEF Goto
    <2>2. QED
      BY <2>1 DEF Held, NetOnce
  <1>3. ASSUME Leave(t) PROVE Held' = Held \ {net[t].p} /\ NetOnce'
    <2>1. \A u \in Thread : net'[u].p = IF u = t THEN None ELSE net[u].p
      BY <1>1, <1>3 DEF Leave
    <2>2. QED
      BY <2>1 DEF Held, NetOnce
  <1>4. ASSUME NEW p, net' = [net EXCEPT ![t] = [pc |-> "lock", p |-> p]],
               net[t].p = None, p \notin Held, p # None
        PROVE  Held' = Held \cup {p} /\ NetOnce'
    <2>1. \A u \in Thread : net'[u].p = IF u = t THEN p ELSE net[u].p
      BY <1>1, <1>4
    <2>2. QED
      BY <2>1, <1>4 DEF Held, NetOnce
  <1>5. net[t].p # None => net[t].p \in Held
    BY DEF Held
  <1>6. QED
    BY <1>2, <1>3, <1>4, <1>5

\* What a network thread does keeps packets with one owner.
LEMMA NetworkPlaces ==
    ASSUME Typed, InOnePlace, Owned, NEW t \in Thread, Network(t)
    PROVE  InOnePlace' /\ Owned'
  <1> USE DEF netVars, rtVars
  <1>0. /\ osc.pending \in Seq(Sent) /\ osc.spent \in Seq(Sent \cup {None})
        /\ NetTyped /\ NetOnce /\ Once(osc.pending) /\ Once(osc.spent)
    BY Fields DEF Typed, InOnePlace, NetOnce
  <1>1. CASE ProcessOSCPacket(t) \/ FreeSpentEnd(t)
    <2>1. Held' = Held /\ NetOnce'
      BY <1>0, <1>1, HeldChanges DEF ProcessOSCPacket, FreeSpentEnd
    <2>2. UNCHANGED <<osc, from, sched, heap, dropped>>
      BY <1>1 DEF ProcessOSCPacket, FreeSpentEnd
    <2>3. QED
      BY <2>1, <2>2, SMTT(40) DEF InOnePlace, Owned, InPlaces, NetOnce, Members, Once
  <1>2. CASE FreeSpent(t)
    <2> DEFINE p == Head(osc.spent)
    <2>1. osc.spent # <<>> /\ osc' = [osc EXCEPT !.spent = Tail(@)] /\ heap' = heap \ {p}
      BY <1>2 DEF FreeSpent
    <2>2. osc'.pending = osc.pending /\ osc'.spent = Tail(osc.spent)
      BY <2>1 DEF Typed, QueuesTyped
    <2>3. Once(osc'.spent) /\ Members(osc'.spent) = Members(osc.spent) \ {p}
      BY <1>0, <2>1, <2>2, TailOnce
    <2>4. p # None => p \in Members(osc.spent)
      BY <1>0, <2>1, TailOnce
    <2>5. UNCHANGED <<net, from, sched, dropped>>
      BY <1>2 DEF FreeSpent
    <2>6. Held' = Held /\ NetOnce' /\ Members(osc'.pending) = Members(osc.pending)
      BY <1>0, <2>2, <2>5 DEF Held, NetOnce
    <2>7. None \notin InPlaces
      BY DEF InPlaces, Held, Members
    <2> HIDE DEF p
    <2>8. InOnePlace'
      BY <2>2, <2>3, <2>5, <2>6 DEF InOnePlace, NetOnce
    <2>9. Owned'
      BY <2>1, <2>3, <2>4, <2>5, <2>6, <2>7 DEF InOnePlace, Owned, InPlaces
    <2>10. QED
      BY <2>8, <2>9
  <1>3. CASE WriteOSCPacket(t)
    <2> DEFINE p == net[t].p
    <2>1. p # None /\ p \in Held /\ p \in Sent
      BY <1>0, <1>3, HeldChanges DEF WriteOSCPacket, NetTyped
    <2>2. UNCHANGED <<from, sched, heap, dropped>>
      BY <1>3 DEF WriteOSCPacket
    <2>3. CASE osc' = osc /\ Goto(t, "refused")
      <3>1. Held' = Held /\ NetOnce'
        BY <1>0, <2>3, HeldChanges
      <3>2. QED
        BY <2>2, <2>3, <3>1 DEF InOnePlace, Owned, InPlaces, NetOnce
    <2>4. CASE osc' = [osc EXCEPT !.pending = Append(@, p)] /\ Leave(t)
      <3>1. Held' = Held \ {p} /\ NetOnce'
        BY <1>0, <2>4, HeldChanges
      <3>2. osc'.pending = Append(osc.pending, p) /\ osc'.spent = osc.spent
        BY <2>4 DEF Typed, QueuesTyped
      <3>3. p \notin Members(osc.pending)
        BY <2>1 DEF InOnePlace
      <3> HIDE DEF p
      <3>4. Once(osc'.pending) /\ Members(osc'.pending) = Members(osc.pending) \cup {p}
        BY <1>0, <2>1, <3>2, <3>3, AppendOnce
      <3>5. InOnePlace'
        BY <2>1, <2>2, <3>1, <3>2, <3>4 DEF InOnePlace, NetOnce
      <3>6. Owned'
        BY <2>1, <2>2, <3>1, <3>2, <3>4 DEF Owned, InPlaces
      <3>7. QED
        BY <3>5, <3>6
    <2>5. QED
      BY <1>3, <2>3, <2>4 DEF WriteOSCPacket
  <1>4. CASE DropRefusedPacket(t)
    <2> DEFINE p == net[t].p
    <2>1. p # None /\ p \in Held
      BY <1>0, <1>4, HeldChanges DEF DropRefusedPacket, NetTyped
    <2>2. UNCHANGED <<osc, from, sched, dropped>> /\ heap' = heap \ {p} /\ Leave(t)
      BY <1>4 DEF DropRefusedPacket
    <2>3. Held' = Held \ {p} /\ NetOnce'
      BY <1>0, <2>2, HeldChanges
    <2> HIDE DEF p
    <2>4. InOnePlace'
      BY <2>1, <2>2, <2>3 DEF InOnePlace, NetOnce
    <2>5. Owned'
      BY <2>1, <2>2, <2>3 DEF InOnePlace, Owned, InPlaces
    <2>6. QED
      BY <2>4, <2>5
  <1>5. QED
    BY <1>1, <1>2, <1>3, <1>4 DEF Network

\* A packet that is received is held by the thread that received it.
LEMMA ReceivePlaces ==
    ASSUME Typed, InOnePlace, Owned, NEW t \in Thread, NEW time \in Time \cup {0},
           NEW command \in Command, Receive(t, time, command)
    PROVE  InOnePlace' /\ Owned'
  <1> DEFINE p == sent'
  <1>1. p \notin Sent /\ p # None
    BY ReceiveTyped
  <1>2. /\ UNCHANGED <<osc, from, sched, dropped>> /\ heap' = heap \cup {p}
        /\ net' = [net EXCEPT ![t] = [pc |-> "lock", p |-> p]] /\ net[t].pc = "idle"
    BY DEF Receive, rtVars
  <1>3. NetTyped /\ NetOnce /\ net[t].p = None
    BY <1>2 DEF Typed, InOnePlace, NetOnce, NetTyped
  <1>4. p \notin heap /\ p \notin InPlaces /\ p \notin Held
    BY <1>1 DEF Typed, QueuesTyped, Owned, InPlaces
  <1> HIDE DEF p
  <1>5. Held' = Held \cup {p} /\ NetOnce'
    BY <1>1, <1>2, <1>3, <1>4, HeldChanges
  <1>6. InOnePlace'
    BY <1>2, <1>4, <1>5 DEF InOnePlace, InPlaces, NetOnce
  <1>7. Owned'
    BY <1>2, <1>5 DEF Owned, InPlaces
  <1>8. QED
    BY <1>6, <1>7

\* What performing a packet clears from the scheduler is dropped.
LEMMA ClearedOnce ==
    ASSUME NEW p, NEW s \in Seq(Sent), Once(s), Perform(p, s)
    PROVE  /\ Once(sched') /\ Members(sched') \subseteq Members(s)
           /\ Cleared(s) = Members(s) \ Members(sched')
  <1>1. None \notin Sent
    BY DEF None, Sent
  <1>2. sched' \in Seq(Sent) /\ (sched' = s \/ sched' = <<>>)
    BY PerformLeaves
  <1>3. Once(sched') /\ Members(sched') \subseteq Members(s)
    BY <1>2, EmptyQueue
  <1>4. Members(s) = {s[i] : i \in DOMAIN s} /\ Members(sched') = {sched'[i] : i \in DOMAIN sched'}
    BY <1>1, <1>2 DEF Members
  <1>5. QED
    BY <1>3, <1>4 DEF Cleared

\* What the audio callback does keeps packets with one owner.
LEMMA EnginePlaces ==
    ASSUME Typed, InOnePlace, Owned, Engine
    PROVE  InOnePlace' /\ Owned'
  <1> USE DEF netVars, rtVars
  <1>0. /\ osc.pending \in Seq(Sent) /\ osc.spent \in Seq(Sent \cup {None})
        /\ sched \in Seq(Sent) /\ from.pending \in Seq(Sent) /\ None \notin Sent
        /\ Once(osc.pending) /\ Once(osc.spent) /\ Once(sched) /\ Once(from.pending)
    BY Fields DEF Typed, InOnePlace, None, Sent
  <1>1. CASE Run
    <2>1. from'.pending = from.pending /\ UNCHANGED <<net, osc, sched, heap, dropped>>
      BY <1>1 DEF Run, Typed, QueuesTyped
    <2>2. Held' = Held
      BY <2>1 DEF Held
    <2>3. QED
      BY <2>1, <2>2 DEF InOnePlace, Owned, InPlaces
  <1>2. CASE StartBlocks \/ World_Run
    <2>1. UNCHANGED <<net, osc, from, sched, heap, dropped>>
      BY <1>2 DEF StartBlocks, World_Run
    <2>2. Held' = Held
      BY <2>1 DEF Held
    <2>3. QED
      BY <2>1, <2>2 DEF InOnePlace, Owned, InPlaces
  <1>3. CASE PerformAtOnce \/ PerformSchedule
    <2> DEFINE p == Head(osc.pending)
    <2>1. osc.pending # <<>> /\ UNCHANGED <<net, from, heap>>
      BY <1>3 DEF PerformAtOnce, PerformSchedule
    <2>2. /\ p \in Sent /\ p # None /\ p \in Members(osc.pending)
          /\ Once(Tail(osc.pending)) /\ Members(Tail(osc.pending)) = Members(osc.pending) \ {p}
      BY <1>0, <2>1, TailOnce
    <2>3. Held' = Held
      BY <2>1 DEF Held
    <2> HIDE DEF p
    <2>4. CASE PerformAtOnce
      <3>1. /\ Perform(p, sched) /\ dropped' = dropped \cup Cleared(sched)
            /\ osc' = [pending |-> Tail(osc.pending), spent |-> Append(osc.spent, p)]
        BY <2>4 DEF PerformAtOnce, p
      <3>2. osc'.pending = Tail(osc.pending) /\ osc'.spent = Append(osc.spent, p)
        BY <3>1
      <3>3. p \notin Members(osc.spent)
        BY <2>2 DEF InOnePlace
      <3>4. Once(osc'.spent) /\ Members(osc'.spent) = Members(osc.spent) \cup {p}
        BY <1>0, <2>2, <3>2, <3>3, AppendOnce
      <3>5. /\ Once(sched') /\ Members(sched') \subseteq Members(sched)
            /\ dropped' = dropped \cup (Members(sched) \ Members(sched'))
        BY <1>0, <3>1, ClearedOnce
      <3>6. InOnePlace'
        BY <2>1, <2>2, <2>3, <3>2, <3>4, <3>5 DEF InOnePlace
      <3>7. Owned'
        BY <2>1, <2>2, <2>3, <3>2, <3>4, <3>5 DEF Owned, InPlaces
      <3>8. QED
        BY <3>6, <3>7
    <2>5. CASE PerformSchedule
      <3>1. /\ osc' = [pending |-> Tail(osc.pending), spent |-> Append(osc.spent, None)]
            /\ \/ sched' = Append(sched, p) /\ dropped' = dropped
               \/ sched' = sched /\ dropped' = dropped \cup {p}
        BY <2>5 DEF PerformSchedule, p
      <3>2. osc'.pending = Tail(osc.pending) /\ osc'.spent = Append(osc.spent, None)
        BY <3>1
      <3>3. None \notin Members(osc.spent) /\ p \notin Members(sched)
        BY <2>2 DEF InOnePlace, Members
      <3>4. Once(osc'.spent) /\ Members(osc'.spent) = Members(osc.spent)
        <4>1. None \in Sent \cup {None}
          OBVIOUS
        <4>2. /\ Once(Append(osc.spent, None))
              /\ Members(Append(osc.spent, None)) = Members(osc.spent) \cup ({None} \ {None})
          BY <1>0, <3>3, <4>1, AppendOnce
        <4>3. QED
          BY <3>2, <4>2
      <3>5. CASE sched' = Append(sched, p) /\ dropped' = dropped
        <4>1. Once(sched') /\ Members(sched') = Members(sched) \cup {p}
          BY <1>0, <2>2, <3>3, <3>5, AppendOnce
        <4>2. InOnePlace'
          BY <2>1, <2>2, <2>3, <3>2, <3>4, <4>1 DEF InOnePlace
        <4>3. Owned'
          BY <2>1, <2>2, <2>3, <3>2, <3>4, <3>5, <4>1 DEF Owned, InPlaces
        <4>4. QED
          BY <4>2, <4>3
      <3>6. CASE sched' = sched /\ dropped' = dropped \cup {p}
        <4>1. InOnePlace'
          BY <2>1, <2>2, <2>3, <3>2, <3>4, <3>6 DEF InOnePlace
        <4>2. Owned'
          BY <2>1, <2>2, <2>3, <3>2, <3>4, <3>6 DEF Owned, InPlaces
        <4>3. QED
          BY <4>1, <4>2
      <3>7. QED
        BY <3>1, <3>5, <3>6
    <2>6. QED
      BY <1>3, <2>4, <2>5
  <1>4. CASE PerformDue
    <2>1. PICK i \in DOMAIN sched :
              /\ Perform(sched[i], SeqExt!RemoveAt(sched, i))
              /\ FreeInNRT(sched[i])
              /\ dropped' = dropped \cup Cleared(SeqExt!RemoveAt(sched, i))
                              \cup (IF from' = from THEN {sched[i]} ELSE {})
      BY <1>4 DEF PerformDue
    <2> DEFINE p == sched[i]
               s == SeqExt!RemoveAt(sched, i)
    <2>2. /\ s \in Seq(Sent) /\ Once(s) /\ p \in Sent /\ p # None
          /\ Members(s) = Members(sched) \ {p} /\ p \in Members(sched)
      BY <1>0, RemoveOnce
    <2>3. UNCHANGED <<net, osc, heap>>
      BY <1>4 DEF PerformDue, FreeInNRT
    <2>4. Held' = Held
      BY <2>3 DEF Held
    <2> HIDE DEF p, s
    <2>5. /\ Perform(p, s)
          /\ dropped' = dropped \cup Cleared(s) \cup (IF from' = from THEN {p} ELSE {})
          /\ from' = from \/ from' = [from EXCEPT !.pending = Append(@, p)]
      BY <2>1 DEF p, s, FreeInNRT
    <2>6. /\ Once(sched') /\ Members(sched') \subseteq Members(s)
          /\ Cleared(s) = Members(s) \ Members(sched')
      BY <2>2, <2>5, ClearedOnce
    <2>7. CASE from' = from
      <3>1. InOnePlace'
        BY <2>2, <2>3, <2>4, <2>6, <2>7 DEF InOnePlace
      <3>2. Owned'
        BY <2>2, <2>3, <2>4, <2>5, <2>6, <2>7 DEF Owned, InPlaces
      <3>3. QED
        BY <3>1, <3>2
    <2>8. CASE from' = [from EXCEPT !.pending = Append(@, p)]
      <3>1. from'.pending = Append(from.pending, p)
        BY <2>8 DEF Typed, QueuesTyped
      <3>2. p \notin Members(from.pending)
        BY <2>2 DEF InOnePlace
      <3>3. Once(from'.pending) /\ Members(from'.pending) = Members(from.pending) \cup {p}
        BY <1>0, <2>2, <3>1, <3>2, AppendOnce
      <3>4. InOnePlace'
        BY <2>2, <2>3, <2>4, <2>6, <3>3 DEF InOnePlace
      <3>5. dropped \cup (Members(s) \ Members(sched')) \subseteq dropped'
        BY <2>5, <2>6
      <3>6. Owned'
        BY <2>2, <2>3, <2>4, <2>6, <3>3, <3>5 DEF Owned, InPlaces
      <3>7. QED
        BY <3>4, <3>6
    <2>9. QED
      BY <2>5, <2>7, <2>8
  <1>5. QED
    BY <1>1, <1>2, <1>3, <1>4 DEF Engine

\* The NRT thread frees what it owns.
LEMMA FreePlaces ==
    ASSUME Typed, InOnePlace, Owned, FreeOSCPacket
    PROVE  InOnePlace' /\ Owned'
  <1> DEFINE p == Head(from.pending)
  <1>1. from.pending \in Seq(Sent) /\ None \notin Sent /\ Once(from.pending)
    BY Fields DEF Typed, InOnePlace, None, Sent
  <1>2. /\ from.pending # <<>> /\ heap' = heap \ {p}
        /\ UNCHANGED <<net, osc, sched, dropped>>
        /\ from' = [pending |-> Tail(from.pending), spent |-> from.spent + 1]
    BY DEF FreeOSCPacket, netVars, rtVars
  <1>3. Held' = Held /\ from'.pending = Tail(from.pending)
    BY <1>2 DEF Held
  <1>4. /\ Once(from'.pending) /\ Members(from'.pending) = Members(from.pending) \ {p}
        /\ p \in Members(from.pending)
    BY <1>1, <1>2, <1>3, TailOnce
  <1> HIDE DEF p
  <1>5. InOnePlace'
    BY <1>2, <1>3, <1>4 DEF InOnePlace
  <1>6. Owned'
    BY <1>2, <1>3, <1>4 DEF InOnePlace, Owned, InPlaces
  <1>7. QED
    BY <1>5, <1>6

LEMMA PlacesInit == Init => InOnePlace /\ Owned
  <1> SUFFICES ASSUME Init PROVE InOnePlace /\ Owned
    OBVIOUS
  <1>1. osc.pending = <<>> /\ osc.spent = <<>> /\ sched = <<>> /\ from.pending = <<>>
    BY DEF Init
  <1>2. \A t \in Thread : net[t].p = None
    BY DEF Init
  <1>3. Held = {}
    BY <1>2 DEF Held
  <1>4. QED
    BY <1>1, <1>2, <1>3, EmptyQueue DEF Init, InOnePlace, Owned, InPlaces

LEMMA PlacesStep == Typed /\ InOnePlace /\ Owned /\ [Next]_vars => InOnePlace' /\ Owned'
  <1> SUFFICES ASSUME Typed, InOnePlace, Owned, [Next]_vars PROVE InOnePlace' /\ Owned'
    OBVIOUS
  <1>1. CASE World_Cleanup \/ UNCHANGED vars
    <2>1. UNCHANGED <<net, osc, from, sched, heap, dropped>>
      BY <1>1 DEF World_Cleanup, vars, netVars, rtVars
    <2>2. Held' = Held
      BY <2>1 DEF Held
    <2>3. QED
      BY <2>1, <2>2 DEF InOnePlace, Owned, InPlaces
  <1>2. CASE \E t \in Thread, time \in Time \cup {0}, command \in Command : Receive(t, time, command)
    BY <1>2, ReceivePlaces
  <1>3. CASE \E t \in Thread : Network(t)
    BY <1>3, NetworkPlaces
  <1>4. QED
    BY <1>1, <1>2, <1>3, EnginePlaces, FreePlaces DEF Next

\* Two places that refer to a packet are the same, and what is in a place is
\* referred to.
LEMMA PlacesSame ==
    ASSUME InOnePlace, NEW p \in Sent
    PROVE  /\ \A x, y \in Places(p) : x = y
           /\ Places(p) # {} <=> p \in InPlaces
  <1> DEFINE N == {<<"net", t>> : t \in {t \in Thread : net[t].p = p}}
             P == {<<"pending", i>> : i \in {i \in DOMAIN osc.pending : osc.pending[i] = p}}
             S == {<<"spent", i>> : i \in {i \in DOMAIN osc.spent : osc.spent[i] = p}}
             C == {<<"sched", i>> : i \in {i \in DOMAIN sched : sched[i] = p}}
             F == {<<"from", i>> : i \in {i \in DOMAIN from.pending : from.pending[i] = p}}
  <1>1. p # None
    BY DEF Sent, None
  <1>2. Places(p) = N \cup P \cup S \cup C \cup F
    BY DEF Places
  <1>3. /\ N # {} <=> p \in Held
        /\ P # {} <=> p \in Members(osc.pending)
        /\ S # {} <=> p \in Members(osc.spent)
        /\ C # {} <=> p \in Members(sched)
        /\ F # {} <=> p \in Members(from.pending)
    BY <1>1 DEF Held, Members
  <1>4. /\ \A a, b \in N : a = b
        /\ \A a, b \in P : a = b
        /\ \A a, b \in S : a = b
        /\ \A a, b \in C : a = b
        /\ \A a, b \in F : a = b
    BY <1>1 DEF InOnePlace, Once
  <1> HIDE DEF N, P, S, C, F
  <1>5. Places(p) # {} <=> p \in InPlaces
    BY <1>2, <1>3 DEF InPlaces
  <1>6. \A x, y \in Places(p) : x = y
    BY <1>2, <1>3, <1>4 DEF InOnePlace
  <1>7. QED
    BY <1>5, <1>6

\* Every allocated packet has one owner, unless it was dropped, and none that
\* was freed has one: whichever of the network threads, the audio callback and
\* the NRT thread frees a packet, nobody refers to it any more.
THEOREM PacketsOwned == Spec => []OneOwner
  <1>1. Typed /\ InOnePlace /\ Owned => OneOwner
    <2> SUFFICES ASSUME Typed, InOnePlace, Owned, NEW p \in Sent
                 PROVE  /\ Cardinality(Places(p)) <= (IF p \in heap THEN 1 ELSE 0)
                        /\ p \in heap \ dropped => Places(p) # {}
      BY DEF OneOwner
    <2>1. Places(p) # {} <=> p \in InPlaces
      BY PlacesSame
    <2>2. CASE Places(p) = {}
      <3>1. Cardinality(Places(p)) = 0
        BY <2>2, FS_EmptySet
      <3>2. QED
        BY <2>1, <2>2, <3>1 DEF Owned
    <2>3. CASE Places(p) # {}
      <3>1. PICK x : x \in Places(p)
        BY <2>3
      <3>2. Places(p) = {x}
        BY <3>1, PlacesSame
      <3>3. Cardinality(Places(p)) = 1
        BY <3>2, FS_Singleton
      <3>4. QED
        BY <2>1, <2>3, <3>3 DEF Owned
    <2>4. QED
      BY <2>2, <2>3
  <1>2. Spec => [](InOnePlace /\ Owned)
    BY AllTyped, PlacesInit, PlacesStep, PTL DEF Spec
  <1>3. QED
    BY <1>1, <1>2, AllTyped, PTL
-----------------------------------------------------------------------------
(* Time. *)

LEMMA LeastNat ==
    ASSUME NEW T, T \subseteq Nat, T # {}
    PROVE  \E m \in T : \A n \in T : m <= n
  <1>1. PICK m \in T : \A n \in T : ~(<<n, m>> \in OpToRel(<, Nat))
    BY WFMin, NatLessThanWellFounded, Zenon
  <1>2. \A n \in T : ~(n < m)
    BY <1>1 DEF OpToRel
  <1>3. QED
    BY <1>2

\* The scheduler finds an event to return if any is due.
LEMMA NextExists ==
    ASSUME Typed, NEW i \in DOMAIN sched, Due(i)
    PROVE  \E j \in DOMAIN sched : IsNext(j) /\ Due(j)
  <1> DEFINE at(j) == packet[sched[j]].at
             times == {at(j) : j \in DOMAIN sched}
  <1>1. sched \in Seq(Sent) /\ DOMAIN sched \subseteq Nat
    BY Fields DEF Typed
  <1>2. \A j \in DOMAIN sched : at(j) \in Nat
    <2>1. \A p \in Sent : packet[p].at \in Time \cup {0}
      BY DEF Typed, NetTyped
    <2>2. QED
      BY <1>1, <2>1, Sizes
  <1> HIDE DEF at
  <1>3. PICK m \in times : \A n \in times : m <= n
    <2>1. times \subseteq Nat /\ times # {}
      BY <1>2
    <2> HIDE DEF times
    <2>2. QED
      BY <2>1, LeastNat
  <1> DEFINE first == {j \in DOMAIN sched : at(j) = m}
  <1>4. PICK j \in first : \A k \in first : j <= k
    <2>1. first \subseteq Nat /\ first # {}
      BY <1>1, <1>3
    <2> HIDE DEF first
    <2>2. QED
      BY <2>1, LeastNat
  <1>5. \A k \in DOMAIN sched : at(j) <= at(k) /\ (k < j => at(j) < at(k))
    <2> SUFFICES ASSUME NEW k \in DOMAIN sched PROVE at(j) <= at(k) /\ (k < j => at(j) < at(k))
      OBVIOUS
    <2>1. at(j) = m /\ j \in Nat /\ k \in Nat /\ at(k) \in Nat /\ m \in Nat /\ m <= at(k)
      BY <1>1, <1>2, <1>3, <1>4
    <2>2. at(k) = m => j <= k
      BY <1>4
    <2>3. QED
      BY <2>1, <2>2
  <1>6. IsNext(j)
    BY <1>5 DEF IsNext, at
  <1>7. Due(j)
    <2>1. at(i) <= nextTime /\ at(j) <= at(i) /\ at(i) \in Nat /\ at(j) \in Nat
      BY <1>2, <1>4, <1>5 DEF Due, at
    <2>2. nextTime \in Nat
      BY Sizes DEF nextTime, Typed, RtTyped
    <2>3. at(j) <= nextTime
      BY <2>1, <2>2
    <2>4. QED
      BY <2>3 DEF Due, at
  <1>8. QED
    BY <1>4, <1>6, <1>7

\* What is performed is added at the end of log.
LEMMA LogGrows ==
    ASSUME Typed, [Next]_vars
    PROVE  \/ log' = log
           \/ \E p \in Sent : /\ log' = Append(log, p) /\ UNCHANGED packet
                              /\ packet[p].at <= nextTime
  <1>1. CASE PerformAtOnce
    <2>1. log' = Append(log, Head(osc.pending)) /\ UNCHANGED packet /\ packet[Head(osc.pending)].at = 0
      BY <1>1 DEF PerformAtOnce, Perform, netVars
    <2>2. Head(osc.pending) \in Sent /\ 0 <= nextTime
      BY <1>1, Fields, Sizes DEF PerformAtOnce, Typed, RtTyped, nextTime
    <2>3. QED
      BY <2>1, <2>2
  <1>2. CASE PerformDue
    <2>1. PICK i \in DOMAIN sched : Due(i) /\ Perform(sched[i], SeqExt!RemoveAt(sched, i))
      BY <1>2 DEF PerformDue
    <2>2. sched[i] \in Sent
      BY Fields DEF Typed
    <2>3. QED
      BY <1>2, <2>1, <2>2 DEF PerformDue, Perform, Due, netVars
  <1>3. CASE Run \/ PerformSchedule \/ StartBlocks \/ World_Run \/ FreeOSCPacket \/ World_Cleanup
    BY <1>3 DEF Run, PerformSchedule, StartBlocks, World_Run, FreeOSCPacket, World_Cleanup, rtVars
  <1>4. ASSUME NEW t \in Thread, Network(t) PROVE log' = log
    BY <1>4 DEF Network, ProcessOSCPacket, FreeSpent, FreeSpentEnd, WriteOSCPacket,
                DropRefusedPacket, rtVars
  <1>5. ASSUME NEW t, NEW time, NEW command, Receive(t, time, command) PROVE log' = log
    BY <1>5 DEF Receive, rtVars
  <1>6. CASE UNCHANGED vars
    BY <1>6 DEF vars
  <1>7. QED
    BY <1>1, <1>2, <1>3, <1>4, <1>5, <1>6 DEF Next, Engine

\* A timed bundle takes effect in the first block that ends no earlier than
\* the bundle's time, whatever the DLL makes of the time of a callback: not
\* before, and SC_JackDriver::Run calculates no block while one is due.
THEOREM BundlesOnTime == Spec => OnTime
  <1>1. Typed /\ [Next]_vars =>
          [/\ \A i \in DOMAIN log' \ DOMAIN log : packet[log'[i]].at <= nextTime
           /\ (block' # block \/ oscTime' # oscTime) /\ rt = "sched" =>
                  \A i \in DOMAIN sched : packet[sched[i]].at > nextTime]_vars
    <2> SUFFICES ASSUME Typed, [Next]_vars
                 PROVE  /\ \A i \in DOMAIN log' \ DOMAIN log : packet[log'[i]].at <= nextTime
                        /\ (block' # block \/ oscTime' # oscTime) /\ rt = "sched" =>
                              \A i \in DOMAIN sched : packet[sched[i]].at > nextTime
      OBVIOUS
    <2>1. \A i \in DOMAIN log' \ DOMAIN log : packet[log'[i]].at <= nextTime
      <3>1. CASE log' = log
        BY <3>1
      <3>2. ASSUME NEW p \in Sent, log' = Append(log, p), packet[p].at <= nextTime
            PROVE  \A i \in DOMAIN log' \ DOMAIN log : packet[log'[i]].at <= nextTime
        <4>1. log \in Seq(Sent) /\ \A i \in DOMAIN log' \ DOMAIN log : log'[i] = p
          BY <3>2, Fields DEF Typed
        <4>2. QED
          BY <3>2, <4>1
      <3>3. QED
        BY <3>1, <3>2, LogGrows
    <2>2. ASSUME block' # block \/ oscTime' # oscTime, rt = "sched", NEW i \in DOMAIN sched
          PROVE  packet[sched[i]].at > nextTime
      <3>1. World_Run
        <4>1. ~StartBlocks
          BY <2>2 DEF StartBlocks
        <4>2. CASE Run \/ PerformAtOnce \/ PerformSchedule \/ PerformDue \/ FreeOSCPacket \/ World_Cleanup
          BY <2>2, <4>2 DEF Run, PerformAtOnce, PerformSchedule, PerformDue, FreeOSCPacket,
                            World_Cleanup, rtVars
        <4>3. ASSUME NEW t \in Thread, Network(t) PROVE FALSE
          BY <2>2, <4>3 DEF Network, ProcessOSCPacket, FreeSpent, FreeSpentEnd, WriteOSCPacket,
                      DropRefusedPacket, rtVars
        <4>4. ASSUME NEW t, NEW time, NEW command, Receive(t, time, command) PROVE FALSE
          BY <2>2, <4>4 DEF Receive, rtVars
        <4>5. ~UNCHANGED vars
          BY <2>2 DEF vars
        <4>6. QED
          BY <4>1, <4>2, <4>3, <4>4, <4>5 DEF Next, Engine
      <3>2. ~Due(i)
        BY <3>1, NextExists DEF World_Run
      <3>3. packet[sched[i]].at \in Nat /\ nextTime \in Nat
        <4>1. sched[i] \in Sent
          BY Fields DEF Typed
        <4>2. packet[sched[i]].at \in Time \cup {0}
          BY <4>1 DEF Typed, NetTyped
        <4>3. QED
          BY <4>2, Sizes DEF Typed, RtTyped, nextTime
      <3>4. QED
        BY <3>2, <3>3 DEF Due
    <2>3. QED
      BY <2>1, <2>2
  <1>2. QED
    BY <1>1, AllTyped, PTL DEF Spec, OnTime
-----------------------------------------------------------------------------
(* Order. *)

LEMMA MembersOf ==
    ASSUME NEW s \in Seq(Sent)
    PROVE  Members(s) = {s[i] : i \in DOMAIN s} /\ Members(s) \subseteq Sent /\ Sent \subseteq Nat
  <1>1. None \notin Sent /\ Sent \subseteq Nat
    BY DEF None, Sent
  <1>2. QED
    BY <1>1 DEF Members

\* A queue stays in order when the newest packet is added, the oldest is
\* taken, or any is.
LEMMA AppendAscending ==
    ASSUME NEW pk, NEW s \in Seq(Sent), NEW x \in Sent, Ascending(s, pk),
           \A q \in Members(s) : pk[q].by = pk[x].by => q < x
    PROVE  Ascending(Append(s, x), pk)
  <1> DEFINE u == Append(s, x)
  <1>1. /\ Len(s) \in Nat /\ DOMAIN s = 1 .. Len(s) /\ DOMAIN u = 1 .. Len(s) + 1
        /\ u[Len(s) + 1] = x /\ \A i \in 1 .. Len(s) : u[i] = s[i]
    OBVIOUS
  <1> HIDE DEF u
  <1> SUFFICES ASSUME NEW i \in DOMAIN u, NEW j \in DOMAIN u, i < j, pk[u[i]].by = pk[u[j]].by
               PROVE  u[i] < u[j]
    BY DEF Ascending, u
  <1>2. i \in 1 .. Len(s) /\ u[i] = s[i] /\ s[i] \in Members(s)
    BY <1>1, MembersOf
  <1>3. CASE j = Len(s) + 1
    BY <1>1, <1>2, <1>3
  <1>4. CASE j # Len(s) + 1
    <2>1. j \in 1 .. Len(s)
      BY <1>1, <1>4
    <2>2. QED
      BY <1>1, <1>2, <2>1 DEF Ascending
  <1>5. QED
    BY <1>3, <1>4

LEMMA TailAscending ==
    ASSUME NEW pk, NEW s \in Seq(Sent), s # <<>>, Ascending(s, pk)
    PROVE  /\ Ascending(Tail(s), pk)
           /\ \A q \in Members(Tail(s)) : pk[q].by = pk[Head(s)].by => Head(s) < q
  <1> DEFINE u == Tail(s)
  <1>1. /\ Len(s) \in Nat /\ Len(s) > 0 /\ DOMAIN s = 1 .. Len(s) /\ DOMAIN u = 1 .. Len(s) - 1
        /\ \A i \in 1 .. Len(s) - 1 : u[i] = s[i + 1]
        /\ Head(s) = s[1] /\ u \in Seq(Sent)
    OBVIOUS
  <1> HIDE DEF u
  <1>2. Ascending(u, pk)
    <2> SUFFICES ASSUME NEW i \in DOMAIN u, NEW j \in DOMAIN u, i < j, pk[u[i]].by = pk[u[j]].by
                 PROVE  u[i] < u[j]
      BY DEF Ascending
    <2>1. i + 1 \in DOMAIN s /\ j + 1 \in DOMAIN s /\ i + 1 < j + 1 /\ u[i] = s[i + 1] /\ u[j] = s[j + 1]
      BY <1>1
    <2>2. QED
      BY <2>1 DEF Ascending
  <1>3. ASSUME NEW q \in Members(u), pk[q].by = pk[Head(s)].by PROVE Head(s) < q
    <2>1. PICK i \in DOMAIN u : q = u[i]
      BY DEF Members
    <2>2. 1 \in DOMAIN s /\ i + 1 \in DOMAIN s /\ 1 < i + 1 /\ q = s[i + 1]
      BY <2>1, <1>1
    <2>3. QED
      BY <2>2, <1>1, <1>3 DEF Ascending
  <1>4. QED
    BY <1>2, <1>3 DEF u

LEMMA RemoveAscending ==
    ASSUME NEW pk, NEW s \in Seq(Sent), NEW i \in DOMAIN s, Ascending(s, pk)
    PROVE  Ascending(SeqExt!RemoveAt(s, i), pk)
  <1> DEFINE u == SeqExt!RemoveAt(s, i)
             at(j) == IF j < i THEN j ELSE j + 1
  <1>1. /\ Len(s) \in Nat /\ Len(s) >= 1 /\ DOMAIN s = 1 .. Len(s) /\ DOMAIN u = 1 .. Len(s) - 1
        /\ \A j \in 1 .. Len(s) - 1 : u[j] = IF j < i THEN s[j] ELSE s[j + 1]
    BY RemoveAtIs
  <1> HIDE DEF u
  <1>2. ASSUME NEW j \in DOMAIN u PROVE at(j) \in DOMAIN s /\ u[j] = s[at(j)]
    BY <1>1
  <1> SUFFICES ASSUME NEW j \in DOMAIN u, NEW k \in DOMAIN u, j < k, pk[u[j]].by = pk[u[k]].by
               PROVE  u[j] < u[k]
    BY DEF Ascending, u
  <1>3. at(j) < at(k)
    BY <1>1
  <1> HIDE DEF at
  <1>4. QED
    BY <1>2, <1>3 DEF Ascending

\* As long as queues and log are left alone, threads may let go of packets.
LEMMA TurnFrame ==
    ASSUME Typed, InTurn, UNCHANGED <<packet, sched, log>>, osc'.pending = osc.pending,
           \A u \in Thread : net'[u].p \in {None, net[u].p}
    PROVE  InTurn'
  <1>1. UNCHANGED <<Members(osc.pending), Members(sched), Members(log)>>
    OBVIOUS
  <1>2. Ascending(osc.pending, packet)' /\ Ascending(sched, packet)'
    BY DEF InTurn, Ascending
  <1>3. QED
    BY <1>1, <1>2 DEF InTurn, SameThread, HeldLast, PendingLater, SchedTimed, Overtaking

\* SendOrder when a packet is performed.
LEMMA LogOrder ==
    ASSUME Typed, SendOrder, NEW p \in Sent, log' = Append(log, p), UNCHANGED packet,
           \A q \in Members(log) : packet[p].by = packet[q].by /\ p < q
               /\ (packet[p].at = 0 <=> packet[q].at = 0) => ~(packet[p].at <= packet[q].at)
    PROVE  SendOrder'
  <1>1. /\ log \in Seq(Sent) /\ Len(log) \in Nat /\ DOMAIN log = 1 .. Len(log)
        /\ DOMAIN log' = 1 .. Len(log) + 1
        /\ log'[Len(log) + 1] = p /\ \A i \in 1 .. Len(log) : log'[i] = log[i]
    BY Fields DEF Typed
  <1> SUFFICES ASSUME NEW i \in DOMAIN log', NEW j \in DOMAIN log',
                      packet[log'[i]].by = packet[log'[j]].by, log'[i] < log'[j],
                      packet[log'[i]].at <= packet[log'[j]].at,
                      packet[log'[i]].at = 0 <=> packet[log'[j]].at = 0
               PROVE  i < j
    BY DEF SendOrder
  <1>2. CASE i = Len(log) + 1 /\ j = Len(log) + 1
    <2>1. log'[i] = log'[j] /\ p \in Nat
      BY <1>1, <1>2 DEF Sent
    <2>2. QED
      BY <1>1, <1>2, <2>1
  <1>3. CASE i = Len(log) + 1 /\ j # Len(log) + 1
    <2>1. j \in DOMAIN log /\ log'[j] = log[j] /\ log'[i] = p
      BY <1>1, <1>3
    <2>2. log[j] \in Members(log)
      BY <1>1, <2>1, MembersOf
    <2>3. QED
      BY <2>1, <2>2
  <1>4. CASE i # Len(log) + 1 /\ j = Len(log) + 1
    BY <1>1, <1>4
  <1>5. CASE i # Len(log) + 1 /\ j # Len(log) + 1
    <2>1. i \in DOMAIN log /\ j \in DOMAIN log /\ log'[i] = log[i] /\ log'[j] = log[j]
      BY <1>1, <1>5
    <2>2. QED
      BY <2>1 DEF SendOrder
  <1>6. QED
    BY <1>2, <1>3, <1>4, <1>5

\* A packet that is received is the last one.
LEMMA ReceiveTurn ==
    ASSUME Typed, InTurn, SendOrder, NEW t \in Thread, NEW time \in Time \cup {0},
           NEW command \in Command, Receive(t, time, command)
    PROVE  InTurn' /\ SendOrder'
  <1>0. packet'[sent'] = [at |-> time, command |-> command, by |-> t]
    BY ReceiveTyped
  <1>1. /\ sent' = sent + 1 /\ sent \in Nat /\ packet'[sent'].by = t
        /\ \A p \in Sent : packet'[p] = packet[p]
    <2>1. packet'[sent'].by = t
      BY <1>0
    <2>2. QED
      BY <2>1, ReceiveTyped
  <1>2. UNCHANGED <<osc, sched, log>> /\ net' = [net EXCEPT ![t] = [pc |-> "lock", p |-> sent']]
    BY DEF Receive, rtVars
  <1>3. /\ osc.pending \in Seq(Sent) /\ sched \in Seq(Sent) /\ log \in Seq(Sent)
        /\ net \in [Thread -> [pc : {"idle", "lock", "free", "write", "refused"},
                               p : Sent \cup {None}]]
    BY Fields DEF Typed, NetTyped
  <1>4. /\ Members(osc.pending) \subseteq Sent /\ Members(sched) \subseteq Sent
        /\ Members(log) \subseteq Sent
    BY <1>3, MembersOf
  <1>5. \A q \in Sent : q \in Nat /\ q < sent'
    BY <1>1 DEF Sent
  <1>6. \A u \in Thread : net'[u].p = IF u = t THEN sent' ELSE net[u].p
    BY <1>2, <1>3
  <1>7. HeldLast'
    <2> SUFFICES ASSUME NEW u \in Thread, net'[u].p # None
                 PROVE  /\ packet'[net'[u].p].by = u
                        /\ \A q \in Members(osc.pending) \cup Members(sched) \cup Members(log) :
                              packet'[q].by = u => q < net'[u].p
      BY <1>2 DEF HeldLast
    <2>1. CASE u = t
      BY <2>1, <1>1, <1>4, <1>5, <1>6
    <2>2. CASE u # t
      <3>1. net'[u].p = net[u].p /\ net[u].p \in Sent
        BY <2>2, <1>3, <1>6
      <3>2. QED
        BY <3>1, <1>1, <1>4 DEF InTurn, HeldLast
    <2>3. QED
      BY <2>1, <2>2
  <1>8. PendingLater' /\ SchedTimed' /\ Overtaking'
    BY <1>1, <1>2, <1>4 DEF InTurn, PendingLater, SchedTimed, Overtaking, SameThread
  <1>9. Ascending(osc.pending, packet)' /\ Ascending(sched, packet)'
    <2>1. ASSUME NEW s \in Seq(Sent), Ascending(s, packet) PROVE Ascending(s, packet')
      <3>1. \A i \in DOMAIN s : packet'[s[i]] = packet[s[i]]
        BY <1>1
      <3>2. QED
        BY <2>1, <3>1 DEF Ascending
    <2>2. QED
      BY <1>2, <1>3, <2>1 DEF InTurn
  <1>10. SendOrder'
    <2>1. log' = log /\ \A i \in DOMAIN log : packet'[log[i]] = packet[log[i]]
      BY <1>1, <1>2, <1>3
    <2> SUFFICES ASSUME NEW i \in DOMAIN log, NEW j \in DOMAIN log,
                        packet[log[i]].by = packet[log[j]].by, log[i] < log[j],
                        packet[log[i]].at <= packet[log[j]].at,
                        packet[log[i]].at = 0 <=> packet[log[j]].at = 0
                 PROVE  i < j
      BY <2>1, SMTT(40) DEF SendOrder
    <2>2. QED
      BY DEF SendOrder
  <1>11. QED
    BY <1>7, <1>8, <1>9, <1>10 DEF InTurn

\* What a thread writes to the FIFO, it has sent after everything else of its
\* own that is in the FIFO or beyond.
LEMMA NetworkTurn ==
    ASSUME Typed, InTurn, SendOrder, NEW t \in Thread, Network(t)
    PROVE  InTurn' /\ SendOrder'
  <1>1. UNCHANGED <<packet, sched, log>>
    BY DEF Network, ProcessOSCPacket, FreeSpent, FreeSpentEnd, WriteOSCPacket,
           DropRefusedPacket, netVars, rtVars
  <1>2. SendOrder'
    BY <1>1 DEF SendOrder
  <1>3. net \in [Thread -> [pc : {"idle", "lock", "free", "write", "refused"},
                            p : Sent \cup {None}]]
    BY DEF Typed, NetTyped
  <1>4. \A pc : Goto(t, pc) => \A u \in Thread : net'[u].p = net[u].p
    BY <1>3 DEF Goto
  <1>5. Leave(t) => \A u \in Thread : net'[u].p = IF u = t THEN None ELSE net[u].p
    BY <1>3 DEF Leave
  <1>6. CASE ProcessOSCPacket(t) \/ FreeSpentEnd(t) \/ DropRefusedPacket(t)
    <2>1. UNCHANGED osc /\ (Leave(t) \/ \E pc : Goto(t, pc))
      BY <1>6 DEF ProcessOSCPacket, FreeSpentEnd, DropRefusedPacket
    <2>2. \A u \in Thread : net'[u].p \in {None, net[u].p}
      BY <2>1, <1>4, <1>5
    <2>3. QED
      BY <1>1, <1>2, <2>1, <2>2, TurnFrame
  <1>7. CASE FreeSpent(t)
    <2>1. osc'.pending = osc.pending /\ net' = net
      BY <1>7 DEF FreeSpent, Typed, QueuesTyped, netVars
    <2>2. QED
      BY <1>1, <1>2, <2>1, TurnFrame
  <1>8. CASE WriteOSCPacket(t) /\ osc' = osc /\ Goto(t, "refused")
    <2>1. \A u \in Thread : net'[u].p \in {None, net[u].p}
      BY <1>4, <1>8
    <2>2. QED
      BY <1>1, <1>2, <1>8, <2>1, TurnFrame
  <1>9. CASE WriteOSCPacket(t) /\ osc' = [osc EXCEPT !.pending = Append(@, net[t].p)] /\ Leave(t)
    <2> DEFINE p == net[t].p
    <2>1. p # None /\ p \in Sent
      BY <1>9 DEF WriteOSCPacket, Typed, NetTyped
    <2>2. osc'.pending = Append(osc.pending, p)
      BY <1>9 DEF Typed, QueuesTyped
    <2>3. /\ packet[p].by = t
          /\ \A q \in Members(osc.pending) \cup Members(sched) \cup Members(log) :
                packet[q].by = t => q < p
      BY <2>1 DEF InTurn, HeldLast
    <2>4. \A u \in Thread : net'[u].p = IF u = t THEN None ELSE net[u].p
      BY <1>5, <1>9
    <2> HIDE DEF p
    <2>5. osc.pending \in Seq(Sent)
      BY Fields DEF Typed
    <2>6. Members(osc'.pending) = Members(osc.pending) \cup {p}
      BY <2>1, <2>2, <2>5, AppendOnce
    <2>7. Ascending(osc'.pending, packet)
      <3>1. \A q \in Members(osc.pending) : packet[q].by = packet[p].by => q < p
        BY <2>3
      <3>2. Ascending(osc.pending, packet)
        BY DEF InTurn
      <3>3. QED
        BY <2>1, <2>2, <2>5, <3>1, <3>2, AppendAscending
    <2>8. HeldLast'
      BY <1>1, <2>3, <2>4, <2>6 DEF InTurn, HeldLast
    <2>9. PendingLater'
      BY <1>1, <2>3, <2>6 DEF InTurn, PendingLater, SameThread
    <2>10. SchedTimed' /\ Overtaking'
      BY <1>1 DEF InTurn, SchedTimed, Overtaking, SameThread
    <2>11. Ascending(osc.pending, packet)' /\ Ascending(sched, packet)'
      BY <1>1, <2>7 DEF InTurn
    <2>12. QED
      BY <1>2, <2>8, <2>9, <2>10, <2>11 DEF InTurn
  <1>10. QED
    BY <1>6, <1>7, <1>8, <1>9 DEF Network, WriteOSCPacket

\* A message takes effect after all that its thread sent before; a bundle is
\* scheduled after all of its thread's that are; and of a thread's bundles in
\* the scheduler, one that goes first though it was sent later has an earlier
\* time.
LEMMA EngineTurn ==
    ASSUME Typed, InOnePlace, InTurn, SendOrder, Engine
    PROVE  InTurn' /\ SendOrder'
  <1>1. UNCHANGED <<packet, net>> /\ Sent \subseteq Nat
    BY DEF Engine, Run, PerformAtOnce, PerformSchedule, StartBlocks, PerformDue, World_Run,
           netVars, Sent
  <1>2. /\ osc.pending \in Seq(Sent) /\ sched \in Seq(Sent) /\ log \in Seq(Sent)
        /\ Once(osc.pending) /\ Once(sched) /\ Once(<<>>) /\ Members(<<>>) = {}
        /\ None \notin Sent
    BY Fields, EmptyQueue DEF Typed, InOnePlace, None, Sent
  <1>3. /\ Members(osc.pending) \subseteq Sent /\ Members(sched) \subseteq Sent
        /\ Members(log) \subseteq Sent
    BY <1>2, MembersOf
  <1>4. \A p \in Sent : packet[p].at \in Nat
    <2>1. \A p \in Sent : packet[p].at \in Time \cup {0}
      BY DEF Typed, NetTyped
    <2>2. QED
      BY <2>1, Sizes
  <1>5. \A p \in Sent : Members(Append(log, p)) = Members(log) \cup {p}
    <2> SUFFICES ASSUME NEW p \in Sent PROVE Members(Append(log, p)) = Members(log) \cup {p}
      OBVIOUS
    <2>1. Append(log, p) \in Seq(Sent)
      BY <1>2
    <2>2. /\ Members(log) = {log[i] : i \in DOMAIN log}
          /\ Members(Append(log, p)) = {Append(log, p)[i] : i \in DOMAIN Append(log, p)}
      BY <1>2, <2>1, MembersOf
    <2>3. /\ Len(log) \in Nat /\ DOMAIN log = 1 .. Len(log)
          /\ DOMAIN Append(log, p) = 1 .. Len(log) + 1
          /\ Append(log, p)[Len(log) + 1] = p
          /\ \A i \in 1 .. Len(log) : Append(log, p)[i] = log[i]
      BY <1>2
    <2>4. QED
      BY <2>2, <2>3
  <1>6. Ascending(<<>>, packet)
    BY DEF Ascending
  <1>7. CASE Run \/ StartBlocks \/ World_Run
    <2>1. UNCHANGED <<osc, sched, log>>
      BY <1>7 DEF Run, StartBlocks, World_Run
    <2>2. SendOrder'
      BY <1>1, <2>1 DEF SendOrder
    <2>3. QED
      BY <1>1, <2>1, <2>2, TurnFrame
  <1>8. CASE PerformAtOnce \/ PerformSchedule
    <2> DEFINE p == Head(osc.pending)
    <2>1. osc.pending # <<>> /\ osc'.pending = Tail(osc.pending)
      <3>1. osc.pending # <<>> /\ \E spent : osc' = [pending |-> Tail(osc.pending), spent |-> spent]
        BY <1>8 DEF PerformAtOnce, PerformSchedule
      <3>2. QED
        BY <3>1
    <2>2. /\ p \in Sent /\ p # None /\ p \in Members(osc.pending)
          /\ Members(osc'.pending) = Members(osc.pending) \ {p}
      <3>1. /\ p \in Sent /\ p # None /\ p \in Members(osc.pending)
            /\ Members(Tail(osc.pending)) = Members(osc.pending) \ {p}
        BY <1>2, <2>1, TailOnce
      <3>2. QED
        BY <2>1, <3>1
    <2>3. /\ Ascending(osc'.pending, packet)
          /\ \A q \in Members(osc'.pending) : packet[q].by = packet[p].by => p < q
      BY <1>2, <2>1, TailAscending DEF InTurn
    <2>7. \A q \in Members(log) : packet[p].by = packet[q].by => ~(p < q)
      <3>1. p \in Nat /\ \A q \in Members(log) : q \in Nat
        BY <1>1, <1>3, <2>2
      <3>2. \A q \in Members(log) : packet[p].by = packet[q].by => q < p
        BY <2>2 DEF InTurn, PendingLater, SameThread
      <3>3. \A m, n \in Nat : m < n => ~(n < m)
        OBVIOUS
      <3> HIDE DEF p
      <3>4. QED
        BY <3>1, <3>2, <3>3
    <2>4. CASE PerformAtOnce
      <3>1. packet[p].at = 0 /\ log' = Append(log, p) /\ sched' \in {sched, <<>>}
        BY <2>4 DEF PerformAtOnce, Perform
      <3> HIDE DEF p
      <3>2. Members(sched') \subseteq Members(sched) /\ Members(log') = Members(log) \cup {p}
        BY <1>2, <1>5, <2>2, <3>1
      <3>3. HeldLast'
        BY <1>1, <2>2, <3>2 DEF InTurn, HeldLast
      <3>4. PendingLater'
        BY <1>1, <2>2, <2>3, <3>2 DEF InTurn, PendingLater, SameThread
      <3>5. SchedTimed' /\ Overtaking'
        BY <1>1, <3>1, <3>2 DEF InTurn, SchedTimed, Overtaking, SameThread
      <3>6. Ascending(osc.pending, packet)' /\ Ascending(sched, packet)'
        BY <1>1, <1>6, <2>3, <3>1 DEF InTurn
      <3>7. \A q \in Members(log) : packet[p].by = packet[q].by => ~(p < q)
        BY <2>7
      <3>8. SendOrder'
        BY <1>1, <2>2, <3>1, <3>7, LogOrder
      <3>9. QED
        BY <3>3, <3>4, <3>5, <3>6, <3>8 DEF InTurn
    <2>5. CASE PerformSchedule
      <3>1. packet[p].at > 0 /\ log' = log /\ sched' \in {sched, Append(sched, p)}
        BY <2>5 DEF PerformSchedule
      <3> HIDE DEF p
      <3>2. \A q \in Members(sched) : packet[q].by = packet[p].by => q < p
        BY <2>2 DEF InTurn, PendingLater, SameThread
      <3>3. Members(Append(sched, p)) = Members(sched) \cup {p}
        BY <1>2, <2>2, AppendOnce
      <3>4. Ascending(Append(sched, p), packet)
        BY <1>2, <2>2, <3>2, AppendAscending DEF InTurn
      <3>5. Members(sched') \subseteq Members(sched) \cup {p}
        BY <3>1, <3>3
      <3>6. HeldLast'
        BY <1>1, <2>2, <3>1, <3>5 DEF InTurn, HeldLast
      <3>7. PendingLater'
        BY <1>1, <2>2, <2>3, <3>1, <3>5 DEF InTurn, PendingLater, SameThread
      <3>8. SchedTimed'
        BY <1>1, <3>1, <3>5 DEF InTurn, SchedTimed
      <3>9. Overtaking'
        BY <1>1, <2>7, <3>1, <3>5 DEF InTurn, Overtaking, SameThread
      <3>10. Ascending(osc.pending, packet)' /\ Ascending(sched, packet)'
        BY <1>1, <2>3, <3>1, <3>4 DEF InTurn
      <3>11. SendOrder'
        BY <1>1, <3>1 DEF SendOrder
      <3>12. QED
        BY <3>6, <3>7, <3>8, <3>9, <3>10, <3>11 DEF InTurn
    <2>6. QED
      BY <1>8, <2>4, <2>5
  <1>9. CASE PerformDue
    <2>1. PICK i \in DOMAIN sched : IsNext(i) /\ Perform(sched[i], SeqExt!RemoveAt(sched, i))
      BY <1>9 DEF PerformDue
    <2> DEFINE p == sched[i]
               s == SeqExt!RemoveAt(sched, i)
    <2>2. /\ s \in Seq(Sent) /\ p \in Sent /\ p \in Members(sched)
          /\ Members(s) = Members(sched) \ {p}
      BY <1>2, RemoveOnce
    <2>3. Ascending(s, packet)
      BY <1>2, RemoveAscending DEF InTurn
    <2>4. log' = Append(log, p) /\ sched' \in {s, <<>>} /\ osc' = osc
      BY <1>9, <2>1 DEF Perform, PerformDue
    <2>5. \A r \in Members(s) : SameThread(r, p) /\ r < p => packet[p].at < packet[r].at
      <3> SUFFICES ASSUME NEW r \in Members(s), SameThread(r, p), r < p
                   PROVE  packet[p].at < packet[r].at
        OBVIOUS
      <3>1. PICK j \in DOMAIN sched : r = sched[j]
        BY <2>2 DEF Members
      <3>2. i \in Nat /\ j \in Nat /\ r \in Nat /\ p \in Nat /\ i # j
        <4>1. DOMAIN sched \subseteq Nat
          BY <1>2
        <4>2. r \in Sent /\ r # p
          BY <1>3, <2>2
        <4>3. QED
          BY <1>1, <2>2, <3>1, <4>1, <4>2
      <3>3. ~(i < j)
        <4>1. i < j => p < r
          BY <3>1 DEF InTurn, Ascending, SameThread
        <4>2. QED
          BY <3>2, <4>1
      <3>4. j < i
        BY <3>2, <3>3
      <3>5. QED
        BY <2>1, <3>1, <3>4 DEF IsNext
    <2> HIDE DEF p, s
    <2>6. Members(sched') \subseteq Members(s) /\ Members(log') = Members(log) \cup {p}
      BY <1>2, <1>5, <2>2, <2>4
    <2>7. HeldLast'
      BY <1>1, <2>2, <2>4, <2>6 DEF InTurn, HeldLast
    <2>8. PendingLater'
      BY <1>1, <2>2, <2>4, <2>6 DEF InTurn, PendingLater, SameThread
    <2>9. SchedTimed'
      BY <1>1, <2>2, <2>6 DEF InTurn, SchedTimed
    <2>10. Overtaking'
      BY <1>1, <2>2, <2>5, <2>6 DEF InTurn, Overtaking, SameThread
    <2>11. Ascending(osc.pending, packet)' /\ Ascending(sched, packet)'
      BY <1>1, <1>6, <2>3, <2>4 DEF InTurn
    <2>12. ASSUME NEW q \in Members(log), packet[p].by = packet[q].by, p < q,
                  packet[p].at = 0 <=> packet[q].at = 0
           PROVE  ~(packet[p].at <= packet[q].at)
      <3>1. packet[p].at > 0 /\ packet[p].at \in Nat /\ packet[q].at \in Nat
        BY <1>3, <1>4, <2>2 DEF InTurn, SchedTimed
      <3>2. packet[q].at < packet[p].at
        BY <2>2, <2>12, <3>1 DEF InTurn, Overtaking, SameThread
      <3>3. QED
        BY <3>1, <3>2
    <2>13. SendOrder'
      BY <1>1, <2>2, <2>4, <2>12, LogOrder
    <2>14. QED
      BY <2>7, <2>8, <2>9, <2>10, <2>11, <2>13 DEF InTurn
  <1>10. QED
    BY <1>7, <1>8, <1>9 DEF Engine

LEMMA TurnStep ==
    Typed /\ InOnePlace /\ InTurn /\ SendOrder /\ [Next]_vars => InTurn' /\ SendOrder'
  <1> SUFFICES ASSUME Typed, InOnePlace, InTurn, SendOrder, [Next]_vars PROVE InTurn' /\ SendOrder'
    OBVIOUS
  <1>1. CASE FreeOSCPacket \/ World_Cleanup \/ UNCHANGED vars
    <2>1. UNCHANGED <<packet, net, osc, sched, log>>
      BY <1>1 DEF FreeOSCPacket, World_Cleanup, vars, netVars, rtVars
    <2>2. SendOrder'
      BY <2>1 DEF SendOrder
    <2>3. QED
      BY <2>1, <2>2, TurnFrame
  <1>2. CASE \E t \in Thread, time \in Time \cup {0}, command \in Command : Receive(t, time, command)
    BY <1>2, ReceiveTurn
  <1>3. CASE \E t \in Thread : Network(t)
    BY <1>3, NetworkTurn
  <1>4. QED
    BY <1>1, <1>2, <1>3, EngineTurn DEF Next

\* What one client sends takes effect in the order in which it was sent,
\* through mOscPacketsToEngine and the scheduler, whichever network threads
\* compete for the driver's lock meanwhile.
THEOREM ClientOrder == Spec => []SendOrder
  <1>1. Init => InOnePlace /\ Owned /\ InTurn /\ SendOrder
    <2> SUFFICES ASSUME Init PROVE InTurn /\ SendOrder
      BY PlacesInit
    <2>1. osc.pending = <<>> /\ sched = <<>> /\ log = <<>> /\ \A t \in Thread : net[t].p = None
      BY DEF Init
    <2>2. Ascending(<<>>, packet)
      BY DEF Ascending
    <2>3. SendOrder
      BY <2>1 DEF SendOrder
    <2>4. HeldLast /\ PendingLater /\ SchedTimed /\ Overtaking
      BY <2>1, EmptyQueue DEF HeldLast, PendingLater, SchedTimed, Overtaking
    <2>5. QED
      BY <2>1, <2>2, <2>3, <2>4 DEF InTurn
  <1>2. QED
    BY <1>1, AllTyped, PlacesStep, TurnStep, PTL DEF Spec
=============================================================================
