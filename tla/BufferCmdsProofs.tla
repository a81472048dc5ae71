-------------------------- MODULE BufferCmdsProofs --------------------------
(***************************************************************************)
(* The asynchronous buffer commands for every set of buffers, any number   *)
(* of commands and every way to use the server.                            *)
(*                                                                         *)
(* A buffer must not point to memory that was freed.  What makes this      *)
(* inductive is where the memory that a command will free in stage 4 can   *)
(* no longer be (Apart): not in the mirror, since stage 2; not in what     *)
(* travels to the audio thread behind the command, before its stage 3; not *)
(* in the audio thread's copy or on the way there, after it.               *)
(*                                                                         *)
(* That a sync overtakes nothing rests on the order of both FIFOs: as long *)
(* as no command is lost, of two commands the earlier one is at the same   *)
(* stage or further, those at the same stage are in a FIFO in the order    *)
(* they were received, and a completion message is the latest command of   *)
(* all (InOrder).  That the threads agree in the end is the case in which  *)
(* nothing travels any more of: the last message for a buffer brings what  *)
(* the mirror has (Agree).                                                 *)
(*                                                                         *)
(* That nothing is released twice: what a command will free is no other    *)
(* command's to free and was not freed, for as long as the command has not *)
(* been answered (FreedOnce); an open file is in the mirror of one buffer  *)
(* only, and no closed one is in any (ClosedOnce).                         *)
(*                                                                         *)
(* The steps are stated for records with the fields of the variables, so   *)
(* that stage 3 with a completion message is two steps: a command received *)
(* and a stage 3 without one.                                              *)
(***************************************************************************)
EXTENDS BufferCmds, FiniteSetTheorems, TLAPS

CmdRec ==
    [kind : AllKinds, buf : Buf, mLeaveFileOpen : BOOLEAN, completion : AllKinds \cup {"none"},
     mNextStage : 2 .. 4, mFreeData : Name \cup {Nothing}, mSndBuf : SndBuf,
     reply : {"none", "/done", "/fail"}]

Msg == [cmd : Nat, delete : BOOLEAN]

\* The state, but for use and the sound files.
State == [mirror |-> mirror, snd |-> snd, cmds |-> cmds, toNRT |-> toNRT, toRT |-> toRT,
          live |-> live, lost |-> lost, noSamples |-> noSamples, up |-> up]

Cmds(s) == 1 .. Len(s.cmds)
ToNRT(s) == 1 .. Len(s.toNRT)
ToRT(s) == 1 .. Len(s.toRT)

\* The stage that command c waits for, 4 also when it has ended.
Stage(s, c) == s.cmds[c].mNextStage

\* What command c will free in stage 4.
Old(s, c) == s.cmds[c].mFreeData

\* Stage 3 of such a command writes the audio thread's SndBuf.
Writes(kind) == Installs(kind) \/ kind = "b_free"

\* Message i to the audio thread will perform stage 3 of its command, and
\* write NewData into the audio thread's copy of buffer Dest.
Going(s, i) == ~s.toRT[i].delete
Writing(s, i) == Going(s, i) /\ Writes(s.cmds[s.toRT[i].cmd].kind)
NewData(s, i) == s.cmds[s.toRT[i].cmd].mSndBuf.data
Dest(s, i) == s.cmds[s.toRT[i].cmd].buf

Typed(s) ==
    /\ s.mirror \in [Buf -> SndBuf] /\ s.snd \in [Buf -> SndBuf]
    /\ s.cmds \in Seq(CmdRec) /\ Len(s.cmds) <= MaxCmds
    /\ s.toNRT \in Seq(Nat) /\ s.toRT \in Seq(Msg)
    /\ s.live \subseteq Name
    /\ s.lost \in BOOLEAN /\ s.noSamples \in BOOLEAN /\ s.up \in BOOLEAN

\* Every command is in one place at a time, and in the right one.
Queues(s) ==
    /\ \A i \in ToNRT(s) : s.toNRT[i] \in Cmds(s) /\ Stage(s, s.toNRT[i]) \in {2, 4}
    /\ \A i \in ToRT(s) :
          /\ s.toRT[i].cmd \in Cmds(s)
          /\ Going(s, i) => /\ Stage(s, s.toRT[i].cmd) = 3
                            /\ s.cmds[s.toRT[i].cmd].reply = "none"
    /\ \A i, j \in ToNRT(s) : s.toNRT[i] = s.toNRT[j] => i = j
    /\ \A i, j \in ToRT(s) :
          Going(s, i) /\ Going(s, j) /\ s.toRT[i].cmd = s.toRT[j].cmd => i = j

\* Memory d, if it is any, is of a command that has allocated it, for buffer b.
Made(s, d, b) == d # Nothing => d \in Cmds(s) /\ Stage(s, d) # 2 /\ s.cmds[d].buf = b

\* What a command has, by its stage and its kind.
Record(r) ==
    /\ r.mNextStage = 2 => r.mFreeData = Nothing /\ r.mSndBuf.data = Nothing /\ r.reply = "none"
    /\ r.kind = "b_free" => r.mSndBuf.data = Nothing
    /\ ~Writes(r.kind) \/ r.reply = "/fail" => r.mFreeData = Nothing
    /\ r.reply = "/done" => r.mNextStage = 4
    /\ r.reply = "/fail" => r.mNextStage = 3

Names(s) ==
    /\ \A b \in Buf : Made(s, s.mirror[b].data, b) /\ Made(s, s.snd[b].data, b)
    /\ \A c \in Cmds(s) : /\ Made(s, Old(s, c), s.cmds[c].buf)
                          /\ Made(s, s.cmds[c].mSndBuf.data, s.cmds[c].buf)
                          /\ Record(s.cmds[c])

Base(s) == Typed(s) /\ Queues(s) /\ Names(s)

\* Apart, see the introduction.  All that points to memory points to memory
\* that was not freed.
Pointing(s) ==
    /\ \A b \in Buf : /\ s.mirror[b].data \in s.live \cup {Nothing}
                      /\ s.snd[b].data \in s.live \cup {Nothing}
    /\ \A i \in ToRT(s) : Writing(s, i) => NewData(s, i) \in s.live \cup {Nothing}

\* Where what command c will free is no longer.
Gone(s, c) ==
    Old(s, c) # Nothing =>
        /\ s.mirror[s.cmds[c].buf].data # Old(s, c)
        /\ Stage(s, c) = 4 =>
              /\ s.snd[s.cmds[c].buf].data # Old(s, c)
              /\ \A i \in ToRT(s) : Writing(s, i) => NewData(s, i) # Old(s, c)

Behind(s, i) ==
    Going(s, i) /\ Old(s, s.toRT[i].cmd) # Nothing =>
        \A j \in ToRT(s) : i <= j /\ Writing(s, j) => NewData(s, j) # Old(s, s.toRT[i].cmd)

Apart(s) ==
    s.up /\ ~s.noSamples =>
        /\ Pointing(s)
        /\ \A c \in Cmds(s) : Gone(s, c)
        /\ \A i \in ToRT(s) : Behind(s, i)

\* The FIFO that command c is in, if it has not ended.
Waits(s, c) ==
    /\ Stage(s, c) = 2 => \E i \in ToNRT(s) : s.toNRT[i] = c
    /\ Stage(s, c) = 3 => \/ s.cmds[c].reply = "/fail"
                          \/ \E i \in ToRT(s) : Going(s, i) /\ s.toRT[i].cmd = c
    /\ Stage(s, c) = 4 => \/ s.cmds[c].reply = "/done"
                          \/ \E i \in ToNRT(s) : s.toNRT[i] = c

InOrder(s) ==
    ~s.lost =>
        /\ \A c \in Cmds(s) : Waits(s, c)
        /\ \A c, d \in Cmds(s) : d < c => Stage(s, d) >= Stage(s, c) \/ s.cmds[d].reply = "/fail"
        /\ \A i, j \in ToNRT(s) :
              i < j /\ Stage(s, s.toNRT[i]) = Stage(s, s.toNRT[j]) => s.toNRT[i] < s.toNRT[j]
        /\ \A i, j \in ToRT(s) :
              i < j /\ Going(s, i) /\ Going(s, j) => s.toRT[i].cmd < s.toRT[j].cmd
        /\ \A c, d \in Cmds(s) :
              d < c /\ s.cmds[c].reply = "/done" => s.cmds[d].reply # "none"

\* No message after message i writes buffer b.
LastFor(s, i, b) == \A j \in ToRT(s) : i < j /\ Writing(s, j) => Dest(s, j) # b

Agree(s) ==
    s.up /\ ~s.lost =>
        /\ \A b \in Buf : LastFor(s, 0, b) => s.snd[b].data = s.mirror[b].data
        /\ \A i \in ToRT(s) : Writing(s, i) /\ LastFor(s, i, Dest(s, i)) =>
              NewData(s, i) = s.mirror[Dest(s, i)].data
        /\ ~s.noSamples =>
              \A x \in s.live : \/ \E b \in Buf : s.mirror[b].data = x
                                \/ \E c \in Cmds(s) : Old(s, c) = x /\ s.cmds[c].reply = "none"

Good(s) == Base(s) /\ Apart(s) /\ InOrder(s) /\ Agree(s)

-----------------------------------------------------------------------------
(* The FIFOs and the list of commands. *)

Pushed(q, p, x) ==
    /\ Len(p) = Len(q) + 1 /\ p[Len(q) + 1] = x
    /\ \A i \in 1 .. Len(q) : p[i] = q[i]

Popped(q, p, x) ==
    /\ Len(q) = Len(p) + 1 /\ q[1] = x
    /\ \A i \in 1 .. Len(p) : p[i] = q[i + 1]

LEMMA AppendPushed ==
    ASSUME NEW S, NEW q \in Seq(S), NEW x \in S
    PROVE  Append(q, x) \in Seq(S) /\ Pushed(q, Append(q, x), x)
  BY DEF Pushed

LEMMA TailPopped ==
    ASSUME NEW S, NEW q \in Seq(S), q # <<>>
    PROVE  Tail(q) \in Seq(S) /\ Popped(q, Tail(q), Head(q)) /\ Head(q) \in S
  BY DEF Popped

\* What a message sent through a FIFO of either direction does to the FIFO
\* and to lost: it is there, or it is lost.
Pass(q, p, x, l, k) == (Pushed(q, p, x) /\ k = l) \/ (p = q /\ k = TRUE)

LEMMA SentPass ==
    ASSUME NEW S, NEW q \in Seq(S), NEW x \in S, NEW p \in Sent(q, x),
           NEW l \in BOOLEAN, NEW k, k = (l \/ p = q)
    PROVE  p \in Seq(S) /\ Pass(q, p, x, l, k) /\ k \in BOOLEAN
  <1>1. p = Append(q, x) \/ p = q
    BY DEF Sent
  <1>2. CASE p = Append(q, x)
    <2>1. p # q
      BY <1>2
    <2>2. k = l
      BY <2>1, Zenon
    <2>3. QED
      BY <1>2, <2>2, AppendPushed DEF Pass
  <1>3. CASE p = q
    <2>1. k = TRUE
      BY <1>3, Zenon
    <2>2. QED
      BY <1>3, <2>1 DEF Pass
  <1>4. QED
    BY <1>1, <1>2, <1>3

LEMMA CmdType ==
    ASSUME NEW s, Typed(s), NEW c \in Cmds(s)
    PROVE  /\ s.cmds[c] \in CmdRec /\ s.cmds[c].mNextStage \in 2 .. 4
           /\ s.cmds[c].buf \in Buf /\ s.cmds[c].kind \in AllKinds
           /\ s.cmds[c].mFreeData \in Name \cup {Nothing}
           /\ s.cmds[c].mSndBuf \in SndBuf
           /\ s.cmds[c].reply \in {"none", "/done", "/fail"}
  <1>1. s.cmds[c] \in CmdRec
    BY DEF Typed, Cmds
  <1>2. QED
    BY <1>1 DEF CmdRec

\* The elements of a FIFO after a message was sent, and after one was taken.
LEMMA PassAt ==
    ASSUME NEW S, NEW q \in Seq(S), NEW p \in Seq(S), NEW x, NEW l, NEW k, Pass(q, p, x, l, k)
    PROVE  /\ Len(q) \in Nat /\ Len(p) \in Nat
           /\ \A i \in 1 .. Len(p) : \/ i \in 1 .. Len(q) /\ p[i] = q[i]
                                     \/ i = Len(q) + 1 /\ p[i] = x
           /\ \A i \in 1 .. Len(q) : i \in 1 .. Len(p) /\ p[i] = q[i] /\ i < Len(q) + 1
  BY DEF Pass, Pushed

LEMMA PushedAt ==
    ASSUME NEW S, NEW q \in Seq(S), NEW p \in Seq(S), NEW x, Pushed(q, p, x)
    PROVE  /\ Len(q) \in Nat /\ Len(q) + 1 \in 1 .. Len(p) /\ p[Len(q) + 1] = x
           /\ \A i \in 1 .. Len(p) : \/ i \in 1 .. Len(q) /\ p[i] = q[i]
                                     \/ i = Len(q) + 1 /\ p[i] = x
           /\ \A i \in 1 .. Len(q) : i \in 1 .. Len(p) /\ p[i] = q[i] /\ i < Len(q) + 1
  BY DEF Pushed

LEMMA PoppedAt ==
    ASSUME NEW S, NEW q \in Seq(S), NEW p \in Seq(S), NEW x, Popped(q, p, x)
    PROVE  /\ 1 \in 1 .. Len(q) /\ q[1] = x
           /\ \A i \in 1 .. Len(p) : i \in Nat /\ i + 1 \in 1 .. Len(q) /\ p[i] = q[i + 1]
           /\ \A i \in 1 .. Len(q) : \/ i = 1
                                     \/ 1 < i /\ i - 1 \in 1 .. Len(p) /\ p[i - 1] = q[i]
  BY DEF Popped

-----------------------------------------------------------------------------
(* A command is received. *)

New(r) == /\ r \in CmdRec /\ r.mNextStage = 2 /\ r.mFreeData = Nothing
          /\ r.mSndBuf.data = Nothing /\ r.reply = "none"

Received(s, t, r) ==
    /\ New(r)
    /\ t.cmds \in Seq(CmdRec) /\ Pushed(s.cmds, t.cmds, r) /\ Len(t.cmds) <= MaxCmds
    /\ t.toNRT \in Seq(Nat) /\ Pass(s.toNRT, t.toNRT, Len(s.cmds) + 1, s.lost, t.lost)
    /\ t.lost \in BOOLEAN
    /\ t.mirror = s.mirror /\ t.snd = s.snd /\ t.toRT = s.toRT /\ t.live = s.live
    /\ t.noSamples = s.noSamples /\ t.up = s.up

\* The commands there were before are as they were.
Grew(s, t, r, n) ==
    /\ n \in Nat /\ n \in Cmds(t) /\ n \notin Cmds(s) /\ t.cmds[n] = r
    /\ \A c \in Cmds(t) : c \in Cmds(s) \/ c = n
    /\ \A c \in Cmds(s) : c \in Cmds(t) /\ c < n /\ c \in Nat /\ t.cmds[c] = s.cmds[c]

LEMMA ReceivedGrew ==
    ASSUME NEW s, NEW t, NEW r, Base(s), Received(s, t, r)
    PROVE  Grew(s, t, r, Len(s.cmds) + 1)
  <1>1. s.cmds \in Seq(CmdRec) /\ t.cmds \in Seq(CmdRec) /\ Pushed(s.cmds, t.cmds, r)
    BY DEF Base, Typed, Received
  <1>2. QED
    BY <1>1, PushedAt DEF Grew, Cmds

\* What travels to the audio thread is as it was.
SameRT(s, t) ==
    /\ ToRT(t) = ToRT(s)
    /\ \A i \in ToRT(s) :
          /\ t.toRT[i] = s.toRT[i] /\ t.toRT[i].cmd \in Cmds(s)
          /\ t.cmds[t.toRT[i].cmd] = s.cmds[s.toRT[i].cmd]
          /\ Going(t, i) <=> Going(s, i)
          /\ Writing(t, i) <=> Writing(s, i)
          /\ NewData(t, i) = NewData(s, i) /\ Dest(t, i) = Dest(s, i)

LEMMA ReceivedRT ==
    ASSUME NEW s, NEW t, NEW r, Base(s), Received(s, t, r)
    PROVE  SameRT(s, t)
  <1>1. Grew(s, t, r, Len(s.cmds) + 1)
    BY ReceivedGrew
  <1>2. t.toRT = s.toRT /\ \A i \in ToRT(s) : s.toRT[i].cmd \in Cmds(s)
    BY DEF Received, Base, Queues
  <1>3. \A i \in ToRT(s) : t.cmds[s.toRT[i].cmd] = s.cmds[s.toRT[i].cmd]
    BY <1>1, <1>2 DEF Grew
  <1>4. QED
    BY <1>2, <1>3 DEF SameRT, ToRT, Going, Writing, NewData, Dest

LEMMA ReceivedBase ==
    ASSUME NEW s, NEW t, NEW r, Base(s), Received(s, t, r)
    PROVE  Base(t)
  <1>1. PICK n : n = Len(s.cmds) + 1
    OBVIOUS
  <1>2. Grew(s, t, r, n) /\ SameRT(s, t)
    BY <1>1, ReceivedGrew, ReceivedRT
  <1>3. Typed(t)
    BY DEF Base, Typed, Received
  <1>4. \A i \in ToNRT(t) : \/ i \in ToNRT(s) /\ t.toNRT[i] = s.toNRT[i]
                            \/ i = Len(s.toNRT) + 1 /\ t.toNRT[i] = n
    <2>1. s.toNRT \in Seq(Nat) /\ t.toNRT \in Seq(Nat) /\ Pass(s.toNRT, t.toNRT, n, s.lost, t.lost)
      BY <1>1 DEF Base, Typed, Received
    <2>2. QED
      BY <2>1, PassAt DEF ToNRT
  <1>5. \A i \in ToNRT(s) : s.toNRT[i] \in Cmds(s) /\ Stage(s, s.toNRT[i]) \in {2, 4}
    BY DEF Base, Queues
  <1>6. \A i \in ToNRT(t) : t.toNRT[i] \in Cmds(t) /\ Stage(t, t.toNRT[i]) \in {2, 4}
    BY <1>2, <1>4, <1>5, ZenonT(60) DEF Grew, Stage, Received, New
  <1>7. ASSUME NEW i \in ToNRT(t), NEW j \in ToNRT(t), t.toNRT[i] = t.toNRT[j]
        PROVE  i = j
    BY <1>2, <1>4, <1>5, <1>7 DEF Grew, Base, Queues
  <1>8. Queues(t)
    BY <1>2, <1>6, <1>7, ZenonT(60) DEF Queues, SameRT, Grew, Base, Stage
  <1>9. \A d, b : Made(s, d, b) => Made(t, d, b)
    BY <1>2 DEF Made, Grew, Stage
  <1>10. Made(t, r.mFreeData, r.buf) /\ Made(t, r.mSndBuf.data, r.buf)
    BY DEF Made, Received, New
  <1>11. Record(r)
    BY DEF Received, New, Record
  <1>12. ASSUME NEW c \in Cmds(t)
         PROVE  /\ Made(t, Old(t, c), t.cmds[c].buf)
                /\ Made(t, t.cmds[c].mSndBuf.data, t.cmds[c].buf)
                /\ Record(t.cmds[c])
    <2>1. CASE c = n
      BY <2>1, <1>2, <1>10, <1>11 DEF Grew, Old
    <2>2. CASE c \in Cmds(s)
      BY <2>2, <1>2, <1>9 DEF Grew, Old, Base, Names
    <2>3. QED
      BY <2>1, <2>2, <1>2 DEF Grew
  <1>13. Names(t)
    <2>1. t.mirror = s.mirror /\ t.snd = s.snd
      BY DEF Received
    <2>2. QED
      BY <2>1, <1>9, <1>12 DEF Names, Base
  <1>14. QED
    BY <1>3, <1>8, <1>13 DEF Base

LEMMA ReceivedApart ==
    ASSUME NEW s, NEW t, NEW r, Base(s), Apart(s), Received(s, t, r)
    PROVE  Apart(t)
  <1>1. PICK n : n = Len(s.cmds) + 1
    OBVIOUS
  <1>2. Grew(s, t, r, n) /\ SameRT(s, t)
    BY <1>1, ReceivedGrew, ReceivedRT
  <1>3. /\ t.mirror = s.mirror /\ t.snd = s.snd /\ t.live = s.live
        /\ t.noSamples = s.noSamples /\ t.up = s.up
    BY DEF Received
  <1>4. Old(t, n) = Nothing /\ \A c \in Cmds(s) : Old(t, c) = Old(s, c) /\ Stage(t, c) = Stage(s, c)
    BY <1>2 DEF Grew, Old, Stage, Received, New
  <1> SUFFICES ASSUME t.up /\ ~t.noSamples PROVE Apart(t)
    BY DEF Apart
  <1>5. Pointing(s) /\ (\A c \in Cmds(s) : Gone(s, c)) /\ (\A i \in ToRT(s) : Behind(s, i))
    BY <1>3 DEF Apart
  <1>6. Pointing(t)
    BY <1>2, <1>3, <1>5 DEF Pointing, SameRT
  <1>7. ASSUME NEW c \in Cmds(t) PROVE Gone(t, c)
    <2>1. CASE c = n
      BY <2>1, <1>4 DEF Gone
    <2>2. CASE c \in Cmds(s)
      <3>1. Gone(s, c) /\ t.cmds[c] = s.cmds[c]
        BY <2>2, <1>2, <1>5 DEF Grew
      <3>2. QED
        BY <2>2, <3>1, <1>2, <1>3, <1>4 DEF Gone, SameRT
    <2>3. QED
      BY <2>1, <2>2, <1>2 DEF Grew
  <1>8. ASSUME NEW i \in ToRT(t) PROVE Behind(t, i)
    <2>1. i \in ToRT(s) /\ Behind(s, i) /\ s.toRT[i].cmd \in Cmds(s)
      BY <1>2, <1>5 DEF SameRT, Base, Queues
    <2>2. QED
      BY <2>1, <1>2, <1>4 DEF Behind, SameRT
  <1>9. QED
    BY <1>6, <1>7, <1>8 DEF Apart

LEMMA ReceivedInOrder ==
    ASSUME NEW s, NEW t, NEW r, Base(s), InOrder(s), Received(s, t, r)
    PROVE  InOrder(t)
  <1> SUFFICES ASSUME ~t.lost PROVE InOrder(t)
    BY DEF InOrder
  <1>1. PICK n : n = Len(s.cmds) + 1
    OBVIOUS
  <1>2. Grew(s, t, r, n) /\ SameRT(s, t) /\ Base(t)
    BY <1>1, ReceivedGrew, ReceivedRT, ReceivedBase
  <1>3. Pushed(s.toNRT, t.toNRT, n) /\ ~s.lost
    BY <1>1 DEF Received, Pass
  <1>4. /\ Len(s.toNRT) \in Nat /\ Len(s.toNRT) + 1 \in ToNRT(t) /\ t.toNRT[Len(s.toNRT) + 1] = n
        /\ \A i \in ToNRT(t) : \/ i \in ToNRT(s) /\ t.toNRT[i] = s.toNRT[i]
                               \/ i = Len(s.toNRT) + 1 /\ t.toNRT[i] = n
        /\ \A i \in ToNRT(s) : i \in ToNRT(t) /\ t.toNRT[i] = s.toNRT[i] /\ i < Len(s.toNRT) + 1
    <2>1. s.toNRT \in Seq(Nat) /\ t.toNRT \in Seq(Nat)
      BY DEF Base, Typed, Received
    <2>2. QED
      BY <2>1, <1>3, PushedAt, ZenonT(60) DEF ToNRT
  <1>5. \A c \in Cmds(s) : Stage(t, c) = Stage(s, c) /\ t.cmds[c] = s.cmds[c]
    BY <1>2 DEF Grew, Stage
  <1>6. Stage(t, n) = 2 /\ t.cmds[n].reply = "none"
    BY <1>2 DEF Grew, Stage, Received, New
  <1>7. ASSUME NEW c \in Cmds(t) PROVE Waits(t, c)
    <2>1. CASE c = n
      BY <2>1, <1>4, <1>6 DEF Waits
    <2>2. CASE c \in Cmds(s)
      <3>1. Waits(s, c)
        BY <2>2, <1>3 DEF InOrder
      <3>2. QED
        BY <2>2, <3>1, <1>2, <1>4, <1>5 DEF Waits, SameRT
    <2>3. QED
      BY <2>1, <2>2, <1>2 DEF Grew
  <1>8. ASSUME NEW c \in Cmds(t), NEW d \in Cmds(t), d < c
        PROVE  /\ Stage(t, d) >= Stage(t, c) \/ t.cmds[d].reply = "/fail"
               /\ t.cmds[c].reply = "/done" => t.cmds[d].reply # "none"
    <2>1. d \in Cmds(s)
      <3>1. n \in Nat /\ (c = n \/ (c < n /\ c \in Nat))
        BY <1>2 DEF Grew
      <3>2. d # n
        BY <3>1, <1>8
      <3>3. QED
        BY <3>2, <1>2 DEF Grew
    <2>2. Stage(s, d) \in 2 .. 4
      BY <2>1, CmdType DEF Base, Stage
    <2>3. CASE c = n
      BY <2>1, <2>2, <2>3, <1>5, <1>6
    <2>4. CASE c \in Cmds(s)
      BY <2>1, <2>4, <1>3, <1>5, <1>8 DEF InOrder
    <2>5. QED
      BY <2>3, <2>4, <1>2 DEF Grew
  <1>9. ASSUME NEW i \in ToNRT(t), NEW j \in ToNRT(t), i < j,
               Stage(t, t.toNRT[i]) = Stage(t, t.toNRT[j])
        PROVE  t.toNRT[i] < t.toNRT[j]
    <2>1. i \in ToNRT(s) /\ t.toNRT[i] = s.toNRT[i] /\ s.toNRT[i] \in Cmds(s)
      BY <1>4, <1>9 DEF ToNRT, Base, Queues
    <2>2. CASE t.toNRT[j] = n
      BY <2>1, <2>2, <1>2 DEF Grew
    <2>3. CASE j \in ToNRT(s) /\ t.toNRT[j] = s.toNRT[j]
      BY <2>1, <2>3, <1>3, <1>5, <1>9 DEF InOrder, Base, Queues
    <2>4. QED
      BY <2>2, <2>3, <1>4
  <1>10. ASSUME NEW i \in ToRT(t), NEW j \in ToRT(t), i < j, Going(t, i), Going(t, j)
         PROVE  t.toRT[i].cmd < t.toRT[j].cmd
    BY <1>2, <1>3, <1>10 DEF SameRT, InOrder
  <1>11. QED
    BY <1>7, <1>8, <1>9, <1>10 DEF InOrder

LEMMA ReceivedAgree ==
    ASSUME NEW s, NEW t, NEW r, Base(s), Agree(s), Received(s, t, r)
    PROVE  Agree(t)
  <1>1. PICK n : n = Len(s.cmds) + 1
    OBVIOUS
  <1>2. Grew(s, t, r, n) /\ SameRT(s, t)
    BY <1>1, ReceivedGrew, ReceivedRT
  <1>3. /\ t.mirror = s.mirror /\ t.snd = s.snd /\ t.live = s.live
        /\ t.noSamples = s.noSamples /\ t.up = s.up
    BY DEF Received
  <1>4. ~t.lost => ~s.lost
    BY DEF Received, Pass
  <1>5. \A c \in Cmds(s) : c \in Cmds(t) /\ Old(t, c) = Old(s, c) /\ t.cmds[c] = s.cmds[c]
    BY <1>2 DEF Grew, Old
  <1>6. \A i, b : LastFor(t, i, b) <=> LastFor(s, i, b)
    BY <1>2 DEF LastFor, SameRT
  <1>7. QED
    BY <1>2, <1>3, <1>4, <1>5, <1>6 DEF Agree, SameRT

-----------------------------------------------------------------------------
(* Stage 2. *)

\* The ways stage 2 of command c can go, by what becomes of the memory.
Kept(s, c, o) ==
    /\ o.buf.data = s.mirror[s.cmds[c].buf].data /\ o.mFreeData = Nothing /\ o.alloc = {}
    /\ s.cmds[c].kind # "b_free" /\ o.noSamples = FALSE

Replaced(s, c, o) ==
    /\ o.buf.data = c /\ o.mFreeData = s.mirror[s.cmds[c].buf].data /\ o.alloc = {c}
    /\ Installs(s.cmds[c].kind) /\ s.cmds[c].kind # "b_free"
    /\ o.sendAgain = TRUE /\ o.noSamples = FALSE

Freed(s, c, o) ==
    /\ o.buf.data = Nothing /\ o.mFreeData = s.mirror[s.cmds[c].buf].data /\ o.alloc = {}
    /\ s.cmds[c].kind = "b_free" /\ o.sendAgain = TRUE /\ o.noSamples = FALSE

Unsampled(s, c, o) ==
    /\ o.buf.data = s.mirror[s.cmds[c].buf].data /\ o.alloc = {}
    /\ o.mFreeData = s.mirror[s.cmds[c].buf].data
    /\ Installs(s.cmds[c].kind) /\ s.cmds[c].kind # "b_free"
    /\ o.sendAgain = TRUE /\ o.noSamples = TRUE

\* What becomes of the file that buffer had open: it stays, or it is closed and
\* perhaps replaced by the command's own, or both are closed.
FileOutcome(s, c, o, f) ==
    \/ o.buf.sndfile = f /\ o.shut = <<>>
    \/ o.buf.sndfile \in {Nothing, c} /\ o.shut = SeqIf(f)
    \/ o.buf.sndfile = Nothing /\ o.shut = SeqIf(f) \o <<c>>

Outcome(s, c, o) ==
    /\ FileOutcome(s, c, o, s.mirror[s.cmds[c].buf].sndfile)
    /\ Kept(s, c, o) \/ Replaced(s, c, o) \/ Freed(s, c, o) \/ Unsampled(s, c, o)
    /\ o.buf \in SndBuf /\ o.sendAgain \in BOOLEAN /\ o.noSamples \in BOOLEAN
    /\ o.opened \subseteq {c}

Out(buf, data, alloc, opened, shut, again, none) ==
    [buf |-> buf, mFreeData |-> data, alloc |-> alloc, opened |-> opened, shut |-> shut,
     sendAgain |-> again, noSamples |-> none]

LEMMA Stage2Outcome ==
    ASSUME NEW s, s = State, Typed(s), NEW c \in Cmds(s), NEW o \in Stage2(c)
    PROVE  Outcome(s, c, o)
  <1>1. PICK m : m = mirror[cmds[c].buf]
    OBVIOUS
  <1>2. PICK x : x = m.data
    OBVIOUS
  <1>3. PICK f : f = m.sndfile
    OBVIOUS
  <1>4. PICK k : k = cmds[c].kind
    OBVIOUS
  <1>5. /\ s.mirror[s.cmds[c].buf] = m /\ s.cmds[c].kind = k
        /\ m \in SndBuf /\ k \in AllKinds /\ c \in Name /\ m = [data |-> x, sndfile |-> f]
        /\ x \in Name \cup {Nothing} /\ f \in Name \cup {Nothing}
    <2>1. s.mirror = mirror /\ s.cmds = cmds
      BY DEF State
    <2>2. s.cmds[c].buf \in Buf /\ s.cmds[c].kind \in AllKinds /\ s.mirror \in [Buf -> SndBuf]
      BY CmdType DEF Typed
    <2>3. c \in Name
      BY CmdAssumption DEF Typed, Cmds, Name
    <2>4. QED
      BY <2>1, <2>2, <2>3, <1>1, <1>2, <1>3, <1>4 DEF SndBuf
  <1>6. PICK yes, no, nil, own :
           yes = TRUE /\ no = FALSE /\ nil = << >> /\ own = {c}
    BY Zenon
  <1>7. PICK md, ms, mn : /\ md = [m EXCEPT !.data = c]
                          /\ ms = [m EXCEPT !.sndfile = c]
                          /\ mn = [m EXCEPT !.sndfile = Nothing]
    BY Zenon
  <1>8. Mirror(c) = m /\ Mirror(c).data = x /\ Mirror(c).sndfile = f
    BY <1>1, <1>2, <1>3 DEF Mirror
  <1>9. PICK r : r = Out(m, Nothing, {}, {}, nil, yes, no)
    OBVIOUS
  <1>10. NoChange(c) = r
    BY <1>6, <1>8, <1>9, Zenon DEF NoChange, Out
  <1>11. PICK fail, new, none, free, reopen, reopened, close :
           /\ fail = Out(m, Nothing, {}, {}, nil, no, no)
           /\ new = Out(md, x, own, {}, nil, yes, no)
           /\ none = Out(m, x, {}, {}, nil, yes, yes)
           /\ free = Out(EmptyBuf, x, {}, {}, SeqIf(f), yes, no)
           /\ reopen = Out(ms, Nothing, {}, own, SeqIf(f), yes, no)
           /\ reopened = Out(mn, Nothing, {}, own, SeqIf(f) \o <<c>>, yes, no)
           /\ close = Out(mn, Nothing, {}, {}, SeqIf(f), yes, no)
    BY Zenon
  <1>12. [r EXCEPT !.sendAgain = no] = fail
    <2>1. PICK r1 : r1 = [r EXCEPT !.sendAgain = no]
      OBVIOUS
    <2>2. r1 = Out(m, Nothing, {}, {}, nil, no, no)
      BY <1>9, <2>1 DEF Out
    <2>3. QED
      BY <2>1, <2>2, <1>11, Zenon
  <1>13. Failing(c) = {fail}
    BY <1>6, <1>10, <1>12, Zenon DEF Failing
  <1>14. [r EXCEPT !.buf.data = c, !.alloc = own, !.mFreeData = x] = new
    <2>1. PICK r1 : r1 = [r EXCEPT !.buf.data = c]
      OBVIOUS
    <2>2. r.buf = m
      BY <1>9 DEF Out
    <2>3. [r EXCEPT !.buf = md] = Out(md, Nothing, {}, {}, nil, yes, no)
      BY <1>9 DEF Out
    <2>4. r1 = Out(md, Nothing, {}, {}, nil, yes, no)
      BY <2>1, <2>2, <2>3, <1>7, Zenon
    <2>5. PICK r2 : r2 = [r1 EXCEPT !.alloc = own]
      OBVIOUS
    <2>6. r2 = Out(md, Nothing, own, {}, nil, yes, no)
      BY <2>4, <2>5 DEF Out
    <2>7. PICK r3 : r3 = [r2 EXCEPT !.mFreeData = x]
      OBVIOUS
    <2>8. r3 = Out(md, x, own, {}, nil, yes, no)
      BY <2>6, <2>7 DEF Out
    <2>9. QED
      BY <2>1, <2>5, <2>7, <2>8, <1>11, Zenon
  <1>15. BufGen_Stage2(c) = {NoChange(c), new}
    BY <1>6, <1>8, <1>10, <1>14, Zenon DEF BufGen_Stage2
  <1>16. [r EXCEPT !.buf = EmptyBuf, !.mFreeData = x, !.shut = SeqIf(f)] = free
    <2>1. PICK r1 : r1 = [r EXCEPT !.buf = EmptyBuf]
      OBVIOUS
    <2>2. r1 = Out(EmptyBuf, Nothing, {}, {}, nil, yes, no)
      BY <1>9, <2>1 DEF Out
    <2>3. PICK r2 : r2 = [r1 EXCEPT !.mFreeData = x]
      OBVIOUS
    <2>4. r2 = Out(EmptyBuf, x, {}, {}, nil, yes, no)
      BY <2>2, <2>3 DEF Out
    <2>5. PICK r3 : r3 = [r2 EXCEPT !.shut = SeqIf(f)]
      OBVIOUS
    <2>6. r3 = Out(EmptyBuf, x, {}, {}, SeqIf(f), yes, no)
      BY <2>4, <2>5 DEF Out
    <2>7. QED
      BY <2>1, <2>3, <2>5, <2>6, <1>11, Zenon
  <1>17. BufFree_Stage2(c) = {free}
    BY <1>6, <1>8, <1>10, <1>16, Zenon DEF BufFree_Stage2
  <1>18. [r EXCEPT !.buf.sndfile = Nothing, !.shut = SeqIf(f)] = close
    <2>1. PICK r1 : r1 = [r EXCEPT !.buf.sndfile = Nothing]
      OBVIOUS
    <2>2. r.buf = m
      BY <1>9 DEF Out
    <2>3. [r EXCEPT !.buf = mn] = Out(mn, Nothing, {}, {}, nil, yes, no)
      BY <1>9 DEF Out
    <2>4. r1 = Out(mn, Nothing, {}, {}, nil, yes, no)
      BY <2>1, <2>2, <2>3, <1>7, Zenon
    <2>5. PICK r2 : r2 = [r1 EXCEPT !.shut = SeqIf(f)]
      OBVIOUS
    <2>6. r2 = Out(mn, Nothing, {}, {}, SeqIf(f), yes, no)
      BY <2>4, <2>5 DEF Out
    <2>7. QED
      BY <2>1, <2>5, <2>6, <1>11, Zenon
  <1>19. BufClose_Stage2(c) = {close}
    BY <1>6, <1>8, <1>10, <1>18, Zenon DEF BufClose_Stage2
  <1>20. [r EXCEPT !.buf.sndfile = c, !.opened = own, !.shut = SeqIf(f)] = reopen
    <2>1. PICK r1 : r1 = [r EXCEPT !.buf.sndfile = c]
      OBVIOUS
    <2>2. r.buf = m
      BY <1>9 DEF Out
    <2>3. [r EXCEPT !.buf = ms] = Out(ms, Nothing, {}, {}, nil, yes, no)
      BY <1>9 DEF Out
    <2>4. r1 = Out(ms, Nothing, {}, {}, nil, yes, no)
      BY <2>1, <2>2, <2>3, <1>7, Zenon
    <2>5. PICK r2 : r2 = [r1 EXCEPT !.opened = own]
      OBVIOUS
    <2>6. r2 = Out(ms, Nothing, {}, own, nil, yes, no)
      BY <2>4, <2>5 DEF Out
    <2>7. PICK r3 : r3 = [r2 EXCEPT !.shut = SeqIf(f)]
      OBVIOUS
    <2>8. r3 = Out(ms, Nothing, {}, own, SeqIf(f), yes, no)
      BY <2>6, <2>7 DEF Out
    <2>9. QED
      BY <2>1, <2>5, <2>7, <2>8, <1>11, Zenon
  <1>21. [r EXCEPT !.buf.sndfile = Nothing, !.opened = own, !.shut = SeqIf(f) \o <<c>>] = reopened
    <2>1. PICK r1 : r1 = [r EXCEPT !.buf.sndfile = Nothing]
      OBVIOUS
    <2>2. r.buf = m
      BY <1>9 DEF Out
    <2>3. [r EXCEPT !.buf = mn] = Out(mn, Nothing, {}, {}, nil, yes, no)
      BY <1>9 DEF Out
    <2>4. r1 = Out(mn, Nothing, {}, {}, nil, yes, no)
      BY <2>1, <2>2, <2>3, <1>7, Zenon
    <2>5. PICK r2 : r2 = [r1 EXCEPT !.opened = own]
      OBVIOUS
    <2>6. r2 = Out(mn, Nothing, {}, own, nil, yes, no)
      BY <2>4, <2>5 DEF Out
    <2>7. PICK r3 : r3 = [r2 EXCEPT !.shut = SeqIf(f) \o <<c>>]
      OBVIOUS
    <2>8. r3 = Out(mn, Nothing, {}, own, SeqIf(f) \o <<c>>, yes, no)
      BY <2>6, <2>7 DEF Out
    <2>9. QED
      BY <2>1, <2>5, <2>7, <2>8, <1>11, Zenon
  <1>22. Reopening(c) = reopen \/ Reopening(c) = reopened
    BY <1>6, <1>8, <1>10, <1>20, <1>21, Zenon DEF Reopening
  <1>23. PICK old : old = [r EXCEPT !.mFreeData = x]
    OBVIOUS
  <1>24. old = Out(m, x, {}, {}, nil, yes, no)
    BY <1>9, <1>23 DEF Out
  <1>25. [old EXCEPT !.buf.data = c, !.alloc = own] = new
    <2>1. PICK r1 : r1 = [old EXCEPT !.buf.data = c]
      OBVIOUS
    <2>2. old.buf = m
      BY <1>24 DEF Out
    <2>3. [old EXCEPT !.buf = md] = Out(md, x, {}, {}, nil, yes, no)
      BY <1>24 DEF Out
    <2>4. r1 = Out(md, x, {}, {}, nil, yes, no)
      BY <2>1, <2>2, <2>3, <1>7, Zenon
    <2>5. PICK r2 : r2 = [r1 EXCEPT !.alloc = own]
      OBVIOUS
    <2>6. r2 = Out(md, x, own, {}, nil, yes, no)
      BY <2>4, <2>5 DEF Out
    <2>7. QED
      BY <2>1, <2>5, <2>6, <1>11, Zenon
  <1>26. [old EXCEPT !.noSamples = yes] = none
    <2>1. PICK r1 : r1 = [old EXCEPT !.noSamples = yes]
      OBVIOUS
    <2>2. r1 = Out(m, x, {}, {}, nil, yes, yes)
      BY <1>24, <2>1 DEF Out
    <2>3. QED
      BY <2>1, <2>2, <1>11, Zenon
  <1>27. bufAlloc(c) = {new, none}
    BY <1>6, <1>8, <1>10, <1>23, <1>25, <1>26, Zenon DEF bufAlloc
  <1>28. Reading(c) \subseteq {NoChange(c), fail, reopen, reopened}
    BY <1>13, <1>22 DEF Reading
  <1>29. BufWrite_Stage2(c) \subseteq {fail, reopen, reopened}
    BY <1>13, <1>22 DEF BufWrite_Stage2
  <1>30. /\ \A q \in {NoChange(c), fail, reopen, reopened, close} :
              /\ q.buf \in {m, ms, mn} /\ q.mFreeData = Nothing /\ q.alloc = {}
              /\ q.opened \subseteq own /\ q.sendAgain \in {yes, no} /\ q.noSamples = no
        /\ /\ new.buf = md /\ new.mFreeData = x /\ new.alloc = own /\ new.opened = {}
           /\ new.sendAgain = yes /\ new.noSamples = no
        /\ /\ none.buf = m /\ none.mFreeData = x /\ none.alloc = {} /\ none.opened = {}
           /\ none.sendAgain = yes /\ none.noSamples = yes
        /\ /\ free.buf = EmptyBuf /\ free.mFreeData = x /\ free.alloc = {} /\ free.opened = {}
           /\ free.sendAgain = yes /\ free.noSamples = no
    BY <1>9, <1>10, <1>11 DEF Out
  <1>30a. PICK one, two : one = SeqIf(f) /\ two = SeqIf(f) \o <<c>>
    OBVIOUS
  <1>30b. /\ reopen = Out(ms, Nothing, {}, own, one, yes, no)
          /\ reopened = Out(mn, Nothing, {}, own, two, yes, no)
          /\ close = Out(mn, Nothing, {}, {}, one, yes, no)
          /\ free = Out(EmptyBuf, x, {}, {}, one, yes, no)
    BY <1>11, <1>30a, Zenon
  <1>30c. /\ \A q \in {NoChange(c), fail, none} : q.buf = m /\ q.shut = nil
          /\ new.buf = md /\ new.shut = nil /\ free.buf = EmptyBuf /\ free.shut = one
          /\ reopen.buf = ms /\ reopen.shut = one /\ reopened.buf = mn /\ reopened.shut = two
          /\ close.buf = mn /\ close.shut = one
    BY <1>9, <1>10, <1>11, <1>30b DEF Out
  <1>30d. /\ m.sndfile = f /\ md.sndfile = f /\ ms.sndfile = c /\ mn.sndfile = Nothing
          /\ EmptyBuf.sndfile = Nothing
    BY <1>3, <1>5, <1>7 DEF SndBuf, EmptyBuf
  <1>30e. s.mirror[s.cmds[c].buf].sndfile = f
    BY <1>5, <1>30d
  <1>30f. \A q \in {NoChange(c), fail, none, new, free, reopen, reopened, close} :
             FileOutcome(s, c, q, f)
    <2>1. \A q \in {NoChange(c), fail, none, new} : q.buf.sndfile = f /\ q.shut = nil
      BY <1>30c, <1>30d
    <2>2. \A q \in {free, reopen, close} : q.buf.sndfile \in {Nothing, c} /\ q.shut = one
      BY <1>30c, <1>30d
    <2>3. reopened.buf.sndfile = Nothing /\ reopened.shut = two
      BY <1>30c, <1>30d
    <2>4. QED
      BY <2>1, <2>2, <2>3, <1>6, <1>30a, Zenon DEF FileOutcome
  <1>31. /\ md.data = c /\ md \in SndBuf /\ m.data = x /\ m \in SndBuf
         /\ ms.data = x /\ ms \in SndBuf /\ mn.data = x /\ mn \in SndBuf
         /\ EmptyBuf.data = Nothing /\ EmptyBuf \in SndBuf
    BY <1>5, <1>7 DEF SndBuf, EmptyBuf
  <1>32. ASSUME o \in {NoChange(c), fail, reopen, reopened, close}, k # "b_free"
         PROVE  Outcome(s, c, o)
    <2>1. /\ o.buf \in {m, ms, mn} /\ o.mFreeData = Nothing /\ o.alloc = {}
          /\ o.opened \subseteq own /\ o.sendAgain \in {yes, no} /\ o.noSamples = no
      BY <1>30, <1>32
    <2>2. Kept(s, c, o)
      BY <2>1, <1>5, <1>6, <1>31, <1>32 DEF Kept
    <2>3. QED
      BY <2>1, <2>2, <1>6, <1>31, <1>30e, <1>30f, <1>32 DEF Outcome
  <1>33. ASSUME o = new, Installs(k), k # "b_free"
         PROVE  Outcome(s, c, o)
    <2>1. Replaced(s, c, o)
      BY <1>5, <1>6, <1>30, <1>31, <1>33 DEF Replaced
    <2>2. QED
      BY <2>1, <1>6, <1>30, <1>30e, <1>30f, <1>31, <1>33 DEF Outcome
  <1>34. ASSUME o = none, Installs(k), k # "b_free"
         PROVE  Outcome(s, c, o)
    <2>1. Unsampled(s, c, o)
      BY <1>5, <1>6, <1>30, <1>31, <1>34 DEF Unsampled
    <2>2. QED
      BY <2>1, <1>6, <1>30, <1>30e, <1>30f, <1>31, <1>34 DEF Outcome
  <1>35. ASSUME o = free, k = "b_free"
         PROVE  Outcome(s, c, o)
    <2>1. Freed(s, c, o)
      BY <1>5, <1>6, <1>30, <1>31, <1>35 DEF Freed
    <2>2. QED
      BY <2>1, <1>6, <1>30, <1>30e, <1>30f, <1>31, <1>35 DEF Outcome
  <1>36. CASE k = "b_alloc"
    <2>1. o \in {new, none}
      BY <1>4, <1>27, <1>36 DEF Stage2, BufAlloc_Stage2
    <2>2. Installs(k) /\ k # "b_free"
      BY <1>36 DEF Installs
    <2>3. QED
      BY <2>1, <2>2, <1>33, <1>34
  <1>37. CASE k \in {"b_allocRead", "b_allocReadChannel"}
    <2>1. o \in {fail, new, none}
      BY <1>4, <1>13, <1>27, <1>37 DEF Stage2, BufAllocRead_Stage2, BufAllocReadChannel_Stage2
    <2>2. Installs(k) /\ k # "b_free"
      BY <1>37 DEF Installs
    <2>3. QED
      BY <2>1, <2>2, <1>32, <1>33, <1>34
  <1>38. CASE k = "b_gen"
    <2>1. o \in {NoChange(c), new}
      BY <1>4, <1>15, <1>38 DEF Stage2
    <2>2. Installs(k) /\ k # "b_free"
      BY <1>38 DEF Installs
    <2>3. QED
      BY <2>1, <2>2, <1>32, <1>33
  <1>39. CASE k = "b_free"
    <2>1. o = free
      BY <1>4, <1>17, <1>39 DEF Stage2
    <2>2. QED
      BY <2>1, <1>35, <1>39
  <1>40. CASE k \in {"b_zero", "sync"}
    <2>1. o = NoChange(c)
      BY <1>4, <1>40 DEF Stage2, BufZero_Stage2, Sync_Stage2
    <2>2. QED
      BY <2>1, <1>32, <1>40
  <1>41. CASE k \in {"b_read", "b_readChannel"}
    <2>1. o \in {NoChange(c), fail, reopen, reopened}
      BY <1>4, <1>22, <1>28, <1>41 DEF Stage2, BufRead_Stage2, BufReadChannel_Stage2
    <2>2. QED
      BY <2>1, <1>32, <1>41
  <1>42. CASE k = "b_write"
    <2>1. o \in {fail, reopen, reopened}
      BY <1>4, <1>29, <1>42 DEF Stage2
    <2>2. QED
      BY <2>1, <1>32, <1>42
  <1>43. CASE k = "b_close"
    <2>1. o = close
      BY <1>4, <1>19, <1>43 DEF Stage2
    <2>2. QED
      BY <2>1, <1>32, <1>43
  <1>44. QED
    BY <1>5, <1>36, <1>37, <1>38, <1>39, <1>40, <1>41, <1>42, <1>43 DEF AllKinds

\* Stage 2 of command c, which goes as o says.
Staged2(s, t, c, o) ==
    /\ Outcome(s, c, o) /\ c \in Cmds(s) /\ Stage(s, c) = 2
    /\ t.toNRT \in Seq(Nat) /\ Popped(s.toNRT, t.toNRT, c)
    /\ t.cmds \in Seq(CmdRec) /\ Len(t.cmds) = Len(s.cmds)
    /\ \A d \in Cmds(s) : d # c => t.cmds[d] = s.cmds[d]
    /\ t.cmds[c].kind = s.cmds[c].kind /\ t.cmds[c].buf = s.cmds[c].buf
    /\ t.cmds[c].mNextStage = 3 /\ t.cmds[c].mFreeData = o.mFreeData
    /\ t.cmds[c].mSndBuf = o.buf
    /\ t.cmds[c].reply = IF o.sendAgain THEN s.cmds[c].reply ELSE "/fail"
    /\ t.mirror \in [Buf -> SndBuf] /\ t.mirror[s.cmds[c].buf] = o.buf
    /\ \A b \in Buf : b # s.cmds[c].buf => t.mirror[b] = s.mirror[b]
    /\ t.live = s.live \cup o.alloc
    /\ t.noSamples = (s.noSamples \/ o.noSamples)
    /\ t.toRT \in Seq(Msg) /\ t.lost \in BOOLEAN
    /\ Pass(s.toRT, t.toRT, [cmd |-> c, delete |-> ~o.sendAgain], s.lost, t.lost)
    /\ t.snd = s.snd /\ t.up = s.up

\* Message i to the audio thread is there before and after a step, and says
\* the same.
SameMsg(s, t, i) ==
    /\ i \in ToRT(s) /\ i \in ToRT(t)
    /\ t.toRT[i] = s.toRT[i] /\ s.toRT[i].cmd \in Cmds(s) /\ i < Len(s.toRT) + 1
    /\ Going(t, i) <=> Going(s, i)
    /\ Writing(t, i) <=> Writing(s, i)
    /\ Going(s, i) => /\ t.cmds[s.toRT[i].cmd] = s.cmds[s.toRT[i].cmd]
                      /\ NewData(t, i) = NewData(s, i) /\ Dest(t, i) = Dest(s, i)

\* The messages to the audio thread after stage 2 of c: those there were, and
\* perhaps one more.
RTAfter2(s, t, c, o) ==
    /\ \A i \in ToRT(s) : SameMsg(s, t, i) /\ (Going(s, i) => s.toRT[i].cmd # c)
    /\ \A i \in ToRT(t) : \/ SameMsg(s, t, i)
                          \/ /\ i = Len(s.toRT) + 1 /\ t.toRT[i].cmd = c
                             /\ Going(t, i) <=> o.sendAgain = TRUE
                             /\ NewData(t, i) = o.buf.data
                             /\ Dest(t, i) = s.cmds[c].buf

LEMMA Staged2RT ==
    ASSUME NEW s, NEW t, NEW c, NEW o, Base(s), Staged2(s, t, c, o)
    PROVE  RTAfter2(s, t, c, o)
  <1>1. PICK m : m = [cmd |-> c, delete |-> ~o.sendAgain]
    OBVIOUS
  <1>2. m.cmd = c /\ (~m.delete <=> o.sendAgain = TRUE)
    BY <1>1 DEF Staged2, Outcome
  <1>3. s.toRT \in Seq(Msg) /\ t.toRT \in Seq(Msg) /\ Pass(s.toRT, t.toRT, m, s.lost, t.lost)
    BY <1>1, Zenon DEF Base, Typed, Staged2
  <1>4. /\ \A i \in ToRT(t) : \/ i \in ToRT(s) /\ t.toRT[i] = s.toRT[i]
                              \/ i = Len(s.toRT) + 1 /\ t.toRT[i] = m
        /\ \A i \in ToRT(s) : i \in ToRT(t) /\ t.toRT[i] = s.toRT[i] /\ i < Len(s.toRT) + 1
    BY <1>3, PassAt, SMTT(40) DEF ToRT
  <1>5. \A i \in ToRT(s) : /\ s.toRT[i].cmd \in Cmds(s)
                           /\ Going(s, i) => Stage(s, s.toRT[i].cmd) = 3
    BY DEF Base, Queues
  <1>6. c \in Cmds(s) /\ Stage(s, c) = 2 /\ \A d \in Cmds(s) : d # c => t.cmds[d] = s.cmds[d]
    BY DEF Staged2
  <1>7. \A i \in ToRT(s) : Going(s, i) => /\ s.toRT[i].cmd # c
                                          /\ t.cmds[s.toRT[i].cmd] = s.cmds[s.toRT[i].cmd]
    BY <1>5, <1>6
  <1>8. ASSUME NEW i \in ToRT(s) PROVE SameMsg(s, t, i)
    <2>1. i \in ToRT(t) /\ t.toRT[i] = s.toRT[i] /\ i < Len(s.toRT) + 1
      BY <1>4
    <2>2. Going(t, i) <=> Going(s, i)
      BY <2>1 DEF Going
    <2>3. CASE Going(s, i)
      BY <2>1, <2>2, <2>3, <1>5, <1>7 DEF SameMsg, Writing, NewData, Dest
    <2>4. CASE ~Going(s, i)
      BY <2>1, <2>2, <2>4, <1>5 DEF SameMsg, Writing
    <2>5. QED
      BY <2>3, <2>4
  <1>9. ASSUME NEW i \in ToRT(t), t.toRT[i] = m
        PROVE  /\ t.toRT[i].cmd = c
               /\ Going(t, i) <=> o.sendAgain = TRUE
               /\ NewData(t, i) = o.buf.data
               /\ Dest(t, i) = s.cmds[c].buf
    BY <1>2, <1>9 DEF Going, NewData, Dest, Staged2
  <1>10. QED
    BY <1>4, <1>7, <1>8, <1>9 DEF RTAfter2

\* The rest q of the FIFO to the NRT thread after command c was taken from it.
Rest(s, q, c) ==
    /\ 1 \in ToNRT(s) /\ s.toNRT[1] = c /\ c \in Cmds(s)
    /\ \A i \in 1 .. Len(q) : /\ i + 1 \in ToNRT(s) /\ i \in Nat
                              /\ q[i] = s.toNRT[i + 1] /\ q[i] # c
    /\ \A i \in ToNRT(s) : s.toNRT[i] # c =>
          1 < i /\ \E j \in 1 .. Len(q) : q[j] = s.toNRT[i]

LEMMA TakenNRT ==
    ASSUME NEW s, NEW q, NEW c, Base(s), q \in Seq(Nat), Popped(s.toNRT, q, c)
    PROVE  Rest(s, q, c)
  <1>1. s.toNRT \in Seq(Nat)
    BY DEF Base, Typed
  <1>2. /\ 1 \in ToNRT(s) /\ s.toNRT[1] = c
        /\ \A i \in 1 .. Len(q) : i \in Nat /\ i + 1 \in ToNRT(s) /\ q[i] = s.toNRT[i + 1]
        /\ \A i \in ToNRT(s) : i = 1 \/ (1 < i /\ i - 1 \in 1 .. Len(q) /\ q[i - 1] = s.toNRT[i])
    BY <1>1 DEF Popped, ToNRT
  <1>3. \A i, j \in ToNRT(s) : s.toNRT[i] = s.toNRT[j] => i = j
    BY DEF Base, Queues
  <1>4. c \in Cmds(s)
    BY <1>2 DEF Base, Queues
  <1>5. ASSUME NEW i \in 1 .. Len(q) PROVE q[i] # c
    <2>1. i \in Nat /\ i + 1 \in ToNRT(s) /\ q[i] = s.toNRT[i + 1]
      BY <1>2
    <2>2. i + 1 # 1
      BY <2>1
    <2>3. QED
      BY <2>1, <2>2, <1>2, <1>3
  <1>6. QED
    BY <1>2, <1>4, <1>5 DEF Rest

\* The commands after stage 2 of c.
CmdsAfter2(s, t, c, o) ==
    /\ Cmds(t) = Cmds(s) /\ c \in Cmds(s) /\ c \in Name /\ s.cmds[c].buf \in Buf
    /\ s.cmds[c].reply = "none" /\ Old(s, c) = Nothing
    /\ \A d \in Cmds(s) : /\ t.cmds[d].buf = s.cmds[d].buf
                          /\ t.cmds[d].kind = s.cmds[d].kind
                          /\ d # c => /\ t.cmds[d] = s.cmds[d] /\ Old(t, d) = Old(s, d)
                                      /\ Stage(t, d) = Stage(s, d)
    /\ Stage(t, c) = 3 /\ Old(t, c) = o.mFreeData
    /\ o.sendAgain = TRUE => t.cmds[c].reply = "none"
    /\ o.sendAgain # TRUE => t.cmds[c].reply = "/fail"

LEMMA Staged2Cmds ==
    ASSUME NEW s, NEW t, NEW c, NEW o, Base(s), Staged2(s, t, c, o)
    PROVE  CmdsAfter2(s, t, c, o)
  <1>1. c \in Cmds(s) /\ Stage(s, c) = 2 /\ Len(t.cmds) = Len(s.cmds)
    BY DEF Staged2
  <1>2. Typed(s) /\ Record(s.cmds[c])
    BY <1>1 DEF Base, Names
  <1>3. s.cmds[c].reply = "none" /\ Old(s, c) = Nothing
    BY <1>1, <1>2 DEF Record, Stage, Old
  <1>4. s.cmds[c].buf \in Buf
    BY <1>1, <1>2, CmdType
  <1>5. c \in Name
    BY <1>1, <1>2, CmdAssumption DEF Typed, Cmds, Name
  <1>6. Cmds(t) = Cmds(s)
    BY <1>1 DEF Cmds
  <1>7. /\ o.sendAgain = TRUE => t.cmds[c].reply = "none"
        /\ o.sendAgain # TRUE => t.cmds[c].reply = "/fail"
    BY <1>3 DEF Staged2, Outcome
  <1>8. \A d \in Cmds(s) : /\ t.cmds[d].buf = s.cmds[d].buf
                           /\ t.cmds[d].kind = s.cmds[d].kind
                           /\ d # c => /\ t.cmds[d] = s.cmds[d] /\ Old(t, d) = Old(s, d)
                                       /\ Stage(t, d) = Stage(s, d)
    BY DEF Staged2, Old, Stage
  <1>9. Stage(t, c) = 3 /\ Old(t, c) = o.mFreeData
    BY DEF Staged2, Old, Stage
  <1>10. QED
    BY <1>1, <1>3, <1>4, <1>5, <1>6, <1>7, <1>8, <1>9 DEF CmdsAfter2

LEMMA Staged2Base ==
    ASSUME NEW s, NEW t, NEW c, NEW o, Base(s), Staged2(s, t, c, o)
    PROVE  Base(t)
  <1>1. PICK b : b = s.cmds[c].buf
    OBVIOUS
  <1>2. /\ Cmds(t) = Cmds(s) /\ c \in Cmds(s) /\ c \in Name /\ b \in Buf
        /\ s.cmds[c].reply = "none" /\ Old(s, c) = Nothing
        /\ \A d \in Cmds(s) : /\ t.cmds[d].buf = s.cmds[d].buf
                              /\ t.cmds[d].kind = s.cmds[d].kind
                              /\ d # c => /\ t.cmds[d] = s.cmds[d] /\ Old(t, d) = Old(s, d)
                                          /\ Stage(t, d) = Stage(s, d)
        /\ Stage(t, c) = 3 /\ Old(t, c) = o.mFreeData
        /\ o.sendAgain = TRUE => t.cmds[c].reply = "none"
        /\ o.sendAgain # TRUE => t.cmds[c].reply = "/fail"
    <2>1. CmdsAfter2(s, t, c, o)
      BY Staged2Cmds
    <2>2. QED
      BY <1>1, <2>1 DEF CmdsAfter2
  <1>3. Outcome(s, c, o)
    BY DEF Staged2
  <1>4. o.alloc \subseteq {c}
    BY <1>3 DEF Outcome, Kept, Replaced, Freed, Unsampled
  <1>5. Typed(t)
    <2>1. t.live \subseteq Name /\ t.noSamples \in BOOLEAN
      BY <1>2, <1>3, <1>4 DEF Staged2, Base, Typed, Outcome
    <2>2. QED
      BY <2>1, SMTT(40) DEF Staged2, Base, Typed
  <1>21. Rest(s, t.toNRT, c)
    BY TakenNRT DEF Staged2
  <1>6. ASSUME NEW i \in ToNRT(t)
        PROVE  t.toNRT[i] \in Cmds(t) /\ Stage(t, t.toNRT[i]) \in {2, 4}
    <2>1. i + 1 \in ToNRT(s) /\ t.toNRT[i] = s.toNRT[i + 1] /\ t.toNRT[i] # c
      BY <1>21 DEF Rest, ToNRT
    <2>2. s.toNRT[i + 1] \in Cmds(s) /\ Stage(s, s.toNRT[i + 1]) \in {2, 4}
      BY <2>1 DEF Base, Queues
    <2>3. QED
      BY <2>1, <2>2, <1>2
  <1>7. ASSUME NEW i \in ToNRT(t), NEW j \in ToNRT(t), t.toNRT[i] = t.toNRT[j] PROVE i = j
    <2>1. /\ i + 1 \in ToNRT(s) /\ t.toNRT[i] = s.toNRT[i + 1] /\ i \in Nat
          /\ j + 1 \in ToNRT(s) /\ t.toNRT[j] = s.toNRT[j + 1] /\ j \in Nat
      BY <1>21 DEF Rest, ToNRT
    <2>2. i + 1 = j + 1
      BY <2>1, <1>7 DEF Base, Queues
    <2>3. QED
      BY <2>1, <2>2
  <1>8. /\ \A i \in ToRT(s) : SameMsg(s, t, i) /\ (Going(s, i) => s.toRT[i].cmd # c)
        /\ \A i \in ToRT(t) : \/ SameMsg(s, t, i)
                              \/ /\ i = Len(s.toRT) + 1 /\ t.toRT[i].cmd = c
                                 /\ Going(t, i) <=> o.sendAgain = TRUE
    <2>1. RTAfter2(s, t, c, o)
      BY Staged2RT
    <2>2. QED
      BY <2>1 DEF RTAfter2
  <1>9. ASSUME NEW i \in ToRT(t)
        PROVE  /\ t.toRT[i].cmd \in Cmds(t)
               /\ Going(t, i) => /\ Stage(t, t.toRT[i].cmd) = 3
                                 /\ t.cmds[t.toRT[i].cmd].reply = "none"
    <2>1. CASE SameMsg(s, t, i)
      <3>1. i \in ToRT(s) /\ t.toRT[i] = s.toRT[i] /\ s.toRT[i].cmd \in Cmds(s)
        BY <2>1 DEF SameMsg
      <3>2. Going(t, i) => Going(s, i) /\ s.toRT[i].cmd # c
        BY <2>1, <3>1, <1>8 DEF SameMsg
      <3>3. Going(s, i) => Stage(s, s.toRT[i].cmd) = 3 /\ s.cmds[s.toRT[i].cmd].reply = "none"
        BY <3>1 DEF Base, Queues
      <3>4. QED
        BY <3>1, <3>2, <3>3, <1>2
    <2>2. CASE t.toRT[i].cmd = c /\ (Going(t, i) <=> o.sendAgain = TRUE)
      BY <2>2, <1>2
    <2>3. QED
      BY <2>1, <2>2, <1>8
  <1>10. ASSUME NEW i \in ToRT(t), NEW j \in ToRT(t), Going(t, i), Going(t, j),
                t.toRT[i].cmd = t.toRT[j].cmd
         PROVE  i = j
    <2>1. SameMsg(s, t, i) /\ SameMsg(s, t, j) => i = j
      BY <1>10 DEF SameMsg, Base, Queues
    <2>2. SameMsg(s, t, i) => t.toRT[i].cmd # c
      BY <1>8, <1>10 DEF SameMsg
    <2>3. SameMsg(s, t, j) => t.toRT[j].cmd # c
      BY <1>8, <1>10 DEF SameMsg
    <2>4. QED
      BY <2>1, <2>2, <2>3, <1>8, <1>10
  <1>11. Queues(t)
    BY <1>6, <1>7, <1>9, <1>10 DEF Queues
  <1>12. \A d, a : Made(s, d, a) => Made(t, d, a)
    BY <1>2 DEF Made
  <1>13. Made(t, c, b) /\ Made(t, Nothing, b)
    BY <1>1, <1>2 DEF Made
  <1>14. Made(t, s.mirror[b].data, b)
    BY <1>2, <1>12, SMTT(40) DEF Base, Names
  <1>15. Made(t, o.buf.data, b) /\ Made(t, o.mFreeData, b)
    BY <1>1, <1>3, <1>13, <1>14 DEF Outcome, Kept, Replaced, Freed, Unsampled
  <1>16. ASSUME NEW a \in Buf PROVE Made(t, t.mirror[a].data, a) /\ Made(t, t.snd[a].data, a)
    <2>1. t.snd = s.snd /\ t.mirror[b] = o.buf /\ (a # b => t.mirror[a] = s.mirror[a])
      BY <1>1 DEF Staged2
    <2>2. QED
      BY <2>1, <1>12, <1>15 DEF Base, Names
  <1>17. Record(t.cmds[c])
    <2>1. t.cmds[c].kind = s.cmds[c].kind /\ t.cmds[c].mNextStage = 3
          /\ t.cmds[c].mFreeData = o.mFreeData /\ t.cmds[c].mSndBuf = o.buf
      BY DEF Staged2
    <2>2. s.cmds[c].kind = "b_free" => o.buf.data = Nothing
      BY <1>3, SMTT(40) DEF Outcome, Kept, Replaced, Freed, Unsampled
    <2>3. ~Writes(s.cmds[c].kind) \/ o.sendAgain # TRUE => o.mFreeData = Nothing
      BY <1>3 DEF Outcome, Kept, Replaced, Freed, Unsampled, Writes
    <2>4. PICK r : r = t.cmds[c]
      OBVIOUS
    <2>5. /\ r.mNextStage = 3 /\ r.reply \in {"none", "/fail"}
          /\ r.kind = "b_free" => r.mSndBuf.data = Nothing
          /\ ~Writes(r.kind) \/ r.reply = "/fail" => r.mFreeData = Nothing
      BY <2>1, <2>2, <2>3, <2>4, <1>2
    <2>6. QED
      BY <2>4, <2>5 DEF Record
  <1>18. ASSUME NEW d \in Cmds(t)
         PROVE  /\ Made(t, Old(t, d), t.cmds[d].buf)
                /\ Made(t, t.cmds[d].mSndBuf.data, t.cmds[d].buf)
                /\ Record(t.cmds[d])
    <2>1. CASE d = c
      <3>1. t.cmds[c].mSndBuf = o.buf /\ t.cmds[c].buf = b
        BY <1>1 DEF Staged2
      <3>2. QED
        BY <2>1, <3>1, <1>2, <1>15, <1>17
    <2>2. CASE d # c
      BY <2>2, <1>2, <1>12 DEF Base, Names
    <2>3. QED
      BY <2>1, <2>2
  <1>19. Names(t)
    BY <1>16, <1>18 DEF Names
  <1>20. QED
    BY <1>5, <1>11, <1>19 DEF Base

LEMMA Staged2Apart ==
    ASSUME NEW s, NEW t, NEW c, NEW o, Base(s), Apart(s), Staged2(s, t, c, o)
    PROVE  Apart(t)
  <1> SUFFICES ASSUME t.up /\ ~t.noSamples PROVE Apart(t)
    BY DEF Apart
  <1>1. PICK b : b = s.cmds[c].buf
    OBVIOUS
  <1>2. PICK x : x = s.mirror[b].data
    OBVIOUS
  <1>3. PICK y : y = o.buf.data
    OBVIOUS
  <1>4. CmdsAfter2(s, t, c, o) /\ RTAfter2(s, t, c, o)
    BY Staged2Cmds, Staged2RT
  <1>5. /\ Outcome(s, c, o) /\ Stage(s, c) = 2 /\ c \in Cmds(s) /\ b \in Buf
        /\ t.mirror[b] = o.buf /\ t.snd = s.snd /\ t.live = s.live \cup o.alloc
        /\ \A a \in Buf : a # b => t.mirror[a] = s.mirror[a]
    BY <1>1, <1>4, SMTT(40) DEF Staged2, CmdsAfter2
  <1>6. s.up /\ ~s.noSamples /\ o.noSamples # TRUE
    BY <1>5 DEF Staged2, Outcome
  <1>7. Pointing(s) /\ (\A d \in Cmds(s) : Gone(s, d)) /\ (\A i \in ToRT(s) : Behind(s, i))
    BY <1>6 DEF Apart
  <1>8. /\ (y = x /\ o.mFreeData = Nothing) \/ (y = c /\ o.mFreeData = x) \/ y = Nothing
        /\ y = x \/ y = Nothing \/ (y = c /\ c \in t.live)
        /\ o.mFreeData \in {x, Nothing}
    BY <1>1, <1>2, <1>3, <1>5, <1>6 DEF Outcome, Kept, Replaced, Freed, Unsampled
  <1>9. Made(s, x, b) /\ x \in s.live \cup {Nothing}
    BY <1>2, <1>5, <1>7 DEF Base, Names, Pointing
  <1>10. c # Nothing /\ (x # Nothing => x # c)
    BY <1>4, <1>5, <1>9 DEF Made, CmdsAfter2, Name, Nothing
  <1>11. y \in t.live \cup {Nothing}
    BY <1>5, <1>8, <1>9
  <1>12. ASSUME NEW d \in Cmds(s), Old(s, d) # Nothing PROVE y # Old(s, d)
    <2>1. Made(s, Old(s, d), s.cmds[d].buf) /\ Gone(s, d)
      BY <1>7 DEF Base, Names
    <2>2. Old(s, d) # c
      BY <2>1, <1>5, <1>12 DEF Made
    <2>3. ASSUME x = Old(s, d) PROVE FALSE
      <3>1. s.cmds[d].buf = b
        BY <2>1, <2>3, <1>9, <1>12 DEF Made
      <3>2. QED
        BY <2>1, <2>3, <3>1, <1>2, <1>12 DEF Gone
    <2>4. QED
      BY <2>2, <2>3, <1>8, <1>12
  <1>13. ASSUME NEW i \in ToRT(t), ~SameMsg(s, t, i)
         PROVE  /\ i = Len(s.toRT) + 1 /\ t.toRT[i].cmd = c /\ NewData(t, i) = y
                /\ Going(t, i) <=> o.sendAgain = TRUE
    BY <1>3, <1>4, <1>13 DEF RTAfter2
  <1>14. Pointing(t)
    <2>1. ASSUME NEW a \in Buf
          PROVE  /\ t.mirror[a].data \in t.live \cup {Nothing}
                 /\ t.snd[a].data \in t.live \cup {Nothing}
      <3>1. s.mirror[a].data \in s.live \cup {Nothing} /\ s.snd[a].data \in s.live \cup {Nothing}
        BY <1>7 DEF Pointing
      <3>2. QED
        BY <3>1, <1>3, <1>5, <1>11
    <2>2. ASSUME NEW i \in ToRT(t), Writing(t, i) PROVE NewData(t, i) \in t.live \cup {Nothing}
      <3>1. CASE SameMsg(s, t, i)
        <4>1. i \in ToRT(s) /\ Writing(s, i) /\ NewData(t, i) = NewData(s, i)
          BY <2>2, <3>1 DEF SameMsg, Writing
        <4>2. QED
          BY <4>1, <1>5, <1>7, SMTT(40) DEF Pointing
      <3>2. CASE ~SameMsg(s, t, i)
        BY <3>2, <1>11, <1>13
      <3>3. QED
        BY <3>1, <3>2
    <2>3. QED
      BY <2>1, <2>2 DEF Pointing
  <1>15. ASSUME NEW d \in Cmds(t) PROVE Gone(t, d)
    <2>1. d \in Cmds(s) /\ t.cmds[d].buf = s.cmds[d].buf /\ s.cmds[d].buf \in Buf
      BY <1>4, CmdType DEF CmdsAfter2, Base
    <2>2. CASE d = c
      BY <2>2, <1>1, <1>3, <1>4, <1>5, <1>8, <1>10, <2>1 DEF Gone, CmdsAfter2
    <2>3. CASE d # c
      <3> SUFFICES ASSUME Old(t, d) # Nothing PROVE Gone(t, d)
        BY DEF Gone
      <3>1. Old(t, d) = Old(s, d) /\ Stage(t, d) = Stage(s, d)
        BY <2>1, <2>3, <1>4 DEF CmdsAfter2
      <3>2. Gone(s, d) /\ y # Old(s, d)
        BY <2>1, <3>1, <1>7, <1>12
      <3>3. t.mirror[t.cmds[d].buf].data # Old(t, d)
        BY <2>1, <3>1, <3>2, <1>3, <1>5 DEF Gone
      <3>4. ASSUME Stage(t, d) = 4, NEW i \in ToRT(t), Writing(t, i)
            PROVE  NewData(t, i) # Old(t, d)
        <4>1. CASE SameMsg(s, t, i)
          <5>1. i \in ToRT(s) /\ Writing(s, i) /\ NewData(t, i) = NewData(s, i)
            BY <3>4, <4>1 DEF SameMsg, Writing
          <5>2. QED
            BY <3>1, <3>2, <3>4, <5>1, SMTT(40) DEF Gone
        <4>2. CASE ~SameMsg(s, t, i)
          BY <4>2, <3>1, <3>2, <1>13
        <4>3. QED
          BY <4>1, <4>2
      <3>5. Stage(t, d) = 4 => t.snd[t.cmds[d].buf].data # Old(t, d)
        BY <2>1, <3>1, <3>2, <1>5 DEF Gone
      <3>6. QED
        BY <3>3, <3>4, <3>5 DEF Gone
    <2>4. QED
      BY <2>2, <2>3
  <1>16. ASSUME NEW i \in ToRT(t) PROVE Behind(t, i)
    <2> SUFFICES ASSUME Going(t, i), Old(t, t.toRT[i].cmd) # Nothing,
                        NEW j \in ToRT(t), i <= j, Writing(t, j)
                 PROVE  NewData(t, j) # Old(t, t.toRT[i].cmd)
      BY DEF Behind
    <2>1. CASE SameMsg(s, t, i)
      <3>1. PICK d : d = s.toRT[i].cmd
        OBVIOUS
      <3>2. /\ i \in ToRT(s) /\ Going(s, i) /\ t.toRT[i].cmd = d /\ d \in Cmds(s)
            /\ t.cmds[d] = s.cmds[d]
        BY <2>1, <3>1 DEF SameMsg
      <3>3. Old(t, d) = Old(s, d) /\ Old(s, d) # Nothing /\ Behind(s, i)
        BY <3>2, <1>7 DEF Old
      <3>4. CASE SameMsg(s, t, j)
        <4>1. j \in ToRT(s) /\ Writing(s, j) /\ NewData(t, j) = NewData(s, j)
          BY <3>4 DEF SameMsg, Writing
        <4>2. QED
          BY <4>1, <3>1, <3>2, <3>3, SMTT(40) DEF Behind
      <3>5. CASE ~SameMsg(s, t, j)
        BY <3>2, <3>3, <3>5, <1>12, <1>13
      <3>6. QED
        BY <3>4, <3>5
    <2>2. CASE ~SameMsg(s, t, i)
      <3>1. i = Len(s.toRT) + 1 /\ t.toRT[i].cmd = c
        BY <2>2, <1>13
      <3>2. ~SameMsg(s, t, j)
        <4>1. Len(s.toRT) \in Nat /\ j \in Nat
          BY DEF Base, Typed, ToRT
        <4>2. ~(j < Len(s.toRT) + 1)
          BY <4>1, <3>1
        <4>3. QED
          BY <4>2 DEF SameMsg
      <3>3. NewData(t, j) = y /\ Old(t, c) = o.mFreeData
        BY <3>2, <1>4, <1>13 DEF CmdsAfter2
      <3>4. QED
        BY <3>1, <3>3, <1>8, <1>10
    <2>3. QED
      BY <2>1, <2>2
  <1>17. QED
    BY <1>14, <1>15, <1>16 DEF Apart

LEMMA Staged2InOrder ==
    ASSUME NEW s, NEW t, NEW c, NEW o, Base(s), InOrder(s), Staged2(s, t, c, o)
    PROVE  InOrder(t)
  <1> SUFFICES ASSUME ~t.lost PROVE InOrder(t)
    BY DEF InOrder
  <1>1. CmdsAfter2(s, t, c, o) /\ RTAfter2(s, t, c, o)
    BY Staged2Cmds, Staged2RT
  <1>2. Rest(s, t.toNRT, c) /\ Stage(s, c) = 2
    BY TakenNRT DEF Staged2
  <1>3. PICK n : n = Len(s.toRT) + 1
    OBVIOUS
  <1>4. ~s.lost /\ n \in ToRT(t) /\ t.toRT[n].cmd = c /\ (Going(t, n) <=> o.sendAgain = TRUE)
    <2>1. PICK m : m = [cmd |-> c, delete |-> ~o.sendAgain]
      OBVIOUS
    <2>2. m.cmd = c /\ (~m.delete <=> o.sendAgain = TRUE)
      BY <2>1 DEF Staged2, Outcome
    <2>3. s.toRT \in Seq(Msg) /\ t.toRT \in Seq(Msg) /\ Pass(s.toRT, t.toRT, m, s.lost, t.lost)
      BY <2>1, Zenon DEF Base, Typed, Staged2
    <2>4. Pushed(s.toRT, t.toRT, m) /\ ~s.lost
      BY <2>3 DEF Pass
    <2>5. n \in ToRT(t) /\ t.toRT[n] = m
      BY <2>3, <2>4, <1>3, PushedAt DEF ToRT
    <2>6. QED
      BY <2>2, <2>4, <2>5 DEF Going
  <1>5. /\ Cmds(t) = Cmds(s) /\ c \in Cmds(s)
        /\ \A d \in Cmds(s) : d # c => t.cmds[d] = s.cmds[d] /\ Stage(t, d) = Stage(s, d)
        /\ Stage(t, c) = 3 /\ s.cmds[c].reply = "none"
        /\ o.sendAgain = TRUE => t.cmds[c].reply = "none"
        /\ o.sendAgain # TRUE => t.cmds[c].reply = "/fail"
    BY <1>1 DEF CmdsAfter2
  <1>6. /\ \A d \in Cmds(s) : Waits(s, d)
        /\ \A e, d \in Cmds(s) : d < e => Stage(s, d) >= Stage(s, e) \/ s.cmds[d].reply = "/fail"
        /\ \A i, j \in ToNRT(s) :
              i < j /\ Stage(s, s.toNRT[i]) = Stage(s, s.toNRT[j]) => s.toNRT[i] < s.toNRT[j]
        /\ \A i, j \in ToRT(s) :
              i < j /\ Going(s, i) /\ Going(s, j) => s.toRT[i].cmd < s.toRT[j].cmd
        /\ \A e, d \in Cmds(s) :
              d < e /\ s.cmds[e].reply = "/done" => s.cmds[d].reply # "none"
    BY <1>4 DEF InOrder
  <1>7. \A d \in Cmds(s) : Stage(s, d) \in 2 .. 4 /\ d \in Nat
    BY CmdType DEF Base, Stage, Cmds
  <1>8. /\ \A i \in ToNRT(t) : /\ i + 1 \in ToNRT(s) /\ i \in Nat
                               /\ t.toNRT[i] = s.toNRT[i + 1] /\ t.toNRT[i] # c
        /\ \A i \in ToNRT(s) : s.toNRT[i] # c =>
              1 < i /\ \E j \in ToNRT(t) : t.toNRT[j] = s.toNRT[i]
        /\ 1 \in ToNRT(s) /\ s.toNRT[1] = c
    BY <1>2 DEF Rest, ToNRT
  <1>9. /\ \A i \in ToRT(s) : SameMsg(s, t, i)
        /\ \A i \in ToRT(t) : SameMsg(s, t, i) \/ (i = n /\ t.toRT[i].cmd = c)
    BY <1>1, <1>3 DEF RTAfter2
  \* No command before c is behind it in the FIFO.
  <1>10. ASSUME NEW d \in Cmds(s), d < c PROVE Stage(s, d) >= 3
    <2>1. ASSUME Stage(s, d) = 2 PROVE FALSE
      <3>1. PICK i \in ToNRT(s) : s.toNRT[i] = d
        BY <2>1, <1>6 DEF Waits
      <3>2. 1 < i
        BY <3>1, <1>7, <1>8, <1>10
      <3>3. c < d
        BY <2>1, <3>1, <3>2, <1>2, <1>6, <1>8
      <3>4. QED
        BY <3>3, <1>5, <1>7, <1>10
    <2>2. QED
      BY <2>1, <1>7
  <1>11. ASSUME NEW d \in Cmds(t) PROVE Waits(t, d)
    <2>1. CASE d = c
      <3>1. t.cmds[c].reply = "/fail" \/ \E i \in ToRT(t) : Going(t, i) /\ t.toRT[i].cmd = c
        BY <1>4, <1>5
      <3>2. QED
        BY <2>1, <3>1, <1>5 DEF Waits
    <2>2. CASE d # c
      <3>1. Waits(s, d) /\ t.cmds[d] = s.cmds[d] /\ Stage(t, d) = Stage(s, d)
        BY <2>2, <1>5, <1>6
      <3>2. (\E i \in ToNRT(s) : s.toNRT[i] = d) => \E i \in ToNRT(t) : t.toNRT[i] = d
        BY <2>2, <1>8
      <3>3. (\E i \in ToRT(s) : Going(s, i) /\ s.toRT[i].cmd = d) =>
                \E i \in ToRT(t) : Going(t, i) /\ t.toRT[i].cmd = d
        BY <1>9 DEF SameMsg
      <3>4. QED
        BY <3>1, <3>2, <3>3 DEF Waits
    <2>3. QED
      BY <2>1, <2>2
  <1>12. ASSUME NEW e \in Cmds(t), NEW d \in Cmds(t), d < e
         PROVE  Stage(t, d) >= Stage(t, e) \/ t.cmds[d].reply = "/fail"
    <2>1. CASE e = c
      BY <2>1, <1>5, <1>7, <1>10, <1>12
    <2>2. CASE d = c
      BY <2>2, <1>2, <1>5, <1>6, <1>7, <1>12
    <2>3. CASE e # c /\ d # c
      BY <2>3, <1>5, <1>6, <1>12
    <2>4. QED
      BY <2>1, <2>2, <2>3
  <1>13. ASSUME NEW i \in ToNRT(t), NEW j \in ToNRT(t), i < j,
                Stage(t, t.toNRT[i]) = Stage(t, t.toNRT[j])
         PROVE  t.toNRT[i] < t.toNRT[j]
    <2>1. /\ t.toNRT[i] \in Cmds(s) /\ t.toNRT[j] \in Cmds(s)
          /\ t.toNRT[i] = s.toNRT[i + 1] /\ t.toNRT[j] = s.toNRT[j + 1]
          /\ i + 1 \in ToNRT(s) /\ j + 1 \in ToNRT(s) /\ i + 1 < j + 1
      BY <1>8, <1>13 DEF Base, Queues
    <2>2. Stage(s, s.toNRT[i + 1]) = Stage(s, s.toNRT[j + 1])
      BY <2>1, <1>5, <1>8, <1>13
    <2>3. QED
      BY <2>1, <2>2, <1>6
  <1>14. ASSUME NEW i \in ToRT(t), NEW j \in ToRT(t), i < j, Going(t, i), Going(t, j)
         PROVE  t.toRT[i].cmd < t.toRT[j].cmd
    <2>1. SameMsg(s, t, i)
      <3>1. SameMsg(s, t, j) => j < n
        BY <1>3 DEF SameMsg
      <3>2. i # n
        BY <3>1, <1>9, <1>14 DEF ToRT
      <3>3. QED
        BY <3>2, <1>9
    <2>2. /\ i \in ToRT(s) /\ Going(s, i) /\ t.toRT[i].cmd = s.toRT[i].cmd
          /\ s.toRT[i].cmd \in Cmds(s) /\ Stage(s, s.toRT[i].cmd) = 3
          /\ s.cmds[s.toRT[i].cmd].reply = "none"
      BY <2>1, <1>14 DEF SameMsg, Base, Queues
    <2>3. CASE SameMsg(s, t, j)
      BY <2>2, <2>3, <1>6, <1>14 DEF SameMsg
    <2>4. CASE t.toRT[j].cmd = c
      <3>1. s.toRT[i].cmd # c
        BY <2>2, <1>2
      <3>2. ~(c < s.toRT[i].cmd)
        BY <2>2, <1>2, <1>5, <1>6
      <3>3. QED
        BY <2>2, <2>4, <3>1, <3>2, <1>5, <1>7
    <2>5. QED
      BY <2>3, <2>4, <1>9
  <1>15. ASSUME NEW e \in Cmds(t), NEW d \in Cmds(t), d < e, t.cmds[e].reply = "/done"
         PROVE  t.cmds[d].reply # "none"
    <2>1. e # c
      BY <1>5, <1>15
    <2>2. s.cmds[d].reply # "none"
      BY <2>1, <1>5, <1>6, <1>15
    <2>3. QED
      BY <2>2, <1>5
  <1>16. QED
    BY <1>11, <1>12, <1>13, <1>14, <1>15 DEF InOrder

LEMMA Staged2Agree ==
    ASSUME NEW s, NEW t, NEW c, NEW o, Base(s), Agree(s), Staged2(s, t, c, o)
    PROVE  Agree(t)
  <1> SUFFICES ASSUME t.up /\ ~t.lost PROVE Agree(t)
    BY DEF Agree
  <1>1. PICK b : b = s.cmds[c].buf
    OBVIOUS
  <1>2. CmdsAfter2(s, t, c, o) /\ RTAfter2(s, t, c, o)
    BY Staged2Cmds, Staged2RT
  <1>3. /\ Outcome(s, c, o) /\ c \in Cmds(s) /\ b \in Buf
        /\ t.mirror[b] = o.buf /\ t.snd = s.snd /\ t.live = s.live \cup o.alloc
        /\ \A a \in Buf : a # b => t.mirror[a] = s.mirror[a]
    BY <1>1, <1>2 DEF Staged2, CmdsAfter2
  <1>4. PICK n : n = Len(s.toRT) + 1
    OBVIOUS
  <1>5. /\ ~s.lost /\ s.up /\ n \in ToRT(t) /\ t.toRT[n].cmd = c
        /\ Going(t, n) <=> o.sendAgain = TRUE
        /\ 0 < n
    <2>1. PICK m : m = [cmd |-> c, delete |-> ~o.sendAgain]
      OBVIOUS
    <2>2. m.cmd = c /\ (~m.delete <=> o.sendAgain = TRUE)
      BY <2>1 DEF Staged2, Outcome
    <2>3. s.toRT \in Seq(Msg) /\ t.toRT \in Seq(Msg) /\ Pass(s.toRT, t.toRT, m, s.lost, t.lost)
      BY <2>1, Zenon DEF Base, Typed, Staged2
    <2>4. Pushed(s.toRT, t.toRT, m) /\ ~s.lost /\ s.up
      BY <2>3 DEF Pass, Staged2
    <2>5. n \in ToRT(t) /\ t.toRT[n] = m /\ 0 < n
      BY <2>3, <2>4, <1>4, PushedAt DEF ToRT
    <2>6. QED
      BY <2>2, <2>4, <2>5 DEF Going
  <1>6. /\ \A a \in Buf : LastFor(s, 0, a) => s.snd[a].data = s.mirror[a].data
        /\ \A i \in ToRT(s) : Writing(s, i) /\ LastFor(s, i, Dest(s, i)) =>
              NewData(s, i) = s.mirror[Dest(s, i)].data
        /\ ~s.noSamples =>
              \A x \in s.live : \/ \E a \in Buf : s.mirror[a].data = x
                                \/ \E d \in Cmds(s) : Old(s, d) = x /\ s.cmds[d].reply = "none"
    BY <1>5 DEF Agree
  <1>7. /\ \A i \in ToRT(s) : SameMsg(s, t, i)
        /\ \A i \in ToRT(t) : SameMsg(s, t, i) \/ (i = n /\ NewData(t, i) = o.buf.data /\ Dest(t, i) = b)
    BY <1>1, <1>2, <1>4 DEF RTAfter2
  <1>8. Dest(t, n) = b
    BY <1>1, <1>2, <1>5, SMTT(40) DEF Dest, CmdsAfter2
  <1>9. ~Writing(t, n) => o.buf.data = s.mirror[b].data
    <2>1. Writing(t, n) <=> (o.sendAgain = TRUE /\ Writes(s.cmds[c].kind))
      BY <1>2, <1>3, <1>5 DEF Writing, CmdsAfter2
    <2>2. QED
      BY <2>1, <1>1, <1>3 DEF Outcome, Kept, Replaced, Freed, Unsampled, Writes
  <1>10. ASSUME NEW i, NEW a, LastFor(t, i, a) PROVE LastFor(s, i, a)
    <2>1. ASSUME NEW j \in ToRT(s), i < j, Writing(s, j) PROVE Dest(s, j) # a
      <3>1. j \in ToRT(t) /\ Writing(t, j) /\ Dest(t, j) = Dest(s, j)
        BY <2>1, <1>7 DEF SameMsg, Writing
      <3>2. QED
        BY <2>1, <3>1, <1>10, SMTT(40) DEF LastFor
    <2>2. QED
      BY <2>1 DEF LastFor
  <1>11. ASSUME NEW i, NEW a \in Buf, i < n, LastFor(t, i, a)
         PROVE  t.mirror[a].data = s.mirror[a].data
    <2>1. CASE a # b
      BY <2>1, <1>3
    <2>2. CASE a = b
      <3>1. ~Writing(t, n)
        BY <2>2, <1>5, <1>8, <1>11 DEF LastFor
      <3>2. QED
        BY <2>2, <3>1, <1>3, <1>9
    <2>3. QED
      BY <2>1, <2>2
  <1>12. ASSUME NEW a \in Buf, LastFor(t, 0, a) PROVE t.snd[a].data = t.mirror[a].data
    BY <1>3, <1>5, <1>6, <1>10, <1>11, <1>12
  <1>13. ASSUME NEW i \in ToRT(t), Writing(t, i), LastFor(t, i, Dest(t, i))
         PROVE  NewData(t, i) = t.mirror[Dest(t, i)].data
    <2>1. CASE SameMsg(s, t, i)
      <3>1. /\ i \in ToRT(s) /\ Writing(s, i) /\ i < n
            /\ NewData(t, i) = NewData(s, i) /\ Dest(t, i) = Dest(s, i)
        BY <2>1, <1>4, <1>13 DEF SameMsg, Writing
      <3>2. Dest(s, i) \in Buf
        <4>1. s.toRT[i].cmd \in Cmds(s)
          BY <3>1 DEF Base, Queues
        <4>2. QED
          BY <4>1, CmdType DEF Base, Dest
      <3>3. t.mirror[Dest(s, i)].data = s.mirror[Dest(s, i)].data
        BY <3>1, <3>2, <1>11, <1>13
      <3>4. QED
        BY <3>1, <3>3, <1>6, <1>10, <1>13, SMTT(40)
    <2>2. CASE NewData(t, i) = o.buf.data /\ Dest(t, i) = b
      BY <2>2, <1>3
    <2>3. QED
      BY <2>1, <2>2, <1>7
  <1>14. ASSUME ~t.noSamples, NEW x \in t.live
         PROVE  \/ \E a \in Buf : t.mirror[a].data = x
                \/ \E d \in Cmds(t) : Old(t, d) = x /\ t.cmds[d].reply = "none"
    <2>1. ~s.noSamples /\ o.noSamples # TRUE
      BY <1>3, <1>14 DEF Staged2, Outcome
    <2>2. CASE x \in s.live
      <3>1. x # Nothing
        BY <2>2 DEF Base, Typed, Name, Nothing
      <3>2. CASE \E a \in Buf : s.mirror[a].data = x
        <4>1. PICK a \in Buf : s.mirror[a].data = x
          BY <3>2
        <4>2. CASE a # b
          BY <4>1, <4>2, <1>3
        <4>3. CASE a = b /\ o.buf.data = s.mirror[b].data
          BY <4>1, <4>3, <1>3
        <4>4. CASE a = b /\ o.mFreeData = s.mirror[b].data /\ o.sendAgain = TRUE
          BY <4>1, <4>4, <1>2, <1>3 DEF CmdsAfter2
        <4>5. QED
          BY <4>2, <4>3, <4>4, <1>1, <1>3 DEF Outcome, Kept, Replaced, Freed, Unsampled
      <3>3. CASE \E d \in Cmds(s) : Old(s, d) = x /\ s.cmds[d].reply = "none"
        <4>1. PICK d \in Cmds(s) : Old(s, d) = x /\ s.cmds[d].reply = "none"
          BY <3>3
        <4>2. d # c
          BY <3>1, <4>1, <1>2 DEF CmdsAfter2
        <4>3. QED
          BY <4>1, <4>2, <1>2 DEF CmdsAfter2
      <3>4. QED
        BY <2>1, <2>2, <3>2, <3>3, <1>6
    <2>3. CASE x \notin s.live
      <3>1. x = c /\ o.buf.data = c
        BY <2>3, <1>3, <1>14 DEF Outcome, Kept, Replaced, Freed, Unsampled
      <3>2. QED
        BY <3>1, <1>3, SMTT(40)
    <2>4. QED
      BY <2>2, <2>3, SMTT(40)
  <1>15. QED
    BY <1>12, <1>13, <1>14 DEF Agree

-----------------------------------------------------------------------------
(* Stage 3. *)

Staged3(s, t, c) ==
    /\ c \in Cmds(s)
    /\ t.toRT \in Seq(Msg) /\ Popped(s.toRT, t.toRT, s.toRT[1])
    /\ s.toRT[1].cmd = c /\ Going(s, 1)
    /\ t.cmds \in Seq(CmdRec) /\ Len(t.cmds) = Len(s.cmds)
    /\ \A d \in Cmds(s) : d # c => t.cmds[d] = s.cmds[d]
    /\ t.cmds[c].kind = s.cmds[c].kind /\ t.cmds[c].buf = s.cmds[c].buf
    /\ t.cmds[c].mNextStage = 4 /\ t.cmds[c].mFreeData = s.cmds[c].mFreeData
    /\ t.cmds[c].mSndBuf = s.cmds[c].mSndBuf /\ t.cmds[c].reply = s.cmds[c].reply
    /\ t.snd \in [Buf -> SndBuf]
    /\ Writes(s.cmds[c].kind) => t.snd[s.cmds[c].buf].data = s.cmds[c].mSndBuf.data
    /\ ~Writes(s.cmds[c].kind) => t.snd[s.cmds[c].buf] = s.snd[s.cmds[c].buf]
    /\ \A b \in Buf : b # s.cmds[c].buf => t.snd[b] = s.snd[b]
    /\ t.toNRT \in Seq(Nat) /\ t.lost \in BOOLEAN
    /\ Pass(s.toNRT, t.toNRT, c, s.lost, t.lost)
    /\ t.mirror = s.mirror /\ t.live = s.live /\ t.noSamples = s.noSamples /\ t.up = s.up

\* Message i to the audio thread was message i + 1 before a step, and says the
\* same.
Moved(s, t, i) ==
    /\ i \in Nat /\ i + 1 \in ToRT(s)
    /\ t.toRT[i] = s.toRT[i + 1] /\ s.toRT[i + 1].cmd \in Cmds(s)
    /\ Going(t, i) <=> Going(s, i + 1)
    /\ Writing(t, i) <=> Writing(s, i + 1)
    /\ NewData(t, i) = NewData(s, i + 1) /\ Dest(t, i) = Dest(s, i + 1)

\* The messages to the audio thread after one of them was taken.
RTTaken(s, t) ==
    /\ 1 \in ToRT(s)
    /\ \A i \in ToRT(t) : Moved(s, t, i)
    /\ \A i \in ToRT(s) : i # 1 => 1 < i /\ \E j \in ToRT(t) : i = j + 1 /\ Moved(s, t, j)

LEMMA TakenRT ==
    ASSUME NEW s, NEW t, Base(s), t.toRT \in Seq(Msg), Popped(s.toRT, t.toRT, s.toRT[1]),
           \A d \in Cmds(s) : /\ t.cmds[d].kind = s.cmds[d].kind /\ t.cmds[d].buf = s.cmds[d].buf
                              /\ t.cmds[d].mSndBuf = s.cmds[d].mSndBuf
    PROVE  RTTaken(s, t)
  <1>1. s.toRT \in Seq(Msg) /\ \A i \in ToRT(s) : s.toRT[i].cmd \in Cmds(s)
    BY DEF Base, Typed, Queues
  <1>2. /\ 1 \in ToRT(s)
        /\ \A i \in ToRT(t) : i \in Nat /\ i + 1 \in ToRT(s) /\ t.toRT[i] = s.toRT[i + 1]
        /\ \A i \in ToRT(s) : i = 1 \/ (1 < i /\ i - 1 \in ToRT(t) /\ i = (i - 1) + 1)
    BY <1>1 DEF Popped, ToRT
  <1>3. ASSUME NEW i \in ToRT(t) PROVE Moved(s, t, i)
    BY <1>1, <1>2 DEF Moved, Going, Writing, NewData, Dest
  <1>4. QED
    BY <1>2, <1>3 DEF RTTaken

\* The commands after stage 3 of c.
CmdsAfter3(s, t, c) ==
    /\ Cmds(t) = Cmds(s) /\ c \in Cmds(s) /\ s.cmds[c].buf \in Buf
    /\ Stage(s, c) = 3 /\ s.cmds[c].reply = "none" /\ Stage(t, c) = 4
    /\ \A d \in Cmds(s) : /\ t.cmds[d].buf = s.cmds[d].buf /\ t.cmds[d].kind = s.cmds[d].kind
                          /\ t.cmds[d].mSndBuf = s.cmds[d].mSndBuf
                          /\ t.cmds[d].reply = s.cmds[d].reply /\ Old(t, d) = Old(s, d)
                          /\ d # c => t.cmds[d] = s.cmds[d] /\ Stage(t, d) = Stage(s, d)

LEMMA Staged3Cmds ==
    ASSUME NEW s, NEW t, NEW c, Base(s), Staged3(s, t, c)
    PROVE  CmdsAfter3(s, t, c) /\ RTTaken(s, t)
  <1>1. /\ \A d \in Cmds(s) : /\ t.cmds[d].buf = s.cmds[d].buf /\ t.cmds[d].kind = s.cmds[d].kind
                              /\ t.cmds[d].mSndBuf = s.cmds[d].mSndBuf
                              /\ t.cmds[d].reply = s.cmds[d].reply /\ Old(t, d) = Old(s, d)
                              /\ d # c => t.cmds[d] = s.cmds[d] /\ Stage(t, d) = Stage(s, d)
        /\ Stage(t, c) = 4 /\ c \in Cmds(s)
    BY DEF Staged3, Old, Stage
  <1>2. RTTaken(s, t)
    BY <1>1, TakenRT DEF Staged3
  <1>3. Stage(s, c) = 3 /\ s.cmds[c].reply = "none"
    <2>1. 1 \in ToRT(s) /\ s.toRT[1].cmd = c /\ Going(s, 1)
      BY <1>2 DEF RTTaken, Staged3
    <2>2. QED
      BY <2>1 DEF Base, Queues
  <1>4. s.cmds[c].buf \in Buf
    BY <1>1, CmdType DEF Base
  <1>5. Cmds(t) = Cmds(s)
    BY DEF Staged3, Cmds
  <1>6. QED
    BY <1>1, <1>2, <1>3, <1>4, <1>5 DEF CmdsAfter3

\* Command c is not in the FIFO to the NRT thread, and no other message to the
\* audio thread is of c.
LEMMA Staged3Only ==
    ASSUME NEW s, NEW t, NEW c, Base(s), Staged3(s, t, c)
    PROVE  /\ \A i \in ToNRT(s) : s.toNRT[i] # c
           /\ \A i \in ToRT(t) : Going(t, i) => t.toRT[i].cmd # c
  <1>1. CmdsAfter3(s, t, c) /\ RTTaken(s, t)
    BY Staged3Cmds
  <1>2. ASSUME NEW i \in ToNRT(s) PROVE s.toNRT[i] # c
    <2>1. Stage(s, s.toNRT[i]) # 3 /\ Stage(s, c) = 3
      BY <1>1 DEF Base, Queues, CmdsAfter3
    <2>2. QED
      BY <2>1
  <1>3. ASSUME NEW i \in ToRT(t), Going(t, i), t.toRT[i].cmd = c PROVE FALSE
    <2>1. i \in Nat /\ i + 1 \in ToRT(s) /\ Going(s, i + 1) /\ s.toRT[i + 1].cmd = c
      BY <1>1, <1>3 DEF RTTaken, Moved
    <2>2. 1 \in ToRT(s) /\ Going(s, 1) /\ s.toRT[1].cmd = c
      BY <1>1 DEF RTTaken, Staged3
    <2>3. i + 1 = 1
      BY <2>1, <2>2, <1>3 DEF Base, Queues
    <2>4. i # 0
      BY <1>3 DEF ToRT
    <2>5. QED
      BY <2>1, <2>3, <2>4
  <1>4. QED
    BY <1>2, <1>3

LEMMA Staged3Base ==
    ASSUME NEW s, NEW t, NEW c, Base(s), Staged3(s, t, c)
    PROVE  Base(t)
  <1>1. CmdsAfter3(s, t, c) /\ RTTaken(s, t)
    BY Staged3Cmds
  <1>2. /\ \A i \in ToNRT(s) : s.toNRT[i] # c
        /\ \A i \in ToRT(t) : Going(t, i) => t.toRT[i].cmd # c
    BY Staged3Only
  <1>3. Typed(t)
    BY DEF Staged3, Base, Typed
  <1>4. \A i \in ToNRT(t) : \/ i \in ToNRT(s) /\ t.toNRT[i] = s.toNRT[i]
                            \/ i = Len(s.toNRT) + 1 /\ t.toNRT[i] = c
    <2>1. s.toNRT \in Seq(Nat) /\ t.toNRT \in Seq(Nat) /\ Pass(s.toNRT, t.toNRT, c, s.lost, t.lost)
      BY DEF Base, Typed, Staged3
    <2>2. QED
      BY <2>1, PassAt DEF ToNRT
  <1>5. ASSUME NEW i \in ToNRT(t)
        PROVE  t.toNRT[i] \in Cmds(t) /\ Stage(t, t.toNRT[i]) \in {2, 4}
    <2>1. CASE i \in ToNRT(s) /\ t.toNRT[i] = s.toNRT[i]
      BY <2>1, <1>1, <1>2 DEF CmdsAfter3, Base, Queues
    <2>2. CASE t.toNRT[i] = c
      BY <2>2, <1>1 DEF CmdsAfter3
    <2>3. QED
      BY <2>1, <2>2, <1>4
  <1>6. ASSUME NEW i \in ToNRT(t), NEW j \in ToNRT(t), t.toNRT[i] = t.toNRT[j] PROVE i = j
    BY <1>2, <1>4, <1>6 DEF Base, Queues
  <1>7. ASSUME NEW i \in ToRT(t)
        PROVE  /\ t.toRT[i].cmd \in Cmds(t)
               /\ Going(t, i) => /\ Stage(t, t.toRT[i].cmd) = 3
                                 /\ t.cmds[t.toRT[i].cmd].reply = "none"
    <2>1. /\ i + 1 \in ToRT(s) /\ t.toRT[i] = s.toRT[i + 1] /\ s.toRT[i + 1].cmd \in Cmds(s)
          /\ Going(t, i) <=> Going(s, i + 1)
      BY <1>1 DEF RTTaken, Moved
    <2>2. Going(s, i + 1) => Stage(s, s.toRT[i + 1].cmd) = 3 /\ s.cmds[s.toRT[i + 1].cmd].reply = "none"
      BY <2>1 DEF Base, Queues
    <2>3. QED
      BY <2>1, <2>2, <1>1, <1>2 DEF CmdsAfter3
  <1>8. ASSUME NEW i \in ToRT(t), NEW j \in ToRT(t), Going(t, i), Going(t, j),
               t.toRT[i].cmd = t.toRT[j].cmd
        PROVE  i = j
    <2>1. /\ i + 1 \in ToRT(s) /\ j + 1 \in ToRT(s) /\ Going(s, i + 1) /\ Going(s, j + 1)
          /\ s.toRT[i + 1].cmd = s.toRT[j + 1].cmd /\ i \in Nat /\ j \in Nat
      BY <1>1, <1>8 DEF RTTaken, Moved
    <2>2. i + 1 = j + 1
      BY <2>1 DEF Base, Queues
    <2>3. QED
      BY <2>1, <2>2
  <1>9. Queues(t)
    BY <1>5, <1>6, <1>7, <1>8 DEF Queues
  <1>10. \A d, a : Made(s, d, a) => Made(t, d, a)
    BY <1>1 DEF Made, CmdsAfter3
  <1>11. ASSUME NEW a \in Buf PROVE Made(t, t.mirror[a].data, a) /\ Made(t, t.snd[a].data, a)
    <2>1. Made(s, s.mirror[a].data, a) /\ Made(s, s.snd[a].data, a)
      BY DEF Base, Names
    <2>2. Made(s, s.cmds[c].mSndBuf.data, s.cmds[c].buf)
      BY <1>1 DEF Base, Names, CmdsAfter3
    <2>3. t.snd[a].data = s.snd[a].data \/ (a = s.cmds[c].buf /\ t.snd[a].data = s.cmds[c].mSndBuf.data)
      BY DEF Staged3
    <2>4. t.mirror = s.mirror
      BY DEF Staged3
    <2>5. QED
      BY <2>1, <2>2, <2>3, <2>4, <1>10
  <1>12. Record(t.cmds[c])
    <2>1. Record(s.cmds[c]) /\ s.cmds[c].reply = "none"
      BY <1>1 DEF Base, Names, CmdsAfter3
    <2>2. /\ t.cmds[c].kind = s.cmds[c].kind /\ t.cmds[c].mNextStage = 4
          /\ t.cmds[c].mFreeData = s.cmds[c].mFreeData
          /\ t.cmds[c].mSndBuf = s.cmds[c].mSndBuf /\ t.cmds[c].reply = s.cmds[c].reply
      BY DEF Staged3
    <2>3. QED
      BY <2>1, <2>2 DEF Record
  <1>13. ASSUME NEW d \in Cmds(t)
         PROVE  /\ Made(t, Old(t, d), t.cmds[d].buf)
                /\ Made(t, t.cmds[d].mSndBuf.data, t.cmds[d].buf)
                /\ Record(t.cmds[d])
    <2>1. /\ d \in Cmds(s) /\ t.cmds[d].buf = s.cmds[d].buf
          /\ t.cmds[d].mSndBuf = s.cmds[d].mSndBuf /\ Old(t, d) = Old(s, d)
          /\ d # c => t.cmds[d] = s.cmds[d]
      BY <1>1 DEF CmdsAfter3
    <2>2. /\ Made(s, Old(s, d), s.cmds[d].buf)
          /\ Made(s, s.cmds[d].mSndBuf.data, s.cmds[d].buf)
          /\ Record(s.cmds[d])
      BY <2>1 DEF Base, Names
    <2>3. QED
      BY <2>1, <2>2, <1>10, <1>12
  <1>14. Names(t)
    BY <1>11, <1>13 DEF Names
  <1>15. QED
    BY <1>3, <1>9, <1>14 DEF Base

LEMMA Staged3Apart ==
    ASSUME NEW s, NEW t, NEW c, Base(s), Apart(s), Staged3(s, t, c)
    PROVE  Apart(t)
  <1> SUFFICES ASSUME t.up /\ ~t.noSamples PROVE Apart(t)
    BY DEF Apart
  <1>1. PICK b : b = s.cmds[c].buf
    OBVIOUS
  <1>2. CmdsAfter3(s, t, c) /\ RTTaken(s, t)
    BY Staged3Cmds
  <1>3. Pointing(s) /\ (\A d \in Cmds(s) : Gone(s, d)) /\ (\A i \in ToRT(s) : Behind(s, i))
    BY DEF Apart, Staged3
  <1>4. /\ 1 \in ToRT(s) /\ Going(s, 1) /\ s.toRT[1].cmd = c /\ b \in Buf
        /\ t.mirror = s.mirror /\ t.live = s.live
        /\ Writing(s, 1) => t.snd[b].data = NewData(s, 1)
        /\ ~Writing(s, 1) => t.snd[b] = s.snd[b]
        /\ \A a \in Buf : a # b => t.snd[a] = s.snd[a]
    BY <1>1, <1>2 DEF Staged3, RTTaken, CmdsAfter3, Writing, NewData
  <1>5. Pointing(t)
    <2>1. ASSUME NEW a \in Buf
          PROVE  /\ t.mirror[a].data \in t.live \cup {Nothing}
                 /\ t.snd[a].data \in t.live \cup {Nothing}
      BY <1>3, <1>4 DEF Pointing
    <2>2. ASSUME NEW i \in ToRT(t), Writing(t, i) PROVE NewData(t, i) \in t.live \cup {Nothing}
      <3>1. i + 1 \in ToRT(s) /\ Writing(s, i + 1) /\ NewData(t, i) = NewData(s, i + 1)
        BY <2>2, <1>2 DEF RTTaken, Moved
      <3>2. QED
        BY <3>1, <1>3, <1>4 DEF Pointing
    <2>3. QED
      BY <2>1, <2>2 DEF Pointing
  <1>6. ASSUME NEW d \in Cmds(t) PROVE Gone(t, d)
    <2> SUFFICES ASSUME Old(t, d) # Nothing PROVE Gone(t, d)
      BY DEF Gone
    <2>1. /\ d \in Cmds(s) /\ t.cmds[d].buf = s.cmds[d].buf /\ Old(t, d) = Old(s, d)
          /\ d # c => Stage(t, d) = Stage(s, d)
      BY <1>2 DEF CmdsAfter3
    <2>2. Gone(s, d) /\ s.cmds[d].buf \in Buf
      BY <2>1, <1>3, CmdType DEF Base
    <2>3. t.mirror[t.cmds[d].buf].data # Old(t, d)
      BY <2>1, <2>2, <1>4 DEF Gone
    \* What was on the way to the audio thread is not what d will free.
    <2>4. ASSUME Stage(t, d) = 4, NEW i \in ToRT(s), Writing(s, i)
          PROVE  NewData(s, i) # Old(s, d)
      <3>1. CASE d = c
        <4>1. Behind(s, 1) /\ 1 <= i
          BY <1>3, <1>4 DEF ToRT
        <4>2. QED
          BY <2>1, <2>4, <3>1, <4>1, <1>4 DEF Behind
      <3>2. CASE d # c
        BY <2>1, <2>2, <2>4, <3>2 DEF Gone
      <3>3. QED
        BY <3>1, <3>2
    <2>5. ASSUME Stage(t, d) = 4, NEW i \in ToRT(t), Writing(t, i)
          PROVE  NewData(t, i) # Old(t, d)
      <3>1. i + 1 \in ToRT(s) /\ Writing(s, i + 1) /\ NewData(t, i) = NewData(s, i + 1)
        BY <2>5, <1>2 DEF RTTaken, Moved
      <3>2. QED
        BY <2>1, <2>4, <2>5, <3>1
    <2>6. ASSUME Stage(t, d) = 4 PROVE t.snd[t.cmds[d].buf].data # Old(t, d)
      <3>1. CASE s.cmds[d].buf = b /\ Writing(s, 1)
        BY <2>1, <2>4, <2>6, <3>1, <1>4
      <3>2. CASE ~(s.cmds[d].buf = b /\ Writing(s, 1))
        <4>1. d # c
          <5>1. ASSUME d = c PROVE FALSE
            <6>1. Record(s.cmds[c]) /\ ~Writes(s.cmds[c].kind)
              BY <3>2, <5>1, <1>1, <1>2, <1>4 DEF Writing, Base, Names, CmdsAfter3
            <6>2. Old(s, c) = Nothing
              BY <6>1 DEF Record, Old
            <6>3. QED
              BY <5>1, <6>2, <2>1
          <5>2. QED
            BY <5>1
        <4>2. t.snd[s.cmds[d].buf] = s.snd[s.cmds[d].buf]
          BY <2>2, <3>2, <1>4
        <4>3. QED
          BY <2>1, <2>2, <2>6, <4>1, <4>2 DEF Gone
      <3>3. QED
        BY <3>1, <3>2
    <2>7. QED
      BY <2>3, <2>5, <2>6 DEF Gone
  <1>7. ASSUME NEW i \in ToRT(t) PROVE Behind(t, i)
    <2> SUFFICES ASSUME Going(t, i), Old(t, t.toRT[i].cmd) # Nothing,
                        NEW j \in ToRT(t), i <= j, Writing(t, j)
                 PROVE  NewData(t, j) # Old(t, t.toRT[i].cmd)
      BY DEF Behind
    <2>1. /\ i + 1 \in ToRT(s) /\ Going(s, i + 1) /\ t.toRT[i] = s.toRT[i + 1] /\ i \in Nat
          /\ s.toRT[i + 1].cmd \in Cmds(s)
      BY <1>2 DEF RTTaken, Moved
    <2>2. j + 1 \in ToRT(s) /\ Writing(s, j + 1) /\ NewData(t, j) = NewData(s, j + 1) /\ j \in Nat
      BY <1>2 DEF RTTaken, Moved
    <2>3. Old(t, t.toRT[i].cmd) = Old(s, s.toRT[i + 1].cmd)
      BY <2>1, <1>2 DEF CmdsAfter3
    <2>4. Behind(s, i + 1) /\ i + 1 <= j + 1
      BY <2>1, <2>2, <1>3
    <2>5. QED
      BY <2>1, <2>2, <2>3, <2>4 DEF Behind
  <1>8. QED
    BY <1>5, <1>6, <1>7 DEF Apart

LEMMA Staged3InOrder ==
    ASSUME NEW s, NEW t, NEW c, Base(s), InOrder(s), Staged3(s, t, c)
    PROVE  InOrder(t)
  <1> SUFFICES ASSUME ~t.lost PROVE InOrder(t)
    BY DEF InOrder
  <1>1. CmdsAfter3(s, t, c) /\ RTTaken(s, t)
    BY Staged3Cmds
  <1>2. /\ \A i \in ToNRT(s) : s.toNRT[i] # c
        /\ \A i \in ToRT(t) : Going(t, i) => t.toRT[i].cmd # c
    BY Staged3Only
  <1>3. PICK n : n = Len(s.toNRT) + 1
    OBVIOUS
  <1>4. /\ ~s.lost /\ n \in ToNRT(t) /\ t.toNRT[n] = c
        /\ \A i \in ToNRT(t) : \/ i \in ToNRT(s) /\ t.toNRT[i] = s.toNRT[i]
                               \/ i = n /\ t.toNRT[i] = c
        /\ \A i \in ToNRT(s) : i \in ToNRT(t) /\ t.toNRT[i] = s.toNRT[i] /\ i < n
    <2>1. s.toNRT \in Seq(Nat) /\ t.toNRT \in Seq(Nat)
      BY DEF Base, Typed, Staged3
    <2>2. Pushed(s.toNRT, t.toNRT, c)
      BY DEF Pass, Staged3
    <2>5. ~s.lost
      BY DEF Pass, Staged3
    <2>3. /\ Len(s.toNRT) + 1 \in ToNRT(t) /\ t.toNRT[Len(s.toNRT) + 1] = c
          /\ \A i \in ToNRT(t) : \/ i \in ToNRT(s) /\ t.toNRT[i] = s.toNRT[i]
                                 \/ i = Len(s.toNRT) + 1 /\ t.toNRT[i] = c
          /\ \A i \in ToNRT(s) : i \in ToNRT(t) /\ t.toNRT[i] = s.toNRT[i] /\ i < Len(s.toNRT) + 1
      BY <2>1, <2>2, SMTT(40) DEF ToNRT, Pushed
    <2>4. QED
      BY <2>3, <2>5, <1>3
  <1>5. /\ Cmds(t) = Cmds(s) /\ c \in Cmds(s) /\ Stage(s, c) = 3 /\ s.cmds[c].reply = "none"
        /\ \A d \in Cmds(s) : /\ t.cmds[d].reply = s.cmds[d].reply
                              /\ d # c => Stage(t, d) = Stage(s, d)
        /\ Stage(t, c) = 4
    BY <1>1 DEF CmdsAfter3
  <1>6. /\ \A d \in Cmds(s) : Waits(s, d)
        /\ \A e, d \in Cmds(s) : d < e => Stage(s, d) >= Stage(s, e) \/ s.cmds[d].reply = "/fail"
        /\ \A i, j \in ToNRT(s) :
              i < j /\ Stage(s, s.toNRT[i]) = Stage(s, s.toNRT[j]) => s.toNRT[i] < s.toNRT[j]
        /\ \A i, j \in ToRT(s) :
              i < j /\ Going(s, i) /\ Going(s, j) => s.toRT[i].cmd < s.toRT[j].cmd
        /\ \A e, d \in Cmds(s) :
              d < e /\ s.cmds[e].reply = "/done" => s.cmds[d].reply # "none"
    BY <1>4 DEF InOrder
  <1>7. \A d \in Cmds(s) : Stage(s, d) \in 2 .. 4 /\ d \in Nat
    BY CmdType DEF Base, Stage, Cmds
  <1>8. /\ 1 \in ToRT(s) /\ Going(s, 1) /\ s.toRT[1].cmd = c
        /\ \A i \in ToRT(t) : /\ i \in Nat /\ i + 1 \in ToRT(s) /\ t.toRT[i] = s.toRT[i + 1]
                              /\ Going(t, i) <=> Going(s, i + 1)
        /\ \A i \in ToRT(s) : i # 1 => 1 < i /\ \E j \in ToRT(t) : i = j + 1
    BY <1>1 DEF RTTaken, Moved, Staged3
  \* No command before c is behind it in the FIFO.
  <1>9. ASSUME NEW d \in Cmds(s), d < c PROVE Stage(s, d) = 4 \/ s.cmds[d].reply = "/fail"
    <2>1. ASSUME Stage(s, d) = 3, s.cmds[d].reply # "/fail" PROVE FALSE
      <3>1. PICK i \in ToRT(s) : Going(s, i) /\ s.toRT[i].cmd = d
        BY <2>1, <1>6 DEF Waits
      <3>2. 1 < i
        BY <3>1, <1>7, <1>8, <1>9
      <3>3. c < d
        BY <3>1, <3>2, <1>6, <1>8
      <3>4. QED
        BY <3>3, <1>5, <1>7, <1>9
    <2>2. Stage(s, d) >= 3 \/ s.cmds[d].reply = "/fail"
      BY <1>5, <1>6, <1>9
    <2>3. QED
      BY <2>1, <2>2, <1>7
  <1>10. ASSUME NEW d \in Cmds(t) PROVE Waits(t, d)
    <2>1. CASE d = c
      BY <2>1, <1>4, <1>5 DEF Waits
    <2>2. CASE d # c
      <3>1. Waits(s, d) /\ t.cmds[d].reply = s.cmds[d].reply /\ Stage(t, d) = Stage(s, d)
        BY <2>2, <1>5, <1>6
      <3>2. (\E i \in ToNRT(s) : s.toNRT[i] = d) => \E i \in ToNRT(t) : t.toNRT[i] = d
        BY <1>4
      <3>3. ASSUME NEW i \in ToRT(s), Going(s, i), s.toRT[i].cmd = d
            PROVE  \E j \in ToRT(t) : Going(t, j) /\ t.toRT[j].cmd = d
        <4>1. i # 1
          BY <2>2, <3>3, <1>8
        <4>2. PICK j \in ToRT(t) : i = j + 1
          BY <4>1, <1>8
        <4>3. QED
          BY <3>3, <4>2, <1>8
      <3>4. QED
        BY <3>1, <3>2, <3>3 DEF Waits
    <2>3. QED
      BY <2>1, <2>2
  <1>11. ASSUME NEW e \in Cmds(t), NEW d \in Cmds(t), d < e
         PROVE  Stage(t, d) >= Stage(t, e) \/ t.cmds[d].reply = "/fail"
    <2>1. CASE e = c
      BY <2>1, <1>5, <1>7, <1>9, <1>11
    <2>2. CASE d = c
      BY <2>2, <1>5, <1>7, <1>11
    <2>3. CASE e # c /\ d # c
      BY <2>3, <1>5, <1>6, <1>11
    <2>4. QED
      BY <2>1, <2>2, <2>3
  <1>12. ASSUME NEW i \in ToNRT(t), NEW j \in ToNRT(t), i < j,
                Stage(t, t.toNRT[i]) = Stage(t, t.toNRT[j])
         PROVE  t.toNRT[i] < t.toNRT[j]
    <2>1. i \in ToNRT(s) /\ t.toNRT[i] = s.toNRT[i]
      <3>1. j <= n
        BY <1>3, <1>4 DEF ToNRT, Base, Typed
      <3>2. i # n
        BY <3>1, <1>12 DEF ToNRT
      <3>3. QED
        BY <3>2, <1>4
    <2>2. s.toNRT[i] \in Cmds(s) /\ s.toNRT[i] # c /\ Stage(t, s.toNRT[i]) = Stage(s, s.toNRT[i])
      BY <2>1, <1>2, <1>5 DEF Base, Queues
    <2>3. CASE j \in ToNRT(s) /\ t.toNRT[j] = s.toNRT[j]
      <3>1. s.toNRT[j] \in Cmds(s) /\ s.toNRT[j] # c /\ Stage(t, s.toNRT[j]) = Stage(s, s.toNRT[j])
        BY <2>3, <1>2, <1>5 DEF Base, Queues
      <3>2. QED
        BY <2>1, <2>2, <2>3, <3>1, <1>6, <1>12
    <2>4. CASE t.toNRT[j] = c
      <3>1. Stage(s, s.toNRT[i]) = 4
        BY <2>1, <2>2, <2>4, <1>5, <1>12
      <3>2. ~(c < s.toNRT[i])
        BY <2>2, <3>1, <1>5, <1>6
      <3>3. QED
        BY <2>1, <2>2, <2>4, <3>2, <1>5, <1>7
    <2>5. QED
      BY <2>3, <2>4, <1>4
  <1>13. ASSUME NEW i \in ToRT(t), NEW j \in ToRT(t), i < j, Going(t, i), Going(t, j)
         PROVE  t.toRT[i].cmd < t.toRT[j].cmd
    <2>1. i + 1 < j + 1
      BY <1>8, <1>13
    <2>2. QED
      BY <2>1, <1>6, <1>8, <1>13
  <1>14. ASSUME NEW e \in Cmds(t), NEW d \in Cmds(t), d < e, t.cmds[e].reply = "/done"
         PROVE  t.cmds[d].reply # "none"
    BY <1>5, <1>6, <1>14
  <1>15. QED
    BY <1>10, <1>11, <1>12, <1>13, <1>14 DEF InOrder

\* The last message for a buffer after the first message was taken.
LEMMA LastTaken ==
    ASSUME NEW s, NEW t, RTTaken(s, t), NEW i \in Nat, NEW a, LastFor(t, i, a)
    PROVE  LastFor(s, i + 1, a)
  <1>1. ASSUME NEW j \in ToRT(s), i + 1 < j, Writing(s, j) PROVE Dest(s, j) # a
    <2>1. j \in Nat /\ j # 1
      BY <1>1 DEF ToRT
    <2>2. PICK k \in ToRT(t) : j = k + 1 /\ Moved(s, t, k)
      BY <2>1, <1>1 DEF RTTaken
    <2>3. i < k /\ Writing(t, k) /\ Dest(t, k) = Dest(s, j)
      BY <2>2, <1>1 DEF Moved
    <2>4. QED
      BY <2>2, <2>3 DEF LastFor
  <1>2. QED
    BY <1>1 DEF LastFor

LEMMA Staged3Agree ==
    ASSUME NEW s, NEW t, NEW c, Base(s), Agree(s), Staged3(s, t, c)
    PROVE  Agree(t)
  <1> SUFFICES ASSUME t.up /\ ~t.lost PROVE Agree(t)
    BY DEF Agree
  <1>1. PICK b : b = s.cmds[c].buf
    OBVIOUS
  <1>2. CmdsAfter3(s, t, c) /\ RTTaken(s, t)
    BY Staged3Cmds
  <1>3. /\ 1 \in ToRT(s) /\ Going(s, 1) /\ s.toRT[1].cmd = c /\ b \in Buf /\ Dest(s, 1) = b
        /\ t.mirror = s.mirror /\ t.live = s.live /\ t.noSamples = s.noSamples
        /\ Writing(s, 1) => t.snd[b].data = NewData(s, 1)
        /\ ~Writing(s, 1) => t.snd[b] = s.snd[b]
        /\ \A a \in Buf : a # b => t.snd[a] = s.snd[a]
    BY <1>1, <1>2 DEF Staged3, RTTaken, CmdsAfter3, Writing, NewData, Dest
  <1>4. /\ \A a \in Buf : LastFor(s, 0, a) => s.snd[a].data = s.mirror[a].data
        /\ \A i \in ToRT(s) : Writing(s, i) /\ LastFor(s, i, Dest(s, i)) =>
              NewData(s, i) = s.mirror[Dest(s, i)].data
        /\ ~s.noSamples =>
              \A x \in s.live : \/ \E a \in Buf : s.mirror[a].data = x
                                \/ \E d \in Cmds(s) : Old(s, d) = x /\ s.cmds[d].reply = "none"
    BY DEF Agree, Staged3, Pass
  <1>5. ASSUME NEW a \in Buf, LastFor(t, 0, a) PROVE t.snd[a].data = t.mirror[a].data
    <2>1. LastFor(s, 1, a)
      <3>1. LastFor(s, 0 + 1, a)
        BY <1>2, <1>5, LastTaken
      <3>2. QED
        BY <3>1
    <2>2. CASE Writing(s, 1) /\ a = b
      BY <2>1, <2>2, <1>3, <1>4
    <2>3. CASE ~(Writing(s, 1) /\ a = b)
      <3>1. t.snd[a] = s.snd[a]
        BY <2>3, <1>3
      <3>2. ASSUME NEW j \in ToRT(s), 0 < j, Writing(s, j) PROVE Dest(s, j) # a
        <4>1. CASE j = 1
          BY <2>3, <3>2, <4>1, <1>3
        <4>2. CASE j # 1
          <5>1. 1 < j
            BY <4>2, <1>2 DEF RTTaken
          <5>2. QED
            BY <2>1, <3>2, <5>1 DEF LastFor
        <4>3. QED
          BY <4>1, <4>2
      <3>3. LastFor(s, 0, a)
        BY <3>2 DEF LastFor
      <3>4. QED
        BY <3>1, <3>3, <1>3, <1>4
    <2>4. QED
      BY <2>2, <2>3
  <1>6. ASSUME NEW i \in ToRT(t), Writing(t, i), LastFor(t, i, Dest(t, i))
        PROVE  NewData(t, i) = t.mirror[Dest(t, i)].data
    <2>1. /\ i \in Nat /\ i + 1 \in ToRT(s) /\ Writing(s, i + 1)
          /\ NewData(t, i) = NewData(s, i + 1) /\ Dest(t, i) = Dest(s, i + 1)
      BY <1>2, <1>6 DEF RTTaken, Moved
    <2>2. LastFor(s, i + 1, Dest(s, i + 1))
      BY <2>1, <1>2, <1>6, LastTaken
    <2>3. QED
      BY <2>1, <2>2, <1>3, <1>4
  <1>7. ASSUME ~t.noSamples, NEW x \in t.live
        PROVE  \/ \E a \in Buf : t.mirror[a].data = x
               \/ \E d \in Cmds(t) : Old(t, d) = x /\ t.cmds[d].reply = "none"
    BY <1>2, <1>3, <1>4, <1>7 DEF CmdsAfter3
  <1>8. QED
    BY <1>5, <1>6, <1>7 DEF Agree

-----------------------------------------------------------------------------
(* Stage 4. *)

Staged4(s, t, c) ==
    /\ c \in Cmds(s) /\ Stage(s, c) = 4
    /\ t.toNRT \in Seq(Nat) /\ Popped(s.toNRT, t.toNRT, c)
    /\ t.cmds \in Seq(CmdRec) /\ Len(t.cmds) = Len(s.cmds)
    /\ \A d \in Cmds(s) : d # c => t.cmds[d] = s.cmds[d]
    /\ t.cmds[c].kind = s.cmds[c].kind /\ t.cmds[c].buf = s.cmds[c].buf
    /\ t.cmds[c].mNextStage = 4 /\ t.cmds[c].mFreeData = s.cmds[c].mFreeData
    /\ t.cmds[c].mSndBuf = s.cmds[c].mSndBuf /\ t.cmds[c].reply = "/done"
    /\ t.live = s.live \ {Old(s, c)}
    /\ t.toRT \in Seq(Msg) /\ t.lost \in BOOLEAN
    /\ Pass(s.toRT, t.toRT, [cmd |-> c, delete |-> TRUE], s.lost, t.lost)
    /\ t.mirror = s.mirror /\ t.snd = s.snd /\ t.noSamples = s.noSamples /\ t.up = s.up

\* The commands, and the messages to the audio thread, after stage 4 of c.
CmdsAfter4(s, t, c) ==
    /\ Cmds(t) = Cmds(s) /\ c \in Cmds(s) /\ s.cmds[c].buf \in Buf
    /\ Stage(s, c) = 4 /\ s.cmds[c].reply # "/fail" /\ t.cmds[c].reply = "/done"
    /\ \A d \in Cmds(s) : /\ t.cmds[d].buf = s.cmds[d].buf /\ t.cmds[d].kind = s.cmds[d].kind
                          /\ t.cmds[d].mSndBuf = s.cmds[d].mSndBuf
                          /\ Old(t, d) = Old(s, d) /\ Stage(t, d) = Stage(s, d)
                          /\ d # c => t.cmds[d] = s.cmds[d]
RTAfter4(s, t, c) ==
    /\ \A i \in ToRT(s) : SameMsg(s, t, i) /\ (Going(s, i) => s.toRT[i].cmd # c)
    /\ \A i \in ToRT(t) : SameMsg(s, t, i) \/ (t.toRT[i].cmd = c /\ ~Going(t, i))

LEMMA Staged4Cmds ==
    ASSUME NEW s, NEW t, NEW c, Base(s), Staged4(s, t, c)
    PROVE  CmdsAfter4(s, t, c)
  <1>1. /\ \A d \in Cmds(s) : /\ t.cmds[d].buf = s.cmds[d].buf /\ t.cmds[d].kind = s.cmds[d].kind
                              /\ t.cmds[d].mSndBuf = s.cmds[d].mSndBuf
                              /\ Old(t, d) = Old(s, d) /\ Stage(t, d) = Stage(s, d)
                              /\ d # c => t.cmds[d] = s.cmds[d]
        /\ c \in Cmds(s) /\ Stage(s, c) = 4 /\ t.cmds[c].reply = "/done"
    BY DEF Staged4, Old, Stage
  <1>2. s.cmds[c].reply # "/fail"
    <2>1. Record(s.cmds[c])
      BY <1>1 DEF Base, Names
    <2>2. QED
      BY <2>1, <1>1 DEF Record, Stage
  <1>3. s.cmds[c].buf \in Buf
    BY <1>1, CmdType DEF Base
  <1>4. Cmds(t) = Cmds(s)
    BY DEF Staged4, Cmds
  <1>5. QED
    BY <1>1, <1>2, <1>3, <1>4 DEF CmdsAfter4

LEMMA Staged4RT ==
    ASSUME NEW s, NEW t, NEW c, Base(s), Staged4(s, t, c)
    PROVE  RTAfter4(s, t, c)
  <1>1. PICK m : m = [cmd |-> c, delete |-> TRUE]
    OBVIOUS
  <1>2. m.cmd = c /\ m.delete
    BY <1>1
  <1>3. s.toRT \in Seq(Msg) /\ t.toRT \in Seq(Msg) /\ Pass(s.toRT, t.toRT, m, s.lost, t.lost)
    BY <1>1, Zenon DEF Base, Typed, Staged4
  <1>4. /\ \A i \in ToRT(t) : \/ i \in ToRT(s) /\ t.toRT[i] = s.toRT[i]
                              \/ i = Len(s.toRT) + 1 /\ t.toRT[i] = m
        /\ \A i \in ToRT(s) : i \in ToRT(t) /\ t.toRT[i] = s.toRT[i] /\ i < Len(s.toRT) + 1
    BY <1>3, PassAt, SMTT(40) DEF ToRT
  <1>5. \A i \in ToRT(s) : /\ s.toRT[i].cmd \in Cmds(s)
                           /\ Going(s, i) => Stage(s, s.toRT[i].cmd) = 3
    BY DEF Base, Queues
  <1>6. c \in Cmds(s) /\ Stage(s, c) = 4 /\ \A d \in Cmds(s) : d # c => t.cmds[d] = s.cmds[d]
    BY DEF Staged4
  <1>7. \A i \in ToRT(s) : Going(s, i) => /\ s.toRT[i].cmd # c
                                          /\ t.cmds[s.toRT[i].cmd] = s.cmds[s.toRT[i].cmd]
    BY <1>5, <1>6
  <1>8. ASSUME NEW i \in ToRT(s) PROVE SameMsg(s, t, i)
    <2>1. i \in ToRT(t) /\ t.toRT[i] = s.toRT[i] /\ i < Len(s.toRT) + 1
      BY <1>4
    <2>2. Going(t, i) <=> Going(s, i)
      BY <2>1 DEF Going
    <2>3. CASE Going(s, i)
      BY <2>1, <2>2, <2>3, <1>5, <1>7 DEF SameMsg, Writing, NewData, Dest
    <2>4. CASE ~Going(s, i)
      BY <2>1, <2>2, <2>4, <1>5 DEF SameMsg, Writing
    <2>5. QED
      BY <2>3, <2>4
  <1>9. ASSUME NEW i \in ToRT(t), t.toRT[i] = m PROVE t.toRT[i].cmd = c /\ ~Going(t, i)
    BY <1>2, <1>9 DEF Going
  <1>10. QED
    BY <1>4, <1>7, <1>8, <1>9 DEF RTAfter4

LEMMA Staged4Base ==
    ASSUME NEW s, NEW t, NEW c, Base(s), Staged4(s, t, c)
    PROVE  Base(t)
  <1>1. CmdsAfter4(s, t, c) /\ RTAfter4(s, t, c)
    BY Staged4Cmds, Staged4RT
  <1>2. Rest(s, t.toNRT, c)
    BY TakenNRT DEF Staged4
  <1>3. Typed(t)
    BY DEF Staged4, Base, Typed
  <1>4. ASSUME NEW i \in ToNRT(t)
        PROVE  t.toNRT[i] \in Cmds(t) /\ Stage(t, t.toNRT[i]) \in {2, 4}
    <2>1. i + 1 \in ToNRT(s) /\ t.toNRT[i] = s.toNRT[i + 1]
      BY <1>2 DEF Rest, ToNRT
    <2>2. s.toNRT[i + 1] \in Cmds(s) /\ Stage(s, s.toNRT[i + 1]) \in {2, 4}
      BY <2>1 DEF Base, Queues
    <2>3. QED
      BY <2>1, <2>2, <1>1 DEF CmdsAfter4
  <1>5. ASSUME NEW i \in ToNRT(t), NEW j \in ToNRT(t), t.toNRT[i] = t.toNRT[j] PROVE i = j
    <2>1. /\ i + 1 \in ToNRT(s) /\ t.toNRT[i] = s.toNRT[i + 1] /\ i \in Nat
          /\ j + 1 \in ToNRT(s) /\ t.toNRT[j] = s.toNRT[j + 1] /\ j \in Nat
      BY <1>2 DEF Rest, ToNRT
    <2>2. i + 1 = j + 1
      BY <2>1, <1>5 DEF Base, Queues
    <2>3. QED
      BY <2>1, <2>2
  <1>6. ASSUME NEW i \in ToRT(t)
        PROVE  /\ t.toRT[i].cmd \in Cmds(t)
               /\ Going(t, i) => /\ Stage(t, t.toRT[i].cmd) = 3
                                 /\ t.cmds[t.toRT[i].cmd].reply = "none"
    <2>1. CASE SameMsg(s, t, i)
      <3>1. i \in ToRT(s) /\ t.toRT[i] = s.toRT[i] /\ s.toRT[i].cmd \in Cmds(s)
        BY <2>1 DEF SameMsg
      <3>2. Going(t, i) => Going(s, i) /\ s.toRT[i].cmd # c
        BY <2>1, <3>1, <1>1 DEF SameMsg, RTAfter4
      <3>3. Going(s, i) => Stage(s, s.toRT[i].cmd) = 3 /\ s.cmds[s.toRT[i].cmd].reply = "none"
        BY <3>1 DEF Base, Queues
      <3>4. QED
        BY <3>1, <3>2, <3>3, <1>1 DEF CmdsAfter4
    <2>2. CASE t.toRT[i].cmd = c /\ ~Going(t, i)
      BY <2>2, <1>1 DEF CmdsAfter4
    <2>3. QED
      BY <2>1, <2>2, <1>1 DEF RTAfter4
  <1>7. ASSUME NEW i \in ToRT(t), NEW j \in ToRT(t), Going(t, i), Going(t, j),
               t.toRT[i].cmd = t.toRT[j].cmd
        PROVE  i = j
    <2>1. SameMsg(s, t, i) /\ SameMsg(s, t, j)
      BY <1>1, <1>7 DEF RTAfter4
    <2>2. QED
      BY <2>1, <1>7 DEF SameMsg, Base, Queues
  <1>8. Queues(t)
    BY <1>4, <1>5, <1>6, <1>7 DEF Queues
  <1>9. \A d, a : Made(s, d, a) => Made(t, d, a)
    BY <1>1 DEF Made, CmdsAfter4
  <1>10. ASSUME NEW a \in Buf PROVE Made(t, t.mirror[a].data, a) /\ Made(t, t.snd[a].data, a)
    <2>1. t.mirror = s.mirror /\ t.snd = s.snd
      BY DEF Staged4
    <2>2. QED
      BY <2>1, <1>9 DEF Base, Names
  <1>11. Record(t.cmds[c])
    <2>1. Record(s.cmds[c])
      BY <1>1 DEF Base, Names, CmdsAfter4
    <2>2. /\ t.cmds[c].kind = s.cmds[c].kind /\ t.cmds[c].mNextStage = 4
          /\ t.cmds[c].mFreeData = s.cmds[c].mFreeData
          /\ t.cmds[c].mSndBuf = s.cmds[c].mSndBuf /\ t.cmds[c].reply = "/done"
      BY DEF Staged4
    <2>3. QED
      BY <2>1, <2>2 DEF Record
  <1>12. ASSUME NEW d \in Cmds(t)
         PROVE  /\ Made(t, Old(t, d), t.cmds[d].buf)
                /\ Made(t, t.cmds[d].mSndBuf.data, t.cmds[d].buf)
                /\ Record(t.cmds[d])
    <2>1. /\ d \in Cmds(s) /\ t.cmds[d].buf = s.cmds[d].buf
          /\ t.cmds[d].mSndBuf = s.cmds[d].mSndBuf /\ Old(t, d) = Old(s, d)
          /\ d # c => t.cmds[d] = s.cmds[d]
      BY <1>1 DEF CmdsAfter4
    <2>2. /\ Made(s, Old(s, d), s.cmds[d].buf)
          /\ Made(s, s.cmds[d].mSndBuf.data, s.cmds[d].buf)
          /\ Record(s.cmds[d])
      BY <2>1 DEF Base, Names
    <2>3. QED
      BY <2>1, <2>2, <1>9, <1>11
  <1>13. Names(t)
    BY <1>10, <1>12 DEF Names
  <1>14. QED
    BY <1>3, <1>8, <1>13 DEF Base

LEMMA Staged4Apart ==
    ASSUME NEW s, NEW t, NEW c, Base(s), Apart(s), Staged4(s, t, c)
    PROVE  Apart(t)
  <1> SUFFICES ASSUME t.up /\ ~t.noSamples PROVE Apart(t)
    BY DEF Apart
  <1>1. PICK x : x = Old(s, c)
    OBVIOUS
  <1>2. CmdsAfter4(s, t, c) /\ RTAfter4(s, t, c)
    BY Staged4Cmds, Staged4RT
  <1>3. Pointing(s) /\ (\A d \in Cmds(s) : Gone(s, d)) /\ (\A i \in ToRT(s) : Behind(s, i))
    BY DEF Apart, Staged4
  <1>4. t.mirror = s.mirror /\ t.snd = s.snd /\ t.live = s.live \ {x}
    BY <1>1, SMTT(40) DEF Staged4
  <1>5. ASSUME NEW i \in ToRT(t), Writing(t, i)
        PROVE  SameMsg(s, t, i) /\ i \in ToRT(s) /\ Writing(s, i) /\ NewData(t, i) = NewData(s, i)
    <2>1. SameMsg(s, t, i)
      BY <1>2, <1>5 DEF RTAfter4, Writing
    <2>2. QED
      BY <2>1, <1>5 DEF SameMsg, Writing
  <1>6. c \in Cmds(s) /\ Gone(s, c) /\ Stage(s, c) = 4 /\ Made(s, x, s.cmds[c].buf)
    BY <1>1, <1>2, <1>3 DEF CmdsAfter4, Base, Names
  <1>7. ASSUME NEW a \in Buf, x # Nothing PROVE s.mirror[a].data # x /\ s.snd[a].data # x
    <2>1. Made(s, s.mirror[a].data, a) /\ Made(s, s.snd[a].data, a)
      BY DEF Base, Names
    <2>2. s.mirror[a].data = x \/ s.snd[a].data = x => a = s.cmds[c].buf
      BY <2>1, <1>6, <1>7 DEF Made
    <2>3. QED
      BY <2>2, <1>1, <1>6, <1>7 DEF Gone
  <1>8. Pointing(t)
    <2>1. ASSUME NEW a \in Buf
          PROVE  /\ t.mirror[a].data \in t.live \cup {Nothing}
                 /\ t.snd[a].data \in t.live \cup {Nothing}
      <3>1. s.mirror[a].data \in s.live \cup {Nothing} /\ s.snd[a].data \in s.live \cup {Nothing}
        BY <1>3 DEF Pointing
      <3>2. QED
        BY <3>1, <1>4, <1>7
    <2>2. ASSUME NEW i \in ToRT(t), Writing(t, i) PROVE NewData(t, i) \in t.live \cup {Nothing}
      <3>1. i \in ToRT(s) /\ Writing(s, i) /\ NewData(t, i) = NewData(s, i)
        BY <2>2, <1>5
      <3>2. NewData(s, i) \in s.live \cup {Nothing}
        BY <3>1, <1>3 DEF Pointing
      <3>3. x # Nothing => NewData(s, i) # x
        BY <3>1, <1>1, <1>6 DEF Gone
      <3>4. QED
        BY <3>1, <3>2, <3>3, <1>4
    <2>3. QED
      BY <2>1, <2>2 DEF Pointing
  <1>9. ASSUME NEW d \in Cmds(t) PROVE Gone(t, d)
    <2>1. /\ d \in Cmds(s) /\ Old(t, d) = Old(s, d) /\ Stage(t, d) = Stage(s, d)
          /\ t.cmds[d].buf = s.cmds[d].buf
      BY <1>2 DEF CmdsAfter4
    <2>2. Gone(s, d)
      BY <2>1, <1>3
    <2>3. QED
      BY <2>1, <2>2, <1>4, <1>5 DEF Gone
  <1>10. ASSUME NEW i \in ToRT(t) PROVE Behind(t, i)
    <2> SUFFICES ASSUME Going(t, i), Old(t, t.toRT[i].cmd) # Nothing,
                        NEW j \in ToRT(t), i <= j, Writing(t, j)
                 PROVE  NewData(t, j) # Old(t, t.toRT[i].cmd)
      BY DEF Behind
    <2>1. SameMsg(s, t, i)
      BY <1>2 DEF RTAfter4
    <2>2. i \in ToRT(s) /\ Going(s, i) /\ t.toRT[i] = s.toRT[i] /\ s.toRT[i].cmd \in Cmds(s)
      BY <2>1 DEF SameMsg
    <2>3. Old(t, t.toRT[i].cmd) = Old(s, s.toRT[i].cmd) /\ Behind(s, i)
      BY <2>2, <1>2, <1>3 DEF CmdsAfter4
    <2>4. j \in ToRT(s) /\ Writing(s, j) /\ NewData(t, j) = NewData(s, j)
      BY <1>5
    <2>5. QED
      BY <2>2, <2>3, <2>4 DEF Behind
  <1>11. QED
    BY <1>8, <1>9, <1>10 DEF Apart

LEMMA Staged4InOrder ==
    ASSUME NEW s, NEW t, NEW c, Base(s), InOrder(s), Staged4(s, t, c)
    PROVE  InOrder(t)
  <1> SUFFICES ASSUME ~t.lost PROVE InOrder(t)
    BY DEF InOrder
  <1>1. CmdsAfter4(s, t, c) /\ RTAfter4(s, t, c)
    BY Staged4Cmds, Staged4RT
  <1>2. Rest(s, t.toNRT, c)
    BY TakenNRT DEF Staged4
  <1>3. ~s.lost
    BY DEF Pass, Staged4
  <1>4. /\ Cmds(t) = Cmds(s) /\ c \in Cmds(s) /\ Stage(s, c) = 4
        /\ s.cmds[c].reply # "/fail" /\ t.cmds[c].reply = "/done"
        /\ \A d \in Cmds(s) : Stage(t, d) = Stage(s, d) /\ (d # c => t.cmds[d] = s.cmds[d])
    BY <1>1 DEF CmdsAfter4
  <1>5. /\ \A d \in Cmds(s) : Waits(s, d)
        /\ \A e, d \in Cmds(s) : d < e => Stage(s, d) >= Stage(s, e) \/ s.cmds[d].reply = "/fail"
        /\ \A i, j \in ToNRT(s) :
              i < j /\ Stage(s, s.toNRT[i]) = Stage(s, s.toNRT[j]) => s.toNRT[i] < s.toNRT[j]
        /\ \A i, j \in ToRT(s) :
              i < j /\ Going(s, i) /\ Going(s, j) => s.toRT[i].cmd < s.toRT[j].cmd
        /\ \A e, d \in Cmds(s) :
              d < e /\ s.cmds[e].reply = "/done" => s.cmds[d].reply # "none"
    BY <1>3 DEF InOrder
  <1>6. \A d \in Cmds(s) : Stage(s, d) \in 2 .. 4 /\ d \in Nat
    BY CmdType DEF Base, Stage, Cmds
  <1>7. /\ \A i \in ToNRT(t) : /\ i + 1 \in ToNRT(s) /\ i \in Nat
                               /\ t.toNRT[i] = s.toNRT[i + 1]
        /\ \A i \in ToNRT(s) : s.toNRT[i] # c =>
              1 < i /\ \E j \in ToNRT(t) : t.toNRT[j] = s.toNRT[i]
        /\ 1 \in ToNRT(s) /\ s.toNRT[1] = c
    BY <1>2 DEF Rest, ToNRT
  \* Every command before c was answered.
  <1>8. ASSUME NEW d \in Cmds(s), d < c PROVE s.cmds[d].reply # "none"
    <2>1. ASSUME Stage(s, d) = 4, s.cmds[d].reply # "/done" PROVE FALSE
      <3>1. PICK i \in ToNRT(s) : s.toNRT[i] = d
        BY <2>1, <1>5 DEF Waits
      <3>2. 1 < i
        BY <3>1, <1>6, <1>7, <1>8
      <3>3. c < d
        BY <2>1, <3>1, <3>2, <1>4, <1>5, <1>7
      <3>4. QED
        BY <3>3, <1>4, <1>6, <1>8
    <2>2. Stage(s, d) >= 4 \/ s.cmds[d].reply = "/fail"
      BY <1>4, <1>5, <1>8
    <2>3. QED
      BY <2>1, <2>2, <1>6
  <1>9. ASSUME NEW d \in Cmds(t) PROVE Waits(t, d)
    <2>1. CASE d = c
      BY <2>1, <1>4 DEF Waits
    <2>2. CASE d # c
      <3>1. Waits(s, d) /\ t.cmds[d] = s.cmds[d] /\ Stage(t, d) = Stage(s, d)
        BY <2>2, <1>4, <1>5
      <3>2. (\E i \in ToNRT(s) : s.toNRT[i] = d) => \E i \in ToNRT(t) : t.toNRT[i] = d
        BY <2>2, <1>7
      <3>3. (\E i \in ToRT(s) : Going(s, i) /\ s.toRT[i].cmd = d) =>
                \E i \in ToRT(t) : Going(t, i) /\ t.toRT[i].cmd = d
        BY <1>1 DEF RTAfter4, SameMsg
      <3>4. QED
        BY <3>1, <3>2, <3>3 DEF Waits
    <2>3. QED
      BY <2>1, <2>2
  <1>10. ASSUME NEW e \in Cmds(t), NEW d \in Cmds(t), d < e
         PROVE  Stage(t, d) >= Stage(t, e) \/ t.cmds[d].reply = "/fail"
    BY <1>4, <1>5, <1>10
  <1>11. ASSUME NEW i \in ToNRT(t), NEW j \in ToNRT(t), i < j,
                Stage(t, t.toNRT[i]) = Stage(t, t.toNRT[j])
         PROVE  t.toNRT[i] < t.toNRT[j]
    <2>1. /\ s.toNRT[i + 1] \in Cmds(s) /\ s.toNRT[j + 1] \in Cmds(s)
          /\ t.toNRT[i] = s.toNRT[i + 1] /\ t.toNRT[j] = s.toNRT[j + 1]
          /\ i + 1 \in ToNRT(s) /\ j + 1 \in ToNRT(s) /\ i + 1 < j + 1
      BY <1>7, <1>11 DEF Base, Queues
    <2>2. QED
      BY <2>1, <1>4, <1>5, <1>11
  <1>12. ASSUME NEW i \in ToRT(t), NEW j \in ToRT(t), i < j, Going(t, i), Going(t, j)
         PROVE  t.toRT[i].cmd < t.toRT[j].cmd
    <2>1. SameMsg(s, t, i) /\ SameMsg(s, t, j)
      BY <1>1, <1>12 DEF RTAfter4
    <2>2. QED
      BY <2>1, <1>5, <1>12 DEF SameMsg
  <1>13. ASSUME NEW e \in Cmds(t), NEW d \in Cmds(t), d < e, t.cmds[e].reply = "/done"
         PROVE  t.cmds[d].reply # "none"
    <2>1. CASE d = c
      BY <2>1, <1>4
    <2>2. CASE d # c
      BY <2>2, <1>4, <1>5, <1>8, <1>13
    <2>3. QED
      BY <2>1, <2>2
  <1>14. QED
    BY <1>9, <1>10, <1>11, <1>12, <1>13 DEF InOrder

LEMMA Staged4Agree ==
    ASSUME NEW s, NEW t, NEW c, Base(s), Agree(s), Staged4(s, t, c)
    PROVE  Agree(t)
  <1> SUFFICES ASSUME t.up /\ ~t.lost PROVE Agree(t)
    BY DEF Agree
  <1>1. CmdsAfter4(s, t, c) /\ RTAfter4(s, t, c)
    BY Staged4Cmds, Staged4RT
  <1>2. /\ t.mirror = s.mirror /\ t.snd = s.snd /\ t.live = s.live \ {Old(s, c)}
        /\ t.noSamples = s.noSamples
    BY DEF Staged4
  <1>3. /\ \A a \in Buf : LastFor(s, 0, a) => s.snd[a].data = s.mirror[a].data
        /\ \A i \in ToRT(s) : Writing(s, i) /\ LastFor(s, i, Dest(s, i)) =>
              NewData(s, i) = s.mirror[Dest(s, i)].data
        /\ ~s.noSamples =>
              \A x \in s.live : \/ \E a \in Buf : s.mirror[a].data = x
                                \/ \E d \in Cmds(s) : Old(s, d) = x /\ s.cmds[d].reply = "none"
    BY DEF Agree, Staged4, Pass
  <1>4. ASSUME NEW i, NEW a, LastFor(t, i, a) PROVE LastFor(s, i, a)
    <2>1. ASSUME NEW j \in ToRT(s), i < j, Writing(s, j) PROVE Dest(s, j) # a
      <3>1. SameMsg(s, t, j)
        BY <1>1, SMTT(40) DEF RTAfter4
      <3>2. j \in ToRT(t) /\ Writing(t, j) /\ Dest(t, j) = Dest(s, j)
        BY <2>1, <3>1 DEF SameMsg, Writing
      <3>3. QED
        BY <2>1, <3>2, <1>4 DEF LastFor
    <2>2. QED
      BY <2>1 DEF LastFor
  <1>5. ASSUME NEW a \in Buf, LastFor(t, 0, a) PROVE t.snd[a].data = t.mirror[a].data
    BY <1>2, <1>3, <1>4, <1>5
  <1>6. ASSUME NEW i \in ToRT(t), Writing(t, i), LastFor(t, i, Dest(t, i))
        PROVE  NewData(t, i) = t.mirror[Dest(t, i)].data
    <2>1. SameMsg(s, t, i)
      BY <1>1, <1>6, SMTT(40) DEF RTAfter4, Writing
    <2>2. /\ i \in ToRT(s) /\ Writing(s, i)
          /\ NewData(t, i) = NewData(s, i) /\ Dest(t, i) = Dest(s, i)
      BY <2>1, <1>6 DEF SameMsg, Writing
    <2>3. QED
      BY <2>2, <1>2, <1>3, <1>4, <1>6
  <1>7. ASSUME ~t.noSamples, NEW x \in t.live
        PROVE  \/ \E a \in Buf : t.mirror[a].data = x
               \/ \E d \in Cmds(t) : Old(t, d) = x /\ t.cmds[d].reply = "none"
    <2>1. x \in s.live /\ x # Old(s, c) /\ ~s.noSamples
      BY <1>2, <1>7
    <2>2. CASE \E a \in Buf : s.mirror[a].data = x
      BY <2>2, <1>2
    <2>3. CASE \E d \in Cmds(s) : Old(s, d) = x /\ s.cmds[d].reply = "none"
      <3>1. PICK d \in Cmds(s) : Old(s, d) = x /\ s.cmds[d].reply = "none"
        BY <2>3
      <3>2. QED
        BY <2>1, <3>1, <1>1 DEF CmdsAfter4
    <2>4. QED
      BY <2>1, <2>2, <2>3, <1>3
  <1>8. QED
    BY <1>5, <1>6, <1>7 DEF Agree

-----------------------------------------------------------------------------
(* A command is deleted, and the server is quit. *)

Dropped(s, t) ==
    /\ ~Going(s, 1) /\ t.toRT \in Seq(Msg) /\ Popped(s.toRT, t.toRT, s.toRT[1])
    /\ t.cmds = s.cmds /\ t.toNRT = s.toNRT /\ t.mirror = s.mirror /\ t.snd = s.snd
    /\ t.live = s.live /\ t.lost = s.lost /\ t.noSamples = s.noSamples /\ t.up = s.up

LEMMA DroppedBase ==
    ASSUME NEW s, NEW t, Base(s), Dropped(s, t)
    PROVE  Base(t)
  <1>1. RTTaken(s, t)
    BY TakenRT DEF Dropped
  <1>2. t.cmds = s.cmds /\ Cmds(t) = Cmds(s) /\ ToNRT(t) = ToNRT(s) /\ t.toNRT = s.toNRT
    BY DEF Dropped, Cmds, ToNRT
  <1>3. Typed(t)
    BY DEF Dropped, Base, Typed
  <1>4. ASSUME NEW i \in ToRT(t)
        PROVE  /\ t.toRT[i].cmd \in Cmds(t)
               /\ Going(t, i) => /\ Stage(t, t.toRT[i].cmd) = 3
                                 /\ t.cmds[t.toRT[i].cmd].reply = "none"
    <2>1. /\ i + 1 \in ToRT(s) /\ t.toRT[i] = s.toRT[i + 1] /\ s.toRT[i + 1].cmd \in Cmds(s)
          /\ Going(t, i) <=> Going(s, i + 1)
      BY <1>1 DEF RTTaken, Moved
    <2>2. QED
      BY <2>1, <1>2 DEF Base, Queues, Stage
  <1>5. ASSUME NEW i \in ToRT(t), NEW j \in ToRT(t), Going(t, i), Going(t, j),
               t.toRT[i].cmd = t.toRT[j].cmd
        PROVE  i = j
    <2>1. /\ i + 1 \in ToRT(s) /\ j + 1 \in ToRT(s) /\ Going(s, i + 1) /\ Going(s, j + 1)
          /\ s.toRT[i + 1].cmd = s.toRT[j + 1].cmd /\ i \in Nat /\ j \in Nat
      BY <1>1, <1>5 DEF RTTaken, Moved
    <2>2. i + 1 = j + 1
      BY <2>1 DEF Base, Queues
    <2>3. QED
      BY <2>1, <2>2
  <1>6. Queues(t)
    BY <1>2, <1>4, <1>5, SMTT(40) DEF Queues, Base, Stage
  <1>7. Names(t)
    BY <1>2 DEF Names, Base, Made, Old, Stage, Dropped
  <1>8. QED
    BY <1>3, <1>6, <1>7 DEF Base

LEMMA DroppedApart ==
    ASSUME NEW s, NEW t, Base(s), Apart(s), Dropped(s, t)
    PROVE  Apart(t)
  <1> SUFFICES ASSUME t.up /\ ~t.noSamples PROVE Apart(t)
    BY DEF Apart
  <1>1. RTTaken(s, t)
    BY TakenRT DEF Dropped
  <1>2. /\ t.cmds = s.cmds /\ Cmds(t) = Cmds(s) /\ t.mirror = s.mirror /\ t.snd = s.snd
        /\ t.live = s.live /\ \A d : Old(t, d) = Old(s, d) /\ Stage(t, d) = Stage(s, d)
    BY DEF Dropped, Cmds, Old, Stage
  <1>3. Pointing(s) /\ (\A d \in Cmds(s) : Gone(s, d)) /\ (\A i \in ToRT(s) : Behind(s, i))
    BY DEF Apart, Dropped
  <1>4. ASSUME NEW i \in ToRT(t), Writing(t, i)
        PROVE  i + 1 \in ToRT(s) /\ Writing(s, i + 1) /\ NewData(t, i) = NewData(s, i + 1)
    BY <1>1, <1>4 DEF RTTaken, Moved
  <1>5. Pointing(t)
    BY <1>2, <1>3, <1>4 DEF Pointing
  <1>6. ASSUME NEW d \in Cmds(t) PROVE Gone(t, d)
    <2>1. Gone(s, d)
      BY <1>2, <1>3
    <2>2. QED
      BY <2>1, <1>2, <1>4 DEF Gone
  <1>7. ASSUME NEW i \in ToRT(t) PROVE Behind(t, i)
    <2> SUFFICES ASSUME Going(t, i), Old(t, t.toRT[i].cmd) # Nothing,
                        NEW j \in ToRT(t), i <= j, Writing(t, j)
                 PROVE  NewData(t, j) # Old(t, t.toRT[i].cmd)
      BY DEF Behind
    <2>1. i + 1 \in ToRT(s) /\ Going(s, i + 1) /\ t.toRT[i] = s.toRT[i + 1] /\ i \in Nat
      BY <1>1 DEF RTTaken, Moved
    <2>2. j + 1 \in ToRT(s) /\ Writing(s, j + 1) /\ NewData(t, j) = NewData(s, j + 1) /\ j \in Nat
      BY <1>1 DEF RTTaken, Moved
    <2>3. Behind(s, i + 1) /\ i + 1 <= j + 1
      BY <2>1, <2>2, <1>3
    <2>4. QED
      BY <2>1, <2>2, <2>3, <1>2 DEF Behind
  <1>8. QED
    BY <1>5, <1>6, <1>7 DEF Apart

LEMMA DroppedInOrder ==
    ASSUME NEW s, NEW t, Base(s), InOrder(s), Dropped(s, t)
    PROVE  InOrder(t)
  <1> SUFFICES ASSUME ~t.lost PROVE InOrder(t)
    BY DEF InOrder
  <1>1. RTTaken(s, t)
    BY TakenRT DEF Dropped
  <1>2. /\ ~s.lost /\ t.cmds = s.cmds /\ Cmds(t) = Cmds(s) /\ ToNRT(t) = ToNRT(s)
        /\ t.toNRT = s.toNRT /\ \A d : Stage(t, d) = Stage(s, d)
    BY DEF Dropped, Cmds, ToNRT, Stage
  <1>3. /\ ~Going(s, 1)
        /\ \A i \in ToRT(t) : /\ i \in Nat /\ i + 1 \in ToRT(s) /\ t.toRT[i] = s.toRT[i + 1]
                              /\ Going(t, i) <=> Going(s, i + 1)
        /\ \A i \in ToRT(s) : i # 1 => \E j \in ToRT(t) : i = j + 1
    BY <1>1 DEF RTTaken, Moved, Dropped
  <1>4. ASSUME NEW d \in Cmds(t) PROVE Waits(t, d)
    <2>1. Waits(s, d)
      BY <1>2 DEF InOrder
    <2>2. ASSUME NEW i \in ToRT(s), Going(s, i), s.toRT[i].cmd = d
          PROVE  \E j \in ToRT(t) : Going(t, j) /\ t.toRT[j].cmd = d
      <3>1. i # 1
        BY <2>2, <1>3
      <3>2. PICK j \in ToRT(t) : i = j + 1
        BY <3>1, <1>3
      <3>3. QED
        BY <2>2, <3>2, <1>3
    <2>3. QED
      BY <2>1, <2>2, <1>2 DEF Waits
  <1>5. ASSUME NEW i \in ToRT(t), NEW j \in ToRT(t), i < j, Going(t, i), Going(t, j)
        PROVE  t.toRT[i].cmd < t.toRT[j].cmd
    <2>1. i + 1 < j + 1
      BY <1>3, <1>5
    <2>2. QED
      BY <2>1, <1>2, <1>3, <1>5 DEF InOrder
  <1>6. QED
    BY <1>2, <1>4, <1>5 DEF InOrder

LEMMA DroppedAgree ==
    ASSUME NEW s, NEW t, Base(s), Agree(s), Dropped(s, t)
    PROVE  Agree(t)
  <1> SUFFICES ASSUME t.up /\ ~t.lost PROVE Agree(t)
    BY DEF Agree
  <1>1. RTTaken(s, t)
    BY TakenRT DEF Dropped
  <1>2. /\ t.cmds = s.cmds /\ Cmds(t) = Cmds(s) /\ t.mirror = s.mirror /\ t.snd = s.snd
        /\ t.live = s.live /\ t.noSamples = s.noSamples /\ \A d : Old(t, d) = Old(s, d)
    BY DEF Dropped, Cmds, Old
  <1>3. /\ \A a \in Buf : LastFor(s, 0, a) => s.snd[a].data = s.mirror[a].data
        /\ \A i \in ToRT(s) : Writing(s, i) /\ LastFor(s, i, Dest(s, i)) =>
              NewData(s, i) = s.mirror[Dest(s, i)].data
        /\ ~s.noSamples =>
              \A x \in s.live : \/ \E a \in Buf : s.mirror[a].data = x
                                \/ \E d \in Cmds(s) : Old(s, d) = x /\ s.cmds[d].reply = "none"
    BY DEF Agree, Dropped
  <1>4. ASSUME NEW a \in Buf, LastFor(t, 0, a) PROVE t.snd[a].data = t.mirror[a].data
    <2>1. LastFor(s, 1, a)
      <3>1. LastFor(s, 0 + 1, a)
        BY <1>1, <1>4, LastTaken
      <3>2. QED
        BY <3>1
    <2>2. ASSUME NEW j \in ToRT(s), 0 < j, Writing(s, j) PROVE Dest(s, j) # a
      <3>1. j # 1
        BY <2>2 DEF Writing, Dropped
      <3>2. 1 < j
        BY <3>1, <1>1 DEF RTTaken
      <3>3. QED
        BY <2>1, <2>2, <3>2 DEF LastFor
    <2>3. LastFor(s, 0, a)
      BY <2>2 DEF LastFor
    <2>4. QED
      BY <2>3, <1>2, <1>3
  <1>5. ASSUME NEW i \in ToRT(t), Writing(t, i), LastFor(t, i, Dest(t, i))
        PROVE  NewData(t, i) = t.mirror[Dest(t, i)].data
    <2>1. /\ i \in Nat /\ i + 1 \in ToRT(s) /\ Writing(s, i + 1)
          /\ NewData(t, i) = NewData(s, i + 1) /\ Dest(t, i) = Dest(s, i + 1)
      BY <1>1, <1>5 DEF RTTaken, Moved
    <2>2. LastFor(s, i + 1, Dest(s, i + 1))
      BY <2>1, <1>1, <1>5, LastTaken
    <2>3. QED
      BY <2>1, <2>2, <1>2, <1>3
  <1>6. QED
    BY <1>2, <1>3, <1>4, <1>5 DEF Agree

Cleaned(s, t) ==
    /\ t.up = FALSE /\ t.live \subseteq s.live
    /\ t.cmds = s.cmds /\ t.toNRT = s.toNRT /\ t.toRT = s.toRT /\ t.mirror = s.mirror
    /\ t.snd = s.snd /\ t.lost = s.lost /\ t.noSamples = s.noSamples

\* Each step keeps what is good.
LEMMA StepsGood ==
    ASSUME NEW s, NEW t, Good(s),
           \/ \E r : Received(s, t, r)
           \/ \E c, o : Staged2(s, t, c, o)
           \/ \E c : Staged3(s, t, c) \/ Staged4(s, t, c)
           \/ Dropped(s, t) \/ Cleaned(s, t)
    PROVE  Good(t)
  <1>1. Base(s) /\ Apart(s) /\ InOrder(s) /\ Agree(s)
    BY DEF Good
  <1>2. ASSUME NEW r, Received(s, t, r) PROVE Good(t)
    BY <1>1, <1>2, ReceivedBase, ReceivedApart, ReceivedInOrder, ReceivedAgree DEF Good
  <1>3. ASSUME NEW c, NEW o, Staged2(s, t, c, o) PROVE Good(t)
    BY <1>1, <1>3, Staged2Base, Staged2Apart, Staged2InOrder, Staged2Agree DEF Good
  <1>4. ASSUME NEW c, Staged3(s, t, c) PROVE Good(t)
    BY <1>1, <1>4, Staged3Base, Staged3Apart, Staged3InOrder, Staged3Agree DEF Good
  <1>5. ASSUME NEW c, Staged4(s, t, c) PROVE Good(t)
    BY <1>1, <1>5, Staged4Base, Staged4Apart, Staged4InOrder, Staged4Agree DEF Good
  <1>6. ASSUME Dropped(s, t) PROVE Good(t)
    BY <1>1, <1>6, DroppedBase, DroppedApart, DroppedInOrder, DroppedAgree DEF Good
  <1>7. ASSUME Cleaned(s, t) PROVE Good(t)
    <2>1. Typed(t)
      BY <1>1, <1>7 DEF Cleaned, Base, Typed
    <2>2. Queues(t)
      BY <1>1, <1>7 DEF Cleaned, Base, Queues, Cmds, ToNRT, ToRT, Stage, Going
    <2>3. Names(t)
      BY <1>1, <1>7 DEF Cleaned, Base, Names, Cmds, Made, Stage, Old
    <2>4. Apart(t) /\ Agree(t)
      BY <1>7 DEF Cleaned, Apart, Agree
    <2>5. InOrder(t)
      BY <1>1, <1>7 DEF Cleaned, InOrder, Waits, Cmds, ToNRT, ToRT, Stage, Going
    <2>6. QED
      BY <2>1, <2>2, <2>3, <2>4, <2>5 DEF Good, Base
  <1>8. QED
    BY <1>2, <1>3, <1>4, <1>5, <1>6, <1>7

-----------------------------------------------------------------------------
(* What is released, and how often: f counts the times each memory was     *)
(* freed, k the times each sound file was closed.                          *)

\* A command that waits for the NRT thread has not been answered.
Unanswered(s) == \A i \in ToNRT(s) : s.cmds[s.toNRT[i]].reply = "none"

FreedOnce(s, f) ==
    /\ f \in [Name -> Nat]
    /\ ~s.noSamples => \A x \in Name : f[x] <= 1
    /\ s.up => \A x \in Name : f[x] # 0 => x \in Cmds(s) /\ Stage(s, x) # 2
    /\ s.up /\ ~s.noSamples =>
          /\ \A x \in s.live : f[x] = 0
          /\ \A c \in Cmds(s) :
                Old(s, c) # Nothing /\ s.cmds[c].reply = "none" => Old(s, c) \in s.live
          /\ \A c, d \in Cmds(s) : Old(s, c) # Nothing /\ Old(s, c) = Old(s, d) => c = d

\* File x is one that buffer b of the mirror has, or none.
Held(s, k, b, x) == Made(s, x, b) /\ (x # Nothing => k[x] = 0)

ClosedOnce(s, k) ==
    /\ k \in [Name -> Nat]
    /\ s.up => /\ \A x \in Name : k[x] <= 1
               /\ \A x \in Name : k[x] # 0 => x \in Cmds(s) /\ Stage(s, x) # 2
               /\ \A b \in Buf : Held(s, k, b, s.mirror[b].sndfile)

Once(s, f, k) == Unanswered(s) /\ FreedOnce(s, f) /\ ClosedOnce(s, k)

\* The inductive invariant.
Inv == use \in Use /\ open \subseteq Name /\ Good(State) /\ Once(State, freed, closed)

\* A step that releases nothing, and gives no command anything to release.
Quiet(s, t) ==
    /\ t.live = s.live /\ t.mirror = s.mirror /\ t.up = s.up /\ t.noSamples = s.noSamples
    /\ \A c \in Cmds(s) : /\ c \in Cmds(t) /\ Old(t, c) = Old(s, c)
                          /\ t.cmds[c].reply = s.cmds[c].reply
                          /\ t.cmds[c].buf = s.cmds[c].buf
                          /\ Stage(s, c) # 2 => Stage(t, c) # 2
    /\ \A c \in Cmds(t) : c \in Cmds(s) \/ Old(t, c) = Nothing

LEMMA QuietOnce ==
    ASSUME NEW s, NEW t, NEW f, NEW k, Once(s, f, k), Quiet(s, t), Unanswered(t)
    PROVE  Once(t, f, k)
  <1>1. FreedOnce(s, f) /\ ClosedOnce(s, k)
    BY DEF Once
  <1>2. \A x \in Cmds(s) : Stage(s, x) # 2 => x \in Cmds(t) /\ Stage(t, x) # 2
    BY DEF Quiet
  <1>3. FreedOnce(t, f)
    <2>1. /\ f \in [Name -> Nat]
          /\ ~t.noSamples => \A x \in Name : f[x] <= 1
          /\ t.up => \A x \in Name : f[x] # 0 => x \in Cmds(t) /\ Stage(t, x) # 2
      BY <1>1, <1>2 DEF FreedOnce, Quiet
    <2>2. ASSUME t.up, ~t.noSamples
          PROVE  /\ \A x \in t.live : f[x] = 0
                 /\ \A c \in Cmds(t) :
                       Old(t, c) # Nothing /\ t.cmds[c].reply = "none" => Old(t, c) \in t.live
                 /\ \A c, d \in Cmds(t) : Old(t, c) # Nothing /\ Old(t, c) = Old(t, d) => c = d
      BY <1>1, <2>2 DEF FreedOnce, Quiet
    <2>3. QED
      BY <2>1, <2>2 DEF FreedOnce
  <1>4. ClosedOnce(t, k)
    <2>1. ASSUME NEW b \in Buf, t.up PROVE Held(t, k, b, t.mirror[b].sndfile)
      BY <1>1, <1>2, <2>1 DEF ClosedOnce, Held, Made, Quiet
    <2>2. QED
      BY <2>1, <1>1, <1>2 DEF ClosedOnce, Quiet
  <1>5. QED
    BY <1>3, <1>4 DEF Once

LEMMA ReceivedOnce ==
    ASSUME NEW s, NEW t, NEW r, NEW f, NEW k, Base(s), Received(s, t, r), Once(s, f, k)
    PROVE  Once(t, f, k)
  <1>1. PICK n : n = Len(s.cmds) + 1
    OBVIOUS
  <1>2. Grew(s, t, r, n)
    BY <1>1, ReceivedGrew
  <1>3. r.mFreeData = Nothing /\ r.reply = "none"
    BY DEF Received, New
  <1>4. Quiet(s, t)
    BY <1>2, <1>3 DEF Quiet, Grew, Received, Old, Stage
  <1>5. \A i \in ToNRT(t) : (i \in ToNRT(s) /\ t.toNRT[i] = s.toNRT[i]) \/ t.toNRT[i] = n
    <2>1. /\ s.toNRT \in Seq(Nat) /\ t.toNRT \in Seq(Nat)
          /\ Pass(s.toNRT, t.toNRT, n, s.lost, t.lost)
      BY <1>1 DEF Base, Typed, Received
    <2>2. QED
      BY <2>1, PassAt, SMTT(40) DEF ToNRT
  <1>6. Unanswered(t)
    <2> SUFFICES ASSUME NEW i \in ToNRT(t) PROVE t.cmds[t.toNRT[i]].reply = "none"
      BY DEF Unanswered
    <2>1. CASE i \in ToNRT(s) /\ t.toNRT[i] = s.toNRT[i]
      BY <2>1, <1>2 DEF Once, Unanswered, Base, Queues, Grew
    <2>2. CASE t.toNRT[i] = n
      BY <2>2, <1>2, <1>3 DEF Grew
    <2>3. QED
      BY <2>1, <2>2, <1>5
  <1>7. QED
    BY <1>4, <1>6, QuietOnce

LEMMA Staged3Once ==
    ASSUME NEW s, NEW t, NEW c, NEW f, NEW k, Base(s), Staged3(s, t, c), Once(s, f, k)
    PROVE  Once(t, f, k)
  <1>1. CmdsAfter3(s, t, c)
    BY Staged3Cmds
  <1>2. Quiet(s, t)
    BY <1>1 DEF CmdsAfter3, Quiet, Staged3
  <1>3. \A i \in ToNRT(t) : (i \in ToNRT(s) /\ t.toNRT[i] = s.toNRT[i]) \/ t.toNRT[i] = c
    <2>1. /\ s.toNRT \in Seq(Nat) /\ t.toNRT \in Seq(Nat)
          /\ Pass(s.toNRT, t.toNRT, c, s.lost, t.lost)
      BY DEF Base, Typed, Staged3
    <2>2. QED
      BY <2>1, PassAt, SMTT(40) DEF ToNRT
  <1>4. Unanswered(t)
    <2> SUFFICES ASSUME NEW i \in ToNRT(t) PROVE t.cmds[t.toNRT[i]].reply = "none"
      BY DEF Unanswered
    <2>1. CASE i \in ToNRT(s) /\ t.toNRT[i] = s.toNRT[i]
      BY <2>1, <1>1 DEF Once, Unanswered, Base, Queues, CmdsAfter3
    <2>2. CASE t.toNRT[i] = c
      BY <2>2, <1>1 DEF CmdsAfter3
    <2>3. QED
      BY <2>1, <2>2, <1>3
  <1>5. QED
    BY <1>2, <1>4, QuietOnce

LEMMA DroppedOnce ==
    ASSUME NEW s, NEW t, NEW f, NEW k, Dropped(s, t), Once(s, f, k)
    PROVE  Once(t, f, k)
  <1>1. Quiet(s, t)
    BY DEF Dropped, Quiet, Cmds, Old, Stage
  <1>2. Unanswered(t)
    BY DEF Dropped, Once, Unanswered, ToNRT
  <1>3. QED
    BY <1>1, <1>2, QuietOnce

\* The sequences of what is released: at most one, or another besides.
LEMMA TimesOne ==
    ASSUME NEW y \in Name \cup {Nothing}, NEW x \in Name
    PROVE  Times(SeqIf(y), x) = IF x = y THEN 1 ELSE 0
  <1>1. x # Nothing
    BY DEF Name, Nothing
  <1>2. PICK q : q = SeqIf(y)
    OBVIOUS
  <1>3. PICK I : I = {i \in DOMAIN q : q[i] = x}
    OBVIOUS
  <1>4. Times(SeqIf(y), x) = Cardinality(I)
    BY <1>2, <1>3 DEF Times
  <1>5. CASE y = Nothing
    <2>1. q = <<>>
      BY <1>2, <1>5 DEF SeqIf
    <2>2. I = {}
      BY <2>1, <1>3
    <2>3. QED
      BY <2>2, <1>1, <1>4, <1>5, FS_EmptySet
  <1>6. CASE y # Nothing
    <2>1. q = <<y>>
      BY <1>2, <1>6 DEF SeqIf
    <2>2. DOMAIN q = {1} /\ q[1] = y
      BY <2>1
    <2>3. CASE x = y
      <3>1. I = {1}
        BY <2>2, <2>3, <1>3
      <3>2. QED
        BY <3>1, <2>3, <1>4, FS_Singleton
    <2>4. CASE x # y
      <3>1. I = {}
        BY <2>2, <2>4, <1>3
      <3>2. QED
        BY <3>1, <2>4, <1>4, FS_EmptySet
    <2>5. QED
      BY <2>3, <2>4
  <1>7. QED
    BY <1>5, <1>6

LEMMA TimesTwo ==
    ASSUME NEW y \in Name \cup {Nothing}, NEW c \in Name, y # c, NEW x \in Name
    PROVE  Times(SeqIf(y) \o <<c>>, x) = IF x = y \/ x = c THEN 1 ELSE 0
  <1>1. x # Nothing
    BY DEF Name, Nothing
  <1>2. PICK q : q = SeqIf(y) \o <<c>>
    OBVIOUS
  <1>3. PICK I : I = {i \in DOMAIN q : q[i] = x}
    OBVIOUS
  <1>4. Times(SeqIf(y) \o <<c>>, x) = Cardinality(I)
    BY <1>2, <1>3 DEF Times
  <1>5. CASE y = Nothing
    <2>1. q = <<c>>
      BY <1>2, <1>5 DEF SeqIf
    <2>2. DOMAIN q = {1} /\ q[1] = c
      BY <2>1
    <2>3. IF x = c THEN I = {1} ELSE I = {}
      BY <2>2, <1>3
    <2>4. QED
      BY <2>3, <1>1, <1>4, <1>5, FS_EmptySet, FS_Singleton
  <1>6. CASE y # Nothing
    <2>1. q = <<y>> \o <<c>>
      BY <1>2, <1>6 DEF SeqIf
    <2>2. DOMAIN q = 1 .. 2 /\ q[1] = y /\ q[2] = c
      BY <2>1
    <2>3. /\ x = y => I = {1}
          /\ x = c => I = {2}
          /\ x # y /\ x # c => I = {}
      BY <2>2, <1>3
    <2>4. Cardinality({1}) = 1 /\ Cardinality({2}) = 1 /\ Cardinality({}) = 0
      BY FS_EmptySet, FS_Singleton
    <2>5. QED
      BY <2>3, <2>4, <1>4
  <1>7. QED
    BY <1>5, <1>6

\* Stage 2: what command c will free is what the mirror had, which no other
\* command will free.
LEMMA Staged2FreedOnce ==
    ASSUME NEW s, NEW t, NEW c, NEW o, NEW f, Good(s), Staged2(s, t, c, o), FreedOnce(s, f)
    PROVE  FreedOnce(t, f)
  <1>1. Base(s) /\ Apart(s) /\ Names(s)
    BY DEF Good, Base
  <1>2. CmdsAfter2(s, t, c, o)
    BY <1>1, Staged2Cmds
  <1>3. PICK a : a = s.cmds[c].buf
    OBVIOUS
  <1>4. PICK m : m = s.mirror[a].data
    BY Zenon
  <1>5. /\ o.mFreeData = Nothing \/ o.mFreeData = m
        /\ o.alloc \subseteq {c}
        /\ t.live = s.live \cup o.alloc /\ t.up = s.up
        /\ ~t.noSamples => ~s.noSamples
    BY <1>3, <1>4 DEF Staged2, Outcome, Kept, Replaced, Freed, Unsampled
  <1>6. Stage(s, c) = 2 /\ c \in Name
    BY <1>2 DEF Staged2, CmdsAfter2
  <1>7. \A x \in Cmds(s) : Stage(s, x) # 2 => x \in Cmds(t) /\ Stage(t, x) # 2
    BY <1>2, <1>6 DEF CmdsAfter2
  <1>8. /\ f \in [Name -> Nat]
        /\ ~t.noSamples => \A x \in Name : f[x] <= 1
        /\ t.up => \A x \in Name : f[x] # 0 => x \in Cmds(t) /\ Stage(t, x) # 2
    BY <1>5, <1>7 DEF FreedOnce
  <1>9. ASSUME t.up, ~t.noSamples
        PROVE  /\ \A x \in t.live : f[x] = 0
               /\ \A d \in Cmds(t) :
                     Old(t, d) # Nothing /\ t.cmds[d].reply = "none" => Old(t, d) \in t.live
               /\ \A d, e \in Cmds(t) : Old(t, d) # Nothing /\ Old(t, d) = Old(t, e) => d = e
    <2>1. s.up /\ ~s.noSamples
      BY <1>5, <1>9
    <2>2. /\ \A x \in s.live : f[x] = 0
          /\ \A d \in Cmds(s) :
                Old(s, d) # Nothing /\ s.cmds[d].reply = "none" => Old(s, d) \in s.live
          /\ \A d, e \in Cmds(s) : Old(s, d) # Nothing /\ Old(s, d) = Old(s, e) => d = e
      BY <2>1 DEF FreedOnce
    <2>3. f[c] = 0
      BY <2>1, <1>6 DEF FreedOnce
    <2>4. \A x \in t.live : f[x] = 0
      BY <2>2, <2>3, <1>5
    <2>5. a \in Buf /\ m \in s.live \cup {Nothing}
      BY <2>1, <1>1, <1>2, <1>3, <1>4 DEF Apart, Pointing, CmdsAfter2
    <2>6. Old(t, c) = Nothing \/ Old(t, c) = m
      BY <1>2, <1>5 DEF CmdsAfter2
    <2>7. \A d \in Cmds(s) : d # c => t.cmds[d] = s.cmds[d] /\ Old(t, d) = Old(s, d)
      BY <1>2 DEF CmdsAfter2
    <2>8. Cmds(t) = Cmds(s)
      BY <1>2 DEF CmdsAfter2
    <2>9. \A d \in Cmds(t) :
             Old(t, d) # Nothing /\ t.cmds[d].reply = "none" => Old(t, d) \in t.live
      BY <2>2, <2>5, <2>6, <2>7, <2>8, <1>5
    <2>10. ASSUME NEW d \in Cmds(s), Old(s, d) # Nothing PROVE Old(s, d) # m
      <3>1. Made(s, Old(s, d), s.cmds[d].buf) /\ Made(s, m, a)
        BY <2>5, <1>1, <1>4 DEF Names
      <3>2. s.mirror[s.cmds[d].buf].data # Old(s, d)
        BY <2>1, <2>10, <1>1 DEF Apart, Gone
      <3>3. QED
        BY <2>10, <3>1, <3>2, <1>4 DEF Made
    <2>11. \A d, e \in Cmds(t) : Old(t, d) # Nothing /\ Old(t, d) = Old(t, e) => d = e
      BY <2>2, <2>6, <2>7, <2>8, <2>10
    <2>12. QED
      BY <2>4, <2>9, <2>11
  <1>10. QED
    BY <1>8, <1>9 DEF FreedOnce

\* Stage 2: the file it closes is the one that the mirror had, and perhaps the
\* one that it opened.
LEMMA Staged2ClosedOnce ==
    ASSUME NEW s, NEW t, NEW c, NEW o, NEW k, NEW n, Base(s), Staged2(s, t, c, o), s.up,
           ClosedOnce(s, k), n = [x \in Name |-> k[x] + Times(o.shut, x)]
    PROVE  ClosedOnce(t, n)
  <1>1. CmdsAfter2(s, t, c, o)
    BY Staged2Cmds
  <1>2. Stage(s, c) = 2 /\ c \in Name /\ c # Nothing /\ t.up
    BY <1>1 DEF Staged2, CmdsAfter2, Name, Nothing
  <1>3. PICK a : a = s.cmds[c].buf
    OBVIOUS
  <1>4. PICK y : y = s.mirror[a].sndfile
    OBVIOUS
  <1>5. a \in Buf /\ y \in Name \cup {Nothing}
    <2>1. a \in Buf /\ s.mirror[a] \in SndBuf
      BY <1>1, <1>3 DEF Base, Typed, CmdsAfter2
    <2>2. QED
      BY <2>1, <1>4 DEF SndBuf
  <1>6. /\ \A x \in Name : k[x] <= 1 /\ k[x] \in Nat
        /\ \A x \in Name : k[x] # 0 => x \in Cmds(s) /\ Stage(s, x) # 2
        /\ \A b \in Buf : Held(s, k, b, s.mirror[b].sndfile)
    BY DEF ClosedOnce
  <1>7. Held(s, k, a, y) /\ k[c] = 0
    BY <1>2, <1>4, <1>5, <1>6
  <1>8. /\ y # c
        /\ y # Nothing => k[y] = 0 /\ y \in Cmds(s) /\ Stage(s, y) # 2 /\ s.cmds[y].buf = a
        /\ y \in Name => y # Nothing
    BY <1>2, <1>7, SMTT(40) DEF Held, Made, Name, Nothing
  <1>9. /\ \A x \in Name : n[x] = k[x] + Times(o.shut, x)
        /\ t.mirror[a] = o.buf
        /\ \A b \in Buf : b # a => t.mirror[b] = s.mirror[b]
        /\ FileOutcome(s, c, o, y)
    BY <1>3, <1>4 DEF Staged2, Outcome
  <1>10. \A x \in Name : /\ Times(<<>>, x) = 0
                         /\ Times(SeqIf(y), x) = IF x = y THEN 1 ELSE 0
                         /\ Times(SeqIf(y) \o <<c>>, x) = IF x = y \/ x = c THEN 1 ELSE 0
    <2>1. SeqIf(Nothing) = <<>>
      BY DEF SeqIf
    <2>2. ASSUME NEW x \in Name PROVE Times(SeqIf(Nothing), x) = 0
      <3>1. x # Nothing
        BY DEF Name, Nothing
      <3>2. QED
        BY <3>1, TimesOne
    <2>3. QED
      BY <2>1, <2>2, <1>2, <1>5, <1>8, TimesOne, TimesTwo
  <1>11. /\ \A x \in Name : n[x] \in Nat /\ n[x] <= 1
         /\ \A x \in Name : x # y /\ x # c => n[x] = k[x]
         /\ t.mirror[a].sndfile = y => y = Nothing \/ n[y] = k[y]
         /\ t.mirror[a].sndfile = c => n[c] = 0
         /\ t.mirror[a].sndfile \in {y, c, Nothing}
    <2>1. CASE o.buf.sndfile = y /\ o.shut = <<>>
      <3>1. \A x \in Name : n[x] = k[x]
        BY <2>1, <1>6, <1>9, <1>10
      <3>2. t.mirror[a].sndfile = y
        BY <2>1, <1>9
      <3>3. QED
        BY <3>1, <3>2, <1>5, <1>6, <1>8
    <2>2. CASE o.buf.sndfile \in {Nothing, c} /\ o.shut = SeqIf(y)
      <3>1. \A x \in Name : n[x] = IF x = y THEN 1 ELSE k[x]
        <4>1. \A x \in Name : n[x] = k[x] + IF x = y THEN 1 ELSE 0
          BY <2>2, <1>9, <1>10, Zenon
        <4>2. QED
          BY <4>1, <1>6, <1>8
      <3>2. t.mirror[a].sndfile \in {Nothing, c}
        BY <2>2, <1>9
      <3>3. QED
        BY <3>1, <3>2, <1>2, <1>6, <1>7, <1>8
    <2>3. CASE o.buf.sndfile = Nothing /\ o.shut = SeqIf(y) \o <<c>>
      <3>1. \A x \in Name : n[x] = IF x = y \/ x = c THEN 1 ELSE k[x]
        <4>1. \A x \in Name : n[x] = k[x] + IF x = y \/ x = c THEN 1 ELSE 0
          BY <2>3, <1>9, <1>10, Zenon
        <4>2. QED
          BY <4>1, <1>6, <1>7, <1>8
      <3>2. t.mirror[a].sndfile = Nothing
        BY <2>3, <1>9
      <3>3. QED
        BY <3>1, <3>2, <1>2, <1>6
    <2>4. QED
      BY <2>1, <2>2, <2>3, <1>9 DEF FileOutcome
  <1>12. /\ Cmds(t) = Cmds(s) /\ Stage(t, c) # 2 /\ c \in Cmds(t)
         /\ \A d \in Cmds(s) : t.cmds[d].buf = s.cmds[d].buf /\ (Stage(s, d) # 2 => Stage(t, d) # 2)
    BY <1>1, <1>2 DEF CmdsAfter2
  <1>13. \A x \in Name : n[x] # 0 => x \in Cmds(t) /\ Stage(t, x) # 2
    BY <1>2, <1>6, <1>8, <1>11, <1>12 DEF Name, Nothing
  <1>14. ASSUME NEW b \in Buf PROVE Held(t, n, b, t.mirror[b].sndfile)
    <2>1. CASE b = a
      BY <2>1, <1>3, <1>8, <1>11, <1>12 DEF Held, Made
    <2>2. CASE b # a
      <3>1. PICK x : x = s.mirror[b].sndfile
        OBVIOUS
      <3>2. x \in Name \cup {Nothing}
        <4>1. s.mirror[b] \in SndBuf
          BY DEF Base, Typed
        <4>2. QED
          BY <3>1, <4>1 DEF SndBuf
      <3>3. Held(s, k, b, x) /\ t.mirror[b].sndfile = x
        BY <2>2, <3>1, <1>6, <1>9
      <3>4. x # Nothing => x # y /\ x # c
        BY <2>2, <3>3, <1>2, <1>8 DEF Held, Made
      <3>5. QED
        BY <3>2, <3>3, <3>4, <1>11, <1>12 DEF Held, Made
    <2>3. QED
      BY <2>1, <2>2, SMTT(40)
  <1>15. QED
    BY <1>11, <1>13, <1>14 DEF ClosedOnce

LEMMA Staged2Once ==
    ASSUME NEW s, NEW t, NEW c, NEW o, NEW f, NEW k, NEW n, Good(s), Staged2(s, t, c, o), s.up,
           Once(s, f, k), n = [x \in Name |-> k[x] + Times(o.shut, x)]
    PROVE  Once(t, f, n)
  <1>1. Base(s)
    BY DEF Good
  <1>2. FreedOnce(t, f) /\ ClosedOnce(t, n)
    BY <1>1, Staged2FreedOnce, Staged2ClosedOnce DEF Once
  <1>3. CmdsAfter2(s, t, c, o) /\ Rest(s, t.toNRT, c)
    BY <1>1, Staged2Cmds, TakenNRT DEF Staged2
  <1>4. Unanswered(t)
    <2> SUFFICES ASSUME NEW i \in 1 .. Len(t.toNRT) PROVE t.cmds[t.toNRT[i]].reply = "none"
      BY DEF Unanswered, ToNRT
    <2>1. i + 1 \in ToNRT(s) /\ t.toNRT[i] = s.toNRT[i + 1] /\ t.toNRT[i] # c
      BY <1>3 DEF Rest
    <2>2. t.toNRT[i] \in Cmds(s) /\ s.cmds[t.toNRT[i]].reply = "none"
      BY <2>1, <1>1 DEF Once, Unanswered, Base, Queues
    <2>3. QED
      BY <2>1, <2>2, <1>3 DEF CmdsAfter2
  <1>5. QED
    BY <1>2, <1>4 DEF Once

\* Stage 4: what it frees is live and no other command's, since c had not been
\* answered.
LEMMA Staged4Once ==
    ASSUME NEW s, NEW t, NEW c, NEW f, NEW k, NEW n, Good(s), Staged4(s, t, c),
           Once(s, f, k), s.up,
           n = [x \in Name |-> f[x] + Times(SeqIf(Old(s, c)), x)]
    PROVE  Once(t, n, k)
  <1>1. Base(s) /\ FreedOnce(s, f) /\ ClosedOnce(s, k) /\ Unanswered(s)
    BY DEF Good, Once
  <1>2. CmdsAfter4(s, t, c) /\ Rest(s, t.toNRT, c)
    BY <1>1, Staged4Cmds, TakenNRT DEF Staged4
  <1>3. PICK y : y = Old(s, c)
    OBVIOUS
  <1>4. /\ y \in Name \cup {Nothing} /\ Nothing \notin Name
        /\ y # Nothing => y \in Name /\ y \in Cmds(s) /\ Stage(s, y) # 2
    <2>1. y \in Name \cup {Nothing}
      BY <1>1, <1>2, <1>3, CmdType DEF Base, Old, CmdsAfter4
    <2>2. Made(s, y, s.cmds[c].buf)
      BY <1>1, <1>2, <1>3 DEF Base, Names, CmdsAfter4
    <2>3. QED
      BY <2>1, <2>2 DEF Made, Name, Nothing
  <1>5. \A x \in Name : f[x] \in Nat /\ n[x] = IF x = y THEN f[x] + 1 ELSE f[x]
    <2>1. \A x \in Name : n[x] = f[x] + IF x = y THEN 1 ELSE 0
      <3>1. \A x \in Name : n[x] = f[x] + Times(SeqIf(y), x)
        BY <1>3
      <3>2. QED
        BY <3>1, <1>4, TimesOne
    <2>2. \A x \in Name : f[x] \in Nat
      BY <1>1 DEF FreedOnce
    <2>3. QED
      BY <2>1, <2>2
  <1>6. n \in [Name -> Nat]
    BY <1>5
  <1>7. t.live = s.live \ {y} /\ t.up = s.up /\ t.noSamples = s.noSamples /\ t.mirror = s.mirror
    BY <1>3 DEF Staged4
  <1>8. s.cmds[c].reply = "none"
    BY <1>1, <1>2 DEF Rest, Unanswered
  <1>9. \A x \in Cmds(s) : Stage(s, x) # 2 => x \in Cmds(t) /\ Stage(t, x) # 2
    BY <1>2 DEF CmdsAfter4
  <1>10. FreedOnce(t, n)
    <2>1. \A x \in Name : n[x] # 0 => x \in Cmds(t) /\ Stage(t, x) # 2
      <3>1. \A x \in Name : f[x] # 0 => x \in Cmds(s) /\ Stage(s, x) # 2
        BY <1>1 DEF FreedOnce
      <3>2. QED
        BY <3>1, <1>4, <1>5, <1>9
    <2>2. ASSUME ~t.noSamples
          PROVE  /\ \A x \in Name : n[x] <= 1
                 /\ \A x \in t.live : n[x] = 0
                 /\ \A d \in Cmds(t) :
                       Old(t, d) # Nothing /\ t.cmds[d].reply = "none" => Old(t, d) \in t.live
                 /\ \A d, e \in Cmds(t) : Old(t, d) # Nothing /\ Old(t, d) = Old(t, e) => d = e
      <3>1. /\ \A x \in Name : f[x] <= 1
            /\ \A x \in s.live : f[x] = 0
            /\ \A d \in Cmds(s) :
                  Old(s, d) # Nothing /\ s.cmds[d].reply = "none" => Old(s, d) \in s.live
            /\ \A d, e \in Cmds(s) : Old(s, d) # Nothing /\ Old(s, d) = Old(s, e) => d = e
        BY <2>2, <1>1, <1>7 DEF FreedOnce
      <3>2. y # Nothing => f[y] = 0
        BY <3>1, <1>2, <1>3, <1>8 DEF CmdsAfter4
      <3>3. \A x \in Name : n[x] <= 1
        BY <3>1, <3>2, <1>4, <1>5
      <3>4. s.live \subseteq Name
        BY <1>1 DEF Base, Typed
      <3>5. \A x \in t.live : n[x] = 0
        BY <3>1, <3>4, <1>5, <1>7
      <3>6. /\ Cmds(t) = Cmds(s) /\ t.cmds[c].reply = "/done"
            /\ \A d \in Cmds(s) : Old(t, d) = Old(s, d) /\ (d # c => t.cmds[d] = s.cmds[d])
        BY <1>2 DEF CmdsAfter4
      <3>7. ASSUME NEW d \in Cmds(t), Old(t, d) # Nothing, t.cmds[d].reply = "none"
            PROVE  Old(t, d) \in t.live
        <4>1. d # c /\ d \in Cmds(s) /\ c \in Cmds(s)
          BY <3>6, <3>7, <1>2 DEF CmdsAfter4
        <4>2. Old(s, d) \in s.live /\ Old(s, d) # y
          BY <3>1, <3>6, <3>7, <4>1, <1>3
        <4>3. QED
          BY <4>1, <4>2, <3>6, <1>7
      <3>8. \A d, e \in Cmds(t) : Old(t, d) # Nothing /\ Old(t, d) = Old(t, e) => d = e
        BY <3>1, <3>6
      <3>9. QED
        BY <3>3, <3>5, <3>7, <3>8
    <2>3. QED
      BY <2>1, <2>2, <1>6 DEF FreedOnce
  <1>11. ClosedOnce(t, k)
    <2>1. ASSUME NEW b \in Buf PROVE Held(t, k, b, t.mirror[b].sndfile)
      <3>1. Held(s, k, b, s.mirror[b].sndfile)
        BY <1>1 DEF ClosedOnce
      <3>2. QED
        BY <3>1, <1>2, <1>7 DEF Held, Made, CmdsAfter4
    <2>2. QED
      BY <2>1, <1>1, <1>7, <1>9 DEF ClosedOnce
  <1>12. Unanswered(t)
    <2> SUFFICES ASSUME NEW i \in 1 .. Len(t.toNRT) PROVE t.cmds[t.toNRT[i]].reply = "none"
      BY DEF Unanswered, ToNRT
    <2>1. i + 1 \in ToNRT(s) /\ t.toNRT[i] = s.toNRT[i + 1] /\ t.toNRT[i] # c
      BY <1>2 DEF Rest
    <2>2. t.toNRT[i] \in Cmds(s) /\ s.cmds[t.toNRT[i]].reply = "none"
      BY <2>1, <1>1 DEF Unanswered, Base, Queues
    <2>3. QED
      BY <2>1, <2>2, <1>2 DEF CmdsAfter4
  <1>13. QED
    BY <1>10, <1>11, <1>12 DEF Once

\* What World_Cleanup releases of each: a number, and at most one if each is of
\* one buffer only.
LEMMA CleanedUpType ==
    ASSUME NEW g, NEW h, NEW x
    PROVE  CleanedUp(g, h, x) \in Nat
  <1>1. PICK A, B : /\ A = {b \in Buf : g[b] = x}
                    /\ B = {b \in Buf : h[b] = x /\ h[b] # g[b]}
    OBVIOUS
  <1>2. Cardinality(A) \in Nat /\ Cardinality(B) \in Nat
    BY <1>1, BufAssumption, FS_Subset, FS_CardinalityType
  <1>3. CleanedUp(g, h, x) = Cardinality(A) + Cardinality(B)
    BY <1>1 DEF CleanedUp
  <1>4. QED
    BY <1>2, <1>3

\* Buffer a is the only one that has x.
OnlyIn(g, h, x, a) == \A b \in Buf : g[b] = x \/ h[b] = x => b = a

LEMMA CleanedUpOnce ==
    ASSUME NEW g, NEW h, NEW x, NEW a, OnlyIn(g, h, x, a)
    PROVE  /\ CleanedUp(g, h, x) <= 1
           /\ CleanedUp(g, h, x) # 0 => \E b \in Buf : g[b] = x \/ h[b] = x
  <1>1. PICK A, B : /\ A = {b \in Buf : g[b] = x}
                    /\ B = {b \in Buf : h[b] = x /\ h[b] # g[b]}
    OBVIOUS
  <1>2. (A = {} \/ A = {a}) /\ (B = {} \/ B = {a})
    BY <1>1 DEF OnlyIn
  <1>3. A = {} \/ B = {}
    BY <1>1 DEF OnlyIn
  <1>4. Cardinality({}) = 0 /\ Cardinality({a}) = 1
    BY FS_EmptySet, FS_Singleton
  <1>5. CleanedUp(g, h, x) = Cardinality(A) + Cardinality(B)
    BY <1>1 DEF CleanedUp
  <1>6. CleanedUp(g, h, x) <= 1
    BY <1>2, <1>3, <1>4, <1>5
  <1>7. CleanedUp(g, h, x) # 0 => A # {} \/ B # {}
    BY <1>4, <1>5
  <1>8. QED
    BY <1>1, <1>6, <1>7

\* The memory of the buffers of either thread.
DataOf(s, g, h) == \A b \in Buf : g[b] = s.mirror[b].data /\ h[b] = s.snd[b].data

LEMMA CleanedOnce ==
    ASSUME NEW s, NEW t, NEW f, NEW k, NEW n, NEW g, NEW h, Good(s), s.up, Cleaned(s, t),
           Once(s, f, k), NEW l \in [Name -> Nat], DataOf(s, g, h),
           n = [x \in Name |-> f[x] + CleanedUp(g, h, x)]
    PROVE  Once(t, n, l)
  <1>1. Base(s) /\ Apart(s) /\ FreedOnce(s, f) /\ ClosedOnce(s, k) /\ Unanswered(s)
    BY DEF Good, Once
  <1>2. ~t.up /\ t.noSamples = s.noSamples
    BY DEF Cleaned
  <1>3. \A x \in Name : f[x] \in Nat /\ CleanedUp(g, h, x) \in Nat
                        /\ n[x] = f[x] + CleanedUp(g, h, x)
    BY <1>1, CleanedUpType DEF FreedOnce
  <1>4. n \in [Name -> Nat]
    <2>1. \A x \in Name : n[x] \in Nat
      BY <1>3
    <2>2. n = [x \in Name |-> n[x]]
      OBVIOUS
    <2>3. QED
      BY <2>1, <2>2
  <1>5. ASSUME ~s.noSamples, NEW x \in Name PROVE n[x] <= 1
    <2>1. x # Nothing
      BY DEF Name, Nothing
    <2>2. OnlyIn(g, h, x, s.cmds[x].buf)
      <3>1. \A b \in Buf : Made(s, s.mirror[b].data, b) /\ Made(s, s.snd[b].data, b)
        BY <1>1 DEF Base, Names
      <3>2. QED
        BY <2>1, <3>1 DEF Made, OnlyIn, DataOf
    <2>3. /\ CleanedUp(g, h, x) <= 1
          /\ CleanedUp(g, h, x) # 0 => \E b \in Buf : g[b] = x \/ h[b] = x
      BY <2>2, CleanedUpOnce
    <2>4. Pointing(s) /\ f[x] <= 1 /\ \A y \in s.live : f[y] = 0
      BY <1>1, <1>5 DEF Apart, FreedOnce
    <2>5. CleanedUp(g, h, x) # 0 => f[x] = 0
      BY <2>1, <2>3, <2>4 DEF Pointing, DataOf
    <2>6. QED
      BY <2>3, <2>4, <2>5, <1>3
  <1>6. FreedOnce(t, n) /\ ClosedOnce(t, l)
    BY <1>2, <1>4, <1>5 DEF FreedOnce, ClosedOnce
  <1>7. Unanswered(t)
    BY <1>1 DEF Unanswered, Cleaned, ToNRT
  <1>8. QED
    BY <1>6, <1>7 DEF Once

-----------------------------------------------------------------------------
(* The actions are such steps. *)

\* A command that is changed in one field is changed in no other way, and no
\* other command is.
LEMMA ChangedCmd ==
    ASSUME NEW q \in Seq(CmdRec), NEW c \in 1 .. Len(q), NEW r \in CmdRec,
           NEW p, p = [q EXCEPT ![c] = r]
    PROVE  /\ p \in Seq(CmdRec) /\ Len(p) = Len(q) /\ p[c] = r
           /\ \A d \in 1 .. Len(q) : d # c => p[d] = q[d]
  OBVIOUS

LEMMA NewCommand ==
    ASSUME NEW k \in AllKinds, NEW b \in Buf, NEW l \in BOOLEAN,
           NEW x \in AllKinds \cup {"none"}
    PROVE  New(Command(k, b, l, x))
  <1>1. EmptyBuf \in SndBuf /\ EmptyBuf.data = Nothing
    BY DEF EmptyBuf, SndBuf
  <1>2. PICK e : e = EmptyBuf
    OBVIOUS
  <1>3. PICK r : r = [kind |-> k, buf |-> b, mLeaveFileOpen |-> l, completion |-> x,
                      mNextStage |-> 2, mFreeData |-> Nothing, mSndBuf |-> e, reply |-> "none"]
    OBVIOUS
  <1>4. r = Command(k, b, l, x)
    BY <1>2, <1>3, Zenon DEF Command
  <1>5. /\ r \in CmdRec /\ r.mNextStage = 2 /\ r.mFreeData = Nothing /\ r.mSndBuf = e
        /\ r.reply = "none"
    BY <1>1, <1>2, <1>3 DEF CmdRec
  <1>6. QED
    BY <1>1, <1>2, <1>4, <1>5 DEF New

Fields(s, m, n, k, q, p, l, x, z, u) ==
    /\ s.mirror = m /\ s.snd = n /\ s.cmds = k /\ s.toNRT = q /\ s.toRT = p
    /\ s.live = l /\ s.lost = x /\ s.noSamples = z /\ s.up = u

LEMMA StateFields ==
    ASSUME NEW s, NEW t, s = State, t = State'
    PROVE  /\ Fields(s, mirror, snd, cmds, toNRT, toRT, live, lost, noSamples, up)
           /\ Fields(t, mirror', snd', cmds', toNRT', toRT', live', lost', noSamples', up')
  BY DEF Fields, State

LEMMA CallSequencedCommandStep ==
    ASSUME use \in Use, NEW s, NEW t, s = State, t = State', Good(s), CallSequencedCommand
    PROVE  \E r : Received(s, t, r)
  <1>1. /\ Fields(s, mirror, snd, cmds, toNRT, toRT, live, lost, noSamples, up)
        /\ Fields(t, mirror', snd', cmds', toNRT', toRT', live', lost', noSamples', up')
    BY StateFields
  <1>2. Typed(s)
    BY DEF Good, Base
  <1>3. cmds \in Seq(CmdRec) /\ toNRT \in Seq(Nat) /\ lost \in BOOLEAN /\ Len(cmds) < MaxCmds
    BY <1>1, <1>2 DEF Typed, Fields, CallSequencedCommand
  <1>4. PICK kind \in use.kinds, b \in Buf, completion \in use.completions :
           \E leaveOpen \in LeavesOpen(kind) :
              cmds' = Append(cmds, Command(kind, b, leaveOpen, completion))
    BY DEF CallSequencedCommand
  <1>5. PICK leaveOpen \in LeavesOpen(kind) :
           cmds' = Append(cmds, Command(kind, b, leaveOpen, completion))
    BY <1>4
  <1>6. kind \in AllKinds /\ completion \in AllKinds \cup {"none"}
    BY DEF Use
  <1>7. leaveOpen \in BOOLEAN
    BY DEF LeavesOpen
  <1>8. PICK r : r = Command(kind, b, leaveOpen, completion)
    OBVIOUS
  <1>9. New(r) /\ cmds' = Append(cmds, r)
    BY <1>5, <1>6, <1>7, <1>8, NewCommand
  <1>10. r \in CmdRec
    BY <1>9 DEF New
  <1>11. cmds' \in Seq(CmdRec) /\ Pushed(cmds, cmds', r)
    BY <1>3, <1>9, <1>10, AppendPushed
  <1>12. Len(cmds') = Len(cmds) + 1 /\ Len(cmds) \in Nat /\ Len(cmds') <= MaxCmds
    BY <1>3, <1>11, CmdAssumption DEF Pushed
  <1>13. toNRT' \in Sent(toNRT, Len(cmds) + 1) /\ lost' = (lost \/ toNRT' = toNRT)
    BY <1>12 DEF CallSequencedCommand
  <1>14. Len(cmds) + 1 \in Nat
    BY <1>12
  <1>15. /\ toNRT' \in Seq(Nat) /\ Pass(toNRT, toNRT', Len(cmds) + 1, lost, lost')
         /\ lost' \in BOOLEAN
    BY <1>3, <1>13, <1>14, SentPass
  <1>16. /\ mirror' = mirror /\ snd' = snd /\ toRT' = toRT /\ live' = live
         /\ noSamples' = noSamples /\ up' = up
    BY DEF CallSequencedCommand
  <1>17. Received(s, t, r)
    BY <1>1, <1>9, <1>11, <1>12, <1>15, <1>16 DEF Received, Fields
  <1>18. QED
    BY <1>17

LEMMA CallStage2Step ==
    ASSUME NEW s, NEW t, s = State, t = State', Good(s), open \subseteq Name, CallStage2
    PROVE  /\ \E c, o : /\ Staged2(s, t, c, o)
                        /\ closed' = [x \in Name |-> closed[x] + Times(o.shut, x)]
           /\ open' \subseteq Name
  <1>1. /\ Fields(s, mirror, snd, cmds, toNRT, toRT, live, lost, noSamples, up)
        /\ Fields(t, mirror', snd', cmds', toNRT', toRT', live', lost', noSamples', up')
    BY StateFields
  <1>2. Typed(s) /\ Queues(s)
    BY SMTT(40) DEF Good, Base
  <1>3. /\ cmds \in Seq(CmdRec) /\ toNRT \in Seq(Nat) /\ toRT \in Seq(Msg) /\ lost \in BOOLEAN
        /\ mirror \in [Buf -> SndBuf] /\ toNRT # <<>>
    BY <1>1, <1>2 DEF Typed, Fields, CallStage2
  <1>4. PICK c : c = Head(toNRT)
    OBVIOUS
  <1>5. toNRT' = Tail(toNRT) /\ toNRT' \in Seq(Nat) /\ Popped(toNRT, toNRT', c)
    BY <1>3, <1>4, TailPopped DEF CallStage2
  <1>6. c \in Cmds(s) /\ c \in 1 .. Len(cmds) /\ c \in Name
    <2>1. 1 \in ToNRT(s) /\ s.toNRT[1] = c
      BY <1>1, <1>3, <1>5 DEF Popped, ToNRT, Fields
    <2>2. c \in Cmds(s)
      BY <2>1, <1>2 DEF Queues
    <2>3. QED
      BY <2>2, <1>1, <1>2, CmdAssumption DEF Cmds, Fields, Typed, Name
  <1>7. /\ cmds[c].mNextStage = 2
        /\ \E o \in Stage2(c) :
              /\ noSamples' = (noSamples \/ o.noSamples)
              /\ mirror' = [mirror EXCEPT ![cmds[c].buf] = o.buf]
              /\ live' = live \cup o.alloc
              /\ open' = (open \cup o.opened) \ {o.shut[i] : i \in DOMAIN o.shut}
              /\ closed' = [x \in Name |-> closed[x] + Times(o.shut, x)]
              /\ cmds' = [cmds EXCEPT ![c].mFreeData = o.mFreeData,
                                      ![c].mSndBuf = o.buf,
                                      ![c].mNextStage = 3,
                                      ![c].reply = IF o.sendAgain THEN @ ELSE "/fail"]
              /\ toRT' \in Sent(toRT, [cmd |-> c, delete |-> ~o.sendAgain])
    BY <1>4, Zenon DEF CallStage2
  <1>8. PICK o \in Stage2(c) :
              /\ noSamples' = (noSamples \/ o.noSamples)
              /\ mirror' = [mirror EXCEPT ![cmds[c].buf] = o.buf]
              /\ live' = live \cup o.alloc
              /\ open' = (open \cup o.opened) \ {o.shut[i] : i \in DOMAIN o.shut}
              /\ closed' = [x \in Name |-> closed[x] + Times(o.shut, x)]
              /\ cmds' = [cmds EXCEPT ![c].mFreeData = o.mFreeData,
                                      ![c].mSndBuf = o.buf,
                                      ![c].mNextStage = 3,
                                      ![c].reply = IF o.sendAgain THEN @ ELSE "/fail"]
              /\ toRT' \in Sent(toRT, [cmd |-> c, delete |-> ~o.sendAgain])
    BY <1>7, Zenon
  <1>9. Outcome(s, c, o)
    BY <1>2, <1>6, Stage2Outcome
  <1>10. /\ cmds[c] \in CmdRec /\ cmds[c].buf \in Buf
         /\ cmds[c].reply \in {"none", "/done", "/fail"}
    BY <1>1, <1>2, <1>6, CmdType DEF Fields
  <1>11. o.buf \in SndBuf /\ o.sendAgain \in BOOLEAN /\ o.mFreeData \in Name \cup {Nothing}
    <2>1. s.mirror[s.cmds[c].buf] \in SndBuf
      BY <1>1, <1>3, <1>10 DEF Fields
    <2>2. s.mirror[s.cmds[c].buf].data \in Name \cup {Nothing}
      BY <2>1 DEF SndBuf
    <2>3. QED
      BY <2>2, <1>9 DEF Outcome, Kept, Replaced, Freed, Unsampled
  <1>12. /\ cmds' \in Seq(CmdRec) /\ Len(cmds') = Len(cmds)
         /\ \A d \in 1 .. Len(cmds) : d # c => cmds'[d] = cmds[d]
         /\ cmds'[c].kind = cmds[c].kind /\ cmds'[c].buf = cmds[c].buf
         /\ cmds'[c].mNextStage = 3 /\ cmds'[c].mFreeData = o.mFreeData
         /\ cmds'[c].mSndBuf = o.buf
         /\ cmds'[c].reply = IF o.sendAgain THEN cmds[c].reply ELSE "/fail"
    <2>1. PICK k1 : k1 = [cmds EXCEPT ![c].mFreeData = o.mFreeData]
      OBVIOUS
    <2>2. /\ k1 \in Seq(CmdRec) /\ Len(k1) = Len(cmds)
          /\ \A d \in 1 .. Len(cmds) : d # c => k1[d] = cmds[d]
          /\ k1[c].kind = cmds[c].kind /\ k1[c].buf = cmds[c].buf
          /\ k1[c].mFreeData = o.mFreeData /\ k1[c].reply = cmds[c].reply
      <3>1. [cmds[c] EXCEPT !.mFreeData = o.mFreeData] \in CmdRec
        BY <1>10, <1>11 DEF CmdRec
      <3>2. k1 = [cmds EXCEPT ![c] = [cmds[c] EXCEPT !.mFreeData = o.mFreeData]]
        BY <2>1
      <3>3. /\ k1 \in Seq(CmdRec) /\ Len(k1) = Len(cmds)
            /\ k1[c] = [cmds[c] EXCEPT !.mFreeData = o.mFreeData]
            /\ \A d \in 1 .. Len(cmds) : d # c => k1[d] = cmds[d]
        <4>1. PICK k0, r : k0 = cmds /\ r = [cmds[c] EXCEPT !.mFreeData = o.mFreeData]
          OBVIOUS
        <4>2. k0 \in Seq(CmdRec) /\ c \in 1 .. Len(k0) /\ r \in CmdRec
          BY <4>1, <3>1, <1>3, <1>6
        <4>3. k1 = [k0 EXCEPT ![c] = r]
          BY <4>1, <3>2
        <4>4. /\ k1 \in Seq(CmdRec) /\ Len(k1) = Len(k0) /\ k1[c] = r
              /\ \A d \in 1 .. Len(k0) : d # c => k1[d] = k0[d]
          BY <4>2, <4>3, ChangedCmd
        <4>5. QED
          BY <4>1, <4>4
      <3>4. QED
        BY <3>3, <1>10 DEF CmdRec
    <2>3. PICK k2 : k2 = [k1 EXCEPT ![c].mSndBuf = o.buf]
      OBVIOUS
    <2>4. k1[c] \in CmdRec /\ c \in 1 .. Len(k1)
      BY <2>2, <1>6
    <2>5. /\ k2 \in Seq(CmdRec) /\ Len(k2) = Len(cmds)
          /\ \A d \in 1 .. Len(cmds) : d # c => k2[d] = cmds[d]
          /\ k2[c].kind = cmds[c].kind /\ k2[c].buf = cmds[c].buf
          /\ k2[c].mFreeData = o.mFreeData /\ k2[c].reply = cmds[c].reply
          /\ k2[c].mSndBuf = o.buf
      <3>1. [k1[c] EXCEPT !.mSndBuf = o.buf] \in CmdRec
        BY <2>4, <1>11 DEF CmdRec
      <3>2. k2 = [k1 EXCEPT ![c] = [k1[c] EXCEPT !.mSndBuf = o.buf]]
        BY <2>3
      <3>3. /\ k2 \in Seq(CmdRec) /\ Len(k2) = Len(k1)
            /\ k2[c] = [k1[c] EXCEPT !.mSndBuf = o.buf]
            /\ \A d \in 1 .. Len(k1) : d # c => k2[d] = k1[d]
        BY <3>1, <3>2, <2>2, <2>4, ChangedCmd
      <3>4. QED
        BY <3>3, <2>2, <2>4 DEF CmdRec
    <2>6. PICK k3 : k3 = [k2 EXCEPT ![c].mNextStage = 3]
      OBVIOUS
    <2>7. k2[c] \in CmdRec /\ c \in 1 .. Len(k2)
      BY <2>5, <1>6
    <2>8. /\ k3 \in Seq(CmdRec) /\ Len(k3) = Len(cmds)
          /\ \A d \in 1 .. Len(cmds) : d # c => k3[d] = cmds[d]
          /\ k3[c].kind = cmds[c].kind /\ k3[c].buf = cmds[c].buf
          /\ k3[c].mFreeData = o.mFreeData /\ k3[c].reply = cmds[c].reply
          /\ k3[c].mSndBuf = o.buf /\ k3[c].mNextStage = 3
      <3>1. [k2[c] EXCEPT !.mNextStage = 3] \in CmdRec
        BY <2>7 DEF CmdRec
      <3>2. k3 = [k2 EXCEPT ![c] = [k2[c] EXCEPT !.mNextStage = 3]]
        BY <2>6
      <3>3. /\ k3 \in Seq(CmdRec) /\ Len(k3) = Len(k2)
            /\ k3[c] = [k2[c] EXCEPT !.mNextStage = 3]
            /\ \A d \in 1 .. Len(k2) : d # c => k3[d] = k2[d]
        BY <3>1, <3>2, <2>5, <2>7, ChangedCmd
      <3>4. QED
        BY <3>3, <2>5, <2>7 DEF CmdRec
    <2>9. PICK k4 : k4 = [k3 EXCEPT ![c].reply = IF o.sendAgain THEN @ ELSE "/fail"]
      OBVIOUS
    <2>10. k3[c] \in CmdRec /\ c \in 1 .. Len(k3)
      BY <2>8, <1>6
    <2>11. PICK a : a = IF o.sendAgain THEN k3[c].reply ELSE "/fail"
      OBVIOUS
    <2>12. /\ k4 \in Seq(CmdRec) /\ Len(k4) = Len(cmds)
           /\ \A d \in 1 .. Len(cmds) : d # c => k4[d] = cmds[d]
           /\ k4[c].kind = cmds[c].kind /\ k4[c].buf = cmds[c].buf
           /\ k4[c].mFreeData = o.mFreeData /\ k4[c].reply = a
           /\ k4[c].mSndBuf = o.buf /\ k4[c].mNextStage = 3
      <3>1. a \in {"none", "/done", "/fail"}
        BY <2>8, <2>11, <1>10
      <3>2. [k3[c] EXCEPT !.reply = a] \in CmdRec
        BY <3>1, <2>10 DEF CmdRec
      <3>3. k4 = [k3 EXCEPT ![c] = [k3[c] EXCEPT !.reply = a]]
        BY <2>9, <2>11
      <3>4. /\ k4 \in Seq(CmdRec) /\ Len(k4) = Len(k3)
            /\ k4[c] = [k3[c] EXCEPT !.reply = a]
            /\ \A d \in 1 .. Len(k3) : d # c => k4[d] = k3[d]
        BY <3>2, <3>3, <2>8, <2>10, ChangedCmd
      <3>5. QED
        BY <3>4, <2>8, <2>10 DEF CmdRec
    <2>13. a = IF o.sendAgain THEN cmds[c].reply ELSE "/fail"
      BY <2>8, <2>11
    <2>14. cmds' = k4
      BY <2>1, <2>3, <2>6, <2>9, <1>8, ZenonT(60)
    <2>15. QED
      BY <2>12, <2>13, <2>14
  <1>13. /\ mirror' \in [Buf -> SndBuf] /\ mirror'[cmds[c].buf] = o.buf
         /\ \A b \in Buf : b # cmds[c].buf => mirror'[b] = mirror[b]
    BY <1>3, <1>8, <1>10, <1>11
  <1>14. PICK m : m = [cmd |-> c, delete |-> ~o.sendAgain]
    OBVIOUS
  <1>15. m \in Msg
    BY <1>6, <1>14 DEF Msg
  <1>16. toRT' \in Sent(toRT, m) /\ lost' = (lost \/ toRT' = toRT)
    BY <1>8, <1>14, Zenon DEF CallStage2
  <1>17. /\ toRT' \in Seq(Msg) /\ Pass(toRT, toRT', m, lost, lost') /\ lost' \in BOOLEAN
    BY <1>3, <1>15, <1>16, SentPass
  <1>18. snd' = snd /\ up' = up
    BY DEF CallStage2
  <1>19. Staged2(s, t, c, o)
    <2>1. /\ Outcome(s, c, o) /\ c \in Cmds(s) /\ Stage(s, c) = 2
          /\ t.toNRT \in Seq(Nat) /\ Popped(s.toNRT, t.toNRT, c)
      BY <1>1, <1>5, <1>6, <1>7, <1>9 DEF Fields, Stage
    <2>2. /\ t.cmds \in Seq(CmdRec) /\ Len(t.cmds) = Len(s.cmds)
          /\ \A d \in Cmds(s) : d # c => t.cmds[d] = s.cmds[d]
          /\ t.cmds[c].kind = s.cmds[c].kind /\ t.cmds[c].buf = s.cmds[c].buf
          /\ t.cmds[c].mNextStage = 3 /\ t.cmds[c].mFreeData = o.mFreeData
          /\ t.cmds[c].mSndBuf = o.buf
          /\ t.cmds[c].reply = IF o.sendAgain THEN s.cmds[c].reply ELSE "/fail"
      BY <1>1, <1>12 DEF Fields, Cmds
    <2>3. /\ t.mirror \in [Buf -> SndBuf] /\ t.mirror[s.cmds[c].buf] = o.buf
          /\ \A b \in Buf : b # s.cmds[c].buf => t.mirror[b] = s.mirror[b]
      BY <1>1, <1>13 DEF Fields
    <2>4. /\ t.live = s.live \cup o.alloc /\ t.snd = s.snd /\ t.up = s.up
          /\ t.noSamples = (s.noSamples \/ o.noSamples)
      BY <1>1, <1>8, <1>18, Zenon DEF Fields
    <2>5. /\ t.toRT \in Seq(Msg) /\ t.lost \in BOOLEAN
          /\ Pass(s.toRT, t.toRT, [cmd |-> c, delete |-> ~o.sendAgain], s.lost, t.lost)
      BY <1>1, <1>14, <1>17, Zenon DEF Fields
    <2>6. QED
      BY <2>1, <2>2, <2>3, <2>4, <2>5, Zenon DEF Staged2
  <1>20. open' \subseteq Name
    <2>1. o.opened \subseteq {c}
      BY <1>9 DEF Outcome
    <2>2. open' \subseteq open \cup o.opened
      BY <1>8
    <2>3. QED
      BY <2>1, <2>2, <1>6
  <1>21. QED
    BY <1>8, <1>19, <1>20

LEMMA Restaged ==
    ASSUME NEW q \in Seq(CmdRec), NEW c \in 1 .. Len(q),
           NEW p, p = [q EXCEPT ![c].mNextStage = 4]
    PROVE  /\ p \in Seq(CmdRec) /\ Len(p) = Len(q)
           /\ \A d \in 1 .. Len(q) : d # c => p[d] = q[d]
           /\ p[c].kind = q[c].kind /\ p[c].buf = q[c].buf /\ p[c].mNextStage = 4
           /\ p[c].mFreeData = q[c].mFreeData /\ p[c].mSndBuf = q[c].mSndBuf
           /\ p[c].reply = q[c].reply
  <1>1. PICK r : r = [q[c] EXCEPT !.mNextStage = 4]
    OBVIOUS
  <1>2. q[c] \in CmdRec
    OBVIOUS
  <1>3. /\ r \in CmdRec /\ r.kind = q[c].kind /\ r.buf = q[c].buf /\ r.mNextStage = 4
        /\ r.mFreeData = q[c].mFreeData /\ r.mSndBuf = q[c].mSndBuf /\ r.reply = q[c].reply
    BY <1>1, <1>2, SMTT(40) DEF CmdRec
  <1>4. p = [q EXCEPT ![c] = r]
    BY <1>1
  <1>5. QED
    BY <1>3, <1>4, ChangedCmd, SMTT(40)

LEMMA Answered ==
    ASSUME NEW q \in Seq(CmdRec), NEW c \in 1 .. Len(q),
           NEW p, p = [q EXCEPT ![c].reply = "/done"]
    PROVE  /\ p \in Seq(CmdRec) /\ Len(p) = Len(q)
           /\ \A d \in 1 .. Len(q) : d # c => p[d] = q[d]
           /\ p[c].kind = q[c].kind /\ p[c].buf = q[c].buf
           /\ p[c].mNextStage = q[c].mNextStage /\ p[c].mFreeData = q[c].mFreeData
           /\ p[c].mSndBuf = q[c].mSndBuf /\ p[c].reply = "/done"
  <1>1. PICK r : r = [q[c] EXCEPT !.reply = "/done"]
    OBVIOUS
  <1>2. q[c] \in CmdRec
    OBVIOUS
  <1>3. /\ r \in CmdRec /\ r.kind = q[c].kind /\ r.buf = q[c].buf
        /\ r.mNextStage = q[c].mNextStage /\ r.reply = "/done"
        /\ r.mFreeData = q[c].mFreeData /\ r.mSndBuf = q[c].mSndBuf
    BY <1>1, <1>2 DEF CmdRec
  <1>4. p = [q EXCEPT ![c] = r]
    BY <1>1
  <1>5. QED
    BY <1>3, <1>4, ChangedCmd

\* Stage 3 of command c without its completion message, among the commands k.
Stage3Only(k, q, l, c) ==
    /\ snd' \in [Buf -> SndBuf]
    /\ Writes(k[c].kind) => snd'[k[c].buf].data = k[c].mSndBuf.data
    /\ ~Writes(k[c].kind) => snd'[k[c].buf] = snd[k[c].buf]
    /\ \A b \in Buf : b # k[c].buf => snd'[b] = snd[b]
    /\ toRT' \in Seq(Msg) /\ Popped(toRT, toRT', toRT[1])
    /\ toRT[1].cmd = c /\ ~toRT[1].delete
    /\ cmds' \in Seq(CmdRec) /\ Len(cmds') = Len(k)
    /\ \A d \in 1 .. Len(k) : d # c => cmds'[d] = k[d]
    /\ cmds'[c].kind = k[c].kind /\ cmds'[c].buf = k[c].buf /\ cmds'[c].mNextStage = 4
    /\ cmds'[c].mFreeData = k[c].mFreeData /\ cmds'[c].mSndBuf = k[c].mSndBuf
    /\ cmds'[c].reply = k[c].reply
    /\ toNRT' \in Seq(Nat) /\ lost' \in BOOLEAN /\ Pass(q, toNRT', c, l, lost')
    /\ mirror' = mirror /\ live' = live /\ noSamples' = noSamples /\ up' = up

LEMMA Stage3OnlyStep ==
    ASSUME NEW u, NEW t, NEW k, NEW q, NEW l, NEW c,
           Fields(u, mirror, snd, k, q, toRT, live, l, noSamples, up),
           Fields(t, mirror', snd', cmds', toNRT', toRT', live', lost', noSamples', up'),
           c \in 1 .. Len(k), Stage3Only(k, q, l, c)
    PROVE  Staged3(u, t, c)
  BY DEF Stage3Only, Staged3, Fields, Cmds, Going

LEMMA CallStage3Step ==
    ASSUME NEW s, NEW t, s = State, t = State', Good(s), CallStage3,
           NEW f, NEW g, Once(s, f, g)
    PROVE  Good(t) /\ Once(t, f, g)
  <1>1. /\ Fields(s, mirror, snd, cmds, toNRT, toRT, live, lost, noSamples, up)
        /\ Fields(t, mirror', snd', cmds', toNRT', toRT', live', lost', noSamples', up')
    BY StateFields
  <1>2. Typed(s) /\ Queues(s) /\ Names(s)
    BY DEF Good, Base
  <1>3. /\ cmds \in Seq(CmdRec) /\ toNRT \in Seq(Nat) /\ toRT \in Seq(Msg) /\ lost \in BOOLEAN
        /\ snd \in [Buf -> SndBuf] /\ toRT # <<>> /\ Len(cmds) <= MaxCmds
    BY <1>1, <1>2 DEF Typed, Fields, CallStage3
  <1>4. PICK c : c = Head(toRT).cmd
    OBVIOUS
  <1>5. /\ toRT' \in Seq(Msg) /\ Popped(toRT, toRT', toRT[1]) /\ toRT[1].cmd = c
        /\ ~toRT[1].delete
    <2>1. toRT' \in Seq(Msg) /\ Popped(toRT, toRT', Head(toRT))
      BY <1>3, TailPopped DEF CallStage3
    <2>2. toRT[1] = Head(toRT)
      BY <2>1 DEF Popped
    <2>3. ~Head(toRT).delete
      BY DEF CallStage3
    <2>4. QED
      BY <2>1, <2>2, <2>3, <1>4
  <1>6. c \in Cmds(s) /\ c \in 1 .. Len(cmds)
    <2>1. 1 \in ToRT(s) /\ s.toRT[1].cmd = c
      BY <1>1, <1>3, <1>5 DEF Popped, ToRT, Fields
    <2>2. c \in Cmds(s)
      BY <2>1, <1>2 DEF Queues
    <2>3. QED
      BY <2>2, <1>1 DEF Cmds, Fields
  <1>7. PICK b : b = cmds[c].buf
    OBVIOUS
  <1>8. /\ cmds[c] \in CmdRec /\ b \in Buf /\ Record(cmds[c]) /\ c \in Nat
        /\ cmds[c].mSndBuf \in SndBuf
    BY <1>1, <1>2, <1>6, <1>7, CmdType DEF Fields, Names, Cmds
  <1>9. PICK k : k = [cmds EXCEPT ![c].mNextStage = 4]
    OBVIOUS
  <1>10. /\ k \in Seq(CmdRec) /\ Len(k) = Len(cmds)
         /\ \A d \in 1 .. Len(cmds) : d # c => k[d] = cmds[d]
         /\ k[c].kind = cmds[c].kind /\ k[c].buf = cmds[c].buf /\ k[c].mNextStage = 4
         /\ k[c].mFreeData = cmds[c].mFreeData /\ k[c].mSndBuf = cmds[c].mSndBuf
         /\ k[c].reply = cmds[c].reply
    <2>1. PICK k0 : k0 = cmds
      OBVIOUS
    <2>2. k0 \in Seq(CmdRec) /\ c \in 1 .. Len(k0) /\ k = [k0 EXCEPT ![c].mNextStage = 4]
      BY <2>1, <1>3, <1>6, <1>9
    <2>3. /\ k \in Seq(CmdRec) /\ Len(k) = Len(k0)
          /\ \A d \in 1 .. Len(k0) : d # c => k[d] = k0[d]
          /\ k[c].kind = k0[c].kind /\ k[c].buf = k0[c].buf /\ k[c].mNextStage = 4
          /\ k[c].mFreeData = k0[c].mFreeData /\ k[c].mSndBuf = k0[c].mSndBuf
          /\ k[c].reply = k0[c].reply
      BY <2>2, Restaged
    <2>4. QED
      BY <2>1, <2>3
  <1>11. /\ snd' = [snd EXCEPT ![b] = Stage3Buf(c)]
         /\ IF cmds[c].completion = "none" \/ Len(cmds) = MaxCmds
            THEN /\ cmds' = k
                 /\ toNRT' \in Sent(toNRT, c)
                 /\ lost' = (lost \/ toNRT' = toNRT)
            ELSE /\ cmds' = Append(k, Command(cmds[c].completion, b, FALSE, "none"))
                 /\ \E q \in Sent(toNRT, Len(cmds')) :
                       /\ toNRT' \in Sent(q, c)
                       /\ lost' = (lost \/ q = toNRT \/ toNRT' = q)
    BY <1>4, <1>7, <1>9, Zenon DEF CallStage3
  <1>12. /\ snd' \in [Buf -> SndBuf]
         /\ Writes(cmds[c].kind) => snd'[b].data = cmds[c].mSndBuf.data
         /\ ~Writes(cmds[c].kind) => snd'[b] = snd[b]
         /\ \A a \in Buf : a # b => snd'[a] = snd[a]
    <2>1. EmptyBuf \in SndBuf /\ EmptyBuf.data = Nothing
      BY DEF EmptyBuf, SndBuf
    <2>2. CASE Installs(cmds[c].kind)
      <3>1. Stage3Buf(c) = cmds[c].mSndBuf
        BY <2>2 DEF Stage3Buf, Installs
      <3>2. QED
        BY <2>2, <3>1, <1>3, <1>8, <1>11 DEF Writes
    <2>3. CASE cmds[c].kind = "b_free"
      <3>1. Stage3Buf(c) = EmptyBuf
        BY <2>3 DEF Stage3Buf, Installs
      <3>2. cmds[c].mSndBuf.data = Nothing
        BY <2>3, <1>8 DEF Record
      <3>3. QED
        BY <2>1, <2>3, <3>1, <3>2, <1>3, <1>8, <1>11 DEF Writes
    <2>4. CASE ~Installs(cmds[c].kind) /\ cmds[c].kind # "b_free"
      <3>1. Stage3Buf(c) = snd[b]
        BY <2>4, <1>7 DEF Stage3Buf
      <3>2. QED
        BY <2>4, <3>1, <1>3, <1>8, <1>11 DEF Writes
    <2>5. QED
      BY <2>2, <2>3, <2>4
  <1>13. mirror' = mirror /\ live' = live /\ noSamples' = noSamples /\ up' = up
    BY DEF CallStage3
  <1>14. CASE cmds[c].completion = "none" \/ Len(cmds) = MaxCmds
    <2>1. cmds' = k /\ toNRT' \in Sent(toNRT, c) /\ lost' = (lost \/ toNRT' = toNRT)
      BY <1>11, <1>14
    <2>2. toNRT' \in Seq(Nat) /\ Pass(toNRT, toNRT', c, lost, lost') /\ lost' \in BOOLEAN
      BY <2>1, <1>3, <1>8, SentPass, SMTT(40)
    <2>3. Stage3Only(cmds, toNRT, lost, c)
      BY <2>1, <2>2, <1>5, <1>7, <1>10, <1>12, <1>13 DEF Stage3Only
    <2>4. Staged3(s, t, c)
      BY <2>3, <1>1, <1>6, Stage3OnlyStep
    <2>5. QED
      BY <2>4, StepsGood, Staged3Once DEF Good
  <1>15. CASE cmds[c].completion # "none" /\ Len(cmds) # MaxCmds
    <2>1. PICK r : r = Command(cmds[c].completion, b, FALSE, "none")
      OBVIOUS
    <2>2. New(r) /\ r \in CmdRec
      <3>1. cmds[c].completion \in AllKinds
        BY <1>8, <1>15 DEF CmdRec
      <3>2. New(r)
        BY <2>1, <3>1, <1>8, NewCommand
      <3>3. QED
        BY <3>2 DEF New
    <2>3. /\ cmds' = Append(k, r)
          /\ \E q \in Sent(toNRT, Len(cmds')) :
                toNRT' \in Sent(q, c) /\ lost' = (lost \/ q = toNRT \/ toNRT' = q)
      BY <2>1, <1>11, <1>15, Zenon
    <2>4. PICK q \in Sent(toNRT, Len(cmds')) :
                toNRT' \in Sent(q, c) /\ lost' = (lost \/ q = toNRT \/ toNRT' = q)
      BY <2>3
    <2>5. cmds' \in Seq(CmdRec) /\ Pushed(k, cmds', r)
      BY <2>2, <2>3, <1>10, AppendPushed
    <2>6. PICK k1 : k1 = Append(cmds, r)
      OBVIOUS
    <2>7. k1 \in Seq(CmdRec) /\ Pushed(cmds, k1, r)
      BY <2>2, <2>6, <1>3, AppendPushed
    <2>8. /\ Len(cmds) \in Nat /\ Len(k1) = Len(cmds) + 1 /\ Len(cmds') = Len(cmds) + 1
          /\ Len(cmds) + 1 <= MaxCmds
      BY <2>5, <2>7, <1>3, <1>10, <1>15, CmdAssumption DEF Pushed
    <2>9. PICK l : l = (lost \/ q = toNRT)
      OBVIOUS
    <2>10. Len(cmds) + 1 \in Nat /\ q \in Sent(toNRT, Len(cmds) + 1)
      BY <2>4, <2>8
    <2>11. q \in Seq(Nat) /\ Pass(toNRT, q, Len(cmds) + 1, lost, l) /\ l \in BOOLEAN
      BY <2>9, <2>10, <1>3, SentPass, SMTT(40)
    <2>12. lost' = (l \/ toNRT' = q)
      BY <2>4, <2>9
    <2>13. toNRT' \in Seq(Nat) /\ Pass(q, toNRT', c, l, lost') /\ lost' \in BOOLEAN
      BY <2>4, <2>11, <2>12, <1>8, SentPass
    <2>14. PICK u : u = [mirror |-> mirror, snd |-> snd, cmds |-> k1, toNRT |-> q, toRT |-> toRT,
                         live |-> live, lost |-> l, noSamples |-> noSamples, up |-> up]
      OBVIOUS
    <2>15. Fields(u, mirror, snd, k1, q, toRT, live, l, noSamples, up)
      BY <2>14 DEF Fields
    <2>16. Received(s, u, r)
      BY <2>2, <2>7, <2>8, <2>11, <2>15, <1>1 DEF Received, Fields
    <2>17. Good(u) /\ Once(u, f, g)
      BY <2>16, StepsGood, ReceivedOnce DEF Good
    <2>18. /\ c \in 1 .. Len(k1) /\ k1[c] = cmds[c] /\ Len(cmds') = Len(k1)
           /\ \A d \in 1 .. Len(k1) : d # c => cmds'[d] = k1[d]
           /\ cmds'[c] = k[c]
      BY <2>5, <2>7, <2>8, <1>6, <1>10, SMTT(40) DEF Pushed
    <2>19. Stage3Only(k1, q, l, c)
      BY <2>5, <2>13, <2>18, <1>5, <1>7, <1>10, <1>12, <1>13 DEF Stage3Only
    <2>20. Staged3(u, t, c)
      BY <2>15, <2>18, <2>19, <1>1, Stage3OnlyStep
    <2>21. QED
      BY <2>17, <2>20, StepsGood, Staged3Once DEF Good
  <1>16. QED
    BY <1>14, <1>15

LEMMA FreeSequencedCommandStep ==
    ASSUME NEW s, NEW t, s = State, t = State', Good(s), FreeSequencedCommand
    PROVE  Dropped(s, t)
  <1>1. /\ Fields(s, mirror, snd, cmds, toNRT, toRT, live, lost, noSamples, up)
        /\ Fields(t, mirror', snd', cmds', toNRT', toRT', live', lost', noSamples', up')
    BY StateFields
  <1>2. toRT \in Seq(Msg) /\ toRT # <<>>
    BY <1>1 DEF Good, Base, Typed, Fields, FreeSequencedCommand
  <1>3. toRT' \in Seq(Msg) /\ Popped(toRT, toRT', Head(toRT))
    BY <1>2, TailPopped DEF FreeSequencedCommand
  <1>4. toRT[1] = Head(toRT) /\ Head(toRT).delete
    BY <1>3 DEF Popped, FreeSequencedCommand
  <1>5. /\ mirror' = mirror /\ snd' = snd /\ cmds' = cmds /\ toNRT' = toNRT /\ live' = live
        /\ lost' = lost /\ noSamples' = noSamples /\ up' = up
    BY DEF FreeSequencedCommand
  <1>6. QED
    BY <1>1, <1>3, <1>4, <1>5 DEF Dropped, Fields, Going

LEMMA CallStage4Step ==
    ASSUME NEW s, NEW t, s = State, t = State', Good(s), CallStage4
    PROVE  \E c : /\ Staged4(s, t, c)
                 /\ freed' = [x \in Name |-> freed[x] + Times(SeqIf(Old(s, c)), x)]
  <1>1. /\ Fields(s, mirror, snd, cmds, toNRT, toRT, live, lost, noSamples, up)
        /\ Fields(t, mirror', snd', cmds', toNRT', toRT', live', lost', noSamples', up')
    BY StateFields
  <1>2. Typed(s) /\ Queues(s)
    BY DEF Good, Base
  <1>3. /\ cmds \in Seq(CmdRec) /\ toNRT \in Seq(Nat) /\ toRT \in Seq(Msg) /\ lost \in BOOLEAN
        /\ toNRT # <<>> /\ live \subseteq Name
    BY <1>1, <1>2 DEF Typed, Fields, CallStage4
  <1>4. PICK c : c = Head(toNRT)
    OBVIOUS
  <1>5. toNRT' \in Seq(Nat) /\ Popped(toNRT, toNRT', c)
    BY <1>3, <1>4, TailPopped DEF CallStage4
  <1>6. c \in Cmds(s) /\ c \in 1 .. Len(cmds) /\ c \in Nat
    <2>1. 1 \in ToNRT(s) /\ s.toNRT[1] = c
      BY <1>1, <1>3, <1>5 DEF Popped, ToNRT, Fields
    <2>2. c \in Cmds(s)
      BY <2>1, <1>2 DEF Queues
    <2>3. QED
      BY <2>2, <1>1 DEF Cmds, Fields
  <1>7. /\ cmds[c].mNextStage = 4 /\ live' = live \ {cmds[c].mFreeData}
        /\ freed' = [x \in Name |-> freed[x] + Times(SeqIf(cmds[c].mFreeData), x)]
        /\ cmds' = [cmds EXCEPT ![c].reply = "/done"]
        /\ toRT' \in Sent(toRT, [cmd |-> c, delete |-> TRUE])
        /\ lost' = (lost \/ toRT' = toRT)
    BY <1>4, Zenon DEF CallStage4
  <1>8. /\ cmds' \in Seq(CmdRec) /\ Len(cmds') = Len(cmds)
        /\ \A d \in 1 .. Len(cmds) : d # c => cmds'[d] = cmds[d]
        /\ cmds'[c].kind = cmds[c].kind /\ cmds'[c].buf = cmds[c].buf
        /\ cmds'[c].mNextStage = 4 /\ cmds'[c].mFreeData = cmds[c].mFreeData
        /\ cmds'[c].mSndBuf = cmds[c].mSndBuf /\ cmds'[c].reply = "/done"
    <2>1. PICK k0, k : k0 = cmds /\ k = [cmds EXCEPT ![c].reply = "/done"]
      OBVIOUS
    <2>2. k0 \in Seq(CmdRec) /\ c \in 1 .. Len(k0) /\ k = [k0 EXCEPT ![c].reply = "/done"]
      BY <2>1, <1>3, <1>6
    <2>3. /\ k \in Seq(CmdRec) /\ Len(k) = Len(k0)
          /\ \A d \in 1 .. Len(k0) : d # c => k[d] = k0[d]
          /\ k[c].kind = k0[c].kind /\ k[c].buf = k0[c].buf
          /\ k[c].mNextStage = k0[c].mNextStage /\ k[c].mFreeData = k0[c].mFreeData
          /\ k[c].mSndBuf = k0[c].mSndBuf /\ k[c].reply = "/done"
      BY <2>2, Answered
    <2>4. k0 = cmds /\ k = cmds'
      BY <2>1, <1>7, Zenon
    <2>5. QED
      BY <2>3, <2>4, <1>7
  <1>9. live' = live \ {cmds[c].mFreeData}
    BY <1>7
  <1>10. PICK m : m = [cmd |-> c, delete |-> TRUE]
    OBVIOUS
  <1>11. m \in Msg
    BY <1>6, <1>10 DEF Msg
  <1>12. toRT' \in Sent(toRT, m)
    BY <1>7, <1>10, Zenon
  <1>13. toRT' \in Seq(Msg) /\ Pass(toRT, toRT', m, lost, lost') /\ lost' \in BOOLEAN
    BY <1>3, <1>7, <1>11, <1>12, SentPass
  <1>14. mirror' = mirror /\ snd' = snd /\ noSamples' = noSamples /\ up' = up
    BY DEF CallStage4
  <1>15. Staged4(s, t, c)
    <2>1. /\ c \in Cmds(s) /\ Stage(s, c) = 4
          /\ t.toNRT \in Seq(Nat) /\ Popped(s.toNRT, t.toNRT, c)
      BY <1>1, <1>5, <1>6, <1>7 DEF Fields, Stage
    <2>2. /\ t.cmds \in Seq(CmdRec) /\ Len(t.cmds) = Len(s.cmds)
          /\ \A d \in Cmds(s) : d # c => t.cmds[d] = s.cmds[d]
          /\ t.cmds[c].kind = s.cmds[c].kind /\ t.cmds[c].buf = s.cmds[c].buf
          /\ t.cmds[c].mNextStage = 4 /\ t.cmds[c].mFreeData = s.cmds[c].mFreeData
          /\ t.cmds[c].mSndBuf = s.cmds[c].mSndBuf /\ t.cmds[c].reply = "/done"
      BY <1>1, <1>8 DEF Fields, Cmds
    <2>3. t.live = s.live \ {Old(s, c)}
      BY <1>1, <1>9 DEF Fields, Old
    <2>4. /\ t.toRT \in Seq(Msg) /\ t.lost \in BOOLEAN
          /\ Pass(s.toRT, t.toRT, [cmd |-> c, delete |-> TRUE], s.lost, t.lost)
      BY <1>1, <1>10, <1>13, Zenon DEF Fields
    <2>5. t.mirror = s.mirror /\ t.snd = s.snd /\ t.noSamples = s.noSamples /\ t.up = s.up
      BY <1>1, <1>14 DEF Fields
    <2>6. QED
      BY <2>1, <2>2, <2>3, <2>4, <2>5, Zenon DEF Staged4
  <1>16. freed' = [x \in Name |-> freed[x] + Times(SeqIf(Old(s, c)), x)]
    <2>1. cmds[c].mFreeData = Old(s, c)
      BY <1>1 DEF Fields, Old
    <2>2. QED
      BY <2>1, <1>7, Zenon
  <1>17. QED
    BY <1>15, <1>16

LEMMA World_CleanupStep ==
    ASSUME NEW s, NEW t, s = State, t = State', Good(s), Once(s, freed, closed), World_Cleanup
    PROVE  Cleaned(s, t) /\ open' \subseteq open /\ Once(t, freed', closed')
  <1>1. /\ Fields(s, mirror, snd, cmds, toNRT, toRT, live, lost, noSamples, up)
        /\ Fields(t, mirror', snd', cmds', toNRT', toRT', live', lost', noSamples', up')
    BY StateFields
  <1>2. /\ up' = FALSE /\ mirror' = mirror /\ snd' = snd /\ cmds' = cmds /\ toNRT' = toNRT
        /\ toRT' = toRT /\ lost' = lost /\ noSamples' = noSamples
    BY DEF World_Cleanup
  <1>3. live' \subseteq live /\ open' \subseteq open
    BY DEF World_Cleanup
  <1>4. Cleaned(s, t)
    BY <1>1, <1>2, <1>3 DEF Cleaned, Fields
  <1>5. PICK g, h, i, j : /\ g = [b \in Buf |-> mirror[b].data]
                          /\ h = [b \in Buf |-> snd[b].data]
                          /\ i = [b \in Buf |-> mirror[b].sndfile]
                          /\ j = [b \in Buf |-> snd[b].sndfile]
    OBVIOUS
  <1>6. /\ freed' = [x \in Name |-> freed[x] + CleanedUp(g, h, x)]
        /\ closed' = [x \in Name |-> closed[x] + CleanedUp(i, j, x)]
        /\ up
    BY <1>5, Zenon DEF World_Cleanup
  <1>7. closed' \in [Name -> Nat]
    <2>1. \A x \in Name : closed[x] + CleanedUp(i, j, x) \in Nat
      <3>1. \A x \in Name : closed[x] \in Nat
        BY DEF Once, ClosedOnce
      <3>2. \A x \in Name : CleanedUp(i, j, x) \in Nat
        BY CleanedUpType
      <3>3. QED
        BY <3>1, <3>2
    <2>2. QED
      BY <2>1, <1>6
  <1>8. DataOf(s, g, h)
    BY <1>1, <1>5 DEF Fields, DataOf
  <1>9. PICK n, l : n = freed' /\ l = closed'
    OBVIOUS
  <1>10. /\ n = [x \in Name |-> freed[x] + CleanedUp(g, h, x)]
         /\ l \in [Name -> Nat] /\ s.up
    BY <1>1, <1>6, <1>7, <1>9 DEF Fields
  <1>11. PICK f, k : f = freed /\ k = closed
    OBVIOUS
  <1>12. Once(s, f, k) /\ n = [x \in Name |-> f[x] + CleanedUp(g, h, x)]
    BY <1>10, <1>11
  <1>13. Once(t, n, l)
    BY <1>4, <1>8, <1>10, <1>12, CleanedOnce
  <1>14. QED
    BY <1>3, <1>4, <1>9, <1>13

LEMMA InitInv == Init => Inv
  <1> SUFFICES ASSUME Init PROVE Inv
    OBVIOUS
  <1>1. PICK s : s = State
    OBVIOUS
  <1>2. /\ s.mirror = [b \in Buf |-> EmptyBuf] /\ s.snd = [b \in Buf |-> EmptyBuf]
        /\ s.cmds = <<>> /\ s.toNRT = <<>> /\ s.toRT = <<>> /\ s.live = {}
        /\ s.lost = FALSE /\ s.noSamples = FALSE /\ s.up = TRUE
    BY <1>1 DEF Init, State
  <1>3. EmptyBuf \in SndBuf /\ EmptyBuf.data = Nothing
    BY DEF EmptyBuf, SndBuf
  <1>4. Cmds(s) = {} /\ ToNRT(s) = {} /\ ToRT(s) = {}
    BY <1>2 DEF Cmds, ToNRT, ToRT
  <1>5. \A b \in Buf : s.mirror[b].data = Nothing /\ s.snd[b].data = Nothing
    BY <1>2, <1>3
  <1>6. Typed(s)
    <2>1. s.mirror \in [Buf -> SndBuf] /\ s.snd \in [Buf -> SndBuf]
      BY <1>2, <1>3
    <2>2. /\ s.cmds \in Seq(CmdRec) /\ s.toNRT \in Seq(Nat) /\ s.toRT \in Seq(Msg)
          /\ Len(s.cmds) <= MaxCmds
      BY <1>2, CmdAssumption
    <2>3. s.live \subseteq Name
      BY <1>2
    <2>4. s.lost \in BOOLEAN /\ s.noSamples \in BOOLEAN /\ s.up \in BOOLEAN
      BY <1>2
    <2>5. QED
      BY <2>1, <2>2, <2>3, <2>4 DEF Typed
  <1>7. Queues(s) /\ Names(s)
    BY <1>4, <1>5 DEF Queues, Names, Made
  <1>8. Apart(s)
    BY <1>4, <1>5 DEF Apart, Pointing
  <1>9. InOrder(s)
    BY <1>4 DEF InOrder
  <1>10. Agree(s)
    BY <1>2, <1>4, <1>5 DEF Agree
  <1>11. Good(s)
    BY <1>6, <1>7, <1>8, <1>9, <1>10 DEF Good, Base
  <1>12. use \in Use /\ open \subseteq Name
    BY CmdAssumption DEF Init
  <1>13. Once(s, freed, closed)
    <2>1. freed = [x \in Name |-> 0] /\ closed = [x \in Name |-> 0]
      BY DEF Init
    <2>2. FreedOnce(s, freed)
      BY <2>1, <1>2, <1>4 DEF FreedOnce
    <2>3. \A b \in Buf : Held(s, closed, b, s.mirror[b].sndfile)
      BY <1>2 DEF Held, Made, EmptyBuf
    <2>4. ClosedOnce(s, closed)
      BY <2>1, <2>3 DEF ClosedOnce
    <2>5. QED
      BY <2>2, <2>4, <1>4 DEF Once, Unanswered
  <1>14. QED
    BY <1>1, <1>11, <1>12, <1>13 DEF Inv

LEMMA NextInv == Inv /\ [Next]_vars => Inv'
  <1> SUFFICES ASSUME Inv, [Next]_vars PROVE Inv'
    OBVIOUS
  <1>1. PICK s : s = State
    OBVIOUS
  <1>2. PICK t : t = State'
    OBVIOUS
  <1>3. use \in Use /\ open \subseteq Name /\ Good(s) /\ Base(s) /\ Once(s, freed, closed)
    BY <1>1 DEF Inv, Good
  <1>4. use' = use
    BY DEF Next, vars
  <1>5. Good(t) /\ open' \subseteq Name /\ Once(t, freed', closed')
    <2>1. CASE CallSequencedCommand
      <3>1. PICK r : Received(s, t, r)
        BY <2>1, <1>1, <1>2, <1>3, CallSequencedCommandStep
      <3>2. open' = open /\ freed' = freed /\ closed' = closed
        BY <2>1 DEF CallSequencedCommand, fileVars
      <3>3. Once(t, freed, closed)
        BY <3>1, <1>3, ReceivedOnce
      <3>4. QED
        BY <3>1, <3>2, <3>3, <1>3, StepsGood
    <2>2. CASE CallStage2
      <3>1. /\ \E c, o : /\ Staged2(s, t, c, o)
                         /\ closed' = [x \in Name |-> closed[x] + Times(o.shut, x)]
            /\ open' \subseteq Name
        BY <2>2, <1>1, <1>2, <1>3, CallStage2Step
      <3>2. PICK c, o : /\ Staged2(s, t, c, o)
                        /\ closed' = [x \in Name |-> closed[x] + Times(o.shut, x)]
        BY <3>1
      <3>3. s.up /\ freed' = freed
        BY <2>2, <1>1 DEF CallStage2, State
      <3>4. PICK f, k, n : f = freed /\ k = closed /\ n = closed'
        OBVIOUS
      <3>5. Once(t, f, n)
        <4>1. Once(s, f, k) /\ n = [x \in Name |-> k[x] + Times(o.shut, x)]
          BY <3>2, <3>4, <1>3
        <4>2. QED
          BY <4>1, <3>2, <3>3, <1>3, Staged2Once
      <3>6. QED
        BY <3>1, <3>2, <3>3, <3>4, <3>5, <1>3, StepsGood
    <2>3. CASE CallStage4
      <3>1. PICK c : /\ Staged4(s, t, c)
                     /\ freed' = [x \in Name |-> freed[x] + Times(SeqIf(Old(s, c)), x)]
        BY <2>3, <1>1, <1>2, <1>3, CallStage4Step
      <3>2. open' = open /\ closed' = closed /\ s.up
        BY <2>3, <1>1 DEF CallStage4, fileVars, State
      <3>3. PICK f, k, n : f = freed /\ k = closed /\ n = freed'
        OBVIOUS
      <3>4. Once(t, n, k)
        <4>1. Once(s, f, k) /\ n = [x \in Name |-> f[x] + Times(SeqIf(Old(s, c)), x)]
          BY <3>1, <3>3, <1>3
        <4>2. QED
          BY <4>1, <3>1, <3>2, <1>3, Staged4Once
      <3>5. QED
        BY <3>1, <3>2, <3>3, <3>4, <1>3, StepsGood
    <2>4. CASE CallStage3
      <3>1. Good(t) /\ Once(t, freed, closed)
        BY <2>4, <1>1, <1>2, <1>3, CallStage3Step
      <3>2. open' = open /\ freed' = freed /\ closed' = closed
        BY <2>4 DEF CallStage3, fileVars
      <3>3. QED
        BY <3>1, <3>2, <1>3
    <2>5. CASE FreeSequencedCommand
      <3>1. Dropped(s, t)
        BY <2>5, <1>1, <1>2, <1>3, FreeSequencedCommandStep
      <3>2. open' = open /\ freed' = freed /\ closed' = closed
        BY <2>5 DEF FreeSequencedCommand, fileVars
      <3>3. Once(t, freed, closed)
        BY <3>1, <1>3, DroppedOnce
      <3>4. QED
        BY <3>1, <3>2, <3>3, <1>3, StepsGood
    <2>6. CASE World_Cleanup
      <3>1. Cleaned(s, t) /\ open' \subseteq open /\ Once(t, freed', closed')
        BY <2>6, <1>1, <1>2, <1>3, World_CleanupStep
      <3>2. QED
        BY <3>1, <1>3, StepsGood
    <2>7. CASE UNCHANGED vars
      <3>1. t = s
        BY <2>7, <1>1, <1>2 DEF vars, State
      <3>2. open' = open /\ freed' = freed /\ closed' = closed
        BY <2>7 DEF vars, fileVars
      <3>3. QED
        BY <3>1, <3>2, <1>3
    <2>8. QED
      BY <2>1, <2>2, <2>3, <2>4, <2>5, <2>6, <2>7 DEF Next, NRT, RT
  <1>6. QED
    BY <1>2, <1>3, <1>4, <1>5 DEF Inv

\* What the introduction describes holds all the time: what a command will
\* free is apart from what is in use, the commands are in order, and the last
\* message for a buffer brings what the NRT thread has for it.
THEOREM Invariance == Spec => []Inv
  BY InitInv, NextInv, PTL DEF Spec

LEMMA InvGood ==
    ASSUME Inv, NEW s, s = State
    PROVE  Good(s) /\ Fields(s, mirror, snd, cmds, toNRT, toRT, live, lost, noSamples, up)
  BY DEF Inv, Fields, State

\* Buffers, commands and FIFOs hold what they should, whatever the number of
\* buffers and commands (CallNextStage, DoMirror and World_Cleanup).
THEOREM TypeCorrect == Spec => []TypeOK
  <1>1. ASSUME Inv PROVE TypeOK
    <2>1. PICK s : s = State
      OBVIOUS
    <2>2. Base(s) /\ Fields(s, mirror, snd, cmds, toNRT, toRT, live, lost, noSamples, up)
      BY <1>1, <2>1, InvGood DEF Good
    <2>3. /\ mirror \in [Buf -> SndBuf] /\ snd \in [Buf -> SndBuf] /\ Len(cmds) <= MaxCmds
          /\ cmds \in Seq(CmdRec) /\ toNRT \in Seq(Nat) /\ toRT \in Seq(Msg)
          /\ live \subseteq Name
      BY <2>2 DEF Base, Typed, Fields
    <2>4. DOMAIN cmds = Cmds(s) /\ DOMAIN toNRT = ToNRT(s) /\ DOMAIN toRT = ToRT(s)
      BY <2>2, <2>3 DEF Cmds, ToNRT, ToRT, Fields
    <2>5. \A c \in Cmd : cmds[c].mNextStage \in 2 .. 4 /\ cmds[c].mSndBuf \in SndBuf
      BY <2>2, <2>4, CmdType DEF Cmd, Base, Fields
    <2>6. \A i \in DOMAIN toNRT : toNRT[i] \in Cmd /\ cmds[toNRT[i]].mNextStage \in {2, 4}
      BY <2>2, <2>4 DEF Base, Queues, Stage, Fields, Cmd
    <2>7. \A i \in DOMAIN toRT :
             toRT[i].cmd \in Cmd /\ (toRT[i].delete \/ cmds[toRT[i].cmd].mNextStage = 3)
      BY <2>2, <2>4 DEF Base, Queues, Stage, Fields, Cmd, Going
    <2>8. open \subseteq Name /\ freed \in [Name -> Nat] /\ closed \in [Name -> Nat]
      BY <1>1 DEF Inv, Once, FreedOnce, ClosedOnce
    <2>9. QED
      BY <2>3, <2>5, <2>6, <2>7, <2>8 DEF TypeOK
  <1>2. QED
    BY <1>1, Invariance, PTL

\* Neither thread's copy of a buffer points to memory that stage 4 of some
\* command has freed, in whatever order the stages of any number of commands
\* for the same buffer meet, and whichever of them a full FIFO loses.
THEOREM BuffersNeverDangle == Spec => []NeverDangling
  <1>1. ASSUME Inv PROVE NeverDangling
    <2>1. PICK s : s = State
      OBVIOUS
    <2>2. Good(s) /\ Fields(s, mirror, snd, cmds, toNRT, toRT, live, lost, noSamples, up)
      BY <1>1, <2>1, InvGood
    <2>3. up /\ ~noSamples => Pointing(s)
      BY <2>2 DEF Good, Apart, Fields
    <2>4. QED
      BY <2>2, <2>3 DEF NeverDangling, Pointing, Fields
  <1>2. QED
    BY <1>1, Invariance, PTL

\* No memory is freed twice, by stage 4 of two commands or by one and by
\* World_Cleanup, and no command closes a sound file that another one closed,
\* whatever the order of the stages and whichever commands are lost.
THEOREM NothingReleasedTwice == Spec => []ReleasedOnce
  <1>1. ASSUME Inv PROVE ReleasedOnce
    <2>1. PICK s : s = State
      OBVIOUS
    <2>2. FreedOnce(s, freed) /\ ClosedOnce(s, closed) /\ s.noSamples = noSamples /\ s.up = up
      BY <1>1, <2>1 DEF Inv, Once, State
    <2>3. QED
      BY <2>2 DEF ReleasedOnce, FreedOnce, ClosedOnce
  <1>2. QED
    BY <1>1, Invariance, PTL

\* A /sync that was answered has overtaken no command received before it: if
\* none was lost, all of them have been answered.
THEOREM SyncOvertakesNothing == Spec => []SyncedIsSynced
  <1>1. ASSUME Inv PROVE SyncedIsSynced
    <2>1. PICK s : s = State
      OBVIOUS
    <2>2. Good(s) /\ Fields(s, mirror, snd, cmds, toNRT, toRT, live, lost, noSamples, up)
      BY <1>1, <2>1, InvGood
    <2> SUFFICES ASSUME ~lost, NEW c \in Cmd, cmds[c].reply = "/done", NEW d \in 1 .. c - 1
                 PROVE  cmds[d].reply # "none"
      BY DEF SyncedIsSynced
    <2>3. \A i, j \in Cmds(s) : j < i /\ s.cmds[i].reply = "/done" => s.cmds[j].reply # "none"
      BY <2>2 DEF Good, InOrder, Fields
    <2>4. cmds \in Seq(CmdRec)
      BY <2>2 DEF Good, Base, Typed, Fields
    <2>5. c \in Cmds(s) /\ d \in Cmds(s) /\ d < c
      BY <2>2, <2>4 DEF Cmds, Fields, Cmd
    <2>6. QED
      BY <2>2, <2>3, <2>5 DEF Fields
  <1>2. QED
    BY <1>1, Invariance, PTL

\* When nothing is under way and nothing was lost, both threads have the same
\* memory for every buffer, all memory that is allocated is some buffer's, and
\* every command was answered.
THEOREM AllSettled == Spec => []Settled
  <1>1. ASSUME Inv PROVE Settled
    <2>1. PICK s : s = State
      OBVIOUS
    <2>2. Good(s) /\ Fields(s, mirror, snd, cmds, toNRT, toRT, live, lost, noSamples, up)
      BY <1>1, <2>1, InvGood
    <2> SUFFICES ASSUME up /\ ~lost /\ toNRT = <<>> /\ toRT = <<>>
                 PROVE  /\ \A b \in Buf : mirror[b].data = snd[b].data
                        /\ ~noSamples => live = {snd[b].data : b \in Buf} \ {Nothing}
                        /\ \A c \in Cmd : cmds[c].reply # "none"
      BY DEF Settled
    <2>3. ToNRT(s) = {} /\ ToRT(s) = {} /\ s.up /\ ~s.lost
      BY <2>2 DEF ToNRT, ToRT, Fields
    <2>4. Base(s) /\ Apart(s) /\ InOrder(s) /\ Agree(s)
      BY <2>2 DEF Good
    <2>5. ASSUME NEW b \in Buf PROVE mirror[b].data = snd[b].data
      <3>1. LastFor(s, 0, b)
        BY <2>3 DEF LastFor
      <3>2. s.snd[b].data = s.mirror[b].data
        BY <2>3, <2>4, <3>1 DEF Agree
      <3>3. QED
        BY <2>2, <3>2 DEF Fields
    <2>6. ASSUME NEW c \in Cmds(s) PROVE s.cmds[c].reply # "none"
      <3>1. Waits(s, c)
        BY <2>3, <2>4 DEF InOrder
      <3>2. Stage(s, c) \in 2 .. 4
        BY <2>4, CmdType DEF Stage, Base
      <3>3. Stage(s, c) = 2 \/ Stage(s, c) = 3 \/ Stage(s, c) = 4
        BY <3>2
      <3>4. QED
        BY <2>3, <3>1, <3>3 DEF Waits
    <2>7. ASSUME ~noSamples PROVE live = {snd[b].data : b \in Buf} \ {Nothing}
      <3>1. Pointing(s) /\ ~s.noSamples
        BY <2>2, <2>3, <2>4, <2>7 DEF Apart, Fields
      <3>2. \A b \in Buf : snd[b].data \in live \cup {Nothing}
        BY <2>2, <3>1 DEF Pointing, Fields
      <3>3. \A x \in live : \/ \E b \in Buf : mirror[b].data = x
                            \/ \E c \in Cmds(s) : Old(s, c) = x /\ s.cmds[c].reply = "none"
        BY <2>2, <2>3, <2>4, <3>1 DEF Agree, Fields
      <3>4. \A x \in live : \E b \in Buf : snd[b].data = x
        BY <2>5, <2>6, <3>3
      <3>5. Nothing \notin live
        BY <2>2, <2>4 DEF Base, Typed, Fields, Name, Nothing
      <3>6. QED
        BY <3>2, <3>4, <3>5
    <2>8. \A c \in Cmd : cmds[c].reply # "none"
      <3>1. cmds \in Seq(CmdRec)
        BY <2>2, <2>4 DEF Base, Typed, Fields
      <3>2. Cmd = Cmds(s)
        BY <2>2, <3>1 DEF Cmd, Cmds, Fields
      <3>3. QED
        BY <2>2, <2>6, <3>2 DEF Fields
    <2>9. QED
      BY <2>5, <2>7, <2>8
  <1>2. QED
    BY <1>1, Invariance, PTL
=============================================================================
