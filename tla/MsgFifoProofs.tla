--------------------------- MODULE MsgFifoProofs ---------------------------
(***************************************************************************)
(* Proofs about the ring, for every number of slots N >= 2 and every set   *)
(* of messages: the heads keep their order, the threads never meet in a    *)
(* slot, and the ring implements the queue.                                *)
(***************************************************************************)
EXTENDS MsgFifo, TLAPS

(* Advancing a head moves it one slot: NextPos stays within the ring, and  *)
(* brings the head one step closer to where the other one is.              *)
LEMMA NextPosLemma ==
    ASSUME NEW a \in Slot, NEW b \in Slot
    PROVE  /\ NextPos(a) \in Slot
           /\ Dist(a, b) \in 0 .. N - 1
           /\ Dist(a, b) = 0 <=> a = b
           /\ a # b => Dist(NextPos(a), b) = Dist(a, b) - 1
           /\ NextPos(b) # a => Dist(a, NextPos(b)) = Dist(a, b) + 1
           /\ NextPos(b) = a <=> Dist(a, b) = N - 1
BY NAssumption, SMT DEF Slot, NextPos, Dist

(* Where i steps of NextPos lead: within the ring, to different slots for  *)
(* different i < N, and never, on the way from a to b, to the slot after b.*)
LEMMA PosLemma ==
    ASSUME NEW a \in Slot, NEW b \in Slot
    PROVE  /\ NextPos(a) = Pos(a, 1)
           /\ \A i \in 1 .. N - 1 : Pos(a, i) \in Slot
           /\ \A i \in 1 .. N - 2 : Pos(NextPos(a), i) = Pos(a, i + 1)
           /\ \A i \in 1 .. Dist(a, b) : Pos(a, i) # NextPos(b)
           /\ NextPos(b) # a => Pos(a, Dist(a, b) + 1) = NextPos(b)
BY NAssumption, SMT DEF Slot, NextPos, Dist, Pos

(* Going on from b to c passes only slots that were not passed from a to b.*)
LEMMA PosDisjoint ==
    ASSUME NEW a \in Slot, NEW b \in Slot, NEW c \in Slot,
           Dist(a, b) + Dist(b, c) <= N - 1
    PROVE  /\ Dist(a, c) = Dist(a, b) + Dist(b, c)
           /\ \A i \in 1 .. Dist(a, b) : \A j \in 1 .. Dist(b, c) :
                 Pos(a, i) # Pos(b, j)
           /\ \A i \in 1 .. Dist(a, b) : Pos(a, i) # NextPos(c)
           /\ \A j \in 1 .. Dist(b, c) : Pos(b, j) # NextPos(c)
           /\ a # b => \A j \in 1 .. Dist(b, c) : Pos(b, j) # NextPos(a)
BY NAssumption, SMT DEF Slot, NextPos, Dist, Pos

-----------------------------------------------------------------------------
(* The inductive invariant.                                                *)
IInv == TypeOK /\ HeadOrder /\ Published

(* The constructor of the ring establishes the invariant.                  *)
LEMMA InitIInv == Init => IInv
BY NAssumption, SMT DEF Init, IInv, TypeOK, HeadOrder, Published, Slot, MsgItem, Dist,
   HasData, NeedsFree

(* Every access of either thread to the ring preserves the invariant.      *)
LEMMA NextIInv == IInv /\ [Next]_vars => IInv'
<1> SUFFICES ASSUME IInv, [Next]_vars PROVE IInv'
    OBVIOUS
<1> USE NAssumption DEF IInv
<1>h. /\ mReadHead \in Slot /\ mWriteHead \in Slot /\ mFreeHead \in Slot
      /\ NextPos(mReadHead) \in Slot /\ NextPos(mWriteHead) \in Slot
      /\ NextPos(mFreeHead) \in Slot
    BY NextPosLemma DEF TypeOK
<1>1. ASSUME NEW data \in Msg, WriteBegin(data) PROVE IInv'
    <2> USE <1>1 DEF WriteBegin, heads
    <2>1. TypeOK' BY DEF TypeOK, MsgItem
    <2>2. HeadOrder'
        <3>1. Dist(mFreeHead, mWriteHead) # N - 1
            BY <1>h, NextPosLemma DEF IsFull
        <3>2. Dist(mFreeHead, mReadHead) + Dist(mReadHead, mWriteHead) < N - 1
            BY <1>h, <3>1, PosDisjoint, NextPosLemma DEF HeadOrder, Slot
        <3> QED BY <3>2 DEF HeadOrder, HasData, NeedsFree
    <2>3. Published' BY DEF Published
    <2> QED BY <2>1, <2>2, <2>3
<1>2. CASE WriteFull
    BY <1>2 DEF WriteFull, heads, TypeOK, HeadOrder, Published, HasData, NeedsFree
<1>3. CASE WriteItem
    <2> USE <1>3 DEF WriteItem, heads
    <2>1. TypeOK' BY <1>h DEF TypeOK
    <2>2. HeadOrder' BY DEF HeadOrder, HasData, NeedsFree
    <2>3. Published' BY <1>h DEF Published, TypeOK
    <2> QED BY <2>1, <2>2, <2>3
<1>4. CASE WritePublish
    <2> USE <1>4 DEF WritePublish
    <2>1. TypeOK' BY <1>h DEF TypeOK
    <2>2. HeadOrder'
        <3>1. Dist(mReadHead, mWriteHead) < N - 1
            BY <1>h, NextPosLemma DEF HeadOrder
        <3>2. Dist(mReadHead, NextPos(mWriteHead)) = Dist(mReadHead, mWriteHead) + 1
            BY <1>h, <3>1, NextPosLemma
        <3>3. mReadHead # NextPos(mWriteHead)
            BY <1>h, <3>1, NextPosLemma
        <3> QED BY <1>h, <3>2, <3>3, NextPosLemma DEF HeadOrder, HasData, NeedsFree
    <2>3. Published' BY DEF Published
    <2> QED BY <2>1, <2>2, <2>3
<1>5. CASE FreeBegin
    BY <1>5 DEF FreeBegin, heads, TypeOK, HeadOrder, Published, HasData, NeedsFree
<1>6. CASE FreeItem
    <2> USE <1>6 DEF FreeItem, heads
    <2>1. TypeOK' BY <1>h DEF TypeOK, MsgItem
    <2>2. HeadOrder' BY DEF HeadOrder, HasData, NeedsFree
    <2>3. Published' BY DEF Published
    <2> QED BY <2>1, <2>2, <2>3
<1>7. CASE FreeAdvance
    <2> USE <1>7 DEF FreeAdvance
    <2>1. TypeOK' BY <1>h DEF TypeOK
    <2>2. HeadOrder'
        <3>1. Dist(NextPos(mFreeHead), mReadHead) = Dist(mFreeHead, mReadHead) - 1
            BY <1>h, NextPosLemma DEF HeadOrder, NeedsFree
        <3> QED BY <1>h, <3>1, NextPosLemma DEF HeadOrder, HasData, NeedsFree
    <2>3. Published' BY DEF Published
    <2> QED BY <2>1, <2>2, <2>3
<1>8. CASE PerformBegin
    BY <1>8 DEF PerformBegin, heads, TypeOK, HeadOrder, Published, HasData, NeedsFree
<1>9. CASE PerformItem
    <2> USE <1>9 DEF PerformItem, heads
    <2>1. TypeOK' BY <1>h DEF TypeOK, MsgItem
    <2>2. HeadOrder' BY DEF HeadOrder, HasData, NeedsFree
    <2>3. Published'
        <3>1. wpc = "publish" => NextPos(mReadHead) # NextPos(mWriteHead)
            BY <1>h, PosLemma, NextPosLemma DEF HeadOrder, HasData
        <3> QED BY <1>h, <3>1 DEF Published, TypeOK
    <2> QED BY <2>1, <2>2, <2>3
<1>10. CASE PerformAdvance
    <2> USE <1>10 DEF PerformAdvance
    <2>1. TypeOK' BY <1>h DEF TypeOK
    <2>2. HeadOrder'
        <3>0. mReadHead # mWriteHead BY DEF HeadOrder, HasData
        <3>1. Dist(NextPos(mReadHead), mWriteHead) = Dist(mReadHead, mWriteHead) - 1
            BY <1>h, <3>0, NextPosLemma
        <3>2. Dist(mFreeHead, mReadHead) < N - 1
            BY <1>h, <3>0, NextPosLemma DEF HeadOrder
        <3>3. NextPos(mReadHead) # mFreeHead
            BY <1>h, <3>2, NextPosLemma
        <3>4. Dist(mFreeHead, NextPos(mReadHead)) = Dist(mFreeHead, mReadHead) + 1
            BY <1>h, <3>3, NextPosLemma
        <3> QED BY <1>h, <3>1, <3>3, <3>4, NextPosLemma DEF HeadOrder, HasData, NeedsFree
    <2>3. Published' BY DEF Published
    <2> QED BY <2>1, <2>2, <2>3
<1>11. CASE UNCHANGED vars
    BY <1>11 DEF vars, TypeOK, HeadOrder, Published, HasData, NeedsFree
<1> QED BY <1>1, <1>2, <1>3, <1>4, <1>5, <1>6, <1>7, <1>8, <1>9, <1>10, <1>11
       DEF Next, Producer, Consumer

(* The inductive invariant holds throughout.                               *)
THEOREM RingInvariant == Spec => []IInv
<1>1. Init => IInv BY InitIInv
<1>2. IInv /\ [Next]_vars => IInv' BY NextIInv
<1> QED BY <1>1, <1>2, PTL DEF Spec

(* The heads, the slots and the program counters keep their types.         *)
THEOREM TypeCorrect == Spec => []TypeOK
BY RingInvariant, PTL DEF IInv

(* The three heads never overtake one another around the ring, and an      *)
(* operation under way always has a slot to work on.                       *)
THEOREM HeadsInOrder == Spec => []HeadOrder
BY RingInvariant, PTL DEF IInv

(* What Write has put into its slot is what it publishes.                  *)
THEOREM PublishedUnharmed == Spec => []Published
BY RingInvariant, PTL DEF IInv

(* No slot is accessed by both threads: what Write fills holds no message  *)
(* on its way, and what Free frees is not about to be performed.           *)
THEOREM SlotsExclusive == Spec => []SlotExclusive
<1>1. IInv => SlotExclusive
    <2> SUFFICES ASSUME IInv PROVE SlotExclusive
        OBVIOUS
    <2>1. /\ mReadHead \in Slot /\ mWriteHead \in Slot /\ mFreeHead \in Slot
          /\ Dist(mFreeHead, mReadHead) + Dist(mReadHead, mWriteHead) <= N - 1
          /\ wpc \in {"free", "freed"} => mFreeHead # mReadHead
        BY DEF IInv, TypeOK, HeadOrder, NeedsFree
    <2>2. \A i \in 1 .. Dist(mFreeHead, mWriteHead) :
             Pos(mFreeHead, i) # NextPos(mWriteHead)
        BY <2>1, PosLemma
    <2>3. mFreeHead # mReadHead =>
             \A j \in 1 .. Dist(mReadHead, mWriteHead) :
                Pos(mReadHead, j) # NextPos(mFreeHead)
        BY <2>1, PosDisjoint
    <2> QED BY <2>1, <2>2, <2>3 DEF SlotExclusive
<1> QED BY <1>1, RingInvariant, PTL

-----------------------------------------------------------------------------
(* Sequences written as functions, as Between writes them.                 *)
LEMMA SeqAppend ==
    ASSUME NEW n \in Nat, NEW S, NEW s \in [1 .. n -> S], NEW e \in S,
           NEW t \in [1 .. n + 1 -> S],
           \A i \in 1 .. n : t[i] = s[i], t[n + 1] = e
    PROVE  Append(s, e) = t
<1>1. s \in Seq(S) /\ Len(s) = n OBVIOUS
<1>2. Append(s, e) \in Seq(S) /\ Len(Append(s, e)) = n + 1 BY <1>1
<1>3. DOMAIN Append(s, e) = 1 .. n + 1 BY <1>2
<1>4. \A i \in 1 .. n + 1 : Append(s, e)[i] = t[i] BY <1>1
<1> QED BY <1>2, <1>3, <1>4

(* The tail of such a sequence is the same function one place further on.  *)
LEMMA SeqTail ==
    ASSUME NEW n \in Nat, n > 0, NEW S, NEW s \in [1 .. n -> S],
           NEW t \in [1 .. n - 1 -> S],
           \A i \in 1 .. n - 1 : t[i] = s[i + 1]
    PROVE  s # <<>> /\ Head(s) = s[1] /\ Tail(s) = t
<1>1. s \in Seq(S) /\ Len(s) = n OBVIOUS
<1>2. s # <<>> BY <1>1
<1>3. Tail(s) \in Seq(S) /\ Len(Tail(s)) = n - 1 BY <1>1, <1>2
<1>4. DOMAIN Tail(s) = 1 .. n - 1 BY <1>3
<1>5. \A i \in 1 .. n - 1 : Tail(s)[i] = t[i] BY <1>1, <1>2
<1> QED BY <1>2, <1>3, <1>4, <1>5, <1>1

-----------------------------------------------------------------------------
(* What the refinement mapping sees: heads in order, the two sequences     *)
(* sharing no slot with each other or with the one that Write fills.       *)
LEMMA Mapped ==
    ASSUME IInv
    PROVE  /\ ReadHead \in Slot /\ FreeHead \in Slot /\ mWriteHead \in Slot
           /\ Dist(FreeHead, ReadHead) \in Nat /\ Dist(ReadHead, mWriteHead) \in Nat
           /\ Dist(FreeHead, ReadHead) + Dist(ReadHead, mWriteHead) <= N - 1
           /\ wpc = "idle" /\ IsFull =>
                 Dist(FreeHead, ReadHead) + Dist(ReadHead, mWriteHead) = N - 1
           /\ wpc = "publish" =>
                 Dist(FreeHead, ReadHead) + Dist(ReadHead, mWriteHead) < N - 1
           /\ wpc = "free" => FreeHead # ReadHead /\ FreeHead = mFreeHead
           /\ rpc = "run" => ReadHead # mWriteHead /\ ReadHead = mReadHead
<1>1. /\ mReadHead \in Slot /\ mWriteHead \in Slot /\ mFreeHead \in Slot
      /\ NextPos(mReadHead) \in Slot /\ NextPos(mFreeHead) \in Slot
    BY NextPosLemma DEF IInv, TypeOK
<1>2. /\ rpc = "ran" => /\ Dist(NextPos(mReadHead), mWriteHead) = Dist(mReadHead, mWriteHead) - 1
                        /\ Dist(mFreeHead, NextPos(mReadHead)) = Dist(mFreeHead, mReadHead) + 1
    <2>1. rpc = "ran" => mReadHead # mWriteHead /\ Dist(mFreeHead, mReadHead) < N - 1
        BY <1>1, NextPosLemma, NAssumption DEF IInv, HeadOrder, HasData
    <2> QED BY <2>1, <1>1, NextPosLemma
<1>3. wpc \in {"free", "freed"} => mFreeHead # ReadHead
    BY <1>1, <1>2, NextPosLemma, NAssumption DEF IInv, HeadOrder, NeedsFree, ReadHead
<1>4. wpc = "freed" => Dist(NextPos(mFreeHead), ReadHead) = Dist(mFreeHead, ReadHead) - 1
    BY <1>1, <1>3, NextPosLemma DEF ReadHead
<1>5. ReadHead \in Slot /\ FreeHead \in Slot
    BY <1>1 DEF ReadHead, FreeHead
<1>6. Dist(mFreeHead, ReadHead) + Dist(ReadHead, mWriteHead)
         = Dist(mFreeHead, mReadHead) + Dist(mReadHead, mWriteHead)
    BY <1>1, <1>2, NextPosLemma, NAssumption DEF ReadHead
<1>7. Dist(FreeHead, ReadHead) \in Nat /\ Dist(ReadHead, mWriteHead) \in Nat
    BY <1>1, <1>5, NextPosLemma, NAssumption
<1>8. Dist(mFreeHead, ReadHead) \in Nat /\ Dist(mFreeHead, mReadHead) \in Nat
      /\ Dist(mReadHead, mWriteHead) \in Nat
    BY <1>1, <1>5, NextPosLemma, NAssumption
<1>9. Dist(FreeHead, ReadHead) + Dist(ReadHead, mWriteHead) <= N - 1
    BY <1>4, <1>6, <1>7, <1>8, NAssumption DEF FreeHead, IInv, HeadOrder
<1>10. ASSUME wpc = "idle", IsFull
       PROVE  Dist(FreeHead, ReadHead) + Dist(ReadHead, mWriteHead) = N - 1
    <2>1. Dist(mFreeHead, mWriteHead) = N - 1 BY <1>1, <1>10, NextPosLemma DEF IsFull
    <2>2. FreeHead = mFreeHead BY <1>10 DEF FreeHead
    <2> QED BY <1>1, <1>5, <1>9, <2>1, <2>2, PosDisjoint
<1>11. wpc = "publish" =>
          Dist(FreeHead, ReadHead) + Dist(ReadHead, mWriteHead) < N - 1
    BY <1>6, <1>7, <1>8 DEF FreeHead, IInv, HeadOrder
<1>12. /\ wpc = "free" => FreeHead # ReadHead /\ FreeHead = mFreeHead
       /\ rpc = "run" => ReadHead # mWriteHead /\ ReadHead = mReadHead
    BY <1>3 DEF FreeHead, ReadHead, IInv, HeadOrder, HasData
<1> QED BY <1>1, <1>5, <1>7, <1>9, <1>10, <1>11, <1>12

(* A stretch of the ring is a sequence of its slots' contents.             *)
LEMMA BetweenSeq ==
    ASSUME TypeOK, NEW a \in Slot, NEW b \in Slot
    PROVE  /\ Between(a, b) \in [1 .. Dist(a, b) -> MsgItem]
           /\ Len(Between(a, b)) = Dist(a, b)
<1>1. Dist(a, b) \in Nat /\ Dist(a, b) <= N - 1 BY NextPosLemma, NAssumption
<1>2. \A i \in 1 .. Dist(a, b) : Pos(a, i) \in Slot BY <1>1, PosLemma, NAssumption
<1>3. Between(a, b) \in [1 .. Dist(a, b) -> MsgItem] BY <1>2 DEF Between, TypeOK
<1> QED BY <1>1, <1>3

(* Every step of the ring is a step of the queue or none.                  *)
LEMMA StepImplements ==
    ASSUME IInv, IInv', [Next]_vars
    PROVE  [Queue!Next]_(Queue!qvars)
<1> DEFINE P == Between(ReadHead, mWriteHead)
           S == Between(FreeHead, ReadHead)
<1> USE NAssumption
<1>m. /\ ReadHead \in Slot /\ FreeHead \in Slot /\ mWriteHead \in Slot
      /\ Dist(FreeHead, ReadHead) \in Nat /\ Dist(ReadHead, mWriteHead) \in Nat
      /\ Dist(FreeHead, ReadHead) + Dist(ReadHead, mWriteHead) <= N - 1
    BY Mapped
<1>t. TypeOK /\ TypeOK' BY DEF IInv
<1>p. P \in [1 .. Dist(ReadHead, mWriteHead) -> MsgItem] /\ Len(P) = Dist(ReadHead, mWriteHead)
    BY <1>m, <1>t, BetweenSeq
<1>s. S \in [1 .. Dist(FreeHead, ReadHead) -> MsgItem] /\ Len(S) = Dist(FreeHead, ReadHead)
    BY <1>m, <1>t, BetweenSeq
<1>1. ASSUME NEW data \in Msg, WriteBegin(data) PROVE UNCHANGED Queue!qvars
    BY <1>1 DEF WriteBegin, heads, Queue!qvars, Between, ReadHead, FreeHead
<1>2. CASE WriteFull
    <2>1. UNCHANGED <<P, S>> BY <1>2 DEF WriteFull, heads, Between, ReadHead, FreeHead
    <2>2. ~Queue!Room
        BY <1>2, <1>p, <1>s, Mapped DEF WriteFull, Queue!Room
    <2> QED BY <1>2, <2>1, <2>2 DEF WriteFull, Queue!Next, Queue!Refuse
<1>3. CASE WriteItem
    <2>1. /\ \A i \in 1 .. Dist(FreeHead, ReadHead) : Pos(FreeHead, i) # NextPos(mWriteHead)
          /\ \A i \in 1 .. Dist(ReadHead, mWriteHead) : Pos(ReadHead, i) # NextPos(mWriteHead)
        BY <1>m, PosDisjoint
    <2>2. UNCHANGED <<ReadHead, FreeHead, mWriteHead, wret>>
        BY <1>3 DEF WriteItem, heads, ReadHead, FreeHead
    <2>3. \A p \in Slot : p # NextPos(mWriteHead) => mItems'[p] = mItems[p]
        BY <1>3, <1>t DEF WriteItem, TypeOK
    <2>4. /\ \A i \in 1 .. Dist(FreeHead, ReadHead) : Pos(FreeHead, i) \in Slot
          /\ \A i \in 1 .. Dist(ReadHead, mWriteHead) : Pos(ReadHead, i) \in Slot
        BY <1>m, PosLemma
    <2>5. P' = P /\ S' = S
        BY <2>1, <2>2, <2>3, <2>4 DEF Between
    <2> QED BY <2>2, <2>5 DEF Queue!qvars
<1>4. CASE WritePublish
    <2> DEFINE n == Dist(ReadHead, mWriteHead)
    <2>1. /\ ReadHead' = ReadHead /\ FreeHead' = FreeHead /\ mItems' = mItems
          /\ mWriteHead' = NextPos(mWriteHead) /\ wret' = TRUE
        BY <1>4 DEF WritePublish, ReadHead, FreeHead
    <2>2. Queue!Room BY <1>4, <1>p, <1>s, Mapped DEF WritePublish, Queue!Room
    <2>3. n < N - 1 BY <1>4, <1>m, Mapped DEF WritePublish
    <2>4. NextPos(mWriteHead) # ReadHead BY <1>m, <2>3, NextPosLemma
    <2>5. Dist(ReadHead, NextPos(mWriteHead)) = n + 1 BY <1>m, <2>4, NextPosLemma
    <2>6. P' \in [1 .. n + 1 -> MsgItem]
        <3>1. \A i \in 1 .. n + 1 : Pos(ReadHead, i) \in Slot BY <1>m, <2>3, PosLemma
        <3> QED BY <1>t, <2>1, <2>5, <3>1 DEF Between, TypeOK
    <2>7. \A i \in 1 .. n : P'[i] = P[i] BY <2>1, <2>5, <1>m DEF Between
    <2>8. P'[n + 1] = wmsg
        <3>1. P'[n + 1] = mItems[Pos(ReadHead, n + 1)] BY <2>1, <2>5, <1>m DEF Between
        <3>2. Pos(ReadHead, n + 1) = NextPos(mWriteHead) BY <1>m, <2>4, PosLemma
        <3> QED BY <3>1, <3>2, <1>4 DEF WritePublish, IInv, Published
    <2>9. wmsg \in Msg BY <1>4 DEF WritePublish, IInv, Published
    <2>10. P' = Append(P, wmsg)
        BY <1>m, <1>p, <2>6, <2>7, <2>8, <2>9, SeqAppend DEF MsgItem
    <2>11. S' = S BY <2>1 DEF Between
    <2> QED BY <2>1, <2>2, <2>9, <2>10, <2>11 DEF Queue!Next, Queue!Send
<1>5. CASE FreeBegin
    BY <1>5 DEF FreeBegin, heads, Queue!qvars, Between, ReadHead, FreeHead
<1>6. CASE FreeItem
    <2> DEFINE n == Dist(FreeHead, ReadHead)
    <2>1. /\ ReadHead' = ReadHead /\ FreeHead' = NextPos(FreeHead) /\ FreeHead # ReadHead
          /\ mWriteHead' = mWriteHead /\ wret' = wret
          /\ mItems' = [mItems EXCEPT ![NextPos(FreeHead)] = Moved]
        BY <1>6, Mapped DEF FreeItem, heads, ReadHead, FreeHead
    <2>2. Dist(NextPos(FreeHead), ReadHead) = n - 1 /\ n > 0 /\ n <= N - 1
        BY <1>m, <2>1, NextPosLemma
    <2>3. \A j \in 1 .. Dist(ReadHead, mWriteHead) :
             Pos(ReadHead, j) \in Slot /\ Pos(ReadHead, j) # NextPos(FreeHead)
        BY <1>m, <2>1, PosDisjoint, PosLemma
    <2>4. \A i \in 1 .. n - 1 : /\ Pos(NextPos(FreeHead), i) = Pos(FreeHead, i + 1)
                                /\ Pos(FreeHead, i + 1) \in Slot
                                /\ Pos(FreeHead, i + 1) # NextPos(FreeHead)
        <3>1. \A i \in 1 .. n - 1 : i \in 1 .. N - 2 /\ i + 1 \in 1 .. N - 1
            BY <2>2, <1>m
        <3> QED BY <3>1, <1>m, SMT DEF Slot, Pos, NextPos
    <2>5. P' = P BY <1>t, <2>1, <2>3 DEF Between, TypeOK
    <2>6. S' \in [1 .. n - 1 -> MsgItem]
        BY <1>t, <1>m, <2>1, <2>2, NextPosLemma, BetweenSeq, <2>4 DEF Between, TypeOK, MsgItem
    <2>7. \A i \in 1 .. n - 1 : S'[i] = S[i + 1]
        BY <1>t, <1>m, <2>1, <2>2, <2>4 DEF Between, TypeOK
    <2>8. S # <<>> /\ S' = Tail(S) BY <1>m, <1>s, <2>2, <2>6, <2>7, SeqTail
    <2> QED BY <2>1, <2>5, <2>8 DEF Queue!Next, Queue!Reclaim
<1>7. CASE FreeAdvance
    BY <1>7 DEF FreeAdvance, Queue!qvars, Between, ReadHead, FreeHead
<1>8. CASE PerformBegin
    BY <1>8 DEF PerformBegin, heads, Queue!qvars, Between, ReadHead, FreeHead
<1>9. CASE PerformItem
    <2> DEFINE n == Dist(ReadHead, mWriteHead)
               k == Dist(FreeHead, ReadHead)
    <2>1. /\ ReadHead' = NextPos(ReadHead) /\ FreeHead' = FreeHead /\ ReadHead # mWriteHead
          /\ mWriteHead' = mWriteHead /\ wret' = wret
        BY <1>9, Mapped DEF PerformItem, heads, ReadHead, FreeHead
    <2>2. PICK m \in {mItems[NextPos(ReadHead)], Moved} :
             mItems' = [mItems EXCEPT ![NextPos(ReadHead)] = m]
        BY <1>9, Mapped DEF PerformItem
    <2>3. Dist(NextPos(ReadHead), mWriteHead) = n - 1 /\ n > 0 /\ n <= N - 1 /\ k < N - 1
        BY <1>m, <2>1, NextPosLemma
    <2>4. NextPos(ReadHead) # FreeHead /\ Dist(FreeHead, NextPos(ReadHead)) = k + 1
        BY <1>m, <2>3, NextPosLemma
    <2>5. /\ NextPos(ReadHead) \in Slot /\ NextPos(ReadHead) = Pos(ReadHead, 1)
          /\ Pos(FreeHead, k + 1) = NextPos(ReadHead)
        BY <1>m, <2>4, NextPosLemma, PosLemma
    <2>6. \A i \in 1 .. n - 1 : /\ Pos(NextPos(ReadHead), i) = Pos(ReadHead, i + 1)
                                /\ Pos(ReadHead, i + 1) \in Slot
                                /\ Pos(ReadHead, i + 1) # NextPos(ReadHead)
        <3>1. \A i \in 1 .. n - 1 : i \in 1 .. N - 2 /\ i + 1 \in 1 .. N - 1
            BY <2>3, <1>m
        <3> QED BY <3>1, <1>m, SMT DEF Slot, Pos, NextPos
    <2>7. \A i \in 1 .. k : Pos(FreeHead, i) \in Slot /\ Pos(FreeHead, i) # NextPos(ReadHead)
        BY <1>m, PosLemma
    <2>8. P' \in [1 .. n - 1 -> MsgItem] /\ S' \in [1 .. k + 1 -> MsgItem]
        <3>1. \A i \in 1 .. k + 1 : Pos(FreeHead, i) \in Slot BY <1>m, <2>3, PosLemma
        <3> QED BY <1>t, <1>m, <2>1, <2>3, <2>4, <2>6, <3>1 DEF Between, TypeOK
    <2>9. \A i \in 1 .. n - 1 : P'[i] = P[i + 1]
        BY <1>t, <1>m, <2>1, <2>2, <2>3, <2>6 DEF Between, TypeOK
    <2>10. P # <<>> /\ P' = Tail(P) /\ Head(P) = P[1]
        BY <1>m, <1>p, <2>3, <2>8, <2>9, SeqTail
    <2>11. P[1] = mItems[NextPos(ReadHead)] BY <1>m, <2>3, <2>5 DEF Between
    <2>12. m \in MsgItem BY <2>2, <2>5, <1>t DEF TypeOK, MsgItem
    <2>13. \A i \in 1 .. k : S'[i] = S[i]
        BY <1>t, <1>m, <2>1, <2>2, <2>4, <2>7 DEF Between, TypeOK
    <2>14. S'[k + 1] = m
        BY <1>t, <1>m, <2>1, <2>2, <2>4, <2>5 DEF Between, TypeOK
    <2>15. S' = Append(S, m)
        BY <1>m, <1>s, <2>8, <2>12, <2>13, <2>14, SeqAppend
    <2> QED BY <2>1, <2>2, <2>10, <2>11, <2>15 DEF Queue!Next, Queue!Perform
<1>10. CASE PerformAdvance
    BY <1>10 DEF PerformAdvance, Queue!qvars, Between, ReadHead, FreeHead
<1>11. CASE UNCHANGED vars
    BY <1>11 DEF vars, Queue!qvars, Between, ReadHead, FreeHead
<1> QED BY <1>1, <1>2, <1>3, <1>4, <1>5, <1>6, <1>7, <1>8, <1>9, <1>10, <1>11
       DEF Next, Producer, Consumer

(* The lock-free ring implements the queue of its two threads: messages    *)
(* are performed once and in order, reclaimed once and after that, and     *)
(* refused only when N - 1 of them are not reclaimed yet.                  *)
THEOREM RingImplementsQueue == Spec => Implements
<1>1. Init => Queue!Init
    BY NAssumption DEF Init, Queue!Init, Between, Dist, ReadHead, FreeHead
<1>2. IInv /\ IInv' /\ [Next]_vars => [Queue!Next]_(Queue!qvars)
    BY StepImplements
<1> QED BY <1>1, <1>2, RingInvariant, PTL DEF Spec, Implements, Queue!Spec
=============================================================================
