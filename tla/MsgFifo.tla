------------------------------ MODULE MsgFifo ------------------------------
(***************************************************************************)
(* The lock-free ring MsgFifo<MsgType, N> of common/MsgFifo.h, shared by   *)
(* one producer thread, which calls Write and Free, and one consumer       *)
(* thread, which calls Perform.  scsynth has three of them (EngineFifo):   *)
(* mToEngine (NRT thread to audio callback), mOscPacketsToEngine (network  *)
(* threads under mDriverLock to audio callback) and mFromEngine (audio     *)
(* callback to NRT thread).                                                *)
(*                                                                         *)
(* One action is one access to shared memory: a load of a head that the    *)
(* other thread stores, an access to a slot of mItems, or a store of a     *)
(* head.  Loads and stores are sequentially consistent here, see the       *)
(* README for what that leaves out.                                        *)
(***************************************************************************)
EXTENDS Naturals, Sequences

CONSTANTS N,          \* the slots of the ring; one of them is never used
          Msg,        \* the messages that are sent
          Moved       \* a message without payload: mData = mFreeFunc = nullptr

ASSUME NAssumption == N \in Nat /\ N >= 2

ASSUME MsgAssumption == Moved \notin Msg

VARIABLES mReadHead, mWriteHead, mFreeHead,
          mItems,
          wpc,        \* where the producer is: in Write, in Free or in neither
          wmsg,       \* the argument of the call of Write under way
          wret,       \* what the last call of Write returned
          rpc         \* where the consumer is in Perform

heads == <<mReadHead, mWriteHead, mFreeHead>>
vars == <<mReadHead, mWriteHead, mFreeHead, mItems, wpc, wmsg, wret, rpc>>

\* (inPos + 1) & (N - 1), for N a power of two and inPos in 0 .. N - 1.
NextPos(inPos) == IF inPos + 1 = N THEN 0 ELSE inPos + 1

Slot == 0 .. N - 1
MsgItem == Msg \cup {Moved}

Init ==
    /\ mReadHead = 0 /\ mWriteHead = 0 /\ mFreeHead = 0
    /\ mItems = [i \in Slot |-> Moved]
    /\ wpc = "idle" /\ wmsg = Moved /\ wret = TRUE
    /\ rpc = "idle"

-----------------------------------------------------------------------------
(* Write.  Both heads it tests are stored by the producer itself.          *)

\* A slip: testing the head up to which the consumer has read.
IsFullAgainstRead == NextPos(mWriteHead) = mReadHead

IsFull == NextPos(mWriteHead) = mFreeHead

WriteBegin(data) ==
    /\ wpc = "idle"
    /\ ~IsFull
    /\ wpc' = "fill" /\ wmsg' = data
    /\ UNCHANGED <<heads, mItems, wret, rpc>>

WriteFull ==
    /\ wpc = "idle"
    /\ IsFull
    /\ wret' = FALSE
    /\ UNCHANGED <<heads, mItems, wpc, wmsg, rpc>>

WriteItem ==
    /\ wpc = "fill"
    /\ mItems' = [mItems EXCEPT ![NextPos(mWriteHead)] = wmsg]
    /\ wpc' = "publish"
    /\ UNCHANGED <<heads, wmsg, wret, rpc>>

WritePublish ==
    /\ wpc = "publish"
    /\ mWriteHead' = NextPos(mWriteHead)
    /\ wpc' = "idle" /\ wret' = TRUE
    /\ UNCHANGED <<mReadHead, mFreeHead, mItems, wmsg, rpc>>

-----------------------------------------------------------------------------
(* Free.  NeedsFree loads mReadHead, which the consumer stores.            *)

NeedsFree == mFreeHead # mReadHead

FreeBegin ==
    /\ wpc = "idle"
    /\ NeedsFree
    /\ wpc' = "free"
    /\ UNCHANGED <<heads, mItems, wmsg, wret, rpc>>

\* mItems[next].Free(): the payload is released.
FreeItem ==
    /\ wpc = "free"
    /\ mItems' = [mItems EXCEPT ![NextPos(mFreeHead)] = Moved]
    /\ wpc' = "freed"
    /\ UNCHANGED <<heads, wmsg, wret, rpc>>

FreeAdvance ==
    /\ wpc = "freed"
    /\ mFreeHead' = NextPos(mFreeHead)
    /\ wpc' = "idle"
    /\ UNCHANGED <<mReadHead, mWriteHead, mItems, wmsg, wret, rpc>>

-----------------------------------------------------------------------------
(* Perform.  HasData loads mWriteHead, which the producer stores.          *)

\* A slip: the last message is left unread.
HasDataOffByOne == NextPos(mReadHead) # mWriteHead

HasData == mReadHead # mWriteHead

PerformBegin ==
    /\ rpc = "idle"
    /\ HasData
    /\ rpc' = "run"
    /\ UNCHANGED <<heads, mItems, wpc, wmsg, wret>>

\* mItems[next].Perform(): it may give the payload of the item away.
PerformItem ==
    /\ rpc = "run"
    /\ \E m \in {mItems[NextPos(mReadHead)], Moved} :
          mItems' = [mItems EXCEPT ![NextPos(mReadHead)] = m]
    /\ rpc' = "ran"
    /\ UNCHANGED <<heads, wpc, wmsg, wret>>

\* A slip: catching up with the writer after one message.
PerformAdvanceToWrite ==
    /\ rpc = "ran"
    /\ mReadHead' = mWriteHead
    /\ rpc' = "idle"
    /\ UNCHANGED <<mWriteHead, mFreeHead, mItems, wpc, wmsg, wret>>

PerformAdvance ==
    /\ rpc = "ran"
    /\ mReadHead' = NextPos(mReadHead)
    /\ rpc' = "idle"
    /\ UNCHANGED <<mWriteHead, mFreeHead, mItems, wpc, wmsg, wret>>

-----------------------------------------------------------------------------
Producer ==
    \/ \E data \in Msg : WriteBegin(data)
    \/ WriteFull \/ WriteItem \/ WritePublish
    \/ FreeBegin \/ FreeItem \/ FreeAdvance

Consumer == PerformBegin \/ PerformItem \/ PerformAdvance

Next == Producer \/ Consumer

Spec == Init /\ [][Next]_vars

\* The consumer thread keeps calling Perform.
FairSpec == Spec /\ WF_vars(Consumer)

-----------------------------------------------------------------------------
\* How many times NextPos leads from a to b, and what i times NextPos gives.
Dist(a, b) == IF a <= b THEN b - a ELSE b + N - a
Pos(a, i) == IF a + i < N THEN a + i ELSE a + i - N

\* The heads as the abstract queue sees them: a message changes sides when
\* its slot is accessed, before the head that tells the other thread moves.
ReadHead == IF rpc = "ran" THEN NextPos(mReadHead) ELSE mReadHead
FreeHead == IF wpc = "freed" THEN NextPos(mFreeHead) ELSE mFreeHead

\* The messages of the slots after a, up to and including b.
Between(a, b) == [i \in 1 .. Dist(a, b) |-> mItems[Pos(a, i)]]

Queue == INSTANCE EngineQueue
            WITH pending <- Between(ReadHead, mWriteHead),
                 spent <- Between(FreeHead, ReadHead),
                 accepted <- wret,
                 Capacity <- N - 1

-----------------------------------------------------------------------------
(* Type correctness of the ring's state.                                   *)
TypeOK ==
    /\ mReadHead \in Slot /\ mWriteHead \in Slot /\ mFreeHead \in Slot
    /\ mItems \in [Slot -> MsgItem]
    /\ wpc \in {"idle", "fill", "publish", "free", "freed"}
    /\ wmsg \in MsgItem
    /\ wret \in BOOLEAN
    /\ rpc \in {"idle", "run", "ran"}

(* The slot the producer is in the middle of filling (Write) or freeing    *)
(* (Free) is never the one the consumer is performing, nor one that still  *)
(* holds a message on its way: mItems itself has no lock.                  *)
SlotExclusive ==
    /\ wpc \in {"fill", "publish"} =>
          \A i \in 1 .. Dist(mFreeHead, mWriteHead) :
             Pos(mFreeHead, i) # NextPos(mWriteHead)
    /\ wpc \in {"free", "freed"} =>
          \A i \in 1 .. Dist(mReadHead, mWriteHead) :
             Pos(mReadHead, i) # NextPos(mFreeHead)

(* The heads keep their order around the ring: a message is freed only     *)
(* after it was performed, and performed only after it was published; an   *)
(* operation under way has its slot to work on.                            *)
HeadOrder ==
    /\ Dist(mFreeHead, mReadHead) + Dist(mReadHead, mWriteHead) <= N - 1
    /\ rpc # "idle" => HasData
    /\ wpc \in {"free", "freed"} => NeedsFree
    /\ wpc \in {"fill", "publish"} =>
          Dist(mFreeHead, mReadHead) + Dist(mReadHead, mWriteHead) < N - 1

(* The message that Write has put into its slot is still there when it is  *)
(* published: nobody else touches that slot.                               *)
Published ==
    /\ wpc \in {"fill", "publish"} => wmsg \in Msg
    /\ wpc = "publish" => mItems[NextPos(mWriteHead)] = wmsg

(* The ring implements the queue: every message sent is performed exactly  *)
(* once and in order, reclaimed exactly once and only after that, and      *)
(* Write returns false exactly when N - 1 messages are not yet reclaimed.  *)
Implements == Queue!Spec

(* As long as the consumer runs, it performs every message sent.           *)
Drains == Queue!FairSpec
=============================================================================
