----------------------------- MODULE MCThreads -----------------------------
(***************************************************************************)
(* The three places where threads meet without a lock: the FIFO between    *)
(* two of them (MsgFifo), the waking of scsynth's NRT thread (AudioSync)   *)
(* and the threads that compute a block of supernova (DspQueue).  A        *)
(* behaviour is one of one of them; the others stay as they begin.         *)
(***************************************************************************)
EXTENDS MsgFifo, DspQueue, Bitwise

CONSTANTS Capacity, MayStop,       \* of AudioSync
          Node, Root, None         \* the trees that give the queues of DspQueue

VARIABLES ahead, nrt, pass, nrtLock, held, rt, quiet, main, mRunThreadFlag
VARIABLE which      \* the one that this is about

\* NextPos is the masked increment of the source on this power of two.
ASSUME MaskAssumption == \A i \in Slot : NextPos(i) = (i + 1) & (N - 1)
ASSUME ThreadsAssumption == Capacity \in Nat \ {0} /\ MayStop \in BOOLEAN /\ Helpers \in Nat
-----------------------------------------------------------------------------
(* The queues that DspQueue is given are made of these trees. *)

G == INSTANCE DependencyGraph

Tree(kind, list) ==
    LET parents(n) == {q \in Node \cup {Root} : \E i \in DOMAIN list[q] : list[q][i] = n}
    IN  [kind |-> kind, list |-> list,
         parent |-> [n \in Node \cup {Root} |->
                       IF parents(n) = {} THEN None ELSE CHOOSE q \in parents(n) : TRUE],
         synths |-> [q \in Node \cup {Root} |->
                       Len(SelectSeq(list[q], LAMBDA n : kind[n] = "synth"))]]

\* Nodes 7 and 8 are groups; which of them are parallel, and the children.
Kinds(parallel) ==
    [n \in Node \cup {Root} |->
       IF n \in parallel THEN "pgroup" ELSE IF n \in {7, 8, Root} THEN "group" ELSE "synth"]
Lists(root, n7, n8) ==
    [n \in Node \cup {Root} |-> CASE n = Root -> root [] n = 7 -> n7 [] n = 8 -> n8 [] OTHER -> <<>>]

Trees == {Tree(Kinds({}), Lists(<<>>, <<>>, <<>>)),
          Tree(Kinds({7}), Lists(<<1, 7, 4>>, <<2, 3>>, <<>>)),
          Tree(Kinds({7, 8}), Lists(<<7, 8>>, <<1, 2>>, <<3, 4>>)),
          Tree(Kinds({7}), Lists(<<7, 4>>, <<1, 8>>, <<2, 3>>))}

TreeQueues ==
    {LET q == G!GenerateQueue(t)
     IN  [items |-> q.items, initial |-> q.initial,
          parallel |-> G!HasParallelGroupChildren(t, Root)] : t \in Trees}
-----------------------------------------------------------------------------
S == INSTANCE AudioSync

\* These queues are as run_item takes them to be.
ASSUME QueuesAssumption == GoodQueues

syncVars == <<ahead, nrt, pass, nrtLock, held, rt, quiet, main, mRunThreadFlag>>
allVars == <<which, vars, syncVars, dspVars>>

ThreadsInit ==
    /\ which \in {"fifo", "sync", "dsp"}
    /\ Init /\ S!Init
    /\ DspInit /\ (which # "dsp" => queue.items = <<>>)

FifoNext == which = "fifo" /\ Next /\ UNCHANGED <<which, syncVars, dspVars>>
SyncNext == which = "sync" /\ S!Next /\ UNCHANGED <<which, vars, dspVars>>
TickNext == which = "dsp" /\ DspNext /\ UNCHANGED <<which, vars, syncVars>>

ThreadsNext == FifoNext \/ SyncNext \/ TickNext

\* The fairness of the three, each where it is the one.
Of(name, A) == which = name /\ A

ThreadsFairness ==
    /\ WF_vars(Of("fifo", Consumer))
    /\ WF_syncVars(Of("sync", S!RunThread))
    /\ SF_syncVars(Of("sync", S!RunThread_Lock))
    /\ WF_syncVars(Of("sync", S!PluginUnlock))
    /\ WF_syncVars(Of("sync", S!Callback))
    /\ WF_syncVars(Of("sync", S!Callback_Increment))
    /\ WF_syncVars(Of("sync", S!Callback_Notify))
    /\ WF_syncVars(Of("sync", S!Dtor))
    /\ WF_dspVars(Of("dsp", Master))
    /\ \A h \in Helper : WF_dspVars(Of("dsp", Wake(h) \/ RunItem(h)))

ThreadsSpec == ThreadsInit /\ [][ThreadsNext]_allVars /\ ThreadsFairness
-----------------------------------------------------------------------------
\* SC_SyncCondition: what callbacks left in the FIFOs is performed (AudioSync).
QuietDrains == S!QuietDrains
=============================================================================
