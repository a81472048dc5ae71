----------------------------- MODULE AudioSync -----------------------------
(***************************************************************************)
(* How the audio callback wakes scsynth's non-real-time (NRT) thread, and  *)
(* how the two are stopped.                                                *)
(*                                                                         *)
(* The callback leaves messages in five FIFOs and ends with                *)
(* SC_SyncCondition::Signal, which takes no lock: it increments `write`    *)
(* and notifies a condition variable.  SC_AudioDriver::RunThread loops on  *)
(* SC_SyncCondition::WaitNext and then performs the five FIFOs in a fixed  *)
(* order under mNRTLock, which plugin threads take as well.                *)
(* World_Cleanup stops the driver and deletes it; the destructor clears    *)
(* mRunThreadFlag, signals once and joins the thread.                      *)
(*                                                                         *)
(* A FIFO is reduced to the number of messages it holds (module MsgFifo    *)
(* has its details), and the counters read and write of the condition to   *)
(* `ahead`, whether they differ: the code only compares them.              *)
(***************************************************************************)
EXTENDS Naturals, Sequences

CONSTANTS
    Capacity,      \* the messages a FIFO holds before Write refuses one
    MayStop        \* whether World_Cleanup can be called

VARIABLES
    ahead,         \* SC_SyncCondition: read # write
    nrt,           \* where RunThread is
    pass,          \* the FIFO it performs, an index of Fifos
    nrtLock,       \* who holds mNRTLock: "none", "nrt" or "plugin"
    held,          \* per FIFO, the messages written and not performed
    rt,            \* where the audio callback is
    quiet,         \* the clients and the synths have nothing more to say
    main,          \* where World_Cleanup is
    mRunThreadFlag

vars == <<ahead, nrt, pass, nrtLock, held, rt, quiet, main, mRunThreadFlag>>

\* The FIFOs in the order in which RunThread performs them.
Fifos == <<"mTriggers", "mNodeMsgs", "mNodeEnds", "mDeleteGraphDefs", "mFromEngine">>
Fifo == {Fifos[i] : i \in DOMAIN Fifos}

\* Set up: RunThread is started before the driver runs its first callback.
Init ==
    /\ ahead = FALSE
    /\ nrt = "loop"
    /\ pass = 1
    /\ nrtLock = "none"
    /\ held = [f \in Fifo |-> 0]
    /\ rt = "idle"
    /\ quiet = FALSE
    /\ main = "running"
    /\ mRunThreadFlag = TRUE
-----------------------------------------------------------------------------
(***************************************************************************)
(* The NRT thread.                                                         *)
(***************************************************************************)
\* while (mRunThreadFlag)
RunThread_Loop ==
    /\ nrt = "loop"
    /\ nrt' = IF mRunThreadFlag THEN "enter" ELSE "done"
    /\ UNCHANGED <<ahead, pass, nrtLock, held, rt, quiet, main, mRunThreadFlag>>

\* WaitNext: read = write.
WaitNext_Enter ==
    /\ nrt = "enter"
    /\ ahead' = FALSE
    /\ nrt' = "test"
    /\ UNCHANGED <<pass, nrtLock, held, rt, quiet, main, mRunThreadFlag>>

\* The first test of read == write.  The counters are plain integers that
\* another thread writes, so the compiler may reuse the value just assigned
\* and find them equal whatever Signal did meanwhile.
WaitNext_Test ==
    /\ nrt = "test"
    /\ \/ ahead /\ nrt' = "ready"
       \/ nrt' = "towait"
    /\ UNCHANGED <<ahead, pass, nrtLock, held, rt, quiet, main, mRunThreadFlag>>

\* The thread is on the condition variable from here on, and not before.
WaitNext_Wait ==
    /\ nrt = "towait"
    /\ nrt' = "blocked"
    /\ UNCHANGED <<ahead, pass, nrtLock, held, rt, quiet, main, mRunThreadFlag>>

\* A condition variable may wake its waiter without a notification.
WaitNext_Spurious ==
    /\ nrt = "blocked"
    /\ nrt' = "woken"
    /\ UNCHANGED <<ahead, pass, nrtLock, held, rt, quiet, main, mRunThreadFlag>>

WaitNext_Retest ==
    /\ nrt = "woken"
    /\ nrt' = IF ahead THEN "ready" ELSE "towait"
    /\ UNCHANGED <<ahead, pass, nrtLock, held, rt, quiet, main, mRunThreadFlag>>

RunThread_Lock ==
    /\ nrt = "ready"
    /\ nrtLock = "none"
    /\ nrtLock' = "nrt"
    /\ nrt' = "perform"
    /\ pass' = 1
    /\ UNCHANGED <<ahead, held, rt, quiet, main, mRunThreadFlag>>

\* MsgFifo::Perform: one turn of its loop, or the test that ends it.
RunThread_Perform ==
    /\ nrt = "perform"
    /\ pass \in DOMAIN Fifos
    /\ LET f == Fifos[pass]
       IN  \/ /\ held[f] > 0
              /\ held' = [held EXCEPT ![f] = @ - 1]
              /\ pass' = pass
           \/ /\ held[f] = 0
              /\ held' = held
              /\ pass' = pass + 1
    /\ UNCHANGED <<ahead, nrt, nrtLock, rt, quiet, main, mRunThreadFlag>>

RunThread_Unlock ==
    /\ nrt = "perform"
    /\ pass \notin DOMAIN Fifos
    /\ nrtLock' = "none"
    /\ nrt' = "loop"
    /\ UNCHANGED <<ahead, pass, held, rt, quiet, main, mRunThreadFlag>>

RunThread ==
    \/ RunThread_Loop \/ WaitNext_Enter \/ WaitNext_Test \/ WaitNext_Wait
    \/ WaitNext_Retest \/ RunThread_Lock \/ RunThread_Perform \/ RunThread_Unlock

\* A plugin's own thread in its NRTLock ... NRTUnlock section (DiskIO).
PluginLock ==
    /\ nrtLock = "none"
    /\ nrtLock' = "plugin"
    /\ UNCHANGED <<ahead, nrt, pass, held, rt, quiet, main, mRunThreadFlag>>

PluginUnlock ==
    /\ nrtLock = "plugin"
    /\ nrtLock' = "none"
    /\ UNCHANGED <<ahead, nrt, pass, held, rt, quiet, main, mRunThreadFlag>>
-----------------------------------------------------------------------------
(***************************************************************************)
(* The audio callback.                                                     *)
(***************************************************************************)
Callback ==
    /\ rt = "idle"
    /\ main = "running"
    /\ rt' = "run"
    /\ UNCHANGED <<ahead, nrt, pass, nrtLock, held, quiet, main, mRunThreadFlag>>

\* A command or a unit writes to a FIFO.  A full FIFO refuses the message,
\* which changes nothing.
Post(f) ==
    /\ rt = "run"
    /\ ~quiet
    /\ held[f] < Capacity
    /\ held' = [held EXCEPT ![f] = @ + 1]
    /\ UNCHANGED <<ahead, nrt, pass, nrtLock, rt, quiet, main, mRunThreadFlag>>

\* A Signal that notifies nobody (slip of Notify).
NotifyNobody == nrt' = nrt

\* Signal, of the callback and of the destructor: ++write, then notify_one.
Increment == ahead' = TRUE
Notify == nrt' = IF nrt = "blocked" THEN "woken" ELSE nrt

Callback_Increment ==
    /\ rt = "run"
    /\ Increment
    /\ rt' = "notify"
    /\ UNCHANGED <<nrt, pass, nrtLock, held, quiet, main, mRunThreadFlag>>

Callback_Notify ==
    /\ rt = "notify"
    /\ Notify
    /\ rt' = "idle"
    /\ UNCHANGED <<ahead, pass, nrtLock, held, quiet, main, mRunThreadFlag>>

Quieten ==
    /\ ~quiet
    /\ quiet' = TRUE
    /\ UNCHANGED <<ahead, nrt, pass, nrtLock, held, rt, main, mRunThreadFlag>>
-----------------------------------------------------------------------------
(***************************************************************************)
(* World_Cleanup, on the main thread.                                      *)
(***************************************************************************)
\* Stop returns when no callback is running and none will.
Driver_Stop ==
    /\ MayStop
    /\ main = "running"
    /\ rt = "idle"
    /\ main' = "stopped"
    /\ UNCHANGED <<ahead, nrt, pass, nrtLock, held, rt, quiet, mRunThreadFlag>>

\* Group_DeleteAll tells the clients of every node that ends.
DeleteNode ==
    /\ main = "stopped"
    /\ held["mNodeEnds"] < Capacity
    /\ held' = [held EXCEPT !["mNodeEnds"] = @ + 1]
    /\ UNCHANGED <<ahead, nrt, pass, nrtLock, rt, quiet, main, mRunThreadFlag>>

Dtor_ClearFlag ==
    /\ main = "stopped"
    /\ mRunThreadFlag' = FALSE
    /\ main' = "cleared"
    /\ UNCHANGED <<ahead, nrt, pass, nrtLock, held, rt, quiet>>

Dtor_Increment ==
    /\ main = "cleared"
    /\ Increment
    /\ main' = "incremented"
    /\ UNCHANGED <<nrt, pass, nrtLock, held, rt, quiet, mRunThreadFlag>>

Dtor_Notify ==
    /\ main = "incremented"
    /\ Notify
    /\ main' = "joining"
    /\ UNCHANGED <<ahead, pass, nrtLock, held, rt, quiet, mRunThreadFlag>>

Dtor_Join ==
    /\ main = "joining"
    /\ nrt = "done"
    /\ main' = "deleted"
    /\ UNCHANGED <<ahead, nrt, pass, nrtLock, held, rt, quiet, mRunThreadFlag>>

Dtor == Dtor_ClearFlag \/ Dtor_Increment \/ Dtor_Notify \/ Dtor_Join
-----------------------------------------------------------------------------
Next ==
    \/ RunThread \/ WaitNext_Spurious
    \/ PluginLock \/ PluginUnlock
    \/ Callback \/ (\E f \in Fifo : Post(f))
    \/ Callback_Increment \/ Callback_Notify \/ Quieten
    \/ Driver_Stop \/ DeleteNode \/ Dtor

\* The sound card keeps calling, a thread that can run eventually runs, the
\* lock's waiter gets it (SF: a plugin may take it again and again), and a
\* cleanup that began goes on.
Fairness ==
    /\ WF_vars(RunThread)
    /\ SF_vars(RunThread_Lock)
    /\ WF_vars(PluginUnlock)
    /\ WF_vars(Callback)
    /\ WF_vars(Callback_Increment)
    /\ WF_vars(Callback_Notify)
    /\ WF_vars(Dtor)

Spec == Init /\ [][Next]_vars /\ Fairness
-----------------------------------------------------------------------------
\* The FIFOs never hold more than they can (Write refuses what does not
\* fit), and the lock and the program counters stay in range.
TypeOK ==
    /\ ahead \in BOOLEAN
    /\ nrt \in {"loop", "enter", "test", "towait", "blocked", "woken", "ready",
                "perform", "done"}
    /\ pass \in 1 .. Len(Fifos) + 1
    /\ nrtLock \in {"none", "nrt", "plugin"}
    /\ held \in [Fifo -> 0 .. Capacity]
    /\ rt \in {"idle", "run", "notify"}
    /\ quiet \in BOOLEAN
    /\ main \in {"running", "stopped", "cleared", "incremented", "joining", "deleted"}
    /\ mRunThreadFlag \in BOOLEAN

\* Once nobody has anything more to say, everything the callbacks left in the
\* five FIFOs is performed, although Signal can notify before the thread is on
\* the condition variable: the next callback signals again.
QuietDrains == quiet ~> (main # "running" \/ \A f \in Fifo : held[f] = 0)

\* Deleting the driver ends: the destructor's single Signal brings the thread
\* to the flag.  SC_SyncCondition rests on this when it says of its mutex
\* that "there is nothing to mutually exclude".
StopEnds == main = "cleared" ~> main = "deleted"
=============================================================================
