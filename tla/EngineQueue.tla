---------------------------- MODULE EngineQueue ----------------------------
(***************************************************************************)
(* What an EngineFifo promises to the two threads that share it.           *)
(*                                                                         *)
(* The producer hands over messages; the consumer performs each of them    *)
(* once, in the order sent; the producer later reclaims each performed     *)
(* message once, in the same order.  At most Capacity messages are         *)
(* anywhere between Send and Reclaim: a Send that finds no room reports    *)
(* false and changes nothing.  Performing a message may give its payload   *)
(* away (Perform_ToEngine_Msg clears mData and mFreeFunc of a packet that  *)
(* it scheduled); such a message is reclaimed as Moved.                    *)
(***************************************************************************)
EXTENDS Naturals, Sequences

CONSTANTS Msg,        \* the messages that are sent
          Moved,      \* a message whose payload was given away
          Capacity    \* how many messages the queue holds

VARIABLES pending,    \* sent, not yet performed
          spent,      \* performed, not yet reclaimed
          accepted    \* what the last call of Send returned

qvars == <<pending, spent, accepted>>

Init == pending = <<>> /\ spent = <<>> /\ accepted = TRUE

Room == Len(pending) + Len(spent) < Capacity

Send(m) ==
    /\ Room
    /\ pending' = Append(pending, m)
    /\ accepted' = TRUE
    /\ UNCHANGED spent

Refuse ==
    /\ ~Room
    /\ accepted' = FALSE
    /\ UNCHANGED <<pending, spent>>

Perform ==
    /\ pending # <<>>
    /\ \E m \in {Head(pending), Moved} : spent' = Append(spent, m)
    /\ pending' = Tail(pending)
    /\ UNCHANGED accepted

Reclaim ==
    /\ spent # <<>>
    /\ spent' = Tail(spent)
    /\ UNCHANGED <<pending, accepted>>

Next == (\E m \in Msg : Send(m)) \/ Refuse \/ Perform \/ Reclaim

Spec == Init /\ [][Next]_qvars

FairSpec == Spec /\ WF_qvars(Perform)
=============================================================================
