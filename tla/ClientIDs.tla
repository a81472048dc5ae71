----------------------------- MODULE ClientIDs -----------------------------
(***************************************************************************)
(* The registration of clients (NotifyCmd in SC_SequencedCommand.cpp).     *)
(*                                                                         *)
(* A client that sends /notify 1 is sent the server's notifications and    *)
(* gets a number, by which several clients keep their node IDs, buses and  *)
(* buffers apart.  The numbers are a fixed supply: mAvailableClientIDs is  *)
(* a deque of those nobody has, mClientIDdict says who has the others.     *)
(* All of it is done in stage 2, on the NRT thread, one command at a time. *)
(***************************************************************************)
EXTENDS Integers, Sequences, FiniteSets

CONSTANTS
    Address,     \* the reply addresses of clients
    MaxUsers,    \* mMaxUsers, the option maxLogins
    Wish         \* the client IDs that clients ask for; -1 is no wish

ASSUME ClientAssumption == MaxUsers \in Nat /\ Wish \subseteq Int /\ IsFiniteSet(Address)

VARIABLES
    users,       \* mUsers: the clients that are registered
    available,   \* mAvailableClientIDs
    dict,        \* mClientIDdict, by address; NoID for addresses not in it
    reply        \* what the last /notify was answered

vars == <<users, available, dict, reply>>

NoID == -1
ID == 0 .. MaxUsers - 1
NoReply == [to |-> {}, kind |-> "none", args |-> <<>>]

\* The loop in World_New.
Init ==
    /\ users = {} /\ dict = [a \in Address |-> NoID]
    /\ available = [i \in 1 .. MaxUsers |-> i - 1]
    /\ reply = NoReply

\* erase(it), pop_front for the first.
Erase(s, i) == [j \in 1 .. Len(s) - 1 |-> IF j < i THEN s[j] ELSE s[j + 1]]

\* popAvailableClientID: the place of the ID that a client with this wish gets.
PlacesOf(wish) ==
    LET found == {i \in 1 .. Len(available) : available[i] = wish}
    IN  IF wish = NoID \/ found = {} THEN {1}
        ELSE {i \in found : \A j \in found : i <= j}

Reply(a, kind, args) == reply' = [to |-> {a}, kind |-> kind, args |-> args]
-----------------------------------------------------------------------------
\* /notify 1 of a client that is registered: it is told its ID again.
AlreadyRegistered(a, wish) ==
    /\ a \in users
    /\ Reply(a, "fail", <<dict[a]>>)
    /\ UNCHANGED <<users, available, dict>>

TooManyUsers(a, wish) ==
    /\ a \notin users /\ Cardinality(users) >= MaxUsers
    /\ Reply(a, "fail", <<>>)
    /\ UNCHANGED <<users, available, dict>>

\* Slip: the bound is not looked at.
RegisterUnchecked(a, wish) ==
    /\ a \notin users
    /\ \E i \in PlacesOf(wish) :
          /\ dict' = [dict EXCEPT ![a] = IF available = <<>> THEN 0 ELSE available[i]]
          /\ available' = IF available = <<>> THEN <<>> ELSE Erase(available, i)
    /\ users' = users \cup {a}
    /\ Reply(a, "done", <<dict'[a], MaxUsers>>)

Register(a, wish) ==
    /\ a \notin users /\ ~(Cardinality(users) >= MaxUsers)
    /\ \E i \in PlacesOf(wish) :
          /\ dict' = [dict EXCEPT ![a] = available[i]]
          /\ available' = Erase(available, i)
    /\ users' = users \cup {a}
    /\ Reply(a, "done", <<dict'[a], MaxUsers>>)

\* Slip: the ID is not given back.
UnregisterKeepingID(a) ==
    /\ a \in users
    /\ dict' = [dict EXCEPT ![a] = NoID]
    /\ users' = users \ {a}
    /\ Reply(a, "done", <<>>)
    /\ UNCHANGED available

\* /notify 0
Unregister(a) ==
    /\ a \in users
    /\ available' = Append(available, dict[a])
    /\ dict' = [dict EXCEPT ![a] = NoID]
    /\ users' = users \ {a}
    /\ Reply(a, "done", <<>>)

NotRegistered(a) ==
    /\ a \notin users
    /\ Reply(a, "fail", <<>>)
    /\ UNCHANGED <<users, available, dict>>

Next ==
    \E a \in Address :
        \/ \E wish \in Wish : AlreadyRegistered(a, wish) \/ TooManyUsers(a, wish) \/ Register(a, wish)
        \/ Unregister(a) \/ NotRegistered(a)

Spec == Init /\ [][Next]_vars
-----------------------------------------------------------------------------
TypeOK ==
    /\ users \subseteq Address
    /\ available \in Seq(ID)
    /\ dict \in [Address -> ID \cup {NoID}]
    /\ \A a \in Address : a \in users <=> dict[a] # NoID

\* No two clients have the same ID, whatever they wished for and however often
\* they came and went: popAvailableClientID, erase and push_back of NotifyCmd::Stage2.
IDsDistinct == \A a, b \in users : dict[a] = dict[b] => a = b

\* An ID is in the deque at most once, and never while a client has it.
Apart ==
    /\ \A i, j \in 1 .. Len(available) : available[i] = available[j] => i = j
    /\ \A a \in users, i \in 1 .. Len(available) : available[i] # dict[a]

\* IDs are not used up: each is with a client or in the deque.
NoneLost ==
    \A n \in ID : (\E a \in users : dict[a] = n) \/ (\E i \in 1 .. Len(available) : available[i] = n)

\* popAvailableClientID takes front() of the deque without looking whether it
\* is empty: the test against mMaxUsers before it must exclude that.
NeverPopsEmpty == Cardinality(users) < MaxUsers => available # <<>>
=============================================================================
