----------------------------- MODULE NodeLinks -----------------------------
(***************************************************************************)
(* The links of scsynth's node tree (SC_Node.cpp, SC_Group.cpp): every     *)
(* node has mParent, mPrev and mNext, every group also mHead and mTail.    *)
(* One operator per function of the source that relinks nodes; each takes  *)
(* the links t and returns the new ones.                                   *)
(***************************************************************************)
EXTENDS Naturals

CONSTANTS Node,     \* the memory a node can be allocated in
          Root,     \* mTopGroup, the one node whose mID is 0
          Null

ASSUME RootAssumption == Root \in Node /\ Null \notin Node

NodeOrNull == Node \cup {Null}

Links == [mParent : [Node -> NodeOrNull],
          mPrev : [Node -> NodeOrNull], mNext : [Node -> NodeOrNull],
          mHead : [Node -> NodeOrNull], mTail : [Node -> NodeOrNull]]

NoLinks == [mParent |-> [n \in Node |-> Null],
            mPrev |-> [n \in Node |-> Null], mNext |-> [n \in Node |-> Null],
            mHead |-> [n \in Node |-> Null], mTail |-> [n \in Node |-> Null]]

\* if (x) x->f = v
Put(f, x, v) == IF x = Null THEN f ELSE [f EXCEPT ![x] = v]

-----------------------------------------------------------------------------
\* A slip: the group's tail is left pointing at the removed node.
Node_RemoveKeepTail(t, s) ==
    LET p == t.mPrev[s]
        n == t.mNext[s]
    IN [mParent |-> [t.mParent EXCEPT ![s] = Null],
        mPrev |-> [Put(t.mPrev, n, p) EXCEPT ![s] = Null],
        mNext |-> [Put(t.mNext, p, n) EXCEPT ![s] = Null],
        mHead |-> IF p = Null THEN Put(t.mHead, t.mParent[s], n) ELSE t.mHead,
        mTail |-> t.mTail]

Node_Remove(t, s) ==
    LET p == t.mPrev[s]
        n == t.mNext[s]
    IN [mParent |-> [t.mParent EXCEPT ![s] = Null],
        mPrev |-> [Put(t.mPrev, n, p) EXCEPT ![s] = Null],
        mNext |-> [Put(t.mNext, p, n) EXCEPT ![s] = Null],
        mHead |-> IF p = Null THEN Put(t.mHead, t.mParent[s], n) ELSE t.mHead,
        mTail |-> IF n = Null THEN Put(t.mTail, t.mParent[s], p) ELSE t.mTail]

\* What every function that adds a node does once it knows the group g and
\* the neighbours p and n that the node s comes between.
LinkBetween(t, s, g, p, n) ==
    [mParent |-> [t.mParent EXCEPT ![s] = g],
     mPrev |-> Put([t.mPrev EXCEPT ![s] = p], n, s),
     mNext |-> Put([t.mNext EXCEPT ![s] = n], p, s),
     mHead |-> IF p = Null THEN [t.mHead EXCEPT ![g] = s] ELSE t.mHead,
     mTail |-> IF n = Null THEN [t.mTail EXCEPT ![g] = s] ELSE t.mTail]

Node_AddAfter(t, s, afterThisOne) ==
    IF t.mParent[afterThisOne] = Null \/ s = Root THEN t
    ELSE LinkBetween(t, s, t.mParent[afterThisOne], afterThisOne,
                     t.mNext[afterThisOne])

Node_AddBefore(t, s, beforeThisOne) ==
    IF t.mParent[beforeThisOne] = Null \/ s = Root THEN t
    ELSE LinkBetween(t, s, t.mParent[beforeThisOne], t.mPrev[beforeThisOne],
                     beforeThisOne)

Group_AddHead(t, g, child) ==
    IF child = Root THEN t ELSE LinkBetween(t, child, g, Null, t.mHead[g])

Group_AddTail(t, g, child) ==
    IF child = Root THEN t ELSE LinkBetween(t, child, g, t.mTail[g], Null)

\* Node_Replace when the replaced node has a group: s takes over its place.
Node_TakePlace(t, s, replaceThisOne) ==
    LET u == LinkBetween(t, s, t.mParent[replaceThisOne],
                         t.mPrev[replaceThisOne], t.mNext[replaceThisOne])
    IN [u EXCEPT !.mParent[replaceThisOne] = Null,
                 !.mPrev[replaceThisOne] = Null,
                 !.mNext[replaceThisOne] = Null]

\* The memory of the nodes in D is given back.
Clear(t, D) ==
    LET wipe(f) == [n \in Node |-> IF n \in D THEN Null ELSE f[n]]
    IN [mParent |-> wipe(t.mParent), mPrev |-> wipe(t.mPrev),
        mNext |-> wipe(t.mNext), mHead |-> wipe(t.mHead), mTail |-> wipe(t.mTail)]

-----------------------------------------------------------------------------
Children(t, S) == {n \in Node : t.mParent[n] \in S}

\* The nodes below g, its children, their children and so on: the least set
\* that holds the children of g and of its own members.
Below(t, g) ==
    LET closed == {S \in SUBSET Node : Children(t, S \cup {g}) \subseteq S}
    IN {n \in Node : \A S \in closed : n \in S}

-----------------------------------------------------------------------------
(* The links agree with each other: neighbours point at each other and     *)
(* share their group, the first and the last node of a group are the ones  *)
(* its head and tail point at, and an empty group has neither.             *)
Linked(t) ==
    /\ \A n \in Node : t.mNext[n] # Null =>
          /\ t.mPrev[t.mNext[n]] = n
          /\ t.mParent[t.mNext[n]] = t.mParent[n] /\ t.mParent[n] # Null
    /\ \A n \in Node : t.mPrev[n] # Null =>
          /\ t.mNext[t.mPrev[n]] = n
          /\ t.mParent[t.mPrev[n]] = t.mParent[n] /\ t.mParent[n] # Null
    /\ \A n \in Node : t.mParent[n] # Null =>
          /\ t.mPrev[n] = Null => t.mHead[t.mParent[n]] = n
          /\ t.mNext[n] = Null => t.mTail[t.mParent[n]] = n
    /\ \A g \in Node : t.mHead[g] # Null =>
          t.mParent[t.mHead[g]] = g /\ t.mPrev[t.mHead[g]] = Null
    /\ \A g \in Node : t.mTail[g] # Null =>
          t.mParent[t.mTail[g]] = g /\ t.mNext[t.mTail[g]] = Null
    /\ \A g \in Node : t.mHead[g] = Null <=> t.mTail[g] = Null
=============================================================================
