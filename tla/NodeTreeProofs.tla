--------------------------- MODULE NodeTreeProofs ---------------------------
(***************************************************************************)
(* scsynth's node tree for every set of nodes, every way to use the server *)
(* and trees of any size.                                                  *)
(*                                                                         *)
(* That the links agree (Linked) is not inductive: neighbours that form a  *)
(* ring agree too, and a replaced node of a ring of one would not.  What   *)
(* is inductive adds that there are no rings, that only allocated nodes    *)
(* have links, and only to allocated ones, and that parents are groups     *)
(* (Sane).  While the tree is walked, the groups of the calls under way    *)
(* are each the parent of the one called from it, up to the root, and all  *)
(* different (Walked).                                                     *)
(***************************************************************************)
EXTENDS NodeTree, FiniteSetTheorems, WellFoundedInduction,
        NaturalsInduction, TLAPS

(* Relinking keeps the links consistent, however the nodes are linked. *)

\* A node that is in no group has no neighbours.
Loose(t, s) == t.mParent[s] = Null

\* p and n are neighbours in group g, or the head or tail and Null.
Adjacent(t, g, p, n) ==
    /\ p # Null => t.mParent[p] = g /\ t.mNext[p] = n
    /\ n # Null => t.mParent[n] = g /\ t.mPrev[n] = p
    /\ p = Null => t.mHead[g] = n
    /\ n = Null => t.mTail[g] = p

(* Taking a node out of its group (Node_Remove) leaves links that agree,   *)
(* and the node in no group.                                               *)
LEMMA RemoveLinked ==
    ASSUME NEW t \in Links, Linked(t), NEW s \in Node
    PROVE  /\ Node_Remove(t, s) \in Links
           /\ Linked(Node_Remove(t, s))
           /\ Loose(Node_Remove(t, s), s)
<1> DEFINE p == t.mPrev[s]
           n == t.mNext[s]
           u == Node_Remove(t, s)
<1>1. p \in NodeOrNull /\ n \in NodeOrNull /\ t.mParent[s] \in NodeOrNull
  BY DEF Links
<1>2. u \in Links
  BY <1>1, RootAssumption DEF Links, Node_Remove, Put, NodeOrNull
<1>3. Loose(u, s)
  BY DEF Loose, Node_Remove, Links
<1>4. Linked(u)
  <2>1. ASSUME NEW x \in Node
        PROVE  /\ u.mParent[x] = IF x = s THEN Null ELSE t.mParent[x]
               /\ u.mPrev[x] = IF x = s THEN Null ELSE IF x = n THEN p ELSE t.mPrev[x]
               /\ u.mNext[x] = IF x = s THEN Null ELSE IF x = p THEN n ELSE t.mNext[x]
               /\ u.mHead[x] = IF p = Null /\ x = t.mParent[s] THEN n ELSE t.mHead[x]
               /\ u.mTail[x] = IF n = Null /\ x = t.mParent[s] THEN p ELSE t.mTail[x]
    BY <1>1, RootAssumption DEF Links, Node_Remove, Put, NodeOrNull
  <2>2. u.mParent \in [Node -> NodeOrNull] /\ u.mPrev \in [Node -> NodeOrNull]
        /\ u.mNext \in [Node -> NodeOrNull] /\ u.mHead \in [Node -> NodeOrNull]
        /\ u.mTail \in [Node -> NodeOrNull]
    BY <1>2 DEF Links
  <2> HIDE DEF u
  <2>3. ASSUME NEW x \in Node, u.mNext[x] # Null
        PROVE  /\ u.mPrev[u.mNext[x]] = x
               /\ u.mParent[u.mNext[x]] = u.mParent[x] /\ u.mParent[x] # Null
    BY <2>1, <2>2, <2>3, <1>1, RootAssumption DEF Linked, Links, NodeOrNull
  <2>4. ASSUME NEW x \in Node, u.mPrev[x] # Null
        PROVE  /\ u.mNext[u.mPrev[x]] = x
               /\ u.mParent[u.mPrev[x]] = u.mParent[x] /\ u.mParent[x] # Null
    BY <2>1, <2>2, <2>4, <1>1, RootAssumption DEF Linked, Links, NodeOrNull
  <2>5. ASSUME NEW x \in Node, u.mParent[x] # Null
        PROVE  /\ u.mPrev[x] = Null => u.mHead[u.mParent[x]] = x
               /\ u.mNext[x] = Null => u.mTail[u.mParent[x]] = x
    BY <2>1, <2>2, <2>5, <1>1, RootAssumption DEF Linked, Links, NodeOrNull
  <2>6. ASSUME NEW g \in Node, u.mHead[g] # Null
        PROVE  u.mParent[u.mHead[g]] = g /\ u.mPrev[u.mHead[g]] = Null
    BY <2>1, <2>2, <2>6, <1>1, RootAssumption DEF Linked, Links, NodeOrNull
  <2>7. ASSUME NEW g \in Node, u.mTail[g] # Null
        PROVE  u.mParent[u.mTail[g]] = g /\ u.mNext[u.mTail[g]] = Null
    BY <2>1, <2>2, <2>7, <1>1, RootAssumption DEF Linked, Links, NodeOrNull
  <2>8. ASSUME NEW g \in Node
        PROVE  u.mHead[g] = Null <=> u.mTail[g] = Null
    BY <2>1, <2>2, <1>1, RootAssumption DEF Linked, Links, NodeOrNull
  <2> QED BY <2>3, <2>4, <2>5, <2>6, <2>7, <2>8 DEF Linked
<1> QED BY <1>2, <1>3, <1>4 DEF u

(* Linking a node that is in no group between two neighbours leaves links  *)
(* that agree.                                                             *)
LEMMA LinkBetweenLinked ==
    ASSUME NEW t \in Links, Linked(t), NEW s \in Node, Loose(t, s), NEW g \in Node,
           NEW p \in NodeOrNull, NEW n \in NodeOrNull, Adjacent(t, g, p, n)
    PROVE  LinkBetween(t, s, g, p, n) \in Links /\ Linked(LinkBetween(t, s, g, p, n))
<1> DEFINE u == LinkBetween(t, s, g, p, n)
<1>1. u \in Links
  BY RootAssumption DEF Links, LinkBetween, Put, NodeOrNull
<1>2. t.mPrev[s] = Null /\ t.mNext[s] = Null /\ p # s /\ n # s
  BY RootAssumption DEF Linked, Loose, Adjacent, Links, NodeOrNull
<1>3. ASSUME NEW x \in Node
      PROVE  /\ u.mParent[x] = IF x = s THEN g ELSE t.mParent[x]
             /\ u.mPrev[x] = IF x = n THEN s ELSE IF x = s THEN p ELSE t.mPrev[x]
             /\ u.mNext[x] = IF x = p THEN s ELSE IF x = s THEN n ELSE t.mNext[x]
             /\ u.mHead[x] = IF p = Null /\ x = g THEN s ELSE t.mHead[x]
             /\ u.mTail[x] = IF n = Null /\ x = g THEN s ELSE t.mTail[x]
  BY RootAssumption DEF Links, LinkBetween, Put, NodeOrNull
<1>4. u.mParent \in [Node -> NodeOrNull] /\ u.mPrev \in [Node -> NodeOrNull]
      /\ u.mNext \in [Node -> NodeOrNull] /\ u.mHead \in [Node -> NodeOrNull]
      /\ u.mTail \in [Node -> NodeOrNull]
  BY <1>1 DEF Links
<1> HIDE DEF u
<1>5. Linked(u)
  <2>1. ASSUME NEW x \in Node, u.mNext[x] # Null
        PROVE  /\ u.mPrev[u.mNext[x]] = x
               /\ u.mParent[u.mNext[x]] = u.mParent[x] /\ u.mParent[x] # Null
    BY <2>1, <1>2, <1>3, <1>4, RootAssumption DEF Linked, Links, NodeOrNull, Adjacent, Loose
  <2>2. ASSUME NEW x \in Node, u.mPrev[x] # Null
        PROVE  /\ u.mNext[u.mPrev[x]] = x
               /\ u.mParent[u.mPrev[x]] = u.mParent[x] /\ u.mParent[x] # Null
    BY <2>2, <1>2, <1>3, <1>4, RootAssumption DEF Linked, Links, NodeOrNull, Adjacent, Loose
  <2>3. ASSUME NEW x \in Node, u.mParent[x] # Null
        PROVE  /\ u.mPrev[x] = Null => u.mHead[u.mParent[x]] = x
               /\ u.mNext[x] = Null => u.mTail[u.mParent[x]] = x
    BY <2>3, <1>2, <1>3, <1>4, RootAssumption DEF Linked, Links, NodeOrNull, Adjacent, Loose
  <2>4. ASSUME NEW h \in Node, u.mHead[h] # Null
        PROVE  u.mParent[u.mHead[h]] = h /\ u.mPrev[u.mHead[h]] = Null
    BY <2>4, <1>2, <1>3, <1>4, RootAssumption DEF Linked, Links, NodeOrNull, Adjacent, Loose
  <2>5. ASSUME NEW h \in Node, u.mTail[h] # Null
        PROVE  u.mParent[u.mTail[h]] = h /\ u.mNext[u.mTail[h]] = Null
    BY <2>5, <1>2, <1>3, <1>4, RootAssumption DEF Linked, Links, NodeOrNull, Adjacent, Loose
  <2>6. ASSUME NEW h \in Node
        PROVE  u.mHead[h] = Null <=> u.mTail[h] = Null
    BY <1>2, <1>3, <1>4, RootAssumption DEF Linked, Links, NodeOrNull, Adjacent, Loose
  <2> QED BY <2>1, <2>2, <2>3, <2>4, <2>5, <2>6 DEF Linked
<1> QED BY <1>1, <1>5 DEF u

(* The places where nodes are added are places between neighbours: the     *)
(* head and the tail of a group, before and after a node in one.           *)
LEMMA Places ==
    ASSUME NEW t \in Links, Linked(t)
    PROVE  /\ \A g \in Node : Adjacent(t, g, Null, t.mHead[g])
           /\ \A g \in Node : Adjacent(t, g, t.mTail[g], Null)
           /\ \A x \in Node : t.mParent[x] # Null =>
                 /\ Adjacent(t, t.mParent[x], x, t.mNext[x])
                 /\ Adjacent(t, t.mParent[x], t.mPrev[x], x)
<1>1. ASSUME NEW g \in Node PROVE Adjacent(t, g, Null, t.mHead[g])
  BY RootAssumption DEF Linked, Links, NodeOrNull, Adjacent
<1>2. ASSUME NEW g \in Node PROVE Adjacent(t, g, t.mTail[g], Null)
  BY RootAssumption DEF Linked, Links, NodeOrNull, Adjacent
<1>3. ASSUME NEW x \in Node, t.mParent[x] # Null
      PROVE  Adjacent(t, t.mParent[x], x, t.mNext[x])
  BY <1>3, RootAssumption DEF Linked, Links, NodeOrNull, Adjacent
<1>4. ASSUME NEW x \in Node, t.mParent[x] # Null
      PROVE  Adjacent(t, t.mParent[x], t.mPrev[x], x)
  BY <1>4, RootAssumption DEF Linked, Links, NodeOrNull, Adjacent
<1> QED BY <1>1, <1>2, <1>3, <1>4

(* Each function that adds a node keeps the links in agreement when the    *)
(* node is in no group, wherever it is put: Group_AddHead, Group_AddTail,  *)
(* Node_AddBefore, Node_AddAfter, with their tests for the root.           *)
LEMMA AddLinked ==
    ASSUME NEW t \in Links, Linked(t), NEW s \in Node, Loose(t, s), NEW x \in Node
    PROVE  \A u \in {Group_AddHead(t, x, s), Group_AddTail(t, x, s),
                     Node_AddBefore(t, s, x), Node_AddAfter(t, s, x)} :
              u \in Links /\ Linked(u)
<1>1. /\ t.mHead[x] \in NodeOrNull /\ t.mTail[x] \in NodeOrNull
      /\ t.mPrev[x] \in NodeOrNull /\ t.mNext[x] \in NodeOrNull
      /\ t.mParent[x] \in NodeOrNull /\ x \in NodeOrNull /\ Null \in NodeOrNull
  BY DEF Links, NodeOrNull
<1>2. Group_AddHead(t, x, s) \in Links /\ Linked(Group_AddHead(t, x, s))
  BY <1>1, Places, LinkBetweenLinked DEF Group_AddHead
<1>3. Group_AddTail(t, x, s) \in Links /\ Linked(Group_AddTail(t, x, s))
  BY <1>1, Places, LinkBetweenLinked DEF Group_AddTail
<1>4. Node_AddBefore(t, s, x) \in Links /\ Linked(Node_AddBefore(t, s, x))
  <2>1. CASE t.mParent[x] = Null
    BY <2>1 DEF Node_AddBefore
  <2>2. CASE t.mParent[x] # Null
    <3>1. t.mParent[x] \in Node /\ Adjacent(t, t.mParent[x], t.mPrev[x], x)
      BY <2>2, <1>1, Places DEF NodeOrNull
    <3> QED BY <3>1, <1>1, LinkBetweenLinked DEF Node_AddBefore
  <2> QED BY <2>1, <2>2
<1>5. Node_AddAfter(t, s, x) \in Links /\ Linked(Node_AddAfter(t, s, x))
  <2>1. CASE t.mParent[x] = Null
    BY <2>1 DEF Node_AddAfter
  <2>2. CASE t.mParent[x] # Null
    <3>1. t.mParent[x] \in Node /\ Adjacent(t, t.mParent[x], x, t.mNext[x])
      BY <2>2, <1>1, Places DEF NodeOrNull
    <3> QED BY <3>1, <1>1, LinkBetweenLinked DEF Node_AddAfter
  <2> QED BY <2>1, <2>2
<1> QED BY <1>2, <1>3, <1>4, <1>5

(* Moving a node (Node_Remove, then one of the functions that add it, as   *)
(* /n_before, /n_after, /n_order, /g_head and /g_tail do) keeps the links  *)
(* in agreement, whatever node is moved wherever: next to itself, into     *)
(* itself, below itself, next to the root, or the root itself.             *)
THEOREM MoveKeepsLinks ==
    ASSUME NEW t \in Links, Linked(t), NEW s \in Node, NEW x \in Node
    PROVE  LET v == Node_Remove(t, s)
           IN  \A u \in {Group_AddHead(v, x, s), Group_AddTail(v, x, s),
                         Node_AddBefore(v, s, x), Node_AddAfter(v, s, x)} :
                  u \in Links /\ Linked(u)
<1>1. /\ Node_Remove(t, s) \in Links /\ Linked(Node_Remove(t, s))
      /\ Loose(Node_Remove(t, s), s)
  BY RemoveLinked
<1> QED BY <1>1, AddLinked

-----------------------------------------------------------------------------
\* Going from neighbour to neighbour ends.
NoRing(t) ==
    \A S \in SUBSET Node : (\A x \in S : t.mNext[x] \in S) => S = {}

\* Only the nodes in A have links, and only to nodes in A.
Within(t, A) ==
    /\ \A x \in Node : /\ t.mParent[x] \in A \cup {Null}
                       /\ t.mPrev[x] \in A \cup {Null} /\ t.mNext[x] \in A \cup {Null}
                       /\ t.mHead[x] \in A \cup {Null} /\ t.mTail[x] \in A \cup {Null}
    /\ \A x \in Node \ A : /\ t.mParent[x] = Null
                           /\ t.mPrev[x] = Null /\ t.mNext[x] = Null
                           /\ t.mHead[x] = Null /\ t.mTail[x] = Null

\* Only groups, those for which G is TRUE, have children.
Grouped(t, G) == \A x \in Node : t.mParent[x] # Null => G[t.mParent[x]]

Sane(t, A, G) ==
    /\ t \in Links /\ Linked(t) /\ NoRing(t)
    /\ Within(t, A) /\ Grouped(t, G)
    /\ t.mParent[Root] = Null

UniqueIDs(w) ==
    \A n, m \in w.nodes : w.mID[n] = w.mID[m] /\ w.mID[n] # Hidden => n = m

SaneWorld(w) ==
    /\ w \in World
    /\ Root \in w.nodes /\ w.mIsGroup[Root] /\ w.mID[Root] = 0
    /\ Sane(w.t, w.nodes, w.mIsGroup)
    /\ UniqueIDs(w)

\* Every node but the root is below the root.
Held(w) == w.nodes \ {Root} \subseteq Below(w.t, Root)

\* The calls under way: see the introduction.
Frame == [group : Node, child : NodeOrNull, func : CalcFunc]

Walked(w, calls) ==
    /\ \A i \in 1 .. Len(calls) :
          /\ calls[i].group \in w.nodes
          /\ calls[i].child # Null =>
                /\ calls[i].child \in w.nodes
                /\ w.t.mParent[calls[i].child] = calls[i].group
    /\ \A i \in 1 .. Len(calls) :
          w.t.mParent[calls[i].group] =
             IF i = Len(calls) THEN Null ELSE calls[i + 1].group
    /\ \A i, j \in 1 .. Len(calls) : calls[i].group = calls[j].group => i = j

StateOK ==
    /\ use \in Use
    /\ SaneWorld(world)
    /\ stack \in Seq(Frame)
    /\ visited \subseteq Node
    /\ crashed \in BOOLEAN

Safe == use.careful => Held(world) /\ ~crashed

Inv == StateOK /\ Safe /\ Walked(world, stack)

-----------------------------------------------------------------------------
(* Links. *)

\* What the links are when a record of links is one.
LEMMA LinksType ==
    ASSUME NEW t \in Links
    PROVE  /\ t.mParent \in [Node -> NodeOrNull]
           /\ t.mPrev \in [Node -> NodeOrNull] /\ t.mNext \in [Node -> NodeOrNull]
           /\ t.mHead \in [Node -> NodeOrNull] /\ t.mTail \in [Node -> NodeOrNull]
  BY DEF Links

\* Node by node, how the links u differ from t after Node_Remove of s.
Without(u, t, s) ==
    \A x \in Node :
        /\ u.mParent[x] = IF x = s THEN Null ELSE t.mParent[x]
        /\ u.mPrev[x] = IF x = s THEN Null ELSE IF x = t.mNext[s] THEN t.mPrev[s]
                        ELSE t.mPrev[x]
        /\ u.mNext[x] = IF x = s THEN Null ELSE IF x = t.mPrev[s] THEN t.mNext[s]
                        ELSE t.mNext[x]
        /\ u.mHead[x] = IF t.mPrev[s] = Null /\ x = t.mParent[s] THEN t.mNext[s]
                        ELSE t.mHead[x]
        /\ u.mTail[x] = IF t.mNext[s] = Null /\ x = t.mParent[s] THEN t.mPrev[s]
                        ELSE t.mTail[x]

LEMMA RemoveFields ==
    ASSUME NEW t \in Links, NEW s \in Node
    PROVE  Without(Node_Remove(t, s), t, s)
  <1>1. t.mPrev[s] \in NodeOrNull /\ t.mNext[s] \in NodeOrNull /\ t.mParent[s] \in NodeOrNull
    BY DEF Links
  <1>2. QED
    BY <1>1, RootAssumption DEF Links, Node_Remove, Put, NodeOrNull, Without

\* Taking a node out of its group keeps everything sane.
LEMMA RemoveSane ==
    ASSUME NEW t, NEW A \in SUBSET Node, NEW G, Sane(t, A, G), NEW s \in Node
    PROVE  Sane(Node_Remove(t, s), A, G)
  <1> DEFINE u == Node_Remove(t, s)
  <1>1. t \in Links /\ Linked(t) /\ NoRing(t) /\ Within(t, A) /\ Grouped(t, G)
        /\ t.mParent[Root] = Null
    BY DEF Sane
  <1>2. u \in Links /\ Linked(u)
    BY <1>1, RemoveLinked
  <1>3. Without(u, t, s)
    BY <1>1, RemoveFields
  <1> HIDE DEF u
  <1>4. NoRing(u)
    <2> SUFFICES ASSUME NEW S \in SUBSET Node, \A x \in S : u.mNext[x] \in S
                 PROVE  S = {}
      BY DEF NoRing
    <2>1. s \notin S
      BY <1>3, RootAssumption DEF Without
    <2>2. CASE t.mPrev[s] \in S
      <3>1. t.mNext[t.mPrev[s]] = s
        BY <2>2, <1>1, RootAssumption DEF Linked
      <3>2. t.mNext[s] \in S
        BY <1>3, <2>1, <2>2 DEF Without
      <3>3. \A x \in S \cup {s} : t.mNext[x] \in S \cup {s}
        BY <1>3, <3>1, <3>2, <2>1 DEF Without
      <3>4. S \cup {s} = {}
        BY <3>3, <1>1 DEF NoRing
      <3>5. QED
        BY <3>4
    <2>3. CASE t.mPrev[s] \notin S
      <3>1. \A x \in S : t.mNext[x] \in S
        BY <1>3, <2>1, <2>3 DEF Without
      <3>2. QED
        BY <3>1, <1>1 DEF NoRing
    <2>4. QED
      BY <2>2, <2>3
  <1>5. Within(u, A)
    <2>1. /\ t.mParent[s] \in A \cup {Null}
          /\ t.mPrev[s] \in A \cup {Null} /\ t.mNext[s] \in A \cup {Null}
      BY <1>1 DEF Within
    <2>2. ASSUME NEW x \in Node
          PROVE  /\ u.mParent[x] \in A \cup {Null}
                 /\ u.mPrev[x] \in A \cup {Null} /\ u.mNext[x] \in A \cup {Null}
                 /\ u.mHead[x] \in A \cup {Null} /\ u.mTail[x] \in A \cup {Null}
      BY <1>1, <1>3, <2>1 DEF Within, Without
    <2>3. ASSUME NEW x \in Node \ A
          PROVE  /\ u.mParent[x] = Null
                 /\ u.mPrev[x] = Null /\ u.mNext[x] = Null
                 /\ u.mHead[x] = Null /\ u.mTail[x] = Null
      BY <1>1, <1>3, <2>1, RootAssumption DEF Within, Without
    <2>4. QED
      BY <2>2, <2>3 DEF Within
  <1>6. Grouped(u, G)
    BY <1>1, <1>3 DEF Grouped, Without
  <1>7. u.mParent[Root] = Null
    BY <1>1, <1>3, RootAssumption DEF Without
  <1>8. QED
    BY <1>2, <1>4, <1>5, <1>6, <1>7 DEF Sane, u

\* Node by node, how the links u differ from t after LinkBetween.
With(u, t, s, g, p, n) ==
    \A x \in Node :
        /\ u.mParent[x] = IF x = s THEN g ELSE t.mParent[x]
        /\ u.mPrev[x] = IF x = n THEN s ELSE IF x = s THEN p ELSE t.mPrev[x]
        /\ u.mNext[x] = IF x = p THEN s ELSE IF x = s THEN n ELSE t.mNext[x]
        /\ u.mHead[x] = IF p = Null /\ x = g THEN s ELSE t.mHead[x]
        /\ u.mTail[x] = IF n = Null /\ x = g THEN s ELSE t.mTail[x]

LEMMA LinkFields ==
    ASSUME NEW t \in Links, NEW s \in Node, NEW g \in Node,
           NEW p \in NodeOrNull, NEW n \in NodeOrNull
    PROVE  With(LinkBetween(t, s, g, p, n), t, s, g, p, n)
  BY RootAssumption DEF Links, LinkBetween, Put, NodeOrNull, With

\* Linking a loose node in keeps everything sane.
LEMMA LinkSane ==
    ASSUME NEW t, NEW A \in SUBSET Node, NEW G, Sane(t, A, G),
           NEW s \in A, s # Root, Loose(t, s), NEW g \in A, G[g],
           NEW p \in A \cup {Null}, NEW n \in A \cup {Null}, Adjacent(t, g, p, n)
    PROVE  Sane(LinkBetween(t, s, g, p, n), A, G)
  <1> DEFINE u == LinkBetween(t, s, g, p, n)
  <1>1. t \in Links /\ Linked(t) /\ NoRing(t) /\ Within(t, A) /\ Grouped(t, G)
        /\ t.mParent[Root] = Null
    BY DEF Sane
  <1>0. s \in Node /\ g \in Node /\ p \in NodeOrNull /\ n \in NodeOrNull
    BY DEF NodeOrNull
  <1>2. u \in Links /\ Linked(u)
    BY <1>0, <1>1, LinkBetweenLinked
  <1>3. With(u, t, s, g, p, n)
    BY <1>0, <1>1, LinkFields
  <1> HIDE DEF u
  <1>4. NoRing(u)
    <2> SUFFICES ASSUME NEW S \in SUBSET Node, \A x \in S : u.mNext[x] \in S
                 PROVE  S = {}
      BY DEF NoRing
    <2>1. p # s /\ n # s /\ \A x \in Node : t.mNext[x] # s
      BY <1>0, <1>1, RootAssumption DEF Linked, Loose, Adjacent, NodeOrNull, Links
    <2>2. CASE s \in S
      <3>1. n \in S
        BY <1>3, <2>1, <2>2 DEF With
      <3>2. \A x \in S \ {s} : t.mNext[x] \in S \ {s}
        <4> SUFFICES ASSUME NEW x \in S, x # s PROVE t.mNext[x] \in S \ {s}
          OBVIOUS
        <4>1. CASE x = p
          <5>1. t.mNext[x] = n
            BY <4>1, RootAssumption DEF Adjacent
          <5>2. QED
            BY <5>1, <3>1, <2>1
        <4>2. CASE x # p
          BY <4>2, <1>3, <2>1 DEF With
        <4>3. QED
          BY <4>1, <4>2
      <3>3. S \ {s} = {}
        BY <3>2, <1>1 DEF NoRing
      <3>4. QED
        BY <3>1, <3>3, <2>1
    <2>3. CASE s \notin S
      <3>1. \A x \in S : t.mNext[x] \in S
        BY <1>3, <2>3 DEF With
      <3>2. QED
        BY <3>1, <1>1 DEF NoRing
    <2>4. QED
      BY <2>2, <2>3
  <1>5. Within(u, A)
    <2>1. \A x \in Node : /\ t.mParent[x] \in A \cup {Null}
                          /\ t.mPrev[x] \in A \cup {Null} /\ t.mNext[x] \in A \cup {Null}
                          /\ t.mHead[x] \in A \cup {Null} /\ t.mTail[x] \in A \cup {Null}
      BY <1>1 DEF Within
    <2>2. \A x \in Node \ A : /\ t.mParent[x] = Null
                              /\ t.mPrev[x] = Null /\ t.mNext[x] = Null
                              /\ t.mHead[x] = Null /\ t.mTail[x] = Null
      BY <1>1 DEF Within
    <2>3. ASSUME NEW x \in Node
          PROVE  /\ u.mParent[x] \in A \cup {Null}
                 /\ u.mPrev[x] \in A \cup {Null} /\ u.mNext[x] \in A \cup {Null}
                 /\ u.mHead[x] \in A \cup {Null} /\ u.mTail[x] \in A \cup {Null}
      BY <2>1, <1>3 DEF With
    <2>4. ASSUME NEW x \in Node \ A
          PROVE  /\ u.mParent[x] = Null
                 /\ u.mPrev[x] = Null /\ u.mNext[x] = Null
                 /\ u.mHead[x] = Null /\ u.mTail[x] = Null
      BY <2>2, <1>3, RootAssumption DEF With
    <2>5. QED
      BY <2>3, <2>4 DEF Within
  <1>6. Grouped(u, G)
    BY <1>1, <1>3 DEF Grouped, With
  <1>7. u.mParent[Root] = Null
    BY <1>1, <1>3, RootAssumption DEF With
  <1>8. QED
    BY <1>2, <1>4, <1>5, <1>6, <1>7 DEF Sane, u

\* The group in which the add action puts a node.
GroupOf(t, addAction, x) == IF addAction \in {0, 1} THEN x ELSE t.mParent[x]

\* From t to u node s gets the parent g, unless it is the root or g is none.
Joined(u, t, s, g) ==
    \A y \in Node : u.mParent[y] = IF y = s /\ s # Root /\ g # Null THEN g ELSE t.mParent[y]

\* Wherever the add action puts a loose node, everything stays sane, and the
\* group is the new parent of the node.
LEMMA PlaceSane ==
    ASSUME NEW t, NEW A \in SUBSET Node, NEW G, Sane(t, A, G),
           NEW s \in A, Loose(t, s), NEW x \in A, NEW addAction \in 0 .. 3,
           addAction \in {0, 1} => G[x]
    PROVE  /\ Sane(Place(t, s, addAction, x), A, G)
           /\ Joined(Place(t, s, addAction, x), t, s, GroupOf(t, addAction, x))
  <1>1. t \in Links /\ Linked(t) /\ Within(t, A) /\ Grouped(t, G)
    BY DEF Sane
  <1>2. /\ t.mHead[x] \in A \cup {Null} /\ t.mTail[x] \in A \cup {Null}
        /\ t.mPrev[x] \in A \cup {Null} /\ t.mNext[x] \in A \cup {Null}
        /\ t.mParent[x] \in A \cup {Null} /\ x \in A \cup {Null} /\ Null \in A \cup {Null}
    BY <1>1 DEF Within
  <1>3. /\ s \in Node /\ x \in Node /\ x \in NodeOrNull /\ Null \in NodeOrNull
        /\ t.mHead[x] \in NodeOrNull /\ t.mTail[x] \in NodeOrNull
        /\ t.mPrev[x] \in NodeOrNull /\ t.mNext[x] \in NodeOrNull
        /\ t.mParent[s] = Null
    BY <1>2 DEF NodeOrNull, Loose
  <1>4. CASE addAction = 0
    <2>1. Place(t, s, addAction, x) = Group_AddHead(t, x, s) /\ GroupOf(t, addAction, x) = x
      BY <1>4 DEF Place, GroupOf
    <2>2. CASE s = Root
      BY <2>1, <2>2 DEF Group_AddHead, Joined
    <2>3. CASE s # Root
      <3>1. Place(t, s, addAction, x) = LinkBetween(t, s, x, Null, t.mHead[x])
        BY <2>1, <2>3 DEF Group_AddHead
      <3>2. Adjacent(t, x, Null, t.mHead[x]) /\ G[x] /\ x # Null
        BY <1>1, <1>3, <1>4, Places, RootAssumption
      <3>3. Sane(LinkBetween(t, s, x, Null, t.mHead[x]), A, G)
        BY <3>2, <1>2, <2>3, LinkSane
      <3>4. With(LinkBetween(t, s, x, Null, t.mHead[x]), t, s, x, Null, t.mHead[x])
        BY <1>1, <1>3, LinkFields
      <3>5. QED
        BY <3>1, <3>2, <3>3, <3>4, <2>1, <2>3 DEF With, Joined
    <2>4. QED
      BY <2>2, <2>3
  <1>5. CASE addAction = 1
    <2>1. Place(t, s, addAction, x) = Group_AddTail(t, x, s) /\ GroupOf(t, addAction, x) = x
      BY <1>5 DEF Place, GroupOf
    <2>2. CASE s = Root
      BY <2>1, <2>2 DEF Group_AddTail, Joined
    <2>3. CASE s # Root
      <3>1. Place(t, s, addAction, x) = LinkBetween(t, s, x, t.mTail[x], Null)
        BY <2>1, <2>3 DEF Group_AddTail
      <3>2. Adjacent(t, x, t.mTail[x], Null) /\ G[x] /\ x # Null
        BY <1>1, <1>3, <1>5, Places, RootAssumption
      <3>3. Sane(LinkBetween(t, s, x, t.mTail[x], Null), A, G)
        BY <3>2, <1>2, <2>3, LinkSane
      <3>4. With(LinkBetween(t, s, x, t.mTail[x], Null), t, s, x, t.mTail[x], Null)
        BY <1>1, <1>3, LinkFields
      <3>5. QED
        BY <3>1, <3>2, <3>3, <3>4, <2>1, <2>3 DEF With, Joined
    <2>4. QED
      BY <2>2, <2>3
  <1>6. CASE addAction = 2
    <2>1. Place(t, s, addAction, x) = Node_AddBefore(t, s, x)
          /\ GroupOf(t, addAction, x) = t.mParent[x]
      BY <1>6 DEF Place, GroupOf
    <2>2. CASE s = Root \/ t.mParent[x] = Null
      BY <2>1, <2>2 DEF Node_AddBefore, Joined
    <2>3. CASE s # Root /\ t.mParent[x] # Null
      <3>1. Place(t, s, addAction, x) = LinkBetween(t, s, t.mParent[x], t.mPrev[x], x)
        BY <2>1, <2>3 DEF Node_AddBefore
      <3>2. Adjacent(t, t.mParent[x], t.mPrev[x], x) /\ G[t.mParent[x]] /\ t.mParent[x] \in A
        BY <1>1, <1>2, <1>3, <2>3, Places DEF Grouped
      <3>3. Sane(LinkBetween(t, s, t.mParent[x], t.mPrev[x], x), A, G)
        BY <3>2, <1>2, <2>3, LinkSane
      <3>3a. t.mParent[x] \in Node
        BY <3>2
      <3>4. With(LinkBetween(t, s, t.mParent[x], t.mPrev[x], x), t, s, t.mParent[x], t.mPrev[x], x)
        BY <3>3a, <1>1, <1>3, LinkFields
      <3>5. QED
        BY <3>1, <3>3, <3>4, <2>1, <2>3 DEF With, Joined
    <2>4. QED
      BY <2>2, <2>3
  <1>7. CASE addAction = 3
    <2>1. Place(t, s, addAction, x) = Node_AddAfter(t, s, x)
          /\ GroupOf(t, addAction, x) = t.mParent[x]
      BY <1>7 DEF Place, GroupOf
    <2>2. CASE s = Root \/ t.mParent[x] = Null
      BY <2>1, <2>2 DEF Node_AddAfter, Joined
    <2>3. CASE s # Root /\ t.mParent[x] # Null
      <3>1. Place(t, s, addAction, x) = LinkBetween(t, s, t.mParent[x], x, t.mNext[x])
        BY <2>1, <2>3 DEF Node_AddAfter
      <3>2. Adjacent(t, t.mParent[x], x, t.mNext[x]) /\ G[t.mParent[x]] /\ t.mParent[x] \in A
        BY <1>1, <1>2, <1>3, <2>3, Places DEF Grouped
      <3>3. Sane(LinkBetween(t, s, t.mParent[x], x, t.mNext[x]), A, G)
        BY <3>2, <1>2, <2>3, LinkSane
      <3>3a. t.mParent[x] \in Node
        BY <3>2
      <3>4. With(LinkBetween(t, s, t.mParent[x], x, t.mNext[x]), t, s, t.mParent[x], x, t.mNext[x])
        BY <3>3a, <1>1, <1>3, LinkFields
      <3>5. QED
        BY <3>1, <3>3, <3>4, <2>1, <2>3 DEF With, Joined
    <2>4. QED
      BY <2>2, <2>3
  <1>8. QED
    BY <1>4, <1>5, <1>6, <1>7

\* A group without a tail is the parent of no node: without rings, going
\* from neighbour to neighbour would end at its tail.
LEMMA EmptyGroup ==
    ASSUME NEW t \in Links, Linked(t), NoRing(t), NEW s \in Node, t.mTail[s] = Null
    PROVE  \A y \in Node : t.mParent[y] # s
  <1> DEFINE S == {x \in Node : t.mParent[x] = s}
  <1>1. \A x \in S : t.mNext[x] \in S
    BY RootAssumption DEF Linked, Links, NodeOrNull
  <1>2. S = {}
    BY <1>1 DEF NoRing
  <1>3. QED
    BY <1>2

\* From t to u node s gets the parent that r had, and r has none.
TookPlace(u, t, s, r) ==
    \A y \in Node : u.mParent[y] = IF y = s THEN t.mParent[r]
                                   ELSE IF y = r THEN Null ELSE t.mParent[y]

\* A node that takes the place of another is linked in where that one was
\* taken out; without rings, that one was not its own neighbour.
LEMMA TakePlaceSane ==
    ASSUME NEW t, NEW A \in SUBSET Node, NEW G, Sane(t, A, G),
           NEW s \in A, s # Root, NEW r \in A, s # r, t.mParent[r] # Null,
           Loose(t, s), t.mHead[s] = Null, t.mTail[s] = Null
    PROVE  /\ Sane(Node_TakePlace(t, s, r), A, G)
           /\ TookPlace(Node_TakePlace(t, s, r), t, s, r)
  <1> DEFINE v == Node_Remove(t, r)
             g == t.mParent[r]
             p == t.mPrev[r]
             n == t.mNext[r]
             u == LinkBetween(v, s, g, p, n)
             k == Node_TakePlace(t, s, r)
  <1>1. t \in Links /\ Linked(t) /\ NoRing(t) /\ Within(t, A) /\ Grouped(t, G)
    BY DEF Sane
  <1>2. s \in Node /\ r \in Node /\ g \in A /\ p \in A \cup {Null} /\ n \in A \cup {Null}
        /\ g \in Node /\ p \in NodeOrNull /\ n \in NodeOrNull
    BY <1>1 DEF Within, NodeOrNull
  <1>2a. s \in Node /\ r \in Node /\ g \in Node /\ p \in NodeOrNull /\ n \in NodeOrNull
    BY <1>2
  <1>3. n # r /\ p # r
    <2>1. n # r
      <3>1. {r} \in SUBSET Node /\ {r} # {}
        BY <1>2
      <3>2. ~ \A x \in {r} : t.mNext[x] \in {r}
        BY <3>1, <1>1 DEF NoRing
      <3>3. QED
        BY <3>2
    <2>2. p = r => n = r
      BY <1>1, <1>2, RootAssumption DEF Linked
    <2>3. QED
      BY <2>1, <2>2
  <1>4. t.mPrev[s] = Null /\ t.mNext[s] = Null /\ g # s /\ p # s /\ n # s
    <2>1. t.mPrev[s] = Null /\ t.mNext[s] = Null
      BY <1>1, <1>2 DEF Linked, Loose
    <2>2. p # s /\ n # s
      BY <1>1, <1>2, RootAssumption DEF Linked, Loose
    <2>3. \A y \in Node : t.mParent[y] # s
      BY <1>1, <1>2, EmptyGroup
    <2>4. QED
      BY <2>1, <2>2, <2>3, <1>2
  <1>0. Without(v, t, r)
    BY <1>1, <1>2, RemoveFields
  <1>5. Sane(v, A, G) /\ Loose(v, s) /\ v.mHead[s] = Null /\ v \in Links
    BY <1>0, <1>1, <1>2, <1>4, RemoveSane DEF Loose, Sane, Without
  <1>6. Adjacent(v, g, p, n)
    <2>1. Linked(v)
      BY <1>5 DEF Sane
    <2>2. p # Null => v.mParent[p] = g /\ v.mNext[p] = n
      BY <1>0, <1>1, <1>2, <1>3, RootAssumption DEF Linked, NodeOrNull, Without
    <2>3. n # Null => v.mParent[n] = g /\ v.mPrev[n] = p
      BY <1>0, <1>1, <1>2, <1>3, RootAssumption DEF Linked, NodeOrNull, Without
    <2>4. p = Null => v.mHead[g] = n
      BY <1>0, <1>1, <1>2 DEF Without
    <2>5. n = Null => v.mTail[g] = p
      BY <1>0, <1>1, <1>2 DEF Without
    <2>6. QED
      BY <2>2, <2>3, <2>4, <2>5 DEF Adjacent
  <1>7. G[g]
    BY <1>1, <1>2 DEF Grouped
  <1>8. Sane(u, A, G)
    BY <1>2, <1>5, <1>6, <1>7, LinkSane
  <1>9. k = u
    <2>1. k \in Links
      BY <1>2, RootAssumption, <1>1, ZenonT(60) DEF Links, Node_TakePlace, LinkBetween, Put, NodeOrNull
    <2>2. u \in Links
      BY <1>8 DEF Sane
    <2>3. ASSUME NEW x \in Node
          PROVE  /\ k.mParent[x] = u.mParent[x]
                 /\ k.mPrev[x] = u.mPrev[x] /\ k.mNext[x] = u.mNext[x]
                 /\ k.mHead[x] = u.mHead[x] /\ k.mTail[x] = u.mTail[x]
      <3>1. With(LinkBetween(t, s, g, p, n), t, s, g, p, n)
        BY <1>1, <1>2a, LinkFields
      <3>2. LinkBetween(t, s, g, p, n) \in Links
        BY <1>2, RootAssumption, <1>1 DEF Links, LinkBetween, Put, NodeOrNull
      <3>3. /\ k.mParent[x] = IF x = r THEN Null ELSE LinkBetween(t, s, g, p, n).mParent[x]
            /\ k.mPrev[x] = IF x = r THEN Null ELSE LinkBetween(t, s, g, p, n).mPrev[x]
            /\ k.mNext[x] = IF x = r THEN Null ELSE LinkBetween(t, s, g, p, n).mNext[x]
            /\ k.mHead[x] = LinkBetween(t, s, g, p, n).mHead[x]
            /\ k.mTail[x] = LinkBetween(t, s, g, p, n).mTail[x]
        BY <1>2, <3>2 DEF Node_TakePlace, Links
      <3>4. With(u, v, s, g, p, n)
        BY <1>2a, <1>5, LinkFields
      <3> HIDE DEF u, v, k
      <3>6. QED
        BY <3>1, <3>3, <3>4, <1>0, <1>3, <1>4 DEF With, Without
    <2> HIDE DEF u, k, v
    <2>4. k.mParent = u.mParent
      BY <2>1, <2>2, <2>3, LinksType
    <2>5. k.mPrev = u.mPrev
      BY <2>1, <2>2, <2>3, LinksType
    <2>6. k.mNext = u.mNext
      BY <2>1, <2>2, <2>3, LinksType
    <2>7. k.mHead = u.mHead
      BY <2>1, <2>2, <2>3, LinksType
    <2>8. k.mTail = u.mTail
      BY <2>1, <2>2, <2>3, LinksType
    <2>9. QED
      BY <2>1, <2>2, <2>4, <2>5, <2>6, <2>7, <2>8 DEF Links
  <1>10. \A y \in Node : u.mParent[y] = IF y = s THEN g ELSE IF y = r THEN Null
                                        ELSE t.mParent[y]
    <2> SUFFICES ASSUME NEW y \in Node
                 PROVE  u.mParent[y] = IF y = s THEN g ELSE IF y = r THEN Null ELSE t.mParent[y]
      OBVIOUS
    <2>1. With(u, v, s, g, p, n)
      BY <1>2a, <1>5, LinkFields
    <2> HIDE DEF u, v, g, p, n
    <2>2. QED
      BY <2>1, <1>0 DEF With, Without
  <1>11. QED
    BY <1>8, <1>9, <1>10 DEF TookPlace

-----------------------------------------------------------------------------
(* What is below a group, and giving nodes back. *)

\* Below is the least set with the children of g and of its own members.
LEMMA BelowClosed ==
    ASSUME NEW t, NEW g, NEW x \in Node, t.mParent[x] \in Below(t, g) \cup {g}
    PROVE  x \in Below(t, g)
  <1> DEFINE closed == {S \in SUBSET Node : Children(t, S \cup {g}) \subseteq S}
  <1>1. Below(t, g) = {n \in Node : \A S \in closed : n \in S}
    BY DEF Below
  <1>2. ASSUME NEW S \in closed PROVE x \in S
    <2>1. Below(t, g) \subseteq S
      BY <1>1
    <2>2. x \in Children(t, S \cup {g})
      BY <2>1 DEF Children
    <2>3. QED
      BY <2>2
  <1>3. QED
    BY <1>1, <1>2

LEMMA BelowLeast ==
    ASSUME NEW t, NEW g, NEW S \in SUBSET Node,
           \A x \in Node : t.mParent[x] \in S \cup {g} => x \in S
    PROVE  Below(t, g) \subseteq S
  <1>1. Children(t, S \cup {g}) \subseteq S
    BY DEF Children
  <1>2. QED
    BY <1>1 DEF Below

\* The parent of a node below g is below g or is g.
LEMMA BelowUp ==
    ASSUME NEW t, NEW g, NEW x \in Below(t, g)
    PROVE  x \in Node /\ t.mParent[x] \in Below(t, g) \cup {g}
  <1> DEFINE S == {y \in Below(t, g) : t.mParent[y] \in Below(t, g) \cup {g}}
  <1>1. Below(t, g) \subseteq Node
    BY DEF Below
  <1>2. \A y \in Node : t.mParent[y] \in S \cup {g} => y \in S
    <2> SUFFICES ASSUME NEW y \in Node, t.mParent[y] \in S \cup {g} PROVE y \in S
      OBVIOUS
    <2>1. t.mParent[y] \in Below(t, g) \cup {g}
      OBVIOUS
    <2>2. y \in Below(t, g)
      BY <2>1, BelowClosed
    <2>3. QED
      BY <2>1, <2>2
  <1>3. S \in SUBSET Node
    BY <1>1
  <1> HIDE DEF S
  <1>4. Below(t, g) \subseteq S
    BY <1>2, <1>3, BelowLeast
  <1>5. QED
    BY <1>1, <1>4 DEF S

\* The root has no parent, so it is below nothing.
LEMMA RootNotBelow ==
    ASSUME NEW t, t.mParent[Root] = Null, NEW g \in Node
    PROVE  Root \notin Below(t, g)
  <1>1. Below(t, g) \cup {g} \subseteq Node
    BY DEF Below
  <1>2. QED
    BY <1>1, BelowUp, RootAssumption

\* Node by node, how u differs from t when the nodes in D are gone and the
\* groups in E are empty.
Emptied(u, t, D, E) ==
    \A x \in Node :
        /\ u.mParent[x] = IF x \in D THEN Null ELSE t.mParent[x]
        /\ u.mPrev[x] = IF x \in D THEN Null ELSE t.mPrev[x]
        /\ u.mNext[x] = IF x \in D THEN Null ELSE t.mNext[x]
        /\ u.mHead[x] = IF x \in D \cup E THEN Null ELSE t.mHead[x]
        /\ u.mTail[x] = IF x \in D \cup E THEN Null ELSE t.mTail[x]

\* H says the same as G of which nodes are groups, the nodes in D aside.
Kept(H, G, D) == \A x \in Node \ D : H[x] = G[x]

\* u is sane when the nodes in D are no longer allocated.
SaneWithout(u, A, G, D) == \A H : Kept(H, G, D) => Sane(u, A \ D, H)

\* From t to u the nodes in D are gone, and with each all below it; the others
\* have the parents they had.
Cut(t, u, D) ==
    /\ D \in SUBSET Node /\ Root \notin D
    /\ \A x \in Node : t.mParent[x] \in D => x \in D
    /\ \A x \in Node \ D : u.mParent[x] = t.mParent[x]

\* A group that lost no node has the nodes it had, in their order.
Apart(t, u, D) ==
    \A g \in Node \ D : (\A x \in D : t.mParent[x] # g) =>
        /\ u.mHead[g] = t.mHead[g]
        /\ \A x \in Node : t.mParent[x] = g => u.mNext[x] = t.mNext[x]

\* When the nodes with a group in D or E are those in D, giving the nodes in
\* D back and emptying the groups in E keeps everything sane.
LEMMA EmptySane ==
    ASSUME NEW t, NEW A \in SUBSET Node, NEW G, Sane(t, A, G),
           NEW D \in SUBSET Node, NEW E \in SUBSET Node, Root \notin D,
           \A x \in Node : t.mParent[x] # Null => (x \in D <=> t.mParent[x] \in D \cup E),
           NEW u \in Links, Emptied(u, t, D, E)
    PROVE  SaneWithout(u, A, G, D)
  <1> SUFFICES ASSUME NEW H, Kept(H, G, D) PROVE Sane(u, A \ D, H)
    BY DEF SaneWithout
  <1>1. t \in Links /\ Linked(t) /\ NoRing(t) /\ Within(t, A) /\ Grouped(t, G)
        /\ t.mParent[Root] = Null
    BY DEF Sane
  <1>2. \A x \in Node : x \notin D /\ t.mParent[x] # Null => t.mParent[x] \in Node \ (D \cup E)
    BY <1>1 DEF Links, NodeOrNull
  <1>3. ASSUME NEW x \in Node, x \notin D, t.mNext[x] # Null
        PROVE  t.mNext[x] \in Node \ D
    BY <1>1, <1>2, <1>3 DEF Linked, Links, NodeOrNull
  <1>4. ASSUME NEW x \in Node, x \notin D, t.mPrev[x] # Null
        PROVE  t.mPrev[x] \in Node \ D
    BY <1>1, <1>2, <1>4 DEF Linked, Links, NodeOrNull
  <1>5. ASSUME NEW g \in Node, g \notin D \cup E, t.mHead[g] # Null
        PROVE  t.mHead[g] \in Node \ D
    BY <1>1, <1>2, <1>5, RootAssumption DEF Linked, Links, NodeOrNull
  <1>6. ASSUME NEW g \in Node, g \notin D \cup E, t.mTail[g] # Null
        PROVE  t.mTail[g] \in Node \ D
    BY <1>1, <1>2, <1>6, RootAssumption DEF Linked, Links, NodeOrNull
  <1>7. Linked(u)
    <2>1. ASSUME NEW x \in Node, u.mNext[x] # Null
          PROVE  /\ u.mPrev[u.mNext[x]] = x
                 /\ u.mParent[u.mNext[x]] = u.mParent[x] /\ u.mParent[x] # Null
      BY <2>1, <1>1, <1>3 DEF Linked, Emptied
    <2>2. ASSUME NEW x \in Node, u.mPrev[x] # Null
          PROVE  /\ u.mNext[u.mPrev[x]] = x
                 /\ u.mParent[u.mPrev[x]] = u.mParent[x] /\ u.mParent[x] # Null
      BY <2>2, <1>1, <1>4 DEF Linked, Emptied
    <2>3. ASSUME NEW x \in Node, u.mParent[x] # Null
          PROVE  /\ u.mPrev[x] = Null => u.mHead[u.mParent[x]] = x
                 /\ u.mNext[x] = Null => u.mTail[u.mParent[x]] = x
      BY <2>3, <1>1, <1>2 DEF Linked, Emptied
    <2>4. ASSUME NEW g \in Node, u.mHead[g] # Null
          PROVE  u.mParent[u.mHead[g]] = g /\ u.mPrev[u.mHead[g]] = Null
      BY <2>4, <1>1, <1>5 DEF Linked, Emptied
    <2>5. ASSUME NEW g \in Node, u.mTail[g] # Null
          PROVE  u.mParent[u.mTail[g]] = g /\ u.mNext[u.mTail[g]] = Null
      BY <2>5, <1>1, <1>6 DEF Linked, Emptied
    <2>6. ASSUME NEW g \in Node
          PROVE  u.mHead[g] = Null <=> u.mTail[g] = Null
      BY <1>1 DEF Linked, Emptied
    <2>7. QED
      BY <2>1, <2>2, <2>3, <2>4, <2>5, <2>6 DEF Linked
  <1>8. NoRing(u)
    <2> SUFFICES ASSUME NEW S \in SUBSET Node, \A x \in S : u.mNext[x] \in S
                 PROVE  S = {}
      BY DEF NoRing
    <2>1. ASSUME NEW x \in S PROVE t.mNext[x] \in S
      <3>1. u.mNext[x] \in S /\ u.mNext[x] # Null /\ x \in Node
        BY RootAssumption
      <3>2. QED
        BY <3>1 DEF Emptied
    <2>2. QED
      BY <2>1, <1>1 DEF NoRing
  <1>9. Within(u, A \ D)
    <2>1. ASSUME NEW x \in Node
          PROVE  /\ u.mParent[x] \in (A \ D) \cup {Null}
                 /\ u.mPrev[x] \in (A \ D) \cup {Null} /\ u.mNext[x] \in (A \ D) \cup {Null}
                 /\ u.mHead[x] \in (A \ D) \cup {Null} /\ u.mTail[x] \in (A \ D) \cup {Null}
      BY <1>1, <1>2, <1>3, <1>4, <1>5, <1>6 DEF Within, Emptied
    <2>2. ASSUME NEW x \in Node \ (A \ D)
          PROVE  /\ u.mParent[x] = Null
                 /\ u.mPrev[x] = Null /\ u.mNext[x] = Null
                 /\ u.mHead[x] = Null /\ u.mTail[x] = Null
      BY <1>1 DEF Within, Emptied
    <2>3. QED
      BY <2>1, <2>2 DEF Within
  <1>10. Grouped(u, H)
    BY <1>1, <1>2 DEF Grouped, Emptied, Kept
  <1>11. u.mParent[Root] = Null
    BY <1>1, RootAssumption DEF Emptied
  <1>12. QED
    BY <1>7, <1>8, <1>9, <1>10, <1>11 DEF Sane

\* What Clear does to links.
LEMMA ClearFields ==
    ASSUME NEW t \in Links, NEW D \in SUBSET Node
    PROVE  Clear(t, D) \in Links /\ Emptied(Clear(t, D), t, D, {})
  BY DEF Clear, Links, Emptied, NodeOrNull

\* The links when node n and all below it have been deleted.
LEMMA DeleteSane ==
    ASSUME NEW t, NEW A \in SUBSET Node, NEW G, Sane(t, A, G), NEW n \in Node, n # Root,
           NEW D, D = {n} \cup Below(t, n)
    PROVE  /\ SaneWithout(Clear(Node_Remove(t, n), D), A, G, D)
           /\ Cut(t, Clear(Node_Remove(t, n), D), D)
           /\ Apart(t, Clear(Node_Remove(t, n), D), D)
  <1> DEFINE v == Node_Remove(t, n)
             u == Clear(v, D)
  <1>1. D \in SUBSET Node /\ Root \notin D
    BY RootNotBelow DEF Sane, Below
  <1>2. t \in Links /\ v \in Links /\ Sane(v, A, G) /\ Without(v, t, n)
    BY RemoveSane, RemoveFields DEF Sane
  <1>3. u \in Links /\ Emptied(u, v, D, {})
    BY <1>1, <1>2, ClearFields
  <1>4. \A x \in Node : t.mParent[x] \in D => x \in D
    BY BelowClosed
  <1>5. ASSUME NEW x \in Node, v.mParent[x] # Null
        PROVE  x \in D <=> v.mParent[x] \in D \cup {}
    <2>1. x # n /\ v.mParent[x] = t.mParent[x]
      BY <1>2, <1>5 DEF Without
    <2>2. x \in D => t.mParent[x] \in D
      BY <2>1, BelowUp
    <2>3. QED
      BY <2>1, <2>2, <1>4
  <1>6. SaneWithout(u, A, G, D)
    <2> HIDE DEF u, v
    <2>1. {} \in SUBSET Node
      OBVIOUS
    <2>2. QED
      BY <1>1, <1>2, <1>3, <1>5, <2>1, EmptySane
  <1>7. \A x \in Node \ D : u.mParent[x] = t.mParent[x]
    BY <1>2, <1>3 DEF Emptied, Without
  <1>8. Apart(t, u, D)
    <2> SUFFICES ASSUME NEW g \in Node \ D, \A x \in D : t.mParent[x] # g
                 PROVE  /\ u.mHead[g] = t.mHead[g]
                        /\ \A x \in Node : t.mParent[x] = g => u.mNext[x] = t.mNext[x]
      BY DEF Apart
    <2> HIDE DEF u, v
    <2>1. n \in D /\ t.mParent[n] # g
      OBVIOUS
    <2>2. u.mHead[g] = t.mHead[g]
      BY <2>1, <1>2, <1>3 DEF Emptied, Without
    <2>3. ASSUME NEW x \in Node, t.mParent[x] = g PROVE u.mNext[x] = t.mNext[x]
      <3>1. x \notin D /\ x # n
        BY <2>1, <2>3
      <3>2. x # t.mPrev[n]
        BY <2>1, <2>3, RootAssumption DEF Sane, Linked
      <3>3. QED
        BY <3>1, <3>2, <1>2, <1>3 DEF Emptied, Without
    <2>4. QED
      BY <2>2, <2>3
  <1>9. QED
    BY <1>1, <1>4, <1>6, <1>7, <1>8 DEF Cut

\* Emptying group g.
Hollow(c, g) == [c EXCEPT !.mHead[g] = Null, !.mTail[g] = Null]

LEMMA HollowFields ==
    ASSUME NEW t, NEW D, NEW c \in Links, Emptied(c, t, D, {}), NEW g \in Node
    PROVE  Hollow(c, g) \in Links /\ Emptied(Hollow(c, g), t, D, {g})
  <1>1. PICK h : h = [c.mHead EXCEPT ![g] = Null]
    OBVIOUS
  <1>2. PICK l : l = [c.mTail EXCEPT ![g] = Null]
    OBVIOUS
  <1>3. /\ c.mHead \in [Node -> NodeOrNull] /\ c.mTail \in [Node -> NodeOrNull]
        /\ h \in [Node -> NodeOrNull] /\ l \in [Node -> NodeOrNull]
        /\ \A x \in Node : h[x] = IF x = g THEN Null ELSE c.mHead[x]
        /\ \A x \in Node : l[x] = IF x = g THEN Null ELSE c.mTail[x]
    BY <1>1, <1>2, LinksType DEF NodeOrNull
  <1>4. Hollow(c, g) =
           [mParent |-> c.mParent, mPrev |-> c.mPrev, mNext |-> c.mNext,
            mHead |-> [c.mHead EXCEPT ![g] = Null], mTail |-> [c.mTail EXCEPT ![g] = Null]]
    <2>1. PICK v : v = [c EXCEPT !.mHead[g] = Null, !.mTail[g] = Null]
      OBVIOUS
    <2>2. v = [mParent |-> c.mParent, mPrev |-> c.mPrev, mNext |-> c.mNext,
               mHead |-> [c.mHead EXCEPT ![g] = Null], mTail |-> [c.mTail EXCEPT ![g] = Null]]
      BY <2>1 DEF Links
    <2>3. v = Hollow(c, g)
      BY <2>1, Zenon DEF Hollow
    <2>4. QED
      BY <2>2, <2>3, Zenon
  <1>5. PICK u : u = [mParent |-> c.mParent, mPrev |-> c.mPrev, mNext |-> c.mNext,
                      mHead |-> h, mTail |-> l]
    OBVIOUS
  <1>6. /\ u.mParent = c.mParent /\ u.mPrev = c.mPrev /\ u.mNext = c.mNext
        /\ u.mHead = h /\ u.mTail = l
    BY <1>5
  <1>7. u \in Links
    BY <1>3, <1>5, LinksType DEF Links
  <1>8. Emptied(u, t, D, {g})
    BY <1>3, <1>6, ZenonT(60) DEF Emptied
  <1>9. Hollow(c, g) = u
    BY <1>1, <1>2, <1>4, <1>5, Zenon
  <1>10. QED
    BY <1>7, <1>8, <1>9

\* The links when everything below g has been deleted.
LEMMA DeleteAllSane ==
    ASSUME NEW t, NEW A \in SUBSET Node, NEW G, Sane(t, A, G), NEW g \in Node,
           NEW D, D = Below(t, g), NEW u, u = Hollow(Clear(t, D), g)
    PROVE  SaneWithout(u, A, G, D) /\ Cut(t, u, D) /\ Apart(t, u, D)
  <1>1. D \in SUBSET Node /\ Root \notin D
    BY RootNotBelow DEF Sane, Below
  <1>2. t \in Links
    BY DEF Sane
  <1>3. Clear(t, D) \in Links /\ Emptied(Clear(t, D), t, D, {})
    BY <1>1, <1>2, ClearFields
  <1>4. u \in Links /\ Emptied(u, t, D, {g})
    BY <1>3, HollowFields
  <1>5. \A x \in Node : t.mParent[x] # Null => (x \in D <=> t.mParent[x] \in D \cup {g})
    BY BelowUp, BelowClosed
  <1>6. SaneWithout(u, A, G, D)
    <2>1. {g} \in SUBSET Node
      OBVIOUS
    <2>2. QED
      BY <1>1, <1>4, <1>5, <2>1, EmptySane
  <1>7. \A x \in Node : t.mParent[x] \in D => x \in D
    BY BelowClosed
  <1>8. \A x \in Node \ D : u.mParent[x] = t.mParent[x]
    BY <1>4 DEF Emptied
  <1>9. Apart(t, u, D)
    <2> SUFFICES ASSUME NEW h \in Node \ D, \A x \in D : t.mParent[x] # h
                 PROVE  /\ u.mHead[h] = t.mHead[h]
                        /\ \A x \in Node : t.mParent[x] = h => u.mNext[x] = t.mNext[x]
      BY DEF Apart
    <2>1. \A x \in Node : t.mParent[x] = h => x \notin D
      OBVIOUS
    <2>2. h = g => t.mHead[h] = Null
      <3>1. t.mHead[h] \in NodeOrNull
        BY <1>2, LinksType
      <3>2. t.mHead[h] # Null => t.mParent[t.mHead[h]] = h /\ t.mHead[h] \in Node
        BY <3>1 DEF Sane, Linked, NodeOrNull
      <3>3. h = g /\ t.mHead[h] # Null => t.mHead[h] \in D
        BY <3>2, BelowClosed
      <3>4. QED
        BY <3>2, <3>3, <2>1
    <2>3. QED
      BY <2>1, <2>2, <1>4 DEF Emptied
  <1>10. QED
    BY <1>1, <1>6, <1>7, <1>8, <1>9 DEF Cut

-----------------------------------------------------------------------------
(* Unlinking several nodes.  RemoveAll is defined by recursion over the    *)
(* subsets of a finite set, so the proof first shows that there is such a  *)
(* function, by way of functions that satisfy the definition for all       *)
(* subsets of up to k nodes.                                               *)

Picked(D) == CHOOSE x \in D : TRUE

\* The defining equation of rest in RemoveAll.
Step(t, f, D) == IF D = {} THEN t ELSE Node_Remove(f[D \ {Picked(D)}], Picked(D))

LEMMA PickedIn ==
    ASSUME NEW D, D # {}
    PROVE  Picked(D) \in D
  BY DEF Picked

LEMMA LeastNat ==
    ASSUME NEW T, T \subseteq Nat, T # {}
    PROVE  \E m \in T : \A n \in T : m <= n
  <1>1. PICK m \in T : \A n \in T : ~(<<n, m>> \in OpToRel(<, Nat))
    BY WFMin, NatLessThanWellFounded, Zenon
  <1>2. \A n \in T : ~(n < m)
    BY <1>1 DEF OpToRel
  <1>3. QED
    BY <1>2

\* f does what the definition says for the subsets of up to k nodes.
GoodUpto(t, S, f, k) ==
    \A D \in SUBSET S : Cardinality(D) <= k => f[D] = Step(t, f, D)

LEMMA UnlinkingExists ==
    ASSUME NEW t, NEW S, IsFiniteSet(S)
    PROVE  \E f : f = [D \in SUBSET S |-> Step(t, f, D)]
  <1> DEFINE T == {k \in Nat : ~ \E f : /\ f = [D \in SUBSET S |-> f[D]]
                                        /\ GoodUpto(t, S, f, k)}
  <1>0. \A D \in SUBSET S : IsFiniteSet(D) /\ Cardinality(D) \in Nat
                            /\ Cardinality(D) <= Cardinality(S)
    BY FS_Subset, FS_CardinalityType
  <1>1. T = {}
    <2> SUFFICES ASSUME T # {} PROVE FALSE
      OBVIOUS
    <2>1. PICK k \in T : \A n \in T : k <= n
      <3>1. T \subseteq Nat
        OBVIOUS
      <3> HIDE DEF T
      <3>2. QED
        BY <3>1, LeastNat
    <2>2. k # 0
      <3> SUFFICES ASSUME k = 0 PROVE FALSE
        OBVIOUS
      <3>1. PICK f : f = [D \in SUBSET S |-> t]
        OBVIOUS
      <3>2. f = [D \in SUBSET S |-> f[D]]
        BY <3>1
      <3>3. ASSUME NEW D \in SUBSET S, Cardinality(D) <= 0 PROVE f[D] = Step(t, f, D)
        <4>1. Cardinality(D) = 0
          BY <3>3, <1>0
        <4>2. D = {}
          BY <4>1, <1>0, FS_EmptySet
        <4>3. QED
          BY <4>2, <3>1 DEF Step
      <3>4. GoodUpto(t, S, f, 0)
        BY <3>3 DEF GoodUpto
      <3>5. QED
        BY <3>2, <3>4
    <2>3. k - 1 \in Nat /\ k - 1 \notin T
      <3>1. k \in Nat /\ \A n \in T : n \in Nat /\ k <= n
        BY <2>1
      <3> HIDE DEF T
      <3>2. QED
        BY <3>1, <2>2
    <2>4. PICK f : f = [D \in SUBSET S |-> f[D]] /\ GoodUpto(t, S, f, k - 1)
      BY <2>3
    <2>5. PICK h : h = [D \in SUBSET S |-> IF Cardinality(D) = k THEN Step(t, f, D) ELSE f[D]]
      OBVIOUS
    <2>6. h = [D \in SUBSET S |-> h[D]]
      BY <2>5
    <2>7. ASSUME NEW D \in SUBSET S, Cardinality(D) <= k PROVE h[D] = Step(t, h, D)
      <3>0. Cardinality(D) \in Nat /\ k \in Nat
        BY <1>0
      <3>1. Step(t, h, D) = Step(t, f, D)
        <4>1. CASE D = {}
          BY <4>1 DEF Step
        <4>2. CASE D # {}
          <5>1. Picked(D) \in D
            BY <4>2, PickedIn
          <5>2. D \ {Picked(D)} \in SUBSET S
            OBVIOUS
          <5>3. Cardinality(D \ {Picked(D)}) = Cardinality(D) - 1
            BY <5>1, <1>0, FS_RemoveElement
          <5>4. Cardinality(D \ {Picked(D)}) # k
            BY <5>3, <3>0, <2>7
          <5>5. h[D \ {Picked(D)}] = f[D \ {Picked(D)}]
            BY <5>2, <5>4, <2>5
          <5>6. QED
            BY <5>5, <4>2 DEF Step
        <4>3. QED
          BY <4>1, <4>2
      <3>2. CASE Cardinality(D) = k
        BY <3>1, <3>2, <2>5
      <3>3. CASE Cardinality(D) # k
        <4>1. Cardinality(D) <= k - 1
          BY <3>0, <3>3, <2>7
        <4>2. f[D] = Step(t, f, D)
          BY <4>1, <2>4 DEF GoodUpto
        <4>3. QED
          BY <4>2, <3>1, <3>3, <2>5
      <3>4. QED
        BY <3>2, <3>3
    <2>8. GoodUpto(t, S, h, k)
      BY <2>7 DEF GoodUpto
    <2>9. QED
      BY <2>1, <2>6, <2>8
  <1>2. Cardinality(S) \in Nat
    BY FS_CardinalityType
  <1>3. PICK f : f = [D \in SUBSET S |-> f[D]] /\ GoodUpto(t, S, f, Cardinality(S))
    BY <1>1, <1>2
  <1>4. \A D \in SUBSET S : f[D] = Step(t, f, D)
    BY <1>0, <1>3 DEF GoodUpto
  <1>5. [D \in SUBSET S |-> f[D]] = [D \in SUBSET S |-> Step(t, f, D)]
    BY <1>4
  <1>6. QED
    BY <1>3, <1>5

\* The recursion of RemoveAll.
LEMMA RemoveAllDef ==
    ASSUME NEW t, NEW S, IsFiniteSet(S)
    PROVE  \E f : /\ RemoveAll(t, S) = f[S]
                  /\ \A D \in SUBSET S : f[D] = Step(t, f, D)
  <1> DEFINE rest == CHOOSE f : f = [D \in SUBSET S |->
                                       IF D = {} THEN t
                                       ELSE LET n == CHOOSE x \in D : TRUE
                                            IN Node_Remove(f[D \ {n}], n)]
  <1>1. RemoveAll(t, S) = rest[S]
    BY DEF RemoveAll
  <1>2. rest = [D \in SUBSET S |-> Step(t, rest, D)]
    <2>1. rest = CHOOSE f : f = [D \in SUBSET S |-> Step(t, f, D)]
      BY DEF Step, Picked
    <2>2. \E f : f = [D \in SUBSET S |-> Step(t, f, D)]
      BY UnlinkingExists
    <2> HIDE DEF rest
    <2>3. QED
      BY <2>1, <2>2, Zenon
  <1>3. QED
    BY <1>1, <1>2

\* The links s are sane ones, as t but for the nodes in D, which are loose.
Loosened(s, t, A, G, D) ==
    /\ Sane(s, A, G)
    /\ \A x \in Node : s.mParent[x] = IF x \in D THEN Null ELSE t.mParent[x]
    /\ Apart(t, s, D)

LEMMA RemoveAllSane ==
    ASSUME NEW t, NEW A \in SUBSET Node, NEW G, Sane(t, A, G), NEW S \in SUBSET Node
    PROVE  Loosened(RemoveAll(t, S), t, A, G, S)
  <1>1. IsFiniteSet(S) /\ \A D \in SUBSET S : IsFiniteSet(D) /\ Cardinality(D) \in Nat
    BY ConstAssumption, FS_Subset, FS_CardinalityType
  <1>2. PICK f : RemoveAll(t, S) = f[S] /\ \A D \in SUBSET S : f[D] = Step(t, f, D)
    BY <1>1, RemoveAllDef, ZenonT(60)
  <1> DEFINE bad == {k \in Nat : \E D \in SUBSET S :
                        Cardinality(D) = k /\ ~ Loosened(f[D], t, A, G, D)}
  <1>3. bad = {}
    <2> SUFFICES ASSUME bad # {} PROVE FALSE
      OBVIOUS
    <2>1. PICK k \in bad : \A n \in bad : k <= n
      <3>1. bad \subseteq Nat
        OBVIOUS
      <3> HIDE DEF bad
      <3>2. QED
        BY <3>1, LeastNat
    <2>2. PICK D \in SUBSET S : Cardinality(D) = k /\ ~ Loosened(f[D], t, A, G, D)
      OBVIOUS
    <2>3. D # {}
      BY <1>2, <2>2 DEF Step, Loosened, Apart
    <2>4. PICK n : n = Picked(D)
      OBVIOUS
    <2>5. n \in D /\ n \in Node /\ D \ {n} \in SUBSET S
      BY <2>3, <2>4, PickedIn
    <2>6. f[D] = Node_Remove(f[D \ {n}], n)
      BY <1>2, <2>3, <2>4 DEF Step
    <2>7. Cardinality(D \ {n}) = k - 1 /\ k \in Nat /\ Cardinality(D \ {n}) \in Nat
      BY <1>1, <2>2, <2>5, FS_RemoveElement
    <2>8. Loosened(f[D \ {n}], t, A, G, D \ {n})
      <3>1. Cardinality(D \ {n}) \notin bad
        <4>1. \A m \in bad : k <= m
          BY <2>1
        <4> HIDE DEF bad
        <4>2. QED
          BY <4>1, <2>7
      <3>2. QED
        BY <3>1, <2>5, <2>7
    <2>9. Sane(f[D], A, G) /\ Without(f[D], f[D \ {n}], n)
      <3>1. PICK e : e = f[D \ {n}]
        OBVIOUS
      <3>2. Sane(e, A, G) /\ e \in Links
        BY <3>1, <2>8 DEF Loosened, Sane
      <3>3. Sane(Node_Remove(e, n), A, G) /\ Without(Node_Remove(e, n), e, n)
        BY <3>2, <2>5, RemoveSane, RemoveFields
      <3>4. QED
        BY <3>1, <3>3, <2>6
    <2>10. PICK e : e = f[D \ {n}]
      OBVIOUS
    <2>11. /\ Without(f[D], e, n) /\ Linked(e) /\ Apart(t, e, D \ {n}) /\ n \notin D \ {n}
           /\ \A x \in Node : e.mParent[x] = IF x \in D \ {n} THEN Null ELSE t.mParent[x]
      BY <2>8, <2>9, <2>10 DEF Loosened, Sane
    <2>12. Apart(t, f[D], D)
      <3> SUFFICES ASSUME NEW g \in Node \ D, \A x \in D : t.mParent[x] # g
                   PROVE  /\ f[D].mHead[g] = t.mHead[g]
                          /\ \A x \in Node : t.mParent[x] = g => f[D].mNext[x] = t.mNext[x]
        BY DEF Apart
      <3>1. g \in Node \ (D \ {n}) /\ \A x \in D \ {n} : t.mParent[x] # g
        OBVIOUS
      <3>2. /\ e.mHead[g] = t.mHead[g]
            /\ \A x \in Node : t.mParent[x] = g => e.mNext[x] = t.mNext[x]
        BY <3>1, <2>11 DEF Apart
      <3>3. e.mParent[n] # g
        BY <2>5, <2>11
      <3>4. f[D].mHead[g] = e.mHead[g]
        BY <3>3, <2>11 DEF Without
      <3>5. ASSUME NEW x \in Node, t.mParent[x] = g PROVE f[D].mNext[x] = e.mNext[x]
        <4>1. x # n /\ e.mParent[x] = g
          BY <3>5, <2>5, <2>11
        <4>2. x # e.mPrev[n]
          BY <4>1, <3>3, <2>5, <2>11, RootAssumption DEF Linked
        <4>3. QED
          BY <4>1, <4>2, <2>11 DEF Without
      <3>6. QED
        BY <3>2, <3>4, <3>5
    <2>13. \A x \in Node : f[D].mParent[x] = IF x \in D THEN Null ELSE t.mParent[x]
      BY <2>5, <2>11, ZenonT(60) DEF Without
    <2>14. Loosened(f[D], t, A, G, D)
      BY <2>9, <2>12, <2>13 DEF Loosened
    <2>15. QED
      BY <2>2, <2>14
  <1>4. Loosened(f[S], t, A, G, S)
    BY <1>1, <1>3
  <1>5. QED
    BY <1>2, <1>4

\* The links when the nodes in D, none of them a group, have been deleted.
LEMMA DeepFreeSane ==
    ASSUME NEW t, NEW A \in SUBSET Node, NEW G, Sane(t, A, G), G[Root],
           NEW D \in SUBSET Node, \A x \in D : ~G[x],
           NEW u, u = Clear(RemoveAll(t, D), D)
    PROVE  SaneWithout(u, A, G, D) /\ Cut(t, u, D) /\ Apart(t, u, D)
  <1>1. Root \notin D
    OBVIOUS
  <1>2. PICK v : v = RemoveAll(t, D)
    OBVIOUS
  <1>3. Sane(v, A, G) /\ v \in Links /\ Apart(t, v, D)
        /\ \A x \in Node : v.mParent[x] = IF x \in D THEN Null ELSE t.mParent[x]
    BY <1>2, RemoveAllSane DEF Loosened, Sane
  <1>4. u \in Links /\ Emptied(u, v, D, {})
    BY <1>2, <1>3, ClearFields
  <1>5. \A x \in Node : t.mParent[x] \notin D
    BY RootAssumption DEF Sane, Grouped
  <1>6. \A x \in Node : v.mParent[x] # Null => (x \in D <=> v.mParent[x] \in D \cup {})
    BY <1>3, <1>5
  <1>7. SaneWithout(u, A, G, D)
    <2>1. {} \in SUBSET Node
      OBVIOUS
    <2>2. QED
      BY <1>1, <1>3, <1>4, <1>6, <2>1, EmptySane
  <1>8. \A x \in Node \ D : u.mParent[x] = t.mParent[x]
    BY <1>3, <1>4 DEF Emptied
  <1>9. Apart(t, u, D)
    <2>1. \A g \in Node \ D : u.mHead[g] = v.mHead[g]
      BY <1>4 DEF Emptied
    <2>2. \A x \in Node \ D : u.mNext[x] = v.mNext[x]
      BY <1>4 DEF Emptied
    <2>3. QED
      BY <2>1, <2>2, <1>3 DEF Apart
  <1>10. QED
    BY <1>1, <1>5, <1>7, <1>8, <1>9 DEF Cut

-----------------------------------------------------------------------------
(* The world: what the operators change besides the links. *)

Note == {"go", "end", "on", "off", "move"} \X (ID \cup {0})

\* v differs from w in nothing that concerns the tree.
SameTree(w, v) ==
    /\ v \in World
    /\ v.t = w.t /\ v.nodes = w.nodes /\ v.mIsGroup = w.mIsGroup /\ v.mID = w.mID

LEMMA SameTreeSane ==
    ASSUME NEW w, SaneWorld(w), NEW v, SameTree(w, v)
    PROVE  SaneWorld(v)
  BY DEF SameTree, SaneWorld, UniqueIDs

LEMMA SameTreeTrans ==
    ASSUME NEW u, NEW v, NEW w, SameTree(u, v), SameTree(v, w)
    PROVE  SameTree(u, w)
  BY DEF SameTree

LEMMA WorldType ==
    ASSUME NEW w \in World
    PROVE  /\ w.t \in Links /\ w.nodes \in SUBSET Node /\ w.mIsGroup \in [Node -> BOOLEAN]
           /\ w.mID \in [Node -> ID \cup {0, Hidden}] /\ w.mCalcFunc \in [Node -> CalcFunc]
           /\ w.built \in [Node -> BOOLEAN] /\ w.unbuiltDtor \in BOOLEAN
           /\ w.notes \in SUBSET Note
           /\ w = [t |-> w.t, nodes |-> w.nodes, mIsGroup |-> w.mIsGroup, mID |-> w.mID,
                   mCalcFunc |-> w.mCalcFunc, built |-> w.built,
                   unbuiltDtor |-> w.unbuiltDtor, notes |-> w.notes]
  BY DEF World, Note

\* A change of notes, of mCalcFunc, of built.
LEMMA NotesSame ==
    ASSUME NEW w \in World, NEW N \in SUBSET Note
    PROVE  SameTree(w, [w EXCEPT !.notes = N])
  BY DEF World, SameTree, Note

LEMMA CalcSame ==
    ASSUME NEW w \in World, NEW F \in [Node -> CalcFunc]
    PROVE  SameTree(w, [w EXCEPT !.mCalcFunc = F])
  BY DEF World, SameTree

LEMMA BuiltSame ==
    ASSUME NEW w \in World, NEW n
    PROVE  SameTree(w, [w EXCEPT !.built[n] = TRUE])
  <1>1. [w.built EXCEPT ![n] = TRUE] \in [Node -> BOOLEAN]
    BY WorldType
  <1>2. [w EXCEPT !.built[n] = TRUE] = [w EXCEPT !.built = [w.built EXCEPT ![n] = TRUE]]
    OBVIOUS
  <1>3. QED
    BY <1>1, <1>2 DEF World, SameTree

LEMMA SetCalcSame ==
    ASSUME NEW w \in World, NEW n, NEW f \in CalcFunc
    PROVE  SameTree(w, [w EXCEPT !.mCalcFunc[n] = f])
  <1>1. [w.mCalcFunc EXCEPT ![n] = f] \in [Node -> CalcFunc]
    BY WorldType
  <1>2. [w EXCEPT !.mCalcFunc[n] = f] = [w EXCEPT !.mCalcFunc = [w.mCalcFunc EXCEPT ![n] = f]]
    OBVIOUS
  <1>3. QED
    BY <1>1, <1>2, CalcSame

LEMMA QuietSame ==
    ASSUME NEW w \in World
    PROVE  SameTree(w, Quiet(w))
  BY NotesSame DEF Quiet

LEMMA StateMsgSame ==
    ASSUME NEW w \in World, NEW n \in Node, NEW state \in {"go", "end", "on", "off", "move"}
    PROVE  SameTree(w, Node_StateMsg(w, n, state))
  <1>1. SameTree(w, w)
    BY DEF SameTree
  <1>2. CASE w.mID[n] = Hidden \/ ~use.mRealTime
    BY <1>1, <1>2 DEF Node_StateMsg
  <1>3. CASE ~(w.mID[n] = Hidden \/ ~use.mRealTime)
    <2>1. w.mID[n] \in ID \cup {0} /\ w.notes \in SUBSET Note
      BY <1>3, WorldType
    <2>2. w.notes \cup {<<state, w.mID[n]>>} \in SUBSET Note
      BY <2>1 DEF Note
    <2>3. Node_StateMsg(w, n, state) = [w EXCEPT !.notes = w.notes \cup {<<state, w.mID[n]>>}]
      BY <1>3 DEF Node_StateMsg
    <2>4. QED
      BY <2>2, <2>3, NotesSame
  <1>4. QED
    BY <1>2, <1>3

LEMMA SetRunSame ==
    ASSUME NEW w \in World, NEW n \in Node, NEW run
    PROVE  SameTree(w, Node_SetRun(w, n, run))
  <1> DEFINE f == w.mCalcFunc[n]
             on == [w EXCEPT !.mCalcFunc[n] =
                       IF w.mIsGroup[n] THEN "Group_Calc" ELSE "Graph_Calc"]
             off == [w EXCEPT !.mCalcFunc[n] =
                       IF f = "Graph_FirstCalc" THEN "Graph_NullFirstCalc"
                       ELSE "Node_NullCalc"]
  <1>1. SameTree(w, on) /\ SameTree(w, off) /\ SameTree(w, w)
    <2>1. (IF w.mIsGroup[n] THEN "Group_Calc" ELSE "Graph_Calc") \in CalcFunc
      BY DEF CalcFunc
    <2>2. (IF f = "Graph_FirstCalc" THEN "Graph_NullFirstCalc" ELSE "Node_NullCalc") \in CalcFunc
      BY DEF CalcFunc
    <2>3. SameTree(w, w)
      BY DEF SameTree
    <2>4. QED
      BY <2>1, <2>2, <2>3, SetCalcSame
  <1>2. Node_SetRun(w, n, run) \in
           {w, Node_StateMsg(on, n, "on"), Node_StateMsg(off, n, "off")}
    BY DEF Node_SetRun
  <1> HIDE DEF on, off
  <1>3. SameTree(on, Node_StateMsg(on, n, "on")) /\ SameTree(off, Node_StateMsg(off, n, "off"))
    BY <1>1, StateMsgSame DEF SameTree
  <1>4. QED
    BY <1>1, <1>2, <1>3, SameTreeTrans

LEMMA EndSame ==
    ASSUME NEW w \in World, NEW n
    PROVE  SameTree(w, Node_End(w, n))
  BY SetCalcSame DEF Node_End, CalcFunc

LEMMA EndAllSame ==
    ASSUME NEW w \in World, NEW S
    PROVE  SameTree(w, EndAll(w, S))
  <1>1. [n \in Node |-> IF n \in S THEN "Node_Delete" ELSE w.mCalcFunc[n]] \in [Node -> CalcFunc]
    BY WorldType DEF CalcFunc
  <1>2. QED
    BY <1>1, CalcSame DEF EndAll

LEMMA TraceSame ==
    ASSUME NEW w \in World, NEW n
    PROVE  SameTree(w, Node_Trace(w, n)) /\ SameTree(w, Group_DumpTree(w, n))
  <1>1. SameTree(w, w)
    BY DEF SameTree
  <1>2. /\ SameTree(w, [w EXCEPT !.mCalcFunc[n] = "Group_CalcTrace"])
        /\ SameTree(w, [w EXCEPT !.mCalcFunc[n] = "Graph_CalcTrace"])
        /\ SameTree(w, [w EXCEPT !.mCalcFunc[n] = "Group_CalcDumpTree"])
    BY SetCalcSame DEF CalcFunc
  <1>3. Node_Trace(w, n) \in {w, [w EXCEPT !.mCalcFunc[n] = "Group_CalcTrace"],
                              [w EXCEPT !.mCalcFunc[n] = "Graph_CalcTrace"]}
    BY DEF Node_Trace
  <1>4. Group_DumpTree(w, n) \in {w, [w EXCEPT !.mCalcFunc[n] = "Group_CalcDumpTree"]}
    BY DEF Group_DumpTree
  <1>5. QED
    BY <1>1, <1>2, <1>3, <1>4

\* The IDs that the last action sent such a notification about.
Sent(w, state) == {id \in ID : <<state, id>> \in w.notes}

\* From w to v /n_end was sent for each ID that went, and no /n_go.
Told(w, v) ==
    /\ VisibleIDs(v) \subseteq VisibleIDs(w)
    /\ Sent(v, "go") = Sent(w, "go")
    /\ Sent(v, "end") = Sent(w, "end") \cup (VisibleIDs(w) \ VisibleIDs(v))

\* v is w without the nodes in D and what is below them.
Pruned(w, v, D) ==
    /\ SaneWorld(v)
    /\ v.nodes = w.nodes \ D
    /\ Cut(w.t, v.t, D) /\ Apart(w.t, v.t, D)
    /\ \A x \in Node \ D : v.mCalcFunc[x] = w.mCalcFunc[x]
    /\ use.mRealTime /\ D \subseteq w.nodes => Told(w, v)

\* A world with the nodes of D discarded and new links for the others.
LEMMA DiscardPruned ==
    ASSUME NEW w, SaneWorld(w), NEW D, NEW u,
           SaneWithout(u, w.nodes, w.mIsGroup, D), Cut(w.t, u, D), Apart(w.t, u, D)
    PROVE  Pruned(w, [Discard(w, D) EXCEPT !.t = u], D)
  <1>0. D \in SUBSET Node /\ Root \notin D
    BY DEF Cut
  <1>1. w \in World /\ Root \in w.nodes /\ w.mIsGroup[Root] /\ w.mID[Root] = 0 /\ UniqueIDs(w)
    BY DEF SaneWorld
  <1>2. PICK G : G = [n \in Node |-> n \notin D /\ w.mIsGroup[n]]
    OBVIOUS
  <1>3. PICK I : I = [n \in Node |-> IF n \in D THEN Hidden ELSE w.mID[n]]
    OBVIOUS
  <1>4. PICK F : F = [n \in Node |-> IF n \in D THEN "Group_Calc" ELSE w.mCalcFunc[n]]
    OBVIOUS
  <1>5. PICK B : B = [n \in Node |-> n \notin D /\ w.built[n]]
    OBVIOUS
  <1>6. PICK b : b = (w.unbuiltDtor \/ \E n \in D : /\ ~w.mIsGroup[n] /\ ~w.built[n]
                                                    /\ DtorsRun(w, n))
    OBVIOUS
  <1>7. PICK N : N = w.notes \cup {<<"end", w.mID[n]>> :
                                   n \in {m \in D : use.mRealTime /\ w.mID[m] # Hidden}}
    OBVIOUS
  <1>8. PICK v : v = [t |-> u, nodes |-> w.nodes \ D, mIsGroup |-> G, mID |-> I,
                      mCalcFunc |-> F, built |-> B, unbuiltDtor |-> b, notes |-> N]
    OBVIOUS
  <1>9. [Discard(w, D) EXCEPT !.t = u] = v
    <2>1. PICK d : d = Discard(w, D)
      OBVIOUS
    <2>2. d = [t |-> w.t, nodes |-> w.nodes \ D, mIsGroup |-> G, mID |-> I,
               mCalcFunc |-> F, built |-> B, unbuiltDtor |-> b, notes |-> N]
      <3>1. d = [w EXCEPT !.nodes = w.nodes \ D, !.mIsGroup = G, !.mID = I,
                          !.mCalcFunc = F, !.built = B, !.unbuiltDtor = b, !.notes = N]
        BY <2>1, <1>2, <1>3, <1>4, <1>5, <1>6, <1>7, Zenon DEF Discard
      <3>2. w = [t |-> w.t, nodes |-> w.nodes, mIsGroup |-> w.mIsGroup, mID |-> w.mID,
                 mCalcFunc |-> w.mCalcFunc, built |-> w.built,
                 unbuiltDtor |-> w.unbuiltDtor, notes |-> w.notes]
        BY <1>1, WorldType
      <3>3. QED
        BY <3>1, <3>2
    <2>3. [d EXCEPT !.t = u] = v
      BY <2>2, <1>8
    <2>4. QED
      BY <2>1, <2>3
  <1>10. /\ G \in [Node -> BOOLEAN] /\ F \in [Node -> CalcFunc] /\ B \in [Node -> BOOLEAN]
         /\ I \in [Node -> ID \cup {0, Hidden}]
    BY <1>0, <1>1, <1>2, <1>3, <1>4, <1>5, WorldType DEF CalcFunc
  <1>11. b \in BOOLEAN
    BY <1>1, <1>6, WorldType
  <1>12. N \in SUBSET Note
    <2>1. \A m \in D : w.mID[m] # Hidden => <<"end", w.mID[m]>> \in Note
      BY <1>0, <1>1, WorldType DEF Note
    <2>2. w.notes \in SUBSET Note
      BY <1>1, WorldType
    <2>3. QED
      BY <1>7, <2>1, <2>2
  <1>13. \A x \in Node \ D : G[x] = w.mIsGroup[x]
    BY <1>1, <1>2, WorldType
  <1>14. Sane(u, w.nodes \ D, G)
    BY <1>13 DEF SaneWithout, Kept
  <1>15. v \in World
    <2>1. u \in Links /\ w.nodes \ D \in SUBSET Node
      BY <1>1, <1>14, WorldType DEF Sane
    <2>2. QED
      BY <1>8, <1>10, <1>11, <1>12, <2>1 DEF World, Note
  <1>16. /\ v.t = u /\ v.nodes = w.nodes \ D /\ v.mIsGroup = G /\ v.mID = I
    BY <1>8
  <1>17. UniqueIDs(v)
    <2>1. \A n \in w.nodes \ D : n \in Node /\ I[n] = w.mID[n]
      BY <1>1, <1>3, WorldType
    <2>2. QED
      BY <1>1, <1>16, <2>1 DEF UniqueIDs
  <1>18. Root \in v.nodes /\ v.mIsGroup[Root] /\ v.mID[Root] = 0
    BY <1>0, <1>1, <1>2, <1>3, <1>16, RootAssumption
  <1>19. SaneWorld(v)
    BY <1>14, <1>15, <1>16, <1>17, <1>18 DEF SaneWorld
  <1>20. \A x \in Node \ D : v.mCalcFunc[x] = w.mCalcFunc[x]
    BY <1>4, <1>8
  <1>21. ASSUME use.mRealTime, D \subseteq w.nodes PROVE Told(w, v)
    <2>1. /\ w.nodes \in SUBSET Node /\ w.mID \in [Node -> ID \cup {0, Hidden}]
          /\ v.nodes = w.nodes \ D /\ v.notes = N
          /\ \A n \in v.nodes : v.mID[n] = w.mID[n]
      BY <1>1, <1>3, <1>8, WorldType
    <2>2. VisibleIDs(v) \subseteq VisibleIDs(w)
      BY <2>1 DEF VisibleIDs
    <2>3. \A x : x \in N <=> x \in w.notes \/ \E m \in D : w.mID[m] # Hidden /\ x = <<"end", w.mID[m]>>
      BY <1>7, <1>21
    <2>4. Sent(v, "go") = Sent(w, "go")
      <3>1. \A id \in ID : <<"go", id>> \in N <=> <<"go", id>> \in w.notes
        BY <2>3
      <3>2. QED
        BY <3>1, <2>1 DEF Sent
    <2>5. \A id \in ID : <<"end", id>> \in N <=>
             <<"end", id>> \in w.notes \/ \E m \in D : w.mID[m] # Hidden /\ w.mID[m] = id
      BY <2>3
    <2>6. ASSUME NEW id \in ID, NEW m \in D, w.mID[m] # Hidden, w.mID[m] = id
          PROVE  id \in VisibleIDs(w) \ VisibleIDs(v)
      <3>1. id \in VisibleIDs(w)
        BY <1>21, <2>6 DEF VisibleIDs
      <3>2. ASSUME NEW n \in v.nodes, v.mID[n] = id PROVE FALSE
        BY <1>1, <1>21, <2>1, <2>6, <3>2 DEF UniqueIDs
      <3>3. QED
        BY <3>1, <3>2 DEF VisibleIDs
    <2>7. ASSUME NEW id \in VisibleIDs(w) \ VisibleIDs(v)
          PROVE  id \in ID /\ \E m \in D : w.mID[m] # Hidden /\ w.mID[m] = id
      <3>1. PICK m \in w.nodes : w.mID[m] = id /\ id # Hidden
        BY <2>7 DEF VisibleIDs
      <3>2. m \in D
        BY <3>1, <2>1, <2>7 DEF VisibleIDs
      <3>3. id # 0
        <4>1. v.mID[Root] = 0 /\ Root \in v.nodes
          BY <1>18
        <4>2. 0 = Hidden \/ 0 \in VisibleIDs(v)
          BY <4>1 DEF VisibleIDs
        <4>3. QED
          BY <4>2, <3>1, <2>7
      <3>4. QED
        BY <3>1, <3>2, <3>3, <2>1
    <2>8. Sent(v, "end") = Sent(w, "end") \cup (VisibleIDs(w) \ VisibleIDs(v))
      BY <2>1, <2>5, <2>6, <2>7 DEF Sent
    <2>9. QED
      BY <2>2, <2>4, <2>8 DEF Told
  <1>22. QED
    <2>1. Pruned(w, v, D)
      BY <1>16, <1>19, <1>20, <1>21 DEF Pruned
    <2>2. QED
      BY <1>9, <2>1, Zenon

LEMMA DeletePruned ==
    ASSUME NEW w, SaneWorld(w), NEW n \in Node, n # Root
    PROVE  Pruned(w, Node_Delete(w, n), {n} \cup Below(w.t, n))
  <1>1. PICK D : D = {n} \cup Below(w.t, n)
    OBVIOUS
  <1>2. PICK u : u = Clear(Node_Remove(w.t, n), D)
    OBVIOUS
  <1>3. w.nodes \in SUBSET Node /\ Sane(w.t, w.nodes, w.mIsGroup)
    BY WorldType DEF SaneWorld
  <1>4. SaneWithout(u, w.nodes, w.mIsGroup, D) /\ Cut(w.t, u, D) /\ Apart(w.t, u, D)
    BY <1>1, <1>2, <1>3, DeleteSane
  <1>5. Pruned(w, [Discard(w, D) EXCEPT !.t = u], D)
    BY <1>4, DiscardPruned
  <1>6. Node_Delete(w, n) = [Discard(w, D) EXCEPT !.t = u]
    BY <1>1, <1>2, Zenon DEF Node_Delete, StrictlyBelow
  <1>7. QED
    BY <1>1, <1>5, <1>6, Zenon

LEMMA DeleteAllPruned ==
    ASSUME NEW w, SaneWorld(w), NEW g \in Node
    PROVE  Pruned(w, Group_DeleteAll(w, g), Below(w.t, g))
  <1>1. PICK D : D = Below(w.t, g)
    OBVIOUS
  <1>2. PICK u : u = Hollow(Clear(w.t, D), g)
    OBVIOUS
  <1>3. w.nodes \in SUBSET Node /\ Sane(w.t, w.nodes, w.mIsGroup)
    BY WorldType DEF SaneWorld
  <1>4. SaneWithout(u, w.nodes, w.mIsGroup, D) /\ Cut(w.t, u, D) /\ Apart(w.t, u, D)
    BY <1>1, <1>2, <1>3, DeleteAllSane
  <1>5. Pruned(w, [Discard(w, D) EXCEPT !.t = u], D)
    BY <1>4, DiscardPruned
  <1>6. Group_DeleteAll(w, g) = [Discard(w, D) EXCEPT !.t = u]
    BY <1>1, <1>2, Zenon DEF Group_DeleteAll, StrictlyBelow, Hollow
  <1>7. QED
    BY <1>1, <1>5, <1>6, Zenon

LEMMA DeepFreePruned ==
    ASSUME NEW w, SaneWorld(w), NEW g \in Node
    PROVE  Pruned(w, Group_DeepFreeGraphs(w, g), {n \in Below(w.t, g) : ~w.mIsGroup[n]})
  <1>1. PICK D : D = {n \in Below(w.t, g) : ~w.mIsGroup[n]}
    OBVIOUS
  <1>2. PICK u : u = Clear(RemoveAll(w.t, D), D)
    OBVIOUS
  <1>3. w.nodes \in SUBSET Node /\ Sane(w.t, w.nodes, w.mIsGroup) /\ w.mIsGroup[Root]
        /\ D \in SUBSET Node /\ \A x \in D : ~w.mIsGroup[x]
    BY <1>1, WorldType DEF SaneWorld, Below
  <1>4. SaneWithout(u, w.nodes, w.mIsGroup, D) /\ Cut(w.t, u, D) /\ Apart(w.t, u, D)
    BY <1>2, <1>3, DeepFreeSane
  <1>5. Pruned(w, [Discard(w, D) EXCEPT !.t = u], D)
    BY <1>4, DiscardPruned
  <1>6. Group_DeepFreeGraphs(w, g) = [Discard(w, D) EXCEPT !.t = u]
    BY <1>1, <1>2, Zenon DEF Group_DeepFreeGraphs, StrictlyBelow
  <1>7. QED
    BY <1>1, <1>5, <1>6, Zenon

-----------------------------------------------------------------------------
(* What is below the root. *)

LEMMA BelowCut ==
    ASSUME NEW t, NEW u, NEW D, Cut(t, u, D)
    PROVE  Below(t, Root) \ D \subseteq Below(u, Root)
  <1> DEFINE T == Below(u, Root) \cup D
  <1>1. T \in SUBSET Node
    BY DEF Below, Cut
  <1>2. ASSUME NEW x \in Node, t.mParent[x] \in T \cup {Root} PROVE x \in T
    <2>1. CASE x \in D
      BY <2>1
    <2>2. CASE x \notin D
      <3>1. u.mParent[x] = t.mParent[x] /\ t.mParent[x] \notin D
        BY <2>2 DEF Cut
      <3>2. u.mParent[x] \in Below(u, Root) \cup {Root}
        BY <3>1, <1>2
      <3>3. QED
        BY <3>2, BelowClosed
    <2>3. QED
      BY <2>1, <2>2
  <1> HIDE DEF T
  <1>3. Below(t, Root) \subseteq T
    BY <1>1, <1>2, BelowLeast
  <1>4. QED
    BY <1>3 DEF T

\* What is deleted with all below it leaves the others below the root.
LEMMA PrunedHeld ==
    ASSUME NEW w, Held(w), NEW v, NEW D, Pruned(w, v, D)
    PROVE  Held(v)
  <1>1. Below(w.t, Root) \ D \subseteq Below(v.t, Root)
    BY BelowCut DEF Pruned
  <1>2. QED
    BY <1>1 DEF Held, Pruned

\* A node n put into a group g that is not below it: all that was below the
\* root stays below the root, and n is below the root.
LEMMA MovedHeld ==
    ASSUME NEW t, NEW u, NEW A \in SUBSET Node, NEW n \in A, NEW g \in A,
           A \ {Root, n} \subseteq Below(t, Root),
           g # n, g \notin Below(t, n),
           \A y \in Node : u.mParent[y] = IF y = n THEN g ELSE t.mParent[y]
    PROVE  A \ {Root} \subseteq Below(u, Root)
  <1> DEFINE B == Below(u, Root)
             D == {n} \cup Below(t, n)
  <1>1. B \in SUBSET Node /\ D \in SUBSET Node /\ B \cup D \in SUBSET Node
    BY DEF Below
  <1>2. ASSUME NEW x \in Node, t.mParent[x] \in (B \cup D) \cup {Root} PROVE x \in B \cup D
    <2>1. CASE x = n
      BY <2>1
    <2>2. CASE x # n
      <3>1. u.mParent[x] = t.mParent[x]
        BY <2>2
      <3>2. CASE t.mParent[x] \in D
        BY <3>2, BelowClosed
      <3>3. CASE t.mParent[x] \in B \cup {Root}
        BY <3>1, <3>3, BelowClosed
      <3>4. QED
        BY <1>2, <3>2, <3>3
    <2>3. QED
      BY <2>1, <2>2
  <1>3. Below(t, Root) \subseteq B \cup D
    <2> HIDE DEF B, D
    <2>1. PICK T : T = B \cup D
      OBVIOUS
    <2>2. QED
      BY <2>1, <1>1, <1>2, BelowLeast
  <1>4. g \in B \cup {Root}
    BY <1>3
  <1>5. n \in B
    <2>1. n \in Node /\ u.mParent[n] = g
      OBVIOUS
    <2>2. QED
      BY <1>4, <2>1, BelowClosed
  <1>6. ASSUME NEW x \in Node, t.mParent[x] \in B \cup {n} PROVE x \in B
    <2>1. CASE x = n
      BY <2>1, <1>5
    <2>2. CASE x # n
      <3>1. u.mParent[x] \in B
        BY <2>2, <1>5, <1>6
      <3>2. QED
        BY <3>1, BelowClosed
    <2>3. QED
      BY <2>1, <2>2
  <1>7. Below(t, n) \subseteq B
    <2> HIDE DEF B
    <2>1. QED
      BY <1>1, <1>6, BelowLeast
  <1>8. QED
    BY <1>3, <1>5, <1>7

LEMMA BelowDeeper ==
    ASSUME NEW t, NEW x \in Node, NEW p, p = t.mParent[x]
    PROVE  Below(t, x) \subseteq Below(t, p)
  <1>1. x \in Below(t, p)
    BY BelowClosed
  <1>2. ASSUME NEW y \in Node, t.mParent[y] \in Below(t, p) \cup {x} PROVE y \in Below(t, p)
    BY <1>1, <1>2, BelowClosed
  <1>3. Below(t, p) \in SUBSET Node
    BY DEF Below
  <1>4. QED
    BY <1>2, <1>3, BelowLeast

\* When all nodes are below the root, none is below itself.
LEMMA NoRecursion ==
    ASSUME NEW t, t.mParent[Root] = Null, NEW g \in Node, g = Root \/ g \in Below(t, Root)
    PROVE  g \notin Below(t, g)
  <1>1. CASE g = Root
    BY <1>1, RootNotBelow
  <1>2. CASE g # Root
    <2> SUFFICES ASSUME g \in Below(t, g) PROVE FALSE
      OBVIOUS
    <2> DEFINE S == Node \ {x \in Below(t, g) : g \in Below(t, x)}
    <2>1. ASSUME NEW x \in Node, x \notin S PROVE t.mParent[x] \notin S \cup {Root}
      <3>1. x \in Below(t, g) /\ g \in Below(t, x)
        BY <2>1
      <3>2. t.mParent[x] \in Below(t, g)
        BY <3>1, BelowUp
      <3>3. g \in Below(t, t.mParent[x])
        BY <3>1, BelowDeeper
      <3>4. t.mParent[x] # Root
        BY <3>2, RootNotBelow
      <3>5. QED
        BY <3>2, <3>3, <3>4
    <2>2. Below(t, Root) \subseteq S
      <3>1. S \in SUBSET Node
        OBVIOUS
      <3> HIDE DEF S
      <3>2. QED
        BY <2>1, <3>1, BelowLeast
    <2>3. QED
      BY <1>2, <2>2
  <1>3. QED
    BY <1>1, <1>2

-----------------------------------------------------------------------------
(* Moving, making and replacing nodes. *)

\* v has the same nodes as w, with the same IDs, and the links u.
Relinked(w, v, u) ==
    /\ SaneWorld(v)
    /\ v.t = u /\ v.nodes = w.nodes /\ v.mIsGroup = w.mIsGroup

LEMMA RelinkedWorld ==
    ASSUME NEW w, SaneWorld(w), NEW u, Sane(u, w.nodes, w.mIsGroup)
    PROVE  Relinked(w, [w EXCEPT !.t = u], u)
  <1>1. w \in World /\ u \in Links
    BY DEF SaneWorld, Sane
  <1>2. PICK v : v = [w EXCEPT !.t = u]
    OBVIOUS
  <1>3. v = [t |-> u, nodes |-> w.nodes, mIsGroup |-> w.mIsGroup, mID |-> w.mID,
             mCalcFunc |-> w.mCalcFunc, built |-> w.built,
             unbuiltDtor |-> w.unbuiltDtor, notes |-> w.notes]
    <2>1. w = [t |-> w.t, nodes |-> w.nodes, mIsGroup |-> w.mIsGroup, mID |-> w.mID,
               mCalcFunc |-> w.mCalcFunc, built |-> w.built,
               unbuiltDtor |-> w.unbuiltDtor, notes |-> w.notes]
      BY <1>1, WorldType
    <2>2. QED
      BY <2>1, <1>2
  <1>4. PICK z : z = [t |-> u, nodes |-> w.nodes, mIsGroup |-> w.mIsGroup, mID |-> w.mID,
                      mCalcFunc |-> w.mCalcFunc, built |-> w.built,
                      unbuiltDtor |-> w.unbuiltDtor, notes |-> w.notes]
    OBVIOUS
  <1>5. z.t = u /\ z.nodes = w.nodes /\ z.mIsGroup = w.mIsGroup /\ z.mID = w.mID
    BY <1>4
  <1>6. z \in World
    BY <1>1, <1>4 DEF World
  <1>7. SaneWorld(z)
    BY <1>5, <1>6 DEF SaneWorld, UniqueIDs
  <1>8. Relinked(w, z, u)
    BY <1>5, <1>7 DEF Relinked
  <1>9. QED
    BY <1>2, <1>3, <1>4, <1>8, Zenon

LEMMA RelinkedSame ==
    ASSUME NEW w, NEW v, NEW u, Relinked(w, v, u), NEW z, SameTree(v, z)
    PROVE  Relinked(w, z, u)
  BY SameTreeSane DEF Relinked, SameTree

\* The links after a move.
Moved(t, n, addAction, x) == Place(Node_Remove(t, n), n, addAction, x)

LEMMA MoveSane ==
    ASSUME NEW w, SaneWorld(w), NEW n \in w.nodes, NEW x \in w.nodes,
           NEW addAction \in 0 .. 3, addAction \in {0, 1} => w.mIsGroup[x],
           NEW announce \in BOOLEAN
    PROVE  Relinked(w, Move(w, n, addAction, x, announce), Moved(w.t, n, addAction, x))
  <1>1. PICK u : u = Moved(w.t, n, addAction, x)
    OBVIOUS
  <1>2. PICK v : v = Node_Remove(w.t, n)
    OBVIOUS
  <1>3. w.nodes \in SUBSET Node /\ n \in Node /\ w.t \in Links
    BY WorldType DEF SaneWorld
  <1>4. Sane(v, w.nodes, w.mIsGroup) /\ Loose(v, n)
    BY <1>2, <1>3, RemoveSane, RemoveLinked DEF SaneWorld, Sane
  <1>5. Sane(u, w.nodes, w.mIsGroup)
    BY <1>1, <1>2, <1>3, <1>4, PlaceSane DEF Moved
  <1>6. PICK z : z = [w EXCEPT !.t = u]
    OBVIOUS
  <1>7. Relinked(w, z, u) /\ z \in World
    BY <1>5, <1>6, RelinkedWorld DEF Relinked, SaneWorld
  <1>8. Move(w, n, addAction, x, announce) = IF announce THEN Node_StateMsg(z, n, "move") ELSE z
    BY <1>1, <1>6, Zenon DEF Move, Moved
  <1>9. SameTree(z, Node_StateMsg(z, n, "move"))
    BY <1>3, <1>7, StateMsgSame
  <1>10. QED
    BY <1>1, <1>7, <1>8, <1>9, RelinkedSame

\* A move that careful clients ask for.
LEMMA MoveHeld ==
    ASSUME NEW w, SaneWorld(w), Held(w), NEW n \in w.nodes, NEW x \in w.nodes,
           NEW addAction \in 0 .. 3, addAction \in {0, 1} => w.mIsGroup[x],
           addAction \in {2, 3} => x # Root, x \notin {n} \cup Below(w.t, n),
           NEW v, Relinked(w, v, Moved(w.t, n, addAction, x))
    PROVE  Held(v) /\ n # Root
  <1>1. PICK r : r = Node_Remove(w.t, n)
    OBVIOUS
  <1>2. w.nodes \in SUBSET Node /\ n \in Node /\ x \in Node /\ w.t \in Links
        /\ Sane(w.t, w.nodes, w.mIsGroup)
    BY WorldType DEF SaneWorld
  <1>3. Sane(r, w.nodes, w.mIsGroup) /\ Loose(r, n) /\ Without(r, w.t, n)
    BY <1>1, <1>2, RemoveSane, RemoveLinked, RemoveFields DEF Sane
  <1>4. n # Root /\ x # n
    BY DEF Held
  <1>5. PICK g : g = GroupOf(r, addAction, x)
    OBVIOUS
  <1>6. g \in w.nodes /\ g # n /\ g \notin Below(w.t, n)
    <2>1. CASE addAction \in {0, 1}
      BY <2>1, <1>5 DEF GroupOf
    <2>2. CASE addAction \notin {0, 1}
      <3>1. g = w.t.mParent[x]
        BY <2>2, <1>2, <1>3, <1>4, <1>5 DEF GroupOf, Without
      <3>2. x \in Below(w.t, Root)
        BY <2>2 DEF Held
      <3>3. g # Null
        <4>1. g \in Below(w.t, Root) \cup {Root}
          BY <3>1, <3>2, BelowUp
        <4>2. QED
          BY <4>1, RootAssumption DEF Below
      <3>4. g \in w.nodes
        BY <3>1, <3>3, <1>2 DEF Sane, Within
      <3>5. g # n /\ g \notin Below(w.t, n)
        BY <3>1, <1>2, BelowClosed
      <3>6. QED
        BY <3>4, <3>5
    <2>3. QED
      BY <2>1, <2>2
  <1>7. \A y \in Node : v.t.mParent[y] = IF y = n THEN g ELSE w.t.mParent[y]
    <2>1. g # Null
      BY <1>2, <1>6, RootAssumption
    <2>2. Joined(Place(r, n, addAction, x), r, n, g)
      BY <1>2, <1>3, <1>5, PlaceSane
    <2>3. v.t = Place(r, n, addAction, x)
      BY <1>1 DEF Relinked, Moved
    <2>4. Joined(v.t, r, n, g)
      BY <2>2, <2>3
    <2>5. \A y \in Node : r.mParent[y] = IF y = n THEN Null ELSE w.t.mParent[y]
      BY <1>3, Zenon DEF Without
    <2>6. QED
      BY <2>1, <2>4, <2>5, <1>4 DEF Joined
  <1>8. w.nodes \ {Root, n} \subseteq Below(w.t, Root)
    BY DEF Held
  <1>9. w.nodes \ {Root} \subseteq Below(v.t, Root)
    BY <1>2, <1>6, <1>7, <1>8, MovedHeld
  <1>10. QED
    BY <1>4, <1>9 DEF Held, Relinked

\* v is w with a new node n, which is in no group yet.
Grown(w, v, n) ==
    /\ SaneWorld(v)
    /\ v.t = w.t /\ v.nodes = w.nodes \cup {n}
    /\ \A x \in w.nodes : v.mIsGroup[x] = w.mIsGroup[x]

LEMMA NewGrown ==
    ASSUME NEW w, SaneWorld(w), NEW n \in Node, n \notin w.nodes,
           NEW id \in ID \cup {Hidden}, id = Hidden \/ \A m \in w.nodes : w.mID[m] # id,
           NEW isGroup \in BOOLEAN
    PROVE  Grown(w, Node_New(w, n, id, isGroup), n)
  <1>1. w \in World /\ Root \in w.nodes /\ w.mIsGroup[Root] /\ w.mID[Root] = 0 /\ UniqueIDs(w)
        /\ Sane(w.t, w.nodes, w.mIsGroup) /\ w.nodes \in SUBSET Node
    BY WorldType DEF SaneWorld
  <1>2. PICK G : G = [w.mIsGroup EXCEPT ![n] = isGroup]
    OBVIOUS
  <1>3. PICK I : I = [w.mID EXCEPT ![n] = id]
    OBVIOUS
  <1>4. PICK F : F = [w.mCalcFunc EXCEPT ![n] = IF isGroup THEN "Group_Calc"
                                                ELSE "Graph_FirstCalc"]
    OBVIOUS
  <1>5. PICK v : v = [t |-> w.t, nodes |-> w.nodes \cup {n}, mIsGroup |-> G, mID |-> I,
                      mCalcFunc |-> F, built |-> w.built,
                      unbuiltDtor |-> w.unbuiltDtor, notes |-> w.notes]
    OBVIOUS
  <1>6. Node_New(w, n, id, isGroup) = v
    <2>1. PICK d : d = Node_New(w, n, id, isGroup)
      OBVIOUS
    <2>2. d = [w EXCEPT !.nodes = w.nodes \cup {n}, !.mIsGroup[n] = isGroup, !.mID[n] = id,
                        !.mCalcFunc[n] = IF isGroup THEN "Group_Calc" ELSE "Graph_FirstCalc"]
      BY <2>1, Zenon DEF Node_New
    <2>3. d = [t |-> w.t, nodes |-> w.nodes \cup {n},
               mIsGroup |-> [w.mIsGroup EXCEPT ![n] = isGroup],
               mID |-> [w.mID EXCEPT ![n] = id],
               mCalcFunc |-> [w.mCalcFunc EXCEPT ![n] = IF isGroup THEN "Group_Calc"
                                                        ELSE "Graph_FirstCalc"],
               built |-> w.built, unbuiltDtor |-> w.unbuiltDtor, notes |-> w.notes]
      BY <2>2, <1>1 DEF World
    <2>4. d = v
      BY <2>3, <1>2, <1>3, <1>4, <1>5, Zenon
    <2>5. QED
      BY <2>1, <2>4
  <1>7. /\ G \in [Node -> BOOLEAN] /\ I \in [Node -> ID \cup {0, Hidden}]
        /\ F \in [Node -> CalcFunc]
        /\ \A x \in w.nodes : G[x] = w.mIsGroup[x] /\ I[x] = w.mID[x]
        /\ I[n] = id
    <2>1. G \in [Node -> BOOLEAN] /\ \A x \in w.nodes : G[x] = w.mIsGroup[x]
      BY <1>1, <1>2, WorldType
    <2>2. I \in [Node -> ID \cup {0, Hidden}] /\ I[n] = id
          /\ \A x \in w.nodes : I[x] = w.mID[x]
      BY <1>1, <1>3, WorldType
    <2>3. F \in [Node -> CalcFunc]
      BY <1>1, <1>4, WorldType DEF CalcFunc
    <2>4. QED
      BY <2>1, <2>2, <2>3
  <1>8. /\ v.t = w.t /\ v.nodes = w.nodes \cup {n} /\ v.mIsGroup = G /\ v.mID = I
    BY <1>5
  <1>9. v \in World
    BY <1>1, <1>5, <1>7 DEF World
  <1>10. UniqueIDs(v)
    BY <1>1, <1>7, <1>8 DEF UniqueIDs
  <1>11. Sane(v.t, v.nodes, v.mIsGroup)
    <2>1. Within(w.t, w.nodes \cup {n})
      BY <1>1 DEF Sane, Within
    <2>2. Grouped(w.t, G)
      <3>1. \A x \in Node : w.t.mParent[x] # Null => w.t.mParent[x] \in w.nodes
        BY <1>1 DEF Sane, Within
      <3>2. QED
        BY <3>1, <1>1, <1>7 DEF Sane, Grouped
    <2>3. QED
      BY <2>1, <2>2, <1>1, <1>8 DEF Sane
  <1>12. SaneWorld(v)
    BY <1>1, <1>7, <1>8, <1>9, <1>10, <1>11 DEF SaneWorld
  <1>13. Grown(w, v, n)
    BY <1>7, <1>8, <1>12 DEF Grown
  <1>14. QED
    BY <1>6, <1>13

\* A new node has no links, and is no other node's parent.
LEMMA GrownLoose ==
    ASSUME NEW w, SaneWorld(w), NEW v, NEW n \in Node, n \notin w.nodes, Grown(w, v, n)
    PROVE  /\ Loose(v.t, n) /\ v.t.mHead[n] = Null /\ v.t.mTail[n] = Null
           /\ \A x \in Node : v.t.mParent[x] # n
           /\ Below(v.t, n) = {}
  <1>1. Within(w.t, w.nodes) /\ v.t = w.t
    BY DEF SaneWorld, Sane, Grown
  <1>2. \A x \in Node : v.t.mParent[x] # n
    BY <1>1, RootAssumption DEF Within
  <1>3. Below(v.t, n) \subseteq {}
    <2>1. \A x \in Node : v.t.mParent[x] \in {} \cup {n} => x \in {}
      BY <1>2
    <2>2. {} \in SUBSET Node
      OBVIOUS
    <2>3. QED
      BY <2>1, <2>2, BelowLeast
  <1>4. QED
    BY <1>1, <1>2, <1>3 DEF Within, Loose

\* The new node in its place.
LEMMA NewPlaced ==
    ASSUME NEW w, SaneWorld(w), NEW v, NEW n \in Node, n \notin w.nodes, Grown(w, v, n),
           NEW x \in w.nodes, NEW addAction \in 0 .. 3, addAction \in {0, 1} => w.mIsGroup[x],
           NEW u, u = Place(v.t, n, addAction, x)
    PROVE  /\ Relinked(v, [v EXCEPT !.t = u], u)
           /\ Held(w) /\ (addAction \in {2, 3} => x # Root) => Held([v EXCEPT !.t = u])
  <1>1. /\ SaneWorld(v) /\ v.nodes \in SUBSET Node /\ Sane(v.t, v.nodes, v.mIsGroup)
        /\ n \in v.nodes /\ x \in v.nodes /\ x \in Node /\ v.t = w.t /\ n # x
        /\ addAction \in {0, 1} => v.mIsGroup[x]
    BY WorldType DEF Grown, SaneWorld
  <1>2. Loose(v.t, n) /\ Below(v.t, n) = {}
    BY GrownLoose
  <1>3. Sane(u, v.nodes, v.mIsGroup) /\ Joined(u, v.t, n, GroupOf(v.t, addAction, x))
    BY <1>1, <1>2, PlaceSane
  <1>4. PICK z : z = [v EXCEPT !.t = u]
    OBVIOUS
  <1>5. Relinked(v, z, u)
    BY <1>1, <1>3, <1>4, RelinkedWorld
  <1>6. ASSUME Held(w), addAction \in {2, 3} => x # Root
        PROVE  Held(z)
    <2>1. PICK g : g = GroupOf(v.t, addAction, x)
      OBVIOUS
    <2>2. g \in v.nodes /\ g # n
      <3>1. CASE addAction \in {0, 1}
        BY <3>1, <2>1, <1>1 DEF GroupOf
      <3>2. CASE addAction \notin {0, 1}
        <4>1. g = w.t.mParent[x]
          BY <3>2, <2>1, <1>1 DEF GroupOf
        <4>2. x \in Below(w.t, Root)
          BY <3>2, <1>6 DEF Held
        <4>3. g \in Below(w.t, Root) \cup {Root}
          BY <4>1, <4>2, BelowUp
        <4>4. g # Null
          BY <4>3, RootAssumption DEF Below
        <4>5. g \in w.nodes
          BY <4>1, <4>4, <1>1 DEF SaneWorld, Sane, Within
        <4>6. QED
          BY <4>5 DEF Grown
      <3>3. QED
        BY <3>1, <3>2
    <2>3. n # Root /\ g # Null
      BY <2>2, <1>1, RootAssumption DEF SaneWorld
    <2>4. \A y \in Node : u.mParent[y] = IF y = n THEN g ELSE v.t.mParent[y]
      BY <2>1, <2>3, <1>3 DEF Joined
    <2>5. v.nodes \ {Root, n} \subseteq Below(v.t, Root)
      BY <1>1, <1>6 DEF Held, Grown
    <2>6. v.nodes \ {Root} \subseteq Below(u, Root)
      <3>1. g \notin Below(v.t, n)
        BY <1>2
      <3>2. QED
        BY <1>1, <2>2, <2>4, <2>5, <3>1, MovedHeld
    <2>7. QED
      BY <2>6, <1>5 DEF Relinked, Held
  <1>7. QED
    BY <1>4, <1>5, <1>6, Zenon

\* Taking the ID away.
LEMMA RemoveIDSane ==
    ASSUME NEW w, SaneWorld(w), NEW n \in Node
    PROVE  Relinked(w, Node_RemoveID(w, n), w.t)
  <1>1. CASE n = Root
    BY <1>1 DEF Node_RemoveID, Relinked
  <1>2. CASE n # Root
    <2>1. w \in World
      BY DEF SaneWorld
    <2>2. PICK I : I = [w.mID EXCEPT ![n] = Hidden]
      OBVIOUS
    <2>3. I \in [Node -> ID \cup {0, Hidden}]
          /\ \A x \in Node : I[x] = IF x = n THEN Hidden ELSE w.mID[x]
      BY <2>1, <2>2, WorldType
    <2>4. PICK d : d = Node_RemoveID(w, n)
      OBVIOUS
    <2>5. d = [w EXCEPT !.mID[n] = Hidden]
      BY <1>2, <2>4 DEF Node_RemoveID
    <2>6. d = [t |-> w.t, nodes |-> w.nodes, mIsGroup |-> w.mIsGroup,
               mID |-> [w.mID EXCEPT ![n] = Hidden],
               mCalcFunc |-> w.mCalcFunc, built |-> w.built,
               unbuiltDtor |-> w.unbuiltDtor, notes |-> w.notes]
      BY <2>1, <2>5 DEF World
    <2>7. PICK v : v = [t |-> w.t, nodes |-> w.nodes, mIsGroup |-> w.mIsGroup, mID |-> I,
                        mCalcFunc |-> w.mCalcFunc, built |-> w.built,
                        unbuiltDtor |-> w.unbuiltDtor, notes |-> w.notes]
      OBVIOUS
    <2>8. d = v
      BY <2>2, <2>6, <2>7, Zenon
    <2>9. /\ v.t = w.t /\ v.nodes = w.nodes /\ v.mIsGroup = w.mIsGroup /\ v.mID = I
      BY <2>7
    <2>10. v \in World
      BY <2>1, <2>3, <2>7 DEF World
    <2>11. UniqueIDs(v)
      BY <2>1, <2>3, <2>9, WorldType DEF SaneWorld, UniqueIDs
    <2>12. SaneWorld(v)
      BY <1>2, <2>3, <2>9, <2>10, <2>11, RootAssumption DEF SaneWorld
    <2>13. QED
      BY <2>4, <2>8, <2>9, <2>12 DEF Relinked
  <1>3. QED
    BY <1>1, <1>2

\* A new node that replaces another.
LEMMA ReplaceSane ==
    ASSUME NEW w, SaneWorld(w), NEW made, NEW n \in Node, n \notin w.nodes, Grown(w, made, n),
           NEW target \in w.nodes
    PROVE  /\ SaneWorld(Node_Replace(made, n, target))
           /\ Held(w) /\ target # Root => Held(Node_Replace(made, n, target))
  <1>1. /\ SaneWorld(made) /\ made.nodes \in SUBSET Node
        /\ Sane(made.t, made.nodes, made.mIsGroup)
        /\ n \in made.nodes /\ target \in made.nodes /\ target \in Node /\ n # target
        /\ made.t = w.t /\ made.nodes = w.nodes \cup {n} /\ n # Root
    BY WorldType DEF Grown, SaneWorld
  <1>2. /\ Loose(made.t, n) /\ made.t.mHead[n] = Null /\ made.t.mTail[n] = Null
        /\ Below(made.t, n) = {}
    BY GrownLoose
  <1>3. CASE made.t.mParent[target] = Null
    <2>1. Node_Replace(made, n, target) = made
      BY <1>3 DEF Node_Replace
    <2>2. ASSUME Held(w), target # Root PROVE FALSE
      <3>1. target \in Below(w.t, Root)
        BY <2>2 DEF Held
      <3>2. w.t.mParent[target] \in Below(w.t, Root) \cup {Root}
        BY <3>1, BelowUp
      <3>3. QED
        BY <3>2, <1>1, <1>3, RootAssumption DEF Below
    <2>3. QED
      BY <1>1, <2>1, <2>2
  <1>4. CASE made.t.mParent[target] # Null
    <2>1. PICK s : s = Node_TakePlace(made.t, n, target)
      OBVIOUS
    <2>2. PICK u : u = [made EXCEPT !.t = s]
      OBVIOUS
    <2>3. PICK v : v = Node_Delete(u, target)
      OBVIOUS
    <2>4. Node_Replace(made, n, target) = v
      BY <1>4, <2>1, <2>2, <2>3, Zenon DEF Node_Replace
    <2>5. Sane(s, made.nodes, made.mIsGroup) /\ TookPlace(s, made.t, n, target)
      BY <1>1, <1>2, <1>4, <2>1, TakePlaceSane
    <2>6. Relinked(made, u, s)
      BY <1>1, <2>2, <2>5, RelinkedWorld
    <2>7. target # Root
      BY <1>1, <1>4 DEF Sane
    <2>8. PICK D : D = {target} \cup Below(u.t, target)
      OBVIOUS
    <2>9. Pruned(u, v, D)
      BY <1>1, <2>3, <2>6, <2>7, <2>8, DeletePruned DEF Relinked
    <2>10. ASSUME Held(w) PROVE Held(v)
      <3>1. PICK g : g = made.t.mParent[target]
        OBVIOUS
      <3>2. g \in made.nodes /\ g # n
        BY <3>1, <1>1, <1>4, GrownLoose DEF Sane, Within
      <3>3. PICK p : p = [y \in Node |-> IF y = n THEN g ELSE made.t.mParent[y]]
        OBVIOUS
      <3>4. PICK k : k = [mParent |-> p]
        OBVIOUS
      <3>5. \A y \in Node : k.mParent[y] = IF y = n THEN g ELSE made.t.mParent[y]
        BY <3>3, <3>4
      <3>6. made.nodes \ {Root} \subseteq Below(k, Root)
        <4>1. made.nodes \ {Root, n} \subseteq Below(made.t, Root)
          BY <1>1, <2>10 DEF Held
        <4>2. g \notin Below(made.t, n)
          BY <1>2
        <4>3. QED
          BY <4>1, <4>2, <3>2, <3>5, <1>1, MovedHeld
      <3>7. Cut(k, v.t, D)
        <4>1. /\ D \in SUBSET Node /\ Root \notin D
              /\ \A x \in Node : s.mParent[x] \in D => x \in D
              /\ \A x \in Node \ D : v.t.mParent[x] = s.mParent[x]
          BY <2>6, <2>9 DEF Pruned, Cut, Relinked
        <4>2. \A x \in Node : x # target => s.mParent[x] = k.mParent[x]
          BY <2>5, <3>1, <3>5 DEF TookPlace
        <4>3. target \in D
          BY <2>8
        <4>4. QED
          BY <4>1, <4>2, <4>3 DEF Cut
      <3>8. Below(k, Root) \ D \subseteq Below(v.t, Root)
        BY <3>7, BelowCut
      <3>9. v.nodes = made.nodes \ D
        BY <2>6, <2>9 DEF Pruned, Relinked
      <3>10. QED
        BY <3>6, <3>8, <3>9 DEF Held
    <2>11. QED
      BY <2>4, <2>9, <2>10 DEF Pruned
  <1>5. QED
    BY <1>3, <1>4

-----------------------------------------------------------------------------
(* The walk. *)

\* No group whose call is under way is below a child of the innermost one, or
\* is that child.
LEMMA StackAbove ==
    ASSUME NEW w, SaneWorld(w), NEW calls \in Seq(Frame), Walked(w, calls), calls # <<>>,
           NEW m \in Node, w.t.mParent[m] = calls[1].group, NEW i \in 1 .. Len(calls)
    PROVE  calls[i].group \notin {m} \cup Below(w.t, m)
  <1>1. Len(calls) \in Nat /\ 1 \in 1 .. Len(calls) /\ w.nodes \in SUBSET Node
    BY WorldType DEF SaneWorld
  <1> DEFINE S == Node \ {calls[j].group : j \in 1 .. Len(calls)}
  <1>2. \A j \in 1 .. Len(calls) : calls[j].group # m
    <2> SUFFICES ASSUME NEW j \in 1 .. Len(calls), calls[j].group = m PROVE FALSE
      OBVIOUS
    <2>1. calls[1].group \in Node
      BY <1>1 DEF Walked
    <2>2. j # Len(calls)
      BY <2>1, RootAssumption DEF Walked
    <2>3. j + 1 \in 1 .. Len(calls) /\ calls[j + 1].group = calls[1].group
      BY <2>2, <1>1 DEF Walked
    <2>4. j + 1 = 1
      BY <2>3, <1>1 DEF Walked
    <2>5. QED
      BY <2>4
  <1>3. ASSUME NEW x \in Node, x \notin S PROVE w.t.mParent[x] \notin S \cup {m}
    <2>1. PICK j \in 1 .. Len(calls) : x = calls[j].group
      BY <1>3
    <2>2. CASE j = Len(calls)
      <3>1. w.t.mParent[x] = Null
        BY <2>1, <2>2 DEF Walked
      <3>2. QED
        BY <3>1, RootAssumption
    <2>3. CASE j # Len(calls)
      <3>1. j + 1 \in 1 .. Len(calls) /\ w.t.mParent[x] = calls[j + 1].group
        BY <2>1, <2>3, <1>1 DEF Walked
      <3>2. QED
        BY <3>1, <1>2
    <2>4. QED
      BY <2>2, <2>3
  <1>4. Below(w.t, m) \subseteq S
    <2>1. S \in SUBSET Node
      OBVIOUS
    <2> HIDE DEF S
    <2>2. QED
      BY <2>1, <1>3, BelowLeast
  <1>5. QED
    BY <1>2, <1>4

\* The calls under way outlast the deletion of nodes that they do not use.
LEMMA PrunedWalked ==
    ASSUME NEW w, NEW v, NEW D, Pruned(w, v, D), SaneWorld(w), NEW calls, Walked(w, calls),
           \A i \in 1 .. Len(calls) : calls[i].group \notin D /\ calls[i].child \notin D
    PROVE  Walked(v, calls)
  <1>1. \A x \in Node \ D : v.t.mParent[x] = w.t.mParent[x]
    BY DEF Pruned, Cut
  <1>2. v.nodes = w.nodes \ D /\ w.nodes \in SUBSET Node
    BY WorldType DEF Pruned, SaneWorld
  <1>3. QED
    BY <1>1, <1>2 DEF Walked

\* Node n is being called from the calls under way.
Called(w, calls, n) ==
    /\ SaneWorld(w)
    /\ calls \in Seq(Frame) /\ Walked(w, calls)
    /\ n \in w.nodes
    /\ w.t.mParent[n] = IF calls = <<>> THEN Null ELSE calls[1].group

\* From w to v the node and the calls keep what they rely on.
Stays(w, v, calls, n) == Called(v, calls, n) /\ (Held(w) => Held(v))

LEMMA StaysTrans ==
    ASSUME NEW u, NEW v, NEW w, NEW calls, NEW n,
           Stays(u, v, calls, n), Stays(v, w, calls, n)
    PROVE  Stays(u, w, calls, n)
  BY DEF Stays

LEMMA SameStays ==
    ASSUME NEW w, NEW v, NEW calls, NEW n, Called(w, calls, n), SameTree(w, v)
    PROVE  Stays(w, v, calls, n)
  <1>1. SaneWorld(v)
    BY SameTreeSane DEF Called
  <1>2. v.t = w.t /\ v.nodes = w.nodes
    BY DEF SameTree
  <1>3. Walked(v, calls)
    BY <1>2 DEF Called, Walked
  <1>4. QED
    BY <1>1, <1>2, <1>3 DEF Stays, Called, Held

\* What goes on below a node next to n does not concern n and the calls.
LEMMA PrunedStays ==
    ASSUME NEW w, NEW v, NEW calls, NEW n, Called(w, calls, n), NEW m \in Node,
           w.t.mParent[m] = w.t.mParent[n], w.t.mParent[n] # Null,
           NEW D, Pruned(w, v, D), D \subseteq Below(w.t, m)
    PROVE  Stays(w, v, calls, n)
  <1>1. /\ SaneWorld(w) /\ calls \in Seq(Frame) /\ Walked(w, calls) /\ calls # <<>>
        /\ w.t.mParent[m] = calls[1].group /\ w.t.mParent[n] = calls[1].group
        /\ n \in w.nodes /\ n \in Node /\ 1 \in 1 .. Len(calls)
    BY WorldType DEF Called, SaneWorld
  <1>2. ASSUME NEW i \in 1 .. Len(calls)
        PROVE  calls[i].group \notin {m} \cup Below(w.t, m)
    BY <1>1, StackAbove
  <1>3. ASSUME NEW i \in 1 .. Len(calls)
        PROVE  calls[i].child \notin D
    <2>1. CASE calls[i].child = Null
      BY <2>1, RootAssumption DEF Below
    <2>2. CASE calls[i].child # Null
      <3>1. w.t.mParent[calls[i].child] = calls[i].group
        BY <1>1, <2>2 DEF Walked
      <3>2. QED
        BY <3>1, <1>2, BelowUp
    <2>3. QED
      BY <2>1, <2>2
  <1>4. Walked(v, calls)
    BY <1>1, <1>2, <1>3, PrunedWalked
  <1>5. n \notin D
    BY <1>1, <1>2, BelowUp
  <1>6. SaneWorld(v) /\ n \in v.nodes /\ v.t.mParent[n] = w.t.mParent[n]
    BY <1>1, <1>5 DEF Pruned, Cut
  <1>7. Held(w) => Held(v)
    BY PrunedHeld
  <1>8. QED
    BY <1>1, <1>4, <1>6, <1>7 DEF Stays, Called

\* What a done action does to a neighbour m of node n.
LEMMA NeighbourStays ==
    ASSUME NEW w, NEW calls, NEW n, Called(w, calls, n), NEW m \in Node,
           w.t.mParent[m] = w.t.mParent[n], w.t.mParent[n] # Null
    PROVE  /\ Stays(w, Node_End(w, m), calls, n)
           /\ Stays(w, FreeGroup(w, m), calls, n)
           /\ Stays(w, DeepFree(w, m), calls, n)
           /\ Stays(w, Node_SetRun(w, m, TRUE), calls, n)
           /\ Stays(w, Node_SetRun(w, m, FALSE), calls, n)
  <1>1. w \in World /\ SaneWorld(w)
    BY DEF Called, SaneWorld
  <1>2. /\ SameTree(w, Node_End(w, m))
        /\ SameTree(w, Node_SetRun(w, m, TRUE)) /\ SameTree(w, Node_SetRun(w, m, FALSE))
    BY <1>1, EndSame, SetRunSame
  <1>3. /\ Stays(w, Node_End(w, m), calls, n)
        /\ Stays(w, Node_SetRun(w, m, TRUE), calls, n)
        /\ Stays(w, Node_SetRun(w, m, FALSE), calls, n)
    BY <1>2, SameStays
  <1>4. Stays(w, Group_DeleteAll(w, m), calls, n)
    <2>1. PICK D : D = Below(w.t, m)
      OBVIOUS
    <2>2. Pruned(w, Group_DeleteAll(w, m), D) /\ D \subseteq Below(w.t, m)
      BY <1>1, <2>1, DeleteAllPruned
    <2>3. QED
      BY <2>2, PrunedStays
  <1>5. Stays(w, Group_DeepFreeGraphs(w, m), calls, n)
    <2>1. PICK D : D = {x \in Below(w.t, m) : ~w.mIsGroup[x]}
      OBVIOUS
    <2>2. Pruned(w, Group_DeepFreeGraphs(w, m), D) /\ D \subseteq Below(w.t, m)
      BY <1>1, <2>1, DeepFreePruned
    <2>3. QED
      BY <2>2, PrunedStays
  <1>6. QED
    BY <1>3, <1>4, <1>5 DEF FreeGroup, DeepFree

\* What a done action of node n can make of the world w.
DoneShape(w, n, v) ==
    LET ended == Node_End(w, n)
        next == w.t.mNext[n]
    IN  \/ v \in {w, ended, Node_SetRun(w, n, FALSE), Node_End(w, w.t.mParent[n])}
        \/ \E S : v = EndAll(w, S)
        \/ \E m \in {w.t.mPrev[n], next} \ {Null} :
              v \in {Node_End(ended, m), FreeGroup(ended, m), DeepFree(ended, m),
                     Node_SetRun(ended, m, FALSE)}
        \/ next # Null /\ v = Node_SetRun(ended, next, TRUE)

LEMMA DoneActionShape ==
    ASSUME NEW w, NEW n, NEW action \in 1 .. 15, NEW v, v = Unit_DoneAction(w, n, action)
    PROVE  DoneShape(w, n, v)
  <1>1. PICK prev : prev = w.t.mPrev[n]
    OBVIOUS
  <1>2. PICK next : next = w.t.mNext[n]
    OBVIOUS
  <1>3. PICK ended : ended = Node_End(w, n)
    OBVIOUS
  <1>4. PICK paused : paused = Node_SetRun(w, n, FALSE)
    OBVIOUS
  <1>5. PICK pausedPrev : pausedPrev = Node_SetRun(ended, prev, FALSE)
    OBVIOUS
  <1>6. PICK pausedNext : pausedNext = Node_SetRun(ended, next, FALSE)
    OBVIOUS
  <1>7. PICK resumedNext : resumedNext = Node_SetRun(ended, next, TRUE)
    OBVIOUS
  <1>8. v =
         CASE action = 1 -> paused
           [] action = 2 -> ended
           [] action = 3 -> IF prev = Null THEN ended ELSE Node_End(ended, prev)
           [] action = 4 -> IF next = Null THEN ended ELSE Node_End(ended, next)
           [] action = 5 -> IF prev = Null THEN ended ELSE FreeGroup(ended, prev)
           [] action = 6 -> IF next = Null THEN ended ELSE FreeGroup(ended, next)
           [] action = 7 -> EndAll(w, Upto(w, n, w.t.mPrev))
           [] action = 8 -> EndAll(w, Upto(w, n, w.t.mNext))
           [] action = 9 -> IF prev = Null THEN ended ELSE pausedPrev
           [] action = 10 -> IF next = Null THEN ended ELSE pausedNext
           [] action = 11 -> IF prev = Null THEN ended ELSE DeepFree(ended, prev)
           [] action = 12 -> IF next = Null THEN ended ELSE DeepFree(ended, next)
           [] action = 13 -> EndAll(w, Children(w.t, {w.t.mParent[n]}))
           [] action = 14 -> Node_End(w, w.t.mParent[n])
           [] action = 15 -> IF next = Null THEN ended ELSE resumedNext
    BY <1>1, <1>2, <1>3, <1>4, <1>5, <1>6, <1>7, Zenon DEF Unit_DoneAction
  <1>9. /\ v = w \/ v = paused \/ v = ended => DoneShape(w, n, v)
        /\ v = Node_End(w, w.t.mParent[n]) => DoneShape(w, n, v)
        /\ \A S : v = EndAll(w, S) => DoneShape(w, n, v)
        /\ prev # Null /\ v = Node_End(ended, prev) => DoneShape(w, n, v)
        /\ prev # Null /\ v = FreeGroup(ended, prev) => DoneShape(w, n, v)
        /\ prev # Null /\ v = DeepFree(ended, prev) => DoneShape(w, n, v)
        /\ prev # Null /\ v = pausedPrev => DoneShape(w, n, v)
        /\ next # Null /\ v = Node_End(ended, next) => DoneShape(w, n, v)
        /\ next # Null /\ v = FreeGroup(ended, next) => DoneShape(w, n, v)
        /\ next # Null /\ v = DeepFree(ended, next) => DoneShape(w, n, v)
        /\ next # Null /\ v = pausedNext => DoneShape(w, n, v)
        /\ next # Null /\ v = resumedNext => DoneShape(w, n, v)
    BY <1>1, <1>2, <1>3, <1>4, <1>5, <1>6, <1>7, Zenon DEF DoneShape
  <1>10. QED
    <2>1. CASE action = 1
      <3>1. v = paused
        BY <2>1, <1>8
      <3>2. QED
        BY <3>1, <1>9
    <2>2. CASE action = 2
      <3>1. v = ended
        BY <2>2, <1>8
      <3>2. QED
        BY <3>1, <1>9
    <2>3. CASE action = 3
      <3>1. v = IF prev = Null THEN ended ELSE Node_End(ended, prev)
        BY <2>3, <1>8
      <3>2. QED
        BY <3>1, <1>9
    <2>4. CASE action = 4
      <3>1. v = IF next = Null THEN ended ELSE Node_End(ended, next)
        BY <2>4, <1>8
      <3>2. QED
        BY <3>1, <1>9
    <2>5. CASE action = 5
      <3>1. v = IF prev = Null THEN ended ELSE FreeGroup(ended, prev)
        BY <2>5, <1>8
      <3>2. QED
        BY <3>1, <1>9
    <2>6. CASE action = 6
      <3>1. v = IF next = Null THEN ended ELSE FreeGroup(ended, next)
        BY <2>6, <1>8
      <3>2. QED
        BY <3>1, <1>9
    <2>7. CASE action = 7
      <3>1. v = EndAll(w, Upto(w, n, w.t.mPrev))
        BY <2>7, <1>8
      <3>2. QED
        BY <3>1, <1>9
    <2>8. CASE action = 8
      <3>1. v = EndAll(w, Upto(w, n, w.t.mNext))
        BY <2>8, <1>8
      <3>2. QED
        BY <3>1, <1>9
    <2>9. CASE action = 9
      <3>1. v = IF prev = Null THEN ended ELSE pausedPrev
        BY <2>9, <1>8
      <3>2. QED
        BY <3>1, <1>9
    <2>10. CASE action = 10
      <3>1. v = IF next = Null THEN ended ELSE pausedNext
        BY <2>10, <1>8
      <3>2. QED
        BY <3>1, <1>9
    <2>11. CASE action = 11
      <3>1. v = IF prev = Null THEN ended ELSE DeepFree(ended, prev)
        BY <2>11, <1>8
      <3>2. QED
        BY <3>1, <1>9
    <2>12. CASE action = 12
      <3>1. v = IF next = Null THEN ended ELSE DeepFree(ended, next)
        BY <2>12, <1>8
      <3>2. QED
        BY <3>1, <1>9
    <2>13. CASE action = 13
      <3>1. v = EndAll(w, Children(w.t, {w.t.mParent[n]}))
        BY <2>13, <1>8
      <3>2. QED
        BY <3>1, <1>9
    <2>14. CASE action = 14
      <3>1. v = Node_End(w, w.t.mParent[n])
        BY <2>14, <1>8
      <3>2. QED
        BY <3>1, <1>9
    <2>15. CASE action = 15
      <3>1. v = IF next = Null THEN ended ELSE resumedNext
        BY <2>15, <1>8
      <3>2. QED
        BY <3>1, <1>9
    <2>16. QED
      BY <2>1, <2>2, <2>3, <2>4, <2>5, <2>6, <2>7,
         <2>8, <2>9, <2>10, <2>11, <2>12, <2>13, <2>14, <2>15

LEMMA DoneActionStays ==
    ASSUME NEW w, NEW calls, NEW n, Called(w, calls, n), NEW action \in 1 .. 15
    PROVE  Stays(w, Unit_DoneAction(w, n, action), calls, n)
  <1>1. /\ w \in World /\ SaneWorld(w) /\ n \in Node /\ w.t \in Links /\ Linked(w.t)
        /\ w.t.mPrev[n] \in NodeOrNull /\ w.t.mNext[n] \in NodeOrNull
    BY WorldType, LinksType DEF Called, SaneWorld, Sane
  <1>2. PICK prev : prev = w.t.mPrev[n]
    OBVIOUS
  <1>3. PICK next : next = w.t.mNext[n]
    OBVIOUS
  <1>4. PICK ended : ended = Node_End(w, n)
    OBVIOUS
  <1>5. SameTree(w, ended) /\ ended.t = w.t
    BY <1>1, <1>4, EndSame DEF SameTree
  <1>6. Stays(w, ended, calls, n) /\ Called(ended, calls, n)
    BY <1>5, SameStays DEF Stays
  <1>7. /\ prev # Null => /\ prev \in Node /\ w.t.mParent[prev] = w.t.mParent[n]
                          /\ w.t.mParent[n] # Null
        /\ next # Null => /\ next \in Node /\ w.t.mParent[next] = w.t.mParent[n]
                          /\ w.t.mParent[n] # Null
    BY <1>1, <1>2, <1>3 DEF Linked, NodeOrNull
  <1>8. ASSUME NEW m \in {prev, next}, m # Null
        PROVE  /\ Stays(w, Node_End(ended, m), calls, n)
               /\ Stays(w, FreeGroup(ended, m), calls, n)
               /\ Stays(w, DeepFree(ended, m), calls, n)
               /\ Stays(w, Node_SetRun(ended, m, TRUE), calls, n)
               /\ Stays(w, Node_SetRun(ended, m, FALSE), calls, n)
    <2>1. m \in Node /\ ended.t.mParent[m] = ended.t.mParent[n] /\ ended.t.mParent[n] # Null
      BY <1>5, <1>7, <1>8
    <2>2. /\ Stays(ended, Node_End(ended, m), calls, n)
          /\ Stays(ended, FreeGroup(ended, m), calls, n)
          /\ Stays(ended, DeepFree(ended, m), calls, n)
          /\ Stays(ended, Node_SetRun(ended, m, TRUE), calls, n)
          /\ Stays(ended, Node_SetRun(ended, m, FALSE), calls, n)
      BY <1>6, <2>1, NeighbourStays
    <2>3. QED
      BY <1>6, <2>2, StaysTrans
  <1>9. ASSUME NEW S PROVE Stays(w, EndAll(w, S), calls, n)
    BY <1>1, EndAllSame, SameStays
  <1>10. /\ Stays(w, w, calls, n)
         /\ Stays(w, Node_SetRun(w, n, FALSE), calls, n)
         /\ Stays(w, Node_End(w, w.t.mParent[n]), calls, n)
    <2>1. Stays(w, w, calls, n)
      BY DEF Stays
    <2>2. SameTree(w, Node_SetRun(w, n, FALSE)) /\ SameTree(w, Node_End(w, w.t.mParent[n]))
      BY <1>1, SetRunSame, EndSame
    <2>3. QED
      BY <2>1, <2>2, SameStays
  <1>11. PICK v : v = Unit_DoneAction(w, n, action)
    OBVIOUS
  <1>12. DoneShape(w, n, v)
    BY <1>11, DoneActionShape
  <1>13. Stays(w, v, calls, n)
    BY <1>2, <1>3, <1>4, <1>6, <1>8, <1>9, <1>10, <1>12, Zenon DEF DoneShape
  <1>14. QED
    BY <1>11, <1>13

\* The defining equation of after in DoneActions.
DoneStep(w, n, actions, f, i) ==
    IF i = 0 THEN w ELSE Unit_DoneAction(f[i - 1], n, actions[i])

Recurs(w, n, actions, N, f) == f = [i \in 0 .. N |-> DoneStep(w, n, actions, f, i)]

LEMMA DoneActionsExist ==
    ASSUME NEW w, NEW n, NEW actions, NEW N, N \in Nat
    PROVE  \E f : Recurs(w, n, actions, N, f)
  <1> DEFINE Good(f, k) == \A i \in 0 .. N : i <= k => f[i] = DoneStep(w, n, actions, f, i)
             T == {k \in Nat : ~ \E f : f = [i \in 0 .. N |-> f[i]] /\ Good(f, k)}
  <1>1. T = {}
    <2> SUFFICES ASSUME T # {} PROVE FALSE
      OBVIOUS
    <2>1. PICK k \in T : \A j \in T : k <= j
      <3>1. T \subseteq Nat
        OBVIOUS
      <3> HIDE DEF T
      <3>2. QED
        BY <3>1, LeastNat
    <2>2. k # 0
      <3> SUFFICES ASSUME k = 0 PROVE FALSE
        OBVIOUS
      <3>1. PICK f : f = [i \in 0 .. N |-> w]
        OBVIOUS
      <3>2. f = [i \in 0 .. N |-> f[i]] /\ Good(f, 0)
        BY <3>1 DEF DoneStep
      <3>3. QED
        BY <3>2
    <2>3. k - 1 \in Nat /\ k - 1 \notin T
      <3>1. k \in Nat /\ \A j \in T : j \in Nat /\ k <= j
        BY <2>1
      <3> HIDE DEF T
      <3>2. QED
        BY <3>1, <2>2
    <2>4. PICK f : f = [i \in 0 .. N |-> f[i]] /\ Good(f, k - 1)
      BY <2>3
    <2>5. PICK h : h = [i \in 0 .. N |-> IF i = k THEN DoneStep(w, n, actions, f, i) ELSE f[i]]
      OBVIOUS
    <2>6. h = [i \in 0 .. N |-> h[i]]
      BY <2>5
    <2>7. ASSUME NEW i \in 0 .. N, i <= k PROVE h[i] = DoneStep(w, n, actions, h, i)
      <3>1. i # 0 => h[i - 1] = f[i - 1]
        BY <2>5, <2>7
      <3>2. DoneStep(w, n, actions, h, i) = DoneStep(w, n, actions, f, i)
        BY <3>1 DEF DoneStep
      <3>3. CASE i = k
        BY <3>2, <3>3, <2>5
      <3>4. CASE i # k
        <4>1. f[i] = DoneStep(w, n, actions, f, i)
          BY <2>3, <2>4, <2>7, <3>4
        <4>2. QED
          BY <4>1, <3>2, <3>4, <2>5
      <3>5. QED
        BY <3>3, <3>4
    <2>8. Good(h, k)
      BY <2>7
    <2>9. QED
      BY <2>1, <2>6, <2>8
  <1>2. PICK f : f = [i \in 0 .. N |-> f[i]] /\ Good(f, N)
    BY <1>1
  <1>3. \A i \in 0 .. N : f[i] = DoneStep(w, n, actions, f, i)
    BY <1>2
  <1>4. [i \in 0 .. N |-> f[i]] = [i \in 0 .. N |-> DoneStep(w, n, actions, f, i)]
    BY <1>3
  <1>5. QED
    BY <1>2, <1>4 DEF Recurs

\* The recursion of DoneActions: f[i] is the world after i of the actions.
LEMMA DoneActionsDef ==
    ASSUME NEW w, NEW n, NEW actions \in Seq(1 .. 15)
    PROVE  \E f : /\ DoneActions(w, n, actions) = f[Len(actions)]
                  /\ f[0] = w
                  /\ \A i \in 1 .. Len(actions) :
                        /\ actions[i] \in 1 .. 15
                        /\ f[i] = Unit_DoneAction(f[i - 1], n, actions[i])
  <1> DEFINE after == CHOOSE f : f = [i \in 0 .. Len(actions) |->
                                        IF i = 0 THEN w
                                        ELSE Unit_DoneAction(f[i - 1], n, actions[i])]
  <1>1. DoneActions(w, n, actions) = after[Len(actions)]
    BY DEF DoneActions
  <1>2. after = [i \in 0 .. Len(actions) |-> DoneStep(w, n, actions, after, i)]
    <2>1. after = CHOOSE f : Recurs(w, n, actions, Len(actions), f)
      BY DEF DoneStep, Recurs
    <2>2. Len(actions) \in Nat
      OBVIOUS
    <2>3. \E f : Recurs(w, n, actions, Len(actions), f)
      BY <2>2, DoneActionsExist, Zenon
    <2> HIDE DEF after
    <2>4. Recurs(w, n, actions, Len(actions), after)
      BY <2>1, <2>3, Zenon
    <2>5. QED
      BY <2>4 DEF Recurs
  <1> HIDE DEF after
  <1>3. after[0] = w
    BY <1>2 DEF DoneStep
  <1>4. ASSUME NEW i \in 1 .. Len(actions)
        PROVE  /\ actions[i] \in 1 .. 15
               /\ after[i] = Unit_DoneAction(after[i - 1], n, actions[i])
    <2>1. actions[i] \in 1 .. 15
      OBVIOUS
    <2>2. i \in 0 .. Len(actions) /\ i # 0
      OBVIOUS
    <2>3. after[i] = DoneStep(w, n, actions, after, i)
      BY <1>2, <2>2, Zenon
    <2>4. QED
      BY <2>1, <2>2, <2>3, Zenon DEF DoneStep
  <1>5. QED
    BY <1>1, <1>3, <1>4

LEMMA DoneActionsStays ==
    ASSUME NEW w, NEW calls, NEW n, Called(w, calls, n), NEW actions \in Seq(1 .. 15)
    PROVE  Stays(w, DoneActions(w, n, actions), calls, n)
  <1>1. PICK f : /\ DoneActions(w, n, actions) = f[Len(actions)]
                 /\ f[0] = w
                 /\ \A i \in 1 .. Len(actions) :
                       /\ actions[i] \in 1 .. 15
                       /\ f[i] = Unit_DoneAction(f[i - 1], n, actions[i])
    BY DoneActionsDef
  <1>2. ASSUME NEW i \in 1 .. Len(actions), Stays(w, f[i - 1], calls, n)
        PROVE  Stays(w, f[i], calls, n)
    <2>1. Called(f[i - 1], calls, n)
      BY <1>2 DEF Stays
    <2>2. Stays(f[i - 1], f[i], calls, n)
      BY <1>1, <2>1, DoneActionStays
    <2>3. QED
      BY <1>2, <2>2, StaysTrans
  <1>3. Stays(w, f[0], calls, n)
    BY <1>1 DEF Stays
  <1> DEFINE T == {i \in 0 .. Len(actions) : ~Stays(w, f[i], calls, n)}
  <1>4. T = {}
    <2> SUFFICES ASSUME T # {} PROVE FALSE
      OBVIOUS
    <2>1. PICK k \in T : \A j \in T : k <= j
      <3>1. T \subseteq Nat
        OBVIOUS
      <3> HIDE DEF T
      <3>2. QED
        BY <3>1, LeastNat
    <2>2. k \in 1 .. Len(actions) /\ k - 1 \in 0 .. Len(actions) /\ k - 1 \notin T
      BY <1>3, <2>1
    <2>3. QED
      BY <1>2, <2>1, <2>2
  <1>5. Len(actions) \in 0 .. Len(actions)
    OBVIOUS
  <1>6. QED
    BY <1>1, <1>4, <1>5

LEMMA RunGraphStays ==
    ASSUME NEW w, NEW calls, NEW n, Called(w, calls, n), NEW first \in Seq(1 .. 15),
           NEW actions \in Seq(1 .. 15),
           w.mCalcFunc[n] \in {"Graph_FirstCalc", "Graph_NullFirstCalc", "Graph_Calc",
                               "Graph_CalcTrace"}
    PROVE  Stays(w, RunGraph(w, n, first, actions), calls, n)
  <1>1. PICK u : u = DoneActions(w, n, first)
    OBVIOUS
  <1>2. PICK ctor : ctor = [u EXCEPT !.built[n] = TRUE]
    OBVIOUS
  <1>3. PICK v : v = DoneActions(w, n, actions)
    OBVIOUS
  <1>4. Stays(w, u, calls, n) /\ Stays(w, v, calls, n)
    BY <1>1, <1>3, DoneActionsStays
  <1>5. Called(u, calls, n) /\ Called(v, calls, n) /\ u \in World /\ v \in World
    BY <1>4 DEF Stays, Called, SaneWorld
  <1>6. Stays(w, ctor, calls, n)
    <2>1. SameTree(u, ctor)
      BY <1>2, <1>5, BuiltSame
    <2>2. Stays(u, ctor, calls, n)
      BY <2>1, <1>5, SameStays
    <2>3. QED
      BY <2>2, <1>4, StaysTrans
  <1>7. Called(ctor, calls, n) /\ ctor \in World
    BY <1>6 DEF Stays, Called, SaneWorld
  <1>8. ASSUME NEW z, Called(z, calls, n), Stays(w, z, calls, n), NEW f \in CalcFunc
        PROVE  Stays(w, [z EXCEPT !.mCalcFunc[n] = f], calls, n)
    <2>1. z \in World
      BY <1>8 DEF Called, SaneWorld
    <2>2. PICK y : y = [z EXCEPT !.mCalcFunc[n] = f]
      OBVIOUS
    <2>3. SameTree(z, y)
      BY <2>1, <2>2, SetCalcSame
    <2>4. Stays(z, y, calls, n)
      BY <2>3, <1>8, SameStays
    <2>5. Stays(w, y, calls, n)
      BY <2>4, <1>8, StaysTrans
    <2>6. QED
      BY <2>2, <2>5, Zenon
  <1>9. CASE w.mCalcFunc[n] = "Graph_FirstCalc"
    <2>1. PICK y : y = [ctor EXCEPT !.mCalcFunc[n] = "Graph_Calc"]
      OBVIOUS
    <2>2. RunGraph(w, n, first, actions) = DoneActions(y, n, actions)
      <3>1. RunGraph(w, n, first, actions) =
               CASE w.mCalcFunc[n] = "Graph_FirstCalc" -> DoneActions(y, n, actions)
                 [] w.mCalcFunc[n] = "Graph_NullFirstCalc" ->
                      [ctor EXCEPT !.mCalcFunc[n] = "Node_NullCalc"]
                 [] w.mCalcFunc[n] = "Graph_Calc" -> v
                 [] w.mCalcFunc[n] = "Graph_CalcTrace" ->
                      [v EXCEPT !.mCalcFunc[n] = "Graph_Calc"]
        BY <1>1, <1>2, <1>3, <2>1, Zenon DEF RunGraph
      <3>2. QED
        BY <3>1, <1>9
    <2>3. Stays(w, y, calls, n)
      BY <2>1, <1>6, <1>7, <1>8 DEF CalcFunc
    <2>4. Stays(y, DoneActions(y, n, actions), calls, n)
      BY <2>3, DoneActionsStays DEF Stays
    <2>5. QED
      BY <2>2, <2>3, <2>4, StaysTrans
  <1>10. CASE w.mCalcFunc[n] = "Graph_NullFirstCalc"
    <2>1. PICK y : y = [ctor EXCEPT !.mCalcFunc[n] = "Node_NullCalc"]
      OBVIOUS
    <2>2. RunGraph(w, n, first, actions) = y
      <3>1. RunGraph(w, n, first, actions) =
               CASE w.mCalcFunc[n] = "Graph_FirstCalc" ->
                      DoneActions([ctor EXCEPT !.mCalcFunc[n] = "Graph_Calc"], n, actions)
                 [] w.mCalcFunc[n] = "Graph_NullFirstCalc" -> y
                 [] w.mCalcFunc[n] = "Graph_Calc" -> v
                 [] w.mCalcFunc[n] = "Graph_CalcTrace" ->
                      [v EXCEPT !.mCalcFunc[n] = "Graph_Calc"]
        BY <1>1, <1>2, <1>3, <2>1, Zenon DEF RunGraph
      <3>2. QED
        BY <3>1, <1>10
    <2>3. QED
      BY <2>1, <2>2, <1>6, <1>7, <1>8 DEF CalcFunc
  <1>11. CASE w.mCalcFunc[n] = "Graph_Calc"
    <2>1. RunGraph(w, n, first, actions) =
               CASE w.mCalcFunc[n] = "Graph_FirstCalc" ->
                      DoneActions([ctor EXCEPT !.mCalcFunc[n] = "Graph_Calc"], n, actions)
                 [] w.mCalcFunc[n] = "Graph_NullFirstCalc" ->
                      [ctor EXCEPT !.mCalcFunc[n] = "Node_NullCalc"]
                 [] w.mCalcFunc[n] = "Graph_Calc" -> v
                 [] w.mCalcFunc[n] = "Graph_CalcTrace" ->
                      [v EXCEPT !.mCalcFunc[n] = "Graph_Calc"]
      BY <1>1, <1>2, <1>3, Zenon DEF RunGraph
    <2>2. QED
      BY <2>1, <1>4, <1>11
  <1>12. CASE w.mCalcFunc[n] = "Graph_CalcTrace"
    <2>1. PICK y : y = [v EXCEPT !.mCalcFunc[n] = "Graph_Calc"]
      OBVIOUS
    <2>2. RunGraph(w, n, first, actions) = y
      <3>1. RunGraph(w, n, first, actions) =
               CASE w.mCalcFunc[n] = "Graph_FirstCalc" ->
                      DoneActions([ctor EXCEPT !.mCalcFunc[n] = "Graph_Calc"], n, actions)
                 [] w.mCalcFunc[n] = "Graph_NullFirstCalc" ->
                      [ctor EXCEPT !.mCalcFunc[n] = "Node_NullCalc"]
                 [] w.mCalcFunc[n] = "Graph_Calc" -> v
                 [] w.mCalcFunc[n] = "Graph_CalcTrace" -> y
        BY <1>1, <1>2, <1>3, <2>1, Zenon DEF RunGraph
      <3>2. QED
        BY <3>1, <1>12
    <2>3. QED
      BY <2>1, <2>2, <1>4, <1>5, <1>8, ZenonT(60) DEF CalcFunc
  <1>13. QED
    BY <1>9, <1>10, <1>11, <1>12

\* A call on top of others.
LEMMA PushFrame ==
    ASSUME NEW calls \in Seq(Frame), NEW e \in Frame
    PROVE  /\ <<e>> \o calls \in Seq(Frame)
           /\ Len(<<e>> \o calls) = Len(calls) + 1
           /\ (<<e>> \o calls)[1] = e
           /\ \A i \in 2 .. Len(calls) + 1 : (<<e>> \o calls)[i] = calls[i - 1]
  OBVIOUS

\* Deleting the called node, which no call has put aside, leaves the calls
\* what they rely on.
LEMMA DeleteCalled ==
    ASSUME NEW w, NEW calls, NEW n, Called(w, calls, n),
           \A i \in 1 .. Len(calls) : calls[i].child # n
    PROVE  /\ SaneWorld(Node_Delete(w, n)) /\ Walked(Node_Delete(w, n), calls)
           /\ Held(w) => Held(Node_Delete(w, n))
  <1>1. SaneWorld(w) /\ calls \in Seq(Frame) /\ Walked(w, calls) /\ n \in Node
    BY WorldType DEF Called, SaneWorld
  <1>2. CASE n = Root
    BY <1>1, <1>2 DEF Node_Delete
  <1>3. CASE n # Root
    <2>1. PICK D : D = {n} \cup Below(w.t, n)
      OBVIOUS
    <2>2. PICK v : v = Node_Delete(w, n)
      OBVIOUS
    <2>3. Pruned(w, v, D)
      BY <1>1, <1>3, <2>1, <2>2, DeletePruned
    <2>4. ASSUME NEW i \in 1 .. Len(calls)
          PROVE  calls[i].group \notin D /\ calls[i].child \notin D
      <3>1. calls # <<>> /\ w.t.mParent[n] = calls[1].group
        BY <2>4, <1>1 DEF Called
      <3>2. calls[i].group \notin D
        BY <3>1, <1>1, <2>1, StackAbove
      <3>3. CASE calls[i].child = Null
        BY <3>2, <3>3, <2>3, RootAssumption DEF Pruned, Cut
      <3>4. CASE calls[i].child # Null
        <4>1. w.t.mParent[calls[i].child] = calls[i].group /\ calls[i].child # n
          BY <3>4, <1>1 DEF Walked
        <4>2. QED
          BY <4>1, <3>2, <2>1, BelowUp
      <3>5. QED
        BY <3>2, <3>3, <3>4
    <2>5. Walked(v, calls)
      BY <1>1, <2>3, <2>4, PrunedWalked
    <2>6. Held(w) => Held(v)
      BY <2>3, PrunedHeld
    <2>7. QED
      BY <2>2, <2>3, <2>5, <2>6 DEF Pruned
  <1>4. QED
    BY <1>2, <1>3

\* Entering a group.
LEMMA EnterWalked ==
    ASSUME NEW w, NEW calls, NEW n, Called(w, calls, n),
           NEW e, e = [group |-> n, child |-> w.t.mHead[n], func |-> w.mCalcFunc[n]]
    PROVE  <<e>> \o calls \in Seq(Frame) /\ Walked(w, <<e>> \o calls)
  <1>1. /\ SaneWorld(w) /\ calls \in Seq(Frame) /\ Walked(w, calls) /\ n \in Node
        /\ n \in w.nodes /\ w.t \in Links /\ w.nodes \in SUBSET Node
        /\ w.t.mHead[n] \in NodeOrNull /\ w.mCalcFunc[n] \in CalcFunc
    BY WorldType, LinksType DEF Called, SaneWorld
  <1>2. e \in Frame /\ e.group = n /\ e.child = w.t.mHead[n]
    BY <1>1 DEF Frame
  <1>3. PICK s : s = <<e>> \o calls
    OBVIOUS
  <1>4. /\ s \in Seq(Frame) /\ Len(s) = Len(calls) + 1 /\ s[1] = e /\ Len(calls) \in Nat
        /\ \A i \in 2 .. Len(calls) + 1 : s[i] = calls[i - 1]
    BY <1>1, <1>2, <1>3, PushFrame
  <1>5. \A i \in 1 .. Len(s) : i = 1 \/ (i \in 2 .. Len(calls) + 1 /\ i - 1 \in 1 .. Len(calls))
    BY <1>4
  <1>6. ASSUME NEW i \in 1 .. Len(s)
        PROVE  /\ s[i].group \in w.nodes
               /\ s[i].child # Null =>
                     s[i].child \in w.nodes /\ w.t.mParent[s[i].child] = s[i].group
    <2>1. CASE i = 1
      <3>1. s[i] = e
        BY <2>1, <1>4
      <3>2. e.child # Null => e.child \in w.nodes /\ w.t.mParent[e.child] = n
        BY <1>1, <1>2 DEF SaneWorld, Sane, Within, Linked
      <3>3. QED
        BY <3>1, <3>2, <1>1, <1>2
    <2>2. CASE i # 1
      <3>1. i - 1 \in 1 .. Len(calls) /\ s[i] = calls[i - 1]
        BY <2>2, <1>4, <1>5
      <3>2. QED
        BY <3>1, <1>1 DEF Walked
    <2>3. QED
      BY <2>1, <2>2
  <1>7. ASSUME NEW i \in 1 .. Len(s)
        PROVE  w.t.mParent[s[i].group] = IF i = Len(s) THEN Null ELSE s[i + 1].group
    <2>1. CASE i = 1
      <3>1. s[i].group = n
        BY <2>1, <1>2, <1>4
      <3>2. CASE calls = <<>>
        <4>1. i = Len(s)
          BY <2>1, <3>2, <1>4
        <4>2. QED
          BY <3>1, <3>2, <4>1 DEF Called
      <3>3. CASE calls # <<>>
        <4>1. i # Len(s) /\ s[i + 1] = calls[1]
          BY <2>1, <3>3, <1>1, <1>4
        <4>2. QED
          BY <3>1, <3>3, <4>1 DEF Called
      <3>4. QED
        BY <3>2, <3>3
    <2>2. CASE i # 1
      <3>1. i - 1 \in 1 .. Len(calls) /\ s[i] = calls[i - 1] /\ i \in Nat
        BY <2>2, <1>4, <1>5
      <3>2. i = Len(s) <=> i - 1 = Len(calls)
        BY <3>1, <1>4
      <3>3. i # Len(s) => s[i + 1] = calls[(i - 1) + 1]
        BY <3>1, <1>4, SMTT(40)
      <3>4. QED
        BY <3>1, <3>2, <3>3, <1>1 DEF Walked
    <2>3. QED
      BY <2>1, <2>2
  <1>8. \A j \in 1 .. Len(calls) : calls[j].group # n
    <2> SUFFICES ASSUME NEW j \in 1 .. Len(calls) PROVE calls[j].group # n
      OBVIOUS
    <2>1. calls # <<>> /\ w.t.mParent[n] = calls[1].group
      BY <1>1 DEF Called
    <2>2. calls[j].group \notin {n} \cup Below(w.t, n)
      BY <2>1, <1>1, StackAbove
    <2>3. QED
      BY <2>2
  <1>9. ASSUME NEW i \in 1 .. Len(s), NEW j \in 1 .. Len(s), s[i].group = s[j].group
        PROVE  i = j
    <2>1. CASE i = 1 /\ j = 1
      BY <2>1
    <2>2. CASE i = 1 /\ j # 1
      BY <2>2, <1>2, <1>4, <1>5, <1>8, <1>9
    <2>3. CASE i # 1 /\ j = 1
      BY <2>3, <1>2, <1>4, <1>5, <1>8, <1>9
    <2>4. CASE i # 1 /\ j # 1
      <3>1. i - 1 \in 1 .. Len(calls) /\ s[i] = calls[i - 1] /\ i \in Nat
            /\ j - 1 \in 1 .. Len(calls) /\ s[j] = calls[j - 1] /\ j \in Nat
        BY <2>4, <1>4, <1>5
      <3>2. i - 1 = j - 1
        BY <3>1, <1>1, <1>9 DEF Walked
      <3>3. QED
        BY <3>1, <3>2
    <2>5. QED
      BY <2>1, <2>2, <2>3, <2>4
  <1>10. Walked(w, s)
    BY <1>6, <1>7, <1>9 DEF Walked
  <1>11. QED
    BY <1>3, <1>4, <1>10

\* Whatever calling node n does.
LEMMA CallSafe ==
    ASSUME use \in Use, NEW w, NEW calls, NEW n, Called(w, calls, n), visited \subseteq Node,
           \A i \in 1 .. Len(calls) : calls[i].child # n, Call(w, n, calls)
    PROVE  /\ SaneWorld(world') /\ Walked(world', stack')
           /\ stack' \in Seq(Frame) /\ visited' \subseteq Node /\ crashed' = crashed
           /\ Held(w) => Held(world')
  <1>1. SaneWorld(w) /\ calls \in Seq(Frame) /\ Walked(w, calls) /\ n \in Node
    BY WorldType DEF Called, SaneWorld
  <1>2. crashed' = crashed /\ visited' \subseteq Node
    BY <1>1 DEF Call
  <1>3. use.doneActions \subseteq Seq(1 .. 15)
    BY DEF Use
  <1>4. CASE IsGroupCalc(w.mCalcFunc[n]) /\ world' = w /\ Enter(w, n, calls)
    <2>1. PICK e : e = [group |-> n, child |-> w.t.mHead[n], func |-> w.mCalcFunc[n]]
      OBVIOUS
    <2>2. stack' = <<e>> \o calls
      BY <1>4, <2>1, Zenon DEF Enter
    <2>3. stack' \in Seq(Frame) /\ Walked(w, stack')
      BY <2>1, <2>2, EnterWalked
    <2>4. QED
      BY <1>1, <1>2, <1>4, <2>3
  <1>5. CASE world' = w /\ stack' = calls
    BY <1>1, <1>2, <1>5
  <1>6. CASE world' = Node_Delete(w, n) /\ stack' = calls
    BY <1>1, <1>2, <1>6, DeleteCalled
  <1>7. ASSUME NEW first \in Seq(1 .. 15), NEW actions \in Seq(1 .. 15),
               w.mCalcFunc[n] \in {"Graph_FirstCalc", "Graph_NullFirstCalc", "Graph_Calc",
                                   "Graph_CalcTrace"},
               world' = RunGraph(w, n, first, actions), stack' = calls
        PROVE  /\ SaneWorld(world') /\ Walked(world', stack') /\ stack' \in Seq(Frame)
               /\ Held(w) => Held(world')
    <2>1. Stays(w, world', calls, n)
      BY <1>7, RunGraphStays
    <2>2. QED
      BY <2>1, <1>7, SMTT(40) DEF Stays, Called
  <1>8. CASE /\ w.mCalcFunc[n] \in {"Graph_FirstCalc", "Graph_NullFirstCalc"}
             /\ \E first, actions \in use.doneActions : world' = RunGraph(w, n, first, actions)
             /\ stack' = calls
    BY <1>2, <1>3, <1>7, <1>8
  <1>9. CASE /\ w.mCalcFunc[n] \in {"Graph_Calc", "Graph_CalcTrace"}
             /\ \E actions \in use.doneActions : world' = RunGraph(w, n, <<>>, actions)
             /\ stack' = calls
    <2>1. PICK actions \in use.doneActions : world' = RunGraph(w, n, <<>>, actions)
      BY <1>9
    <2>2. actions \in Seq(1 .. 15) /\ <<>> \in Seq(1 .. 15)
      BY <1>3
    <2>3. w.mCalcFunc[n] \in {"Graph_FirstCalc", "Graph_NullFirstCalc", "Graph_Calc",
                              "Graph_CalcTrace"}
      BY <1>9
    <2>4. /\ SaneWorld(world') /\ Walked(world', stack') /\ stack' \in Seq(Frame)
          /\ Held(w) => Held(world')
      BY <2>1, <2>2, <2>3, <1>7, <1>9, Zenon
    <2>5. QED
      BY <2>4, <1>2, Zenon
  <1>10. \/ IsGroupCalc(w.mCalcFunc[n]) /\ world' = w /\ Enter(w, n, calls)
         \/ world' = w /\ stack' = calls
         \/ world' = Node_Delete(w, n) /\ stack' = calls
         \/ /\ w.mCalcFunc[n] \in {"Graph_FirstCalc", "Graph_NullFirstCalc"}
            /\ \E first, actions \in use.doneActions : world' = RunGraph(w, n, first, actions)
            /\ stack' = calls
         \/ /\ w.mCalcFunc[n] \in {"Graph_Calc", "Graph_CalcTrace"}
            /\ \E actions \in use.doneActions : world' = RunGraph(w, n, <<>>, actions)
            /\ stack' = calls
    BY Zenon DEF Call
  <1>11. QED
    BY <1>4, <1>5, <1>6, <1>8, <1>9, <1>10, Zenon

\* Putting aside another child: e is the innermost call with its next child
\* changed, r the calls around it.
LEMMA SetChild ==
    ASSUME NEW s \in Seq(Frame), s # <<>>, NEW e \in Frame, NEW calls,
           calls = <<e>> \o Tail(s)
    PROVE  /\ calls \in Seq(Frame) /\ Len(calls) = Len(s) /\ calls[1] = e
           /\ \A i \in 2 .. Len(s) : calls[i] = s[i]
  <1>1. PICK r : r = Tail(s)
    OBVIOUS
  <1>2. /\ Len(s) \in Nat /\ Len(s) >= 1
        /\ r \in Seq(Frame) /\ Len(r) = Len(s) - 1
        /\ \A i \in 1 .. Len(s) - 1 : r[i] = s[i + 1]
    BY <1>1
  <1>3. calls = <<e>> \o r
    BY <1>1, Zenon
  <1>4. /\ calls \in Seq(Frame) /\ Len(calls) = Len(r) + 1 /\ calls[1] = e
        /\ \A i \in 2 .. Len(r) + 1 : calls[i] = r[i - 1]
    <2>1. /\ <<e>> \o r \in Seq(Frame) /\ Len(<<e>> \o r) = Len(r) + 1
          /\ (<<e>> \o r)[1] = e
          /\ \A i \in 2 .. Len(r) + 1 : (<<e>> \o r)[i] = r[i - 1]
      BY <1>2, PushFrame
    <2>2. QED
      BY <1>3, <2>1, Zenon
  <1>5. ASSUME NEW i \in 2 .. Len(s) PROVE calls[i] = s[i]
    <2>1. i - 1 \in 1 .. Len(s) - 1 /\ i \in 2 .. Len(r) + 1 /\ (i - 1) + 1 = i
      BY <1>2
    <2>2. QED
      BY <2>1, <1>2, <1>4
  <1>6. QED
    BY <1>2, <1>4, <1>5

\* The calls under way when the innermost group calls its next child n.
LEMMA NextCalled ==
    ASSUME NEW w, SaneWorld(w), NEW s \in Seq(Frame), s # <<>>, Walked(w, s),
           NEW n, n = s[1].child, n # Null,
           NEW e \in Frame, e.group = s[1].group, e.child = w.t.mNext[n],
           NEW calls, calls \in Seq(Frame), Len(calls) = Len(s), calls[1] = e,
           \A i \in 2 .. Len(s) : calls[i] = s[i]
    PROVE  /\ Called(w, calls, n)
           /\ \A i \in 1 .. Len(calls) : calls[i].child # n
  <1>1. Len(s) \in Nat /\ Len(s) >= 1 /\ 1 \in 1 .. Len(s) /\ s[1] \in Frame
    OBVIOUS
  <1>2. n \in w.nodes /\ w.t.mParent[n] = s[1].group /\ n \in Node /\ w.nodes \in SUBSET Node
        /\ w.t \in Links /\ w.t.mNext[n] \in NodeOrNull
    BY <1>1, WorldType, LinksType DEF Walked, SaneWorld
  <1>3. \A i \in 1 .. Len(s) : i \in Nat /\ (i = 1 \/ (i # 1 /\ calls[i] = s[i]))
    BY <1>1
  <1>4. \A i \in 1 .. Len(s) : calls[i].group = s[i].group
    BY <1>3
  <1>5. e.child # Null => /\ e.child \in w.nodes /\ w.t.mParent[e.child] = e.group
                          /\ e.child # n
    <2> SUFFICES ASSUME e.child # Null
                 PROVE  /\ e.child \in w.nodes /\ w.t.mParent[e.child] = e.group
                        /\ e.child # n
      BY SMTT(40)
    <2>1. w.t.mParent[w.t.mNext[n]] = w.t.mParent[n]
      BY <1>2 DEF SaneWorld, Sane, Linked
    <2>2. w.t.mNext[n] \in w.nodes
      BY <1>2 DEF SaneWorld, Sane, Within
    <2>3. w.t.mNext[n] # n
      <3>1. NoRing(w.t) /\ {n} \in SUBSET Node /\ {n} # {}
        BY <1>2 DEF SaneWorld, Sane
      <3>2. ~ \A x \in {n} : w.t.mNext[x] \in {n}
        BY <3>1 DEF NoRing
      <3>3. QED
        BY <3>2
    <2>4. QED
      BY <2>1, <2>2, <2>3, <1>2
  <1>6. ASSUME NEW i \in 1 .. Len(s)
        PROVE  /\ calls[i].group \in w.nodes
               /\ calls[i].child # Null =>
                     calls[i].child \in w.nodes /\ w.t.mParent[calls[i].child] = calls[i].group
    <2>1. /\ s[i].group \in w.nodes
          /\ s[i].child # Null =>
                s[i].child \in w.nodes /\ w.t.mParent[s[i].child] = s[i].group
      BY DEF Walked
    <2>2. CASE i = 1
      BY <2>1, <2>2, <1>5
    <2>3. CASE i # 1
      BY <2>1, <2>3, <1>3
    <2>4. QED
      BY <2>2, <2>3
  <1>7. ASSUME NEW i \in 1 .. Len(s)
        PROVE  w.t.mParent[calls[i].group] = IF i = Len(s) THEN Null ELSE calls[i + 1].group
    <2>1. w.t.mParent[s[i].group] = IF i = Len(s) THEN Null ELSE s[i + 1].group
      BY DEF Walked
    <2>2. i # Len(s) => i + 1 \in 1 .. Len(s)
      BY <1>1
    <2>3. QED
      BY <2>1, <2>2, <1>4
  <1>8. ASSUME NEW i \in 1 .. Len(s), NEW j \in 1 .. Len(s), calls[i].group = calls[j].group
        PROVE  i = j
    <2>1. s[i].group = s[j].group
      BY <1>4, <1>8
    <2>2. QED
      BY <2>1 DEF Walked
  <1>9. Walked(w, calls)
    BY <1>6, <1>7, <1>8 DEF Walked
  <1>10. ASSUME NEW i \in 1 .. Len(s) PROVE calls[i].child # n
    <2>1. CASE i = 1
      BY <2>1, <1>2, <1>5, RootAssumption
    <2>2. CASE i # 1
      <3>1. calls[i] = s[i]
        BY <2>2, <1>3
      <3>2. s[i].group # s[1].group
        BY <2>2, <1>1 DEF Walked
      <3>3. s[i].child # Null => w.t.mParent[s[i].child] = s[i].group
        BY DEF Walked
      <3>4. QED
        BY <3>1, <3>2, <3>3, <1>2
    <2>3. QED
      BY <2>1, <2>2
  <1>11. calls # <<>> /\ calls[1].group = s[1].group
    BY <1>1
  <1>12. QED
    BY <1>2, <1>9, <1>10, <1>11 DEF Called

-----------------------------------------------------------------------------
(* The actions. *)

\* What the invariant says of the world a command or a block starts from.
LEMMA QuietWorld ==
    ASSUME Inv, NEW q, q = Quiet(world)
    PROVE  /\ SaneWorld(q) /\ SameTree(world, q) /\ Walked(q, stack) /\ q \in World
           /\ q.t = world.t /\ q.nodes = world.nodes /\ q.mIsGroup = world.mIsGroup
           /\ q.mID = world.mID
           /\ use.careful => Held(q)
  <1>1. SaneWorld(world) /\ world \in World /\ Walked(world, stack)
    BY DEF Inv, StateOK, SaneWorld
  <1>2. SameTree(world, q)
    BY <1>1, QuietSame
  <1>3. SaneWorld(q)
    BY <1>1, <1>2, SameTreeSane
  <1>4. /\ q.t = world.t /\ q.nodes = world.nodes /\ q.mIsGroup = world.mIsGroup
        /\ q.mID = world.mID /\ q \in World
    BY <1>2 DEF SameTree
  <1>5. Walked(q, stack)
    BY <1>1, <1>4 DEF Walked
  <1>6. use.careful => Held(q)
    BY <1>4 DEF Inv, Safe, Held
  <1>7. QED
    BY <1>2, <1>3, <1>4, <1>5, <1>6

\* A command that leaves a sane world, in which careful clients lose no node.
LEMMA DoneInv ==
    ASSUME Inv, UNCHANGED use, Between2Blocks, NEW v, Done(v), SaneWorld(v),
           use.careful => Held(v)
    PROVE  Inv'
  <1>1. /\ world' = v /\ stack' = stack /\ visited' = visited /\ crashed' = crashed
        /\ use' = use /\ stack = <<>>
    BY DEF Done, Between2Blocks
  <1>2. StateOK'
    BY <1>1 DEF Inv, StateOK
  <1>3. Safe'
    BY <1>1 DEF Inv, Safe
  <1>4. Walked(v, <<>>)
    BY DEF Walked
  <1>5. Walked(world', stack')
    BY <1>1, <1>4
  <1>6. QED
    BY <1>2, <1>3, <1>5 DEF Inv

LEMMA CrashInv ==
    ASSUME Inv, UNCHANGED use, Crash, ~use.careful
    PROVE  Inv'
  <1>1. /\ world' = world /\ stack' = stack /\ visited' = visited /\ crashed' = TRUE
        /\ use' = use
    BY DEF Crash
  <1>2. StateOK'
    BY <1>1 DEF Inv, StateOK
  <1>3. Safe'
    BY <1>1 DEF Inv, Safe
  <1>4. Walked(world', stack')
    BY <1>1 DEF Inv
  <1>5. QED
    BY <1>2, <1>3, <1>4 DEF Inv

\* With careful clients no group is below itself.
LEMMA CarefulEnds ==
    ASSUME Inv, use.careful, NEW g \in world.nodes
    PROVE  ~Recursion(world, g)
  <1>1. SaneWorld(world) /\ world.t.mParent[Root] = Null /\ g \in Node
    BY WorldType DEF Inv, StateOK, SaneWorld, Sane
  <1>2. g = Root \/ g \in Below(world.t, Root)
    BY DEF Inv, Safe, Held
  <1>3. g \notin Below(world.t, g)
    BY <1>1, <1>2, NoRecursion
  <1>4. QED
    BY <1>3 DEF Recursion, StrictlyBelow

LEMMA NewInv ==
    ASSUME Inv, UNCHANGED use, NEW n \in Node, NEW id \in ID \cup {Hidden},
           NEW isGroup \in BOOLEAN, NEW addAction \in 0 .. 3, NEW target \in Node,
           New(n, id, isGroup, addAction, target)
    PROVE  Inv'
  <1>1. PICK q : q = Quiet(world)
    OBVIOUS
  <1>2. PICK w : w = Node_New(q, n, id, isGroup)
    OBVIOUS
  <1>3. PICK u : u = Place(w.t, n, addAction, target)
    OBVIOUS
  <1>4. PICK v : v = [w EXCEPT !.t = u]
    OBVIOUS
  <1>5. PICK z : z = Node_StateMsg(v, n, "go")
    OBVIOUS
  <1>6. /\ Between2Blocks /\ n \notin world.nodes /\ Free(id) /\ Target(addAction, target)
        /\ Done(z)
    BY <1>1, <1>2, <1>3, <1>4, <1>5, Zenon DEF New
  <1>7. /\ SaneWorld(q) /\ q.nodes = world.nodes /\ q.mIsGroup = world.mIsGroup
        /\ q.mID = world.mID
        /\ use.careful => Held(q)
    BY <1>1, QuietWorld
  <1>8. /\ target \in q.nodes
        /\ addAction \in {0, 1} => q.mIsGroup[target]
        /\ use.careful /\ addAction \in {2, 3} => target # Root
    BY <1>6, <1>7 DEF Target, Beside
  <1>9. id = Hidden \/ \A m \in q.nodes : q.mID[m] # id
    BY <1>6, <1>7 DEF Free
  <1>10. Grown(q, w, n)
    BY <1>2, <1>6, <1>7, <1>9, NewGrown
  <1>11. /\ Relinked(w, v, u)
         /\ Held(q) /\ (addAction \in {2, 3} => target # Root) => Held(v)
    BY <1>3, <1>4, <1>6, <1>7, <1>8, <1>10, NewPlaced
  <1>12. SaneWorld(v) /\ v \in World
    BY <1>11 DEF Relinked, SaneWorld
  <1>13. SameTree(v, z)
    BY <1>5, <1>12, StateMsgSame
  <1>14. SaneWorld(z) /\ (Held(v) => Held(z))
    BY <1>12, <1>13, SameTreeSane DEF SameTree, Held
  <1>15. QED
    BY <1>6, <1>7, <1>8, <1>11, <1>14, DoneInv

LEMMA NewAgainInv ==
    ASSUME Inv, UNCHANGED use, NEW n \in Node, NEW addAction \in 0 .. 3, NEW target \in Node,
           NewAgain(n, addAction, target)
    PROVE  Inv'
  <1>1. PICK q : q = Quiet(world)
    OBVIOUS
  <1>2. PICK z : z = Node_StateMsg(q, n, "go")
    OBVIOUS
  <1>3. PICK group : group = IF addAction \in {0, 1} THEN target ELSE world.t.mParent[target]
    OBVIOUS
  <1>4. /\ Between2Blocks /\ Target(addAction, target)
        /\ (group = Null /\ Crash) \/ Done(z)
    BY <1>1, <1>2, <1>3, Zenon DEF NewAgain
  <1>5. SaneWorld(q) /\ q \in World /\ (use.careful => Held(q))
    BY <1>1, QuietWorld
  <1>6. CASE group = Null /\ Crash
    <2>1. target # Null /\ target \in world.nodes
      BY <1>4, RootAssumption DEF Target
    <2>2. addAction \in {2, 3} /\ world.t.mParent[target] = Null
      BY <1>3, <1>6, <2>1
    <2>3. ~use.careful
      <3> SUFFICES ASSUME use.careful PROVE FALSE
        OBVIOUS
      <3>1. target # Root /\ target \in Below(world.t, Root)
        BY <1>4, <2>1, <2>2 DEF Target, Beside, Inv, Safe, Held
      <3>2. world.t.mParent[target] \in Below(world.t, Root) \cup {Root}
        BY <3>1, BelowUp
      <3>3. world.t.mParent[target] \in Node
        BY <3>2, RootAssumption DEF Below
      <3>4. QED
        BY <2>2, <3>3, RootAssumption
    <2>4. QED
      BY <1>6, <2>3, CrashInv
  <1>7. CASE Done(z)
    <2>1. SameTree(q, z)
      BY <1>2, <1>5, StateMsgSame
    <2>2. SaneWorld(z) /\ (Held(q) => Held(z))
      BY <1>5, <2>1, SameTreeSane DEF SameTree, Held
    <2>3. QED
      BY <1>4, <1>5, <1>7, <2>2, DoneInv
  <1>8. QED
    BY <1>4, <1>6, <1>7

LEMMA ReplaceInv ==
    ASSUME Inv, UNCHANGED use, NEW n \in Node, NEW id \in ID \cup {Hidden},
           NEW isGroup \in BOOLEAN, NEW removeID \in BOOLEAN, NEW target \in Node,
           Replace(n, id, isGroup, removeID, target)
    PROVE  Inv'
  <1>1. PICK q : q = Quiet(world)
    OBVIOUS
  <1>2. PICK w : w = IF removeID THEN Node_RemoveID(q, target) ELSE q
    OBVIOUS
  <1>3. PICK made : made = Node_New(w, n, id, isGroup)
    OBVIOUS
  <1>4. PICK r : r = Node_Replace(made, n, target)
    OBVIOUS
  <1>5. PICK z : z = Node_StateMsg(r, n, "go")
    OBVIOUS
  <1>6. /\ Between2Blocks /\ target \in world.nodes /\ Beside(target)
        /\ \/ Done(w)
           \/ /\ ~(id # Hidden /\ \E m \in w.nodes : w.mID[m] = id) /\ n \notin w.nodes
              /\ (Recursion(made, target) /\ Crash) \/ Done(z)
    BY <1>1, <1>2, <1>3, <1>4, <1>5, Zenon DEF Replace
  <1>7. /\ SaneWorld(q) /\ q.nodes = world.nodes /\ q.t = world.t
        /\ use.careful => Held(q)
    BY <1>1, QuietWorld
  <1>8. SaneWorld(w) /\ w.nodes = world.nodes /\ w.t = world.t
    <2>1. CASE removeID
      <3>1. Relinked(q, w, q.t)
        BY <1>2, <1>7, <2>1, RemoveIDSane
      <3>2. QED
        BY <3>1, <1>7 DEF Relinked
    <2>2. CASE ~removeID
      BY <1>2, <1>7, <2>2
    <2>3. QED
      BY <2>1, <2>2
  <1>9. use.careful => Held(w) /\ target # Root
    BY <1>6, <1>7, <1>8 DEF Held, Beside
  <1>10. CASE Done(w)
    BY <1>6, <1>8, <1>9, <1>10, DoneInv
  <1>11. CASE /\ ~(id # Hidden /\ \E m \in w.nodes : w.mID[m] = id) /\ n \notin w.nodes
              /\ (Recursion(made, target) /\ Crash) \/ Done(z)
    <2>1. Grown(w, made, n)
      <3>1. id = Hidden \/ \A m \in w.nodes : w.mID[m] # id
        BY <1>11
      <3>2. n \notin w.nodes
        BY <1>11
      <3>3. QED
        BY <1>3, <1>8, <3>1, <3>2, NewGrown
    <2>2. CASE Recursion(made, target) /\ Crash
      <3>1. made.t = world.t
        BY <1>8, <2>1 DEF Grown
      <3>2. Recursion(world, target)
        BY <2>2, <3>1 DEF Recursion, StrictlyBelow
      <3>3. ~use.careful
        BY <1>6, <3>2, CarefulEnds
      <3>4. QED
        BY <2>2, <3>3, CrashInv
    <2>3. CASE Done(z)
      <3>1. /\ SaneWorld(r)
            /\ Held(w) /\ target # Root => Held(r)
        BY <1>4, <1>6, <1>8, <1>11, <2>1, ReplaceSane
      <3>2. SameTree(r, z)
        BY <1>5, <3>1, StateMsgSame DEF SaneWorld
      <3>3. SaneWorld(z) /\ (Held(r) => Held(z))
        BY <3>1, <3>2, SameTreeSane DEF SameTree, Held
      <3>4. QED
        BY <1>6, <1>9, <2>3, <3>1, <3>3, DoneInv
    <2>4. QED
      BY <1>11, <2>2, <2>3
  <1>12. QED
    BY <1>6, <1>10, <1>11

\* A move of one node, which all the commands that move nodes are made of.
LEMMA MoveInv ==
    ASSUME NEW w, SaneWorld(w), NEW n \in w.nodes, NEW x \in w.nodes,
           NEW addAction \in 0 .. 3, addAction \in {0, 1} => w.mIsGroup[x],
           NEW announce \in BOOLEAN, Movable(w, n, x), addAction \in {2, 3} => Beside(x),
           use.careful => Held(w),
           NEW v, v = Move(w, n, addAction, x, announce)
    PROVE  /\ SaneWorld(v) /\ v.nodes = w.nodes /\ v.mIsGroup = w.mIsGroup
           /\ use.careful => Held(v) /\ n # Root
  <1>1. Relinked(w, v, Moved(w.t, n, addAction, x))
    BY MoveSane
  <1>2. ASSUME use.careful PROVE Held(v) /\ n # Root
    <2>1. x \notin {n} \cup Below(w.t, n)
      BY <1>2 DEF Movable, StrictlyBelow
    <2>2. addAction \in {2, 3} => x # Root
      BY <1>2 DEF Beside
    <2>3. QED
      BY <1>1, <1>2, <2>1, <2>2, MoveHeld
  <1>3. QED
    BY <1>1, <1>2 DEF Relinked

LEMMA MovesInv ==
    ASSUME Inv, UNCHANGED use, NEW n \in Node, NEW target \in Node,
           n_before(n, target) \/ n_after(n, target)
              \/ g_head(target, n) \/ g_tail(target, n)
    PROVE  Inv'
  <1>1. PICK q : q = Quiet(world)
    OBVIOUS
  <1>2. /\ SaneWorld(q) /\ q.nodes = world.nodes /\ q.t = world.t
        /\ q.mIsGroup = world.mIsGroup
        /\ use.careful => Held(q)
    BY <1>1, QuietWorld
  <1>3. ASSUME NEW a \in 0 .. 3, NEW announce \in BOOLEAN, Between2Blocks,
               n \in world.nodes, target \in world.nodes, Movable(world, n, target),
               a \in {0, 1} => world.mIsGroup[target], a \in {2, 3} => Beside(target),
               Done(Move(q, n, a, target, announce))
        PROVE  Inv'
    <2>1. PICK v : v = Move(q, n, a, target, announce)
      OBVIOUS
    <2>2. Movable(q, n, target) /\ n \in q.nodes /\ target \in q.nodes
          /\ (a \in {0, 1} => q.mIsGroup[target])
      BY <1>2, <1>3 DEF Movable, StrictlyBelow
    <2>3. SaneWorld(v) /\ (use.careful => Held(v))
      BY <1>2, <1>3, <2>1, <2>2, MoveInv
    <2>4. Done(v)
      BY <1>3, <2>1, Zenon
    <2>5. QED
      BY <1>3, <2>3, <2>4, DoneInv
  <1>4. PICK yes \in BOOLEAN : yes = TRUE
    OBVIOUS
  <1>5. CASE n_before(n, target)
    <2>1. /\ Between2Blocks /\ n \in world.nodes /\ target \in world.nodes
          /\ Movable(world, n, target) /\ Beside(target) /\ Done(Move(q, n, 2, target, yes))
      BY <1>1, <1>4, <1>5, Zenon DEF n_before
    <2>2. 2 \in 0 .. 3 /\ ~(2 \in {0, 1})
      OBVIOUS
    <2>3. QED
      BY <1>3, <2>1, <2>2, Zenon
  <1>6. CASE n_after(n, target)
    <2>1. /\ Between2Blocks /\ n \in world.nodes /\ target \in world.nodes
          /\ Movable(world, n, target) /\ Beside(target) /\ Done(Move(q, n, 3, target, yes))
      BY <1>1, <1>4, <1>6, Zenon DEF n_after
    <2>2. 3 \in 0 .. 3 /\ ~(3 \in {0, 1})
      OBVIOUS
    <2>3. QED
      BY <1>3, <2>1, <2>2, Zenon
  <1>7. CASE g_head(target, n)
    <2>1. PICK announce \in BOOLEAN : announce = (world.t.mParent[n] # target)
      OBVIOUS
    <2>2. /\ Between2Blocks /\ n \in world.nodes /\ target \in world.nodes
          /\ Movable(world, n, target) /\ world.mIsGroup[target]
          /\ Done(Move(q, n, 0, target, announce))
      BY <1>1, <2>1, <1>7, Zenon DEF g_head
    <2>3. 0 \in 0 .. 3 /\ ~(0 \in {2, 3})
      OBVIOUS
    <2>4. QED
      BY <1>3, <2>2, <2>3, Zenon
  <1>8. CASE g_tail(target, n)
    <2>1. /\ Between2Blocks /\ n \in world.nodes /\ target \in world.nodes
          /\ Movable(world, n, target) /\ world.mIsGroup[target]
          /\ Done(Move(q, n, 1, target, yes))
      BY <1>1, <1>4, <1>8, Zenon DEF g_tail
    <2>2. 1 \in 0 .. 3 /\ ~(1 \in {2, 3})
      OBVIOUS
    <2>3. QED
      BY <1>3, <2>1, <2>2, Zenon
  <1>9. QED
    BY <1>5, <1>6, <1>7, <1>8

LEMMA OrderInv ==
    ASSUME Inv, UNCHANGED use, NEW n \in Node, NEW m \in Node, NEW target \in Node,
           NEW addAction \in 0 .. 3, n_order(addAction, target, n, m)
    PROVE  Inv'
  <1>1. PICK q : q = Quiet(world)
    OBVIOUS
  <1>2. /\ SaneWorld(q) /\ q.nodes = world.nodes /\ q.t = world.t
        /\ q.mIsGroup = world.mIsGroup
        /\ use.careful => Held(q)
    BY <1>1, QuietWorld
  <1>3. PICK announce \in BOOLEAN :
           announce = (addAction \in {2, 3} \/ world.t.mParent[n] # target)
    OBVIOUS
  <1>4. PICK w : w = Move(q, n, addAction, target, announce)
    OBVIOUS
  <1>5. PICK v : v = Move(w, m, 3, n, TRUE)
    OBVIOUS
  <1>6. /\ Between2Blocks /\ {n, m} \subseteq world.nodes /\ Target(addAction, target)
        /\ Movable(world, n, target) /\ Movable(w, m, n) /\ Done(v)
    BY <1>1, <1>3, <1>4, <1>5, Zenon DEF n_order
  <1>7. /\ Movable(q, n, target) /\ n \in q.nodes /\ target \in q.nodes
        /\ addAction \in {0, 1} => q.mIsGroup[target]
        /\ addAction \in {2, 3} => Beside(target)
    BY <1>2, <1>6 DEF Movable, StrictlyBelow, Target
  <1>8. /\ SaneWorld(w) /\ w.nodes = q.nodes
        /\ use.careful => Held(w) /\ n # Root
    BY <1>2, <1>4, <1>7, MoveInv
  <1>9. Beside(n) /\ n \in w.nodes /\ m \in w.nodes
    BY <1>2, <1>6, <1>8 DEF Beside
  <1>10. SaneWorld(v) /\ (use.careful => Held(v))
    <2>1. PICK yes \in BOOLEAN : yes = TRUE
      OBVIOUS
    <2>2. v = Move(w, m, 3, n, yes)
      BY <1>5, <2>1, Zenon
    <2>3. 3 \in 0 .. 3 /\ ~(3 \in {0, 1})
      OBVIOUS
    <2>4. QED
      BY <1>6, <1>8, <1>9, <2>2, <2>3, MoveInv
  <1>11. QED
    BY <1>6, <1>10, DoneInv

LEMMA RemovesInv ==
    ASSUME Inv, UNCHANGED use, NEW n \in Node,
           n_free(n) \/ g_freeAll(n) \/ g_deepFree(n)
    PROVE  Inv'
  <1>1. PICK q : q = Quiet(world)
    OBVIOUS
  <1>2. SaneWorld(q) /\ (use.careful => Held(q))
    BY <1>1, QuietWorld
  <1>3. ASSUME Between2Blocks, NEW v, NEW D, Pruned(q, v, D), Done(v)
        PROVE  Inv'
    <2>1. SaneWorld(v) /\ (Held(q) => Held(v))
      BY <1>3, PrunedHeld DEF Pruned
    <2>2. QED
      BY <1>2, <1>3, <2>1, DoneInv
  <1>4. ASSUME n \in world.nodes, Recursion(world, n), Crash
        PROVE  Inv'
    BY <1>4, CarefulEnds, CrashInv
  <1>5. CASE n_free(n)
    <2>1. Between2Blocks /\ n \in world.nodes /\ n # Root
          /\ ((Recursion(world, n) /\ Crash) \/ Done(Node_Delete(q, n)))
      BY <1>1, <1>5, Zenon DEF n_free
    <2>2. Pruned(q, Node_Delete(q, n), {n} \cup Below(q.t, n))
      BY <1>2, <2>1, DeletePruned
    <2>3. QED
      BY <1>3, <1>4, <2>1, <2>2, Zenon
  <1>6. CASE g_freeAll(n)
    <2>1. Between2Blocks /\ n \in world.nodes
          /\ ((Recursion(world, n) /\ Crash) \/ Done(Group_DeleteAll(q, n)))
      BY <1>1, <1>6, Zenon DEF g_freeAll
    <2>2. Pruned(q, Group_DeleteAll(q, n), Below(q.t, n))
      BY <1>2, DeleteAllPruned
    <2>3. QED
      BY <1>3, <1>4, <2>1, <2>2, Zenon
  <1>7. CASE g_deepFree(n)
    <2>1. Between2Blocks /\ n \in world.nodes
          /\ ((Recursion(world, n) /\ Crash) \/ Done(Group_DeepFreeGraphs(q, n)))
      BY <1>1, <1>7, Zenon DEF g_deepFree
    <2>2. Pruned(q, Group_DeepFreeGraphs(q, n), {x \in Below(q.t, n) : ~q.mIsGroup[x]})
      BY <1>2, DeepFreePruned
    <2>3. QED
      BY <1>3, <1>4, <2>1, <2>2, Zenon
  <1>8. QED
    BY <1>5, <1>6, <1>7

\* The commands that leave the tree as it is.
LEMMA SettingsInv ==
    ASSUME Inv, UNCHANGED use, NEW n \in Node, NEW run,
           n_run(n, run) \/ s_noid(n) \/ n_trace(n) \/ g_dumpTree(n)
    PROVE  Inv'
  <1>1. PICK q : q = Quiet(world)
    OBVIOUS
  <1>2. SaneWorld(q) /\ q \in World /\ (use.careful => Held(q))
    BY <1>1, QuietWorld
  <1>3. ASSUME Between2Blocks, NEW v, SaneWorld(v), v.t = q.t, v.nodes = q.nodes, Done(v)
        PROVE  Inv'
    <2>1. Held(q) => Held(v)
      BY <1>3 DEF Held
    <2>2. QED
      BY <1>2, <1>3, <2>1, DoneInv
  <1>4. ASSUME Between2Blocks, NEW v, SameTree(q, v), Done(v)
        PROVE  Inv'
    <2>1. SaneWorld(v) /\ v.t = q.t /\ v.nodes = q.nodes
      BY <1>2, <1>4, SameTreeSane DEF SameTree
    <2>2. QED
      BY <1>3, <1>4, <2>1
  <1>5. CASE n_run(n, run)
    <2>1. Between2Blocks /\ Done(Node_SetRun(q, n, run))
      BY <1>1, <1>5, Zenon DEF n_run
    <2>2. SameTree(q, Node_SetRun(q, n, run))
      BY <1>2, SetRunSame
    <2>3. QED
      BY <1>4, <2>1, <2>2, Zenon
  <1>6. CASE s_noid(n)
    <2>1. Between2Blocks /\ Done(Node_RemoveID(q, n))
      BY <1>1, <1>6, Zenon DEF s_noid
    <2>2. Relinked(q, Node_RemoveID(q, n), q.t)
      BY <1>2, RemoveIDSane
    <2>3. QED
      BY <1>3, <2>1, <2>2, Zenon DEF Relinked
  <1>7. CASE n_trace(n)
    <2>1. Between2Blocks /\ Done(Node_Trace(q, n))
      BY <1>1, <1>7, Zenon DEF n_trace
    <2>2. SameTree(q, Node_Trace(q, n))
      BY <1>2, TraceSame
    <2>3. QED
      BY <1>4, <2>1, <2>2, Zenon
  <1>8. CASE g_dumpTree(n)
    <2>1. Between2Blocks /\ Done(Group_DumpTree(q, n))
      BY <1>1, <1>8, Zenon DEF g_dumpTree
    <2>2. SameTree(q, Group_DumpTree(q, n))
      BY <1>2, TraceSame
    <2>3. QED
      BY <1>4, <2>1, <2>2, Zenon
  <1>9. QED
    BY <1>5, <1>6, <1>7, <1>8

\* A call that leaves what CallSafe says keeps the invariant.
LEMMA CallInv ==
    ASSUME Inv, UNCHANGED use, NEW w, NEW calls, NEW n, Called(w, calls, n),
           \A i \in 1 .. Len(calls) : calls[i].child # n, Call(w, n, calls),
           use.careful => Held(w)
    PROVE  Inv'
  <1>1. use \in Use /\ visited \subseteq Node /\ crashed \in BOOLEAN
    BY DEF Inv, StateOK
  <1>2. /\ SaneWorld(world') /\ Walked(world', stack')
        /\ stack' \in Seq(Frame) /\ visited' \subseteq Node /\ crashed' = crashed
        /\ Held(w) => Held(world')
    BY <1>1, CallSafe
  <1>3. StateOK'
    BY <1>1, <1>2 DEF StateOK
  <1>4. Safe'
    BY <1>2 DEF Inv, Safe
  <1>5. QED
    BY <1>2, <1>3, <1>4 DEF Inv

LEMMA RunInv ==
    ASSUME Inv, UNCHANGED use, World_Run
    PROVE  Inv'
  <1>1. PICK q : q = Quiet(world)
    OBVIOUS
  <1>2. SaneWorld(q) /\ (use.careful => Held(q))
    BY <1>1, QuietWorld
  <1>3. PICK none : none = << >>
    OBVIOUS
  <1>4. /\ Call(q, Root, none)
        /\ none \in Seq(Frame) /\ Walked(q, none)
        /\ \A i \in 1 .. Len(none) : none[i].child # Root
    <2>1. Call(q, Root, none)
      BY <1>1, <1>3, Zenon DEF World_Run
    <2>2. none \in Seq(Frame) /\ Len(none) = 0
      BY <1>3
    <2>3. QED
      BY <2>1, <2>2 DEF Walked
  <1>5. Root \in q.nodes /\ q.t.mParent[Root] = Null
    BY <1>2 DEF SaneWorld, Sane
  <1>6. Called(q, none, Root)
    BY <1>2, <1>3, <1>4, <1>5 DEF Called
  <1>7. QED
    BY <1>2, <1>4, <1>6, CallInv

LEMMA CallChildInv ==
    ASSUME Inv, UNCHANGED use, CallChild
    PROVE  Inv'
  <1>1. PICK q : q = Quiet(world)
    OBVIOUS
  <1>2. /\ SaneWorld(q) /\ q \in World /\ Walked(q, stack) /\ q.t = world.t
        /\ use.careful => Held(q)
    BY <1>1, QuietWorld
  <1>3. stack \in Seq(Frame) /\ stack # <<>>
    BY DEF Inv, StateOK, CallChild
  <1>4. PICK n : n = stack[1].child
    OBVIOUS
  <1>5. PICK w : w = IF stack[1].func = "Group_CalcDumpTree" /\ q.mIsGroup[n]
                     THEN Group_DumpTree(q, n) ELSE q
    OBVIOUS
  <1>6. PICK e : e = [stack[1] EXCEPT !.child = world.t.mNext[n]]
    OBVIOUS
  <1>7. PICK calls : calls = <<e>> \o Tail(stack)
    OBVIOUS
  <1>8. n # Null /\ Call(w, n, calls)
    BY <1>1, <1>4, <1>5, <1>6, <1>7, Zenon DEF CallChild
  <1>9. /\ SaneWorld(w) /\ Walked(w, stack) /\ w.t = world.t
        /\ Held(q) => Held(w)
    <2>1. SameTree(q, q) /\ SameTree(q, Group_DumpTree(q, n))
      BY <1>2, TraceSame DEF SameTree
    <2>2. SameTree(q, w)
      BY <1>5, <2>1, Zenon
    <2>3. SaneWorld(w)
      BY <1>2, <2>2, SameTreeSane
    <2>4. w.t = q.t /\ w.nodes = q.nodes
      BY <2>2 DEF SameTree
    <2>5. QED
      BY <1>2, <2>3, <2>4 DEF Walked, Held
  <1>10. e \in Frame /\ e.group = stack[1].group /\ e.child = w.t.mNext[n]
    <2>1. n \in Node /\ stack[1] \in Frame
      BY <1>2, <1>3, <1>4, <1>8, WorldType DEF Walked
    <2>2. world.t.mNext[n] \in NodeOrNull
      BY <1>2, <2>1, WorldType, LinksType
    <2>3. QED
      BY <1>6, <1>9, <2>1, <2>2 DEF Frame
  <1>11. /\ calls \in Seq(Frame) /\ Len(calls) = Len(stack) /\ calls[1] = e
         /\ \A i \in 2 .. Len(stack) : calls[i] = stack[i]
    BY <1>3, <1>7, <1>10, SetChild
  <1>12. /\ Called(w, calls, n)
         /\ \A i \in 1 .. Len(calls) : calls[i].child # n
    BY <1>3, <1>4, <1>8, <1>9, <1>10, <1>11, NextCalled
  <1>13. QED
    BY <1>2, <1>8, <1>9, <1>12, CallInv

LEMMA ReturnInv ==
    ASSUME Inv, UNCHANGED use, ReturnGroup
    PROVE  Inv'
  <1>1. PICK q : q = Quiet(world)
    OBVIOUS
  <1>2. /\ SaneWorld(q) /\ q \in World /\ Walked(q, stack)
        /\ use.careful => Held(q)
    BY <1>1, QuietWorld
  <1>3. stack \in Seq(Frame) /\ stack # <<>>
    BY DEF Inv, StateOK, ReturnGroup
  <1>4. PICK r : r = Tail(stack)
    OBVIOUS
  <1>5. PICK v : v = IF stack[1].func = "Group_Calc" THEN q
                     ELSE [q EXCEPT !.mCalcFunc[stack[1].group] = "Group_Calc"]
    OBVIOUS
  <1>6. world' = v /\ stack' = r /\ crashed' = crashed
    BY <1>1, <1>4, <1>5, Zenon DEF ReturnGroup
  <1>7. visited' \subseteq Node
    BY DEF ReturnGroup, Inv, StateOK
  <1>8. SameTree(q, v)
    <2>1. SameTree(q, q) /\ "Group_Calc" \in CalcFunc
      BY <1>2 DEF SameTree, CalcFunc
    <2>2. SameTree(q, [q EXCEPT !.mCalcFunc[stack[1].group] = "Group_Calc"])
      BY <1>2, <2>1, SetCalcSame
    <2>3. QED
      BY <1>5, <2>1, <2>2, Zenon
  <1>9. SaneWorld(v) /\ v.t = q.t /\ v.nodes = q.nodes /\ (Held(q) => Held(v))
    BY <1>2, <1>8, SameTreeSane DEF SameTree, Held
  <1>10. /\ Len(stack) \in Nat /\ r \in Seq(Frame) /\ Len(r) = Len(stack) - 1
         /\ \A i \in 1 .. Len(stack) - 1 : r[i] = stack[i + 1]
    BY <1>3, <1>4
  <1>11. Walked(v, r)
    <2>1. Walked(v, stack)
      BY <1>2, <1>9 DEF Walked
    <2>2. \A i \in 1 .. Len(r) : /\ i \in Nat /\ i + 1 \in 1 .. Len(stack)
                                 /\ r[i] = stack[i + 1]
                                 /\ i = Len(r) <=> i + 1 = Len(stack)
                                 /\ i # Len(r) => i + 1 \in 1 .. Len(r)
      BY <1>10
    <2>3. ASSUME NEW i \in 1 .. Len(r)
          PROVE  /\ r[i].group \in v.nodes
                 /\ r[i].child # Null =>
                       r[i].child \in v.nodes /\ v.t.mParent[r[i].child] = r[i].group
      <3>1. i + 1 \in 1 .. Len(stack) /\ r[i] = stack[i + 1]
        BY <2>2
      <3>2. QED
        BY <2>1, <3>1 DEF Walked
    <2>4. ASSUME NEW i \in 1 .. Len(r)
          PROVE  v.t.mParent[r[i].group] = IF i = Len(r) THEN Null ELSE r[i + 1].group
      <3>1. PICK j : j = i + 1
        OBVIOUS
      <3>2. j \in 1 .. Len(stack) /\ r[i] = stack[j] /\ (i = Len(r) <=> j = Len(stack))
        BY <2>2, <3>1
      <3>3. v.t.mParent[stack[j].group] = IF j = Len(stack) THEN Null ELSE stack[j + 1].group
        BY <2>1, <3>2 DEF Walked
      <3>4. i # Len(r) => r[i + 1] = stack[j + 1]
        BY <2>2, <3>1
      <3>5. QED
        BY <3>2, <3>3, <3>4
    <2>5. ASSUME NEW i \in 1 .. Len(r), NEW j \in 1 .. Len(r), r[i].group = r[j].group
          PROVE  i = j
      <3>1. /\ i + 1 \in 1 .. Len(stack) /\ r[i] = stack[i + 1] /\ i \in Nat
            /\ j + 1 \in 1 .. Len(stack) /\ r[j] = stack[j + 1] /\ j \in Nat
        BY <2>2
      <3>2. i + 1 = j + 1
        BY <2>1, <2>5, <3>1 DEF Walked
      <3>3. QED
        BY <3>1, <3>2
    <2>6. QED
      BY <2>3, <2>4, <2>5 DEF Walked
  <1>12. StateOK'
    BY <1>6, <1>7, <1>9, <1>10 DEF Inv, StateOK
  <1>13. Safe'
    BY <1>2, <1>6, <1>9 DEF Inv, Safe
  <1>14. Walked(world', stack')
    BY <1>6, <1>11
  <1>15. QED
    BY <1>12, <1>13, <1>14 DEF Inv

-----------------------------------------------------------------------------
(* The invariant. *)

LEMMA InitInv ==
    ASSUME Init PROVE Inv
  <1>1. use \in Use
    BY ConstAssumption DEF Init
  <1>2. NoLinks \in Links /\ Linked(NoLinks)
    BY RootAssumption DEF NoLinks, Links, Linked, NodeOrNull
  <1>3. /\ \A n \in Node : NoLinks.mParent[n] = Null /\ NoLinks.mPrev[n] = Null
        /\ \A n \in Node : NoLinks.mNext[n] = Null
        /\ \A n \in Node : NoLinks.mHead[n] = Null /\ NoLinks.mTail[n] = Null
    BY DEF NoLinks
  <1>4. NoRing(NoLinks)
    BY <1>3, RootAssumption DEF NoRing
  <1>5. /\ world.t = NoLinks /\ world.nodes = {Root} /\ world.mIsGroup[Root]
        /\ world.mID[Root] = 0
    BY RootAssumption DEF Init
  <1>6. world \in World
    BY <1>2, RootAssumption DEF Init, World, CalcFunc
  <1>7. Sane(NoLinks, {Root}, world.mIsGroup)
    BY <1>2, <1>3, <1>4, RootAssumption DEF Sane, Within, Grouped
  <1>8. SaneWorld(world)
    BY <1>5, <1>6, <1>7, RootAssumption DEF SaneWorld, UniqueIDs
  <1>9. stack = <<>> /\ visited = {} /\ crashed = FALSE
    BY DEF Init
  <1>10. StateOK
    <2>1. stack \in Seq(Frame) /\ visited \subseteq Node
      BY <1>9
    <2>2. crashed \in BOOLEAN
      BY <1>9
    <2>3. QED
      BY <1>1, <1>8, <2>1, <2>2 DEF StateOK
  <1>11. Safe
    BY <1>5, <1>9 DEF Safe, Held
  <1>12. Walked(world, stack)
    BY <1>9 DEF Walked
  <1>13. QED
    BY <1>10, <1>11, <1>12 DEF Inv

LEMMA NextInv ==
    ASSUME Inv, [Next]_vars PROVE Inv'
  <1>1. CASE UNCHANGED vars
    BY <1>1 DEF vars, Inv, StateOK, Safe
  <1>2. use \in Use /\ use.addActions \subseteq 0 .. 3 /\ use.ids \subseteq ID
    BY DEF Inv, StateOK, Use
  <1>3. ASSUME UNCHANGED use, Create PROVE Inv'
    <2>1. PICK n \in Node, target \in Node, addAction \in use.addActions :
             \/ \E id \in use.ids \cup {Hidden}, isGroup \in BOOLEAN :
                   New(n, id, isGroup, addAction, target)
             \/ NewAgain(n, addAction, target)
      BY <1>3, Zenon DEF Create
    <2>2. addAction \in 0 .. 3
      BY <1>2
    <2>3. CASE NewAgain(n, addAction, target)
      BY <1>3, <2>2, <2>3, NewAgainInv
    <2>4. CASE \E id \in use.ids \cup {Hidden}, isGroup \in BOOLEAN :
                   New(n, id, isGroup, addAction, target)
      <3>1. PICK id \in use.ids \cup {Hidden}, isGroup \in BOOLEAN :
                   New(n, id, isGroup, addAction, target)
        BY <2>4, Zenon
      <3>2. id \in ID \cup {Hidden}
        BY <1>2
      <3>3. QED
        BY <1>3, <2>2, <3>1, <3>2, NewInv
    <2>5. QED
      BY <2>1, <2>3, <2>4
  <1>4. ASSUME UNCHANGED use, Exchange PROVE Inv'
    <2>1. PICK n \in Node, target \in Node, id \in use.ids \cup {Hidden},
               isGroup \in BOOLEAN, removeID \in BOOLEAN :
             Replace(n, id, isGroup, removeID, target)
      BY <1>4, Zenon DEF Exchange
    <2>2. id \in ID \cup {Hidden}
      BY <1>2
    <2>3. QED
      BY <1>4, <2>1, <2>2, ReplaceInv
  <1>5. ASSUME UNCHANGED use, Reorder PROVE Inv'
    <2>1. PICK n \in Node, target \in Node :
             \/ n_before(n, target) \/ n_after(n, target)
             \/ g_head(target, n) \/ g_tail(target, n)
             \/ \E addAction \in use.addActions, m \in Node : n_order(addAction, target, n, m)
      BY <1>5, Zenon DEF Reorder
    <2>2. CASE \/ n_before(n, target) \/ n_after(n, target)
               \/ g_head(target, n) \/ g_tail(target, n)
      BY <1>5, <2>2, MovesInv
    <2>3. CASE \E addAction \in use.addActions, m \in Node : n_order(addAction, target, n, m)
      <3>1. PICK addAction \in use.addActions, m \in Node : n_order(addAction, target, n, m)
        BY <2>3, Zenon
      <3>2. addAction \in 0 .. 3
        BY <1>2
      <3>3. QED
        BY <1>5, <3>1, <3>2, OrderInv
    <2>4. QED
      BY <2>1, <2>2, <2>3
  <1>6. ASSUME UNCHANGED use, Remove PROVE Inv'
    <2>1. PICK n \in Node : n_free(n) \/ g_freeAll(n) \/ g_deepFree(n)
      BY <1>6, Zenon DEF Remove
    <2>2. QED
      BY <1>6, <2>1, RemovesInv
  <1>7. ASSUME UNCHANGED use, Switch \/ Trace \/ Hide PROVE Inv'
    <2>1. PICK n \in Node, run \in BOOLEAN :
             n_run(n, run) \/ s_noid(n) \/ n_trace(n) \/ g_dumpTree(n)
      BY <1>7, Zenon DEF Switch, Trace, Hide
    <2>2. QED
      BY <1>7, <2>1, SettingsInv
  <1>8. ASSUME UNCHANGED use, Block PROVE Inv'
    BY <1>8, RunInv, CallChildInv, ReturnInv, Zenon DEF Block
  <1>9. QED
    BY <1>1, <1>3, <1>4, <1>5, <1>6, <1>7, <1>8, Zenon DEF Next

\* What is inductive holds at all times; the theorems below follow from it.
THEOREM Invariance == Spec => []Inv
  <1>1. Init => Inv
    BY InitInv
  <1>2. Inv /\ [Next]_vars => Inv'
    BY NextInv
  <1>3. QED
    BY <1>1, <1>2, PTL DEF Spec

\* What a client knows, and what it cannot know, are sets of IDs.
ClientOK == client \in [known : SUBSET ID, unsure : SUBSET ID]

LEMMA ClientTyped ==
    ASSUME ClientOK, [Next]_vars PROVE ClientOK'
  <1>1. CASE UNCHANGED client
    BY <1>1 DEF ClientOK
  <1>2. CASE Notify
    <2>1. PICK heard \in SUBSET News(world') :
             client' = [known |-> (client.known \ About(Ending(heard))) \cup About(Going(heard)),
                        unsure |-> (client.unsure \ About(heard)) \cup About(News(world') \ heard)]
      BY <1>2, Zenon DEF Notify
    <2>2. /\ About(News(world') \ heard) \subseteq ID /\ About(Going(heard)) \subseteq ID
      BY DEF About, News, Going
    <2>3. client.known \subseteq ID /\ client.unsure \subseteq ID
      BY DEF ClientOK
    <2>4. QED
      BY <2>1, <2>2, <2>3 DEF ClientOK
  <1>3. QED
    BY <1>1, <1>2, Zenon DEF Next, vars

(* The state of the node tree has its type at all times: in particular the *)
(* root group is never freed, replaced, moved or renamed by a command or a *)
(* done action (Node_Delete and Node_Replace return early on it).          *)
THEOREM TypeCorrect == Spec => []TypeOK
  <1>1. Inv /\ ClientOK => TypeOK
    BY DEF Inv, StateOK, SaneWorld, TypeOK, Frame, ClientOK
  <1>2. Init => ClientOK
    BY DEF Init, ClientOK
  <1>3. ClientOK /\ [Next]_vars => ClientOK'
    BY ClientTyped
  <1>4. QED
    BY <1>1, <1>2, <1>3, Invariance, PTL DEF Spec

(* Whatever clients ask for and however many nodes there are, neighbours,  *)
(* heads, tails and parents agree, no link leads to a node that was freed, *)
(* and no two nodes share an ID: Node_Remove, Group_AddHead and the others *)
(* of SC_Node.cpp and SC_Group.cpp, in every order the commands call them. *)
THEOREM LinksAgree == Spec => []LinksOK
  <1>1. Inv => LinksOK
    <2> SUFFICES ASSUME Inv PROVE LinksOK
      OBVIOUS
    <2>1. /\ Linked(world.t) /\ Within(world.t, world.nodes)
          /\ Grouped(world.t, world.mIsGroup) /\ UniqueIDs(world)
      BY DEF Inv, StateOK, SaneWorld, Sane
    <2>2. /\ Root \in world.nodes /\ world.t \in Links
      BY DEF Inv, StateOK, SaneWorld, Sane
    <2>3. ASSUME NEW n \in Node \ world.nodes, NEW m \in Node
          PROVE  /\ world.t.mParent[m] # n /\ world.t.mPrev[m] # n
                 /\ world.t.mNext[m] # n
                 /\ world.t.mHead[m] # n /\ world.t.mTail[m] # n
      BY <2>1, <2>2, RootAssumption DEF Within
    <2>4. QED
      BY <2>1, <2>3 DEF LinksOK, Grouped, UniqueIDs
  <1>2. QED
    BY <1>1, Invariance, PTL

(* With careful clients no command and no done action loses a node: every  *)
(* allocated node stays below the root, so that World_Run and a later      *)
(* /g_freeAll reach it; and no command recurses without end or follows a   *)
(* null parent.                                                            *)
THEOREM TreeConnected == Spec => []Connected
  <1>1. Inv => Connected
    <2> SUFFICES ASSUME Inv, use.careful
                 PROVE  world.nodes = {Root} \cup Below(world.t, Root) /\ ~crashed
      BY DEF Connected, StrictlyBelow
    <2>1. Held(world) /\ ~crashed
      BY DEF Inv, Safe
    <2>2. Root \in world.nodes /\ Within(world.t, world.nodes)
      BY DEF Inv, StateOK, SaneWorld, Sane
    <2>3. Below(world.t, Root) \subseteq world.nodes
      <3>1. ASSUME NEW x \in Below(world.t, Root) PROVE x \in world.nodes
        <4>1. x \in Node /\ world.t.mParent[x] \in Below(world.t, Root) \cup {Root}
          BY <3>1, BelowUp
        <4>2. world.t.mParent[x] # Null
          BY <4>1, RootAssumption DEF Below
        <4>3. QED
          BY <2>2, <4>1, <4>2 DEF Within
      <3>2. QED
        BY <3>1
    <2>4. QED
      BY <2>1, <2>2, <2>3 DEF Held
  <1>2. QED
    BY <1>1, Invariance, PTL

(* The local variable next of every Group_Calc under way is, after         *)
(* whatever the synths' done actions deleted, still an allocated node of   *)
(* that group, and the group itself is still there.                        *)
THEOREM WalkIsSafe == Spec => []WalkSafe
  <1>1. Inv => WalkSafe
    BY DEF Inv, Walked, WalkSafe
  <1>2. QED
    BY <1>1, Invariance, PTL

-----------------------------------------------------------------------------
(* The notifications. *)

LEMMA BelowAllocated ==
    ASSUME NEW w, SaneWorld(w), NEW g \in Node
    PROVE  Below(w.t, g) \subseteq w.nodes
  <1> SUFFICES ASSUME NEW x \in Below(w.t, g) PROVE x \in w.nodes
    OBVIOUS
  <1>1. x \in Node /\ w.t.mParent[x] \in Below(w.t, g) \cup {g}
    BY BelowUp
  <1>2. w.t.mParent[x] # Null
    BY <1>1, RootAssumption DEF Below
  <1>3. QED
    BY <1>1, <1>2 DEF SaneWorld, Sane, Within

LEMMA ToldTrans ==
    ASSUME NEW u, NEW v, NEW w, Told(u, v), Told(v, w)
    PROVE  Told(u, w)
  BY DEF Told

\* From w to v no node goes, and none is said to have come or gone.
Silent(w, v) ==
    /\ SameTree(w, v)
    /\ Sent(v, "go") = Sent(w, "go") /\ Sent(v, "end") = Sent(w, "end")

LEMMA SilentTold ==
    ASSUME NEW w, NEW v, Silent(w, v)
    PROVE  Told(w, v)
  BY DEF Silent, SameTree, Told, VisibleIDs

LEMMA SilentTrans ==
    ASSUME NEW u, NEW v, NEW w, Silent(u, v), Silent(v, w)
    PROVE  Silent(u, w)
  BY SameTreeTrans DEF Silent

LEMMA SameNotes ==
    ASSUME NEW w, NEW v, SameTree(w, v), v.notes = w.notes
    PROVE  Silent(w, v)
  BY DEF Silent, Sent

LEMMA SetCalcSilent ==
    ASSUME NEW w \in World, NEW n, NEW f \in CalcFunc
    PROVE  Silent(w, [w EXCEPT !.mCalcFunc[n] = f])
  <1>1. PICK v : v = [w EXCEPT !.mCalcFunc[n] = f]
    OBVIOUS
  <1>2. SameTree(w, v)
    BY <1>1, SetCalcSame
  <1>3. v.notes = w.notes
    BY <1>1 DEF World
  <1>4. QED
    BY <1>1, <1>2, <1>3, SameNotes

LEMMA BuiltSilent ==
    ASSUME NEW w \in World, NEW n
    PROVE  Silent(w, [w EXCEPT !.built[n] = TRUE])
  <1>1. PICK v : v = [w EXCEPT !.built[n] = TRUE]
    OBVIOUS
  <1>2. SameTree(w, v)
    BY <1>1, BuiltSame
  <1>3. v.notes = w.notes
    BY <1>1 DEF World
  <1>4. QED
    BY <1>1, <1>2, <1>3, SameNotes

LEMMA StateMsgSilent ==
    ASSUME NEW w \in World, NEW n \in Node, NEW state \in {"on", "off", "move"}
    PROVE  Silent(w, Node_StateMsg(w, n, state))
  <1>1. PICK v : v = Node_StateMsg(w, n, state)
    OBVIOUS
  <1>2. SameTree(w, v)
    BY <1>1, StateMsgSame
  <1>3. v.notes = w.notes \/ v.notes = w.notes \cup {<<state, w.mID[n]>>}
    BY <1>1 DEF Node_StateMsg, World
  <1>4. \A id : <<"go", id>> # <<state, w.mID[n]>> /\ <<"end", id>> # <<state, w.mID[n]>>
    OBVIOUS
  <1>5. Sent(v, "go") = Sent(w, "go") /\ Sent(v, "end") = Sent(w, "end")
    BY <1>3, <1>4 DEF Sent
  <1>6. QED
    BY <1>1, <1>2, <1>5 DEF Silent

LEMMA SetRunSilent ==
    ASSUME NEW w \in World, NEW n \in Node, NEW run
    PROVE  Silent(w, Node_SetRun(w, n, run))
  <1>1. PICK f : f = IF w.mIsGroup[n] THEN "Group_Calc" ELSE "Graph_Calc"
    OBVIOUS
  <1>2. PICK g : g = IF w.mCalcFunc[n] = "Graph_FirstCalc" THEN "Graph_NullFirstCalc"
                     ELSE "Node_NullCalc"
    OBVIOUS
  <1>3. f \in CalcFunc /\ g \in CalcFunc
    BY <1>1, <1>2 DEF CalcFunc
  <1>4. PICK on : on = [w EXCEPT !.mCalcFunc[n] = f]
    OBVIOUS
  <1>5. PICK off : off = [w EXCEPT !.mCalcFunc[n] = g]
    OBVIOUS
  <1>6. Silent(w, on) /\ Silent(w, off) /\ on \in World /\ off \in World
    <2>1. Silent(w, on) /\ Silent(w, off)
      BY <1>3, <1>4, <1>5, SetCalcSilent, Zenon
    <2>2. QED
      BY <2>1 DEF Silent, SameTree
  <1>7. Silent(w, Node_StateMsg(on, n, "on")) /\ Silent(w, Node_StateMsg(off, n, "off"))
    BY <1>6, StateMsgSilent, SilentTrans
  <1>8. Node_SetRun(w, n, run) \in
           {w, Node_StateMsg(on, n, "on"), Node_StateMsg(off, n, "off")}
    BY <1>1, <1>2, <1>4, <1>5, Zenon DEF Node_SetRun
  <1>9. Silent(w, w)
    BY DEF Silent, SameTree
  <1>10. QED
    BY <1>7, <1>8, <1>9

LEMMA EndSilent ==
    ASSUME NEW w \in World, NEW n
    PROVE  Silent(w, Node_End(w, n))
  BY SetCalcSilent DEF Node_End, CalcFunc

LEMMA EndAllSilent ==
    ASSUME NEW w \in World, NEW S
    PROVE  Silent(w, EndAll(w, S))
  <1>1. PICK v : v = EndAll(w, S)
    OBVIOUS
  <1>2. SameTree(w, v)
    BY <1>1, EndAllSame
  <1>3. v.notes = w.notes
    BY <1>1 DEF World, EndAll
  <1>4. QED
    BY <1>1, <1>2, <1>3, SameNotes

LEMMA TraceSilent ==
    ASSUME NEW w \in World, NEW n
    PROVE  Silent(w, Node_Trace(w, n)) /\ Silent(w, Group_DumpTree(w, n))
  <1>1. Silent(w, w)
    BY DEF Silent, SameTree
  <1>2. /\ Silent(w, [w EXCEPT !.mCalcFunc[n] = "Group_CalcTrace"])
        /\ Silent(w, [w EXCEPT !.mCalcFunc[n] = "Graph_CalcTrace"])
        /\ Silent(w, [w EXCEPT !.mCalcFunc[n] = "Group_CalcDumpTree"])
    BY SetCalcSilent DEF CalcFunc
  <1>3. Node_Trace(w, n) \in {w, [w EXCEPT !.mCalcFunc[n] = "Group_CalcTrace"],
                              [w EXCEPT !.mCalcFunc[n] = "Graph_CalcTrace"]}
    BY DEF Node_Trace
  <1>4. Group_DumpTree(w, n) \in {w, [w EXCEPT !.mCalcFunc[n] = "Group_CalcDumpTree"]}
    BY DEF Group_DumpTree
  <1>5. QED
    BY <1>1, <1>2, <1>3, <1>4

\* What is deleted is announced.
LEMMA DeletesTold ==
    ASSUME use.mRealTime, NEW w, SaneWorld(w), NEW n \in w.nodes
    PROVE  /\ Told(w, Node_Delete(w, n)) /\ Told(w, Group_DeleteAll(w, n))
           /\ Told(w, Group_DeepFreeGraphs(w, n))
           /\ Told(w, FreeGroup(w, n)) /\ Told(w, DeepFree(w, n))
  <1>1. n \in Node /\ w \in World /\ Below(w.t, n) \subseteq w.nodes
    BY BelowAllocated, WorldType DEF SaneWorld
  <1>2. Told(w, Node_Delete(w, n))
    <2>1. CASE n = Root
      BY <2>1, SilentTold DEF Node_Delete, Silent, SameTree, SaneWorld
    <2>2. CASE n # Root
      <3>1. PICK D : D = {n} \cup Below(w.t, n)
        OBVIOUS
      <3>2. Pruned(w, Node_Delete(w, n), D) /\ D \subseteq w.nodes
        BY <1>1, <2>2, <3>1, DeletePruned
      <3>3. QED
        BY <3>2 DEF Pruned
    <2>3. QED
      BY <2>1, <2>2
  <1>3. Told(w, Group_DeleteAll(w, n))
    <2>1. PICK D : D = Below(w.t, n)
      OBVIOUS
    <2>2. Pruned(w, Group_DeleteAll(w, n), D) /\ D \subseteq w.nodes
      BY <1>1, <2>1, DeleteAllPruned
    <2>3. QED
      BY <2>2 DEF Pruned
  <1>4. Told(w, Group_DeepFreeGraphs(w, n))
    <2>1. PICK D : D = {x \in Below(w.t, n) : ~w.mIsGroup[x]}
      OBVIOUS
    <2>2. Pruned(w, Group_DeepFreeGraphs(w, n), D) /\ D \subseteq w.nodes
      BY <1>1, <2>1, DeepFreePruned
    <2>3. QED
      BY <2>2 DEF Pruned
  <1>5. Told(w, Node_End(w, n))
    BY <1>1, EndSilent, SilentTold
  <1>6. QED
    BY <1>2, <1>3, <1>4, <1>5 DEF FreeGroup, DeepFree

LEMMA DoneActionTold ==
    ASSUME use.mRealTime, NEW w, SaneWorld(w), NEW n \in w.nodes, NEW action \in 1 .. 15
    PROVE  Told(w, Unit_DoneAction(w, n, action))
  <1>1. PICK v : v = Unit_DoneAction(w, n, action)
    OBVIOUS
  <1>2. DoneShape(w, n, v)
    BY <1>1, DoneActionShape
  <1>3. w \in World /\ n \in Node
    BY WorldType DEF SaneWorld
  <1>4. PICK ended : ended = Node_End(w, n)
    OBVIOUS
  <1>5. Silent(w, ended)
    BY <1>3, <1>4, EndSilent
  <1>6. /\ Told(w, ended) /\ ended \in World /\ SaneWorld(ended) /\ ended.nodes = w.nodes
    BY <1>5, SilentTold, SameTreeSane DEF Silent, SameTree
  <1>7. ASSUME NEW m \in {w.t.mPrev[n], w.t.mNext[n]}, m # Null
        PROVE  /\ Told(w, Node_End(ended, m)) /\ Told(w, FreeGroup(ended, m))
               /\ Told(w, DeepFree(ended, m)) /\ Told(w, Node_SetRun(ended, m, FALSE))
               /\ Told(w, Node_SetRun(ended, m, TRUE))
    <2>1. m \in ended.nodes /\ m \in Node
      BY <1>3, <1>6, <1>7, WorldType DEF SaneWorld, Sane, Within
    <2>2. /\ Told(ended, Node_End(ended, m)) /\ Told(ended, Node_SetRun(ended, m, FALSE))
          /\ Told(ended, Node_SetRun(ended, m, TRUE))
      BY <2>1, <1>6, EndSilent, SetRunSilent, SilentTold
    <2>3. Told(ended, FreeGroup(ended, m)) /\ Told(ended, DeepFree(ended, m))
      BY <2>1, <1>6, DeletesTold
    <2>4. QED
      BY <2>2, <2>3, <1>6, ToldTrans
  <1>8. /\ Told(w, w) /\ Told(w, Node_SetRun(w, n, FALSE))
        /\ Told(w, Node_End(w, w.t.mParent[n]))
    <2>1. Silent(w, w)
      BY <1>3 DEF Silent, SameTree
    <2>2. QED
      BY <2>1, <1>3, EndSilent, SetRunSilent, SilentTold
  <1>9. \A S : Told(w, EndAll(w, S))
    BY <1>3, EndAllSilent, SilentTold
  <1>10. Told(w, v)
    BY <1>2, <1>4, <1>6, <1>7, <1>8, <1>9, Zenon DEF DoneShape
  <1>11. QED
    BY <1>1, <1>10

LEMMA DoneActionsTold ==
    ASSUME use.mRealTime, NEW w, NEW calls, NEW n, Called(w, calls, n), NEW actions \in Seq(1 .. 15)
    PROVE  Told(w, DoneActions(w, n, actions)) /\ Called(DoneActions(w, n, actions), calls, n)
  <1>1. PICK f : /\ DoneActions(w, n, actions) = f[Len(actions)]
                 /\ f[0] = w
                 /\ \A i \in 1 .. Len(actions) :
                       /\ actions[i] \in 1 .. 15
                       /\ f[i] = Unit_DoneAction(f[i - 1], n, actions[i])
    BY DoneActionsDef
  <1>2. ASSUME NEW i \in 1 .. Len(actions), Told(w, f[i - 1]) /\ Called(f[i - 1], calls, n)
        PROVE  Told(w, f[i]) /\ Called(f[i], calls, n)
    <2>1. SaneWorld(f[i - 1]) /\ n \in f[i - 1].nodes
      BY <1>2 DEF Called
    <2>2. Told(f[i - 1], f[i])
      BY <1>1, <2>1, DoneActionTold
    <2>3. Stays(f[i - 1], f[i], calls, n)
      BY <1>1, <1>2, DoneActionStays
    <2>4. QED
      BY <1>2, <2>2, <2>3, ToldTrans DEF Stays
  <1>3. Told(w, f[0]) /\ Called(f[0], calls, n)
    BY <1>1 DEF Told
  <1> DEFINE T == {i \in 0 .. Len(actions) : ~(Told(w, f[i]) /\ Called(f[i], calls, n))}
  <1>4. T = {}
    <2> SUFFICES ASSUME T # {} PROVE FALSE
      OBVIOUS
    <2>1. PICK k \in T : \A j \in T : k <= j
      <3>1. T \subseteq Nat
        OBVIOUS
      <3> HIDE DEF T
      <3>2. QED
        BY <3>1, LeastNat
    <2>2. k \in 1 .. Len(actions) /\ k - 1 \in 0 .. Len(actions) /\ k - 1 \notin T
      BY <1>3, <2>1
    <2>3. QED
      BY <1>2, <2>1, <2>2
  <1>5. Len(actions) \in 0 .. Len(actions)
    OBVIOUS
  <1>6. QED
    BY <1>1, <1>4, <1>5

\* What a call of a synth can make of the world w.
RunShape(w, n, first, actions, v) ==
    LET ctor == [DoneActions(w, n, first) EXCEPT !.built[n] = TRUE]
        ran == DoneActions(w, n, actions)
    IN  \/ v = DoneActions([ctor EXCEPT !.mCalcFunc[n] = "Graph_Calc"], n, actions)
        \/ v = [ctor EXCEPT !.mCalcFunc[n] = "Node_NullCalc"]
        \/ v = ran
        \/ v = [ran EXCEPT !.mCalcFunc[n] = "Graph_Calc"]

LEMMA RunGraphShape ==
    ASSUME NEW w, NEW n, NEW first, NEW actions,
           w.mCalcFunc[n] \in {"Graph_FirstCalc", "Graph_NullFirstCalc", "Graph_Calc",
                               "Graph_CalcTrace"},
           NEW v, v = RunGraph(w, n, first, actions)
    PROVE  RunShape(w, n, first, actions, v)
  <1>1. PICK ctor : ctor = [DoneActions(w, n, first) EXCEPT !.built[n] = TRUE]
    OBVIOUS
  <1>2. PICK ran : ran = DoneActions(w, n, actions)
    OBVIOUS
  <1>3. PICK a : a = DoneActions([ctor EXCEPT !.mCalcFunc[n] = "Graph_Calc"], n, actions)
    OBVIOUS
  <1>4. PICK b : b = [ctor EXCEPT !.mCalcFunc[n] = "Node_NullCalc"]
    OBVIOUS
  <1>5. PICK c : c = [ran EXCEPT !.mCalcFunc[n] = "Graph_Calc"]
    OBVIOUS
  <1>6. v = CASE w.mCalcFunc[n] = "Graph_FirstCalc" -> a
              [] w.mCalcFunc[n] = "Graph_NullFirstCalc" -> b
              [] w.mCalcFunc[n] = "Graph_Calc" -> ran
              [] w.mCalcFunc[n] = "Graph_CalcTrace" -> c
    BY <1>1, <1>2, <1>3, <1>4, <1>5, Zenon DEF RunGraph
  <1>7. v = a \/ v = b \/ v = ran \/ v = c
    BY <1>6
  <1>8. QED
    BY <1>1, <1>2, <1>3, <1>4, <1>5, <1>7, Zenon DEF RunShape

LEMMA RunGraphTold ==
    ASSUME use.mRealTime, NEW w, NEW calls, NEW n, Called(w, calls, n),
           NEW first \in Seq(1 .. 15), NEW actions \in Seq(1 .. 15),
           w.mCalcFunc[n] \in {"Graph_FirstCalc", "Graph_NullFirstCalc", "Graph_Calc",
                               "Graph_CalcTrace"},
           NEW v, v = RunGraph(w, n, first, actions)
    PROVE  Told(w, v)
  <1>1. PICK u : u = DoneActions(w, n, first)
    OBVIOUS
  <1>2. PICK ctor : ctor = [u EXCEPT !.built[n] = TRUE]
    OBVIOUS
  <1>3. PICK ran : ran = DoneActions(w, n, actions)
    OBVIOUS
  <1>4. PICK y : y = [ctor EXCEPT !.mCalcFunc[n] = "Graph_Calc"]
    OBVIOUS
  <1>5. PICK b : b = [ctor EXCEPT !.mCalcFunc[n] = "Node_NullCalc"]
    OBVIOUS
  <1>6. PICK c : c = [ran EXCEPT !.mCalcFunc[n] = "Graph_Calc"]
    OBVIOUS
  <1>7. v = DoneActions(y, n, actions) \/ v = b \/ v = ran \/ v = c
    <2>1. RunShape(w, n, first, actions, v)
      BY RunGraphShape
    <2>2. QED
      BY <2>1, <1>1, <1>2, <1>3, <1>4, <1>5, <1>6, Zenon DEF RunShape
  <1>8. SaneWorld(w) /\ n \in w.nodes
    BY DEF Called
  <1>9. Told(w, u) /\ Told(w, ran)
    BY <1>1, <1>3, DoneActionsTold
  <1>10. Called(u, calls, n) /\ Called(ran, calls, n) /\ u \in World /\ ran \in World
    <2>1. Stays(w, u, calls, n) /\ Stays(w, ran, calls, n)
      BY <1>1, <1>3, DoneActionsStays
    <2>2. QED
      BY <2>1 DEF Stays, Called, SaneWorld
  <1>11. Silent(u, ctor)
    BY <1>2, <1>10, BuiltSilent
  <1>12. ctor \in World
    BY <1>11 DEF Silent, SameTree
  <1>13. "Graph_Calc" \in CalcFunc /\ "Node_NullCalc" \in CalcFunc
    BY DEF CalcFunc
  <1>14. Silent(ctor, y) /\ Silent(ctor, b) /\ Silent(ran, c)
    BY <1>4, <1>5, <1>6, <1>10, <1>12, <1>13, SetCalcSilent, Zenon
  <1>15. Told(w, y) /\ Told(w, b) /\ Told(w, c)
    BY <1>9, <1>11, <1>14, SilentTold, ToldTrans
  <1>16. SameTree(u, y)
    BY <1>11, <1>14, SilentTrans DEF Silent
  <1>17. Called(y, calls, n)
    BY <1>10, <1>16, SameStays DEF Stays
  <1>18. Told(y, DoneActions(y, n, actions))
    BY <1>17, DoneActionsTold
  <1>19. QED
    BY <1>7, <1>9, <1>15, <1>18, ToldTrans

\* Whatever calling node n does, clients hear which nodes went.
LEMMA CallTold ==
    ASSUME use \in Use, use.mRealTime, NEW w, NEW calls, NEW n, Called(w, calls, n),
           Call(w, n, calls)
    PROVE  Told(w, world')
  <1>1. SaneWorld(w) /\ n \in w.nodes /\ w \in World
    BY DEF Called, SaneWorld
  <1>2. use.doneActions \subseteq Seq(1 .. 15) /\ <<>> \in Seq(1 .. 15)
    BY DEF Use
  <1>3. Told(w, w)
    BY DEF Told
  <1>4. \/ world' = w
        \/ world' = Node_Delete(w, n)
        \/ /\ w.mCalcFunc[n] \in {"Graph_FirstCalc", "Graph_NullFirstCalc"}
           /\ \E first, actions \in use.doneActions : world' = RunGraph(w, n, first, actions)
        \/ /\ w.mCalcFunc[n] \in {"Graph_Calc", "Graph_CalcTrace"}
           /\ \E actions \in use.doneActions : world' = RunGraph(w, n, <<>>, actions)
    BY Zenon DEF Call
  <1>5. CASE world' = Node_Delete(w, n)
    BY <1>1, <1>5, DeletesTold, SMTT(40)
  <1>6. ASSUME NEW first \in Seq(1 .. 15), NEW actions \in Seq(1 .. 15),
               w.mCalcFunc[n] \in {"Graph_FirstCalc", "Graph_NullFirstCalc", "Graph_Calc",
                                   "Graph_CalcTrace"},
               world' = RunGraph(w, n, first, actions)
        PROVE  Told(w, world')
    BY <1>6, RunGraphTold
  <1>7. CASE /\ w.mCalcFunc[n] \in {"Graph_FirstCalc", "Graph_NullFirstCalc"}
             /\ \E first, actions \in use.doneActions : world' = RunGraph(w, n, first, actions)
    BY <1>2, <1>6, <1>7
  <1>8. CASE /\ w.mCalcFunc[n] \in {"Graph_Calc", "Graph_CalcTrace"}
             /\ \E actions \in use.doneActions : world' = RunGraph(w, n, <<>>, actions)
    <2>1. PICK actions \in use.doneActions : world' = RunGraph(w, n, <<>>, actions)
      BY <1>8
    <2>2. actions \in Seq(1 .. 15)
      BY <1>2
    <2>3. w.mCalcFunc[n] \in {"Graph_FirstCalc", "Graph_NullFirstCalc", "Graph_Calc",
                              "Graph_CalcTrace"}
      BY <1>8
    <2>4. QED
      BY <2>1, <2>2, <2>3, <1>2, <1>6, Zenon
  <1>9. QED
    BY <1>3, <1>4, <1>5, <1>7, <1>8, Zenon

\* The last action said nothing of a node that is not there, and did not say
\* of one that is there that it went.
Heard(w) ==
    /\ Sent(w, "go") \subseteq VisibleIDs(w)
    /\ Sent(w, "end") \cap VisibleIDs(w) = {}

\* What NotesTell needs of a step from w to v.
HeardStep(w, v) ==
    /\ VisibleIDs(v) = (VisibleIDs(w) \ Sent(v, "end")) \cup Sent(v, "go")
    /\ Heard(v)

\* The server is used as NotesTell supposes.
Loud == use.mRealTime /\ use.commands \cap {"replace", "noid"} = {}

LEMMA QuietSent ==
    ASSUME world \in World, NEW q, q = Quiet(world)
    PROVE  /\ Sent(q, "go") = {} /\ Sent(q, "end") = {}
           /\ VisibleIDs(q) = VisibleIDs(world)
           /\ q.notes = {}
  <1>1. q.notes = {} /\ q.nodes = world.nodes /\ q.mID = world.mID
    BY DEF Quiet, World
  <1>2. QED
    BY <1>1 DEF Sent, VisibleIDs

LEMMA ToldHeard ==
    ASSUME Inv, NEW q, q = Quiet(world), NEW v, Told(q, v)
    PROVE  HeardStep(world, v)
  <1>1. /\ Sent(q, "go") = {} /\ Sent(q, "end") = {}
        /\ VisibleIDs(q) = VisibleIDs(world)
    BY QuietSent DEF Inv, StateOK, SaneWorld
  <1>2. QED
    BY <1>1 DEF HeardStep, Heard, Told

\* Links and notes that concern no node's coming or going.
LEMMA MuteTold ==
    ASSUME NEW w, NEW v, NEW state \in {"on", "off", "move"}, NEW id,
           v.nodes = w.nodes, v.mID = w.mID,
           v.notes = w.notes \/ v.notes = w.notes \cup {<<state, id>>}
    PROVE  Told(w, v)
  <1>1. \A x : <<"go", x>> # <<state, id>> /\ <<"end", x>> # <<state, id>>
    OBVIOUS
  <1>2. Sent(v, "go") = Sent(w, "go") /\ Sent(v, "end") = Sent(w, "end")
    BY <1>1 DEF Sent
  <1>3. VisibleIDs(v) = VisibleIDs(w)
    BY DEF VisibleIDs
  <1>4. QED
    BY <1>2, <1>3 DEF Told

LEMMA MoveTold ==
    ASSUME NEW w \in World, NEW n, NEW a, NEW x, NEW announce,
           NEW v, v = Move(w, n, a, x, announce)
    PROVE  Told(w, v)
  <1>1. PICK t : t = Place(Node_Remove(w.t, n), n, a, x)
    OBVIOUS
  <1>2. PICK u : u = [w EXCEPT !.t = t]
    OBVIOUS
  <1>3. PICK z : z = [u EXCEPT !.notes = u.notes \cup {<<"move", u.mID[n]>>}]
    OBVIOUS
  <1>4. v = u \/ v = z
    BY <1>1, <1>2, <1>3, Zenon DEF Move, Node_StateMsg
  <1>5. u.nodes = w.nodes /\ u.mID = w.mID /\ u.notes = w.notes
    BY <1>2 DEF World
  <1>6. /\ z.nodes = w.nodes /\ z.mID = w.mID
        /\ z.notes = w.notes \cup {<<"move", w.mID[n]>>}
    BY <1>2, <1>3, <1>5 DEF World
  <1>7. "move" \in {"on", "off", "move"}
    OBVIOUS
  <1>8. Told(w, u) /\ Told(w, z)
    BY <1>5, <1>6, <1>7, MuteTold
  <1>9. QED
    BY <1>4, <1>8

LEMMA NewHeard ==
    ASSUME Inv, Loud, NEW n \in Node, NEW id \in ID \cup {Hidden},
           NEW isGroup \in BOOLEAN, NEW addAction \in 0 .. 3, NEW target \in Node,
           New(n, id, isGroup, addAction, target)
    PROVE  HeardStep(world, world')
  <1>1. PICK q : q = Quiet(world)
    OBVIOUS
  <1>2. PICK w : w = Node_New(q, n, id, isGroup)
    OBVIOUS
  <1>3. PICK u : u = Place(w.t, n, addAction, target)
    OBVIOUS
  <1>4. PICK v : v = [w EXCEPT !.t = u]
    OBVIOUS
  <1>5. PICK z : z = Node_StateMsg(v, n, "go")
    OBVIOUS
  <1>6. n \notin world.nodes /\ Free(id) /\ world' = z
    BY <1>1, <1>2, <1>3, <1>4, <1>5, Zenon DEF New, Done
  <1>7. /\ q \in World /\ world \in World
        /\ q.nodes = world.nodes /\ q.mID = world.mID /\ q.notes = {}
    BY <1>1, QuietWorld, QuietSent DEF Inv, StateOK, SaneWorld
  <1>8. /\ w.nodes = q.nodes \cup {n} /\ w.mID = [q.mID EXCEPT ![n] = id] /\ w.notes = q.notes
    BY <1>2, <1>7 DEF Node_New, World
  <1>9. /\ v.nodes = w.nodes /\ v.mID = w.mID /\ v.notes = w.notes
        /\ [v EXCEPT !.notes = v.notes \cup {<<"go", v.mID[n]>>}].notes
              = v.notes \cup {<<"go", v.mID[n]>>}
        /\ [v EXCEPT !.notes = v.notes \cup {<<"go", v.mID[n]>>}].nodes = v.nodes
        /\ [v EXCEPT !.notes = v.notes \cup {<<"go", v.mID[n]>>}].mID = v.mID
    <2>1. PICK c : c = IF isGroup THEN "Group_Calc" ELSE "Graph_FirstCalc"
      OBVIOUS
    <2>2. w = [q EXCEPT !.nodes = q.nodes \cup {n}, !.mIsGroup = [q.mIsGroup EXCEPT ![n] = isGroup],
                        !.mID = [q.mID EXCEPT ![n] = id],
                        !.mCalcFunc = [q.mCalcFunc EXCEPT ![n] = c]]
      BY <1>2, <2>1, Zenon DEF Node_New
    <2>3. QED
      BY <2>2, <1>4, <1>7 DEF World
  <1>10. v.mID[n] = id /\ \A m \in world.nodes : v.mID[m] = world.mID[m]
    BY <1>6, <1>7, <1>8, <1>9, WorldType
  <1>11. Hidden \notin ID /\ \A m \in world.nodes : world.mID[m] # id \/ id = Hidden
    BY <1>6, ConstAssumption DEF Free
  <1>12. VisibleIDs(v) = VisibleIDs(world) \cup ({id} \ {Hidden})
    BY <1>7, <1>8, <1>9, <1>10 DEF VisibleIDs
  <1>13. CASE id = Hidden
    <2>1. z = v
      BY <1>5, <1>10, <1>13 DEF Node_StateMsg
    <2>2. Sent(z, "go") = {} /\ Sent(z, "end") = {}
      BY <2>1, <1>7, <1>8, <1>9 DEF Sent
    <2>3. QED
      BY <2>1, <2>2, <1>6, <1>12, <1>13 DEF HeardStep, Heard
  <1>14. CASE id # Hidden
    <2>1. z = [v EXCEPT !.notes = v.notes \cup {<<"go", v.mID[n]>>}]
      BY <1>5, <1>10, <1>14 DEF Node_StateMsg, Loud
    <2>2. z.notes = {<<"go", id>>} /\ z.nodes = v.nodes /\ z.mID = v.mID
      BY <2>1, <1>7, <1>8, <1>9, <1>10
    <2>3. \A x : (<<"go", x>> \in {<<"go", id>>} <=> x = id) /\ <<"end", x>> \notin {<<"go", id>>}
      OBVIOUS
    <2>4. Sent(z, "go") = {id} /\ Sent(z, "end") = {}
      BY <2>2, <2>3, <1>14 DEF Sent
    <2>5. VisibleIDs(z) = VisibleIDs(world) \cup {id}
      BY <2>2, <1>12, <1>14 DEF VisibleIDs
    <2>6. QED
      BY <2>4, <2>5, <1>6 DEF HeardStep, Heard
  <1>15. QED
    BY <1>13, <1>14

LEMMA CrashHeard ==
    ASSUME Heard(world), world' = world
    PROVE  HeardStep(world, world')
  <1>1. PICK z : z = world
    OBVIOUS
  <1>2. HeardStep(z, z)
    BY <1>1 DEF HeardStep, Heard
  <1>3. QED
    BY <1>1, <1>2

LEMMA NewAgainHeard ==
    ASSUME Inv, Loud, Heard(world), NEW n \in Node, NEW addAction \in 0 .. 3,
           NEW target \in Node, NewAgain(n, addAction, target)
    PROVE  HeardStep(world, world')
  <1>1. PICK q : q = Quiet(world)
    OBVIOUS
  <1>2. PICK z : z = Node_StateMsg(q, n, "go")
    OBVIOUS
  <1>3. /\ n \in world.nodes /\ world.mID[n] # Hidden
        /\ world' = world \/ world' = z
    BY <1>1, <1>2, Zenon DEF NewAgain, Done, Crash
  <1>4. /\ q \in World /\ q.nodes = world.nodes /\ q.mID = world.mID /\ q.notes = {}
    BY <1>1, QuietWorld, QuietSent DEF Inv, StateOK, SaneWorld
  <1>5. CASE world' = world
    BY <1>5, CrashHeard
  <1>6. CASE world' = z
    <2>1. PICK id : id = world.mID[n]
      OBVIOUS
    <2>2. z = [q EXCEPT !.notes = {<<"go", id>>}]
      BY <1>2, <1>3, <1>4, <2>1 DEF Node_StateMsg, Loud
    <2>3. z.notes = {<<"go", id>>} /\ z.nodes = q.nodes /\ z.mID = q.mID
      BY <2>2, <1>4 DEF World
    <2>4. \A x : (<<"go", x>> \in {<<"go", id>>} <=> x = id) /\ <<"end", x>> \notin {<<"go", id>>}
      OBVIOUS
    <2>5. Sent(z, "go") \subseteq {id} /\ Sent(z, "end") = {}
      BY <2>3, <2>4 DEF Sent
    <2>6. VisibleIDs(z) = VisibleIDs(world) /\ id \in VisibleIDs(world)
      BY <1>3, <1>4, <2>1, <2>3 DEF VisibleIDs
    <2>7. QED
      BY <2>5, <2>6, <1>6 DEF HeardStep, Heard
  <1>7. QED
    BY <1>3, <1>5, <1>6

\* The call that CallChild makes.
LEMMA CallChildCalls ==
    ASSUME Inv, CallChild, NEW q, q = Quiet(world)
    PROVE  \E w, calls, n :
              /\ Silent(q, w) /\ Called(w, calls, n) /\ Call(w, n, calls)
              /\ n = stack[1].child /\ n # Null
              /\ w = q \/ w = Group_DumpTree(q, n)
              /\ \A i \in 1 .. Len(calls) : calls[i].child # n
              /\ calls # <<>> /\ Len(calls) = Len(stack)
              /\ calls[1].group = stack[1].group /\ calls[1].child = w.t.mNext[n]
              /\ \A i \in 2 .. Len(stack) : calls[i] = stack[i]
  <1>1. SaneWorld(q) /\ q \in World /\ Walked(q, stack) /\ q.t = world.t
    BY QuietWorld
  <1>2. stack \in Seq(Frame) /\ stack # <<>>
    BY DEF Inv, StateOK, CallChild
  <1>3. PICK n : n = stack[1].child
    OBVIOUS
  <1>4. PICK w : w = IF stack[1].func = "Group_CalcDumpTree" /\ q.mIsGroup[n]
                     THEN Group_DumpTree(q, n) ELSE q
    OBVIOUS
  <1>5. PICK e : e = [stack[1] EXCEPT !.child = world.t.mNext[n]]
    OBVIOUS
  <1>6. PICK calls : calls = <<e>> \o Tail(stack)
    OBVIOUS
  <1>7. n # Null /\ Call(w, n, calls)
    BY <1>3, <1>4, <1>5, <1>6, Zenon DEF CallChild
  <1>8. w = q \/ w = Group_DumpTree(q, n)
    BY <1>4, Zenon
  <1>9. Silent(q, w)
    <2>1. Silent(q, q) /\ Silent(q, Group_DumpTree(q, n))
      BY <1>1, TraceSilent DEF Silent, SameTree
    <2>2. QED
      BY <2>1, <1>8
  <1>10. SaneWorld(w) /\ Walked(w, stack) /\ w.t = world.t
    <2>1. SameTree(q, w)
      BY <1>9 DEF Silent
    <2>2. SaneWorld(w) /\ w.t = q.t /\ w.nodes = q.nodes
      BY <1>1, <2>1, SameTreeSane DEF SameTree
    <2>3. QED
      BY <1>1, <2>2 DEF Walked
  <1>11. e \in Frame /\ e.group = stack[1].group /\ e.child = w.t.mNext[n]
    <2>1. n \in Node /\ stack[1] \in Frame
      BY <1>1, <1>2, <1>3, <1>7, WorldType DEF Walked
    <2>2. world.t.mNext[n] \in NodeOrNull
      BY <1>1, <2>1, WorldType, LinksType
    <2>3. QED
      BY <1>5, <1>10, <2>1, <2>2 DEF Frame
  <1>12. /\ calls \in Seq(Frame) /\ Len(calls) = Len(stack) /\ calls[1] = e
         /\ \A i \in 2 .. Len(stack) : calls[i] = stack[i]
    BY <1>2, <1>6, <1>11, SetChild
  <1>13. /\ Called(w, calls, n)
         /\ \A i \in 1 .. Len(calls) : calls[i].child # n
    BY <1>2, <1>3, <1>7, <1>10, <1>11, <1>12, NextCalled
  <1>14. calls # <<>>
    BY <1>2, <1>12
  <1>15. QED
    BY <1>3, <1>7, <1>8, <1>9, <1>11, <1>12, <1>13, <1>14

LEMMA MovesHeard ==
    ASSUME Inv, NEW n \in Node, NEW target \in Node,
           n_before(n, target) \/ n_after(n, target)
              \/ g_head(target, n) \/ g_tail(target, n)
    PROVE  HeardStep(world, world')
  <1>1. PICK q : q = Quiet(world)
    OBVIOUS
  <1>2. q \in World
    BY <1>1, QuietWorld
  <1>3. \E a, announce : world' = Move(q, n, a, target, announce)
    BY <1>1, Zenon DEF n_before, n_after, g_head, g_tail, Done
  <1>4. Told(q, world')
    BY <1>2, <1>3, MoveTold
  <1>5. QED
    BY <1>1, <1>4, ToldHeard

LEMMA OrderHeard ==
    ASSUME Inv, NEW n \in Node, NEW m \in Node, NEW target \in Node,
           NEW addAction \in 0 .. 3, UNCHANGED use, n_order(addAction, target, n, m)
    PROVE  HeardStep(world, world')
  <1>1. PICK q : q = Quiet(world)
    OBVIOUS
  <1>2. /\ SaneWorld(q) /\ q \in World /\ q.nodes = world.nodes /\ q.t = world.t
        /\ q.mIsGroup = world.mIsGroup
        /\ use.careful => Held(q)
    BY <1>1, QuietWorld
  <1>3. PICK announce \in BOOLEAN :
           announce = (addAction \in {2, 3} \/ world.t.mParent[n] # target)
    OBVIOUS
  <1>4. PICK w : w = Move(q, n, addAction, target, announce)
    OBVIOUS
  <1>5. PICK v : v = Move(w, m, 3, n, TRUE)
    OBVIOUS
  <1>6. /\ {n, m} \subseteq world.nodes /\ Target(addAction, target)
        /\ Movable(world, n, target) /\ world' = v
    BY <1>1, <1>3, <1>4, <1>5, Zenon DEF n_order, Done
  <1>7. /\ Movable(q, n, target) /\ n \in q.nodes /\ target \in q.nodes
        /\ addAction \in {0, 1} => q.mIsGroup[target]
        /\ addAction \in {2, 3} => Beside(target)
    BY <1>2, <1>6 DEF Movable, StrictlyBelow, Target
  <1>8. w \in World
    <2>1. SaneWorld(w)
      BY <1>2, <1>4, <1>7, MoveInv
    <2>2. QED
      BY <2>1 DEF SaneWorld
  <1>9. Told(q, w) /\ Told(w, v)
    BY <1>2, <1>4, <1>5, <1>8, MoveTold
  <1>10. Told(q, v)
    BY <1>9, ToldTrans
  <1>11. QED
    BY <1>1, <1>6, <1>10, ToldHeard

LEMMA RemovesHeard ==
    ASSUME Inv, Loud, Heard(world), NEW n \in Node,
           n_free(n) \/ g_freeAll(n) \/ g_deepFree(n)
    PROVE  HeardStep(world, world')
  <1>1. PICK q : q = Quiet(world)
    OBVIOUS
  <1>2. SaneWorld(q) /\ q.nodes = world.nodes /\ use.mRealTime
    BY <1>1, QuietWorld DEF Loud
  <1>3. /\ n \in world.nodes
        /\ \/ world' = world
           \/ world' = Node_Delete(q, n) \/ world' = Group_DeleteAll(q, n)
           \/ world' = Group_DeepFreeGraphs(q, n)
    BY <1>1, Zenon DEF n_free, g_freeAll, g_deepFree, Done, Crash
  <1>4. CASE world' = world
    BY <1>4, CrashHeard
  <1>5. CASE world' # world
    <2>1. Told(q, world')
      BY <1>2, <1>3, <1>5, DeletesTold
    <2>2. QED
      BY <1>1, <2>1, ToldHeard
  <1>6. QED
    BY <1>4, <1>5

LEMMA SettingsHeard ==
    ASSUME Inv, NEW n \in Node, NEW run, n_run(n, run) \/ n_trace(n) \/ g_dumpTree(n)
    PROVE  HeardStep(world, world')
  <1>1. PICK q : q = Quiet(world)
    OBVIOUS
  <1>2. q \in World
    BY <1>1, QuietWorld
  <1>3. \/ world' = Node_SetRun(q, n, run) \/ world' = Node_Trace(q, n)
        \/ world' = Group_DumpTree(q, n)
    BY <1>1, Zenon DEF n_run, n_trace, g_dumpTree, Done
  <1>4. /\ Silent(q, Node_SetRun(q, n, run)) /\ Silent(q, Node_Trace(q, n))
        /\ Silent(q, Group_DumpTree(q, n))
    BY <1>2, SetRunSilent, TraceSilent
  <1>5. Told(q, world')
    BY <1>3, <1>4, SilentTold
  <1>6. QED
    BY <1>1, <1>5, ToldHeard

LEMMA BlockHeard ==
    ASSUME Inv, Loud, World_Run \/ CallChild \/ ReturnGroup
    PROVE  HeardStep(world, world')
  <1>1. PICK q : q = Quiet(world)
    OBVIOUS
  <1>2. SaneWorld(q) /\ q \in World /\ Walked(q, stack) /\ q.t = world.t
    BY <1>1, QuietWorld
  <1>3. use \in Use /\ use.mRealTime /\ stack \in Seq(Frame)
    BY DEF Inv, StateOK, Loud
  <1>4. CASE World_Run
    <2>1. PICK none : none = << >>
      OBVIOUS
    <2>2. Call(q, Root, none)
      BY <1>1, <1>4, <2>1, Zenon DEF World_Run
    <2>3. Called(q, none, Root)
      BY <1>2, <2>1 DEF Called, Walked, SaneWorld, Sane
    <2>4. Told(q, world')
      BY <1>3, <2>2, <2>3, CallTold
    <2>5. QED
      BY <1>1, <2>4, ToldHeard
  <1>5. CASE CallChild
    <2>1. PICK w, calls, n : /\ Silent(q, w) /\ Called(w, calls, n) /\ Call(w, n, calls)
      BY <1>1, <1>5, CallChildCalls
    <2>2. Told(w, world')
      BY <1>3, <2>1, CallTold
    <2>3. Told(q, world')
      BY <2>1, <2>2, SilentTold, ToldTrans
    <2>4. QED
      BY <1>1, <2>3, ToldHeard
  <1>6. CASE ReturnGroup
    <2>1. Silent(q, q) /\ "Group_Calc" \in CalcFunc
      BY <1>2 DEF Silent, SameTree, CalcFunc
    <2>2. Silent(q, [q EXCEPT !.mCalcFunc[stack[1].group] = "Group_Calc"])
      BY <1>2, <2>1, SetCalcSilent
    <2>3. Silent(q, world')
      BY <1>1, <1>6, <2>1, <2>2, Zenon DEF ReturnGroup
    <2>4. QED
      BY <1>1, <2>3, SilentTold, ToldHeard
  <1>7. QED
    BY <1>4, <1>5, <1>6

\* What is inductive about the notes.
Telling == Loud => Heard(world)

LEMMA StepHeard ==
    ASSUME Inv, Telling, [Next]_vars, Loud
    PROVE  HeardStep(world, world')
  <1>0. Heard(world)
    BY DEF Telling
  <1>1. CASE UNCHANGED vars
    BY <1>0, <1>1, CrashHeard DEF vars
  <1>2. /\ use \in Use /\ use.addActions \subseteq 0 .. 3 /\ use.ids \subseteq ID
        /\ "replace" \notin use.commands /\ "noid" \notin use.commands
    BY DEF Inv, StateOK, Use, Loud
  <1>3. CASE Create
    <2>1. PICK n \in Node, target \in Node, addAction \in use.addActions :
             \/ \E id \in use.ids \cup {Hidden}, isGroup \in BOOLEAN :
                   New(n, id, isGroup, addAction, target)
             \/ NewAgain(n, addAction, target)
      BY <1>3, Zenon DEF Create
    <2>2. addAction \in 0 .. 3
      BY <1>2
    <2>3. CASE NewAgain(n, addAction, target)
      BY <1>0, <2>2, <2>3, NewAgainHeard
    <2>4. CASE \E id \in use.ids \cup {Hidden}, isGroup \in BOOLEAN :
                   New(n, id, isGroup, addAction, target)
      <3>1. PICK id \in use.ids \cup {Hidden}, isGroup \in BOOLEAN :
                   New(n, id, isGroup, addAction, target)
        BY <2>4, Zenon
      <3>2. id \in ID \cup {Hidden}
        BY <1>2
      <3>3. QED
        BY <2>2, <3>1, <3>2, NewHeard
    <2>5. QED
      BY <2>1, <2>3, <2>4
  <1>4. ASSUME UNCHANGED use, Reorder PROVE HeardStep(world, world')
    <2>1. PICK n \in Node, target \in Node :
             \/ n_before(n, target) \/ n_after(n, target)
             \/ g_head(target, n) \/ g_tail(target, n)
             \/ \E addAction \in use.addActions, m \in Node : n_order(addAction, target, n, m)
      BY <1>4, Zenon DEF Reorder
    <2>2. CASE \/ n_before(n, target) \/ n_after(n, target)
               \/ g_head(target, n) \/ g_tail(target, n)
      BY <2>2, MovesHeard
    <2>3. CASE \E addAction \in use.addActions, m \in Node : n_order(addAction, target, n, m)
      <3>1. PICK addAction \in use.addActions, m \in Node : n_order(addAction, target, n, m)
        BY <2>3, Zenon
      <3>2. addAction \in 0 .. 3
        BY <1>2
      <3>3. QED
        BY <1>4, <3>1, <3>2, OrderHeard
    <2>4. QED
      BY <2>1, <2>2, <2>3
  <1>5. CASE Remove
    <2>1. PICK n \in Node : n_free(n) \/ g_freeAll(n) \/ g_deepFree(n)
      BY <1>5, Zenon DEF Remove
    <2>2. QED
      BY <1>0, <2>1, RemovesHeard
  <1>6. CASE Switch \/ Trace
    <2>1. PICK n \in Node, run \in BOOLEAN : n_run(n, run) \/ n_trace(n) \/ g_dumpTree(n)
      BY <1>6, Zenon DEF Switch, Trace
    <2>2. QED
      BY <2>1, SettingsHeard
  <1>7. CASE Block
    BY <1>7, BlockHeard DEF Block
  <1>8. ~Exchange /\ ~Hide
    BY <1>2 DEF Exchange, Hide
  <1>9. QED
    BY <1>1, <1>3, <1>4, <1>5, <1>6, <1>7, <1>8, Zenon DEF Next

\* A crash leaves the nodes as they are.
LEMMA CrashKeeps ==
    ASSUME Next, crashed' # crashed
    PROVE  world' = world
  <1>1. ASSUME NEW w, Done(w) PROVE FALSE
    BY <1>1 DEF Done
  <1>2. ASSUME NEW w, NEW n, NEW calls, Call(w, n, calls) PROVE FALSE
    BY <1>2 DEF Call
  <1>3. Crash => world' = world
    BY DEF Crash
  <1>4. ~World_Run /\ ~CallChild /\ ~ReturnGroup
    BY <1>2, Zenon DEF World_Run, CallChild, ReturnGroup
  <1>5. Create => world' = world
    BY <1>1, <1>3, ZenonT(60) DEF Create, New, NewAgain
  <1>6. Exchange => world' = world
    <2> SUFFICES ASSUME NEW n \in Node, NEW target \in Node, NEW id, NEW isGroup \in BOOLEAN,
                        NEW removeID \in BOOLEAN, Replace(n, id, isGroup, removeID, target)
                 PROVE  world' = world
      BY Zenon DEF Exchange
    <2>1. PICK w : w = IF removeID THEN Node_RemoveID(Quiet(world), target) ELSE Quiet(world)
      OBVIOUS
    <2>2. PICK v : v = Node_StateMsg(Node_Replace(Node_New(w, n, id, isGroup), n, target), n, "go")
      OBVIOUS
    <2>3. Done(w) \/ Crash \/ Done(v)
      BY <2>1, <2>2, Zenon DEF Replace
    <2>4. QED
      BY <1>1, <1>3, <2>3, Zenon
  <1>7. ~Reorder
    BY <1>1, ZenonT(60) DEF Reorder, n_before, n_after, g_head, g_tail, n_order
  <1>8. Remove => world' = world
    BY <1>1, <1>3, Zenon DEF Remove, n_free, g_freeAll, g_deepFree
  <1>9. ~Hide /\ ~Switch /\ ~Trace
    BY <1>1, Zenon DEF Hide, Switch, Trace, s_noid, n_run, n_trace, g_dumpTree
  <1>10. QED
    BY <1>4, <1>5, <1>6, <1>7, <1>8, <1>9, Zenon DEF Next, Block

\* Outside the IDs whose last notification was lost, the client knows which
\* nodes there are.
Agrees(w, c) ==
    \A id \in ID \ c.unsure : id \in c.known <=> id \in VisibleIDs(w)

LEMMA NotifyAgrees ==
    ASSUME NEW w, NEW v \in World, HeardStep(w, v), NEW c, NEW d, Agrees(w, c),
           NEW heard \in SUBSET News(v),
           d = [known |-> (c.known \ About(Ending(heard))) \cup About(Going(heard)),
                unsure |-> (c.unsure \ About(heard)) \cup About(News(v) \ heard)]
    PROVE  Agrees(v, d)
  <1> SUFFICES ASSUME NEW id \in ID, id \notin d.unsure
               PROVE  id \in d.known <=> id \in VisibleIDs(v)
    BY DEF Agrees
  <1>1. id \notin About(News(v) \ heard)
    OBVIOUS
  <1>2. \A state \in {"go", "end"} : <<state, id>> \in v.notes => <<state, id>> \in heard
    BY <1>1 DEF About, News
  <1>3. \A note \in heard : note \in v.notes /\ note = <<note[1], note[2]>>
    BY DEF News, World
  <1>4. id \in About(Going(heard)) <=> id \in Sent(v, "go")
    <2>1. ASSUME NEW note \in Going(heard), note[2] = id PROVE id \in Sent(v, "go")
      BY <1>3, <2>1 DEF Going, Sent
    <2>2. QED
      BY <2>1, <1>2 DEF About, Going, Sent
  <1>5. id \in About(Ending(heard)) <=> id \in Sent(v, "end")
    <2>1. ASSUME NEW note \in Ending(heard), note[2] = id PROVE id \in Sent(v, "end")
      BY <1>3, <2>1 DEF Ending, Sent
    <2>2. QED
      BY <2>1, <1>2 DEF About, Ending, Sent
  <1>6. /\ VisibleIDs(v) = (VisibleIDs(w) \ Sent(v, "end")) \cup Sent(v, "go")
        /\ Sent(v, "go") \subseteq VisibleIDs(v) /\ Sent(v, "end") \cap VisibleIDs(v) = {}
    BY DEF HeardStep, Heard
  <1>7. id \in d.known <=>
           (id \in c.known /\ id \notin About(Ending(heard))) \/ id \in About(Going(heard))
    OBVIOUS
  <1>8. CASE id \in About(heard)
    <2>1. PICK note \in heard : note[2] = id
      BY <1>8 DEF About
    <2>2. note \in Going(heard) \/ note \in Ending(heard)
      BY DEF Going, Ending, News
    <2>3. id \in About(Going(heard)) \/ id \in About(Ending(heard))
      BY <2>1, <2>2 DEF About
    <2>4. QED
      BY <1>4, <1>5, <1>6, <1>7, <2>3
  <1>9. CASE id \notin About(heard)
    <2>1. id \notin c.unsure
      BY <1>9
    <2>2. id \in c.known <=> id \in VisibleIDs(w)
      BY <2>1 DEF Agrees
    <2>3. QED
      BY <1>4, <1>5, <1>6, <1>7, <2>2
  <1>10. QED
    BY <1>8, <1>9

(* The IDs a client has collected from /n_go and /n_end are those the      *)
(* server knows, but for the IDs whose last notification found mNodeEnds   *)
(* full: whatever the commands and the done actions free, with all that is *)
(* below it, Node_StateMsg reports, once and in the right order, so that a *)
(* client is wrong about a node only if the FIFO lost its last message,    *)
(* and right again after the next one.                                     *)
THEOREM NotesAreTrue == Spec => []NotesTell
  <1> DEFINE Knowing == Loud => Agrees(world, client)
  <1>1. Init => Telling
    <2> SUFFICES ASSUME Init PROVE Heard(world)
      BY DEF Telling
    <2>1. world.notes = {}
      BY DEF Init
    <2>2. QED
      BY <2>1 DEF Heard, Sent
  <1>2. Init => Knowing
    <2> SUFFICES ASSUME Init PROVE Agrees(world, client)
      OBVIOUS
    <2>1. client.known = {} /\ world.nodes = {Root} /\ world.mID[Root] = 0
      BY RootAssumption DEF Init
    <2>2. VisibleIDs(world) \subseteq {0}
      BY <2>1 DEF VisibleIDs
    <2>3. QED
      BY <2>1, <2>2, ConstAssumption DEF Agrees
  <1>3. Inv /\ Telling /\ [Next]_vars => Telling'
    <2> SUFFICES ASSUME Inv, Telling, [Next]_vars, Loud' PROVE Heard(world)'
      BY DEF Telling
    <2>1. use' = use
      BY DEF Next, vars
    <2>2. Loud
      BY <2>1 DEF Loud
    <2>3. HeardStep(world, world')
      BY <2>2, StepHeard
    <2>4. Heard(world')
      BY <2>3 DEF HeardStep
    <2>5. QED
      BY <2>4
  <1>4. Inv /\ Telling /\ Knowing /\ [Next]_vars => Knowing'
    <2> SUFFICES ASSUME Inv, Telling, Loud => Agrees(world, client), [Next]_vars, Loud'
                 PROVE  Agrees(world', client')
      OBVIOUS
    <2>1. use' = use
      BY DEF Next, vars
    <2>2. Loud
      BY <2>1 DEF Loud
    <2>3. HeardStep(world, world') /\ Agrees(world, client)
      BY <2>2, StepHeard
    <2>4. CASE UNCHANGED vars
      BY <2>3, <2>4 DEF vars
    <2>5. CASE Next /\ crashed' # crashed
      <3>1. world' = world
        BY <2>5, CrashKeeps
      <3>2. client' = client
        BY <2>5 DEF Next
      <3>3. QED
        BY <2>3, <3>1, <3>2
    <2>6. CASE Next /\ crashed' = crashed
      <3>1. Notify
        BY <2>6 DEF Next
      <3>2. PICK heard \in SUBSET News(world') :
               client' = [known |-> (client.known \ About(Ending(heard))) \cup About(Going(heard)),
                          unsure |-> (client.unsure \ About(heard)) \cup About(News(world') \ heard)]
        BY <3>1, Zenon DEF Notify
      <3>3. PICK v, d : v = world' /\ d = client'
        OBVIOUS
      <3>4. v \in World
        BY <3>3, NextInv DEF Inv, StateOK, SaneWorld
      <3>5. Agrees(v, d)
        BY <2>3, <3>2, <3>3, <3>4, NotifyAgrees
      <3>6. QED
        BY <3>3, <3>5
    <2>7. QED
      BY <2>4, <2>5, <2>6
  <1>5. Knowing => NotesTell
    BY DEF NotesTell, Loud, Agrees
  <1>6. QED
    BY <1>1, <1>2, <1>3, <1>4, <1>5, Invariance, PTL DEF Spec

-----------------------------------------------------------------------------
(* What a block has called.  While Group_Calc goes through group g, having *)
(* put aside the child c, V are the nodes called so far.                   *)

Front(t, g, c, V) ==
    /\ c \notin V
    /\ \A x \in Node : t.mParent[x] = g /\ x \notin V => t.mNext[x] \notin V \cup ({c} \ {Null})
    /\ c = Null => t.mTail[g] \in V \cup {Null}

AllSeen(t, g, V) == \A x \in Node : t.mParent[x] = g => x \in V

OnStack(calls, g) == \E i \in 1 .. Len(calls) : calls[i].group = g

\* Of the nodes that have been called, each group that is not paused or ended
\* is being gone through or has been, except perhaps n.
SeenBut(w, calls, V, n) ==
    /\ V \in SUBSET Node
    /\ \A i \in 1 .. Len(calls) :
          calls[i].group \in V /\ Front(w.t, calls[i].group, calls[i].child, V)
    /\ \A g \in V \ {n} : IsGroupCalc(w.mCalcFunc[g]) => OnStack(calls, g) \/ AllSeen(w.t, g, V)
    /\ \A x \in V : w.t.mParent[x] \in V \cup {Null}

Seen(w, calls, V) == SeenBut(w, calls, V, Null)

Seeing == IF stack = <<>> THEN visited = {} ELSE Seen(world, stack, visited)

\* A call of Group_Calc that has no child left has called them all.
LEMMA FrontDone ==
    ASSUME NEW t \in Links, Linked(t), NoRing(t), NEW g \in Node, NEW V \in SUBSET Node,
           Front(t, g, Null, V)
    PROVE  AllSeen(t, g, V)
  <1> DEFINE U == {x \in Node : t.mParent[x] = g /\ x \notin V}
  <1>1. ASSUME NEW x \in U PROVE t.mNext[x] \in U
    <2>1. t.mNext[x] \notin V /\ t.mNext[x] \in NodeOrNull
      BY LinksType DEF Front
    <2>2. t.mNext[x] # Null
      <3> SUFFICES ASSUME t.mNext[x] = Null PROVE FALSE
        OBVIOUS
      <3>1. t.mTail[g] = x
        BY RootAssumption DEF Linked
      <3>2. QED
        BY <3>1, RootAssumption DEF Front
    <2>3. QED
      BY <2>1, <2>2 DEF Linked, NodeOrNull
  <1>2. U = {}
    BY <1>1 DEF NoRing
  <1>3. QED
    BY <1>2 DEF AllSeen

\* The group g has the same nodes in the same order in t and in u.
SameList(t, u, g) ==
    /\ \A x \in Node : t.mParent[x] = g <=> u.mParent[x] = g
    /\ \A x \in Node : t.mParent[x] = g => u.mNext[x] = t.mNext[x]
    /\ u.mTail[g] = t.mTail[g]

LEMMA SameListFront ==
    ASSUME NEW t, NEW u, NEW g, SameList(t, u, g), NEW c, NEW V, Front(t, g, c, V)
    PROVE  Front(u, g, c, V)
  BY DEF SameList, Front

\* A group that lost no node keeps its list.
LEMMA PrunedList ==
    ASSUME NEW w, SaneWorld(w), NEW v, NEW D, Pruned(w, v, D), NEW g \in Node \ D,
           \A x \in D : w.t.mParent[x] # g
    PROVE  SameList(w.t, v.t, g)
  <1>1. /\ w.t \in Links /\ Linked(w.t) /\ NoRing(w.t)
        /\ v.t \in Links /\ Linked(v.t) /\ NoRing(v.t) /\ Within(v.t, v.nodes)
    BY DEF Pruned, SaneWorld, Sane
  <1>2. /\ D \in SUBSET Node /\ v.nodes = w.nodes \ D
        /\ \A x \in Node \ D : v.t.mParent[x] = w.t.mParent[x]
        /\ v.t.mHead[g] = w.t.mHead[g]
        /\ \A x \in Node : w.t.mParent[x] = g => v.t.mNext[x] = w.t.mNext[x]
    BY DEF Pruned, Cut, Apart
  <1>3. \A x \in D : v.t.mParent[x] = Null
    BY <1>1, <1>2 DEF Within
  <1>4. \A x \in Node : w.t.mParent[x] = g <=> v.t.mParent[x] = g
    BY <1>2, <1>3, RootAssumption
  <1>5. v.t.mTail[g] = w.t.mTail[g]
    <2>1. CASE w.t.mTail[g] = Null
      BY <1>1, <1>2, <2>1 DEF Linked
    <2>2. CASE w.t.mTail[g] # Null
      <3>1. PICK x : x = w.t.mTail[g]
        OBVIOUS
      <3>2. x \in Node /\ w.t.mParent[x] = g /\ w.t.mNext[x] = Null
        BY <1>1, <2>2, <3>1, LinksType DEF Linked, NodeOrNull
      <3>3. v.t.mParent[x] = g /\ v.t.mNext[x] = Null
        BY <1>2, <1>4, <3>2
      <3>4. v.t.mTail[g] = x
        BY <1>1, <3>2, <3>3, RootAssumption DEF Linked
      <3>5. QED
        BY <3>1, <3>4
    <2>3. QED
      BY <2>1, <2>2
  <1>6. QED
    BY <1>2, <1>4, <1>5 DEF SameList

\* Nodes go: what the calls have seen of the rest is what they had seen.
LEMMA PrunedSeen ==
    ASSUME NEW w, SaneWorld(w), NEW v, NEW D, Pruned(w, v, D), NEW calls, NEW V, NEW n,
           SeenBut(w, calls, V, n),
           \A i \in 1 .. Len(calls) : Front(v.t, calls[i].group, calls[i].child, V)
    PROVE  SeenBut(v, calls, V, n)
  <1>1. /\ D \in SUBSET Node /\ v.nodes = w.nodes \ D
        /\ \A x \in Node \ D : v.t.mParent[x] = w.t.mParent[x]
        /\ \A x \in Node \ D : v.mCalcFunc[x] = w.mCalcFunc[x]
        /\ \A x \in Node : w.t.mParent[x] \in D => x \in D
        /\ Within(v.t, v.nodes)
    BY DEF Pruned, Cut, SaneWorld, Sane
  <1>2. \A x \in D : v.t.mParent[x] = Null
    BY <1>1 DEF Within
  <1>3. V \in SUBSET Node
    BY DEF SeenBut
  <1>4. ASSUME NEW g \in V \ {n}, IsGroupCalc(v.mCalcFunc[g])
        PROVE  OnStack(calls, g) \/ AllSeen(v.t, g, V)
    <2>1. CASE g \in D
      <3>1. \A x \in Node : v.t.mParent[x] # g
        <4>1. g \in Node /\ g \notin v.nodes
          BY <1>1, <2>1
        <4>2. \A x \in Node : v.t.mParent[x] \in v.nodes \cup {Null}
          BY <1>1 DEF Within
        <4>3. QED
          BY <4>1, <4>2, RootAssumption
      <3>2. QED
        BY <3>1 DEF AllSeen
    <2>2. CASE g \notin D
      <3>1. OnStack(calls, g) \/ AllSeen(w.t, g, V)
        BY <1>1, <1>3, <1>4, <2>2 DEF SeenBut
      <3>2. AllSeen(w.t, g, V) => AllSeen(v.t, g, V)
        BY <1>1, <1>2, <1>3, RootAssumption DEF AllSeen
      <3>3. QED
        BY <3>1, <3>2
    <2>3. QED
      BY <2>1, <2>2
  <1>5. \A x \in V : v.t.mParent[x] \in V \cup {Null}
    BY <1>1, <1>2, <1>3 DEF SeenBut
  <1>6. QED
    BY <1>3, <1>4, <1>5 DEF SeenBut

\* From w to v no node that has been called is turned into a group to be
\* gone through.
Hushed(w, v, V) ==
    \A g \in V : IsGroupCalc(v.mCalcFunc[g]) => IsGroupCalc(w.mCalcFunc[g])

LEMMA SameSeen ==
    ASSUME NEW w, NEW v, SameTree(w, v), NEW V, Hushed(w, v, V), NEW calls, NEW n,
           SeenBut(w, calls, V, n)
    PROVE  SeenBut(v, calls, V, n)
  <1>1. v.t = w.t
    BY DEF SameTree
  <1>2. QED
    BY <1>1, Zenon DEF SeenBut, Hushed

LEMMA HushedTrans ==
    ASSUME NEW u, NEW v, NEW w, NEW V, Hushed(u, v, V), Hushed(v, w, V)
    PROVE  Hushed(u, w, V)
  BY DEF Hushed

LEMMA SetCalcHushed ==
    ASSUME NEW w \in World, NEW n, NEW f \in CalcFunc, ~IsGroupCalc(f), NEW V \in SUBSET Node
    PROVE  Hushed(w, [w EXCEPT !.mCalcFunc[n] = f], V)
  <1>1. PICK v : v = [w EXCEPT !.mCalcFunc[n] = f]
    OBVIOUS
  <1>2. v.mCalcFunc = [w.mCalcFunc EXCEPT ![n] = f] /\ w.mCalcFunc \in [Node -> CalcFunc]
    BY <1>1 DEF World
  <1>3. \A g \in V : v.mCalcFunc[g] = f \/ v.mCalcFunc[g] = w.mCalcFunc[g]
    BY <1>2
  <1>4. Hushed(w, v, V)
    BY <1>3 DEF Hushed
  <1>5. QED
    BY <1>1, <1>4, Zenon

LEMMA BuiltHushed ==
    ASSUME NEW w \in World, NEW n, NEW V
    PROVE  Hushed(w, [w EXCEPT !.built[n] = TRUE], V)
  <1>1. PICK v : v = [w EXCEPT !.built[n] = TRUE]
    OBVIOUS
  <1>2. v.mCalcFunc = w.mCalcFunc
    BY <1>1 DEF World
  <1>3. Hushed(w, v, V)
    BY <1>2 DEF Hushed
  <1>4. QED
    BY <1>1, <1>3, Zenon

LEMMA StateMsgHushed ==
    ASSUME NEW w \in World, NEW n, NEW state, NEW V
    PROVE  Hushed(w, Node_StateMsg(w, n, state), V)
  <1>1. PICK v : v = Node_StateMsg(w, n, state)
    OBVIOUS
  <1>2. v.mCalcFunc = w.mCalcFunc
    BY <1>1 DEF World, Node_StateMsg
  <1>3. Hushed(w, v, V)
    BY <1>2 DEF Hushed
  <1>4. QED
    BY <1>1, <1>3, Zenon

LEMMA EndHushed ==
    ASSUME NEW w \in World, NEW n, NEW V \in SUBSET Node
    PROVE  Hushed(w, Node_End(w, n), V)
  <1>1. "Node_Delete" \in CalcFunc /\ ~IsGroupCalc("Node_Delete")
    BY DEF CalcFunc, IsGroupCalc
  <1>2. QED
    BY <1>1, SetCalcHushed, Zenon DEF Node_End

LEMMA EndAllHushed ==
    ASSUME NEW w \in World, NEW S, NEW V \in SUBSET Node
    PROVE  Hushed(w, EndAll(w, S), V)
  <1>1. PICK v : v = EndAll(w, S)
    OBVIOUS
  <1>2. v.mCalcFunc = [n \in Node |-> IF n \in S THEN "Node_Delete" ELSE w.mCalcFunc[n]]
    BY <1>1 DEF EndAll, World
  <1>3. \A g \in V : v.mCalcFunc[g] = "Node_Delete" \/ v.mCalcFunc[g] = w.mCalcFunc[g]
    BY <1>2
  <1>4. Hushed(w, v, V)
    BY <1>3 DEF Hushed, IsGroupCalc
  <1>5. QED
    BY <1>1, <1>4, Zenon

\* Pausing; and resuming a node that this block has not called yet.
LEMMA SetRunHushed ==
    ASSUME NEW w \in World, NEW n \in Node, NEW run \in BOOLEAN, NEW V \in SUBSET Node,
           run => n \notin V
    PROVE  Hushed(w, Node_SetRun(w, n, run), V)
  <1>1. PICK f : f = IF w.mIsGroup[n] THEN "Group_Calc" ELSE "Graph_Calc"
    OBVIOUS
  <1>2. PICK g : g = IF w.mCalcFunc[n] = "Graph_FirstCalc" THEN "Graph_NullFirstCalc"
                     ELSE "Node_NullCalc"
    OBVIOUS
  <1>3. f \in CalcFunc /\ g \in CalcFunc /\ ~IsGroupCalc(g)
    BY <1>1, <1>2 DEF CalcFunc, IsGroupCalc
  <1>4. PICK on : on = [w EXCEPT !.mCalcFunc[n] = f]
    OBVIOUS
  <1>5. PICK off : off = [w EXCEPT !.mCalcFunc[n] = g]
    OBVIOUS
  <1>6. on \in World /\ off \in World
    <2>1. SameTree(w, on) /\ SameTree(w, off)
      BY <1>3, <1>4, <1>5, SetCalcSame, Zenon
    <2>2. QED
      BY <2>1 DEF SameTree
  <1>7. Hushed(w, off, V)
    BY <1>3, <1>5, SetCalcHushed, Zenon
  <1>8. run => Hushed(w, on, V)
    <2>1. on.mCalcFunc = [w.mCalcFunc EXCEPT ![n] = f] /\ w.mCalcFunc \in [Node -> CalcFunc]
      BY <1>4 DEF World
    <2>2. run => \A x \in V : on.mCalcFunc[x] = w.mCalcFunc[x]
      BY <2>1
    <2>3. QED
      BY <2>2 DEF Hushed
  <1>9. /\ Hushed(w, Node_StateMsg(off, n, "off"), V)
        /\ run => Hushed(w, Node_StateMsg(on, n, "on"), V)
    BY <1>6, <1>7, <1>8, StateMsgHushed, HushedTrans
  <1>10. \/ Node_SetRun(w, n, run) = w
         \/ run /\ Node_SetRun(w, n, run) = Node_StateMsg(on, n, "on")
         \/ Node_SetRun(w, n, run) = Node_StateMsg(off, n, "off")
    BY <1>1, <1>2, <1>4, <1>5, Zenon DEF Node_SetRun
  <1>11. Hushed(w, w, V)
    BY DEF Hushed
  <1>12. QED
    BY <1>9, <1>10, <1>11

\* The synth n is being called, V is what has been called including n.
Ready(w, calls, n, V) ==
    /\ Called(w, calls, n) /\ calls # <<>> /\ n \in V
    /\ Seen(w, calls, V)
    /\ calls[1].child = w.t.mNext[n]

LEMMA SameReady ==
    ASSUME NEW w, NEW calls, NEW n, NEW V, Ready(w, calls, n, V), NEW v, SameTree(w, v),
           Hushed(w, v, V)
    PROVE  Ready(v, calls, n, V)
  <1>1. Called(v, calls, n)
    BY SameStays DEF Ready, Stays
  <1>2. Seen(v, calls, V)
    BY SameSeen DEF Ready, Seen
  <1>3. v.t = w.t
    BY DEF SameTree
  <1>4. QED
    BY <1>1, <1>2, <1>3 DEF Ready

\* What goes on below a node next to n does not concern what has been seen.
LEMMA PrunedReady ==
    ASSUME NEW w, NEW calls, NEW n, NEW V, Ready(w, calls, n, V), NEW v,
           NEW m \in Node, w.t.mParent[m] = w.t.mParent[n], w.t.mParent[n] # Null,
           NEW D, Pruned(w, v, D), D \subseteq Below(w.t, m)
    PROVE  Ready(v, calls, n, V)
  <1>1. /\ SaneWorld(w) /\ calls \in Seq(Frame) /\ Walked(w, calls) /\ calls # <<>>
        /\ w.t.mParent[m] = calls[1].group /\ w.t.mParent[n] = calls[1].group
        /\ n \in w.nodes /\ n \in Node /\ 1 \in 1 .. Len(calls)
        /\ SeenBut(w, calls, V, Null) /\ Called(w, calls, n)
    BY WorldType DEF Ready, Called, SaneWorld, Seen
  <1>2. Called(v, calls, n)
    BY <1>1, PrunedStays DEF Stays
  <1>3. ASSUME NEW i \in 1 .. Len(calls)
        PROVE  SameList(w.t, v.t, calls[i].group)
    <2>1. calls[i].group \notin {m} \cup Below(w.t, m)
      BY <1>1, StackAbove
    <2>2. \A x \in D : w.t.mParent[x] # calls[i].group
      BY <2>1, BelowUp
    <2>3. calls[i].group \in Node \ D
      BY <1>1, <2>1 DEF SeenBut
    <2>4. QED
      BY <1>1, <2>2, <2>3, PrunedList
  <1>4. \A i \in 1 .. Len(calls) : Front(v.t, calls[i].group, calls[i].child, V)
    BY <1>1, <1>3, SameListFront DEF SeenBut
  <1>5. SeenBut(v, calls, V, Null)
    BY <1>1, <1>4, PrunedSeen
  <1>6. v.t.mNext[n] = w.t.mNext[n]
    BY <1>1, <1>3 DEF SameList
  <1>7. QED
    BY <1>1, <1>2, <1>5, <1>6 DEF Ready, Seen

\* What a done action does to a neighbour m of node n.
LEMMA NeighbourReady ==
    ASSUME NEW w, NEW calls, NEW n, NEW V, Ready(w, calls, n, V), NEW m \in Node,
           w.t.mParent[m] = w.t.mParent[n], w.t.mParent[n] # Null
    PROVE  /\ Ready(Node_End(w, m), calls, n, V)
           /\ Ready(FreeGroup(w, m), calls, n, V)
           /\ Ready(DeepFree(w, m), calls, n, V)
           /\ Ready(Node_SetRun(w, m, FALSE), calls, n, V)
           /\ m = w.t.mNext[n] => Ready(Node_SetRun(w, m, TRUE), calls, n, V)
  <1>1. w \in World /\ SaneWorld(w) /\ V \in SUBSET Node
    BY DEF Ready, Called, SaneWorld, Seen, SeenBut
  <1>2. /\ SameTree(w, Node_End(w, m))
        /\ SameTree(w, Node_SetRun(w, m, TRUE)) /\ SameTree(w, Node_SetRun(w, m, FALSE))
    BY <1>1, EndSame, SetRunSame
  <1>3. Ready(Node_End(w, m), calls, n, V)
    BY <1>1, <1>2, EndHushed, SameReady
  <1>4. PICK no \in BOOLEAN : no = FALSE
    OBVIOUS
  <1>5. PICK yes \in BOOLEAN : yes = TRUE
    OBVIOUS
  <1>6. Ready(Node_SetRun(w, m, no), calls, n, V)
    <2>1. SameTree(w, Node_SetRun(w, m, no))
      BY <1>2, <1>4
    <2>2. no => m \notin V
      BY <1>4
    <2>3. Hushed(w, Node_SetRun(w, m, no), V)
      BY <1>1, <2>2, SetRunHushed
    <2>4. QED
      BY <2>1, <2>3, SameReady
  <1>7. ASSUME m = w.t.mNext[n] PROVE Ready(Node_SetRun(w, m, yes), calls, n, V)
    <2>1. SameTree(w, Node_SetRun(w, m, yes))
      BY <1>2, <1>5
    <2>2. m \notin V
      <3>1. 1 \in 1 .. Len(calls) /\ m = calls[1].child
        BY <1>7 DEF Ready, Called
      <3>2. QED
        BY <3>1 DEF Ready, Seen, SeenBut, Front
    <2>3. Hushed(w, Node_SetRun(w, m, yes), V)
      BY <1>1, <2>2, SetRunHushed
    <2>4. QED
      BY <2>1, <2>3, SameReady
  <1>8. Ready(Group_DeleteAll(w, m), calls, n, V)
    <2>1. PICK D : D = Below(w.t, m)
      OBVIOUS
    <2>2. Pruned(w, Group_DeleteAll(w, m), D) /\ D \subseteq Below(w.t, m)
      BY <1>1, <2>1, DeleteAllPruned
    <2>3. QED
      BY <2>2, PrunedReady
  <1>9. Ready(Group_DeepFreeGraphs(w, m), calls, n, V)
    <2>1. PICK D : D = {x \in Below(w.t, m) : ~w.mIsGroup[x]}
      OBVIOUS
    <2>2. Pruned(w, Group_DeepFreeGraphs(w, m), D) /\ D \subseteq Below(w.t, m)
      BY <1>1, <2>1, DeepFreePruned
    <2>3. QED
      BY <2>2, PrunedReady
  <1>10. QED
    BY <1>3, <1>4, <1>5, <1>6, <1>7, <1>8, <1>9 DEF FreeGroup, DeepFree

LEMMA DoneActionReady ==
    ASSUME NEW w, NEW calls, NEW n, NEW V, Ready(w, calls, n, V), NEW action \in 1 .. 15
    PROVE  Ready(Unit_DoneAction(w, n, action), calls, n, V)
  <1>1. /\ w \in World /\ n \in Node /\ w.t \in Links /\ Linked(w.t)
        /\ w.t.mPrev[n] \in NodeOrNull /\ w.t.mNext[n] \in NodeOrNull
        /\ V \in SUBSET Node
    BY WorldType, LinksType DEF Ready, Called, SaneWorld, Sane, Seen, SeenBut
  <1>2. PICK prev : prev = w.t.mPrev[n]
    OBVIOUS
  <1>3. PICK next : next = w.t.mNext[n]
    OBVIOUS
  <1>4. PICK ended : ended = Node_End(w, n)
    OBVIOUS
  <1>5. SameTree(w, ended) /\ ended.t = w.t
    BY <1>1, <1>4, EndSame DEF SameTree
  <1>6. Ready(ended, calls, n, V)
    BY <1>1, <1>4, <1>5, EndHushed, SameReady
  <1>7. /\ prev # Null => /\ prev \in Node /\ w.t.mParent[prev] = w.t.mParent[n]
                          /\ w.t.mParent[n] # Null
        /\ next # Null => /\ next \in Node /\ w.t.mParent[next] = w.t.mParent[n]
                          /\ w.t.mParent[n] # Null
    BY <1>1, <1>2, <1>3 DEF Linked, NodeOrNull
  <1>8. ASSUME NEW m \in {prev, next}, m # Null
        PROVE  /\ Ready(Node_End(ended, m), calls, n, V)
               /\ Ready(FreeGroup(ended, m), calls, n, V)
               /\ Ready(DeepFree(ended, m), calls, n, V)
               /\ Ready(Node_SetRun(ended, m, FALSE), calls, n, V)
               /\ m = next => Ready(Node_SetRun(ended, m, TRUE), calls, n, V)
    <2>1. /\ m \in Node /\ ended.t.mParent[m] = ended.t.mParent[n] /\ ended.t.mParent[n] # Null
          /\ next = ended.t.mNext[n]
      BY <1>3, <1>5, <1>7, <1>8
    <2>2. QED
      BY <1>6, <2>1, NeighbourReady
  <1>9. ASSUME NEW S PROVE Ready(EndAll(w, S), calls, n, V)
    BY <1>1, EndAllSame, EndAllHushed, SameReady
  <1>10. Ready(Node_SetRun(w, n, FALSE), calls, n, V)
    <2>1. PICK no \in BOOLEAN : no = FALSE
      OBVIOUS
    <2>2. Hushed(w, Node_SetRun(w, n, no), V)
      BY <1>1, <2>1, SetRunHushed
    <2>3. SameTree(w, Node_SetRun(w, n, no))
      BY <1>1, SetRunSame
    <2>4. QED
      BY <2>1, <2>2, <2>3, SameReady
  <1>11. Ready(Node_End(w, w.t.mParent[n]), calls, n, V)
    BY <1>1, EndSame, EndHushed, SameReady
  <1>12. PICK v : v = Unit_DoneAction(w, n, action)
    OBVIOUS
  <1>13. DoneShape(w, n, v)
    BY <1>12, DoneActionShape
  <1>14. Ready(v, calls, n, V)
    BY <1>2, <1>3, <1>4, <1>6, <1>8, <1>9, <1>10, <1>11, <1>13, Zenon DEF DoneShape
  <1>15. QED
    BY <1>12, <1>14

LEMMA DoneActionsReady ==
    ASSUME NEW w, NEW calls, NEW n, NEW V, Ready(w, calls, n, V), NEW actions \in Seq(1 .. 15)
    PROVE  Ready(DoneActions(w, n, actions), calls, n, V)
  <1>1. PICK f : /\ DoneActions(w, n, actions) = f[Len(actions)]
                 /\ f[0] = w
                 /\ \A i \in 1 .. Len(actions) :
                       /\ actions[i] \in 1 .. 15
                       /\ f[i] = Unit_DoneAction(f[i - 1], n, actions[i])
    BY DoneActionsDef
  <1>2. ASSUME NEW i \in 1 .. Len(actions), Ready(f[i - 1], calls, n, V)
        PROVE  Ready(f[i], calls, n, V)
    BY <1>1, <1>2, DoneActionReady
  <1>3. Ready(f[0], calls, n, V)
    BY <1>1
  <1> DEFINE T == {i \in 0 .. Len(actions) : ~(Ready(f[i], calls, n, V))}
  <1>4. T = {}
    <2> SUFFICES ASSUME T # {} PROVE FALSE
      OBVIOUS
    <2>1. PICK k \in T : \A j \in T : k <= j
      <3>1. T \subseteq Nat
        OBVIOUS
      <3> HIDE DEF T
      <3>2. QED
        BY <3>1, LeastNat
    <2>2. k \in 1 .. Len(actions) /\ k - 1 \in 0 .. Len(actions) /\ k - 1 \notin T
      BY <1>3, <2>1
    <2>3. QED
      BY <1>2, <2>1, <2>2
  <1>5. Len(actions) \in 0 .. Len(actions)
    OBVIOUS
  <1>6. QED
    BY <1>1, <1>4, <1>5

LEMMA RunGraphReady ==
    ASSUME NEW w, NEW calls, NEW n, NEW V, Ready(w, calls, n, V),
           NEW first \in Seq(1 .. 15), NEW actions \in Seq(1 .. 15),
           w.mCalcFunc[n] \in {"Graph_FirstCalc", "Graph_NullFirstCalc", "Graph_Calc",
                               "Graph_CalcTrace"},
           NEW v, v = RunGraph(w, n, first, actions)
    PROVE  Ready(v, calls, n, V)
  <1>1. PICK u : u = DoneActions(w, n, first)
    OBVIOUS
  <1>2. PICK ctor : ctor = [u EXCEPT !.built[n] = TRUE]
    OBVIOUS
  <1>3. PICK ran : ran = DoneActions(w, n, actions)
    OBVIOUS
  <1>4. PICK y : y = [ctor EXCEPT !.mCalcFunc[n] = "Graph_Calc"]
    OBVIOUS
  <1>5. PICK b : b = [ctor EXCEPT !.mCalcFunc[n] = "Node_NullCalc"]
    OBVIOUS
  <1>6. PICK c : c = [ran EXCEPT !.mCalcFunc[n] = "Graph_Calc"]
    OBVIOUS
  <1>7. v = DoneActions(y, n, actions) \/ v = b \/ v = ran \/ v = c
    <2>1. RunShape(w, n, first, actions, v)
      BY RunGraphShape
    <2>2. QED
      BY <2>1, <1>1, <1>2, <1>3, <1>4, <1>5, <1>6, Zenon DEF RunShape
  <1>8. Ready(u, calls, n, V) /\ Ready(ran, calls, n, V)
    BY <1>1, <1>3, DoneActionsReady
  <1>9. u \in World /\ ran \in World /\ V \in SUBSET Node
    BY <1>8 DEF Ready, Called, SaneWorld, Seen, SeenBut
  <1>10. Ready(ctor, calls, n, V)
    <2>1. SameTree(u, ctor) /\ Hushed(u, ctor, V)
      BY <1>2, <1>9, BuiltSame, BuiltHushed
    <2>2. QED
      BY <2>1, <1>8, SameReady
  <1>11. ctor \in World
    BY <1>10 DEF Ready, Called, SaneWorld
  <1>12. /\ "Graph_Calc" \in CalcFunc /\ "Node_NullCalc" \in CalcFunc
         /\ ~IsGroupCalc("Graph_Calc") /\ ~IsGroupCalc("Node_NullCalc")
    BY DEF CalcFunc, IsGroupCalc
  <1>13. /\ SameTree(ctor, y) /\ SameTree(ctor, b) /\ SameTree(ran, c)
         /\ Hushed(ctor, y, V) /\ Hushed(ctor, b, V) /\ Hushed(ran, c, V)
    BY <1>4, <1>5, <1>6, <1>9, <1>11, <1>12, SetCalcSame, SetCalcHushed, Zenon
  <1>14. Ready(y, calls, n, V) /\ Ready(b, calls, n, V) /\ Ready(c, calls, n, V)
    BY <1>8, <1>10, <1>13, SameReady
  <1>15. Ready(DoneActions(y, n, actions), calls, n, V)
    BY <1>14, DoneActionsReady
  <1>16. QED
    BY <1>7, <1>8, <1>14, <1>15

\* The calls when the innermost group calls its next child n and puts aside the
\* one after.
Advanced(w, s, n, calls) ==
    /\ s \in Seq(Frame) /\ s # <<>>
    /\ n = s[1].child /\ n # Null
    /\ Len(calls) = Len(s)
    /\ calls[1].group = s[1].group /\ calls[1].child = w.t.mNext[n]
    /\ \A i \in 2 .. Len(s) : calls[i] = s[i]

LEMMA AdvanceSeen ==
    ASSUME NEW w, SaneWorld(w), NEW s, Walked(w, s), NEW V, Seen(w, s, V), NEW n,
           NEW calls, Advanced(w, s, n, calls), NEW U, U = V \cup {n}
    PROVE  SeenBut(w, calls, U, n) /\ \A x \in U : w.t.mParent[x] # n
  <1>0. /\ s \in Seq(Frame) /\ s # <<>>
        /\ n = s[1].child /\ n # Null
        /\ Len(calls) = Len(s)
        /\ calls[1].group = s[1].group /\ calls[1].child = w.t.mNext[n]
        /\ \A i \in 2 .. Len(s) : calls[i] = s[i]
    BY DEF Advanced
  <1>1. /\ w.t \in Links /\ Linked(w.t) /\ NoRing(w.t) /\ w.nodes \in SUBSET Node
        /\ V \in SUBSET Node
    BY WorldType DEF SaneWorld, Sane, Seen, SeenBut
  <1>2. Len(s) \in Nat /\ 1 \in 1 .. Len(s)
    BY <1>0
  <1>3. \A i \in 1 .. Len(s) : i = 1 \/ (i # 1 /\ calls[i] = s[i])
    BY <1>0, <1>2
  <1>4. \A i \in 1 .. Len(s) : calls[i].group = s[i].group
    BY <1>0, <1>3
  <1>5. \A i \in 1 .. Len(s) : s[i].group \in V /\ Front(w.t, s[i].group, s[i].child, V)
    BY DEF Seen, SeenBut
  <1>6. PICK g : g = s[1].group
    OBVIOUS
  <1>7. n \in Node /\ w.t.mParent[n] = g /\ g \in V /\ Front(w.t, g, n, V) /\ n \notin V
    <2>1. n \in Node /\ w.t.mParent[n] = g
      BY <1>0, <1>1, <1>2, <1>6 DEF Walked
    <2>2. g \in V /\ Front(w.t, g, n, V)
      BY <1>0, <1>2, <1>5, <1>6
    <2>3. QED
      BY <2>1, <2>2 DEF Front
  <1>8. PICK c : c = w.t.mNext[n]
    OBVIOUS
  <1>9. /\ c \in NodeOrNull /\ c \notin V /\ c # n
        /\ c # Null => w.t.mPrev[c] = n
    <2>1. c \notin V
      BY <1>7, <1>8 DEF Front
    <2>2. c # n
      <3>1. {n} \in SUBSET Node /\ {n} # {}
        BY <1>7
      <3>2. ~ \A x \in {n} : w.t.mNext[x] \in {n}
        BY <1>1, <3>1 DEF NoRing
      <3>3. QED
        BY <1>8, <3>2
    <2>3. QED
      BY <2>1, <2>2, <1>1, <1>7, <1>8, LinksType DEF Linked
  <1>10. Front(w.t, g, c, V \cup {n})
    <2>1. ASSUME NEW x \in Node, w.t.mParent[x] = g, x \notin V \cup {n}
          PROVE  w.t.mNext[x] \notin (V \cup {n}) \cup ({c} \ {Null})
      <3>1. w.t.mNext[x] \notin V /\ w.t.mNext[x] # n
        BY <1>0, <1>7, <2>1 DEF Front
      <3>2. ASSUME w.t.mNext[x] = c, c # Null PROVE FALSE
        BY <1>1, <1>9, <2>1, <3>2 DEF Linked
      <3>3. QED
        BY <3>1, <3>2
    <2>2. c = Null => w.t.mTail[g] = n
      BY <1>1, <1>7, <1>8, RootAssumption, ZenonT(60) DEF Linked
    <2>3. QED
      BY <2>1, <2>2, <1>9 DEF Front
  <1>11. ASSUME NEW i \in 1 .. Len(s)
         PROVE  /\ calls[i].group \in V \cup {n}
                /\ Front(w.t, calls[i].group, calls[i].child, V \cup {n})
    <2>1. CASE i = 1
      BY <2>1, <1>0, <1>6, <1>7, <1>8, <1>10
    <2>2. CASE i # 1
      <3>1. calls[i] = s[i] /\ s[i].group \in V
        BY <2>2, <1>3, <1>5
      <3>2. PICK h : h = s[i].group
        OBVIOUS
      <3>3. PICK d : d = s[i].child
        OBVIOUS
      <3>4. h # g
        BY <2>2, <1>2, <1>6, <3>2 DEF Walked
      <3>5. Front(w.t, h, d, V)
        BY <1>5, <3>2, <3>3
      <3>6. d # n
        <4>1. d # Null => w.t.mParent[d] = h
          BY <3>2, <3>3 DEF Walked
        <4>2. QED
          BY <4>1, <3>4, <1>0, <1>7
      <3>7. ASSUME NEW x \in Node, w.t.mParent[x] = h, w.t.mNext[x] = n PROVE FALSE
        BY <1>1, <1>7, <3>4, <3>7, RootAssumption DEF Linked
      <3>8. Front(w.t, h, d, V \cup {n})
        BY <3>5, <3>6, <3>7 DEF Front
      <3>9. QED
        BY <3>1, <3>2, <3>3, <3>8
    <2>3. QED
      BY <2>1, <2>2
  <1>12. ASSUME NEW h \in V, IsGroupCalc(w.mCalcFunc[h])
         PROVE  OnStack(calls, h) \/ AllSeen(w.t, h, V \cup {n})
    <2>1. h \in V \ {Null}
      BY <1>1, RootAssumption
    <2>2. OnStack(s, h) \/ AllSeen(w.t, h, V)
      BY <1>12, <2>1 DEF Seen, SeenBut
    <2>3. OnStack(s, h) => OnStack(calls, h)
      BY <1>0, <1>4 DEF OnStack
    <2>4. QED
      BY <2>2, <2>3 DEF AllSeen
  <1>13. \A x \in V : w.t.mParent[x] \in V \cup {Null}
    BY DEF Seen, SeenBut
  <1>14. \A x \in V \cup {n} : w.t.mParent[x] \in (V \cup {n}) \cup {Null}
    BY <1>7, <1>13
  <1>15. \A x \in V \cup {n} : w.t.mParent[x] # n
    <2>1. g # n
      BY <1>7
    <2>2. QED
      BY <2>1, <1>7, <1>13, RootAssumption
  <1>16. SeenBut(w, calls, V \cup {n}, n)
    <2>1. V \cup {n} \in SUBSET Node
      BY <1>1, <1>7
    <2>2. \A h \in (V \cup {n}) \ {n} : h \in V
      OBVIOUS
    <2>3. QED
      BY <2>1, <2>2, <1>0, <1>11, <1>12, <1>14 DEF SeenBut
  <1>17. QED
    BY <1>15, <1>16

\* The called node n is deleted, with all that is below it.
LEMMA DeleteSeen ==
    ASSUME NEW w, NEW calls, NEW n, Called(w, calls, n), calls # <<>>, NEW V, n \in V,
           SeenBut(w, calls, V, n), calls[1].child = w.t.mNext[n]
    PROVE  Seen(Node_Delete(w, n), calls, V)
  <1>1. /\ SaneWorld(w) /\ calls \in Seq(Frame) /\ Walked(w, calls) /\ n \in Node
        /\ w.t.mParent[n] = calls[1].group /\ 1 \in 1 .. Len(calls)
        /\ w.t \in Links /\ Linked(w.t) /\ w.t.mParent[Root] = Null /\ V \in SUBSET Node
    BY WorldType DEF Called, SaneWorld, Sane, SeenBut
  <1>2. PICK g : g = calls[1].group
    OBVIOUS
  <1>3. PICK c : c = calls[1].child
    OBVIOUS
  <1>4. /\ g \in Node /\ w.t.mParent[n] = g /\ c = w.t.mNext[n] /\ Front(w.t, g, c, V)
        /\ n # Root
    <2>1. g \in V /\ Front(w.t, g, c, V)
      BY <1>1, <1>2, <1>3 DEF SeenBut
    <2>2. QED
      BY <2>1, <1>1, <1>2, <1>3, RootAssumption
  <1>5. PICK D : D = {n} \cup Below(w.t, n)
    OBVIOUS
  <1>6. PICK v : v = Node_Delete(w, n)
    OBVIOUS
  <1>7. Pruned(w, v, D)
    BY <1>1, <1>4, <1>5, <1>6, DeletePruned
  <1>8. \A i \in 1 .. Len(calls) : calls[i].group \in Node \ D
    <2>1. \A i \in 1 .. Len(calls) : calls[i].group \notin D
      BY <1>1, <1>5, StackAbove
    <2>2. QED
      BY <2>1, <1>1 DEF SeenBut
  <1>9. Front(v.t, g, c, V)
    <2>1. PICK u : u = Node_Remove(w.t, n)
      OBVIOUS
    <2>2. PICK t : t = Clear(u, D)
      OBVIOUS
    <2>3. v.t = t
      <3>1. PICK d : d = Discard(w, D)
        OBVIOUS
      <3>2. v = [d EXCEPT !.t = t]
        BY <1>4, <1>5, <1>6, <2>1, <2>2, <3>1, Zenon DEF Node_Delete, StrictlyBelow
      <3>3. "t" \in DOMAIN d
        BY <1>1, <3>1 DEF Discard, SaneWorld, World
      <3>4. QED
        BY <3>2, <3>3
    <2>4. u \in Links /\ Without(u, w.t, n)
      <3>1. Sane(w.t, w.nodes, w.mIsGroup) /\ w.nodes \in SUBSET Node
        BY <1>1, WorldType DEF SaneWorld
      <3>2. Sane(u, w.nodes, w.mIsGroup)
        BY <3>1, <1>1, <2>1, RemoveSane
      <3>3. QED
        BY <3>2, <1>1, <2>1, RemoveFields DEF Sane
    <2>5. Emptied(t, u, D, {})
      <3>1. D \in SUBSET Node
        BY <1>7 DEF Pruned, Cut
      <3>2. QED
        BY <3>1, <2>2, <2>4, ClearFields
    <2>6. ASSUME NEW x \in Node, t.mParent[x] = g, x \notin V
          PROVE  t.mNext[x] \notin V \cup ({c} \ {Null})
      <3>1. x \notin D /\ x # n /\ w.t.mParent[x] = g
        BY <1>4, <2>4, <2>5, <2>6, RootAssumption DEF Emptied, Without
      <3>2. w.t.mNext[x] \notin V \cup ({c} \ {Null})
        BY <1>4, <2>6, <3>1 DEF Front
      <3>3. x # w.t.mPrev[n]
        BY <1>1, <3>2, RootAssumption DEF Linked
      <3>4. t.mNext[x] = w.t.mNext[x]
        BY <3>1, <3>3, <2>4, <2>5 DEF Emptied, Without
      <3>5. QED
        BY <3>2, <3>4
    <2>7. c = Null => t.mTail[g] \in V \cup {Null}
      <3> SUFFICES ASSUME c = Null PROVE t.mTail[g] \in V \cup {Null}
        OBVIOUS
      <3>1. g \notin D
        BY <1>1, <1>2, <1>8
      <3>2. t.mTail[g] = w.t.mPrev[n]
        BY <1>4, <2>4, <2>5, <3>1 DEF Emptied, Without
      <3>3. PICK p : p = w.t.mPrev[n]
        OBVIOUS
      <3>4. p \in NodeOrNull
        BY <1>1, <3>3, LinksType, SMTT(40)
      <3>5. p # Null => w.t.mParent[p] = g /\ w.t.mNext[p] = n
        BY <1>1, <1>4, <3>3 DEF Linked
      <3>6. p # Null => p \in V
        BY <1>4, <3>4, <3>5 DEF Front, NodeOrNull
      <3>7. QED
        BY <3>2, <3>3, <3>6
    <2>8. c \notin V
      BY <1>4 DEF Front
    <2>9. QED
      BY <2>3, <2>6, <2>7, <2>8 DEF Front
  <1>10. ASSUME NEW i \in 1 .. Len(calls) PROVE Front(v.t, calls[i].group, calls[i].child, V)
    <2>1. CASE i = 1
      BY <2>1, <1>2, <1>3, <1>9
    <2>2. CASE i # 1
      <3>1. calls[i].group # g
        BY <2>2, <1>1, <1>2 DEF Walked
      <3>2. \A x \in D : w.t.mParent[x] # calls[i].group
        BY <3>1, <1>4, <1>5, <1>8, BelowUp
      <3>3. SameList(w.t, v.t, calls[i].group)
        BY <3>2, <1>1, <1>7, <1>8, PrunedList
      <3>4. Front(w.t, calls[i].group, calls[i].child, V)
        BY DEF SeenBut
      <3>5. QED
        BY <3>3, <3>4, SameListFront
    <2>3. QED
      BY <2>1, <2>2
  <1>11. SeenBut(v, calls, V, n)
    BY <1>1, <1>7, <1>10, PrunedSeen
  <1>12. AllSeen(v.t, n, V)
    <2>1. n \notin v.nodes /\ Within(v.t, v.nodes)
      BY <1>5, <1>7 DEF Pruned, SaneWorld, Sane
    <2>2. \A x \in Node : v.t.mParent[x] \in v.nodes \cup {Null}
      BY <2>1 DEF Within
    <2>3. QED
      BY <2>1, <2>2, <1>1, RootAssumption DEF AllSeen
  <1>13. SeenBut(v, calls, V, Null)
    BY <1>11, <1>12, Zenon DEF SeenBut
  <1>14. QED
    BY <1>6, <1>13 DEF Seen

\* Entering the called group n, none of whose nodes has been called.
LEMMA EnterSeen ==
    ASSUME NEW w, NEW calls, NEW n, Called(w, calls, n), NEW V, n \in V,
           SeenBut(w, calls, V, n), \A x \in V : w.t.mParent[x] # n,
           NEW e, e = [group |-> n, child |-> w.t.mHead[n], func |-> w.mCalcFunc[n]]
    PROVE  Seen(w, <<e>> \o calls, V)
  <1>1. /\ calls \in Seq(Frame) /\ n \in Node /\ w.t \in Links /\ Linked(w.t)
        /\ w.t.mHead[n] \in NodeOrNull /\ w.mCalcFunc[n] \in CalcFunc /\ V \in SUBSET Node
    BY WorldType, LinksType DEF Called, SaneWorld, Sane, SeenBut
  <1>2. e \in Frame /\ e.group = n /\ e.child = w.t.mHead[n]
    BY <1>1 DEF Frame
  <1>3. PICK s : s = <<e>> \o calls
    OBVIOUS
  <1>4. /\ s \in Seq(Frame) /\ Len(s) = Len(calls) + 1 /\ s[1] = e /\ Len(calls) \in Nat
        /\ \A i \in 2 .. Len(calls) + 1 : s[i] = calls[i - 1]
    BY <1>1, <1>2, <1>3, PushFrame
  <1>5. \A i \in 1 .. Len(s) : i = 1 \/ (s[i] = calls[i - 1] /\ i - 1 \in 1 .. Len(calls))
    BY <1>4
  <1>6. \A j \in 1 .. Len(calls) : j + 1 \in 1 .. Len(s) /\ s[j + 1] = calls[j]
    BY <1>4
  <1>7. Front(w.t, n, w.t.mHead[n], V)
    <2>1. w.t.mHead[n] \notin V
      BY <1>1, RootAssumption DEF Linked
    <2>2. ASSUME NEW x \in Node, w.t.mParent[x] = n
          PROVE  w.t.mNext[x] \notin V \cup ({w.t.mHead[n]} \ {Null})
      BY <1>1, <2>2, RootAssumption DEF Linked
    <2>3. w.t.mHead[n] = Null => w.t.mTail[n] = Null
      BY <1>1 DEF Linked
    <2>4. QED
      BY <2>1, <2>2, <2>3 DEF Front
  <1>8. ASSUME NEW i \in 1 .. Len(s)
        PROVE  s[i].group \in V /\ Front(w.t, s[i].group, s[i].child, V)
    <2>1. CASE i = 1
      BY <2>1, <1>2, <1>4, <1>7
    <2>2. CASE i # 1
      <3>1. s[i] = calls[i - 1] /\ i - 1 \in 1 .. Len(calls)
        BY <2>2, <1>5
      <3>2. QED
        BY <3>1 DEF SeenBut
    <2>3. QED
      BY <2>1, <2>2
  <1>9. ASSUME NEW g \in V, IsGroupCalc(w.mCalcFunc[g])
        PROVE  OnStack(s, g) \/ AllSeen(w.t, g, V)
    <2>1. CASE g = n
      BY <2>1, <1>2, <1>4 DEF OnStack
    <2>2. CASE g # n
      <3>1. OnStack(calls, g) \/ AllSeen(w.t, g, V)
        BY <1>9, <2>2 DEF SeenBut
      <3>2. OnStack(calls, g) => OnStack(s, g)
        BY <1>6 DEF OnStack
      <3>3. QED
        BY <3>1, <3>2
    <2>3. QED
      BY <2>1, <2>2
  <1>10. \A x \in V : w.t.mParent[x] \in V \cup {Null}
    BY DEF SeenBut
  <1>11. Seen(w, s, V)
    BY <1>1, <1>8, <1>9, <1>10 DEF Seen, SeenBut
  <1>12. QED
    BY <1>3, <1>11

\* Whatever calling node n from a group does.
LEMMA CallSeen ==
    ASSUME use \in Use, NEW w, NEW calls, NEW n, Called(w, calls, n), calls # <<>>,
           NEW V, V = visited \cup {n}, SeenBut(w, calls, V, n),
           calls[1].child = w.t.mNext[n], \A x \in V : w.t.mParent[x] # n,
           Call(w, n, calls)
    PROVE  stack' # <<>> /\ Seen(world', stack', visited')
  <1>1. /\ use.doneActions \subseteq Seq(1 .. 15) /\ <<>> \in Seq(1 .. 15)
        /\ n \in V /\ calls \in Seq(Frame)
    BY DEF Use, Called
  <1>2. visited' = IF stack' = <<>> THEN {} ELSE V
    BY DEF Call
  <1>3. CASE IsGroupCalc(w.mCalcFunc[n]) /\ world' = w /\ Enter(w, n, calls)
    <2>1. PICK e : e = [group |-> n, child |-> w.t.mHead[n], func |-> w.mCalcFunc[n]]
      OBVIOUS
    <2>2. stack' = <<e>> \o calls
      BY <1>3, <2>1, Zenon DEF Enter
    <2>3. Seen(w, stack', V)
      BY <1>1, <2>1, <2>2, EnterSeen
    <2>4. stack' # <<>>
      BY <2>2, <1>1
    <2>5. QED
      BY <1>2, <1>3, <2>3, <2>4
  <1>4. ~IsGroupCalc(w.mCalcFunc[n]) => Seen(w, calls, V)
    BY Zenon DEF Seen, SeenBut
  <1>5. CASE w.mCalcFunc[n] = "Node_NullCalc" /\ world' = w /\ stack' = calls
    <2>1. Seen(w, calls, V)
      BY <1>4, <1>5 DEF IsGroupCalc
    <2>2. QED
      BY <1>2, <1>5, <2>1
  <1>6. CASE world' = Node_Delete(w, n) /\ stack' = calls
    BY <1>1, <1>2, <1>6, DeleteSeen
  <1>7. ASSUME NEW first \in Seq(1 .. 15), NEW actions \in Seq(1 .. 15),
               w.mCalcFunc[n] \in {"Graph_FirstCalc", "Graph_NullFirstCalc", "Graph_Calc",
                                   "Graph_CalcTrace"},
               world' = RunGraph(w, n, first, actions), stack' = calls
        PROVE  stack' # <<>> /\ Seen(world', stack', visited')
    <2>1. Seen(w, calls, V)
      BY <1>4, <1>7 DEF IsGroupCalc
    <2>2. Ready(w, calls, n, V)
      BY <1>1, <2>1, SMTT(40) DEF Ready
    <2>3. Ready(world', calls, n, V)
      BY <1>7, <2>2, RunGraphReady
    <2>4. Seen(world', calls, V)
      BY <2>3 DEF Ready
    <2>5. QED
      BY <1>2, <1>7, <2>4
  <1>8. CASE /\ w.mCalcFunc[n] \in {"Graph_FirstCalc", "Graph_NullFirstCalc"}
             /\ \E first, actions \in use.doneActions : world' = RunGraph(w, n, first, actions)
             /\ stack' = calls
    <2>1. PICK first \in use.doneActions, actions \in use.doneActions :
             world' = RunGraph(w, n, first, actions)
      BY <1>8
    <2>2. first \in Seq(1 .. 15) /\ actions \in Seq(1 .. 15)
      BY <1>1
    <2>3. w.mCalcFunc[n] \in {"Graph_FirstCalc", "Graph_NullFirstCalc", "Graph_Calc",
                              "Graph_CalcTrace"}
      BY <1>8
    <2>4. QED
      BY <2>1, <2>2, <2>3, <1>7, <1>8, Zenon
  <1>9. CASE /\ w.mCalcFunc[n] \in {"Graph_Calc", "Graph_CalcTrace"}
             /\ \E actions \in use.doneActions : world' = RunGraph(w, n, <<>>, actions)
             /\ stack' = calls
    <2>1. PICK actions \in use.doneActions : world' = RunGraph(w, n, <<>>, actions)
      BY <1>9
    <2>2. actions \in Seq(1 .. 15)
      BY <1>1
    <2>3. w.mCalcFunc[n] \in {"Graph_FirstCalc", "Graph_NullFirstCalc", "Graph_Calc",
                              "Graph_CalcTrace"}
      BY <1>9
    <2>4. QED
      BY <2>1, <2>2, <2>3, <1>1, <1>7, <1>9, Zenon
  <1>10. \/ IsGroupCalc(w.mCalcFunc[n]) /\ world' = w /\ Enter(w, n, calls)
         \/ w.mCalcFunc[n] = "Node_NullCalc" /\ world' = w /\ stack' = calls
         \/ world' = Node_Delete(w, n) /\ stack' = calls
         \/ /\ w.mCalcFunc[n] \in {"Graph_FirstCalc", "Graph_NullFirstCalc"}
            /\ \E first, actions \in use.doneActions : world' = RunGraph(w, n, first, actions)
            /\ stack' = calls
         \/ /\ w.mCalcFunc[n] \in {"Graph_Calc", "Graph_CalcTrace"}
            /\ \E actions \in use.doneActions : world' = RunGraph(w, n, <<>>, actions)
            /\ stack' = calls
    BY Zenon DEF Call
  <1>11. QED
    BY <1>3, <1>5, <1>6, <1>8, <1>9, <1>10, Zenon

LEMMA CallChildSeen ==
    ASSUME Inv, Seeing, CallChild
    PROVE  stack' # <<>> /\ Seen(world', stack', visited')
  <1>1. PICK q : q = Quiet(world)
    OBVIOUS
  <1>2. PICK w, calls, n :
           /\ Silent(q, w) /\ Called(w, calls, n) /\ Call(w, n, calls)
           /\ n = stack[1].child /\ n # Null
           /\ w = q \/ w = Group_DumpTree(q, n)
           /\ \A i \in 1 .. Len(calls) : calls[i].child # n
           /\ calls # <<>> /\ Len(calls) = Len(stack)
           /\ calls[1].group = stack[1].group /\ calls[1].child = w.t.mNext[n]
           /\ \A i \in 2 .. Len(stack) : calls[i] = stack[i]
    BY <1>1, CallChildCalls
  <1>3. stack # <<>> /\ stack \in Seq(Frame) /\ use \in Use
    BY DEF CallChild, Inv, StateOK
  <1>4. Seen(world, stack, visited) /\ visited \in SUBSET Node
    BY <1>3 DEF Seeing, Seen, SeenBut
  <1>5. /\ SameTree(world, q) /\ q \in World /\ Walked(q, stack) /\ SaneWorld(q)
        /\ q.mCalcFunc = world.mCalcFunc
    <2>1. q.mCalcFunc = world.mCalcFunc
      BY <1>1 DEF Quiet, Inv, StateOK, SaneWorld, World
    <2>2. QED
      BY <1>1, <2>1, QuietWorld
  <1>6. Hushed(q, w, visited)
    <2>1. PICK z : z = [q EXCEPT !.mCalcFunc[n] = "Group_CalcDumpTree"]
      OBVIOUS
    <2>2. w = q \/ (q.mCalcFunc[n] = "Group_Calc" /\ w = z)
      BY <1>2, <2>1, Zenon DEF Group_DumpTree
    <2>3. z.mCalcFunc = [q.mCalcFunc EXCEPT ![n] = "Group_CalcDumpTree"]
          /\ q.mCalcFunc \in [Node -> CalcFunc]
      BY <1>5, <2>1 DEF World
    <2>4. \A g \in visited : z.mCalcFunc[g] = q.mCalcFunc[g] \/ g = n
      BY <1>4, <2>3
    <2>5. QED
      BY <2>2, <2>4 DEF Hushed, IsGroupCalc
  <1>7. Seen(w, stack, visited)
    <2>1. Hushed(world, q, visited)
      BY <1>5 DEF Hushed
    <2>2. Seen(q, stack, visited)
      BY <1>4, <1>5, <2>1, SameSeen, SMTT(40) DEF Seen
    <2>3. QED
      BY <1>2, <1>6, <2>2, SameSeen DEF Seen, Silent
  <1>8. Walked(w, stack) /\ SaneWorld(w)
    BY <1>2, <1>5 DEF Silent, SameTree, Walked, Called
  <1>9. PICK V : V = visited \cup {n}
    OBVIOUS
  <1>10. SeenBut(w, calls, V, n) /\ \A x \in V : w.t.mParent[x] # n
    <2>1. Advanced(w, stack, n, calls)
      BY <1>2, <1>3 DEF Advanced
    <2>2. QED
      BY <1>7, <1>8, <1>9, <2>1, AdvanceSeen
  <1>11. QED
    BY <1>2, <1>3, <1>9, <1>10, CallSeen

LEMMA RunSeen ==
    ASSUME Inv, Seeing, World_Run
    PROVE  Seeing'
  <1>1. PICK q : q = Quiet(world)
    OBVIOUS
  <1>2. SaneWorld(q)
    BY <1>1, QuietWorld
  <1>3. PICK none : none = << >>
    OBVIOUS
  <1>4. Call(q, Root, none)
    BY <1>1, <1>3, Zenon DEF World_Run
  <1>5. q.t.mParent[Root] = Null /\ Root \in q.nodes
    BY <1>2 DEF SaneWorld, Sane
  <1>6. Called(q, none, Root)
    BY <1>2, <1>3, <1>5 DEF Called, Walked
  <1>7. visited = {}
    BY DEF Seeing, World_Run, Between2Blocks
  <1>8. CASE stack' = none
    <2>1. stack' = <<>> /\ visited' = {}
      BY <1>3, <1>4, <1>8 DEF Call
    <2>2. QED
      BY <2>1 DEF Seeing
  <1>9. CASE world' = q /\ Enter(q, Root, none) /\ stack' # none
    <2>1. visited' = {Root}
      BY <1>3, <1>4, <1>7, <1>9 DEF Call
    <2>2. PICK e : e = [group |-> Root, child |-> q.t.mHead[Root], func |-> q.mCalcFunc[Root]]
      OBVIOUS
    <2>3. stack' = <<e>> \o none
      BY <1>9, <2>2, Zenon DEF Enter
    <2>4. SeenBut(q, none, {Root}, Root) /\ \A x \in {Root} : q.t.mParent[x] # Root
      <3>1. \A x \in {Root} : q.t.mParent[x] = Null
        BY <1>5
      <3>2. Len(none) = 0
        BY <1>3
      <3>3. QED
        BY <3>1, <3>2, RootAssumption DEF SeenBut
    <2>5. Seen(q, <<e>> \o none, {Root})
      <3>1. PICK V : V = {Root}
        OBVIOUS
      <3>2. SeenBut(q, none, V, Root) /\ Root \in V /\ \A x \in V : q.t.mParent[x] # Root
        BY <2>4, <3>1
      <3>3. Seen(q, <<e>> \o none, V)
        BY <3>2, <1>6, <2>2, EnterSeen
      <3>4. QED
        BY <3>1, <3>3
    <2>6. Seen(world', stack', visited')
      BY <1>9, <2>1, <2>3, <2>5
    <2>7. QED
      BY <1>3, <1>9, <2>6 DEF Seeing
  <1>10. stack' = none \/ (world' = q /\ Enter(q, Root, none))
    BY <1>4, Zenon DEF Call
  <1>11. QED
    BY <1>8, <1>9, <1>10

\* A group that is done: nothing of it was left out, and the calls around it
\* have seen what they had seen.
LEMMA ReturnSeen ==
    ASSUME Inv, Seeing, ReturnGroup
    PROVE  /\ Seeing'
           /\ stack' = <<>> =>
                 \A n \in world'.nodes :
                    world'.t.mParent[n] \in visited
                       /\ IsGroupCalc(world'.mCalcFunc[world'.t.mParent[n]]) => n \in visited
  <1>1. PICK q : q = Quiet(world)
    OBVIOUS
  <1>2. PICK g : g = stack[1].group
    OBVIOUS
  <1>3. PICK v : v = IF stack[1].func = "Group_Calc" THEN q
                     ELSE [q EXCEPT !.mCalcFunc[g] = "Group_Calc"]
    OBVIOUS
  <1>4. PICK r : r = Tail(stack)
    OBVIOUS
  <1>5. /\ stack # <<>> /\ stack[1].child = Null /\ world' = v /\ stack' = r
        /\ visited' = IF Len(stack) = 1 THEN {} ELSE visited
    BY <1>1, <1>2, <1>3, <1>4, Zenon DEF ReturnGroup
  <1>6. stack \in Seq(Frame) /\ SaneWorld(world) /\ SaneWorld(q) /\ q \in World
        /\ q.t = world.t /\ world \in World
    BY <1>1, QuietWorld DEF Inv, StateOK, SaneWorld
  <1>7. q.mCalcFunc = world.mCalcFunc
    BY <1>1, <1>6 DEF Quiet, World
  <1>8. SeenBut(world, stack, visited, Null) /\ visited \in SUBSET Node
    BY <1>5 DEF Seeing, Seen, SeenBut
  <1>9. /\ v.t = world.t /\ v \in World
        /\ \A x \in Node : v.mCalcFunc[x] = world.mCalcFunc[x] \/ x = g
    <2>1. PICK z : z = [q EXCEPT !.mCalcFunc[g] = "Group_Calc"]
      OBVIOUS
    <2>2. z.t = q.t /\ z.mCalcFunc = [q.mCalcFunc EXCEPT ![g] = "Group_Calc"]
          /\ q.mCalcFunc \in [Node -> CalcFunc]
      BY <1>6, <2>1 DEF World
    <2>3. z \in World
      <3>1. "Group_Calc" \in CalcFunc
        BY DEF CalcFunc
      <3>2. SameTree(q, z)
        BY <1>6, <2>1, <3>1, SetCalcSame
      <3>3. QED
        BY <3>2 DEF SameTree
    <2>4. v = q \/ v = z
      BY <1>3, <2>1, Zenon
    <2>5. QED
      BY <2>2, <2>3, <2>4, <1>6, <1>7
  <1>10. /\ 1 \in 1 .. Len(stack) /\ Len(stack) \in Nat /\ Len(r) = Len(stack) - 1
         /\ \A i \in 1 .. Len(r) : i + 1 \in 1 .. Len(stack) /\ r[i] = stack[i + 1]
         /\ \A j \in 1 .. Len(stack) : j = 1 \/ (j - 1 \in 1 .. Len(r) /\ r[j - 1] = stack[j])
         /\ r = <<>> <=> Len(stack) = 1
    <2>1. /\ Len(stack) \in Nat /\ Len(stack) >= 1 /\ r \in Seq(Frame)
          /\ Len(r) = Len(stack) - 1
          /\ \A i \in 1 .. Len(stack) - 1 : r[i] = stack[i + 1]
      BY <1>4, <1>5, <1>6
    <2>2. ASSUME NEW j \in 1 .. Len(stack), j # 1
          PROVE  j - 1 \in 1 .. Len(r) /\ r[j - 1] = stack[j]
      <3>1. j - 1 \in 1 .. Len(stack) - 1 /\ (j - 1) + 1 = j
        BY <2>1, <2>2
      <3>2. QED
        BY <2>1, <3>1
    <2>3. r = <<>> <=> Len(stack) = 1
      BY <2>1
    <2>4. QED
      BY <2>1, <2>2, <2>3
  <1>11. AllSeen(world.t, g, visited) /\ g \in visited
    <2>1. g \in visited /\ Front(world.t, g, Null, visited)
      BY <1>2, <1>5, <1>8, <1>10 DEF SeenBut
    <2>2. world.t \in Links /\ Linked(world.t) /\ NoRing(world.t) /\ g \in Node
      BY <1>6, <1>8, <2>1 DEF SaneWorld, Sane
    <2>3. QED
      BY <2>1, <2>2, <1>8, FrontDone
  <1>12. ASSUME NEW h \in visited, IsGroupCalc(v.mCalcFunc[h])
         PROVE  OnStack(r, h) \/ AllSeen(v.t, h, visited)
    <2>1. CASE h = g
      BY <2>1, <1>9, <1>11
    <2>2. CASE h # g
      <3>1. h \in visited \ {Null} /\ v.mCalcFunc[h] = world.mCalcFunc[h]
        BY <1>8, <1>9, <2>2, RootAssumption
      <3>2. OnStack(stack, h) \/ AllSeen(world.t, h, visited)
        BY <1>8, <1>12, <3>1 DEF SeenBut
      <3>3. ASSUME NEW j \in 1 .. Len(stack), stack[j].group = h PROVE OnStack(r, h)
        <4>1. j # 1
          BY <1>2, <2>2, <3>3
        <4>2. j - 1 \in 1 .. Len(r) /\ r[j - 1] = stack[j]
          BY <1>10, <4>1
        <4>3. QED
          BY <3>3, <4>2 DEF OnStack
      <3>4. QED
        BY <3>2, <3>3, <1>9 DEF OnStack
    <2>3. QED
      BY <2>1, <2>2
  <1>13. Seen(v, r, visited)
    <2>1. ASSUME NEW i \in 1 .. Len(r)
          PROVE  r[i].group \in visited /\ Front(v.t, r[i].group, r[i].child, visited)
      <3>1. i + 1 \in 1 .. Len(stack) /\ r[i] = stack[i + 1]
        BY <1>10
      <3>2. QED
        BY <3>1, <1>8, <1>9 DEF SeenBut
    <2>2. \A x \in visited : v.t.mParent[x] \in visited \cup {Null}
      BY <1>8, <1>9 DEF SeenBut
    <2>3. QED
      BY <2>1, <2>2, <1>8, <1>12 DEF Seen, SeenBut
  <1>14. Seeing'
    <2>1. CASE r = <<>>
      <3>1. stack' = <<>> /\ visited' = {}
        BY <2>1, <1>5, <1>10
      <3>2. QED
        BY <3>1 DEF Seeing
    <2>2. CASE r # <<>>
      <3>1. stack' # <<>> /\ visited' = visited
        BY <2>2, <1>5, <1>10
      <3>2. Seen(world', stack', visited')
        BY <3>1, <1>5, <1>13
      <3>3. QED
        BY <3>1, <3>2 DEF Seeing
    <2>3. QED
      BY <2>1, <2>2
  <1>15. ASSUME r = <<>>, NEW n \in v.nodes, v.t.mParent[n] \in visited,
                IsGroupCalc(v.mCalcFunc[v.t.mParent[n]])
         PROVE  n \in visited
    <2>1. PICK h : h = v.t.mParent[n]
      OBVIOUS
    <2>2. OnStack(r, h) \/ AllSeen(v.t, h, visited)
      BY <1>12, <1>15, <2>1
    <2>3. ~OnStack(r, h)
      <3>1. Len(r) = 0
        BY <1>15
      <3>2. QED
        BY <3>1 DEF OnStack
    <2>4. n \in Node
      BY <1>9, WorldType
    <2>5. QED
      BY <2>1, <2>2, <2>3, <2>4 DEF AllSeen
  <1>16. QED
    BY <1>5, <1>14, <1>15

\* Commands are performed between blocks and leave the walk as it is.
LEMMA CommandRests ==
    ASSUME Create \/ Exchange \/ Reorder \/ Remove \/ Switch \/ Trace \/ Hide
    PROVE  stack = <<>> /\ stack' = stack /\ visited' = visited
  <1>0. /\ \A w : Done(w) => stack' = stack /\ visited' = visited
        /\ Crash => stack' = stack /\ visited' = visited
        /\ Between2Blocks => stack = <<>>
    BY DEF Done, Crash, Between2Blocks
  <1>1. CASE Create
    BY <1>0, <1>1, ZenonT(60) DEF Create, New, NewAgain
  <1>2. CASE Exchange
    <2>1. PICK n \in Node, target \in Node, id \in use.ids \cup {Hidden},
               isGroup \in BOOLEAN, removeID \in BOOLEAN :
             Replace(n, id, isGroup, removeID, target)
      BY <1>2, Zenon DEF Exchange
    <2>2. Between2Blocks /\ ((\E w : Done(w)) \/ Crash)
      BY <2>1, Zenon DEF Replace
    <2>3. QED
      BY <1>0, <2>2
  <1>3. CASE Reorder
    BY <1>0, <1>3, ZenonT(60) DEF Reorder, n_before, n_after, g_head, g_tail, n_order
  <1>4. CASE Remove
    BY <1>0, <1>4, Zenon DEF Remove, n_free, g_freeAll, g_deepFree
  <1>5. CASE Switch
    BY <1>0, <1>5, Zenon DEF Switch, n_run
  <1>6. CASE Trace
    BY <1>0, <1>6, Zenon DEF Trace, n_trace, g_dumpTree
  <1>7. CASE Hide
    BY <1>0, <1>7, Zenon DEF Hide, s_noid
  <1>8. QED
    BY <1>1, <1>2, <1>3, <1>4, <1>5, <1>6, <1>7

\* What WalkComplete asks of a step.
Complete ==
    /\ stack # <<>> /\ stack' = <<>> =>
          \A n \in world'.nodes :
             world'.t.mParent[n] \in visited
                /\ IsGroupCalc(world'.mCalcFunc[world'.t.mParent[n]]) => n \in visited
    /\ stack # <<>> /\ stack[1].child # Null => stack[1].child \notin visited

LEMMA StepSeen ==
    ASSUME Inv, Seeing, [Next]_vars
    PROVE  Seeing' /\ Complete
  <1>1. stack # <<>> => stack[1].child \notin visited
    <2> SUFFICES ASSUME stack # <<>> PROVE stack[1].child \notin visited
      OBVIOUS
    <2>1. stack \in Seq(Frame) /\ SeenBut(world, stack, visited, Null)
      BY DEF Inv, StateOK, Seeing, Seen
    <2>2. 1 \in 1 .. Len(stack)
      BY <2>1
    <2>3. QED
      BY <2>1, <2>2 DEF SeenBut, Front
  <1>2. CASE UNCHANGED vars
    <2>1. /\ world' = world /\ stack' = stack /\ visited' = visited
      BY <1>2 DEF vars
    <2>2. Seeing'
      BY <2>1 DEF Seeing
    <2>3. QED
      BY <1>1, <2>1, <2>2 DEF Complete
  <1>3. CASE Create \/ Exchange \/ Reorder \/ Remove \/ Switch \/ Trace \/ Hide
    <2>1. stack = <<>> /\ stack' = stack /\ visited' = visited
      BY <1>3, CommandRests
    <2>2. Seeing'
      BY <2>1 DEF Seeing
    <2>3. QED
      BY <2>1, <2>2 DEF Complete
  <1>4. CASE World_Run
    <2>1. stack = <<>>
      BY <1>4 DEF World_Run, Between2Blocks
    <2>2. QED
      BY <1>4, <2>1, RunSeen DEF Complete
  <1>5. CASE CallChild
    <2>1. stack' # <<>> /\ Seen(world', stack', visited')
      BY <1>5, CallChildSeen
    <2>2. Seeing'
      BY <2>1 DEF Seeing
    <2>3. QED
      BY <1>1, <2>1, <2>2 DEF Complete
  <1>6. CASE ReturnGroup
    BY <1>1, <1>6, ReturnSeen DEF Complete
  <1>7. QED
    BY <1>2, <1>3, <1>4, <1>5, <1>6, Zenon DEF Next, Block

(* However many nodes there are and whatever the done actions delete on    *)
(* the way, a block calls each node at most once, and when World_Run is    *)
(* done no child of a group it went through has been left out, of the      *)
(* nodes that are still there.                                             *)
THEOREM BlocksAreComplete == Spec => WalkComplete
  <1>1. Init => Seeing
    BY DEF Init, Seeing
  <1>2. Inv /\ Seeing /\ [Next]_vars => Seeing'
    BY StepSeen
  <1>3. Inv /\ Seeing /\ [Next]_vars => [Complete]_vars
    BY StepSeen
  <1>4. QED
    BY <1>1, <1>2, <1>3, Invariance, PTL DEF Spec, WalkComplete, Complete
=============================================================================
