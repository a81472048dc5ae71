-------------------------- MODULE DependencyGraph --------------------------
(***************************************************************************)
(* The queue that supernova's DSP threads work on, made of the node tree   *)
(* (dependency_graph_generator.hpp; has_synth_children and tail_nodes in   *)
(* group.hpp and node_graph.cpp).                                          *)
(*                                                                         *)
(* The synths of a group run one after the other, the children of a        *)
(* parallel group at the same time.  An item of the queue is a run of      *)
(* synths; it has the items to be told when it has run, and the number of  *)
(* items that will tell it so.  The tree is gone through backwards, so the *)
(* successors of an item are known when it is made; the number of its      *)
(* predecessors is counted ahead, by tail_nodes.                           *)
(*                                                                         *)
(* A tree here is a record: kind, parent and the child list of every node, *)
(* and the counters child_synth_count and child_group_count.               *)
(***************************************************************************)
EXTENDS Naturals, Sequences, FiniteSets

SeqExt == INSTANCE SequencesExt
Sets == INSTANCE FiniteSetsExt

CONSTANTS Node,  \* the nodes but for the root
          Root, None

IsSynth(tree, n) == tree.kind[n] = "synth"
IsGroup(tree, n) == tree.kind[n] \in {"group", "pgroup"}

\* child_groups: the list register_as_child and unregister_as_child keep.
ChildGroups(tree, p) == {n \in Node : IsGroup(tree, n) /\ tree.parent[n] = p}

RECURSIVE HasSynthChildren(_, _)
HasSynthChildren(tree, p) ==
    \/ tree.synths[p] # 0
    \/ \E q \in ChildGroups(tree, p) : HasSynthChildren(tree, q)

\* Slip: a group that ends with a parallel group has one tail node.
OneTail(tree, p) == IF HasSynthChildren(tree, p) THEN 1 ELSE 0

\* tail_nodes: of a group, those of the last child that is not an empty group.
RECURSIVE TailNodes(_, _)
TailNodes(tree, p) ==
    IF tree.kind[p] = "pgroup"
    THEN tree.synths[p]
         + Sets!FoldSet(LAMBDA q, n : n + TailNodes(tree, q), 0, ChildGroups(tree, p))
    ELSE LET list == tree.list[p]
             last == {i \in DOMAIN list : IsSynth(tree, list[i]) \/ tree.list[list[i]] # <<>>}
             tail == list[Sets!Max(last)]
         IN  IF last = {} THEN 0
             ELSE IF IsSynth(tree, tail) THEN 1 ELSE TailNodes(tree, tail)

\* get_previous_activation_count for the child at i.
PreviousActivationCount(tree, list, i, limit) ==
    LET before == {j \in 1 .. i - 1 : IsSynth(tree, list[j]) \/ TailNodes(tree, list[j]) # 0}
        prev == list[Sets!Max(before)]
    IN  IF before = {} THEN limit
        ELSE IF IsSynth(tree, prev) THEN 1 ELSE TailNodes(tree, prev)

\* allocate_queue_item, and add_initially_runnable for one without predecessors.
AddItem(q, job, succ, limit) ==
    [items |-> Append(q.items, [job |-> job, succ |-> succ, limit |-> limit]),
     initial |-> IF limit = 0 THEN Append(q.initial, Len(q.items) + 1) ELSE q.initial]

RECURSIVE FillGroup(_, _, _, _, _, _), Fill(_, _, _, _, _)

\* The loop of fill_queue_recursive(group&) from the child at i backwards.
\* The synths at first .. i are one item.
FillGroup(tree, p, i, succ, limit, q) ==
    LET list == tree.list[p]
        first == CHOOSE j \in 1 .. i : /\ \A k \in j .. i : IsSynth(tree, list[k])
                                       /\ j = 1 \/ ~IsSynth(tree, list[j - 1])
        before(j) == PreviousActivationCount(tree, list, j, limit)
    IN  IF i = 0 THEN [q |-> q, succ |-> succ]
        ELSE IF IsSynth(tree, list[i])
        THEN FillGroup(tree, p, first - 1, <<Len(q.items) + 1>>, limit,
                       AddItem(q, SubSeq(list, first, i), succ, before(first)))
        ELSE IF HasSynthChildren(tree, list[i])
        THEN LET sub == Fill(tree, list[i], succ, before(i), q)
             IN  FillGroup(tree, p, i - 1, sub.succ, limit, sub.q)
        ELSE FillGroup(tree, p, i - 1, succ, limit, q)

\* fill_queue_recursive: the queue with the items of p added, and the items
\* that whatever comes before p has to tell.
Fill(tree, p, succ, limit, q) ==
    IF tree.kind[p] = "group" THEN FillGroup(tree, p, Len(tree.list[p]), succ, limit, q)
    ELSE SeqExt!FoldLeft(
           LAMBDA acc, n :
             IF IsSynth(tree, n)
             THEN [q |-> AddItem(acc.q, <<n>>, succ, limit),
                   succ |-> Append(acc.succ, Len(acc.q.items) + 1)]
             ELSE IF HasSynthChildren(tree, n)
             THEN LET sub == Fill(tree, n, succ, limit, acc.q)
                  IN  [q |-> sub.q, succ |-> acc.succ \o sub.succ]
             ELSE acc,
           [q |-> q, succ |-> <<>>], tree.list[p])

RECURSIVE HasParallelGroupChildren(_, _)
HasParallelGroupChildren(tree, p) ==
    \/ tree.kind[p] = "pgroup"
    \/ \E q \in ChildGroups(tree, p) : HasParallelGroupChildren(tree, q)

EmptyQueue == [items |-> <<>>, initial |-> <<>>]

\* fill_queue
GenerateQueue(tree) ==
    IF HasSynthChildren(tree, Root) THEN Fill(tree, Root, <<>>, 0, EmptyQueue).q
    ELSE EmptyQueue
-----------------------------------------------------------------------------
(* What the queue is to do. *)

RECURSIVE Synths(_, _)
\* The synths under p, or p itself.
Synths(tree, p) == IF IsSynth(tree, p) THEN {p}
                   ELSE UNION {Synths(tree, n) : n \in SeqExt!ToSet(tree.list[p])}

RECURSIVE Groups(_, _)
Groups(tree, p) == IF IsSynth(tree, p) THEN {}
                   ELSE {p} \cup UNION {Groups(tree, n) : n \in SeqExt!ToSet(tree.list[p])}

InTurn(s) == {x \in (DOMAIN s) \X (DOMAIN s) : x[1] < x[2]}

\* The pairs of synths that a group has run one after the other.
Ordered(tree) ==
    UNION {UNION {Synths(tree, tree.list[p][i]) \X Synths(tree, tree.list[p][j])
                  : <<i, j>> \in InTurn(tree.list[p])}
           : p \in {p \in Groups(tree, Root) : tree.kind[p] = "group"}}

RECURSIVE After(_, _)
\* The items that wait for the item i, at last.
After(q, i) == LET next == SeqExt!ToSet(q.items[i].succ)
               IN  next \cup UNION {After(q, j) : j \in next}

\* The pairs of synths that the queue runs one after the other.
Follows(q) ==
    UNION {{<<q.items[i].job[j], q.items[i].job[k]>> : <<j, k>> \in InTurn(q.items[i].job)}
           \cup UNION {SeqExt!ToSet(q.items[i].job) \X SeqExt!ToSet(q.items[j].job) : j \in After(q, i)}
           : i \in DOMAIN q.items}

\* How often the item i is told that one of its predecessors has run.
Told(q, i) == Cardinality({<<j, k>> \in (DOMAIN q.items) \X (1 .. Cardinality(Node)) :
                              k \in DOMAIN q.items[j].succ /\ q.items[j].succ[k] = i})

\* Every synth of the tree is run once; in the order that the tree gives, and
\* in no other; items wait for as many as tell them.
SoundQueue(tree, q) ==
    /\ \A n \in Synths(tree, Root) :
          Cardinality({<<i, j>> \in (DOMAIN q.items) \X (1 .. Cardinality(Node)) :
                          j \in DOMAIN q.items[i].job /\ q.items[i].job[j] = n}) = 1
    /\ \A i \in DOMAIN q.items : SeqExt!ToSet(q.items[i].job) \subseteq Synths(tree, Root)
    /\ Follows(q) = Ordered(tree)
    /\ \A i \in DOMAIN q.items : q.items[i].limit = Told(q, i)
    /\ {i \in DOMAIN q.items : q.items[i].limit = 0} = SeqExt!ToSet(q.initial)
    /\ \A i, j \in DOMAIN q.initial : q.initial[i] = q.initial[j] => i = j
=============================================================================
