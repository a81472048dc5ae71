----------------------------- MODULE NodeGraph -----------------------------
(***************************************************************************)
(* The node tree of supernova (group.hpp, node_graph.hpp, node_graph.cpp), *)
(* the commands that change it (sc_osc_handler.cpp, server.cpp), the done  *)
(* actions of synths (sc_plugin_interface.cpp) and the queue that the      *)
(* audio thread makes of the tree when it has changed (server.hpp).        *)
(*                                                                         *)
(* All of it is done by the audio thread, but for the synths' registering  *)
(* of done actions: the DSP threads do that while a block is computed, in  *)
(* any order.  A tick is: done actions, commands, the queue, the block.    *)
(*                                                                         *)
(* A node is a counted object.  The node set holds one reference, the      *)
(* parent one, and a queue one to each of its synths.  Clients name nodes  *)
(* that are in the tree, and never move a group into itself.               *)
(***************************************************************************)
EXTENDS DependencyGraph, Integers

CONSTANTS
    MaxCommands,  \* bound on the commands between two blocks
    DoneAction,   \* the done actions that synths have
    MaxDone,      \* bound on the done actions in one block
    Across        \* whether /n_before and /n_after name nodes of two groups

VARIABLES
    tree,         \* kind, parent, list, synths and groups; the node set; synth_count_
    dirty,        \* dsp_queue_dirty
    queue,        \* the queue of the DSP threads
    phase,        \* "commands", or "block" while a block is computed
    commands,     \* how many commands there were since the last block
    done,         \* the lists of sc_done_action_handler
    finished,     \* how many done actions there were in this block
    missing       \* nodes used after their deletion, or as if they had a parent
                  \* when they had none; nothing is known of what follows

vars == <<tree, dirty, queue, phase, commands, done, finished, missing>>

AllNodes == Node \cup {Root}
NothingDone == [done |-> <<>>, resume |-> <<>>, pause |-> <<>>, freeDeep |-> <<>>, freeAll |-> <<>>]

Init ==
    /\ tree = [kind |-> [n \in AllNodes |-> IF n = Root THEN "group" ELSE "none"],
               parent |-> [n \in AllNodes |-> None],
               list |-> [n \in AllNodes |-> <<>>],
               synths |-> [n \in AllNodes |-> 0],
               groups |-> [n \in AllNodes |-> 0],
               known |-> {Root},
               synthCount |-> 0]
    /\ dirty = FALSE /\ queue = EmptyQueue
    /\ phase = "commands" /\ commands = 0
    /\ done = NothingDone /\ finished = 0 /\ missing = {}

Held == UNION {SeqExt!ToSet(queue.items[i].job) : i \in DOMAIN queue.items}

\* Slip: the queue holds no references.
AliveUnheld(t, n) == n \in t.known \/ t.parent[n] # None

\* An object that nothing refers to is deleted.
Alive(t, n) == n \in t.known \/ t.parent[n] # None \/ n \in Held

Place(s, n) == CHOOSE i \in DOMAIN s : s[i] = n
Without(s, n) == SelectSeq(s, LAMBDA m : m # n)
-----------------------------------------------------------------------------
(* The tree. *)

Count(t, n, p, by) ==
    IF IsSynth(t, n) THEN [t EXCEPT !.synths[p] = @ + by] ELSE [t EXCEPT !.groups[p] = @ + by]

\* set_parent and clear_parent
SetParent(t, n, p) == Count([t EXCEPT !.parent[n] = p], n, p, 1)
ClearParent(t, n) == Count([t EXCEPT !.parent[n] = None], n, t.parent[n], -1)

\* remove_child
RemoveChild(t, n) == ClearParent([t EXCEPT !.list[t.parent[n]] = Without(@, n)], n)

\* add_child: n becomes the i-th child of p.  In a parallel group it is the
\* first, wherever it was to go.
AddChild(t, n, p, i) ==
    SetParent([t EXCEPT !.list[p] = SeqExt!InsertAt(@, IF t.kind[p] = "pgroup" THEN 1 ELSE i, n)], n, p)

\* apply_deep_on_children
RECURSIVE Deep(_, _)
Deep(t, p) == LET below == SeqExt!ToSet(t.list[p])
              IN  below \cup UNION {Deep(t, n) : n \in {n \in below : IsGroup(t, n)}}

InTree(t) == Deep(t, Root)

\* Slip: what was freed stays counted.
FreeAllUncounted(t, p) ==
    LET below == Deep(t, p)
        gone(f, x) == [n \in AllNodes |-> IF n \in below \cup {p} THEN x ELSE f[n]]
    IN  [t EXCEPT !.known = @ \ below, !.list = gone(@, <<>>),
                  !.kind = [n \in AllNodes |-> IF n \in below THEN "none" ELSE @[n]],
                  !.parent = [n \in AllNodes |-> IF n \in below THEN None ELSE @[n]]]

\* node_graph::group_free_all: everything below p gives up its ID, and the
\* destructors of groups remove their children.
FreeBelow(t, p) ==
    LET below == Deep(t, p)
        gone(f, x) == [n \in AllNodes |-> IF n \in below \cup {p} THEN x ELSE f[n]]
    IN  [t EXCEPT !.known = @ \ below, !.list = gone(@, <<>>),
                  !.kind = [n \in AllNodes |-> IF n \in below THEN "none" ELSE @[n]],
                  !.synths = gone(@, 0), !.groups = gone(@, 0),
                  !.parent = [n \in AllNodes |-> IF n \in below THEN None ELSE @[n]],
                  !.synthCount = @ - Cardinality({n \in below : IsSynth(t, n)})]

\* nova_server::free_node, remove_node
FreeNode(t, n) ==
    IF t.parent[n] = None THEN t
    ELSE LET u == RemoveChild(IF IsSynth(t, n) THEN t ELSE FreeBelow(t, n), n)
         IN  [u EXCEPT !.known = @ \ {n}, !.kind[n] = "none",
                       !.synthCount = IF IsSynth(t, n) THEN @ - 1 ELSE @]

FreeNodes(t, s) == SeqExt!FoldLeft(FreeNode, t, s)

\* nova_server::group_free_all and group_free_deep
GroupFreeAll(t, p) == FreeNodes(t, t.list[p])
GroupFreeDeep(t, p) == FreeNodes(t, SeqExt!SetToSeq({n \in Deep(t, p) : IsSynth(t, n)}))

\* The new node n: in the node set, and counted.
Registered(t, n, kind) ==
    [t EXCEPT !.kind[n] = kind, !.known = @ \cup {n},
              !.synthCount = IF kind = "synth" THEN @ + 1 ELSE @]

\* node_graph::add_node.  A node that is replaced leaves its group, but not
\* the node set, and what is below it is left alone.
AddNode(t, n, kind, action, target) ==
    LET u == Registered(t, n, kind)
        p == t.parent[target]
        at == Place(t.list[p], target)
    IN  CASE action = "head" -> AddChild(u, n, target, 1)
          [] action = "tail" -> AddChild(u, n, target, Len(t.list[target]) + 1)
          [] action = "before" -> AddChild(u, n, p, at)
          [] action = "after" -> AddChild(u, n, p, at + 1)
          [] action = "replace" ->
               LET v == RemoveChild(SetParent([u EXCEPT !.list[p] = SeqExt!InsertAt(@, at, n)], n, p),
                                    target)
               IN  IF IsSynth(t, target) THEN [v EXCEPT !.synthCount = @ - 1] ELSE v

\* move_to_head_or_tail
MoveToEnd(t, n, position, p) ==
    LET u == [t EXCEPT !.list[t.parent[n]] = Without(@, n)]
        at == IF position = "head" THEN 1 ELSE Len(u.list[p]) + 1
        v == [u EXCEPT !.list[p] = SeqExt!InsertAt(@, at, n)]
    IN  IF t.parent[n] = p THEN v ELSE SetParent(ClearParent(v, n), n, p)

\* move_before_or_after: the parent that n is to have is taken to be the one
\* that it has.
MoveNextTo(t, n, relation, target) ==
    LET p == t.parent[target]
        at == Place(Without(t.list[p], n), target)
        u == [t EXCEPT !.list[t.parent[n]] = Without(@, n)]
    IN  IF relation = "after" /\ SeqExt!Last(t.list[p]) = target
        THEN MoveToEnd(t, n, "tail", t.parent[n])
        ELSE [u EXCEPT !.list[p] =
                 SeqExt!InsertAt(@, IF relation = "before" THEN at ELSE at + 1, n)]
-----------------------------------------------------------------------------
(* The commands. *)

Command(t, changed) ==
    /\ phase = "commands" /\ commands < MaxCommands /\ missing = {}
    /\ commands' = commands + 1
    /\ tree' = t /\ dirty' = (dirty \/ changed)
    /\ UNCHANGED <<queue, phase, done, finished, missing>>

\* The places that a client may name: node_position_sanity_check.
Position ==
    ({"head", "tail"} \X {p \in InTree(tree) \cup {Root} : IsGroup(tree, p)})
    \cup ({"before", "after", "replace"} \X (InTree(tree) \cup {Root}))

\* A command about a place next to the root follows the parent of the root.
BesideRoot(at) == at[1] \notin {"head", "tail"} /\ at[2] = Root

NoParent ==
    /\ phase = "commands" /\ commands < MaxCommands /\ missing = {}
    /\ commands' = commands + 1 /\ missing' = {Root}
    /\ UNCHANGED <<tree, dirty, queue, phase, done, finished>>

\* /s_new; /g_new and /p_new, which add nothing to be run
SNew(n) == \E at \in Position :
    /\ n \notin tree.known
    /\ \/ BesideRoot(at) /\ NoParent
       \/ ~BesideRoot(at) /\ Command(AddNode(tree, n, "synth", at[1], at[2]), TRUE)

GNew(n) == \E at \in Position, kind \in {"group", "pgroup"} :
    /\ n \notin tree.known
    /\ \/ BesideRoot(at) /\ NoParent
       \/ ~BesideRoot(at) /\ Command(AddNode(tree, n, kind, at[1], at[2]), at[1] = "replace")

\* /n_free, /g_freeAll, /g_deepFree
NFree(n) == n \in InTree(tree) /\ Command(FreeNode(tree, n), TRUE)

GFreeAll(p) ==
    /\ p \in InTree(tree) \cup {Root} /\ IsGroup(tree, p) /\ tree.list[p] # <<>>
    /\ Command(GroupFreeAll(tree, p), TRUE)

GDeepFree(p) ==
    /\ p \in InTree(tree) \cup {Root} /\ IsGroup(tree, p) /\ Synths(tree, p) # {}
    /\ Command(GroupFreeDeep(tree, p), TRUE)

\* A node is not moved into itself.
Movable(n, p) == n \in InTree(tree) /\ p # n /\ (IsSynth(tree, n) \/ p \notin Deep(tree, n))

\* /n_before, /n_after
NBeforeOrAfter(n, target) == \E relation \in {"before", "after"} :
    /\ Movable(n, target)
    /\ \/ target = Root /\ NoParent
       \/ /\ target \in InTree(tree)
          /\ Across \/ tree.parent[n] = tree.parent[target]
          /\ Command(MoveNextTo(tree, n, relation, target), TRUE)

\* /g_head, /g_tail
GHeadOrTail(n, p) == \E position \in {"head", "tail"} :
    /\ p \in InTree(tree) \cup {Root} /\ IsGroup(tree, p) /\ Movable(n, p)
    /\ Command(MoveToEnd(tree, n, position, p), TRUE)

\* /n_order: the nodes are taken out and added again, one by one.
NOrder(nodes) == \E at \in Position :
    LET ordered(t, n) ==
            LET u == RemoveChild(t, n)
                p == u.parent[at[2]]
                i == Place(u.list[p], at[2])
            IN  CASE at[1] = "head" -> AddChild(u, n, at[2], 1)
                  [] at[1] = "tail" -> AddChild(u, n, at[2], Len(u.list[at[2]]) + 1)
                  [] at[1] = "before" -> AddChild(u, n, p, i)
                  [] at[1] = "after" -> AddChild(u, n, p, i + 1)
    IN  /\ at[1] # "replace" /\ \A i \in DOMAIN nodes : Movable(nodes[i], at[2])
        /\ \/ BesideRoot(at) /\ NoParent
           \/ ~BesideRoot(at) /\ Command(SeqExt!FoldLeft(ordered, tree, nodes), TRUE)
-----------------------------------------------------------------------------
(* The blocks. *)

\* The rest of nova_server::tick: the queue is made anew if need be, and the
\* threads are started.
ComputeBlock ==
    /\ phase = "commands" /\ missing = {}
    /\ queue' = IF dirty THEN GenerateQueue(tree) ELSE queue
    /\ dirty' = FALSE /\ phase' = "block" /\ commands' = 0
    /\ UNCHANGED <<tree, done, finished, missing>>

\* add_done_node, add_freeAll_node, add_freeDeep_node
AppendNew(s, n) == IF n \in SeqExt!ToSet(s) THEN s ELSE Append(s, n)

Siblings(n) == tree.list[tree.parent[n]]
Previous(n) == {Siblings(n)[i] : i \in {i \in DOMAIN Siblings(n) : i = Place(Siblings(n), n) - 1}}
Following(n) == {Siblings(n)[i] : i \in {i \in DOMAIN Siblings(n) : i = Place(Siblings(n), n) + 1}}
Preceding(n) == SeqExt!Reverse(SubSeq(Siblings(n), 1, Place(Siblings(n), n) - 1))

\* The node next to it that a done action is about; two that are to take the
\* following one take the preceding one, and so does freeSelfToTail.
Neighbour(n, action) ==
    IF tree.kind[tree.parent[n]] = "pgroup" THEN {}
    ELSE IF action \in {"freeSelfAndNext", "freeSelfPauseNext", "freeSelfResumeNext"} THEN Following(n)
    ELSE Previous(n)

\* The lists with the done action of n: done_action in the plug-in interface.
Register(d, n, action) ==
    LET self == [d EXCEPT !.done = AppendNew(@, n)]
        p == tree.parent[n]
        neighbour == Neighbour(n, action)
        m == CHOOSE m \in neighbour : TRUE
        free == [self EXCEPT !.done = AppendNew(@, m)]
    IN  CASE action = "pauseSelf" -> [d EXCEPT !.pause = Append(@, n)]
          [] action = "freeAllInGroup" -> [d EXCEPT !.freeAll = AppendNew(@, p)]
          [] action = "freeGroup" -> [d EXCEPT !.done = AppendNew(@, p)]
          [] action = "freeSelf" \/ neighbour = {} -> self
          [] action \in {"freeSelfAndPrev", "freeSelfAndNext"} -> free
          [] action \in {"freeSelfAndFreeAllInPrev", "freeSelfAndFreeAllInNext"} ->
               IF IsSynth(tree, m) THEN free ELSE [self EXCEPT !.freeAll = AppendNew(@, m)]
          [] action \in {"freeSelfAndDeepFreePrev", "freeSelfAndDeepFreeNext"} ->
               IF IsSynth(tree, m) THEN free ELSE [self EXCEPT !.freeDeep = AppendNew(@, m)]
          [] action \in {"freeSelfToHead", "freeSelfToTail"} ->
               [self EXCEPT !.done = SeqExt!FoldLeft(AppendNew, @, Preceding(n))]
          [] action \in {"freeSelfPausePrev", "freeSelfPauseNext"} -> [self EXCEPT !.pause = Append(@, m)]
          [] action = "freeSelfResumeNext" -> [self EXCEPT !.resume = Append(@, m)]

\* A unit of the synth n is done; others of the same synth may be so too.
Finish(n, action) ==
    /\ phase = "block" /\ n \in Held /\ finished < MaxDone
    /\ finished' = finished + 1
    /\ done' = Register(done, n, action)
    /\ UNCHANGED <<tree, dirty, queue, phase, commands, missing>>

\* apply_done_actions: the lists one after the other, each node in turn; a
\* node that was deleted is used nevertheless, and /n_on and /n_off are sent
\* of a node that has no parent any more.
ApplyDoneActions(t) ==
    LET used(x, n, ok) == IF ok THEN x.missing ELSE x.missing \cup {n}
        freed(x, n) == [t |-> FreeNode(x.t, n), missing |-> used(x, n, Alive(x.t, n))]
        told(x, n) == [x EXCEPT !.missing = used(x, n, Alive(x.t, n) /\ x.t.parent[n] # None)]
        deep(x, n) == [t |-> GroupFreeDeep(x.t, n), missing |-> used(x, n, n = Root \/ Alive(x.t, n))]
        all(x, n) == [t |-> GroupFreeAll(x.t, n), missing |-> used(x, n, n = Root \/ Alive(x.t, n))]
        x1 == SeqExt!FoldLeft(freed, [t |-> t, missing |-> {}], done.done)
        x2 == SeqExt!FoldLeft(told, x1, done.resume \o done.pause)
    IN  SeqExt!FoldLeft(all, SeqExt!FoldLeft(deep, x2, done.freeDeep), done.freeAll)

NextTick ==
    /\ phase = "block" /\ phase' = "commands"
    /\ LET x == ApplyDoneActions(tree)
       IN  tree' = x.t /\ missing' = x.missing /\ dirty' = (dirty \/ x.t # tree)
    /\ done' = NothingDone /\ finished' = 0
    /\ UNCHANGED <<queue, commands>>

Next ==
    \/ \E n \in Node :
          \/ SNew(n) \/ GNew(n) \/ NFree(n)
          \/ \E m \in AllNodes : GHeadOrTail(n, m)
          \/ \E m \in AllNodes : NBeforeOrAfter(n, m)
          \/ \E m \in Node \ {n} : NOrder(<<n, m>>)
          \/ \E action \in DoneAction : Finish(n, action)
    \/ \E p \in AllNodes : GFreeAll(p) \/ GDeepFree(p)
    \/ ComputeBlock \/ NextTick

Spec == Init /\ [][Next]_vars
-----------------------------------------------------------------------------
\* A group is the parent of exactly the nodes of its list, and its counters
\* are right: child_count asserts it, and the queue is made by it.  The
\* queue has room for every synth.
Placed ==
    /\ \A p \in InTree(tree) \cup {Root} : IsGroup(tree, p) =>
          /\ SeqExt!ToSet(tree.list[p]) = {n \in Node : tree.parent[n] = p}
          /\ Len(tree.list[p]) = Cardinality(SeqExt!ToSet(tree.list[p]))
          /\ tree.synths[p] = Cardinality({n \in Node : IsSynth(tree, n) /\ tree.parent[n] = p})
          /\ tree.groups[p] = Cardinality({n \in Node : IsGroup(tree, n) /\ tree.parent[n] = p})
    /\ Cardinality(Synths(tree, Root)) <= tree.synthCount

\* When the queue is not to be made anew, it runs every synth of the tree
\* once and in the tree's order.
TailsCounted == ~dirty => SoundQueue(tree, queue)

\* The same, but for trees with a group in which there are groups and no synth.
QueueSound ==
    (\A p \in InTree(tree) : IsGroup(tree, p) /\ tree.list[p] # <<>> => Synths(tree, p) # {})
    => TailsCounted

\* What apply_done_actions frees with the nodes of a list, each with all below it.
Freed(s) == SeqExt!ToSet(s) \cup UNION {Deep(tree, n) : n \in SeqExt!ToSet(s)}
Inside(s) == {n \in SeqExt!ToSet(s) : IsGroup(tree, n) /\ \E p \in SeqExt!ToSet(s) : n \in Deep(tree, p)}

\* The nodes that done actions of this block contend for: to be paused, resumed
\* or emptied, and freed as well; or to be freed or emptied with a group above.
Contested ==
    {n \in SeqExt!ToSet(done.resume \o done.pause \o done.freeDeep \o done.freeAll) : n \in Freed(done.done)}
    \cup Inside(done.done) \cup Inside(done.freeAll)

\* Whatever done actions come up in a block, and in whatever order, only
\* contested nodes are used after their deletion or without a parent; a synth
\* that several actions free never is ("has already been freed by a different
\* event", nova_server::free_node): the queue still has its reference.
\* Commands use no such node, but the root's parent.
OnlyContested ==
    [][missing' \subseteq IF phase = "block" THEN Contested ELSE {Root}]_vars
=============================================================================
