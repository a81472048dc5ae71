------------------------------ MODULE NodeTree ------------------------------
(***************************************************************************)
(* scsynth's node tree as the audio thread sees it: the OSC commands that  *)
(* create, move, pause and free nodes (SC_MiscCmds.cpp), each performed    *)
(* between two blocks, and World_Run, which walks the tree once per block, *)
(* calling mCalcFunc of each node while the synths' done actions pause,    *)
(* end and delete nodes around the walk (SC_Node.cpp, SC_Group.cpp,        *)
(* SC_Graph.cpp).                                                          *)
(***************************************************************************)
EXTENDS NodeLinks, Sequences, FiniteSets

CONSTANTS ID,           \* the IDs clients give to nodes
          Hidden,       \* a negative ID, made by the server; see below
          Uses          \* the ways in which the server is used, see Use

Use == [commands : SUBSET {"create", "replace", "reorder", "remove", "run", "trace",
                           "noid", "block"},
                                  \* the kinds of commands that are sent; "block":
                                  \* and blocks computed between them
        addActions : SUBSET (0 .. 3),
                                  \* those clients use (4 is a kind of command)
        doneActions : SUBSET Seq(1 .. 15),
                                  \* those that the units of a synth take, one after
                                  \* the other, when it is constructed or computed
        ids : SUBSET ID,
        careful : BOOLEAN,        \* clients keep the tree a tree
        mRealTime : BOOLEAN,      \* nodes send notifications
        maxNodes : Nat]           \* how many nodes mNodeLib takes

ASSUME ConstAssumption ==
    /\ Hidden \notin ID /\ 0 \notin ID
    /\ Uses \subseteq Use
    /\ IsFiniteSet(Node)

VARIABLES use,          \* how the server is used, the same all the time
          world,        \* the nodes, a record with the fields of World below
          stack,        \* the calls of Group_Calc under way, innermost first
          visited,      \* the nodes that this block has called
          crashed,      \* the process has overflowed its stack or followed
                        \* a null pointer
          client        \* what a client makes of the notifications: the IDs it
                        \* knows, and those whose last notification was lost

vars == <<use, world, stack, visited, crashed, client>>

CalcFunc == {"Group_Calc", "Group_CalcTrace", "Group_CalcDumpTree",
             "Graph_FirstCalc", "Graph_NullFirstCalc", "Graph_Calc",
             "Graph_CalcTrace", "Node_NullCalc", "Node_Delete"}

World ==
    [t : Links,
     nodes : SUBSET Node,                       \* the allocated ones, mNodeLib
     mIsGroup : [Node -> BOOLEAN],
     mID : [Node -> ID \cup {0, Hidden}],
     mCalcFunc : [Node -> CalcFunc],
     built : [Node -> BOOLEAN],                 \* the unit constructors have run
     unbuiltDtor : BOOLEAN,                     \* destructors ran without them
     notes : SUBSET ({"go", "end", "on", "off", "move"} \X (ID \cup {0}))]
                                                \* written to mNodeEnds by the
                                                \* last action, see Notify

Init ==
    /\ use \in Uses
    /\ world = [t |-> NoLinks, nodes |-> {Root},
                mIsGroup |-> [n \in Node |-> n = Root],
                mID |-> [n \in Node |-> IF n = Root THEN 0 ELSE Hidden],
                mCalcFunc |-> [n \in Node |-> "Group_Calc"],
                built |-> [n \in Node |-> FALSE],
                unbuiltDtor |-> FALSE, notes |-> {}]
    /\ stack = <<>> /\ visited = {} /\ crashed = FALSE
    /\ client = [known |-> {}, unsure |-> {}]

Quiet(w) == [w EXCEPT !.notes = {}]

\* Node_StateMsg: nothing is sent about nodes with a negative ID.
Node_StateMsg(w, n, state) ==
    IF w.mID[n] = Hidden \/ ~use.mRealTime THEN w
    ELSE [w EXCEPT !.notes = @ \cup {<<state, w.mID[n]>>}]

\* mNodeEnds.Write, whose result Node_StateMsg drops: mNodeEnds takes 1023
\* messages, and the NRT thread empties it when it runs, so that any of them may
\* find it full and be lost.  The client hears of the others, in their order.
About(S) == {note[2] : note \in S}
News(w) == {note \in w.notes : note[1] \in {"go", "end"} /\ note[2] \in ID}
Going(S) == {note \in S : note[1] = "go"}
Ending(S) == {note \in S : note[1] = "end"}

Notify == \E heard \in SUBSET News(world') :
    client' = [known |-> (client.known \ About(Ending(heard))) \cup About(Going(heard)),
               unsure |-> (client.unsure \ About(heard)) \cup About(News(world') \ heard)]

StrictlyBelow(w, g) == Below(w.t, g)

-----------------------------------------------------------------------------
(* Deleting.  On a tree the recursion of Node_Delete, Group_Dtor and       *)
(* Group_DeleteAll frees a node and all below it.  On a group that is      *)
(* below itself it does not end.                                           *)

Recursion(w, g) == g \in StrictlyBelow(w, g)

\* The test of Graph_Dtor for running the units' destructors.
DtorsRun(w, n) == w.mCalcFunc[n] # "Graph_FirstCalc"

\* A slip: the nodes go without a notification.
DiscardSilently(w, D) ==
    [w EXCEPT !.nodes = @ \ D,
              !.mIsGroup = [n \in Node |-> n \notin D /\ w.mIsGroup[n]],
              !.mID = [n \in Node |-> IF n \in D THEN Hidden ELSE w.mID[n]],
              !.mCalcFunc = [n \in Node |-> IF n \in D THEN "Group_Calc"
                                            ELSE w.mCalcFunc[n]],
              !.built = [n \in Node |-> n \notin D /\ w.built[n]]]

\* What the destructors of the nodes in D do: Node_Dtor, Group_Dtor, Graph_Dtor.
Discard(w, D) ==
    [w EXCEPT !.nodes = @ \ D,
              !.mIsGroup = [n \in Node |-> n \notin D /\ w.mIsGroup[n]],
              !.mID = [n \in Node |-> IF n \in D THEN Hidden ELSE w.mID[n]],
              !.mCalcFunc = [n \in Node |-> IF n \in D THEN "Group_Calc"
                                            ELSE w.mCalcFunc[n]],
              !.built = [n \in Node |-> n \notin D /\ w.built[n]],
              !.unbuiltDtor = @ \/ \E n \in D : /\ ~w.mIsGroup[n] /\ ~w.built[n]
                                                /\ DtorsRun(w, n),
              !.notes = @ \cup {<<"end", w.mID[n]>> :
                                 n \in {m \in D : use.mRealTime /\ w.mID[m] # Hidden}}]

\* A slip: the group's children stay where they are.
Node_DeleteOnly(w, n) ==
    IF n = Root THEN w
    ELSE [Discard(w, {n}) EXCEPT !.t = Clear(Node_Remove(w.t, n), {n})]

Node_Delete(w, n) ==
    LET D == {n} \cup StrictlyBelow(w, n)
    IN IF n = Root THEN w
       ELSE [Discard(w, D) EXCEPT !.t = Clear(Node_Remove(w.t, n), D)]

Group_DeleteAll(w, g) ==
    LET D == StrictlyBelow(w, g)
    IN [Discard(w, D) EXCEPT !.t = [Clear(w.t, D) EXCEPT !.mHead[g] = Null,
                                                         !.mTail[g] = Null]]

\* Unlink the nodes of S, one after the other.
RemoveAll(t, S) ==
    LET rest[D \in SUBSET S] ==
            IF D = {} THEN t
            ELSE LET n == CHOOSE x \in D : TRUE
                 IN Node_Remove(rest[D \ {n}], n)
    IN rest[S]

Group_DeepFreeGraphs(w, g) ==
    LET D == {n \in StrictlyBelow(w, g) : ~w.mIsGroup[n]}
    IN [Discard(w, D) EXCEPT !.t = Clear(RemoveAll(w.t, D), D)]

-----------------------------------------------------------------------------
(* Pausing, resuming, ending, tracing.                                     *)

Node_SetRun(w, n, run) ==
    LET f == w.mCalcFunc[n]
        on == [w EXCEPT !.mCalcFunc[n] =
                  IF w.mIsGroup[n] THEN "Group_Calc" ELSE "Graph_Calc"]
        off == [w EXCEPT !.mCalcFunc[n] =
                  IF f = "Graph_FirstCalc" THEN "Graph_NullFirstCalc"
                  ELSE "Node_NullCalc"]
    IN IF run /\ f = "Node_NullCalc" THEN Node_StateMsg(on, n, "on")
       ELSE IF ~run /\ f # "Node_NullCalc" THEN Node_StateMsg(off, n, "off")
       ELSE w

Node_End(w, n) == [w EXCEPT !.mCalcFunc[n] = "Node_Delete"]

EndAll(w, S) ==
    [w EXCEPT !.mCalcFunc = [n \in Node |-> IF n \in S THEN "Node_Delete"
                                            ELSE w.mCalcFunc[n]]]

Node_Trace(w, n) ==
    CASE w.mCalcFunc[n] = "Group_Calc" -> [w EXCEPT !.mCalcFunc[n] = "Group_CalcTrace"]
      [] w.mCalcFunc[n] = "Graph_Calc" -> [w EXCEPT !.mCalcFunc[n] = "Graph_CalcTrace"]
      [] OTHER -> w

\* Group_DumpTree and Group_DumpTreeAndControls, which differ in what they post.
Group_DumpTree(w, g) ==
    IF w.mCalcFunc[g] = "Group_Calc"
    THEN [w EXCEPT !.mCalcFunc[g] = "Group_CalcDumpTree"] ELSE w

\* The nodes before (after) n in its group, n included.
Upto(w, n, f) ==
    LET upto[k \in Nat] ==
            IF k = 0 THEN {n}
            ELSE upto[k - 1] \cup ({f[m] : m \in upto[k - 1]} \ {Null})
    IN upto[Cardinality(Node)]

\* What Unit_DoneAction does to the neighbour m of the node that is done.
FreeGroup(w, m) == IF w.mIsGroup[m] THEN Group_DeleteAll(w, m) ELSE Node_End(w, m)
DeepFree(w, m) == IF w.mIsGroup[m] THEN Group_DeepFreeGraphs(w, m) ELSE Node_End(w, m)

\* A slip: the siblings are deleted at once instead of at their next call.
Unit_DoneActionNow(w, n, action) ==
    LET m == w.t.mNext[n] IN IF m = Null THEN w ELSE Node_Delete(w, m)

Unit_DoneAction(w, n, action) ==
    LET prev == w.t.mPrev[n]
        next == w.t.mNext[n]
        ended == Node_End(w, n)
    IN CASE action = 1 -> Node_SetRun(w, n, FALSE)
         [] action = 2 -> ended
         [] action = 3 -> IF prev = Null THEN ended ELSE Node_End(ended, prev)
         [] action = 4 -> IF next = Null THEN ended ELSE Node_End(ended, next)
         [] action = 5 -> IF prev = Null THEN ended ELSE FreeGroup(ended, prev)
         [] action = 6 -> IF next = Null THEN ended ELSE FreeGroup(ended, next)
         [] action = 7 -> EndAll(w, Upto(w, n, w.t.mPrev))
         [] action = 8 -> EndAll(w, Upto(w, n, w.t.mNext))
         [] action = 9 -> IF prev = Null THEN ended ELSE Node_SetRun(ended, prev, FALSE)
         [] action = 10 -> IF next = Null THEN ended ELSE Node_SetRun(ended, next, FALSE)
         [] action = 11 -> IF prev = Null THEN ended ELSE DeepFree(ended, prev)
         [] action = 12 -> IF next = Null THEN ended ELSE DeepFree(ended, next)
         [] action = 13 -> EndAll(w, Children(w.t, {w.t.mParent[n]}))
         [] action = 14 -> Node_End(w, w.t.mParent[n])
         [] action = 15 -> IF next = Null THEN ended ELSE Node_SetRun(ended, next, TRUE)

\* The done actions of the units of the synth n, one after the other.
DoneActions(w, n, actions) ==
    LET after[i \in 0 .. Len(actions)] ==
            IF i = 0 THEN w ELSE Unit_DoneAction(after[i - 1], n, actions[i])
    IN after[Len(actions)]

-----------------------------------------------------------------------------
(* World_Run.  A frame of the stack is a call of Group_Calc, of            *)
(* Group_CalcTrace or of Group_CalcDumpTree: the group, the child it will  *)
(* call next (its local variable next) and the function.                   *)

IsGroupCalc(f) == f \in {"Group_Calc", "Group_CalcTrace", "Group_CalcDumpTree"}

\* A slip: the walk starts at the wrong end.
EnterAtTail(w, n, calls) ==
    stack' = <<[group |-> n, child |-> w.t.mTail[n], func |-> w.mCalcFunc[n]]>> \o calls

Enter(w, n, calls) ==
    stack' = <<[group |-> n, child |-> w.t.mHead[n], func |-> w.mCalcFunc[n]]>> \o calls

\* Graph_FirstCalc, Graph_NullFirstCalc, Graph_Calc and Graph_CalcTrace, with
\* the done actions of the constructors and those of the calculation.
RunGraph(w, n, first, actions) ==
    LET f == w.mCalcFunc[n]
        ctor == [DoneActions(w, n, first) EXCEPT !.built[n] = TRUE]
    IN CASE f = "Graph_FirstCalc" ->
              DoneActions([ctor EXCEPT !.mCalcFunc[n] = "Graph_Calc"], n, actions)
         [] f = "Graph_NullFirstCalc" -> [ctor EXCEPT !.mCalcFunc[n] = "Node_NullCalc"]
         [] f = "Graph_Calc" -> DoneActions(w, n, actions)
         [] f = "Graph_CalcTrace" ->
              [DoneActions(w, n, actions) EXCEPT !.mCalcFunc[n] = "Graph_Calc"]

\* The call (*node->mCalcFunc)(node) of node n, from the calls under way.
Call(w, n, calls) ==
    LET f == w.mCalcFunc[n]
    IN /\ \/ /\ IsGroupCalc(f)
             /\ world' = w
             /\ Enter(w, n, calls)
          \/ /\ f = "Node_NullCalc"
             /\ world' = w /\ stack' = calls
          \/ /\ f = "Node_Delete"
             /\ world' = Node_Delete(w, n) /\ stack' = calls
          \/ /\ f \in {"Graph_FirstCalc", "Graph_NullFirstCalc"}
             /\ \E first, actions \in use.doneActions : world' = RunGraph(w, n, first, actions)
             /\ stack' = calls
          \/ /\ f \in {"Graph_Calc", "Graph_CalcTrace"}
             /\ \E actions \in use.doneActions : world' = RunGraph(w, n, <<>>, actions)
             /\ stack' = calls
       /\ visited' = IF stack' = <<>> THEN {} ELSE visited \cup {n}
       /\ UNCHANGED crashed

Between2Blocks == stack = <<>> /\ ~crashed

World_Run == Between2Blocks /\ Call(Quiet(world), Root, <<>>)

\* One turn of the loop of the innermost group.
CallChild ==
    /\ stack # <<>> /\ stack[1].child # Null
    /\ LET child == stack[1].child
           w == Quiet(world)
       IN Call(IF stack[1].func = "Group_CalcDumpTree" /\ w.mIsGroup[child]
               THEN Group_DumpTree(w, child) ELSE w,
               child,
               <<[stack[1] EXCEPT !.child = world.t.mNext[child]]>> \o Tail(stack))

\* The innermost group has called all its children.
ReturnGroup ==
    /\ stack # <<>> /\ stack[1].child = Null
    /\ world' = IF stack[1].func = "Group_Calc" THEN Quiet(world)
                ELSE [Quiet(world) EXCEPT !.mCalcFunc[stack[1].group] = "Group_Calc"]
    /\ stack' = Tail(stack)
    /\ visited' = IF Len(stack) = 1 THEN {} ELSE visited
    /\ UNCHANGED crashed

-----------------------------------------------------------------------------
(* The commands.  Each finds its nodes among the allocated ones, by ID or  *)
(* by a path from one (Msg_GetNode); a command that finds none, or has     *)
(* some other argument wrong, changes nothing and is not an action here.   *)
(* Commands that take a list do the same thing for one element after the   *)
(* other, which is as many actions here; /n_order is the exception.        *)

\* A command that leaves the nodes as w.
Done(w) ==
    /\ world' = w
    /\ UNCHANGED <<stack, visited, crashed>>

Crash ==
    /\ crashed' = TRUE
    /\ UNCHANGED <<world, stack, visited>>

Free(id) == id = Hidden \/ \A n \in world.nodes : world.mID[n] # id

NoRoom == Cardinality(world.nodes) >= use.maxNodes

\* What clients that keep the tree a tree do not ask for: moving a node next
\* to or into itself or what is below it, or next to the root.
Movable(w, n, target) ==
    use.careful => target \notin {n} \cup StrictlyBelow(w, n)
Beside(target) == use.careful => target # Root

Node_New(w, n, id, isGroup) ==
    [w EXCEPT !.nodes = @ \cup {n}, !.mIsGroup[n] = isGroup, !.mID[n] = id,
              !.mCalcFunc[n] = IF isGroup THEN "Group_Calc" ELSE "Graph_FirstCalc"]

\* Where the add action puts node s: at the head or tail of the group target,
\* before or after the node target.
Place(t, s, addAction, target) ==
    CASE addAction = 0 -> Group_AddHead(t, target, s)
      [] addAction = 1 -> Group_AddTail(t, target, s)
      [] addAction = 2 -> Node_AddBefore(t, s, target)
      [] addAction = 3 -> Node_AddAfter(t, s, target)

Target(addAction, target) ==
    /\ target \in world.nodes
    /\ addAction \in {0, 1} => world.mIsGroup[target]
    /\ addAction \in {2, 3} => Beside(target)

\* /s_new, /s_newargs and /g_new with the add actions 0 to 3.
New(n, id, isGroup, addAction, target) ==
    /\ Between2Blocks
    /\ n \notin world.nodes /\ ~NoRoom /\ Free(id)
    /\ Target(addAction, target)
    /\ LET w == Node_New(Quiet(world), n, id, isGroup)
       IN Done(Node_StateMsg([w EXCEPT !.t = Place(w.t, n, addAction, target)], n, "go"))

\* Node_RemoveID: the node goes on under a negative ID.
Node_RemoveID(w, n) == IF n = Root THEN w ELSE [w EXCEPT !.mID[n] = Hidden]

Node_Replace(w, s, replaceThisOne) ==
    IF w.t.mParent[replaceThisOne] = Null THEN w
    ELSE LET u == [w EXCEPT !.t = Node_TakePlace(w.t, s, replaceThisOne)]
         IN Node_Delete(u, replaceThisOne)

\* The add action 4: /s_new and /g_new take the ID away from the node to be
\* replaced before they make the new one, and leave it so if they cannot.
\* /s_newargs does not.  /g_new refuses to replace the root.
Replace(n, id, isGroup, removeID, target) ==
    /\ Between2Blocks
    /\ target \in world.nodes /\ Beside(target)
    /\ isGroup => removeID /\ target # Root
    /\ LET w == IF removeID THEN Node_RemoveID(Quiet(world), target) ELSE Quiet(world)
           made == Node_New(w, n, id, isGroup)
           taken == id # Hidden /\ \E m \in w.nodes : w.mID[m] = id
       IN \/ /\ taken \/ NoRoom
             /\ Done(w)
          \/ /\ ~taken /\ ~NoRoom /\ n \notin w.nodes
             /\ \/ /\ Recursion(made, target) /\ target # Root
                   /\ w.t.mParent[target] # Null
                   /\ Crash
                \/ /\ ~Recursion(made, target) \/ target = Root
                      \/ w.t.mParent[target] = Null
                   /\ Done(Node_StateMsg(Node_Replace(made, n, target), n, "go"))

\* /g_new with the ID of a group that is already where it should go: it is
\* only announced again.  Where it should go is found through target's parent.
NewAgain(n, addAction, target) ==
    /\ Between2Blocks
    /\ n \in world.nodes /\ world.mIsGroup[n] /\ world.mID[n] # Hidden
    /\ Target(addAction, target)
    /\ world.t.mParent[n] # Null
    /\ LET group == IF addAction \in {0, 1} THEN target ELSE world.t.mParent[target]
       IN \/ group = Null /\ Crash
          \/ group = world.t.mParent[n] /\ Done(Node_StateMsg(Quiet(world), n, "go"))

n_free(n) ==
    /\ Between2Blocks
    /\ n \in world.nodes \ {Root}
    /\ \/ Recursion(world, n) /\ Crash
       \/ ~Recursion(world, n) /\ Done(Node_Delete(Quiet(world), n))

\* Node_Remove and the add action's function, then /n_move if announce.
Move(w, n, addAction, target, announce) ==
    LET u == [w EXCEPT !.t = Place(Node_Remove(w.t, n), n, addAction, target)]
    IN IF announce THEN Node_StateMsg(u, n, "move") ELSE u

\* The test for a node before itself is there for the last pair of a command only.
n_before(n, target) ==
    /\ Between2Blocks
    /\ {n, target} \subseteq world.nodes
    /\ Movable(world, n, target) /\ Beside(target)
    /\ Done(Move(Quiet(world), n, 2, target, TRUE))

n_after(n, target) ==
    /\ Between2Blocks
    /\ {n, target} \subseteq world.nodes
    /\ Movable(world, n, target) /\ Beside(target)
    /\ Done(Move(Quiet(world), n, 3, target, TRUE))

\* /n_order with two nodes: the first goes where the add action says, the
\* other after it.
n_order(addAction, target, n, m) ==
    /\ Between2Blocks
    /\ {n, m} \subseteq world.nodes
    /\ Target(addAction, target)
    /\ Movable(world, n, target)
    /\ LET w == Move(Quiet(world), n, addAction, target,
                     addAction \in {2, 3} \/ world.t.mParent[n] # target)
       IN /\ Movable(w, m, n)
          /\ Done(Move(w, m, 3, n, TRUE))

g_head(g, n) ==
    /\ Between2Blocks
    /\ {g, n} \subseteq world.nodes /\ world.mIsGroup[g]
    /\ Movable(world, n, g)
    /\ Done(Move(Quiet(world), n, 0, g, world.t.mParent[n] # g))

g_tail(g, n) ==
    /\ Between2Blocks
    /\ {g, n} \subseteq world.nodes /\ world.mIsGroup[g]
    /\ Movable(world, n, g)
    /\ Done(Move(Quiet(world), n, 1, g, TRUE))

g_freeAll(g) ==
    /\ Between2Blocks
    /\ g \in world.nodes /\ world.mIsGroup[g]
    /\ \/ Recursion(world, g) /\ Crash
       \/ ~Recursion(world, g) /\ Done(Group_DeleteAll(Quiet(world), g))

g_deepFree(g) ==
    /\ Between2Blocks
    /\ g \in world.nodes /\ world.mIsGroup[g]
    /\ \/ Recursion(world, g) /\ Crash
       \/ ~Recursion(world, g) /\ Done(Group_DeepFreeGraphs(Quiet(world), g))

n_run(n, run) ==
    /\ Between2Blocks
    /\ n \in world.nodes
    /\ Done(Node_SetRun(Quiet(world), n, run))

s_noid(n) ==
    /\ Between2Blocks
    /\ n \in world.nodes /\ ~world.mIsGroup[n]
    /\ Done(Node_RemoveID(Quiet(world), n))

n_trace(n) ==
    /\ Between2Blocks
    /\ n \in world.nodes
    /\ Done(Node_Trace(Quiet(world), n))

g_dumpTree(g) ==
    /\ Between2Blocks
    /\ g \in world.nodes /\ world.mIsGroup[g]
    /\ Done(Group_DumpTree(Quiet(world), g))

Create ==
    /\ "create" \in use.commands
    /\ \E n, target \in Node, addAction \in use.addActions :
          \/ \E id \in use.ids \cup {Hidden}, isGroup \in BOOLEAN :
                New(n, id, isGroup, addAction, target)
          \/ NewAgain(n, addAction, target)

Exchange ==
    /\ "replace" \in use.commands
    /\ \E n, target \in Node, id \in use.ids \cup {Hidden}, isGroup, removeID \in BOOLEAN :
          Replace(n, id, isGroup, removeID, target)

Reorder ==
    /\ "reorder" \in use.commands
    /\ \E n, target \in Node :
          \/ n_before(n, target) \/ n_after(n, target)
          \/ g_head(target, n) \/ g_tail(target, n)
          \/ \E addAction \in use.addActions, m \in Node : n_order(addAction, target, n, m)

Remove ==
    /\ "remove" \in use.commands
    /\ \E n \in Node : n_free(n) \/ g_freeAll(n) \/ g_deepFree(n)

Switch ==
    /\ "run" \in use.commands
    /\ \E n \in Node, run \in BOOLEAN : n_run(n, run)

Trace ==
    /\ "trace" \in use.commands
    /\ \E n \in Node : n_trace(n) \/ g_dumpTree(n)

Block == "block" \in use.commands /\ (World_Run \/ CallChild \/ ReturnGroup)

Hide ==
    /\ "noid" \in use.commands
    /\ \E n \in Node : s_noid(n)

Next ==
    /\ Hide \/ Create \/ Exchange \/ Reorder \/ Remove \/ Switch \/ Trace \/ Block
    /\ IF crashed' = crashed THEN Notify ELSE UNCHANGED client
    /\ UNCHANGED use

Spec == Init /\ [][Next]_vars

-----------------------------------------------------------------------------
(* Type correctness of the node tree's state; the root group is never lost.*)
TypeOK ==
    /\ use \in Use
    /\ world \in World
    /\ Root \in world.nodes /\ world.mIsGroup[Root] /\ world.mID[Root] = 0
    /\ stack \in Seq([group : Node, child : NodeOrNull, func : CalcFunc])
    /\ visited \subseteq Node
    /\ crashed \in BOOLEAN
    /\ client \in [known : SUBSET ID, unsure : SUBSET ID]

(* Whatever clients ask for, the links agree with each other, and no link  *)
(* of an allocated node leads to memory that was given back; and no two    *)
(* nodes have the same ID, by which mNodeLib finds them.                   *)
LinksOK ==
    /\ Linked(world.t)
    /\ \A n \in Node \ world.nodes :
          \A m \in Node : /\ world.t.mParent[m] # n /\ world.t.mPrev[m] # n
                          /\ world.t.mNext[m] # n
                          /\ world.t.mHead[m] # n /\ world.t.mTail[m] # n
    /\ \A n \in Node : world.t.mParent[n] # Null => world.mIsGroup[world.t.mParent[n]]
    /\ \A n, m \in world.nodes : world.mID[n] = world.mID[m] /\ world.mID[n] # Hidden => n = m

(* With careful clients every allocated node stays in the tree: no command *)
(* and no done action loses a node, which would play or leak forever, or   *)
(* the root; and no command overflows the stack or follows a null pointer. *)
Connected ==
    use.careful => /\ world.nodes = {Root} \cup StrictlyBelow(world, Root)
                   /\ ~crashed

(* While the tree is being walked, the next child that each Group_Calc has *)
(* put aside is still allocated and still in that group: done actions may  *)
(* delete nodes meanwhile.                                                 *)
WalkSafe ==
    \A i \in 1 .. Len(stack) :
        /\ stack[i].group \in world.nodes
        /\ stack[i].child # Null =>
              /\ stack[i].child \in world.nodes
              /\ world.t.mParent[stack[i].child] = stack[i].group

(* A block calls every node of every group it entered, and no node twice,  *)
(* however many nodes the done actions removed on the way.                 *)
WalkComplete ==
    [][/\ stack # <<>> /\ stack' = <<>> =>
             \A n \in world'.nodes :
                world'.t.mParent[n] \in visited
                   /\ IsGroupCalc(world'.mCalcFunc[world'.t.mParent[n]]) => n \in visited
       /\ stack # <<>> /\ stack[1].child # Null => stack[1].child \notin visited]_vars

-----------------------------------------------------------------------------
VisibleIDs(w) == {w.mID[n] : n \in w.nodes} \ {Hidden}

(* A client that keeps track of nodes by their notifications, /n_go when   *)
(* one is created and /n_end when one ends and is deallocated              *)
(* (Server-Command-Reference.schelp), knows which nodes there are, but for *)
(* those whose last notification found mNodeEnds full: no command and no   *)
(* done action, whatever it deletes with a node, goes without one.  The    *)
(* add action 4 and /s_noid take IDs away without telling; here nobody     *)
(* uses them.                                                              *)
NotesTell ==
    use.mRealTime /\ use.commands \cap {"replace", "noid"} = {} =>
        \A id \in ID \ client.unsure : id \in client.known <=> id \in VisibleIDs(world)

(* "the above test insures that dtors are not called if ctors have not     *)
(* been called" (Graph_Dtor).                                              *)
DtorsAfterCtors == ~world.unbuiltDtor
=============================================================================
