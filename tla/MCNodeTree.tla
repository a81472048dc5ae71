---------------------------- MODULE MCNodeTree ----------------------------
(***************************************************************************)
(* The root and up to three more nodes, and six ways to use the server.    *)
(***************************************************************************)
EXTENDS NodeTree, TLC

\* Everything that changes the tree between blocks, whatever it leads to.
Careless ==
    [commands |-> {"create", "replace", "reorder", "remove", "noid"},
     addActions |-> 0 .. 3, doneActions |-> {<<>>}, ids |-> {1, 2},
     careful |-> FALSE, mRealTime |-> FALSE, maxNodes |-> 4]

\* The same from clients that keep the tree a tree.
Tidy == [Careless EXCEPT !.careful = TRUE, !.ids = {1}]

\* Blocks in which a unit of each synth may take any done action.
One(S) == {<<>>} \cup {<<action>> : action \in S}
Walk ==
    [commands |-> {"create", "block"},
     addActions |-> 0 .. 3, doneActions |-> One(1 .. 15), ids |-> {1},
     careful |-> TRUE, mRealTime |-> FALSE, maxNodes |-> 4]

\* The same with two units, and a few of the actions.
Two(S) == {<<action, other>> : action, other \in S}
WalkTwice == [Walk EXCEPT !.doneActions = {<<>>} \cup Two({2, 5, 12, 14})]

\* Blocks and commands that switch nodes off and on.
Switched ==
    [commands |-> {"create", "remove", "run", "trace", "block"},
     addActions |-> 0 .. 3, doneActions |-> One({2, 6, 12, 14}), ids |-> {1},
     careful |-> TRUE, mRealTime |-> FALSE, maxNodes |-> 3]

\* Clients that are told what happens, if mNodeEnds has room.
Told ==
    [commands |-> {"create", "remove", "block"},
     addActions |-> 0 .. 3, doneActions |-> One({2, 6, 12, 14}), ids |-> {1, 2},
     careful |-> TRUE, mRealTime |-> TRUE, maxNodes |-> 3]

MCUses == {Careless, Tidy, Walk, WalkTwice, Switched, Told}

\* Allocations are interchangeable.
Allocations == Permutations(Node \ {Root})
=============================================================================
