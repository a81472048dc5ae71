---------------------------- MODULE MCNodeGraph ----------------------------
(* NodeGraph for TLC: nodes are interchangeable.                           *)
EXTENDS NodeGraph, TLC

Nodes == Permutations(Node)

EveryAction == {"pauseSelf", "freeSelf", "freeSelfAndPrev", "freeSelfAndNext",
    "freeSelfAndFreeAllInPrev", "freeSelfAndFreeAllInNext", "freeSelfToHead", "freeSelfToTail",
    "freeSelfPausePrev", "freeSelfPauseNext", "freeSelfAndDeepFreePrev",
    "freeSelfAndDeepFreeNext", "freeAllInGroup", "freeGroup", "freeSelfResumeNext"}
=============================================================================
