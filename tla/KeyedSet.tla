------------------------------ MODULE KeyedSet ------------------------------
(***************************************************************************)
(* What the hash tables of scsynth promise: a set of items no two of which *)
(* have the same key.  An item whose key is taken is refused, and so is    *)
(* one that comes when a table that may not grow is full.                  *)
(***************************************************************************)
EXTENDS Naturals, FiniteSets

CONSTANTS
    Item,        \* the items
    KeyOf(_)     \* GetKey

VARIABLES
    capacity,    \* how many items there is room for, always the same
    set,         \* the items in the table
    result       \* the last operation, its argument and the items it returned

vars == <<capacity, set, result>>

Init == capacity \in Nat /\ set = {} /\ result = <<>>

Add(x) ==
    LET same == {y \in set : KeyOf(y) = KeyOf(x)}
    IN  IF Cardinality(set) >= capacity \/ same \notin {{}, {x}}
        THEN set' = set /\ result' = <<"Add", x, {}>>
        ELSE set' = set \cup {x} /\ result' = <<"Add", x, {x}>>

Remove(x) == set' = set \ {x} /\ result' = <<"Remove", x, set \cap {x}>>

Get(key) == set' = set /\ result' = <<"Get", key, {y \in set : KeyOf(y) = key}>>

MakeEmpty == set' = {} /\ result' = <<>>

Next ==
    /\ (\E x \in Item : Add(x) \/ Remove(x) \/ Get(KeyOf(x))) \/ MakeEmpty
    /\ UNCHANGED capacity

Spec == Init /\ [][Next]_vars
=============================================================================
