----------------------------- MODULE HashTable -----------------------------
(***************************************************************************)
(* The open-addressing hash tables of scsynth (HashTable.h).               *)
(*                                                                         *)
(* HashTable holds the synth definitions and the commands, IntHashTable    *)
(* the nodes.  Both look for a key from the slot its hash names onwards    *)
(* and stop at the first empty slot, so Remove must move back the items    *)
(* that the emptied slot would hide.  They are the same but for Resize:    *)
(* no IntHashTable is made with inCanResize, and the one modelled is       *)
(* HashTable's.  The sizes are powers of two (NEXTPOWEROFTWO in            *)
(* scsynth_main.cpp), so that the mask is a remainder.                     *)
(*                                                                         *)
(* The loops of Remove and of Resize are taken turn by turn: a step is one *)
(* item looked at by FixCollisionsFrom, or one that Resize adds.           *)
(***************************************************************************)
EXTENDS Integers, FiniteSets

CONSTANTS
    Key,         \* the names or numbers looked for
    Item,        \* the items: pairs of their keys and numbers
    HashValue,   \* the hashes that keys may have
    FirstMax,    \* the values of inMaxItems
    LeastSize    \* the size that Resize makes a table at least (32 in the code)

GetKey(x) == x[1]
Empty == <<>>

ASSUME TableAssumption ==
    /\ IsFiniteSet(Item) /\ Empty \notin Item
    /\ Key = {GetKey(x) : x \in Item} /\ HashValue \subseteq Int
    /\ FirstMax \subseteq Nat \ {0} /\ LeastSize \in Nat

VARIABLES
    hash,        \* GetHash of every key, fixed
    canResize,   \* mCanResize, fixed
    items,       \* mItems; its domain has mTableSize slots
    numItems,    \* mNumItems
    maxItems,    \* mMaxItems
    doing,       \* the loop under way
    inItem,      \* the item that the operation under way was given
    oldIndex,    \* oldIndex of FixCollisionsFrom, or i of Resize
    oldItems,    \* oldItems of Resize
    result       \* the last operation, its argument and the items it returned

tableVars == <<hash, canResize, items, numItems, maxItems,
               doing, inItem, oldIndex, oldItems, result>>

AllocTable(size) == [i \in 0 .. size - 1 |-> Empty]

TableInit ==
    /\ hash \in [Key -> HashValue] /\ canResize \in BOOLEAN
    /\ maxItems \in FirstMax /\ items = AllocTable(2 * maxItems)
    /\ numItems = 0 /\ result = <<>>
    /\ doing = "nothing" /\ inItem = Empty /\ oldIndex = 0 /\ oldItems = <<>>

Size(t) == Cardinality(DOMAIN t)

\* The slot looked at after d others, and the first that is empty or has the key.
Probe(t, key, d) == (hash[key] + d) % Size(t)
Stops(t, key, d) == LET x == t[Probe(t, key, d)] IN x = Empty \/ GetKey(x) = key
IndexFor(t, key) ==
    LET d == CHOOSE d \in 0 .. Size(t) - 1 :
                 Stops(t, key, d) /\ \A e \in 0 .. d - 1 : ~Stops(t, key, e)
    IN  Probe(t, key, d)

\* mItems[newIndex] and mItems[oldIndex] are exchanged.
Swap(t, i, j) == [t EXCEPT ![i] = t[j], ![j] = t[i]]

\* Add after the test for room: where the item belongs, if nothing is there.
Insert(x) ==
    LET i == IndexFor(items, GetKey(x))
    IN  /\ items' = IF items[i] = Empty THEN [items EXCEPT ![i] = x] ELSE items
        /\ numItems' = IF items[i] = Empty THEN numItems + 1 ELSE numItems

\* What Add returns then.
Added(x) ==
    result' = <<"Add", x, IF items[IndexFor(items, GetKey(x))] \in {Empty, x} THEN {x} ELSE {}>>

Full == numItems >= maxItems

\* The slot that FixCollisionsFrom looks at next.
NextIndex == (oldIndex + 1) % Size(items)

Idle == doing' = "nothing" /\ inItem' = Empty /\ oldIndex' = 0 /\ oldItems' = <<>>
-----------------------------------------------------------------------------
AddRefused(x) ==
    /\ doing = "nothing" /\ Full /\ ~canResize
    /\ result' = <<"Add", x, {}>>
    /\ UNCHANGED <<hash, canResize, items, numItems, maxItems, doing, inItem, oldIndex, oldItems>>

Add(x) ==
    /\ doing = "nothing" /\ ~Full
    /\ Insert(x) /\ Added(x)
    /\ UNCHANGED <<hash, canResize, maxItems, doing, inItem, oldIndex, oldItems>>

\* Add of a full table: Resize makes a new one,
Resize(x) ==
    /\ doing = "nothing" /\ Full /\ canResize
    /\ LET size == IF 2 * Size(items) > LeastSize THEN 2 * Size(items) ELSE LeastSize
       IN  items' = AllocTable(size) /\ maxItems' = size \div 2
    /\ numItems' = 0
    /\ doing' = "Resize" /\ inItem' = x /\ oldIndex' = 0 /\ oldItems' = items
    /\ UNCHANGED <<hash, canResize, result>>

\* and adds what is in the old one, slot after slot (LoopsEnd says that Add
\* always finds room and does not resize again);
ResizeAdd ==
    /\ doing = "Resize" /\ oldIndex < Size(oldItems)
    /\ IF oldItems[oldIndex] = Empty THEN UNCHANGED <<items, numItems>>
       ELSE Insert(oldItems[oldIndex])
    /\ oldIndex' = oldIndex + 1
    /\ UNCHANGED <<hash, canResize, maxItems, doing, inItem, oldItems, result>>

\* then Add goes on.
AddAfterResize ==
    /\ doing = "Resize" /\ oldIndex = Size(oldItems)
    /\ Insert(inItem) /\ Added(inItem) /\ Idle
    /\ UNCHANGED <<hash, canResize, maxItems>>

RemoveRefused(x) ==
    /\ doing = "nothing" /\ items[IndexFor(items, GetKey(x))] # x
    /\ result' = <<"Remove", x, {}>>
    /\ UNCHANGED <<hash, canResize, items, numItems, maxItems, doing, inItem, oldIndex, oldItems>>

Remove(x) ==
    LET i == IndexFor(items, GetKey(x))
    IN  /\ doing = "nothing" /\ items[i] = x
        /\ items' = [items EXCEPT ![i] = Empty]
        /\ doing' = "FixCollisionsFrom" /\ inItem' = x /\ oldIndex' = i
        /\ UNCHANGED <<hash, canResize, numItems, maxItems, oldItems, result>>

\* A turn of FixCollisionsFrom.
FixCollision ==
    /\ doing = "FixCollisionsFrom" /\ items[NextIndex] # Empty
    /\ items' = Swap(items, NextIndex, IndexFor(items, GetKey(items[NextIndex])))
    /\ oldIndex' = NextIndex
    /\ UNCHANGED <<hash, canResize, numItems, maxItems, doing, inItem, oldItems, result>>

\* Slip: the loop ends before the first empty slot.
RemoveEndAnywhere ==
    /\ doing = "FixCollisionsFrom"
    /\ numItems' = numItems - 1 /\ result' = <<"Remove", inItem, {inItem}>> /\ Idle
    /\ UNCHANGED <<hash, canResize, items, maxItems>>

\* Slip: the count is forgotten.
RemoveEndUncounted ==
    /\ doing = "FixCollisionsFrom" /\ items[NextIndex] = Empty
    /\ result' = <<"Remove", inItem, {inItem}>> /\ Idle
    /\ UNCHANGED <<hash, canResize, items, numItems, maxItems>>

\* The loop ends at an empty slot; Remove counts.
RemoveEnd ==
    /\ doing = "FixCollisionsFrom" /\ items[NextIndex] = Empty
    /\ numItems' = numItems - 1 /\ result' = <<"Remove", inItem, {inItem}>> /\ Idle
    /\ UNCHANGED <<hash, canResize, items, maxItems>>

Get(key) ==
    /\ doing = "nothing"
    /\ result' = <<"Get", key, {items[IndexFor(items, key)]} \ {Empty}>>
    /\ UNCHANGED <<hash, canResize, items, numItems, maxItems, doing, inItem, oldIndex, oldItems>>

MakeEmpty ==
    /\ doing = "nothing"
    /\ items' = AllocTable(Size(items)) /\ numItems' = 0 /\ result' = <<>>
    /\ UNCHANGED <<hash, canResize, maxItems, doing, inItem, oldIndex, oldItems>>

TableNext ==
    \/ \E x \in Item : Add(x) \/ AddRefused(x) \/ Resize(x) \/ RemoveRefused(x) \/ Remove(x)
    \/ ResizeAdd \/ AddAfterResize \/ FixCollision \/ RemoveEnd
    \/ \E key \in Key : Get(key)
    \/ MakeEmpty

TableSpec == TableInit /\ [][TableNext]_tableVars
-----------------------------------------------------------------------------
Taken == {i \in DOMAIN items : items[i] # Empty}

\* The loops of IndexFor and FixCollisionsFrom end only at an empty slot: at
\* least half of the slots stay empty, in Remove and Resize too, and mNumItems,
\* by which Add judges that, is right.
LoopsEnd ==
    /\ numItems = Cardinality(Taken) + (IF doing = "FixCollisionsFrom" THEN 1 ELSE 0)
    /\ numItems <= maxItems /\ 2 * maxItems <= Size(items)

\* What the table holds: an operation has its effect when it ends.
Contents ==
    {items[i] : i \in Taken}
        \cup (IF doing = "FixCollisionsFrom" THEN {inItem} ELSE {})
        \cup (IF doing = "Resize" THEN {oldItems[i] : i \in oldIndex .. Size(oldItems) - 1} \ {Empty} ELSE {})

\* The table is the set of items that its users take it for: the wrap-around,
\* the moving back of items and Resize do not show.
Abstract == INSTANCE KeyedSet
    WITH set <- Contents,
         KeyOf <- GetKey,
         capacity <- IF canResize THEN Cardinality(Item) + 1 ELSE maxItems
TableImplements == Abstract!Spec
=============================================================================
