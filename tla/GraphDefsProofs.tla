-------------------------- MODULE GraphDefsProofs --------------------------
(***************************************************************************)
(* The synth definitions for any number of definitions and variants, any   *)
(* set of synths, and every capacity of the library and of the FIFO.       *)
(*                                                                         *)
(* A definition is freed through its original: what must hold is that by   *)
(* then nothing of its memory is in the library or on its way there, and   *)
(* that no synth uses the original.  This follows from the reference count *)
(* if the count is exact, which BlockOK says for each block of memory: the *)
(* count is the number of synths, and one for the library or the command.  *)
(* It needs that a variant is in the library only with its original        *)
(* (Library), that a block is in one list of definitions to be added, once *)
(* (Once), and that a name is taken once (Names).                          *)
(*                                                                         *)
(* If clients are careful, a variant that is sent to be deleted is there   *)
(* before its original is, and nothing is sent after its original: no      *)
(* message finds its memory freed (InTime).                                *)
(*                                                                         *)
(* The steps are stated for records with the fields of the variables, so   *)
(* that a definition that replaces another is two steps: one is removed,   *)
(* and one added.                                                          *)
(***************************************************************************)
EXTENDS GraphDefs, FiniteSetTheorems, SequenceTheorems, WellFoundedInduction, TLAPS

\* A definition was used after it was freed, not only its name.
Wild == "definition" \in wild

State == [mem |-> mem, shape |-> shape, refCount |-> refCount, lib |-> lib, synth |-> synth,
          toEngine |-> toEngine, defining |-> defining, deletes |-> deletes, lost |-> lost,
          wild |-> Wild, careful |-> careful]

\* The lists of definitions to be added: the one that is being added, and
\* those on their way.
ListNo(s) == 0 .. Len(s.toEngine)
ListAt(s, k) == IF k = 0 THEN s.defining ELSE s.toEngine[k]
In(q) == 1 .. Len(q)

\* Block b is to be added; the synths of its original; its original is sent
\* to be deleted.
Awaited(s, b) == \E k \in ListNo(s) : \E i \in In(ListAt(s, k)) : ListAt(s, k)[i] = b
Users(s, b) == {x \in Synth : s.synth[x] = Original(b)}
Leaving(s, b) == \E i \in In(s.deletes) : s.deletes[i] = Original(b)

NameIn(s, p) == IF p[2] = 0 THEN s.shape[p[1]].name ELSE s.shape[p[1]].variants[p[2]]

Typed(s) ==
    /\ s.mem \in [Block -> {"unused", "live", "freed"}]
    /\ s.shape \in [Block -> Def \cup {NoShape}] /\ DOMAIN s.refCount = Block
    /\ s.lib \subseteq Ptr /\ IsFiniteSet(s.lib) /\ Cardinality(s.lib) <= MaxGraphDefs
    /\ s.synth \in [Synth -> Ptr \cup {Null}]
    /\ s.defining \in Seq(Block) /\ s.toEngine \in Seq(Seq(Block))
    /\ s.deletes \in Seq(Ptr) /\ Len(s.deletes) <= FifoSize
    /\ s.lost \subseteq Block /\ s.wild \in BOOLEAN /\ s.careful \in BOOLEAN

\* Memory is used in order, and what is used holds a definition.
Prefix(s) == \E n \in 0 .. MaxDefs : \A b \in Block : s.mem[b] # "unused" <=> b <= n
Shaped(s, b) == /\ s.shape[b] \in Def
                /\ s.refCount[b] \in [0 .. Len(s.shape[b].variants) -> Int]
Shapes(s) == \A b \in Block : s.mem[b] # "unused" => Shaped(s, b)

\* Pointers are to GraphDefs that are there or were there.
Points(s, p) == /\ p \in Ptr /\ s.mem[p[1]] # "unused"
                /\ p[2] \in 0 .. Len(s.shape[p[1]].variants)
Pointers(s) ==
    /\ \A p \in s.lib : Points(s, p)
    /\ \A i \in In(s.deletes) : Points(s, s.deletes[i])
    /\ \A x \in Synth : s.synth[x] # Null => Points(s, s.synth[x])

Base(s) == Typed(s) /\ Prefix(s) /\ Shapes(s) /\ Pointers(s)

Once(s) ==
    \A k, m \in ListNo(s) : \A i \in In(ListAt(s, k)), j \in In(ListAt(s, m)) :
        ListAt(s, k)[i] = ListAt(s, m)[j] => k = m /\ i = j

Library(s) == \A p \in s.lib : s.mem[p[1]] = "live" /\ Original(p[1]) \in s.lib
Names(s) == \A p, q \in s.lib : NameIn(s, p) = NameIn(s, q) => p = q

Counts(s, b) ==
    s.refCount[b][0] = Cardinality(Users(s, b)) + IF Original(b) \in s.lib \/ Awaited(s, b) THEN 1 ELSE 0

BlockOK(s, b) ==
    /\ Awaited(s, b) => /\ s.mem[b] = "live" /\ b \notin s.lost
                        /\ Original(b) \notin s.lib /\ Users(s, b) = {}
    /\ Original(b) \in s.lib => s.mem[b] = "live" /\ b \notin s.lost
    /\ s.mem[b] = "unused" => b \notin s.lost
    /\ s.mem[b] = "live" /\ b \in s.lost => Users(s, b) = {}
    /\ s.mem[b] = "live" /\ Leaving(s, b) =>
          Original(b) \notin s.lib /\ ~Awaited(s, b) /\ Users(s, b) = {}
    /\ s.mem[b] = "live" /\ b \notin s.lost =>
          /\ Counts(s, b)
          /\ Original(b) \in s.lib \/ Awaited(s, b) \/ Users(s, b) # {} \/ Leaving(s, b)

Blocks(s) == \A b \in Block : BlockOK(s, b)

InTime(s) ==
    s.careful =>
        /\ ~s.wild
        /\ \A x \in Synth : s.synth[x] # Null => s.mem[s.synth[x][1]] = "live" /\ s.synth[x][2] = 0
        /\ \A i \in In(s.deletes) : s.mem[s.deletes[i][1]] = "live"
        /\ \A i, j \in In(s.deletes) :
              i < j /\ s.deletes[i][2] = 0 => s.deletes[j][1] # s.deletes[i][1]

Good(s) == Base(s) /\ Once(s) /\ Library(s) /\ Names(s) /\ Blocks(s) /\ InTime(s)

Inv == Good(State)

-----------------------------------------------------------------------------
(* Sequences, pointers and counts. *)

Pushed(q, p, x) ==
    /\ Len(p) = Len(q) + 1 /\ p[Len(q) + 1] = x
    /\ \A i \in In(q) : p[i] = q[i]

Popped(q, p, x) ==
    /\ Len(q) = Len(p) + 1 /\ q[1] = x
    /\ \A i \in In(p) : p[i] = q[i + 1]

LEMMA AppendPushed ==
    ASSUME NEW S, NEW q \in Seq(S), NEW x \in S
    PROVE  Append(q, x) \in Seq(S) /\ Pushed(q, Append(q, x), x)
  BY DEF Pushed, In

LEMMA TailPopped ==
    ASSUME NEW S, NEW q \in Seq(S), q # <<>>
    PROVE  Tail(q) \in Seq(S) /\ Popped(q, Tail(q), Head(q)) /\ Head(q) \in S
  BY DEF Popped, In

LEMMA PushedAt ==
    ASSUME NEW S, NEW q \in Seq(S), NEW p \in Seq(S), NEW x, Pushed(q, p, x)
    PROVE  /\ Len(q) \in Nat /\ Len(q) + 1 \in In(p) /\ p[Len(q) + 1] = x
           /\ \A i \in In(p) : \/ i \in In(q) /\ p[i] = q[i]
                               \/ i = Len(q) + 1 /\ p[i] = x
           /\ \A i \in In(q) : i \in In(p) /\ p[i] = q[i] /\ i < Len(q) + 1
  BY DEF Pushed, In

LEMMA PoppedAt ==
    ASSUME NEW S, NEW q \in Seq(S), NEW p \in Seq(S), NEW x, Popped(q, p, x)
    PROVE  /\ 1 \in In(q) /\ q[1] = x
           /\ \A i \in In(p) : i \in Nat /\ i # 0 /\ i + 1 \in In(q) /\ p[i] = q[i + 1]
           /\ \A i \in In(q) : i = 1 \/ (1 < i /\ \E j \in In(p) : i = j + 1 /\ p[j] = q[i])
  <1>1. \A i \in In(q) : i = 1 \/ (1 < i /\ i - 1 \in In(p) /\ i = (i - 1) + 1 /\ p[i - 1] = q[i])
    BY DEF Popped, In
  <1>2. QED
    BY <1>1 DEF Popped, In

LEMMA PtrEq ==
    ASSUME NEW p \in Ptr, NEW q \in Ptr, p[1] = q[1], p[2] = q[2]
    PROVE  p = q
  BY DEF Ptr

LEMMA OriginalPtr ==
    ASSUME NEW b \in Block
    PROVE  /\ Original(b) \in Ptr /\ Original(b)[1] = b /\ Original(b)[2] = 0
           /\ Original(b) # Null
           /\ \A p \in Ptr : p = Original(b) <=> p[1] = b /\ p[2] = 0
  <1>1. Original(b) \in Ptr /\ Original(b)[1] = b /\ Original(b)[2] = 0
    BY DEF Original, Ptr
  <1>2. QED
    BY <1>1, NullAssumption, PtrEq

LEMMA UsersFinite ==
    ASSUME NEW s, NEW b
    PROVE  /\ IsFiniteSet(Users(s, b)) /\ Cardinality(Users(s, b)) \in Nat
           /\ Cardinality(Users(s, b)) = 0 <=> Users(s, b) = {}
  <1>1. Users(s, b) \in SUBSET Synth /\ IsFiniteSet(Synth)
    BY DefAssumption DEF Users
  <1>2. IsFiniteSet(Users(s, b))
    BY <1>1, FS_Subset
  <1>3. QED
    BY <1>2, FS_CardinalityType, FS_EmptySet

\* A block of which a step changes nothing that BlockOK is about.
SameBlock(s, t, b) ==
    /\ t.mem[b] = s.mem[b] /\ t.refCount[b][0] = s.refCount[b][0]
    /\ Original(b) \in t.lib <=> Original(b) \in s.lib
    /\ Awaited(t, b) <=> Awaited(s, b)
    /\ b \in t.lost <=> b \in s.lost
    /\ Users(t, b) = Users(s, b)
    /\ Leaving(t, b) <=> Leaving(s, b)

LEMMA SameBlockOK ==
    ASSUME NEW s, NEW t, NEW b, BlockOK(s, b), SameBlock(s, t, b)
    PROVE  BlockOK(t, b)
  <1>1. Counts(s, b) => Counts(t, b)
    BY DEF Counts, SameBlock
  <1>2. QED
    BY <1>1 DEF BlockOK, SameBlock

-----------------------------------------------------------------------------
(* Steps that leave the memory alone: what they share. *)

Still(s, t) == t.mem = s.mem /\ t.shape = s.shape /\ t.careful = s.careful
SameLists(s, t) == t.defining = s.defining /\ t.toEngine = s.toEngine

LEMMA SameListsOK ==
    ASSUME NEW s, NEW t, SameLists(s, t)
    PROVE  /\ \A b : Awaited(t, b) <=> Awaited(s, b)
           /\ Once(s) => Once(t)
  <1>1. ListNo(t) = ListNo(s) /\ \A k : ListAt(t, k) = ListAt(s, k)
    BY DEF SameLists, ListNo, ListAt
  <1>2. QED
    BY <1>1 DEF Awaited, Once

LEMMA StillPoints ==
    ASSUME NEW s, NEW t, Still(s, t)
    PROVE  /\ Prefix(s) => Prefix(t)
           /\ \A p : Points(t, p) <=> Points(s, p)
           /\ \A p : NameIn(t, p) = NameIn(s, p)
  BY DEF Still, Prefix, Points, NameIn

\* The count of p changes by n, and no other.
Recount(s, t, p, n) == t.refCount = [s.refCount EXCEPT ![p[1]][p[2]] = @ + n]
Recounted(s, t, p, n) ==
    /\ DOMAIN t.refCount = Block /\ Shapes(t)
    /\ \A b \in Block : p # Original(b) => t.refCount[b][0] = s.refCount[b][0]
    /\ \A b \in Block : p = Original(b) => t.refCount[b][0] = s.refCount[b][0] + n

LEMMA RecountOK ==
    ASSUME NEW s, NEW t, NEW p, NEW n \in Int, Base(s), Points(s, p), Still(s, t), Recount(s, t, p, n)
    PROVE  Recounted(s, t, p, n) /\ s.refCount[p[1]][p[2]] \in Int
  <1>1. /\ p \in Ptr /\ p[1] \in Block /\ p[2] \in 0 .. Len(s.shape[p[1]].variants)
        /\ DOMAIN s.refCount = Block /\ Shaped(s, p[1])
    BY DEF Points, Base, Typed, Shapes, Ptr
  <1>2. DOMAIN t.refCount = Block
    BY <1>1 DEF Recount
  <1>3. \A b \in Block : b # p[1] => t.refCount[b] = s.refCount[b]
    BY <1>1 DEF Recount
  <1>4. t.refCount[p[1]] = [s.refCount[p[1]] EXCEPT ![p[2]] = @ + n]
    BY <1>1 DEF Recount
  <1>5. /\ t.refCount[p[1]] \in [0 .. Len(s.shape[p[1]].variants) -> Int]
        /\ \A i \in 0 .. Len(s.shape[p[1]].variants) :
              t.refCount[p[1]][i] = IF i = p[2] THEN s.refCount[p[1]][i] + n ELSE s.refCount[p[1]][i]
    BY <1>1, <1>4, SMTT(40) DEF Shaped
  <1>6. Shapes(t)
    <2> SUFFICES ASSUME NEW b \in Block, t.mem[b] # "unused" PROVE Shaped(t, b)
      BY DEF Shapes
    <2>1. CASE b = p[1]
      BY <2>1, <1>5, <1>1 DEF Shaped, Still
    <2>2. CASE b # p[1]
      BY <2>2, <1>3 DEF Shaped, Still, Base, Shapes
    <2>3. QED
      BY <2>1, <2>2
  <1>7. 0 \in 0 .. Len(s.shape[p[1]].variants)
    BY <1>1 DEF Shaped, Def
  <1>8. ASSUME NEW b \in Block, p # Original(b) PROVE t.refCount[b][0] = s.refCount[b][0]
    <2>1. CASE b = p[1]
      <3>1. p[2] # 0
        BY <2>1, <1>8, <1>1, OriginalPtr
      <3>2. QED
        BY <3>1, <1>5, <1>7, <2>1
    <2>2. QED
      BY <2>1, <1>3
  <1>9. ASSUME NEW b \in Block, p = Original(b) PROVE t.refCount[b][0] = s.refCount[b][0] + n
    <2>1. b = p[1] /\ p[2] = 0
      BY <1>9, OriginalPtr
    <2>2. QED
      BY <2>1, <1>5, <1>7
  <1>10. s.refCount[p[1]][p[2]] \in Int
    BY <1>1 DEF Shaped
  <1>11. QED
    BY <1>2, <1>6, <1>8, <1>9, <1>10 DEF Recounted

\* GraphDef_DeleteMsg(p), which finds the FIFO full or not.
Sent(s, t, p) ==
    \/ Len(s.deletes) < FifoSize /\ t.deletes = Append(s.deletes, p) /\ t.lost = s.lost
    \/ t.deletes = s.deletes /\ t.lost = s.lost \cup {b \in Block : p = Original(b)}
Unsent(s, t) == t.deletes = s.deletes /\ t.lost = s.lost

MessagesOK(t) ==
    /\ t.deletes \in Seq(Ptr) /\ Len(t.deletes) <= FifoSize /\ t.lost \subseteq Block
    /\ \A i \in In(t.deletes) : Points(t, t.deletes[i])

SentOnly(s, t, p) ==
    /\ MessagesOK(t)
    /\ \A b \in Block : p # Original(b) => /\ Leaving(t, b) <=> Leaving(s, b)
                                           /\ b \in t.lost <=> b \in s.lost
    /\ \A b \in Block : p = Original(b) => Leaving(t, b) \/ b \in t.lost

LEMMA SentOK ==
    ASSUME NEW s, NEW t, NEW p, Base(s), Points(s, p), Still(s, t), Sent(s, t, p)
    PROVE  SentOnly(s, t, p)
  <1>0. /\ p \in Ptr /\ s.deletes \in Seq(Ptr) /\ Len(s.deletes) <= FifoSize /\ s.lost \subseteq Block
        /\ \A i \in In(s.deletes) : Points(s, s.deletes[i])
    BY DEF Points, Base, Typed, Pointers
  <1>1. CASE Len(s.deletes) < FifoSize /\ t.deletes = Append(s.deletes, p) /\ t.lost = s.lost
    <2>1. t.deletes \in Seq(Ptr) /\ Pushed(s.deletes, t.deletes, p)
      BY <1>0, <1>1, AppendPushed
    <2>2. Len(t.deletes) <= FifoSize
      BY <2>1, <1>0, <1>1, DefAssumption DEF Pushed
    <2>3. \A i \in In(t.deletes) : Points(t, t.deletes[i])
      BY <2>1, <1>0, PushedAt, StillPoints
    <2>4. ASSUME NEW b \in Block, p # Original(b) PROVE Leaving(t, b) <=> Leaving(s, b)
      BY <2>1, <2>4, <1>0, PushedAt DEF Leaving
    <2>5. ASSUME NEW b \in Block, p = Original(b) PROVE Leaving(t, b)
      BY <2>1, <2>5, <1>0, PushedAt DEF Leaving
    <2>6. QED
      BY <2>1, <2>2, <2>3, <2>4, <2>5, <1>0, <1>1 DEF SentOnly, MessagesOK
  <1>2. CASE t.deletes = s.deletes /\ t.lost = s.lost \cup {b \in Block : p = Original(b)}
    <2>1. \A i \in In(t.deletes) : Points(t, t.deletes[i])
      BY <1>0, <1>2, StillPoints
    <2>2. \A b : Leaving(t, b) <=> Leaving(s, b)
      BY <1>2 DEF Leaving
    <2>3. QED
      BY <2>1, <2>2, <1>0, <1>2 DEF SentOnly, MessagesOK
  <1>3. QED
    BY <1>1, <1>2 DEF Sent

\* Messages on their way stay in time when p is added, if its memory is live
\* and its original not among them.
Late(s) ==
    /\ \A i \in In(s.deletes) : s.mem[s.deletes[i][1]] = "live"
    /\ \A i, j \in In(s.deletes) : i < j /\ s.deletes[i][2] = 0 => s.deletes[j][1] # s.deletes[i][1]

LEMMA SentLate ==
    ASSUME NEW s, NEW t, NEW p, Base(s), Points(s, p), Still(s, t), Sent(s, t, p), Late(s),
           s.mem[p[1]] = "live", ~Leaving(s, p[1])
    PROVE  Late(t)
  <1>0. p \in Ptr /\ s.deletes \in Seq(Ptr) /\ p[1] \in Block
    BY DEF Points, Base, Typed, Ptr
  <1>1. CASE t.deletes = Append(s.deletes, p)
    <2>1. t.deletes \in Seq(Ptr) /\ Pushed(s.deletes, t.deletes, p)
      BY <1>0, <1>1, AppendPushed
    <2>2. \A i \in In(t.deletes) : t.mem[t.deletes[i][1]] = "live"
      BY <2>1, <1>0, PushedAt DEF Still, Late
    <2>3. ASSUME NEW i \in In(t.deletes), NEW j \in In(t.deletes), i < j, t.deletes[i][2] = 0
          PROVE  t.deletes[j][1] # t.deletes[i][1]
      <3>1. i \in In(s.deletes) /\ t.deletes[i] = s.deletes[i]
        BY <2>3, <2>1, <1>0 DEF Pushed, In
      <3>2. CASE j \in In(s.deletes) /\ t.deletes[j] = s.deletes[j]
        BY <3>1, <3>2, <2>3 DEF Late
      <3>3. CASE t.deletes[j] = p
        <4>1. s.deletes[i] # Original(p[1]) /\ s.deletes[i] \in Ptr
          BY <3>1, <1>0 DEF Leaving, In
        <4>2. QED
          BY <4>1, <3>1, <3>3, <2>3, <1>0, OriginalPtr
      <3>4. QED
        BY <3>2, <3>3, <2>1, <1>0, PushedAt
    <2>4. QED
      BY <2>2, <2>3 DEF Late
  <1>2. CASE t.deletes = s.deletes
    BY <1>2 DEF Late, Still
  <1>3. QED
    BY <1>1, <1>2 DEF Sent

-----------------------------------------------------------------------------
(* The library gives up p. *)

VariantsIn(s, b) == {<<b, i>> : i \in DOMAIN s.shape[b].variants}
LibWithout(s, p) == s.lib \ ({p} \cup IF p[2] = 0 THEN VariantsIn(s, p[1]) ELSE {})

Removed(s, t, p) ==
    /\ p \in s.lib /\ t.lib = LibWithout(s, p)
    /\ Recount(s, t, p, -1)
    /\ IF s.refCount[p[1]][p[2]] - 1 = 0 THEN Sent(s, t, p) ELSE Unsent(s, t)
    /\ Still(s, t) /\ SameLists(s, t) /\ t.synth = s.synth /\ t.wild = s.wild

LEMMA LibWithoutOK ==
    ASSUME NEW s, NEW p \in s.lib, Base(s)
    PROVE  /\ LibWithout(s, p) \subseteq s.lib /\ p \notin LibWithout(s, p)
           /\ IsFiniteSet(LibWithout(s, p)) /\ Cardinality(LibWithout(s, p)) < Cardinality(s.lib)
           /\ \A b \in Block : p # Original(b) => (Original(b) \in LibWithout(s, p) <=> Original(b) \in s.lib)
           /\ p[2] = 0 => \A q \in LibWithout(s, p) : q[1] # p[1]
  <1>1. LibWithout(s, p) \subseteq s.lib /\ p \notin LibWithout(s, p)
    BY DEF LibWithout
  <1>2. IsFiniteSet(s.lib) /\ Cardinality(s.lib) \in Nat
    BY FS_CardinalityType DEF Base, Typed
  <1>3. LibWithout(s, p) \subseteq s.lib \ {p} /\ IsFiniteSet(s.lib \ {p})
        /\ Cardinality(s.lib \ {p}) = Cardinality(s.lib) - 1
    BY <1>1, <1>2, FS_RemoveElement
  <1>4. IsFiniteSet(LibWithout(s, p)) /\ Cardinality(LibWithout(s, p)) <= Cardinality(s.lib \ {p})
    BY <1>3, FS_Subset
  <1>5. Cardinality(LibWithout(s, p)) < Cardinality(s.lib)
    BY <1>2, <1>3, <1>4, FS_CardinalityType
  <1>6. ASSUME NEW b \in Block, p # Original(b)
        PROVE  Original(b) \in LibWithout(s, p) <=> Original(b) \in s.lib
    <2>0. p \in Ptr /\ Points(s, p)
      BY DEF Base, Pointers, Typed
    <2>1. p[1] \in Block /\ Shaped(s, p[1])
      BY <2>0 DEF Ptr, Points, Base, Shapes
    <2>2. 0 \notin DOMAIN s.shape[p[1]].variants
      BY <2>1 DEF Shaped, Def
    <2>3. Original(b) \notin VariantsIn(s, p[1])
      BY <2>2 DEF VariantsIn, Original
    <2>4. QED
      BY <2>3, <1>6 DEF LibWithout
  <1>7. ASSUME p[2] = 0, NEW q \in LibWithout(s, p) PROVE q[1] # p[1]
    <2>1. q \in s.lib /\ q # p /\ q \notin VariantsIn(s, p[1])
      BY <1>7 DEF LibWithout
    <2>2. Points(s, q) /\ q \in Ptr /\ p \in Ptr
      BY <2>1 DEF Base, Pointers, Points
    <2>3. q[1] \in Block /\ Shaped(s, q[1])
      BY <2>2 DEF Ptr, Points, Base, Shapes
    <2>4. SUFFICES ASSUME q[1] = p[1] PROVE FALSE
      OBVIOUS
    <2>5. q[2] # 0
      BY <2>1, <2>2, <2>4, <1>7, PtrEq
    <2>6. q[2] \in DOMAIN s.shape[q[1]].variants
      BY <2>5, <2>2, <2>3 DEF Points, Shaped, Def
    <2>7. q = <<q[1], q[2]>>
      BY <2>2 DEF Ptr
    <2>8. QED
      BY <2>1, <2>4, <2>6, <2>7 DEF VariantsIn
  <1>8. QED
    BY <1>1, <1>4, <1>5, <1>6, <1>7

LEMMA RemovedBlock ==
    ASSUME NEW s, NEW t, NEW p, Good(s), Removed(s, t, p), NEW b \in Block
    PROVE  BlockOK(t, b)
  <1>1. Base(s) /\ Points(s, p) /\ BlockOK(s, b) /\ p \in s.lib
    BY DEF Good, Removed, Base, Pointers, Blocks
  <1>2. /\ \A c : Awaited(t, c) <=> Awaited(s, c)
        /\ Users(t, b) = Users(s, b) /\ t.mem = s.mem
    BY SameListsOK DEF Removed, Users, Still
  <1>3. Recounted(s, t, p, -1) /\ s.refCount[p[1]][p[2]] \in Int
    BY <1>1, RecountOK DEF Removed
  <1>4. Unsent(s, t) => /\ Leaving(t, b) <=> Leaving(s, b)
                        /\ b \in t.lost <=> b \in s.lost
    BY DEF Unsent, Leaving
  <1>5. Sent(s, t, p) => SentOnly(s, t, p)
    BY <1>1, SentOK DEF Removed
  <1>6. CASE p # Original(b)
    <2>1. Original(b) \in t.lib <=> Original(b) \in s.lib
      BY <1>6, <1>1, LibWithoutOK DEF Removed
    <2>2. /\ Leaving(t, b) <=> Leaving(s, b)
          /\ b \in t.lost <=> b \in s.lost
      BY <1>4, <1>5, <1>6 DEF Removed, SentOnly
    <2>3. t.refCount[b][0] = s.refCount[b][0]
      BY <1>3, <1>6 DEF Recounted
    <2>4. SameBlock(s, t, b)
      BY <2>1, <2>2, <2>3, <1>2 DEF SameBlock
    <2>5. QED
      BY <2>4, <1>1, SameBlockOK
  <1>7. CASE p = Original(b)
    <2>1. s.mem[b] = "live" /\ b \notin s.lost /\ ~Awaited(s, b) /\ ~Leaving(s, b) /\ Counts(s, b)
      BY <1>1, <1>7 DEF BlockOK
    <2>2. Original(b) \notin t.lib
      BY <1>1, <1>7, LibWithoutOK DEF Removed
    <2>3. s.refCount[b][0] = Cardinality(Users(s, b)) + 1
      BY <2>1, <1>1, <1>7 DEF Counts
    <2>4. t.refCount[b][0] = s.refCount[b][0] - 1 /\ p[1] = b /\ p[2] = 0
      BY <1>3, <1>7, OriginalPtr DEF Recounted
    <2>5. t.refCount[b][0] = Cardinality(Users(t, b))
      BY <2>3, <2>4, <1>2, UsersFinite
    <2>6. Counts(t, b)
      BY <2>5, <2>2, <2>1, <1>2, UsersFinite DEF Counts
    <2>7. CASE s.refCount[p[1]][p[2]] - 1 = 0
      <3>1. Users(t, b) = {}
        BY <2>7, <2>4, <2>5, UsersFinite
      <3>2. Leaving(t, b) \/ b \in t.lost
        BY <2>7, <1>5, <1>7 DEF Removed, SentOnly
      <3>3. QED
        BY <3>1, <3>2, <2>6, <2>2, <2>1, <1>2 DEF BlockOK
    <2>8. CASE s.refCount[p[1]][p[2]] - 1 # 0
      <3>1. Users(t, b) # {}
        BY <2>8, <2>4, <2>5, UsersFinite
      <3>2. QED
        BY <3>1, <2>8, <1>4, <2>6, <2>2, <2>1, <1>2 DEF BlockOK, Removed
    <2>9. QED
      BY <2>7, <2>8
  <1>8. QED
    BY <1>6, <1>7

LEMMA RemovedGood ==
    ASSUME NEW s, NEW t, NEW p, Good(s), Removed(s, t, p)
    PROVE  Good(t) /\ Cardinality(t.lib) < MaxGraphDefs
  <1>1. Base(s) /\ Points(s, p) /\ p \in s.lib /\ p \in Ptr /\ p[1] \in Block
    BY DEF Good, Removed, Base, Pointers, Points, Ptr
  <1>2. Recounted(s, t, p, -1)
    BY <1>1, RecountOK DEF Removed
  <1>3. /\ t.lib \subseteq s.lib /\ IsFiniteSet(t.lib) /\ Cardinality(t.lib) < Cardinality(s.lib)
        /\ \A b \in Block : p # Original(b) => (Original(b) \in t.lib <=> Original(b) \in s.lib)
        /\ p[2] = 0 => \A q \in t.lib : q[1] # p[1]
    BY <1>1, LibWithoutOK DEF Removed
  <1>4. Cardinality(t.lib) < MaxGraphDefs /\ Cardinality(t.lib) <= MaxGraphDefs
    BY <1>1, <1>3, FS_CardinalityType, DefAssumption DEF Base, Typed
  <1>5. MessagesOK(t)
    <2>1. Sent(s, t, p) => SentOnly(s, t, p)
      BY <1>1, SentOK DEF Removed
    <2>2. Unsent(s, t) => MessagesOK(t)
      <3>1. \A q : Points(t, q) <=> Points(s, q)
        BY StillPoints DEF Removed
      <3>2. QED
        BY <3>1, <1>1 DEF Unsent, MessagesOK, Base, Typed, Pointers
    <2>3. QED
      BY <2>1, <2>2 DEF Removed, SentOnly
  <1>6. Base(t)
    <2>1. Typed(t)
      BY <1>1, <1>2, <1>3, <1>4, <1>5 DEF Base, Typed, Removed, Still, SameLists, Recounted, MessagesOK
    <2>2. Prefix(t) /\ \A q : Points(t, q) <=> Points(s, q)
      BY <1>1, StillPoints DEF Removed, Base
    <2>3. Pointers(t)
      BY <2>2, <1>1, <1>3, <1>5 DEF Base, Pointers, MessagesOK, Removed
    <2>4. QED
      BY <2>1, <2>2, <2>3, <1>2 DEF Base, Recounted
  <1>7. Once(t)
    BY SameListsOK DEF Removed, Good
  <1>8. Library(t)
    <2> SUFFICES ASSUME NEW q \in t.lib PROVE t.mem[q[1]] = "live" /\ Original(q[1]) \in t.lib
      BY DEF Library
    <2>1. q \in s.lib /\ q \in Ptr /\ q[1] \in Block /\ s.mem[q[1]] = "live" /\ Original(q[1]) \in s.lib
      BY <1>1, <1>3 DEF Good, Library, Base, Typed, Ptr
    <2>2. p # Original(q[1])
      BY <1>3, <2>1, OriginalPtr
    <2>3. QED
      BY <2>1, <2>2, <1>3 DEF Removed, Still
  <1>9. Names(t)
    <2>1. \A q : NameIn(t, q) = NameIn(s, q)
      BY StillPoints DEF Removed
    <2>2. QED
      BY <2>1, <1>3 DEF Names, Good
  <1>10. Blocks(t)
    BY RemovedBlock DEF Blocks
  <1>11. InTime(t)
    <2> SUFFICES ASSUME t.careful
                 PROVE  /\ ~t.wild /\ Late(t)
                        /\ \A x \in Synth : t.synth[x] # Null => t.mem[t.synth[x][1]] = "live" /\ t.synth[x][2] = 0
      BY DEF InTime, Late
    <2>1. s.careful /\ ~s.wild /\ Late(s)
      BY DEF Removed, Still, Good, InTime, Late
    <2>2. s.mem[p[1]] = "live" /\ ~Leaving(s, p[1])
      BY <1>1 DEF Good, Library, Blocks, BlockOK
    <2>3. Late(t)
      <3>1. Unsent(s, t) => Late(t)
        BY <2>1 DEF Unsent, Late, Removed, Still
      <3>2. Sent(s, t, p) => Late(t)
        BY <2>1, <2>2, <1>1, SentLate DEF Removed
      <3>3. QED
        BY <3>1, <3>2 DEF Removed
    <2>4. QED
      BY <2>1, <2>3 DEF Removed, Still, Good, InTime
  <1>12. QED
    BY <1>4, <1>6, <1>7, <1>8, <1>9, <1>10, <1>11 DEF Good

-----------------------------------------------------------------------------
(* A synth is made from p. *)

Created(s, t, x, p) ==
    /\ x \in Synth /\ s.synth[x] = Null /\ p \in s.lib /\ (s.careful => p[2] = 0)
    /\ t.synth = [s.synth EXCEPT ![x] = p] /\ Recount(s, t, p, 1)
    /\ Still(s, t) /\ SameLists(s, t) /\ Unsent(s, t) /\ t.lib = s.lib /\ t.wild = s.wild

LEMMA CreatedGood ==
    ASSUME NEW s, NEW t, NEW x, NEW p, Good(s), Created(s, t, x, p)
    PROVE  Good(t)
  <1>1. Base(s) /\ Points(s, p) /\ p \in s.lib /\ p \in Ptr /\ x \in Synth /\ p[1] \in Block
    BY DEF Good, Created, Base, Pointers, Points, Ptr
  <1>2. Recounted(s, t, p, 1)
    BY <1>1, RecountOK DEF Created
  <1>3. /\ t.synth \in [Synth -> Ptr \cup {Null}]
        /\ \A y \in Synth : t.synth[y] = IF y = x THEN p ELSE s.synth[y]
    BY <1>1 DEF Created, Base, Typed
  <1>4. Prefix(t) /\ (\A q : Points(t, q) <=> Points(s, q)) /\ \A q : NameIn(t, q) = NameIn(s, q)
    BY <1>1, StillPoints DEF Created, Base
  <1>5. Base(t)
    <2>1. Typed(t)
      BY <1>1, <1>2, <1>3 DEF Base, Typed, Created, Still, SameLists, Recounted, Unsent
    <2>2. Pointers(t)
      BY <1>4, <1>1, <1>3 DEF Base, Pointers, Created, Unsent
    <2>3. QED
      BY <2>1, <2>2, <1>4, <1>2 DEF Base, Recounted
  <1>6. Once(t) /\ \A b : Awaited(t, b) <=> Awaited(s, b)
    BY SameListsOK DEF Created, Good
  <1>7. Library(t)
    BY DEF Created, Still, Good, Library
  <1>8. Names(t)
    BY <1>4 DEF Names, Good, Created
  <1>9. ASSUME NEW b \in Block PROVE BlockOK(t, b)
    <2>1. BlockOK(s, b) /\ t.mem = s.mem /\ t.lib = s.lib /\ t.lost = s.lost
          /\ (Leaving(t, b) <=> Leaving(s, b)) /\ Original(b) # Null
      BY OriginalPtr DEF Good, Blocks, Created, Still, Unsent, Leaving
    <2>2. CASE p # Original(b)
      <3>1. Users(t, b) = Users(s, b)
        BY <2>2, <2>1, <1>3 DEF Users, Created
      <3>2. SameBlock(s, t, b)
        BY <3>1, <2>1, <2>2, <1>2, <1>6 DEF SameBlock, Recounted
      <3>3. QED
        BY <3>2, <2>1, SameBlockOK
    <2>3. CASE p = Original(b)
      <3>1. Users(t, b) = Users(s, b) \cup {x} /\ x \notin Users(s, b)
        BY <2>3, <2>1, <1>3, <1>1 DEF Users, Created
      <3>2. Cardinality(Users(t, b)) = Cardinality(Users(s, b)) + 1
        BY <3>1, UsersFinite, FS_AddElement
      <3>3. /\ s.mem[b] = "live" /\ b \notin s.lost /\ ~Awaited(s, b) /\ ~Leaving(s, b)
            /\ Counts(s, b) /\ Original(b) \in s.lib
        BY <2>1, <2>3, <1>1 DEF BlockOK
      <3>4. t.refCount[b][0] = s.refCount[b][0] + 1
        BY <1>2, <2>3 DEF Recounted
      <3>5. Counts(t, b)
        BY <3>2, <3>3, <3>4, <2>1, <1>6, UsersFinite DEF Counts
      <3>6. QED
        BY <3>3, <3>5, <2>1, <1>6 DEF BlockOK
    <2>4. QED
      BY <2>2, <2>3
  <1>10. InTime(t)
    <2> SUFFICES ASSUME t.careful
                 PROVE  /\ ~t.wild /\ Late(t)
                        /\ \A y \in Synth : t.synth[y] # Null => t.mem[t.synth[y][1]] = "live" /\ t.synth[y][2] = 0
      BY DEF InTime, Late
    <2>1. s.careful /\ ~s.wild /\ Late(s) /\ t.mem = s.mem /\ t.wild = s.wild /\ t.deletes = s.deletes
      BY DEF Created, Still, Good, InTime, Late, Unsent
    <2>2. s.mem[p[1]] = "live" /\ p[2] = 0
      BY <1>1, <2>1 DEF Good, Library, Created
    <2>3. Late(t)
      BY <2>1 DEF Late
    <2>4. QED
      BY <2>1, <2>2, <2>3, <1>3 DEF Good, InTime
  <1>11. QED
    BY <1>5, <1>6, <1>7, <1>8, <1>9, <1>10 DEF Good, Blocks

-----------------------------------------------------------------------------
(* A synth ends: it gives up its definition, or finds it freed. *)

Ended(s, t, x) ==
    /\ x \in Synth /\ s.synth[x] # Null /\ t.synth = [s.synth EXCEPT ![x] = Null]
    /\ LET p == s.synth[x]
       IN  \/ /\ s.mem[p[1]] = "live" /\ Recount(s, t, p, -1) /\ t.wild = s.wild
              /\ IF s.refCount[p[1]][p[2]] - 1 <= 0 THEN Sent(s, t, p) ELSE Unsent(s, t)
           \/ /\ s.mem[p[1]] # "live" /\ t.refCount = s.refCount /\ t.wild = TRUE
              /\ Sent(s, t, p) \/ Unsent(s, t)
    /\ Still(s, t) /\ SameLists(s, t) /\ t.lib = s.lib

LEMMA EndedBlock ==
    ASSUME NEW s, NEW t, NEW x, Good(s), Ended(s, t, x), NEW b \in Block
    PROVE  BlockOK(t, b)
  <1>0. PICK p : p = s.synth[x]
    BY SMTT(40)
  <1>1. Base(s) /\ Points(s, p) /\ BlockOK(s, b) /\ p \in Ptr /\ p # Null /\ x \in Synth
    BY <1>0 DEF Good, Ended, Base, Pointers, Blocks, Points
  <1>2. /\ \A c : Awaited(t, c) <=> Awaited(s, c)
        /\ t.mem = s.mem /\ t.lib = s.lib /\ Original(b) # Null
    BY SameListsOK, OriginalPtr DEF Ended, Still
  <1>3. \A y \in Synth : t.synth[y] = IF y = x THEN Null ELSE s.synth[y]
    BY <1>1 DEF Ended, Base, Typed
  <1>4. Unsent(s, t) => /\ Leaving(t, b) <=> Leaving(s, b)
                        /\ b \in t.lost <=> b \in s.lost
    BY DEF Unsent, Leaving
  <1>5. Sent(s, t, p) => SentOnly(s, t, p)
    BY <1>1, SentOK DEF Ended
  <1>6. Sent(s, t, p) \/ Unsent(s, t)
    BY <1>0 DEF Ended
  <1>7. s.mem[p[1]] = "live" => Recounted(s, t, p, -1) /\ s.refCount[p[1]][p[2]] \in Int
    BY <1>1, <1>0, RecountOK DEF Ended
  <1>8. CASE p # Original(b)
    <2>1. Users(t, b) = Users(s, b)
      BY <1>8, <1>0, <1>2, <1>3 DEF Users
    <2>2. /\ Leaving(t, b) <=> Leaving(s, b)
          /\ b \in t.lost <=> b \in s.lost
      BY <1>4, <1>5, <1>6, <1>8 DEF SentOnly
    <2>3. t.refCount[b][0] = s.refCount[b][0]
      BY <1>7, <1>8, <1>0 DEF Recounted, Ended
    <2>4. SameBlock(s, t, b)
      BY <2>1, <2>2, <2>3, <1>2 DEF SameBlock
    <2>5. QED
      BY <2>4, <1>1, SameBlockOK
  <1>9. CASE p = Original(b) /\ s.mem[b] = "live"
    <2>1. Users(t, b) = Users(s, b) \ {x} /\ x \in Users(s, b)
      BY <1>9, <1>0, <1>1, <1>2, <1>3 DEF Users
    <2>2. Cardinality(Users(t, b)) = Cardinality(Users(s, b)) - 1
      BY <2>1, UsersFinite, FS_RemoveElement, ZenonT(60)
    <2>3. b \notin s.lost /\ ~Awaited(s, b) /\ ~Leaving(s, b) /\ Counts(s, b)
      BY <2>1, <1>1, <1>9 DEF BlockOK
    <2>4. p[1] = b /\ p[2] = 0 /\ t.refCount[b][0] = s.refCount[b][0] - 1
      BY <1>7, <1>9, OriginalPtr DEF Recounted
    <2>5. Counts(t, b)
      BY <2>2, <2>3, <2>4, <1>2, UsersFinite DEF Counts
    <2>6. t.refCount[b][0] = Cardinality(Users(t, b)) + IF Original(b) \in t.lib THEN 1 ELSE 0
      BY <2>5, <2>3, <1>2 DEF Counts
    <2>7. CASE s.refCount[p[1]][p[2]] - 1 <= 0
      <3>1. Users(t, b) = {} /\ Original(b) \notin t.lib
        BY <2>7, <2>4, <2>6, UsersFinite
      <3>2. Leaving(t, b) \/ b \in t.lost
        BY <2>7, <1>5, <1>9, <1>0, <2>4 DEF Ended, SentOnly
      <3>3. QED
        BY <3>1, <3>2, <2>5, <2>3, <1>2, <1>9 DEF BlockOK
    <2>8. CASE ~(s.refCount[p[1]][p[2]] - 1 <= 0)
      <3>1. Users(t, b) # {} \/ Original(b) \in t.lib
        BY <2>8, <2>4, <2>6, <1>7, <1>9, UsersFinite
      <3>2. Unsent(s, t)
        BY <2>8, <1>9, <1>0, <2>4 DEF Ended
      <3>3. QED
        BY <3>1, <3>2, <1>4, <2>5, <2>3, <1>2, <1>9 DEF BlockOK
    <2>9. QED
      BY <2>7, <2>8
  <1>10. CASE p = Original(b) /\ s.mem[b] # "live"
    <2>1. s.mem[b] # "unused"
      BY <1>10, <1>1, OriginalPtr DEF Points
    <2>2. QED
      BY <2>1, <1>10, <1>1, <1>2 DEF BlockOK
  <1>11. QED
    BY <1>8, <1>9, <1>10

LEMMA EndedGood ==
    ASSUME NEW s, NEW t, NEW x, Good(s), Ended(s, t, x)
    PROVE  Good(t)
  <1>0. PICK p : p = s.synth[x]
    BY SMTT(40)
  <1>1. Base(s) /\ Points(s, p) /\ p \in Ptr /\ p # Null /\ x \in Synth /\ p[1] \in Block
    BY <1>0 DEF Good, Ended, Base, Pointers, Points, Ptr
  <1>2. DOMAIN t.refCount = Block /\ Shapes(t)
    <2>1. CASE s.mem[p[1]] = "live"
      BY <2>1, <1>1, <1>0, RecountOK, SMTT(40) DEF Ended, Recounted
    <2>2. CASE s.mem[p[1]] # "live"
      BY <2>2, <1>1, <1>0 DEF Ended, Still, Base, Typed, Shapes, Shaped
    <2>3. QED
      BY <2>1, <2>2
  <1>3. /\ t.synth \in [Synth -> Ptr \cup {Null}]
        /\ \A y \in Synth : t.synth[y] = IF y = x THEN Null ELSE s.synth[y]
    BY <1>1 DEF Ended, Base, Typed
  <1>4. Prefix(t) /\ (\A q : Points(t, q) <=> Points(s, q)) /\ \A q : NameIn(t, q) = NameIn(s, q)
    BY <1>1, StillPoints DEF Ended, Base
  <1>5. MessagesOK(t)
    <2>1. Sent(s, t, p) => SentOnly(s, t, p)
      BY <1>1, SentOK DEF Ended
    <2>2. Unsent(s, t) => MessagesOK(t)
      BY <1>4, <1>1 DEF Unsent, MessagesOK, Base, Typed, Pointers
    <2>3. QED
      BY <2>1, <2>2, <1>0 DEF Ended, SentOnly
  <1>6. Base(t)
    <2>0. t.wild \in BOOLEAN
      BY <1>1 DEF Ended, Base, Typed
    <2>1. Typed(t)
      BY <2>0, <1>1, <1>2, <1>3, <1>5 DEF Base, Typed, Ended, Still, SameLists, MessagesOK
    <2>2. Pointers(t)
      BY <1>4, <1>1, <1>3, <1>5 DEF Base, Pointers, Ended, MessagesOK
    <2>3. QED
      BY <2>1, <2>2, <1>4, <1>2 DEF Base
  <1>7. Once(t)
    BY SameListsOK DEF Ended, Good
  <1>8. Library(t)
    BY DEF Ended, Still, Good, Library
  <1>9. Names(t)
    BY <1>4 DEF Names, Good, Ended
  <1>10. InTime(t)
    <2> SUFFICES ASSUME t.careful
                 PROVE  /\ ~t.wild /\ Late(t)
                        /\ \A y \in Synth : t.synth[y] # Null => t.mem[t.synth[y][1]] = "live" /\ t.synth[y][2] = 0
      BY DEF InTime, Late
    <2>1. s.careful /\ ~s.wild /\ Late(s) /\ t.mem = s.mem
      BY DEF Ended, Still, Good, InTime, Late
    <2>2. s.mem[p[1]] = "live" /\ p[2] = 0
      BY <1>0, <1>1, <2>1 DEF Good, InTime
    <2>3. ~Leaving(s, p[1])
      <3>1. x \in Users(s, p[1])
        BY <2>2, <1>0, <1>1, OriginalPtr DEF Users
      <3>2. QED
        BY <3>1, <2>2, <1>1 DEF Good, Blocks, BlockOK
    <2>4. Late(t)
      <3>1. Unsent(s, t) => Late(t)
        BY <2>1 DEF Unsent, Late
      <3>2. Sent(s, t, p) => Late(t)
        BY <2>1, <2>2, <2>3, <1>1, SentLate DEF Ended
      <3>3. QED
        BY <3>1, <3>2, <1>0 DEF Ended
    <2>5. t.wild = s.wild
      BY <2>2, <1>0 DEF Ended
    <2>6. QED
      BY <2>1, <2>4, <2>5, <1>3, SMTT(40) DEF Good, InTime
  <1>11. QED
    BY <1>6, <1>7, <1>8, <1>9, <1>10, EndedBlock DEF Good, Blocks

-----------------------------------------------------------------------------
(* Memory is freed: by a message, or by /d_freeAll. *)

FreedOnly(s, t) ==
    /\ t.mem \in [Block -> {"unused", "live", "freed"}] /\ t.shape = s.shape /\ t.refCount = s.refCount
    /\ \A b \in Block : t.mem[b] = "unused" <=> s.mem[b] = "unused"

LEMMA FreedOnlyOK ==
    ASSUME NEW s, NEW t, Base(s), FreedOnly(s, t)
    PROVE  /\ Prefix(t) /\ Shapes(t)
           /\ \A p : Points(t, p) <=> Points(s, p)
           /\ \A p : NameIn(t, p) = NameIn(s, p)
  <1>1. Prefix(t)
    BY DEF Base, Prefix, FreedOnly
  <1>2. Shapes(t)
    BY DEF Base, Shapes, Shaped, FreedOnly
  <1>3. \A p : Points(t, p) <=> Points(s, p)
    BY DEF Points, FreedOnly, Ptr
  <1>4. QED
    BY <1>1, <1>2, <1>3 DEF NameIn, FreedOnly

Deleted(s, t) ==
    /\ s.deletes # <<>> /\ t.deletes = Tail(s.deletes)
    /\ LET p == Head(s.deletes)
       IN  /\ t.mem = IF p[2] = 0 THEN [s.mem EXCEPT ![p[1]] = "freed"] ELSE s.mem
           /\ t.wild = (s.wild \/ s.mem[p[1]] # "live")
    /\ SameLists(s, t) /\ t.shape = s.shape /\ t.refCount = s.refCount /\ t.lib = s.lib
    /\ t.synth = s.synth /\ t.lost = s.lost /\ t.careful = s.careful

LEMMA DeletedGood ==
    ASSUME NEW s, NEW t, Good(s), Deleted(s, t)
    PROVE  Good(t)
  <1>0. PICK p : p = Head(s.deletes)
    OBVIOUS
  <1>1. Base(s) /\ s.deletes \in Seq(Ptr) /\ s.mem \in [Block -> {"unused", "live", "freed"}]
    BY DEF Good, Base, Typed
  <1>2. p \in Ptr /\ t.deletes \in Seq(Ptr) /\ Popped(s.deletes, t.deletes, p)
    BY <1>0, <1>1, TailPopped DEF Deleted
  <1>3. /\ 1 \in In(s.deletes) /\ s.deletes[1] = p
        /\ \A i \in In(t.deletes) : i \in Nat /\ i # 0 /\ i + 1 \in In(s.deletes) /\ t.deletes[i] = s.deletes[i + 1]
        /\ \A i \in In(s.deletes) : i = 1 \/ (1 < i /\ \E j \in In(t.deletes) : i = j + 1 /\ t.deletes[j] = s.deletes[i])
    BY <1>1, <1>2, PoppedAt, SMTT(40)
  <1>4. Points(s, p) /\ p[1] \in Block /\ s.mem[p[1]] # "unused"
    BY <1>1, <1>3 DEF Base, Pointers, Points, Ptr
  <1>5. /\ t.mem \in [Block -> {"unused", "live", "freed"}]
        /\ \A b \in Block : p # Original(b) => t.mem[b] = s.mem[b]
        /\ \A b \in Block : p = Original(b) => t.mem[b] = "freed"
    <2>1. CASE p[2] = 0
      BY <2>1, <1>0, <1>1, <1>2, <1>4, OriginalPtr DEF Deleted
    <2>2. CASE p[2] # 0
      BY <2>2, <1>0, <1>1, <1>2, OriginalPtr DEF Deleted
    <2>3. QED
      BY <2>1, <2>2
  <1>6. FreedOnly(s, t)
    <2>1. \A b \in Block : p = Original(b) => s.mem[b] # "unused"
      BY <1>4, OriginalPtr
    <2>2. QED
      BY <2>1, <1>5 DEF FreedOnly, Deleted
  <1>7. /\ Prefix(t) /\ Shapes(t) /\ (\A q : Points(t, q) <=> Points(s, q))
        /\ \A q : NameIn(t, q) = NameIn(s, q)
    BY <1>1, <1>6, FreedOnlyOK
  <1>8. Base(t)
    <2>0. Len(t.deletes) <= FifoSize /\ t.wild \in BOOLEAN
      <3>1. Len(t.deletes) <= FifoSize
        BY <1>1, <1>2, DefAssumption DEF Popped, Base, Typed
      <3>2. t.wild \in BOOLEAN
        BY DEF Deleted
      <3>3. QED
        BY <3>1, <3>2
    <2>1. Typed(t)
      BY <2>0, <1>1, <1>2, <1>5 DEF Base, Typed, Deleted, SameLists
    <2>2. Pointers(t)
      BY <1>7, <1>1, <1>3, ZenonT(60) DEF Base, Pointers, Deleted
    <2>3. QED
      BY <2>1, <2>2, <1>7 DEF Base
  <1>9. Once(t) /\ \A b : Awaited(t, b) <=> Awaited(s, b)
    BY SameListsOK DEF Deleted, Good
  <1>10. \A b \in Block : p = Original(b) => Leaving(s, b)
    BY <1>3 DEF Leaving
  <1>11. \A b \in Block : p = Original(b) => Original(b) \notin s.lib
    BY <1>10 DEF Good, Blocks, BlockOK
  <1>12. Library(t)
    <2> SUFFICES ASSUME NEW q \in t.lib PROVE t.mem[q[1]] = "live" /\ Original(q[1]) \in t.lib
      BY DEF Library
    <2>1. q \in s.lib /\ q[1] \in Block /\ s.mem[q[1]] = "live" /\ Original(q[1]) \in s.lib
      BY <1>1 DEF Deleted, Good, Library, Base, Typed, Ptr
    <2>2. QED
      BY <2>1, <1>11, <1>5 DEF Deleted
  <1>13. Names(t)
    BY <1>7 DEF Names, Good, Deleted
  <1>14. ASSUME NEW b \in Block PROVE BlockOK(t, b)
    <2>1. BlockOK(s, b) /\ Users(t, b) = Users(s, b)
      BY DEF Good, Blocks, Users, Deleted
    <2>2. CASE p = Original(b)
      <3>1. t.mem[b] = "freed" /\ ~Awaited(t, b) /\ Original(b) \notin t.lib
        BY <2>2, <2>1, <1>5, <1>9, <1>10, <1>11 DEF BlockOK, Deleted
      <3>2. QED
        BY <3>1 DEF BlockOK
    <2>3. CASE p # Original(b)
      <3>1. Leaving(t, b) <=> Leaving(s, b)
        BY <2>3, <1>3 DEF Leaving
      <3>2. SameBlock(s, t, b)
        BY <3>1, <2>1, <2>3, <1>5, <1>9 DEF SameBlock, Deleted
      <3>3. QED
        BY <3>2, <2>1, SameBlockOK
    <2>4. QED
      BY <2>2, <2>3
  <1>15. InTime(t)
    <2> SUFFICES ASSUME t.careful
                 PROVE  /\ ~t.wild /\ Late(t)
                        /\ \A y \in Synth : t.synth[y] # Null => t.mem[t.synth[y][1]] = "live" /\ t.synth[y][2] = 0
      BY DEF InTime, Late
    <2>1. s.careful /\ ~s.wild /\ Late(s)
      BY DEF Deleted, Good, InTime, Late
    <2>2. s.mem[p[1]] = "live"
      BY <2>1, <1>3 DEF Late
    <2>3. ~t.wild
      BY <2>1, <2>2, <1>0 DEF Deleted
    <2>4. ASSUME NEW i \in In(t.deletes) PROVE t.mem[t.deletes[i][1]] = "live"
      <3>1. i + 1 \in In(s.deletes) /\ t.deletes[i] = s.deletes[i + 1] /\ 1 < i + 1
        BY <1>3
      <3>2. s.mem[s.deletes[i + 1][1]] = "live" /\ (p[2] = 0 => s.deletes[i + 1][1] # p[1])
        BY <3>1, <2>1, <1>3 DEF Late
      <3>3. s.deletes[i + 1] \in Ptr /\ s.deletes[i + 1][1] \in Block
        BY <3>1, <1>1 DEF In, Ptr
      <3>4. p # Original(s.deletes[i + 1][1])
        BY <3>2, <3>3, OriginalPtr
      <3>5. QED
        BY <3>1, <3>2, <3>3, <3>4, <1>5
    <2>5. ASSUME NEW i \in In(t.deletes), NEW j \in In(t.deletes), i < j, t.deletes[i][2] = 0
          PROVE  t.deletes[j][1] # t.deletes[i][1]
      <3>1. /\ i + 1 \in In(s.deletes) /\ t.deletes[i] = s.deletes[i + 1]
            /\ j + 1 \in In(s.deletes) /\ t.deletes[j] = s.deletes[j + 1] /\ i + 1 < j + 1
        BY <1>3, <2>5
      <3>2. QED
        BY <3>1, <2>5, <2>1 DEF Late
    <2>6. ASSUME NEW y \in Synth, t.synth[y] # Null
          PROVE  t.mem[t.synth[y][1]] = "live" /\ t.synth[y][2] = 0
      <3>0. PICK q : q = s.synth[y]
        BY SMTT(40)
      <3>1. q \in Ptr /\ q[1] \in Block /\ q[2] = 0 /\ s.mem[q[1]] = "live" /\ t.synth[y] = q
        BY <3>0, <2>6, <2>1, <1>1 DEF Deleted, Good, InTime, Base, Pointers, Points, Ptr
      <3>2. y \in Users(s, q[1])
        BY <3>0, <3>1, OriginalPtr DEF Users
      <3>3. ~Leaving(s, q[1])
        BY <3>1, <3>2 DEF Good, Blocks, BlockOK
      <3>4. QED
        BY <3>1, <3>3, <1>10, <1>5
    <2>7. QED
      BY <2>3, <2>4, <2>5, <2>6 DEF Late
  <1>16. QED
    BY <1>8, <1>9, <1>12, <1>13, <1>14, <1>15 DEF Good, Blocks

FreedAll(s, t) ==
    /\ s.careful => /\ \A x \in Synth : s.synth[x] = Null
                    /\ \A p \in s.lib : s.shape[p[1]].variants = <<>>
    /\ t.mem = [b \in Block |-> IF Original(b) \in s.lib THEN "freed" ELSE s.mem[b]]
    /\ t.wild \in {s.wild} \cup {TRUE : p \in {p \in s.lib : p[2] # 0 /\ Original(p[1]) \in s.lib}}
    /\ t.lib = {}
    /\ SameLists(s, t) /\ Unsent(s, t) /\ t.shape = s.shape /\ t.refCount = s.refCount
    /\ t.synth = s.synth /\ t.careful = s.careful

LEMMA FreedAllGood ==
    ASSUME NEW s, NEW t, Good(s), FreedAll(s, t)
    PROVE  Good(t)
  <1>1. Base(s) /\ s.mem \in [Block -> {"unused", "live", "freed"}]
    BY DEF Good, Base, Typed
  <1>2. /\ t.mem \in [Block -> {"unused", "live", "freed"}]
        /\ \A b \in Block : Original(b) \notin s.lib => t.mem[b] = s.mem[b]
        /\ \A b \in Block : Original(b) \in s.lib => t.mem[b] = "freed"
    BY <1>1 DEF FreedAll
  <1>3. FreedOnly(s, t)
    <2>1. \A b \in Block : Original(b) \in s.lib => s.mem[b] # "unused"
      BY OriginalPtr DEF Good, Library
    <2>2. QED
      BY <2>1, <1>2 DEF FreedOnly, FreedAll
  <1>4. /\ Prefix(t) /\ Shapes(t) /\ (\A q : Points(t, q) <=> Points(s, q))
        /\ \A q : NameIn(t, q) = NameIn(s, q)
    BY <1>1, <1>3, FreedOnlyOK
  <1>5. Base(t)
    <2>0. t.wild \in BOOLEAN /\ IsFiniteSet(t.lib) /\ Cardinality(t.lib) <= MaxGraphDefs
      <3>1. t.wild \in BOOLEAN
        BY <1>1 DEF FreedAll, Base, Typed
      <3>2. IsFiniteSet({}) /\ Cardinality({}) = 0
        BY FS_EmptySet
      <3>3. t.lib = {}
        BY DEF FreedAll
      <3>4. QED
        BY <3>1, <3>2, <3>3, DefAssumption
    <2>1. Typed(t)
      BY <2>0, <1>1, <1>2 DEF Base, Typed, FreedAll, SameLists, Unsent
    <2>2. Pointers(t)
      BY <1>4, <1>1 DEF Base, Pointers, FreedAll, Unsent
    <2>3. QED
      BY <2>1, <2>2, <1>4 DEF Base
  <1>6. Once(t) /\ \A b : Awaited(t, b) <=> Awaited(s, b)
    BY SameListsOK DEF FreedAll, Good
  <1>7. Library(t) /\ Names(t)
    BY DEF Library, Names, FreedAll
  <1>8. ASSUME NEW b \in Block PROVE BlockOK(t, b)
    <2>1. /\ BlockOK(s, b) /\ Users(t, b) = Users(s, b) /\ t.lost = s.lost
          /\ Leaving(t, b) <=> Leaving(s, b)
      BY DEF Good, Blocks, Users, FreedAll, Unsent, Leaving
    <2>2. CASE Original(b) \in s.lib
      <3>1. t.mem[b] = "freed" /\ ~Awaited(t, b) /\ Original(b) \notin t.lib
        BY <2>2, <2>1, <1>2, <1>6 DEF BlockOK, FreedAll
      <3>2. QED
        BY <3>1 DEF BlockOK
    <2>3. CASE Original(b) \notin s.lib
      <3>1. SameBlock(s, t, b)
        BY <2>3, <2>1, <1>2, <1>6 DEF SameBlock, FreedAll
      <3>2. QED
        BY <3>1, <2>1, SameBlockOK
    <2>4. QED
      BY <2>2, <2>3
  <1>9. InTime(t)
    <2> SUFFICES ASSUME t.careful
                 PROVE  /\ ~t.wild /\ Late(t)
                        /\ \A y \in Synth : t.synth[y] # Null => t.mem[t.synth[y][1]] = "live" /\ t.synth[y][2] = 0
      BY DEF InTime, Late
    <2>1. /\ s.careful /\ ~s.wild /\ Late(s) /\ t.deletes = s.deletes
          /\ \A x \in Synth : s.synth[x] = Null
          /\ \A p \in s.lib : s.shape[p[1]].variants = <<>>
      BY DEF FreedAll, Good, InTime, Late, Unsent
    <2>2. \A p \in s.lib : p[2] = 0
      <3> SUFFICES ASSUME NEW p \in s.lib PROVE p[2] = 0
        OBVIOUS
      <3>1. Points(s, p) /\ s.shape[p[1]].variants = <<>>
        BY <2>1, <1>1 DEF Base, Pointers
      <3>2. QED
        BY <3>1 DEF Points
    <2>3. {p \in s.lib : p[2] # 0 /\ Original(p[1]) \in s.lib} = {}
      BY <2>2
    <2>4. ~t.wild
      BY <2>1, <2>3 DEF FreedAll
    <2>5. ASSUME NEW i \in In(t.deletes) PROVE t.mem[t.deletes[i][1]] = "live"
      <3>0. PICK q : q = s.deletes[i]
        OBVIOUS
      <3>1. i \in In(s.deletes) /\ t.deletes[i] = q /\ s.mem[q[1]] = "live" /\ Points(s, q)
        BY <3>0, <2>1, <1>1 DEF Late, Base, Pointers
      <3>2. q \in Ptr /\ q[1] \in Block
        BY <3>1 DEF Points, Ptr
      <3>3. CASE Original(q[1]) \in s.lib
        <4>1. s.shape[q[1]].variants = <<>>
          BY <3>3, <3>2, <2>1, OriginalPtr
        <4>2. q[2] = 0
          BY <4>1, <3>1 DEF Points
        <4>3. Leaving(s, q[1])
          BY <4>2, <3>0, <3>1, <3>2, OriginalPtr DEF Leaving
        <4>4. QED
          BY <4>3, <3>1, <3>2, <3>3 DEF Good, Blocks, BlockOK
      <3>4. QED
        BY <3>1, <3>2, <3>3, <1>2
    <2>6. Late(t)
      BY <2>5, <2>1 DEF Late
    <2>7. QED
      BY <2>1, <2>4, <2>6 DEF FreedAll
  <1>10. QED
    BY <1>5, <1>6, <1>7, <1>8, <1>9 DEF Good, Blocks

-----------------------------------------------------------------------------
(* What World_AddGraphDef adds: the original if there is room, and then as *)
(* many variants as there is room for.                                     *)

LEMMA LeastOne ==
    ASSUME NEW T, T \subseteq Nat, T # {}
    PROVE  \E m \in T : \A n \in T : m <= n
  <1>1. PICK m \in T : \A n \in T : ~(<<n, m>> \in OpToRel(<, Nat))
    BY WFMin, NatLessThanWellFounded, Zenon
  <1>2. \A n \in T : ~(n < m)
    BY <1>1 DEF OpToRel
  <1>3. QED
    BY <1>2

LEMMA GreatestOne ==
    ASSUME NEW n \in Nat, NEW T, T \subseteq 1 .. n, T # {}
    PROVE  \E m \in T : \A i \in T : i <= m
  <1> DEFINE D == {n - i : i \in T}
  <1>0. \A i \in T : n - i \in Nat
    OBVIOUS
  <1>1. D \subseteq Nat /\ D # {}
    BY <1>0
  <1>2. PICK d \in D : \A e \in D : d <= e
    BY <1>1, LeastOne
  <1>3. PICK m \in T : d = n - m
    BY <1>2
  <1>4. \A i \in T : n - m <= n - i
    BY <1>2, <1>3
  <1>5. \A i \in T : i <= m
    BY <1>4
  <1>6. QED
    BY <1>5

NamedIn(s, l, name) == \E q \in l : NameIn(s, q) = name
FirstIn(s, b) ==
    IF Cardinality(s.lib) >= MaxGraphDefs \/ NamedIn(s, s.lib, s.shape[b].name) THEN s.lib
    ELSE s.lib \cup {Original(b)}
NewIn(s, b) ==
    {i \in DOMAIN s.shape[b].variants :
        /\ ~NamedIn(s, FirstIn(s, b), s.shape[b].variants[i])
        /\ \A j \in 1 .. i - 1 : s.shape[b].variants[j] # s.shape[b].variants[i]}
Earlier(s, b, i) == {j \in NewIn(s, b) : j < i}
Fitting(s, b) == {i \in NewIn(s, b) : Cardinality(FirstIn(s, b)) + Cardinality(Earlier(s, b, i)) < MaxGraphDefs}
LibWith(s, b) == FirstIn(s, b) \cup {<<b, i>> : i \in Fitting(s, b)}

LEMMA FirstInOK ==
    ASSUME NEW s, Base(s), NEW b \in Block
    PROVE  /\ IsFiniteSet(FirstIn(s, b)) /\ Cardinality(FirstIn(s, b)) \in Nat
           /\ Cardinality(FirstIn(s, b)) <= MaxGraphDefs
  <1>1. IsFiniteSet(s.lib) /\ Cardinality(s.lib) \in Nat /\ Cardinality(s.lib) <= MaxGraphDefs
    BY FS_CardinalityType DEF Base, Typed
  <1>2. CASE Cardinality(s.lib) >= MaxGraphDefs \/ NamedIn(s, s.lib, s.shape[b].name)
    BY <1>1, <1>2 DEF FirstIn
  <1>3. CASE ~(Cardinality(s.lib) >= MaxGraphDefs \/ NamedIn(s, s.lib, s.shape[b].name))
    <2>1. FirstIn(s, b) = s.lib \cup {Original(b)}
      BY <1>3 DEF FirstIn
    <2>2. /\ IsFiniteSet(s.lib \cup {Original(b)})
          /\ Cardinality(s.lib \cup {Original(b)}) = IF Original(b) \in s.lib THEN Cardinality(s.lib) ELSE Cardinality(s.lib) + 1
      BY <1>1, FS_AddElement
    <2>3. QED
      BY <2>1, <2>2, <1>1, <1>3, DefAssumption
  <1>4. QED
    BY <1>2, <1>3

LEMMA FittingOK ==
    ASSUME NEW s, Base(s), NEW b \in Block, s.mem[b] # "unused"
    PROVE  /\ IsFiniteSet(Fitting(s, b)) /\ Cardinality(Fitting(s, b)) \in Nat
           /\ Cardinality(FirstIn(s, b)) + Cardinality(Fitting(s, b)) <= MaxGraphDefs
           /\ Fitting(s, b) # {} => Cardinality(FirstIn(s, b)) < MaxGraphDefs
           /\ Fitting(s, b) \subseteq NewIn(s, b)
  <1>0. PICK n : n = Len(s.shape[b].variants)
    OBVIOUS
  <1>1. n \in Nat /\ DOMAIN s.shape[b].variants = 1 .. n
    BY <1>0 DEF Base, Shapes, Shaped, Def
  <1>2. IsFiniteSet(1 .. n)
    BY <1>1, FS_Interval
  <1>3. NewIn(s, b) \subseteq 1 .. n
    BY <1>1 DEF NewIn
  <1>4. Fitting(s, b) \subseteq 1 .. n /\ Fitting(s, b) \subseteq NewIn(s, b)
    BY <1>3 DEF Fitting
  <1>5. IsFiniteSet(Fitting(s, b)) /\ Cardinality(Fitting(s, b)) \in Nat
    BY <1>2, <1>4, FS_Subset, FS_CardinalityType
  <1>6. \A i : IsFiniteSet(Earlier(s, b, i)) /\ Cardinality(Earlier(s, b, i)) \in Nat
    <2> SUFFICES ASSUME NEW i PROVE IsFiniteSet(Earlier(s, b, i)) /\ Cardinality(Earlier(s, b, i)) \in Nat
      OBVIOUS
    <2>1. Earlier(s, b, i) \in SUBSET (1 .. n)
      BY <1>3 DEF Earlier
    <2>2. QED
      BY <2>1, <1>2, FS_Subset, FS_CardinalityType
  <1>7. Cardinality(FirstIn(s, b)) \in Nat /\ Cardinality(FirstIn(s, b)) <= MaxGraphDefs
    BY FirstInOK
  <1>8. CASE Fitting(s, b) = {}
    BY <1>8, <1>4, <1>5, <1>7, FS_EmptySet, DefAssumption
  <1>9. CASE Fitting(s, b) # {}
    <2>1. PICK m \in Fitting(s, b) : \A i \in Fitting(s, b) : i <= m
      BY <1>9, <1>1, <1>4, GreatestOne
    <2>2. m \in 1 .. n /\ Cardinality(FirstIn(s, b)) + Cardinality(Earlier(s, b, m)) < MaxGraphDefs
      BY <2>1, <1>4 DEF Fitting
    <2>3. Fitting(s, b) \subseteq Earlier(s, b, m) \cup {m}
      <3> SUFFICES ASSUME NEW i \in Fitting(s, b), i # m PROVE i \in Earlier(s, b, m)
        OBVIOUS
      <3>1. i \in NewIn(s, b) /\ i \in 1 .. n /\ i <= m
        BY <1>4, <2>1
      <3>2. QED
        BY <3>1, <2>2 DEF Earlier
    <2>4. /\ IsFiniteSet(Earlier(s, b, m) \cup {m})
          /\ Cardinality(Earlier(s, b, m) \cup {m}) <= Cardinality(Earlier(s, b, m)) + 1
          /\ Cardinality(Earlier(s, b, m) \cup {m}) \in Nat
      <3>1. /\ IsFiniteSet(Earlier(s, b, m) \cup {m})
            /\ Cardinality(Earlier(s, b, m) \cup {m}) =
                  IF m \in Earlier(s, b, m) THEN Cardinality(Earlier(s, b, m)) ELSE Cardinality(Earlier(s, b, m)) + 1
        BY <1>6, FS_AddElement
      <3>2. QED
        BY <3>1, <1>6
    <2>5. Cardinality(Fitting(s, b)) <= Cardinality(Earlier(s, b, m) \cup {m})
      BY <2>3, <2>4, FS_Subset
    <2>6. QED
      BY <2>2, <2>4, <2>5, <1>4, <1>5, <1>6, <1>7, DefAssumption
  <1>10. QED
    BY <1>8, <1>9

LEMMA LibWithSize ==
    ASSUME NEW s, Base(s), NEW b \in Block, s.mem[b] # "unused"
    PROVE  IsFiniteSet(LibWith(s, b)) /\ Cardinality(LibWith(s, b)) <= MaxGraphDefs
  <1>0. PICK A : A = Fitting(s, b)
    OBVIOUS
  <1> DEFINE V == {<<b, i>> : i \in A}
             f == [i \in A |-> <<b, i>>]
  <1>1. IsFiniteSet(A) /\ Cardinality(A) \in Nat /\ Cardinality(FirstIn(s, b)) + Cardinality(A) <= MaxGraphDefs
    BY <1>0, FittingOK
  <1>2. f \in Surjection(A, V)
    BY DEF Surjection
  <1>3. IsFiniteSet(V) /\ Cardinality(V) <= Cardinality(A)
    BY <1>1, <1>2, FS_Surjection
  <1>4. IsFiniteSet(FirstIn(s, b)) /\ Cardinality(FirstIn(s, b)) \in Nat
    BY FirstInOK
  <1>5. /\ IsFiniteSet(FirstIn(s, b) \cup V)
        /\ Cardinality(FirstIn(s, b) \cup V) = Cardinality(FirstIn(s, b)) + Cardinality(V) - Cardinality(FirstIn(s, b) \cap V)
    BY <1>3, <1>4, FS_Union
  <1>6. Cardinality(FirstIn(s, b) \cap V) \in Nat
    BY <1>4, FS_Intersection, FS_CardinalityType
  <1>7. Cardinality(V) \in Nat
    BY <1>3, FS_CardinalityType
  <1>8. Cardinality(FirstIn(s, b) \cup V) <= MaxGraphDefs
    BY <1>1, <1>3, <1>4, <1>5, <1>6, <1>7, DefAssumption
  <1>9. LibWith(s, b) = FirstIn(s, b) \cup V
    BY <1>0 DEF LibWith
  <1>10. QED
    BY <1>5, <1>8, <1>9

\* What is in the library then, with name and place.
Entries(s, b, r) ==
    /\ s.lib \subseteq r
    /\ \A p \in r : \/ p \in s.lib
                    \/ p = Original(b) /\ ~NamedIn(s, s.lib, s.shape[b].name)
                    \/ /\ \E i \in NewIn(s, b) : p = <<b, i>>
                       /\ Cardinality(FirstIn(s, b)) < MaxGraphDefs
    /\ Cardinality(FirstIn(s, b)) < MaxGraphDefs /\ ~NamedIn(s, s.lib, s.shape[b].name) => Original(b) \in r
    /\ Cardinality(s.lib) < MaxGraphDefs /\ ~NamedIn(s, s.lib, s.shape[b].name) => Original(b) \in r
    /\ Original(b) \in r => FirstIn(s, b) = s.lib \cup {Original(b)} \/ Original(b) \in s.lib

LEMMA LibWithEntries ==
    ASSUME NEW s, Base(s), NEW b \in Block, s.mem[b] # "unused"
    PROVE  Entries(s, b, LibWith(s, b))
  <1>1. s.lib \subseteq FirstIn(s, b) /\ FirstIn(s, b) \subseteq s.lib \cup {Original(b)}
    BY DEF FirstIn
  <1>2. Original(b) \in FirstIn(s, b) => Original(b) \in s.lib \/ ~NamedIn(s, s.lib, s.shape[b].name)
    BY DEF FirstIn
  <1>3. Fitting(s, b) \subseteq NewIn(s, b) /\ (Fitting(s, b) # {} => Cardinality(FirstIn(s, b)) < MaxGraphDefs)
    BY FittingOK
  <1>4. s.lib \subseteq LibWith(s, b)
    BY <1>1 DEF LibWith
  <1>5. ASSUME NEW p \in LibWith(s, b)
        PROVE  \/ p \in s.lib
               \/ p = Original(b) /\ ~NamedIn(s, s.lib, s.shape[b].name)
               \/ /\ \E i \in NewIn(s, b) : p = <<b, i>>
                  /\ Cardinality(FirstIn(s, b)) < MaxGraphDefs
    <2>1. CASE p \in FirstIn(s, b)
      BY <2>1, <1>1, <1>2
    <2>2. CASE p \notin FirstIn(s, b)
      <3>1. PICK i \in Fitting(s, b) : p = <<b, i>>
        BY <2>2, <1>5 DEF LibWith
      <3>2. QED
        BY <3>1, <1>3
    <2>3. QED
      BY <2>1, <2>2
  <1>6. Cardinality(s.lib) \in Nat
    BY FS_CardinalityType DEF Base, Typed
  <1>7. Cardinality(s.lib) < MaxGraphDefs /\ ~NamedIn(s, s.lib, s.shape[b].name) => FirstIn(s, b) = s.lib \cup {Original(b)}
    BY <1>6, DefAssumption DEF FirstIn
  <1>8. Cardinality(FirstIn(s, b)) < MaxGraphDefs /\ ~NamedIn(s, s.lib, s.shape[b].name) => FirstIn(s, b) = s.lib \cup {Original(b)}
    BY <1>6, DefAssumption DEF FirstIn
  <1>9. 0 \notin NewIn(s, b)
    BY DEF NewIn, Base, Shapes, Shaped, Def
  <1>10. Original(b) \in LibWith(s, b) => Original(b) \in FirstIn(s, b)
    BY <1>3, <1>9 DEF LibWith, Original
  <1>11. Original(b) \in FirstIn(s, b) => FirstIn(s, b) = s.lib \cup {Original(b)} \/ Original(b) \in s.lib
    BY DEF FirstIn
  <1>12. QED
    BY <1>4, <1>5, <1>7, <1>8, <1>10, <1>11 DEF Entries, LibWith

-----------------------------------------------------------------------------
(* The lists of definitions: the next is taken from the one at work, or    *)
(* the one at work is done and the next list begins.                       *)

Taken(s, t, b) ==
    /\ s.defining # <<>> /\ b = Head(s.defining) /\ t.defining = Tail(s.defining)
    /\ t.toEngine = s.toEngine

ListsOK(s) == s.defining \in Seq(Block) /\ s.toEngine \in Seq(Seq(Block))

LEMMA ListType ==
    ASSUME NEW s, ListsOK(s), NEW k \in ListNo(s)
    PROVE  ListAt(s, k) \in Seq(Block)
  BY DEF ListsOK, ListNo, ListAt

TakenOnly(s, t, b) ==
    /\ ListsOK(t) /\ b \in Block /\ Awaited(s, b) /\ ~Awaited(t, b) /\ Once(t)
    /\ \A c : c # b => (Awaited(t, c) <=> Awaited(s, c))

LEMMA TakenOK ==
    ASSUME NEW s, NEW t, NEW b, ListsOK(s), Once(s), Taken(s, t, b)
    PROVE  TakenOnly(s, t, b)
  <1>1. t.defining \in Seq(Block) /\ b \in Block /\ Popped(s.defining, t.defining, b)
    BY TailPopped DEF ListsOK, Taken
  <1>2. ListsOK(t)
    BY <1>1 DEF ListsOK, Taken
  <1>3. /\ 1 \in In(s.defining) /\ s.defining[1] = b
        /\ \A i \in In(t.defining) : i \in Nat /\ i # 0 /\ i + 1 \in In(s.defining) /\ t.defining[i] = s.defining[i + 1]
        /\ \A i \in In(s.defining) : i = 1 \/ (1 < i /\ \E j \in In(t.defining) : i = j + 1 /\ t.defining[j] = s.defining[i])
    BY <1>1, PoppedAt, SMTT(40) DEF ListsOK
  <1>4. /\ ListNo(t) = ListNo(s) /\ 0 \in ListNo(s) /\ ListAt(s, 0) = s.defining /\ ListAt(t, 0) = t.defining
        /\ \A k \in ListNo(s) : k # 0 => ListAt(t, k) = ListAt(s, k)
    BY DEF ListNo, ListAt, Taken, ListsOK
  <1>5. Awaited(s, b)
    BY <1>3, <1>4 DEF Awaited
  <1> DEFINE Was(k, i) == IF k = 0 THEN i + 1 ELSE i
  <1>6. \A k \in ListNo(t) : \A i \in In(ListAt(t, k)) :
           /\ i \in Nat /\ i # 0 /\ Was(k, i) \in In(ListAt(s, k))
           /\ ListAt(t, k)[i] = ListAt(s, k)[Was(k, i)]
    BY <1>3, <1>4 DEF In
  <1>7. ~Awaited(t, b)
    <2> SUFFICES ASSUME NEW k \in ListNo(t), NEW i \in In(ListAt(t, k)), ListAt(t, k)[i] = b
                 PROVE  FALSE
      BY DEF Awaited
    <2>1. k \in ListNo(s) /\ Was(k, i) \in In(ListAt(s, k)) /\ ListAt(s, k)[Was(k, i)] = b /\ i # 0 /\ i \in Nat
      BY <1>4, <1>6
    <2>2. k = 0 /\ Was(k, i) = 1
      BY <2>1, <1>3, <1>4 DEF Once
    <2>3. QED
      BY <2>1, <2>2
  <1>8. Once(t)
    <2> SUFFICES ASSUME NEW k \in ListNo(t), NEW m \in ListNo(t), NEW i \in In(ListAt(t, k)),
                        NEW j \in In(ListAt(t, m)), ListAt(t, k)[i] = ListAt(t, m)[j]
                 PROVE  k = m /\ i = j
      BY DEF Once
    <2>1. /\ k \in ListNo(s) /\ Was(k, i) \in In(ListAt(s, k)) /\ ListAt(t, k)[i] = ListAt(s, k)[Was(k, i)]
          /\ m \in ListNo(s) /\ Was(m, j) \in In(ListAt(s, m)) /\ ListAt(t, m)[j] = ListAt(s, m)[Was(m, j)]
          /\ i \in Nat /\ j \in Nat
      BY <1>4, <1>6
    <2>2. PICK v, w : v = Was(k, i) /\ w = Was(m, j)
      OBVIOUS
    <2>3. v \in In(ListAt(s, k)) /\ w \in In(ListAt(s, m)) /\ ListAt(s, k)[v] = ListAt(s, m)[w]
      BY <2>1, <2>2
    <2>4. k = m /\ v = w
      BY <2>1, <2>3 DEF Once
    <2>5. QED
      BY <2>1, <2>2, <2>4
  <1>9. ASSUME NEW c, c # b PROVE Awaited(t, c) <=> Awaited(s, c)
    <2>1. Awaited(t, c) => Awaited(s, c)
      BY <1>4, <1>6 DEF Awaited
    <2>2. Awaited(s, c) => Awaited(t, c)
      <3> SUFFICES ASSUME NEW k \in ListNo(s), NEW i \in In(ListAt(s, k)), ListAt(s, k)[i] = c
                   PROVE  Awaited(t, c)
        BY DEF Awaited
      <3>1. CASE k = 0
        BY <3>1, <1>3, <1>4, <1>9 DEF Awaited
      <3>2. CASE k # 0
        BY <3>2, <1>4 DEF Awaited
      <3>3. QED
        BY <3>1, <3>2
    <2>3. QED
      BY <2>1, <2>2
  <1>10. QED
    BY <1>1, <1>2, <1>5, <1>7, <1>8, <1>9 DEF TakenOnly

Begun(s, t) ==
    /\ s.defining = <<>> /\ s.toEngine # <<>>
    /\ t.defining = Head(s.toEngine) /\ t.toEngine = Tail(s.toEngine)
    /\ Still(s, t) /\ Unsent(s, t) /\ t.refCount = s.refCount /\ t.lib = s.lib
    /\ t.synth = s.synth /\ t.wild = s.wild

LEMMA BegunLists ==
    ASSUME NEW s, NEW t, ListsOK(s), Once(s), Begun(s, t)
    PROVE  ListsOK(t) /\ Once(t) /\ \A c : Awaited(t, c) <=> Awaited(s, c)
  <1>1. t.defining \in Seq(Block) /\ t.toEngine \in Seq(Seq(Block))
        /\ Popped(s.toEngine, t.toEngine, t.defining)
    BY TailPopped DEF ListsOK, Begun
  <1>2. Len(s.toEngine) \in Nat /\ Len(t.toEngine) \in Nat /\ Len(s.toEngine) = Len(t.toEngine) + 1
    BY <1>1 DEF Popped, ListsOK
  <1>3. \A k \in ListNo(t) : k \in Nat /\ k + 1 \in ListNo(s) /\ ListAt(t, k) = ListAt(s, k + 1)
    <2> SUFFICES ASSUME NEW k \in ListNo(t)
                 PROVE  k \in Nat /\ k + 1 \in ListNo(s) /\ ListAt(t, k) = ListAt(s, k + 1)
      OBVIOUS
    <2>1. k \in Nat /\ k + 1 \in ListNo(s) /\ k + 1 # 0
      BY <1>2 DEF ListNo
    <2>2. CASE k = 0
      BY <2>1, <2>2, <1>1 DEF ListAt, Popped
    <2>3. CASE k # 0
      BY <2>1, <2>3, <1>1, <1>2 DEF ListAt, Popped, In, ListNo
    <2>4. QED
      BY <2>1, <2>2, <2>3
  <1>4. \A k \in ListNo(s) : k = 0 \/ (k - 1 \in ListNo(t) /\ (k - 1) + 1 = k)
    BY <1>2 DEF ListNo
  <1>5. In(ListAt(s, 0)) = {}
    BY DEF ListAt, In, Begun
  <1>6. \A k \in ListNo(s) : In(ListAt(s, k)) # {} => \E m \in ListNo(t) : m + 1 = k /\ ListAt(t, m) = ListAt(s, k)
    BY <1>3, <1>4, <1>5
  <1>7. \A c : Awaited(t, c) <=> Awaited(s, c)
    <2>1. \A c : Awaited(t, c) => Awaited(s, c)
      BY <1>3 DEF Awaited
    <2>2. \A c : Awaited(s, c) => Awaited(t, c)
      <3> SUFFICES ASSUME NEW c, NEW k \in ListNo(s), NEW i \in In(ListAt(s, k)), ListAt(s, k)[i] = c
                   PROVE  Awaited(t, c)
        BY DEF Awaited
      <3>1. PICK m \in ListNo(t) : m + 1 = k /\ ListAt(t, m) = ListAt(s, k)
        BY <1>6
      <3>2. QED
        BY <3>1 DEF Awaited
    <2>3. QED
      BY <2>1, <2>2
  <1>8. Once(t)
    <2> SUFFICES ASSUME NEW k \in ListNo(t), NEW m \in ListNo(t), NEW i \in In(ListAt(t, k)),
                        NEW j \in In(ListAt(t, m)), ListAt(t, k)[i] = ListAt(t, m)[j]
                 PROVE  k = m /\ i = j
      BY DEF Once
    <2>1. k + 1 = m + 1 /\ i = j
      BY <1>3 DEF Once
    <2>2. QED
      BY <2>1, <1>3
  <1>9. QED
    BY <1>1, <1>7, <1>8 DEF ListsOK

LEMMA BegunGood ==
    ASSUME NEW s, NEW t, Good(s), Begun(s, t)
    PROVE  Good(t)
  <1>1. ListsOK(t) /\ Once(t) /\ \A c : Awaited(t, c) <=> Awaited(s, c)
    BY BegunLists DEF Good, Base, Typed, ListsOK
  <1>2. Prefix(t) /\ (\A q : Points(t, q) <=> Points(s, q)) /\ \A q : NameIn(t, q) = NameIn(s, q)
    BY StillPoints DEF Begun, Good, Base
  <1>3. Typed(t)
    BY <1>1 DEF Good, Base, Typed, Begun, Still, Unsent, ListsOK
  <1>4. Shapes(t) /\ Pointers(t)
    BY <1>2 DEF Good, Base, Shapes, Shaped, Pointers, Begun, Still, Unsent
  <1>5. Library(t) /\ Names(t) /\ InTime(t)
    BY <1>2 DEF Good, Library, Names, InTime, Begun, Still, Unsent
  <1>6. ASSUME NEW b \in Block PROVE BlockOK(t, b)
    <2>1. SameBlock(s, t, b)
      BY <1>1 DEF SameBlock, Begun, Still, Unsent, Users, Leaving
    <2>2. QED
      BY <2>1, SameBlockOK DEF Good, Blocks
  <1>7. QED
    BY <1>1, <1>2, <1>3, <1>4, <1>5, <1>6 DEF Good, Base, Blocks

-----------------------------------------------------------------------------
(* A definition is added under a name that is free. *)

Added(s, t, b) ==
    /\ Taken(s, t, b) /\ ~NamedIn(s, s.lib, s.shape[b].name)
    /\ t.lib = LibWith(s, b) /\ t.lost = s.lost \cup ({b} \ {p[1] : p \in t.lib})
    /\ Still(s, t) /\ t.refCount = s.refCount /\ t.synth = s.synth
    /\ t.deletes = s.deletes /\ t.wild = s.wild

\* The block that is added, and its entries.
LEMMA AddedEntries ==
    ASSUME NEW s, NEW t, NEW b, Good(s), Added(s, t, b)
    PROVE  /\ TakenOnly(s, t, b) /\ Entries(s, b, t.lib)
           /\ b \in Block /\ s.mem[b] = "live" /\ b \notin s.lost /\ Original(b) \notin s.lib
           /\ Users(s, b) = {} /\ ~Leaving(s, b) /\ s.refCount[b][0] = 1
           /\ IsFiniteSet(t.lib) /\ Cardinality(t.lib) <= MaxGraphDefs
  <1>1. TakenOnly(s, t, b) /\ b \in Block /\ Awaited(s, b)
    <2>1. TakenOnly(s, t, b)
      BY TakenOK DEF Good, Base, Typed, Added, ListsOK
    <2>2. QED
      BY <2>1 DEF TakenOnly
  <1>2. /\ s.mem[b] = "live" /\ b \notin s.lost /\ Original(b) \notin s.lib /\ Users(s, b) = {}
        /\ ~Leaving(s, b) /\ Counts(s, b)
    BY <1>1 DEF Good, Blocks, BlockOK
  <1>3. s.refCount[b][0] = 1
    BY <1>1, <1>2, FS_EmptySet DEF Counts
  <1>4. Entries(s, b, t.lib) /\ IsFiniteSet(t.lib) /\ Cardinality(t.lib) <= MaxGraphDefs
    BY <1>1, <1>2, LibWithEntries, LibWithSize DEF Added, Good
  <1>5. QED
    BY <1>1, <1>2, <1>3, <1>4

\* Each entry is an old one, the original, or a variant that has a name of
\* its own.
IsOld(s, p) == p \in s.lib
IsOriginal(s, t, b, p) == p = Original(b) /\ p \in t.lib /\ p \notin s.lib
IsVariant(s, b, p, i) ==
    /\ i \in NewIn(s, b) /\ i \in 1 .. Len(s.shape[b].variants) /\ p = <<b, i>>
    /\ NameIn(s, p) = s.shape[b].variants[i]

LEMMA AddedKinds ==
    ASSUME NEW s, NEW t, NEW b, Good(s), Added(s, t, b), NEW p \in t.lib
    PROVE  /\ IsOld(s, p) \/ IsOriginal(s, t, b, p) \/ \E i : IsVariant(s, b, p, i)
           /\ p[1] = b => Original(b) \in t.lib
           /\ Points(s, p)
  <1>1. /\ Entries(s, b, t.lib) /\ b \in Block /\ s.mem[b] = "live" /\ Original(b) \notin s.lib
        /\ ~NamedIn(s, s.lib, s.shape[b].name)
    BY AddedEntries DEF Added
  <1>2. s.shape[b] \in Def /\ DOMAIN s.shape[b].variants = 1 .. Len(s.shape[b].variants)
        /\ Len(s.shape[b].variants) \in Nat
    BY <1>1 DEF Good, Base, Shapes, Shaped, Def
  <1>3. CASE p \in s.lib
    <2>1. Points(s, p) /\ (p[1] = b => Original(b) \in s.lib)
      BY <1>3 DEF Good, Base, Pointers, Library
    <2>2. QED
      BY <2>1, <1>3, <1>1 DEF IsOld
  <1>4. CASE p = Original(b)
    <2>1. Points(s, p)
      BY <1>4, <1>1, <1>2, OriginalPtr DEF Points
    <2>2. QED
      BY <2>1, <1>4, <1>1 DEF IsOriginal
  <1>5. CASE (\E i \in NewIn(s, b) : p = <<b, i>>) /\ Cardinality(FirstIn(s, b)) < MaxGraphDefs
    <2>1. PICK i \in NewIn(s, b) : p = <<b, i>>
      BY <1>5
    <2>2. i \in 1 .. Len(s.shape[b].variants)
      BY <2>1, <1>2 DEF NewIn
    <2>3. p \in Ptr /\ p[1] = b /\ p[2] = i
      BY <2>1, <2>2, <1>1, <1>2 DEF Ptr
    <2>4. Points(s, p)
      BY <2>3, <2>2, <1>1, <1>2 DEF Points
    <2>5. NameIn(s, p) = s.shape[b].variants[i]
      BY <2>3, <2>2 DEF NameIn
    <2>6. IsVariant(s, b, p, i)
      BY <2>1, <2>2, <2>5 DEF IsVariant
    <2>7. Original(b) \in t.lib
      BY <1>5, <1>1 DEF Entries
    <2>8. QED
      BY <2>4, <2>6, <2>7
  <1>6. QED
    BY <1>1, <1>3, <1>4, <1>5 DEF Entries

LEMMA AddedNames ==
    ASSUME NEW s, NEW t, NEW b, Good(s), Added(s, t, b)
    PROVE  Names(t)
  <1>1. /\ Entries(s, b, t.lib) /\ b \in Block /\ s.mem[b] = "live" /\ Original(b) \notin s.lib
        /\ ~NamedIn(s, s.lib, s.shape[b].name)
    BY AddedEntries DEF Added
  <1>2. NameIn(s, Original(b)) = s.shape[b].name
    BY <1>1, OriginalPtr DEF NameIn
  <1>3. ASSUME NEW p, NEW q, IsOld(s, p), IsOriginal(s, t, b, q) PROVE NameIn(s, p) # NameIn(s, q)
    BY <1>3, <1>1, <1>2 DEF IsOld, IsOriginal, NamedIn
  <1>4. ASSUME NEW p, NEW q, NEW i, IsOld(s, p) \/ IsOriginal(s, t, b, p), IsVariant(s, b, q, i)
        PROVE  NameIn(s, p) # NameIn(s, q)
    <2>1. p \in FirstIn(s, b)
      <3>1. s.lib \subseteq FirstIn(s, b)
        BY DEF FirstIn
      <3>2. IsOriginal(s, t, b, p) => p \in FirstIn(s, b)
        BY <1>1 DEF IsOriginal, Entries
      <3>3. QED
        BY <3>1, <3>2, <1>4 DEF IsOld
    <2>2. ~NamedIn(s, FirstIn(s, b), s.shape[b].variants[i]) /\ NameIn(s, q) = s.shape[b].variants[i]
      BY <1>4 DEF IsVariant, NewIn
    <2>3. QED
      BY <2>1, <2>2 DEF NamedIn
  <1>5. ASSUME NEW p, NEW q, NEW i, NEW j, IsVariant(s, b, p, i), IsVariant(s, b, q, j),
               NameIn(s, p) = NameIn(s, q)
        PROVE  p = q
    <2>1. /\ p = <<b, i>> /\ q = <<b, j>> /\ i \in Nat /\ j \in Nat /\ 1 <= i /\ 1 <= j
          /\ s.shape[b].variants[i] = s.shape[b].variants[j]
      BY <1>5, <1>1 DEF IsVariant, Good, Base, Shapes, Shaped, Def
    <2>2. /\ \A h \in 1 .. i - 1 : s.shape[b].variants[h] # s.shape[b].variants[i]
          /\ \A h \in 1 .. j - 1 : s.shape[b].variants[h] # s.shape[b].variants[j]
      BY <1>5 DEF IsVariant, NewIn
    <2>3. i = j
      BY <2>1, <2>2
    <2>4. QED
      BY <2>1, <2>3
  <1>6. \A p : NameIn(t, p) = NameIn(s, p)
    BY StillPoints DEF Added
  <1>7. ASSUME NEW p \in t.lib, NEW q \in t.lib, NameIn(s, p) = NameIn(s, q) PROVE p = q
    <2>1. IsOld(s, p) \/ IsOriginal(s, t, b, p) \/ \E i : IsVariant(s, b, p, i)
      BY AddedKinds
    <2>2. IsOld(s, q) \/ IsOriginal(s, t, b, q) \/ \E i : IsVariant(s, b, q, i)
      BY AddedKinds
    <2>3. CASE IsOld(s, p) /\ IsOld(s, q)
      BY <2>3, <1>7 DEF IsOld, Good, Names
    <2>4. CASE IsOriginal(s, t, b, p) /\ IsOriginal(s, t, b, q)
      BY <2>4 DEF IsOriginal
    <2>5. QED
      BY <2>1, <2>2, <2>3, <2>4, <1>3, <1>4, <1>5, <1>7
  <1>8. QED
    BY <1>6, <1>7 DEF Names

LEMMA AddedGood ==
    ASSUME NEW s, NEW t, NEW b, Good(s), Added(s, t, b)
    PROVE  /\ Good(t)
           /\ Cardinality(s.lib) < MaxGraphDefs => t.lost = s.lost /\ Original(b) \in t.lib
  <1>1. /\ TakenOnly(s, t, b) /\ Entries(s, b, t.lib)
        /\ b \in Block /\ s.mem[b] = "live" /\ b \notin s.lost /\ Original(b) \notin s.lib
        /\ Users(s, b) = {} /\ ~Leaving(s, b) /\ s.refCount[b][0] = 1
        /\ IsFiniteSet(t.lib) /\ Cardinality(t.lib) <= MaxGraphDefs
    BY AddedEntries
  <1>2. Prefix(t) /\ (\A q : Points(t, q) <=> Points(s, q)) /\ \A q : NameIn(t, q) = NameIn(s, q)
    BY StillPoints DEF Added, Good, Base
  <1>3. \A p \in t.lib : Points(s, p) /\ p \in Ptr
    BY AddedKinds DEF Points
  <1>4. b \in {p[1] : p \in t.lib} <=> Original(b) \in t.lib
    <2>1. Original(b) \in t.lib => b \in {p[1] : p \in t.lib}
      BY <1>1, OriginalPtr
    <2>2. b \in {p[1] : p \in t.lib} => Original(b) \in t.lib
      BY AddedKinds
    <2>3. QED
      BY <2>1, <2>2
  <1>5. t.lost \subseteq Block /\ (\A c : c # b => (c \in t.lost <=> c \in s.lost))
        /\ (b \in t.lost <=> Original(b) \notin t.lib)
    BY <1>1, <1>4 DEF Added, Good, Base, Typed
  <1>6. Base(t)
    <2>1. Typed(t)
      BY <1>1, <1>3, <1>5 DEF Good, Base, Typed, Added, Still, TakenOnly, ListsOK
    <2>2. Shapes(t)
      BY DEF Good, Base, Shapes, Shaped, Added, Still
    <2>3. Pointers(t)
      BY <1>2, <1>3 DEF Good, Base, Pointers, Added
    <2>4. QED
      BY <2>1, <2>2, <2>3, <1>2 DEF Base
  <1>7. Library(t)
    <2> SUFFICES ASSUME NEW p \in t.lib PROVE t.mem[p[1]] = "live" /\ Original(p[1]) \in t.lib
      BY DEF Library
    <2>1. CASE p \in s.lib
      BY <2>1, <1>1 DEF Good, Library, Entries, Added, Still
    <2>2. CASE p \notin s.lib
      <3>1. p[1] = b
        <4>1. IsOriginal(s, t, b, p) \/ \E i : IsVariant(s, b, p, i)
          BY <2>2, AddedKinds DEF IsOld
        <4>2. QED
          BY <4>1, <1>1, OriginalPtr DEF IsOriginal, IsVariant
      <3>2. QED
        BY <3>1, <1>1, AddedKinds DEF Added, Still
    <2>3. QED
      BY <2>1, <2>2
  <1>8. ASSUME NEW c \in Block PROVE BlockOK(t, c)
    <2>1. Users(t, c) = Users(s, c) /\ (Leaving(t, c) <=> Leaving(s, c)) /\ t.mem = s.mem
          /\ t.refCount = s.refCount /\ BlockOK(s, c)
      BY DEF Added, Users, Leaving, Still, Good, Blocks
    <2>2. CASE c # b
      <3>1. Original(c) \in t.lib <=> Original(c) \in s.lib
        <4>1. Original(c)[1] = c /\ Original(b)[1] = b
          BY <1>1, OriginalPtr
        <4>2. Original(c) \in t.lib => Original(c) \in s.lib
          <5>1. SUFFICES ASSUME Original(c) \in t.lib, Original(c) \notin s.lib PROVE FALSE
            OBVIOUS
          <5>2. IsOriginal(s, t, b, Original(c)) \/ \E i : IsVariant(s, b, Original(c), i)
            BY <5>1, AddedKinds DEF IsOld
          <5>3. QED
            BY <5>2, <4>1, <2>2 DEF IsOriginal, IsVariant
        <4>3. QED
          BY <4>2, <1>1 DEF Entries
      <3>2. SameBlock(s, t, c)
        BY <3>1, <2>1, <2>2, <1>1, <1>5 DEF SameBlock, TakenOnly
      <3>3. QED
        BY <3>2, <2>1, SameBlockOK
    <2>3. CASE c = b
      <3>1. ~Awaited(t, b) /\ t.mem[b] = "live" /\ Users(t, b) = {} /\ ~Leaving(t, b) /\ t.refCount[b][0] = 1
        BY <2>1, <2>3, <1>1 DEF TakenOnly
      <3>2. Original(b) \in t.lib => Counts(t, b)
        BY <3>1, FS_EmptySet DEF Counts
      <3>3. QED
        BY <3>1, <3>2, <1>5, <2>3 DEF BlockOK
    <2>4. QED
      BY <2>2, <2>3
  <1>9. InTime(t)
    BY DEF Good, InTime, Added, Still
  <1>10. Good(t)
    BY <1>1, <1>6, <1>7, <1>8, <1>9, AddedNames DEF Good, Blocks, TakenOnly
  <1>11. ASSUME Cardinality(s.lib) < MaxGraphDefs PROVE t.lost = s.lost /\ Original(b) \in t.lib
    <2>1. Original(b) \in t.lib
      BY <1>11, <1>1 DEF Entries, Added
    <2>2. b \notin t.lost
      BY <2>1, <1>5
    <2>3. QED
      BY <2>1, <2>2, <1>1 DEF Added
  <1>12. QED
    BY <1>10, <1>11

-----------------------------------------------------------------------------
(* Definitions are read into memory k + 1 .. k + n; those in               *)
(* h + 1 .. h + m go on to stage 3, the others are lost.                   *)

MemRead(s, t, k, n) ==
    /\ k \in Nat /\ n \in Nat /\ k + n <= MaxDefs
    /\ \A b \in Block : s.mem[b] # "unused" <=> b <= k
    /\ t.mem \in [Block -> {"unused", "live", "freed"}]
    /\ t.shape \in [Block -> Def \cup {NoShape}] /\ DOMAIN t.refCount = Block
    /\ \A b \in Block : b \in k + 1 .. k + n => t.mem[b] = "live" /\ Shaped(t, b) /\ t.refCount[b][0] = 1
    /\ \A b \in Block : b \notin k + 1 .. k + n =>
          t.mem[b] = s.mem[b] /\ t.shape[b] = s.shape[b] /\ t.refCount[b] = s.refCount[b]

ListRead(s, t, k, n, h, m) ==
    /\ h \in Nat /\ m \in Nat /\ k <= h /\ h + m <= k + n
    /\ \E list \in Seq(Block) :
          /\ Len(list) = m /\ \A i \in 1 .. m : list[i] = h + i
          /\ t.toEngine = Append(s.toEngine, list)
    /\ t.lost = s.lost \cup {b \in k + 1 .. k + n : b \notin h + 1 .. h + m}

ReadIn(s, t, k, n, h, m) ==
    /\ MemRead(s, t, k, n) /\ ListRead(s, t, k, n, h, m)
    /\ t.lib = s.lib /\ t.synth = s.synth /\ t.defining = s.defining /\ t.deletes = s.deletes
    /\ t.wild = s.wild /\ t.careful = s.careful

LEMMA ReadLists ==
    ASSUME NEW s, NEW t, NEW k, NEW n, NEW h, NEW m, Good(s), ReadIn(s, t, k, n, h, m)
    PROVE  /\ ListsOK(t) /\ Once(t)
           /\ \A c : Awaited(t, c) <=> Awaited(s, c) \/ c \in h + 1 .. h + m
  <1>0. /\ k \in Nat /\ n \in Nat /\ h \in Nat /\ m \in Nat /\ k <= h /\ h + m <= k + n
        /\ k + n <= MaxDefs /\ ListsOK(s)
    BY DEF ReadIn, ListRead, MemRead, Good, Base, Typed, ListsOK
  <1>1. PICK list \in Seq(Block) : /\ Len(list) = m /\ \A i \in 1 .. m : list[i] = h + i
                                   /\ t.toEngine = Append(s.toEngine, list)
    BY DEF ReadIn, ListRead
  <1>2. t.toEngine \in Seq(Seq(Block)) /\ Pushed(s.toEngine, t.toEngine, list)
    BY <1>1, <1>0, AppendPushed DEF ListsOK
  <1>3. PICK last : last = Len(s.toEngine) + 1
    OBVIOUS
  <1>4. /\ last \in ListNo(t) /\ ListAt(t, last) = list
        /\ \A i \in ListNo(s) : i \in ListNo(t) /\ ListAt(t, i) = ListAt(s, i) /\ i # last
        /\ \A i \in ListNo(t) : i \in ListNo(s) \/ i = last
    <2>0. Len(s.toEngine) \in Nat /\ Len(t.toEngine) = last /\ last # 0 /\ t.defining = s.defining
      BY <1>0, <1>2, <1>3, SMTT(40) DEF Pushed, ListsOK, ReadIn
    <2>1. last \in ListNo(t) /\ ListAt(t, last) = list
      BY <2>0, <1>2, <1>3 DEF ListNo, ListAt, Pushed
    <2>2. \A i \in ListNo(s) : i \in ListNo(t) /\ i # last /\ (i # 0 => i \in In(s.toEngine))
      BY <2>0, <1>3 DEF ListNo, In
    <2>3. \A i \in ListNo(s) : ListAt(t, i) = ListAt(s, i)
      BY <2>0, <2>2, <1>2 DEF ListAt, Pushed
    <2>4. \A i \in ListNo(t) : i \in ListNo(s) \/ i = last
      BY <2>0, <1>3 DEF ListNo
    <2>5. QED
      BY <2>1, <2>2, <2>3, <2>4
  <1>5. \A c : (\E i \in In(list) : list[i] = c) <=> c \in h + 1 .. h + m
    <2>1. \A i \in In(list) : list[i] \in h + 1 .. h + m
      BY <1>0, <1>1 DEF In
    <2>2. \A c \in h + 1 .. h + m : c - h \in In(list) /\ list[c - h] = c
      BY <1>0, <1>1 DEF In
    <2>3. QED
      BY <2>1, <2>2
  <1>6. \A c : Awaited(t, c) <=> Awaited(s, c) \/ \E i \in In(list) : list[i] = c
    BY <1>4 DEF Awaited
  <1>7. \A i, j \in In(list) : list[i] = list[j] => i = j
    BY <1>0, <1>1 DEF In
  <1>8. \A i \in ListNo(s) : \A j \in In(ListAt(s, i)) : \A e \in In(list) : ListAt(s, i)[j] # list[e]
    <2> SUFFICES ASSUME NEW i \in ListNo(s), NEW j \in In(ListAt(s, i)), NEW e \in In(list),
                        ListAt(s, i)[j] = list[e]
                 PROVE  FALSE
      OBVIOUS
    <2>1. list[e] \in Block /\ list[e] > k
      BY <1>0, <1>1 DEF In
    <2>2. Awaited(s, list[e])
      BY DEF Awaited
    <2>3. s.mem[list[e]] = "live"
      BY <2>1, <2>2 DEF Good, Blocks, BlockOK
    <2>4. list[e] <= k
      BY <2>1, <2>3 DEF ReadIn, MemRead
    <2>5. QED
      BY <2>1, <2>4, <1>0 DEF Block
  <1>9. Once(t)
    <2> SUFFICES ASSUME NEW a \in ListNo(t), NEW b \in ListNo(t), NEW i \in In(ListAt(t, a)),
                        NEW j \in In(ListAt(t, b)), ListAt(t, a)[i] = ListAt(t, b)[j]
                 PROVE  a = b /\ i = j
      BY DEF Once
    <2>1. CASE a \in ListNo(s) /\ b \in ListNo(s)
      BY <2>1, <1>4 DEF Good, Once
    <2>2. CASE a = last /\ b = last
      BY <2>2, <1>4, <1>7
    <2>3. CASE a \in ListNo(s) /\ b = last
      BY <2>3, <1>4, <1>8
    <2>4. CASE a = last /\ b \in ListNo(s)
      BY <2>4, <1>4, <1>8
    <2>5. QED
      BY <2>1, <2>2, <2>3, <2>4, <1>4
  <1>10. ListsOK(t)
    BY <1>0, <1>2 DEF ListsOK, ReadIn
  <1>11. QED
    BY <1>5, <1>6, <1>9, <1>10

LEMMA ReadGood ==
    ASSUME NEW s, NEW t, NEW k, NEW n, NEW h, NEW m, Good(s), ReadIn(s, t, k, n, h, m)
    PROVE  Good(t)
  <1>0. /\ k \in Nat /\ n \in Nat /\ h \in Nat /\ m \in Nat /\ k <= h /\ h + m <= k + n /\ k + n <= MaxDefs
        /\ MemRead(s, t, k, n) /\ MaxDefs \in Nat
        /\ t.lost = s.lost \cup {b \in k + 1 .. k + n : b \notin h + 1 .. h + m}
    BY DefAssumption DEF ReadIn, ListRead, MemRead
  <1>1. /\ ListsOK(t) /\ Once(t)
        /\ \A c : Awaited(t, c) <=> Awaited(s, c) \/ c \in h + 1 .. h + m
    BY ReadLists
  <1>2. \A b \in Block : s.mem[b] # "unused" => b \notin k + 1 .. k + n
    BY <1>0 DEF MemRead, Block
  <1>3. \A b \in Block : s.mem[b] # "unused" =>
            t.mem[b] = s.mem[b] /\ t.shape[b] = s.shape[b] /\ t.refCount[b] = s.refCount[b]
    BY <1>0, <1>2 DEF MemRead
  <1>4. \A p : Points(s, p) => Points(t, p) /\ NameIn(t, p) = NameIn(s, p) /\ t.mem[p[1]] = s.mem[p[1]]
    BY <1>3 DEF Points, NameIn, Ptr
  <1>5. Prefix(t)
    <2>1. \A b \in Block : t.mem[b] # "unused" <=> b <= k + n
      <3> SUFFICES ASSUME NEW b \in Block PROVE t.mem[b] # "unused" <=> b <= k + n
        OBVIOUS
      <3>1. b \in Nat /\ 1 <= b
        BY <1>0 DEF Block
      <3>2. CASE b \in k + 1 .. k + n
        BY <3>1, <3>2, <1>0 DEF MemRead
      <3>3. CASE b \notin k + 1 .. k + n
        <4>1. t.mem[b] # "unused" <=> b <= k
          BY <3>3, <1>0 DEF MemRead
        <4>2. QED
          BY <4>1, <3>1, <3>3, <1>0
      <3>4. QED
        BY <3>2, <3>3
    <2>2. k + n \in 0 .. MaxDefs
      BY <1>0
    <2>3. QED
      BY <2>1, <2>2 DEF Prefix
  <1>6. Shapes(t)
    <2> SUFFICES ASSUME NEW b \in Block, t.mem[b] # "unused" PROVE Shaped(t, b)
      BY DEF Shapes
    <2>1. CASE b \in k + 1 .. k + n
      BY <2>1, <1>0 DEF MemRead
    <2>2. CASE b \notin k + 1 .. k + n
      BY <2>2, <1>0 DEF MemRead, Good, Base, Shapes, Shaped
    <2>3. QED
      BY <2>1, <2>2
  <1>7. Base(t)
    <2>1. t.lost \subseteq Block
      BY <1>0 DEF Good, Base, Typed, Block
    <2>2. Typed(t)
      BY <2>1, <1>0, <1>1 DEF Good, Base, Typed, ReadIn, MemRead, ListsOK
    <2>3. Pointers(t)
      BY <1>4 DEF Good, Base, Pointers, ReadIn
    <2>4. QED
      BY <2>2, <2>3, <1>5, <1>6 DEF Base
  <1>8. Library(t) /\ Names(t)
    <2>1. \A p \in t.lib : p \in s.lib /\ Points(s, p)
      BY DEF ReadIn, Good, Base, Pointers
    <2>2. QED
      BY <2>1, <1>4 DEF Good, Library, Names, ReadIn
  <1>9. ASSUME NEW b \in Block PROVE BlockOK(t, b)
    <2>1. /\ Users(t, b) = Users(s, b) /\ (Leaving(t, b) <=> Leaving(s, b)) /\ t.lib = s.lib /\ BlockOK(s, b)
      BY DEF ReadIn, Users, Leaving, Good, Blocks
    <2>2. CASE b \notin k + 1 .. k + n
      <3>1. b \notin h + 1 .. h + m
        BY <2>2, <1>0 DEF Block
      <3>2. /\ t.mem[b] = s.mem[b] /\ t.refCount[b] = s.refCount[b] /\ (b \in t.lost <=> b \in s.lost)
            /\ Awaited(t, b) <=> Awaited(s, b)
        BY <3>1, <2>2, <1>0, <1>1 DEF MemRead
      <3>3. SameBlock(s, t, b)
        BY <3>2, <2>1 DEF SameBlock
      <3>4. QED
        BY <3>3, <2>1, SameBlockOK
    <2>3. CASE b \in k + 1 .. k + n
      <3>1. s.mem[b] = "unused" /\ t.mem[b] = "live" /\ t.refCount[b][0] = 1
        BY <2>3, <1>0, <1>2 DEF MemRead
      <3>2. b \notin s.lost /\ ~Awaited(s, b) /\ Original(b) \notin s.lib
        BY <3>1, <2>1 DEF BlockOK
      <3>3. Users(s, b) = {} /\ ~Leaving(s, b)
        <4>1. ~Points(s, Original(b)) /\ Original(b) # Null
          BY <3>1, OriginalPtr DEF Points
        <4>2. QED
          BY <4>1 DEF Users, Leaving, Good, Base, Pointers
      <3>4. b \in t.lost <=> ~Awaited(t, b)
        BY <3>2, <2>3, <1>0, <1>1
      <3>5. Awaited(t, b) => Counts(t, b)
        BY <3>1, <3>3, <2>1, FS_EmptySet DEF Counts
      <3>6. QED
        BY <3>1, <3>2, <3>3, <3>4, <3>5, <2>1 DEF BlockOK
    <2>4. QED
      BY <2>2, <2>3
  <1>10. InTime(t)
    <2> SUFFICES ASSUME t.careful
                 PROVE  /\ ~t.wild /\ Late(t)
                        /\ \A y \in Synth : t.synth[y] # Null => t.mem[t.synth[y][1]] = "live" /\ t.synth[y][2] = 0
      BY DEF InTime, Late
    <2>1. /\ s.careful /\ ~s.wild /\ Late(s) /\ ~t.wild /\ t.deletes = s.deletes /\ t.synth = s.synth
          /\ \A i \in In(s.deletes) : Points(s, s.deletes[i])
          /\ \A x \in Synth : s.synth[x] # Null => Points(s, s.synth[x])
      BY DEF ReadIn, Good, InTime, Late, Base, Pointers
    <2>2. Late(t)
      BY <2>1, <1>4 DEF Late
    <2>3. QED
      BY <2>1, <2>2, <1>4 DEF Good, InTime
  <1>11. QED
    BY <1>1, <1>7, <1>8, <1>9, <1>10 DEF Good, Blocks

-----------------------------------------------------------------------------
(* The actions are these steps. *)

Fields(s, m, sh, rc, l, sy, te, d, de, lo, w, c) ==
    /\ s.mem = m /\ s.shape = sh /\ s.refCount = rc /\ s.lib = l /\ s.synth = sy
    /\ s.toEngine = te /\ s.defining = d /\ s.deletes = de /\ s.lost = lo
    /\ s.wild = w /\ s.careful = c

LEMMA StateFields ==
    ASSUME NEW s, NEW t, s = State, t = State'
    PROVE  /\ Fields(s, mem, shape, refCount, lib, synth, toEngine, defining, deletes, lost, Wild, careful)
           /\ Fields(t, mem', shape', refCount', lib', synth', toEngine', defining', deletes', lost', Wild', careful')
  BY DEF Fields, State

LEMMA WildSame ==
    ASSUME wild' = wild PROVE Wild' = Wild
  BY DEF Wild

LEMMA UsedIs ==
    ASSUME NEW s, s = State, Good(s)
    PROVE  /\ Used \in Nat /\ Used <= MaxDefs
           /\ \A b \in Block : s.mem[b] # "unused" <=> b <= Used
  <1>1. PICK n \in 0 .. MaxDefs : \A b \in Block : s.mem[b] # "unused" <=> b <= n
    BY DEF Good, Base, Prefix
  <1>2. {b \in Block : mem[b] # "unused"} = 1 .. n
    <2>1. mem = s.mem
      BY DEF State
    <2>2. QED
      BY <2>1, <1>1, DefAssumption DEF Block
  <1>3. Cardinality(1 .. n) = n
    BY <1>1, FS_Interval, DefAssumption
  <1>4. Used = n
    BY <1>2, <1>3 DEF Used
  <1>5. QED
    BY <1>1, <1>4, DefAssumption

LEMMA FreshIs ==
    ASSUME NEW n \in Nat, Used \in Nat
    PROVE  /\ Fresh(n) \in Seq(Nat) /\ Len(Fresh(n)) = n
           /\ DOMAIN Fresh(n) = 1 .. n /\ \A i \in 1 .. n : Fresh(n)[i] = Used + i
  BY DEF Fresh

\* What reading a file does to the memory.
LEMMA ReadMem ==
    ASSUME NEW s, NEW t, s = State, t = State', Good(s), UNCHANGED careful,
           NEW file \in Seq(Def), NEW n \in Nat, n = Len(file), Read(file, Fresh(n))
    PROVE  /\ MemRead(s, t, Used, n)
           /\ t.lib = s.lib /\ t.synth = s.synth /\ t.defining = s.defining /\ t.deletes = s.deletes
           /\ t.wild = s.wild /\ t.careful = s.careful
  <1>1. PICK k : k = Used
    OBVIOUS
  <1>2. k \in Nat /\ k <= MaxDefs /\ \A b \in Block : s.mem[b] # "unused" <=> b <= k
    BY <1>1, UsedIs
  <1>3. PICK list : list = Fresh(n)
    OBVIOUS
  <1>4. DOMAIN list = 1 .. n /\ (\A i \in 1 .. n : list[i] = k + i) /\ (n # 0 => list[1] = k + 1)
    <2>1. Used \in Nat
      BY <1>1, <1>2
    <2>2. DOMAIN Fresh(n) = 1 .. n /\ \A i \in 1 .. n : Fresh(n)[i] = Used + i
      BY <2>1, FreshIs
    <2>3. QED
      BY <2>2, <1>1, <1>3
  <1>5. /\ Fields(s, mem, shape, refCount, lib, synth, toEngine, defining, deletes, lost, Wild, careful)
        /\ Fields(t, mem', shape', refCount', lib', synth', toEngine', defining', deletes', lost', Wild', careful')
    BY StateFields
  <1>6. \A i \in 1 .. n : list[i] \in Block
    BY <1>3, <1>4 DEF Read
  <1>7. k + n <= MaxDefs
    <2>1. CASE n = 0
      BY <2>1, <1>2, DefAssumption
    <2>2. CASE n # 0
      <3>1. k + n \in Block
        BY <2>2, <1>4, <1>6
      <3>2. QED
        BY <3>1, DefAssumption DEF Block
    <2>3. QED
      BY <2>1, <2>2
  <1> DEFINE DefOf(b) == file[Len(file) + list[1] - b]
             read == {list[i] : i \in DOMAIN list}
  <1>8. /\ mem' = [b \in Block |-> IF b \in read THEN "live" ELSE mem[b]]
        /\ shape' = [b \in Block |-> IF b \in read THEN DefOf(b) ELSE shape[b]]
        /\ refCount' = [b \in Block |-> IF b \in read THEN CountsOf(DefOf(b)) ELSE refCount[b]]
        /\ lib' = lib /\ synth' = synth /\ defining' = defining /\ deletes' = deletes /\ Wild' = Wild
    BY <1>3, WildSame DEF Read
  <1>9. \A b : b \in read <=> b \in k + 1 .. k + n
    <2>1. \A b \in read : b \in k + 1 .. k + n
      BY <1>2, <1>4
    <2>2. \A b \in k + 1 .. k + n : b - k \in DOMAIN list /\ list[b - k] = b
      BY <1>2, <1>4
    <2>3. QED
      BY <2>1, <2>2
  <1>10. \A b \in k + 1 .. k + n : DefOf(b) \in Def
    <2> SUFFICES ASSUME NEW b \in k + 1 .. k + n PROVE DefOf(b) \in Def
      OBVIOUS
    <2>1. n # 0 /\ b \in Int
      BY <1>2
    <2>2. Len(file) + list[1] - b = n + (k + 1) - b
      BY <2>1, <1>4
    <2>3. n + (k + 1) - b \in 1 .. n
      BY <1>2
    <2>4. QED
      BY <2>2, <2>3
  <1> HIDE DEF DefOf, read
  <1>11. /\ s.mem \in [Block -> {"unused", "live", "freed"}] /\ s.shape \in [Block -> Def \cup {NoShape}]
    BY DEF Good, Base, Typed
  <1>12. t.mem \in [Block -> {"unused", "live", "freed"}]
    BY <1>5, <1>8, <1>11 DEF Fields
  <1>13. t.shape \in [Block -> Def \cup {NoShape}] /\ DOMAIN t.refCount = Block
    BY <1>5, <1>8, <1>9, <1>10, <1>11 DEF Fields
  <1>14. ASSUME NEW b \in Block, b \in k + 1 .. k + n
         PROVE  t.mem[b] = "live" /\ Shaped(t, b) /\ t.refCount[b][0] = 1
    <2>1. t.mem[b] = "live" /\ t.shape[b] = DefOf(b) /\ t.refCount[b] = CountsOf(DefOf(b)) /\ DefOf(b) \in Def
      BY <1>14, <1>5, <1>8, <1>9, <1>10 DEF Fields
    <2>2. Len(DefOf(b).variants) \in Nat
      BY <2>1 DEF Def
    <2>3. QED
      BY <2>1, <2>2 DEF Shaped, CountsOf
  <1>15. ASSUME NEW b \in Block, b \notin k + 1 .. k + n
         PROVE  t.mem[b] = s.mem[b] /\ t.shape[b] = s.shape[b] /\ t.refCount[b] = s.refCount[b]
    BY <1>15, <1>5, <1>8, <1>9 DEF Fields
  <1>16. MemRead(s, t, k, n)
    BY <1>2, <1>7, <1>12, <1>13, <1>14, <1>15 DEF MemRead
  <1>17. QED
    BY <1>1, <1>16, <1>5, <1>8 DEF Fields

\* What of it is sent on.
LEMMA SendRead ==
    ASSUME NEW s, NEW t, s = State, t = State', NEW k, NEW n, NEW h, NEW m,
           k \in Nat, n \in Nat, h \in Nat, m \in Nat, k <= h, h + m <= k + n, k + n <= MaxDefs,
           NEW list \in Seq(Nat), Len(list) = m, \A i \in 1 .. m : list[i] = h + i,
           NEW rest, {rest[i] : i \in DOMAIN rest} = {b \in k + 1 .. k + n : b \notin h + 1 .. h + m},
           Send(list, rest)
    PROVE  ListRead(s, t, k, n, h, m)
  <1>1. /\ Fields(s, mem, shape, refCount, lib, synth, toEngine, defining, deletes, lost, Wild, careful)
        /\ Fields(t, mem', shape', refCount', lib', synth', toEngine', defining', deletes', lost', Wild', careful')
    BY StateFields
  <1>2. \A i \in 1 .. m : list[i] \in Block
    BY DefAssumption DEF Block
  <1>3. list \in Seq(Block)
    BY <1>2
  <1>4. QED
    BY <1>1, <1>3 DEF ListRead, Send, Fields

\* A file is read, and all of it, nothing, or all but the last g are sent on.
ReadFile(s, t, file, n) ==
    /\ s = State /\ t = State' /\ Good(s) /\ UNCHANGED careful
    /\ file \in Seq(Def) /\ n \in Nat /\ n = Len(file) /\ Read(file, Fresh(n))

LEMMA ReadFileOK ==
    ASSUME NEW s, NEW t, NEW file, NEW n, ReadFile(s, t, file, n)
    PROVE  /\ Used \in Nat /\ Used + n <= MaxDefs
           /\ Fresh(n) \in Seq(Nat) /\ Len(Fresh(n)) = n
           /\ DOMAIN Fresh(n) = 1 .. n /\ \A i \in 1 .. n : Fresh(n)[i] = Used + i
           /\ \A h, m : ListRead(s, t, Used, n, h, m) => Good(t)
  <1>1. /\ MemRead(s, t, Used, n)
        /\ t.lib = s.lib /\ t.synth = s.synth /\ t.defining = s.defining /\ t.deletes = s.deletes
        /\ t.wild = s.wild /\ t.careful = s.careful
    BY ReadMem DEF ReadFile
  <1>2. Used \in Nat /\ Used + n <= MaxDefs
    BY <1>1 DEF MemRead
  <1>3. /\ Fresh(n) \in Seq(Nat) /\ Len(Fresh(n)) = n
        /\ DOMAIN Fresh(n) = 1 .. n /\ \A i \in 1 .. n : Fresh(n)[i] = Used + i
    BY <1>2, FreshIs DEF ReadFile
  <1>4. ASSUME NEW h, NEW m, ListRead(s, t, Used, n, h, m) PROVE Good(t)
    <2>1. ReadIn(s, t, Used, n, h, m)
      BY <1>1, <1>4 DEF ReadIn
    <2>2. QED
      BY <2>1, ReadGood DEF ReadFile
  <1>5. QED
    BY <1>2, <1>3, <1>4

LEMMA SendAll ==
    ASSUME NEW s, NEW t, NEW file, NEW n, ReadFile(s, t, file, n), Send(Fresh(n), <<>>)
    PROVE  Good(t)
  <1>1. PICK k, list : k = Used /\ list = Fresh(n)
    OBVIOUS
  <1>2. /\ k \in Nat /\ n \in Nat /\ k + n <= MaxDefs /\ list \in Seq(Nat) /\ Len(list) = n
        /\ \A i \in 1 .. n : list[i] = k + i
    BY <1>1, ReadFileOK DEF ReadFile
  <1>3. PICK rest : rest = <<>>
    OBVIOUS
  <1>4. {rest[i] : i \in DOMAIN rest} = {}
    BY <1>3
  <1>5. {b \in k + 1 .. k + n : b \notin k + 1 .. k + n} = {}
    OBVIOUS
  <1>6. k <= k /\ k + n <= k + n
    BY <1>2
  <1>7. Send(list, rest) /\ s = State /\ t = State'
    BY <1>1, <1>3 DEF ReadFile
  <1>8. ListRead(s, t, k, n, k, n)
    BY <1>2, <1>4, <1>5, <1>6, <1>7, SendRead
  <1>9. QED
    BY <1>1, <1>8, ReadFileOK

LEMMA SendNone ==
    ASSUME NEW s, NEW t, NEW file, NEW n, ReadFile(s, t, file, n), Send(<<>>, Fresh(n))
    PROVE  Good(t)
  <1>1. PICK k, rest : k = Used /\ rest = Fresh(n)
    OBVIOUS
  <1>2. /\ k \in Nat /\ n \in Nat /\ k + n <= MaxDefs /\ DOMAIN rest = 1 .. n
        /\ \A i \in 1 .. n : rest[i] = k + i
    BY <1>1, ReadFileOK DEF ReadFile
  <1>3. PICK list : list = <<>>
    OBVIOUS
  <1>4. list \in Seq(Nat) /\ Len(list) = 0 /\ \A i \in 1 .. 0 : list[i] = k + i
    BY <1>3
  <1>5. {rest[i] : i \in DOMAIN rest} = {b \in k + 1 .. k + n : b \notin k + 1 .. k + 0}
    <2>1. \A i \in DOMAIN rest : rest[i] \in k + 1 .. k + n
      BY <1>2
    <2>2. \A b \in k + 1 .. k + n : b - k \in DOMAIN rest /\ rest[b - k] = b
      BY <1>2
    <2>3. k + 1 .. k + 0 = {}
      BY <1>2
    <2>4. QED
      BY <2>1, <2>2, <2>3
  <1>6. k <= k /\ k + 0 <= k + n /\ 0 \in Nat
    BY <1>2
  <1>7. Send(list, rest) /\ s = State /\ t = State'
    BY <1>1, <1>3 DEF ReadFile
  <1>8. ListRead(s, t, k, n, k, 0)
    BY <1>2, <1>4, <1>5, <1>6, <1>7, SendRead
  <1>9. QED
    BY <1>1, <1>8, ReadFileOK

LEMMA SendSome ==
    ASSUME NEW s, NEW t, NEW file, NEW n, ReadFile(s, t, file, n), NEW g \in 0 .. n,
           Send(SubSeq(Fresh(n), g + 1, Len(Fresh(n))), SubSeq(Fresh(n), 1, g))
    PROVE  Good(t)
  <1>1. PICK k, all : k = Used /\ all = Fresh(n)
    OBVIOUS
  <1>2. /\ k \in Nat /\ n \in Nat /\ k + n <= MaxDefs /\ all \in Seq(Nat) /\ Len(all) = n
        /\ \A i \in 1 .. n : all[i] = k + i
    BY <1>1, ReadFileOK DEF ReadFile
  <1>3. PICK list, rest : list = SubSeq(all, g + 1, n) /\ rest = SubSeq(all, 1, g)
    OBVIOUS
  <1>4. /\ list \in Seq(Nat) /\ Len(list) = n - g
        /\ \A i \in 1 .. n - g : list[i] = (k + g) + i
    <2>1. \A i \in g + 1 .. n : all[i] \in Nat
      BY <1>2
    <2>2. /\ list \in Seq(Nat)
          /\ Len(list) = IF g + 1 <= n THEN n - (g + 1) + 1 ELSE 0
          /\ \A i \in 1 .. n - (g + 1) + 1 : list[i] = all[(g + 1) + i - 1]
      BY <2>1, <1>2, <1>3, SubSeqProperties, SMTT(40)
    <2>3. n - (g + 1) + 1 = n - g
      BY <1>2
    <2>4. \A i \in 1 .. n - g : list[i] = all[g + i] /\ g + i \in 1 .. n
      BY <2>2, <2>3, <1>2
    <2>5. Len(list) = n - g
      BY <2>2, <1>2
    <2>6. QED
      BY <2>2, <2>4, <2>5, <1>2
  <1>5. /\ DOMAIN rest = 1 .. g /\ \A i \in 1 .. g : rest[i] = k + i
    <2>1. \A i \in 1 .. g : all[i] \in Nat
      BY <1>2
    <2>2. /\ rest \in Seq(Nat)
          /\ Len(rest) = IF 1 <= g THEN g - 1 + 1 ELSE 0
          /\ \A i \in 1 .. g - 1 + 1 : rest[i] = all[1 + i - 1]
      BY <2>1, <1>2, <1>3, SubSeqProperties
    <2>3. Len(rest) = g
      BY <2>2, <1>2
    <2>4. QED
      BY <2>2, <2>3, <1>2
  <1>6. {rest[i] : i \in DOMAIN rest} = {b \in k + 1 .. k + n : b \notin (k + g) + 1 .. (k + g) + (n - g)}
    <2>1. \A i \in DOMAIN rest : rest[i] \in k + 1 .. k + g
      BY <1>2, <1>5
    <2>2. \A b \in k + 1 .. k + g : b - k \in DOMAIN rest /\ rest[b - k] = b
      BY <1>2, <1>5
    <2>3. \A b : b \in k + 1 .. k + g <=> b \in k + 1 .. k + n /\ b \notin (k + g) + 1 .. (k + g) + (n - g)
      BY <1>2
    <2>4. QED
      BY <2>1, <2>2, <2>3
  <1>7. /\ k <= k + g /\ (k + g) + (n - g) <= k + n /\ k + g \in Nat /\ n - g \in Nat
    BY <1>2
  <1>8. Send(list, rest) /\ s = State /\ t = State'
    BY <1>1, <1>2, <1>3 DEF ReadFile
  <1>9. ListRead(s, t, k, n, k + g, n - g)
    BY <1>2, <1>4, <1>6, <1>7, <1>8, SendRead
  <1>10. QED
    BY <1>1, <1>9, ReadFileOK

LEMMA TwoFiles ==
    ASSUME NEW f \in DefFile, NEW g \in DefFile
    PROVE  /\ f \in Seq(Def) /\ g \in Seq(Def) /\ f \o g \in Seq(Def) /\ Len(f) \in Nat /\ Len(g) \in Nat
           /\ Len(f \o g) = Len(f) + Len(g)
  <1>1. f \in Seq(Def) /\ g \in Seq(Def)
    BY FileAssumption
  <1>2. QED
    BY <1>1

LEMMA ForgettingOK ==
    ASSUME NEW s, NEW t, s = State, t = State', Good(s), UNCHANGED careful,
           NEW f \in Seq(Def), NEW g \in Seq(Def), Read_Forgetting(f, g)
    PROVE  Good(t)
  <1>1. PICK n : n = Len(f) + Len(g)
    OBVIOUS
  <1>2. ReadFile(s, t, f \o g, n) /\ Len(g) \in 0 .. n
    BY <1>1 DEF ReadFile, Read_Forgetting
  <1>3. QED
    BY <1>1, <1>2, SendSome DEF Read_Forgetting

LEMMA ReadingOK ==
    ASSUME NEW s, NEW t, s = State, t = State', Good(s), UNCHANGED careful,
           \/ \E file \in DefFile : Recv_Stage2(file)
           \/ \E kept, others \in DefFile \cup {<<>>} : Load_Stage2(kept, others)
           \/ \E f, g \in DefFile : f # g /\ LoadDir_Stage2(f, g)
    PROVE  Good(t)
  <1>1. ASSUME NEW file \in DefFile, Recv_Stage2(file) PROVE Good(t)
    <2>1. PICK n : n = Len(file)
      OBVIOUS
    <2>2. ReadFile(s, t, file, n)
      BY <1>1, <2>1, TwoFiles DEF ReadFile, Recv_Stage2
    <2>3. QED
      BY <1>1, <2>1, <2>2, SendAll, SendNone DEF Recv_Stage2
  <1>2. ASSUME NEW kept \in DefFile \cup {<<>>}, NEW others \in DefFile \cup {<<>>},
               Load_Stage2(kept, others)
        PROVE  Good(t)
    <2>1. kept \in Seq(Def) /\ others \in Seq(Def)
      <3>1. <<>> \in Seq(Def)
        OBVIOUS
      <3>2. QED
        BY <3>1, FileAssumption, Zenon
    <2>2. kept \o others \in Seq(Def) /\ kept \o others \o others \in Seq(Def)
      BY <2>1
    <2>3. CASE Read_Forgetting(kept, kept \o others)
      BY <2>1, <2>2, <2>3, ForgettingOK
    <2>4. CASE Read_Forgetting(kept, kept \o others \o others)
      BY <2>1, <2>2, <2>4, ForgettingOK
    <2>5. QED
      BY <1>2, <2>3, <2>4 DEF Load_Stage2
  <1>3. ASSUME NEW f \in DefFile, NEW g \in DefFile, LoadDir_Stage2(f, g) PROVE Good(t)
    <2>1. CASE Read_Forgetting(f, g)
      BY <2>1, TwoFiles, ForgettingOK
    <2>2. CASE Read(f \o g, Fresh(Len(f) + Len(g))) /\ Send(Fresh(Len(f) + Len(g)), <<>>)
      <3>1. PICK n : n = Len(f) + Len(g)
        OBVIOUS
      <3>2. ReadFile(s, t, f \o g, n)
        BY <2>2, <3>1, TwoFiles DEF ReadFile
      <3>3. QED
        BY <2>2, <3>1, <3>2, SendAll
    <2>3. QED
      BY <1>3, <2>1, <2>2 DEF LoadDir_Stage2
  <1>4. QED
    BY <1>1, <1>2, <1>3

-----------------------------------------------------------------------------
(* The other actions. *)

LEMMA NamesIn ==
    ASSUME NEW s, s.shape = shape
    PROVE  /\ \A p : NameOf(p) = NameIn(s, p)
           /\ \A l, name : Named(l, name) <=> NamedIn(s, l, name)
           /\ \A p : s.lib = lib => Without(p) = LibWithout(s, p)
  <1>1. \A p : NameOf(p) = NameIn(s, p)
    BY DEF NameOf, NameIn
  <1>2. \A l, name : Named(l, name) <=> NamedIn(s, l, name)
    BY <1>1 DEF Named, NamedIn
  <1>3. \A p : s.lib = lib => Without(p) = LibWithout(s, p)
    BY DEF Without, LibWithout, Variants, VariantsIn
  <1>4. QED
    BY <1>1, <1>2, <1>3

LEMMA AddIs ==
    ASSUME NEW s, s.shape = shape, NEW b
    PROVE  World_AddGraphDef(b, s.lib) = LibWith(s, b)
  <1>1. \A l, name : Named(l, name) <=> NamedIn(s, l, name)
    BY NamesIn
  <1> DEFINE first == IF Cardinality(s.lib) >= MaxGraphDefs \/ Named(s.lib, shape[b].name) THEN s.lib
                      ELSE s.lib \cup {Original(b)}
             names == shape[b].variants
             new == {i \in DOMAIN names : ~Named(first, names[i]) /\ \A j \in 1 .. i - 1 : names[j] # names[i]}
             Before(i) == {j \in new : j < i}
  <1>2. World_AddGraphDef(b, s.lib) =
           first \cup {<<b, i>> : i \in {i \in new : Cardinality(first) + Cardinality(Before(i)) < MaxGraphDefs}}
    BY DEF World_AddGraphDef
  <1>3. first = FirstIn(s, b)
    BY <1>1 DEF FirstIn
  <1>4. new = NewIn(s, b)
    BY <1>1, <1>3 DEF NewIn
  <1>5. \A i : Before(i) = Earlier(s, b, i)
    BY <1>4 DEF Earlier
  <1> HIDE DEF first, new, Before
  <1>6. {i \in new : Cardinality(first) + Cardinality(Before(i)) < MaxGraphDefs} = Fitting(s, b)
    BY <1>3, <1>4, <1>5 DEF Fitting
  <1>7. QED
    BY <1>2, <1>3, <1>6 DEF LibWith

LEMMA DeleteMsgIs ==
    ASSUME NEW s, NEW t, NEW p, s.deletes = deletes, s.lost = lost, t.deletes = deletes', t.lost = lost'
    PROVE  /\ GraphDef_DeleteMsg(p) => Sent(s, t, p)
           /\ NotSent => Unsent(s, t)
  BY DEF GraphDef_DeleteMsg, NotSent, Sent, Unsent

LEMMA FreeOK ==
    ASSUME NEW s, NEW t, s = State, t = State', Good(s), UNCHANGED careful, NEW name, d_free(name)
    PROVE  Good(t)
  <1>1. /\ Fields(s, mem, shape, refCount, lib, synth, toEngine, defining, deletes, lost, Wild, careful)
        /\ Fields(t, mem', shape', refCount', lib', synth', toEngine', defining', deletes', lost', Wild', careful')
    BY StateFields
  <1>2. PICK p \in Get(name) : Release(p) /\ lib' = Without(p)
    BY DEF d_free
  <1>3. p \in s.lib /\ t.lib = LibWithout(s, p)
    BY <1>1, <1>2, NamesIn DEF Get, Fields
  <1>4. Recount(s, t, p, -1)
    BY <1>1, <1>2 DEF Release, Counted, Recount, Fields
  <1>5. IF s.refCount[p[1]][p[2]] - 1 = 0 THEN Sent(s, t, p) ELSE Unsent(s, t)
    BY <1>1, <1>2, DeleteMsgIs DEF Release, RefCount, Fields
  <1>6. Removed(s, t, p)
    BY <1>1, <1>3, <1>4, <1>5, WildSame DEF Removed, Still, SameLists, Fields, d_free
  <1>7. QED
    BY <1>6, RemovedGood

LEMMA DefineNewOK ==
    ASSUME NEW s, NEW t, s = State, t = State', Good(s), UNCHANGED careful, Define_New
    PROVE  Good(t)
  <1>1. /\ Fields(s, mem, shape, refCount, lib, synth, toEngine, defining, deletes, lost, Wild, careful)
        /\ Fields(t, mem', shape', refCount', lib', synth', toEngine', defining', deletes', lost', Wild', careful')
    BY StateFields
  <1>2. PICK b : b = Head(defining)
    OBVIOUS
  <1>3. /\ defining # <<>> /\ Get(shape[b].name) = {} /\ lib' = World_AddGraphDef(b, lib)
        /\ lost' = lost \cup ({b} \ {p[1] : p \in lib'}) /\ defining' = Tail(defining)
        /\ UNCHANGED <<mem, shape, refCount, synth, toEngine, deletes>> /\ Wild' = Wild
    BY <1>2, WildSame DEF Define_New
  <1>4. Taken(s, t, b)
    BY <1>1, <1>2, <1>3 DEF Taken, Fields
  <1>5. ~NamedIn(s, s.lib, s.shape[b].name)
    BY <1>1, <1>3, NamesIn DEF Get, NamedIn, Fields
  <1>6. t.lib = LibWith(s, b)
    BY <1>1, <1>3, AddIs DEF Fields
  <1>7. Added(s, t, b)
    BY <1>1, <1>3, <1>4, <1>5, <1>6 DEF Added, Still, Fields
  <1>8. QED
    BY <1>7, AddedGood

\* GraphDef_Define over a resident definition: the old one is removed, which
\* leaves room for the new one.
LEMMA DefineOverOK ==
    ASSUME NEW s, NEW t, s = State, t = State', Good(s), UNCHANGED careful, Define_Over
    PROVE  /\ Good(t)
           /\ LET b == Head(defining) IN b \in Block /\ Original(b) \in t.lib /\ t.shape = s.shape
  <1>1. /\ Fields(s, mem, shape, refCount, lib, synth, toEngine, defining, deletes, lost, Wild, careful)
        /\ Fields(t, mem', shape', refCount', lib', synth', toEngine', defining', deletes', lost', Wild', careful')
    BY StateFields
  <1>2. PICK b : b = Head(defining)
    OBVIOUS
  <1>3. PICK p \in Get(shape[b].name) : Release(p) /\ lib' = World_AddGraphDef(b, Without(p))
    BY <1>2 DEF Define_Over
  <1>4. PICK u : u = [mem |-> mem, shape |-> shape, refCount |-> refCount', lib |-> Without(p), synth |-> synth,
                      toEngine |-> toEngine, defining |-> defining, deletes |-> deletes', lost |-> lost',
                      wild |-> Wild, careful |-> careful]
    OBVIOUS
  <1>5. Fields(u, mem, shape, refCount', Without(p), synth, toEngine, defining, deletes', lost', Wild, careful)
    BY <1>4 DEF Fields
  <1>6. p \in s.lib /\ u.lib = LibWithout(s, p) /\ NameIn(s, p) = s.shape[b].name
    BY <1>1, <1>3, <1>5, NamesIn DEF Get, Fields
  <1>7. Recount(s, u, p, -1)
    BY <1>1, <1>3, <1>5 DEF Release, Counted, Recount, Fields
  <1>8. IF s.refCount[p[1]][p[2]] - 1 = 0 THEN Sent(s, u, p) ELSE Unsent(s, u)
    BY <1>1, <1>3, <1>5, DeleteMsgIs DEF Release, RefCount, Fields
  <1>9. Removed(s, u, p)
    BY <1>1, <1>5, <1>6, <1>7, <1>8 DEF Removed, Still, SameLists, Fields
  <1>10. Good(u) /\ Cardinality(u.lib) < MaxGraphDefs
    BY <1>9, RemovedGood
  <1>11. Taken(u, t, b)
    BY <1>1, <1>2, <1>5 DEF Taken, Fields, Define_Over
  <1>12. ~NamedIn(u, u.lib, u.shape[b].name)
    <2>1. u.lib \subseteq s.lib /\ p \notin u.lib /\ u.shape = s.shape
      BY <1>1, <1>5, <1>6, LibWithoutOK DEF Fields, Good
    <2>2. \A q : NameIn(u, q) = NameIn(s, q)
      BY <2>1 DEF NameIn
    <2>3. QED
      BY <2>1, <2>2, <1>6 DEF NamedIn, Good, Names
  <1>13. t.lib = LibWith(u, b)
    BY <1>1, <1>3, <1>5, AddIs DEF Fields
  <1>14. b \in Block /\ u.mem[b] = "live"
    <2>1. TakenOnly(u, t, b)
      BY <1>10, <1>11, TakenOK DEF Good, Base, Typed, ListsOK
    <2>2. QED
      BY <2>1, <1>10 DEF TakenOnly, Good, Blocks, BlockOK
  <1>15. Original(b) \in t.lib
    <2>1. Entries(u, b, t.lib)
      BY <1>10, <1>13, <1>14, LibWithEntries DEF Good
    <2>2. QED
      BY <2>1, <1>10, <1>12 DEF Entries
  <1>16. {b} \ {q[1] : q \in t.lib} = {}
    BY <1>14, <1>15, OriginalPtr
  <1>17. t.lost = u.lost \cup ({b} \ {q[1] : q \in t.lib})
    BY <1>1, <1>5, <1>16 DEF Fields
  <1>18. Added(u, t, b)
    BY <1>1, <1>5, <1>11, <1>12, <1>13, <1>17, WildSame DEF Added, Still, Fields, Define_Over
  <1>19. Good(t)
    BY <1>10, <1>18, AddedGood
  <1>20. QED
    BY <1>1, <1>2, <1>14, <1>15, <1>19 DEF Fields, Define_Over

LEMMA SynthsOK ==
    ASSUME NEW s, NEW t, s = State, t = State', Good(s), UNCHANGED careful, NEW x \in Synth, NEW name,
           Graph_Dtor(x) \/ s_new(x, name)
    PROVE  Good(t)
  <1>1. /\ Fields(s, mem, shape, refCount, lib, synth, toEngine, defining, deletes, lost, Wild, careful)
        /\ Fields(t, mem', shape', refCount', lib', synth', toEngine', defining', deletes', lost', Wild', careful')
    BY StateFields
  <1>2. CASE s_new(x, name)
    <2>1. PICK p \in Get(name) : /\ careful => p[2] = 0
                                 /\ synth' = [synth EXCEPT ![x] = p] /\ refCount' = Counted(p, 1)
      BY <1>2 DEF s_new
    <2>2. p \in s.lib
      BY <1>1, <2>1 DEF Get, Fields
    <2>3. Recount(s, t, p, 1)
      BY <1>1, <2>1 DEF Counted, Recount, Fields
    <2>4. Created(s, t, x, p)
      BY <1>1, <1>2, <2>1, <2>2, <2>3, WildSame DEF Created, Still, SameLists, Unsent, Fields, s_new
    <2>5. QED
      BY <2>4, CreatedGood
  <1>3. CASE Graph_Dtor(x)
    <2>1. PICK p : p = synth[x]
      OBVIOUS
    <2>2. /\ GraphDef_DeleteMsg(p) => Sent(s, t, p)
          /\ NotSent => Unsent(s, t)
      BY <1>1, DeleteMsgIs DEF Fields
    <2>3. CASE Live(p)
      <3>1. /\ refCount' = Counted(p, -1) /\ Wild' = Wild
            /\ IF RefCount(p) - 1 <= 0 THEN GraphDef_DeleteMsg(p) ELSE NotSent
        BY <1>3, <2>1, <2>3, WildSame DEF Graph_Dtor
      <3>2. Recount(s, t, p, -1) /\ s.mem[p[1]] = "live"
        BY <1>1, <2>3, <3>1 DEF Counted, Recount, Fields, Live, BlockOf
      <3>3. IF s.refCount[p[1]][p[2]] - 1 <= 0 THEN Sent(s, t, p) ELSE Unsent(s, t)
        BY <1>1, <3>1, <2>2 DEF RefCount, Fields
      <3>4. Ended(s, t, x)
        BY <1>1, <1>3, <2>1, <3>1, <3>2, <3>3 DEF Ended, Still, SameLists, Fields, Graph_Dtor
      <3>5. QED
        BY <3>4, EndedGood
    <2>4. CASE ~Live(p)
      <3>1. /\ GraphDef_DeleteMsg(p) \/ NotSent
            /\ wild' = wild \cup {"definition"} /\ refCount' = refCount
        BY <1>3, <2>1, <2>4 DEF Graph_Dtor
      <3>2. s.mem[p[1]] # "live" /\ t.wild = TRUE
        <4>1. Wild' = TRUE
          BY <3>1 DEF Wild
        <4>2. QED
          BY <1>1, <2>4, <4>1 DEF Fields, Live, BlockOf
      <3>3. Ended(s, t, x)
        BY <1>1, <1>3, <2>1, <2>2, <3>1, <3>2 DEF Ended, Still, SameLists, Fields, Graph_Dtor
      <3>4. QED
        BY <3>3, EndedGood
    <2>5. QED
      BY <2>3, <2>4
  <1>4. QED
    BY <1>2, <1>3

LEMMA OthersOK ==
    ASSUME NEW s, NEW t, s = State, t = State', Good(s), UNCHANGED careful,
           Stage3_Begin \/ d_freeAll \/ d_removed \/ Delete_Perform
    PROVE  Good(t)
  <1>1. /\ Fields(s, mem, shape, refCount, lib, synth, toEngine, defining, deletes, lost, Wild, careful)
        /\ Fields(t, mem', shape', refCount', lib', synth', toEngine', defining', deletes', lost', Wild', careful')
    BY StateFields
  <1>2. CASE Stage3_Begin
    <2>1. Begun(s, t)
      BY <1>1, <1>2, WildSame DEF Begun, Still, Unsent, Fields, Stage3_Begin, Idle
    <2>2. QED
      BY <2>1, BegunGood
  <1>3. CASE d_freeAll
    <2>1. t.wild \in {s.wild} \cup {TRUE : p \in {p \in s.lib : p[2] # 0 /\ Original(p[1]) \in s.lib}}
      <3>1. CASE wild' = wild
        BY <1>1, <3>1, WildSame DEF Fields
      <3>2. CASE /\ \E p \in lib : p[2] # 0 /\ Original(p[1]) \in lib
                 /\ wild' = wild \cup {"definition"}
        <4>1. Wild' = TRUE
          BY <3>2 DEF Wild
        <4>2. QED
          BY <1>1, <3>2, <4>1 DEF Fields
      <3>3. QED
        BY <1>3, <3>1, <3>2 DEF d_freeAll
    <2>2. FreedAll(s, t)
      BY <1>1, <1>3, <2>1, ZenonT(60) DEF FreedAll, SameLists, Unsent, Fields, d_freeAll
    <2>3. QED
      BY <2>2, FreedAllGood
  <1>4. CASE Delete_Perform
    <2>1. PICK p : p = Head(deletes)
      OBVIOUS
    <2>2. t.mem = (IF p[2] = 0 THEN [s.mem EXCEPT ![p[1]] = "freed"] ELSE s.mem)
      BY <1>1, <1>4, <2>1 DEF Fields, Delete_Perform, GraphDef_Free
    <2>3. t.wild = (s.wild \/ s.mem[p[1]] # "live")
      <3>1. wild' = wild \cup IF s.mem[p[1]] = "live" THEN {} ELSE {"definition"}
        BY <1>1, <1>4, <2>1 DEF Fields, Delete_Perform, GraphDef_Free, Live, BlockOf
      <3>2. CASE s.mem[p[1]] = "live"
        <4>1. wild' = wild
          BY <3>1, <3>2
        <4>2. t.wild = s.wild /\ s.wild \in BOOLEAN
          BY <1>1, <4>1, WildSame DEF Fields, Good, Base, Typed
        <4>3. CASE s.wild = TRUE
          BY <4>2, <4>3
        <4>4. CASE s.wild = FALSE
          BY <3>2, <4>2, <4>4
        <4>5. QED
          BY <4>2, <4>3, <4>4
      <3>3. CASE s.mem[p[1]] # "live"
        <4>1. Wild' = TRUE
          BY <3>1, <3>3 DEF Wild
        <4>2. QED
          BY <1>1, <3>3, <4>1, Zenon DEF Fields
      <3>4. QED
        BY <3>2, <3>3
    <2>4. Deleted(s, t)
      BY <1>1, <1>4, <2>1, <2>2, <2>3 DEF Deleted, SameLists, Fields, Delete_Perform
    <2>5. QED
      BY <2>4, DeletedGood
  <1>5. CASE d_removed
    <2>1. Wild' = Wild
      BY <1>5 DEF d_removed, Wild
    <2>2. t = s
      BY <1>5, <2>1 DEF d_removed, State
    <2>3. QED
      BY <2>2
  <1>6. QED
    BY <1>2, <1>3, <1>4, <1>5

-----------------------------------------------------------------------------
(* The invariant. *)

LEMMA InitInv ==
    ASSUME Init
    PROVE  Inv
  <1>1. PICK s : s = State
    OBVIOUS
  <1>2. /\ s.mem = [b \in Block |-> "unused"] /\ s.shape = [b \in Block |-> NoShape]
        /\ s.refCount = [b \in Block |-> <<>>] /\ s.lib = {} /\ s.synth = [x \in Synth |-> Null]
        /\ s.toEngine = <<>> /\ s.defining = <<>> /\ s.deletes = <<>>
        /\ s.lost = {} /\ s.wild = FALSE /\ s.careful \in BOOLEAN
    <2>1. Wild = FALSE
      BY DEF Init, Wild
    <2>2. QED
      BY <1>1, <2>1 DEF Init, State
  <1>3. In(s.deletes) = {} /\ ListNo(s) = {0} /\ In(ListAt(s, 0)) = {}
    BY <1>2 DEF In, ListNo, ListAt
  <1>4. Base(s)
    <2>1. IsFiniteSet(s.lib) /\ Cardinality(s.lib) = 0
      BY <1>2, FS_EmptySet
    <2>2. Typed(s)
      <3>1. s.defining \in Seq(Block) /\ s.toEngine \in Seq(Seq(Block)) /\ s.deletes \in Seq(Ptr)
        BY <1>2
      <3>2. Len(s.deletes) <= FifoSize /\ Cardinality(s.lib) <= MaxGraphDefs
        BY <1>2, <2>1, DefAssumption
      <3>3. s.mem \in [Block -> {"unused", "live", "freed"}] /\ s.synth \in [Synth -> Ptr \cup {Null}]
        BY <1>2
      <3>4. s.shape \in [Block -> Def \cup {NoShape}] /\ DOMAIN s.refCount = Block
        BY <1>2
      <3>5. s.lib \subseteq Ptr /\ s.lost \subseteq Block /\ s.wild \in BOOLEAN /\ s.careful \in BOOLEAN
        BY <1>2
      <3>6. QED
        BY <2>1, <3>1, <3>2, <3>3, <3>4, <3>5 DEF Typed
    <2>3. Prefix(s)
      <3>1. 0 \in 0 .. MaxDefs /\ \A b \in Block : s.mem[b] # "unused" <=> b <= 0
        BY <1>2, DefAssumption DEF Block
      <3>2. QED
        BY <3>1 DEF Prefix
    <2>4. Shapes(s) /\ Pointers(s)
      BY <1>2, <1>3 DEF Shapes, Pointers
    <2>5. QED
      BY <2>2, <2>3, <2>4 DEF Base
  <1>5. Once(s) /\ Library(s) /\ Names(s) /\ InTime(s)
    BY <1>2, <1>3 DEF Once, Library, Names, InTime
  <1>6. ASSUME NEW b \in Block PROVE BlockOK(s, b)
    <2>1. ~Awaited(s, b)
      BY <1>3 DEF Awaited
    <2>2. QED
      BY <2>1, <1>2 DEF BlockOK
  <1>7. QED
    BY <1>1, <1>4, <1>5, <1>6 DEF Inv, Good, Blocks

LEMMA NextInv ==
    ASSUME Inv, [Next]_vars
    PROVE  Inv'
  <1>1. PICK s : s = State
    OBVIOUS
  <1>2. PICK t : t = State'
    OBVIOUS
  <1>3. Good(s)
    BY <1>1 DEF Inv
  <1>4. CASE Next
    <2>1. UNCHANGED careful
      BY <1>4 DEF Next
    <2>2. CASE \/ \E file \in DefFile : Recv_Stage2(file)
               \/ \E kept, others \in DefFile \cup {<<>>} : Load_Stage2(kept, others)
               \/ \E f, g \in DefFile : f # g /\ LoadDir_Stage2(f, g)
      BY <1>1, <1>2, <1>3, <2>1, <2>2, ReadingOK DEF Inv
    <2>3. CASE Stage3_Begin \/ d_freeAll \/ d_removed \/ Delete_Perform
      BY <1>1, <1>2, <1>3, <2>1, <2>3, OthersOK DEF Inv
    <2>4. CASE Define_New
      BY <1>1, <1>2, <1>3, <2>1, <2>4, DefineNewOK DEF Inv
    <2>5. CASE Define_Over
      BY <1>1, <1>2, <1>3, <2>1, <2>5, DefineOverOK DEF Inv
    <2>6. CASE \E name \in NameUsed : d_free(name)
      BY <1>1, <1>2, <1>3, <2>1, <2>6, FreeOK DEF Inv
    <2>7. CASE \E x \in Synth : Graph_Dtor(x) \/ \E name \in NameUsed : s_new(x, name)
      BY <1>1, <1>2, <1>3, <2>1, <2>7, SynthsOK DEF Inv
    <2>8. QED
      BY <1>4, <2>2, <2>3, <2>4, <2>5, <2>6, <2>7 DEF Next
  <1>5. CASE UNCHANGED vars
    <2>1. t = s
      BY <1>1, <1>2, <1>5, WildSame DEF vars, State
    <2>2. QED
      BY <2>1, <1>2, <1>3 DEF Inv
  <1>6. QED
    BY <1>4, <1>5

\* The inductive invariant: the count of every definition is exact, it is in
\* one place, and, if clients are careful, no message comes after its memory
\* is freed.
THEOREM Invariance == Spec => []Inv
  BY InitInv, NextInv, PTL DEF Spec

LEMMA InvGood ==
    ASSUME Inv, NEW s, s = State
    PROVE  /\ Good(s)
           /\ Fields(s, mem, shape, refCount, lib, synth, toEngine, defining, deletes, lost, Wild, careful)
  BY DEF Inv, Fields, State

\* What GraphDef_DeleteMsg is at, and what was used of freed memory.
TellingOK == telling \in Ptr \cup {Null} /\ wild \subseteq {"definition", "name"}

LEMMA TellingTyped ==
    ASSUME Inv, TellingOK, [Next]_vars
    PROVE  TellingOK'
  <1>1. lib \subseteq Ptr /\ synth \in [Synth -> Ptr \cup {Null}]
    BY InvGood DEF Good, Base, Typed, Fields
  <1>2. CASE UNCHANGED <<telling, wild>>
    BY <1>2 DEF TellingOK
  <1>3. ASSUME NEW p \in Ptr, GraphDef_DeleteMsg(p) \/ NotSent, wild' \subseteq wild \cup {"definition"}
        PROVE  TellingOK'
    BY <1>3 DEF TellingOK, GraphDef_DeleteMsg, NotSent
  <1>4. ASSUME NEW p \in lib, Release(p), wild' = wild PROVE TellingOK'
    <2>1. p \in Ptr /\ wild' \subseteq wild \cup {"definition"}
      BY <1>1, <1>4
    <2>2. GraphDef_DeleteMsg(p) \/ NotSent
      BY <1>4 DEF Release
    <2>3. QED
      BY <2>1, <2>2, <1>3
  <1>5. CASE d_removed
    BY <1>5 DEF d_removed, TellingOK
  <1>6. CASE d_freeAll
    BY <1>6 DEF d_freeAll, TellingOK
  <1>7. CASE Delete_Perform
    BY <1>7 DEF Delete_Perform, GraphDef_Free, TellingOK
  <1>8. ASSUME NEW x \in Synth, Graph_Dtor(x) PROVE TellingOK'
    <2>1. PICK p : p = synth[x]
      OBVIOUS
    <2>2. p \in Ptr
      BY <1>1, <1>8, <2>1 DEF Graph_Dtor
    <2>3. GraphDef_DeleteMsg(p) \/ NotSent
      BY <1>8, <2>1, Zenon DEF Graph_Dtor
    <2>4. wild' = wild \/ wild' = wild \cup {"definition"}
      BY <1>8, <2>1, Zenon DEF Graph_Dtor
    <2>5. QED
      BY <2>2, <2>3, <2>4, <1>3
  <1>9. ASSUME NEW x \in Synth, NEW name, s_new(x, name) PROVE TellingOK'
    BY <1>2, <1>9 DEF s_new
  <1>10. ASSUME NEW name, d_free(name) PROVE TellingOK'
    <2>1. PICK p \in Get(name) : Release(p)
      BY <1>10, Zenon DEF d_free
    <2>2. p \in lib /\ wild' = wild
      BY <1>10 DEF d_free, Get
    <2>3. QED
      BY <2>1, <2>2, <1>4
  <1>11. CASE Define_Over
    <2>1. PICK p \in Get(shape[Head(defining)].name) : Release(p)
      BY <1>11, Zenon DEF Define_Over
    <2>2. p \in lib /\ wild' = wild
      BY <1>11 DEF Define_Over, Get
    <2>3. QED
      BY <2>1, <2>2, <1>4
  <1>12. CASE Stage3_Begin \/ Define_New
    BY <1>2, <1>12 DEF Stage3_Begin, Define_New
  <1>13. ASSUME \/ \E file \in DefFile : Recv_Stage2(file)
                \/ \E kept, others \in DefFile \cup {<<>>} : Load_Stage2(kept, others)
                \/ \E f, g \in DefFile : f # g /\ LoadDir_Stage2(f, g)
         PROVE  TellingOK'
    <2>1. \A file, list : Read(file, list) => UNCHANGED <<telling, wild>>
      BY DEF Read
    <2>2. \E file, list : Read(file, list)
      BY <1>13, Zenon DEF Recv_Stage2, Load_Stage2, LoadDir_Stage2, Read_Forgetting
    <2>3. QED
      BY <2>1, <2>2, <1>2
  <1>14. CASE UNCHANGED vars
    BY <1>2, <1>14 DEF vars
  <1>15. QED
    BY <1>5, <1>6, <1>7, <1>8, <1>9, <1>10, <1>11, <1>12, <1>13, <1>14, Zenon DEF Next

THEOREM TellingAlways == Spec => []TellingOK
  <1>1. Init => TellingOK
    BY DEF Init, TellingOK
  <1>2. QED
    BY <1>1, TellingTyped, Invariance, PTL DEF Spec

\* Type correctness of the definitions and of who points to them: the library
\* and mDeleteGraphDefs stay within their capacities.
THEOREM TypeCorrect == Spec => []TypeOK
  <1>1. ASSUME Inv, TellingOK PROVE TypeOK
    <2>1. PICK s : s = State
      OBVIOUS
    <2>2. Typed(s) /\ Fields(s, mem, shape, refCount, lib, synth, toEngine, defining, deletes, lost, Wild, careful)
      BY <1>1, <2>1, InvGood DEF Good, Base
    <2>3. QED
      BY <1>1, <2>2 DEF Typed, Fields, TypeOK, TellingOK
  <1>2. QED
    BY <1>1, TellingAlways, Invariance, PTL

\* Whatever is defined, overwritten, removed and freed, with whatever variants
\* and names: what the library holds is in memory that is not freed, and no
\* name is taken twice.
THEOREM LibrarySound == Spec => []LibSound
  <1>1. ASSUME Inv PROVE LibSound
    <2>1. PICK s : s = State
      OBVIOUS
    <2>2. Library(s) /\ Names(s) /\ s.mem = mem /\ s.lib = lib /\ s.shape = shape
      BY <1>1, <2>1, InvGood DEF Good, Fields
    <2>3. \A p : NameOf(p) = NameIn(s, p)
      BY <2>2, NamesIn
    <2>4. QED
      BY <2>2, <2>3 DEF LibSound, Library, Names, Live, BlockOf
  <1>2. QED
    BY <1>1, Invariance, PTL

\* The reference count of a definition that is not lost is the number of its
\* synths, and one for the library or the command that brings it; and one that
\* is live is resident, about to be, used, or on its way to be freed.
THEOREM CountsExact == Spec => []Accounted
  <1>1. ASSUME Inv PROVE Accounted
    <2>1. PICK s : s = State
      OBVIOUS
    <2>2. Good(s) /\ Fields(s, mem, shape, refCount, lib, synth, toEngine, defining, deletes, lost, Wild, careful)
      BY <1>1, <2>1, InvGood
    <2> SUFFICES ASSUME NEW b \in Block, mem[b] = "live", b \notin lost
                 PROVE  /\ refCount[b][0] = Cardinality(UsedBy(Original(b)))
                                            + IF Original(b) \in lib \/ Pending(b) THEN 1 ELSE 0
                        /\ \/ Original(b) \in lib \/ Pending(b) \/ UsedBy(Original(b)) # {}
                           \/ Queued(Original(b))
      BY DEF Accounted
    <2>3. /\ Counts(s, b)
          /\ Original(b) \in s.lib \/ Awaited(s, b) \/ Users(s, b) # {} \/ Leaving(s, b)
      BY <2>2 DEF Good, Blocks, BlockOK, Fields
    <2>4. UsedBy(Original(b)) = Users(s, b)
      BY <2>2 DEF UsedBy, Users, Fields
    <2>5. defining \in Seq(Block) /\ toEngine \in Seq(Seq(Block)) /\ deletes \in Seq(Ptr)
      BY <2>2 DEF Good, Base, Typed, Fields
    <2>6. Queued(Original(b)) <=> Leaving(s, b)
      BY <2>2, <2>5 DEF Queued, Leaving, In, Fields
    <2>7. Pending(b) <=> Awaited(s, b)
      <3>1. \A n \in DOMAIN toEngine : toEngine[n] \in Seq(Block)
        BY <2>5
      <3>2. DOMAIN defining = In(defining) /\ \A n \in DOMAIN toEngine : DOMAIN toEngine[n] = In(toEngine[n])
        BY <2>5, <3>1 DEF In
      <3>3. /\ 0 \in ListNo(s) /\ ListAt(s, 0) = defining
            /\ \A n \in DOMAIN toEngine : n \in ListNo(s) /\ ListAt(s, n) = toEngine[n]
            /\ \A k \in ListNo(s) : k = 0 \/ k \in DOMAIN toEngine
        BY <2>2, <2>5 DEF ListNo, ListAt, Fields
      <3>4. QED
        BY <3>2, <3>3 DEF Pending, Awaited
    <2>8. QED
      BY <2>2, <2>3, <2>4, <2>6, <2>7 DEF Counts, Fields
  <1>2. QED
    BY <1>1, Invariance, PTL

\* If clients are careful, no synth is left with a definition that was freed,
\* and no thread uses the memory of one, or frees it again, but to read its name:
\* GraphDef_DeleteMsg does that when the NRT thread may have freed it already.
THEOREM SynthsKeepDefs == Spec => []SynthsSound
  <1>1. ASSUME Inv, TellingOK PROVE SynthsSound
    <2>1. PICK s : s = State
      OBVIOUS
    <2>2. InTime(s) /\ Fields(s, mem, shape, refCount, lib, synth, toEngine, defining, deletes, lost, Wild, careful)
      BY <1>1, <2>1, InvGood, SMTT(40) DEF Good
    <2>3. ASSUME careful PROVE wild \subseteq {"name"}
      <3>1. ~Wild
        BY <2>2, <2>3 DEF InTime, Fields
      <3>2. QED
        BY <1>1, <3>1 DEF Wild, TellingOK
    <2>4. ASSUME careful, NEW x \in Synth, synth[x] # Null PROVE Live(synth[x])
      BY <2>2, <2>4 DEF InTime, Fields, Live, BlockOf
    <2>5. QED
      BY <2>3, <2>4 DEF SynthsSound
  <1>2. QED
    BY <1>1, TellingAlways, Invariance, PTL

\* Only the two turns of GraphDef_Define take a definition from its list.
LEMMA OnlyDefine ==
    ASSUME Inv, [Next]_vars, defining # <<>>, defining' = Tail(defining)
    PROVE  (Define_New \/ Define_Over) /\ UNCHANGED careful
  <1>1. defining \in Seq(Block)
    BY InvGood DEF Good, Base, Typed, Fields
  <1>2. defining' # defining
    <2>1. PICK d : d = defining
      OBVIOUS
    <2>2. Len(Tail(d)) = Len(d) - 1 /\ Len(d) \in Nat
      BY <1>1, <2>1
    <2>3. Tail(d) # d
      BY <2>2
    <2>4. QED
      BY <2>1, <2>3
  <1>3. Next
    BY <1>2 DEF vars
  <1>4. QED
    BY <1>2, <1>3, ZenonT(60) DEF Next, Recv_Stage2, Load_Stage2, LoadDir_Stage2, Read_Forgetting, Read,
       Stage3_Begin, Idle, d_free, d_freeAll, d_removed, Graph_Dtor, s_new, Delete_Perform

\* The library never refuses a definition that replaces one, even when it is
\* full: after the turn of GraphDef_Define the name is that of the new one.
THEOREM AlwaysOverwritten == Spec => Overwritten
  <1>1. ASSUME Inv, Inv', [Next]_vars, NEW b \in Block, defining # <<>>, b = Head(defining),
               defining' = Tail(defining), Get(shape[b].name) # {}
        PROVE  Get(shape[b].name)' = {Original(b)}
    <2>1. Define_Over /\ UNCHANGED careful
      <3>1. ~Define_New
        BY <1>1 DEF Define_New
      <3>2. QED
        BY <3>1, <1>1, OnlyDefine
    <2>2. PICK s, t : s = State /\ t = State'
      OBVIOUS
    <2>3. Good(s)
      BY <1>1, <2>2, InvGood
    <2>4. Good(t) /\ Original(b) \in t.lib /\ t.shape = s.shape
      BY <1>1, <2>1, <2>2, <2>3, DefineOverOK
    <2>5. t.lib = lib' /\ t.shape = shape'
      BY <2>2 DEF State
    <2>6. \A p : NameIn(t, p) = NameOf(p)'
      BY <2>5 DEF NameOf, NameIn
    <2>7. NameIn(t, Original(b)) = t.shape[b].name
      BY OriginalPtr DEF NameIn
    <2>8. Get(shape[b].name)' = {p \in t.lib : NameIn(t, p) = t.shape[b].name}
      BY <2>5, <2>6 DEF Get
    <2>9. \A p \in t.lib : NameIn(t, p) = t.shape[b].name => p = Original(b)
      BY <2>4, <2>7 DEF Good, Names
    <2>10. QED
      BY <2>4, <2>7, <2>8, <2>9
  <1>2. ASSUME Inv, Inv', [Next]_vars
        PROVE  [\A b \in Block :
                   defining # <<>> /\ b = Head(defining) /\ defining' = Tail(defining)
                   /\ Get(shape[b].name) # {}
                   => Get(shape[b].name)' = {Original(b)}]_vars
    BY <1>1, <1>2
  <1>3. QED
    BY <1>2, Invariance, PTL DEF Spec, Overwritten
=============================================================================
