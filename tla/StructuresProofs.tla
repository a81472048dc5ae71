-------------------------- MODULE StructuresProofs --------------------------
(***************************************************************************)
(* Three of the structures that one thread at a time works on, for every   *)
(* size of them: the supply of client IDs (ClientIDs), the wire buffers of *)
(* a definition (BufColoring) and hash tables (HashTable).                 *)
(***************************************************************************)
EXTENDS ClientIDs, BufColoring, HashTable,
        FiniteSetTheorems, FunctionTheorems, WellFoundedInduction, TLAPS

-----------------------------------------------------------------------------
(***************************************************************************)
(* The IDs of clients for every number of clients and of IDs.              *)
(*                                                                         *)
(* That no two clients share an ID is not inductive by itself: it needs    *)
(* that the deque holds no ID twice and none that a client has (Apart).    *)
(* That front() is never called on an empty deque needs, besides, that no  *)
(* ID gets lost (NoneLost): an empty deque then means that the clients     *)
(* have all MaxUsers IDs, so that there are as many clients, and the test  *)
(* against mMaxUsers has sent the command away.                            *)
(***************************************************************************)
IInv == TypeOK /\ IDsDistinct /\ Apart /\ NoneLost

\* What erase leaves of a deque without duplicates: everything else, once.
LEMMA EraseLeaves ==
    ASSUME NEW s \in Seq(ID), NEW i \in 1 .. Len(s),
           \A j, k \in 1 .. Len(s) : s[j] = s[k] => j = k
    PROVE  /\ Erase(s, i) \in Seq(ID) /\ Len(Erase(s, i)) = Len(s) - 1
           /\ \A j, k \in 1 .. Len(s) - 1 : Erase(s, i)[j] = Erase(s, i)[k] => j = k
           /\ \A j \in 1 .. Len(s) - 1 : Erase(s, i)[j] # s[i]
           /\ \A j \in 1 .. Len(s) - 1 : \E k \in 1 .. Len(s) : Erase(s, i)[j] = s[k]
           /\ \A k \in 1 .. Len(s) : k # i => \E j \in 1 .. Len(s) - 1 : Erase(s, i)[j] = s[k]
  <1>1. Len(s) \in Nat /\ Len(s) >= 1 /\ Len(s) - 1 \in Nat
    OBVIOUS
  <1>2. \A j \in 1 .. Len(s) - 1 : j \in 1 .. Len(s) /\ j + 1 \in 1 .. Len(s)
    BY <1>1
  <1>3. Erase(s, i) \in [1 .. Len(s) - 1 -> ID]
    BY <1>1, <1>2 DEF Erase
  <1>4. Erase(s, i) \in Seq(ID) /\ Len(Erase(s, i)) = Len(s) - 1
    BY <1>1, <1>3
  <1>5. \A j \in 1 .. Len(s) - 1 : Erase(s, i)[j] = IF j < i THEN s[j] ELSE s[j + 1]
    BY DEF Erase
  <1>6. ASSUME NEW k \in 1 .. Len(s), k # i
        PROVE  \E j \in 1 .. Len(s) - 1 : Erase(s, i)[j] = s[k]
    <2>1. CASE k < i
      BY <2>1, <1>1, <1>5
    <2>2. CASE k > i
      <3>1. k - 1 \in 1 .. Len(s) - 1 /\ ~(k - 1 < i) /\ (k - 1) + 1 = k
        BY <2>2, <1>1
      <3>2. QED
        BY <3>1, <1>5
    <2>3. QED
      BY <1>6, <2>1, <2>2
  <1>7. ASSUME NEW j \in 1 .. Len(s) - 1
        PROVE  \E m \in 1 .. Len(s) : /\ m = IF j < i THEN j ELSE j + 1
                                      /\ m # i /\ Erase(s, i)[j] = s[m]
    BY <1>2, <1>5
  <1>8. ASSUME NEW j \in 1 .. Len(s) - 1, NEW k \in 1 .. Len(s) - 1, Erase(s, i)[j] = Erase(s, i)[k]
        PROVE  j = k
    <2>1. PICK m \in 1 .. Len(s) : m = (IF j < i THEN j ELSE j + 1) /\ Erase(s, i)[j] = s[m]
      BY <1>7
    <2>2. PICK n \in 1 .. Len(s) : n = (IF k < i THEN k ELSE k + 1) /\ Erase(s, i)[k] = s[n]
      BY <1>7
    <2>3. m = n
      BY <2>1, <2>2, <1>8
    <2>4. QED
      BY <2>1, <2>2, <2>3
  <1>9. \A j \in 1 .. Len(s) - 1 : Erase(s, i)[j] # s[i] /\ \E k \in 1 .. Len(s) : Erase(s, i)[j] = s[k]
    BY <1>7
  <1>10. QED
    BY <1>4, <1>6, <1>8, <1>9

\* There are finitely many clients.
LEMMA UsersFinite ==
    ASSUME TypeOK
    PROVE  IsFiniteSet(users) /\ Cardinality(users) \in Nat
  <1>1. users \in SUBSET Address /\ IsFiniteSet(Address)
    BY ClientAssumption DEF TypeOK
  <1>2. IsFiniteSet(users)
    BY <1>1, FS_Subset
  <1>3. QED
    BY <1>2, FS_CardinalityType

\* With all IDs accounted for, fewer clients than IDs leave one in the deque.
LEMMA DequeNotEmpty == IInv => NeverPopsEmpty
  <1> SUFFICES ASSUME IInv, available = <<>>
               PROVE  ~(Cardinality(users) < MaxUsers)
    BY DEF NeverPopsEmpty
  <1> DEFINE f == [a \in users |-> dict[a]]
  <1>1. IsFiniteSet(users) /\ Cardinality(users) \in Nat
    BY UsersFinite DEF IInv
  <1>2. f \in [users -> ID]
    BY DEF IInv, TypeOK
  <1>3. \A n \in ID : \E a \in users : f[a] = n
    BY DEF IInv, NoneLost
  <1>4. f \in Surjection(users, ID)
    BY <1>2, <1>3 DEF Surjection
  <1>5. Cardinality(ID) <= Cardinality(users)
    BY <1>1, <1>4, FS_Surjection
  <1>6. Cardinality(ID) = MaxUsers
    <2>1. 0 \in Int /\ MaxUsers - 1 \in Int
      BY ClientAssumption
    <2>2. QED
      BY <2>1, FS_Interval, ClientAssumption DEF ID
  <1>7. QED
    BY <1>1, <1>5, <1>6, ClientAssumption

\* /notify 1 of a new client.
LEMMA RegisterKeeps ==
    ASSUME IInv, NEW a \in Address, NEW wish \in Wish, Register(a, wish)
    PROVE  IInv'
  <1>1. PICK i \in PlacesOf(wish) :
            dict' = [dict EXCEPT ![a] = available[i]] /\ available' = Erase(available, i)
    BY DEF Register
  <1>2. a \notin users /\ users' = users \cup {a}
    BY DEF Register
  <1>3. available \in Seq(ID) /\ dict \in [Address -> ID \cup {NoID}] /\ users \subseteq Address
    BY DEF IInv, TypeOK
  <1>4. available # <<>>
    <2>1. Cardinality(users) \in Nat
      BY UsersFinite DEF IInv
    <2>2. QED
      BY <2>1, DequeNotEmpty, ClientAssumption DEF Register, NeverPopsEmpty
  <1>5. i \in 1 .. Len(available)
    <2>1. 1 \in 1 .. Len(available)
      BY <1>3, <1>4
    <2>2. QED
      BY <1>1, <2>1 DEF PlacesOf
  <1>6. available[i] \in ID
    BY <1>3, <1>5
  <1>7. NoID \notin ID
    BY ClientAssumption DEF ID, NoID
  <1>8. /\ available' \in Seq(ID) /\ Len(available') = Len(available) - 1
        /\ \A j, k \in 1 .. Len(available) - 1 : available'[j] = available'[k] => j = k
        /\ \A j \in 1 .. Len(available) - 1 : available'[j] # available[i]
        /\ \A j \in 1 .. Len(available) - 1 : \E k \in 1 .. Len(available) : available'[j] = available[k]
        /\ \A k \in 1 .. Len(available) :
              k # i => \E j \in 1 .. Len(available) - 1 : available'[j] = available[k]
    <2> DEFINE s == available
    <2>1. \A j, k \in 1 .. Len(s) : s[j] = s[k] => j = k
      BY DEF IInv, Apart
    <2>2. /\ Erase(s, i) \in Seq(ID) /\ Len(Erase(s, i)) = Len(s) - 1
          /\ \A j, k \in 1 .. Len(s) - 1 : Erase(s, i)[j] = Erase(s, i)[k] => j = k
          /\ \A j \in 1 .. Len(s) - 1 : Erase(s, i)[j] # s[i]
          /\ \A j \in 1 .. Len(s) - 1 : \E k \in 1 .. Len(s) : Erase(s, i)[j] = s[k]
          /\ \A k \in 1 .. Len(s) : k # i => \E j \in 1 .. Len(s) - 1 : Erase(s, i)[j] = s[k]
      <3> HIDE DEF s
      <3>1. s \in Seq(ID) /\ i \in 1 .. Len(s)
        BY <1>3, <1>5 DEF s
      <3>2. QED
        BY <2>1, <3>1, EraseLeaves, ZenonT(60)
    <2>3. available' = Erase(s, i)
      BY <1>1
    <2>4. QED
      BY <2>2, <2>3, Zenon
  <1>9. dict'[a] = available[i] /\ \A b \in users : dict'[b] = dict[b]
    BY <1>1, <1>2, <1>3
  <1>10. TypeOK'
    BY <1>1, <1>2, <1>3, <1>6, <1>7, <1>8, <1>9 DEF IInv, TypeOK
  <1>11. IDsDistinct'
    BY <1>2, <1>5, <1>9 DEF IInv, IDsDistinct, Apart
  <1>12. Apart'
    <2>1. \A j, k \in 1 .. Len(available') : available'[j] = available'[k] => j = k
      BY <1>8
    <2>2. ASSUME NEW b \in users', NEW j \in 1 .. Len(available')
          PROVE  available'[j] # dict'[b]
      <3>1. j \in 1 .. Len(available) - 1
        BY <1>8
      <3>2. CASE b = a
        BY <3>1, <3>2, <1>8, <1>9
      <3>3. CASE b \in users
        <4>1. PICK k \in 1 .. Len(available) : available'[j] = available[k]
          BY <3>1, <1>8
        <4>2. QED
          BY <3>3, <4>1, <1>9 DEF IInv, Apart
      <3>4. QED
        BY <3>2, <3>3, <1>2
    <2>3. QED
      BY <2>1, <2>2 DEF Apart
  <1>13. NoneLost'
    <2> SUFFICES ASSUME NEW n \in ID
                 PROVE  \/ \E b \in users' : dict'[b] = n
                        \/ \E j \in 1 .. Len(available') : available'[j] = n
      BY DEF NoneLost
    <2>1. CASE \E b \in users : dict[b] = n
      BY <2>1, <1>2, <1>9
    <2>2. ASSUME NEW k \in 1 .. Len(available), available[k] = n
          PROVE  \/ \E b \in users' : dict'[b] = n
                 \/ \E j \in 1 .. Len(available') : available'[j] = n
      <3>1. CASE k = i
        BY <3>1, <2>2, <1>2, <1>9
      <3>2. CASE k # i
        <4>1. PICK j \in 1 .. Len(available) - 1 : available'[j] = available[k]
          BY <3>2, <1>8
        <4>2. j \in 1 .. Len(available')
          BY <1>8
        <4>3. QED
          BY <4>1, <4>2, <2>2
      <3>3. QED
        BY <3>1, <3>2
    <2>3. QED
      BY <2>1, <2>2 DEF IInv, NoneLost
  <1>14. QED
    BY <1>10, <1>11, <1>12, <1>13 DEF IInv

\* /notify 0 of a registered client.
LEMMA UnregisterKeeps ==
    ASSUME IInv, NEW a \in Address, Unregister(a)
    PROVE  IInv'
  <1>1. /\ a \in users /\ users' = users \ {a}
        /\ available' = Append(available, dict[a])
        /\ dict' = [dict EXCEPT ![a] = NoID]
    BY DEF Unregister
  <1>2. available \in Seq(ID) /\ dict \in [Address -> ID \cup {NoID}] /\ dict[a] \in ID
    BY <1>1 DEF IInv, TypeOK
  <1>3. /\ available' \in Seq(ID) /\ Len(available') = Len(available) + 1
        /\ \A j \in 1 .. Len(available) : available'[j] = available[j]
        /\ available'[Len(available) + 1] = dict[a]
        /\ Len(available) \in Nat
    BY <1>1, <1>2
  <1>4. \A b \in users' : b \in users /\ b # a /\ dict'[b] = dict[b]
    BY <1>1, <1>2 DEF IInv, TypeOK
  <1>5. TypeOK'
    BY <1>1, <1>2, <1>3 DEF IInv, TypeOK
  <1>6. IDsDistinct'
    BY <1>4 DEF IInv, IDsDistinct
  <1>7. Apart'
    <2>1. \A j \in 1 .. Len(available') : j \in 1 .. Len(available) \/ j = Len(available) + 1
      BY <1>3
    <2>2. \A j \in 1 .. Len(available) : available[j] # dict[a]
      BY <1>1 DEF IInv, Apart
    <2>3. \A b \in users' : dict[b] # dict[a]
      BY <1>1, <1>4 DEF IInv, IDsDistinct
    <2>4. QED
      BY <1>3, <1>4, <2>1, <2>2, <2>3 DEF IInv, Apart
  <1>8. NoneLost'
    <2> SUFFICES ASSUME NEW n \in ID
                 PROVE  \/ \E b \in users' : dict'[b] = n
                        \/ \E i \in 1 .. Len(available') : available'[i] = n
      BY DEF NoneLost
    <2>1. CASE n = dict[a]
      BY <2>1, <1>3
    <2>2. CASE \E b \in users : b # a /\ dict[b] = n
      BY <2>2, <1>1, <1>4
    <2>3. CASE \E i \in 1 .. Len(available) : available[i] = n
      BY <2>3, <1>3
    <2>4. QED
      BY <2>1, <2>2, <2>3 DEF IInv, NoneLost
  <1>9. QED
    BY <1>5, <1>6, <1>7, <1>8 DEF IInv

\* The invariant: clients and deque share out the IDs among them.
THEOREM IDsShared == Spec => []IInv
  <1>1. Init => IInv
    <2> SUFFICES ASSUME Init PROVE IInv
      OBVIOUS
    <2>1. available \in [1 .. MaxUsers -> ID] /\ Len(available) = MaxUsers /\ available \in Seq(ID)
      BY ClientAssumption DEF Init, ID
    <2>2. TypeOK
      BY <2>1 DEF Init, TypeOK
    <2>3. NoneLost
      <3> SUFFICES ASSUME NEW n \in ID PROVE \E i \in 1 .. Len(available) : available[i] = n
        BY DEF NoneLost
      <3>1. n + 1 \in 1 .. MaxUsers /\ (n + 1) - 1 = n
        BY ClientAssumption DEF ID
      <3>2. QED
        BY <2>1, <3>1 DEF Init
    <2>4. Apart /\ IDsDistinct
      BY <2>1, ClientAssumption DEF Init, Apart, IDsDistinct
    <2>5. QED
      BY <2>2, <2>3, <2>4 DEF IInv
  <1>2. IInv /\ [Next]_vars => IInv'
    <2> SUFFICES ASSUME IInv, [Next]_vars PROVE IInv'
      OBVIOUS
    <2>1. CASE UNCHANGED <<users, available, dict>>
      BY <2>1 DEF IInv, TypeOK, IDsDistinct, Apart, NoneLost
    <2>2. CASE \E a \in Address, wish \in Wish : Register(a, wish)
      BY <2>2, RegisterKeeps
    <2>3. CASE \E a \in Address : Unregister(a)
      BY <2>3, UnregisterKeeps
    <2>4. QED
      BY <2>1, <2>2, <2>3 DEF Next, AlreadyRegistered, TooManyUsers, NotRegistered, vars
  <1>3. QED
    BY <1>1, <1>2, PTL DEF Spec

\* No two clients that are registered have the same ID.
THEOREM ClientsApart == Spec => []IDsDistinct
  <1>1. IInv => IDsDistinct
    BY DEF IInv
  <1>2. QED
    BY <1>1, IDsShared, PTL

\* NotifyCmd::Stage2 never takes the front of an empty deque.
THEOREM PopsSafely == Spec => []NeverPopsEmpty
  <1>1. QED
    BY DequeNotEmpty, IDsShared, PTL

\* No ID is lost: NotifyCmd::Stage2 gives back to the deque, or to a client,
\* what it takes from either.
THEOREM NoIDLost == Spec => []NoneLost
  <1>1. IInv => NoneLost
    BY DEF IInv
  <1>2. QED
    BY <1>1, IDsShared, PTL
-----------------------------------------------------------------------------
(***************************************************************************)
(* The wire buffers of definitions with any number of units, inputs and    *)
(* outputs.                                                                *)
(*                                                                         *)
(* The count of a buffer is the number of inputs that will still read what *)
(* is in it: those of later units, those of the unit at work that were not *)
(* released yet, and all of demand-rate units (Remaining).  As long as     *)
(* there are any, the buffer is the output's own: it is not on the stack   *)
(* and was given to no other output (Owned), and its count is not zero     *)
(* when it is released (Counted).  This is so in definitions in which no   *)
(* output is read so often that its count is cut to 16 bits (Countable).   *)
(***************************************************************************)
Pool == [refs : [Buffer -> Nat], stack : Seq(Buffer), nextIndex : Nat, error : BOOLEAN]

Typed ==
    /\ \A u \in Unit : ins[u] \in Seq(Output) /\ Len(ins[u]) <= MaxIns
    /\ \A u \in Unit : \A i \in DOMAIN ins[u] : ins[u][i][1] < u
    /\ kind \in [Unit -> Kind]
    /\ unit \in Nat \ {0} /\ released \in Nat /\ given \in Nat
    /\ unit \in Unit => released <= NumReleases(unit) /\ given <= NumAllocs(unit)
    /\ unit \notin Unit => given = 0
    /\ pool \in Pool
    /\ bufferIndex \in [Output -> Nat]
    /\ holds \in [Buffer -> Output \cup {<<>>}]

\* Where a unit that cannot work in place, and any other, stands.
Phase ==
    unit \in Unit =>
        /\ AllocsFirst(unit) /\ given < NumAllocs(unit) => released = 0
        /\ ~AllocsFirst(unit) /\ given > 0 => released = NumReleases(unit)

\* The inputs that output o is read by, and those of them still to come.
Reads(o) == {r \in Unit \X (1 .. MaxIns) : r[2] <= Len(ins[r[1]]) /\ ins[r[1]][r[2]] = o}

ToCome(u, i) ==
    kind[u] = "demand" \/ u > unit \/ (u = unit /\ i <= Len(ins[u]) - released)

Remaining(o) == {r \in Reads(o) : ToCome(r[1], r[2])}

\* The outputs that have a buffer.
Assigned == {o \in Output : o[2] <= Given(o[1])}

OnStack(b) == \E i \in 1 .. Len(pool.stack) : pool.stack[i] = b

Stacked ==
    /\ \A i, j \in 1 .. Len(pool.stack) : pool.stack[i] = pool.stack[j] => i = j
    /\ \A i \in 1 .. Len(pool.stack) : pool.stack[i] < pool.nextIndex
    /\ pool.nextIndex <= Cardinality(Assigned)

Owned ==
    \A o \in Assigned : o[1] = unit \/ Remaining(o) # {} =>
        /\ bufferIndex[o] \in Buffer /\ bufferIndex[o] < pool.nextIndex
        /\ holds[bufferIndex[o]] = o /\ ~OnStack(bufferIndex[o])

Counted ==
    \A o \in Assigned : Remaining(o) # {} => pool.refs[bufferIndex[o]] = Cardinality(Remaining(o))

\* All buffers come from the first nextIndex ones.
Within == \A o \in Assigned : bufferIndex[o] < pool.nextIndex

\* What was accepted fits.
Fits ==
    /\ pool.nextIndex <= MaxBufs /\ maxWireBufs \in Nat
    /\ outcome = "accepted" => unit \notin Unit /\ pool.nextIndex <= maxWireBufs

ColoringInv ==
    /\ Countable /\ Typed /\ Phase /\ Stacked /\ Owned /\ Counted /\ Within /\ Fits
    /\ ~pool.error /\ InputsThere /\ OwnBuffers

-----------------------------------------------------------------------------
(* Outputs, and who reads them. *)

LEMMA UnitType == Unit = 1 .. Len(Outs) /\ Len(Outs) \in Nat /\ \A u \in Unit : Outs[u] \in Nat
  BY ColoringAssumption DEF Unit

LEMMA OutputType ==
    /\ \A o : o \in Output <=> \E u \in Unit : o \in {u} \X (1 .. Outs[u])
    /\ \A o \in Output : /\ o = <<o[1], o[2]>> /\ o[1] \in Unit /\ o[2] \in Nat
                         /\ 1 <= o[2] /\ o[2] <= Outs[o[1]]
    /\ \A u \in Unit : \A i \in 1 .. Outs[u] : <<u, i>> \in Output
  <1>1. \A o : o \in Output <=> \E u \in Unit : o \in {u} \X (1 .. Outs[u])
    BY DEF Output
  <1>2. ASSUME NEW o \in Output
        PROVE  /\ o = <<o[1], o[2]>> /\ o[1] \in Unit /\ o[2] \in Nat
               /\ 1 <= o[2] /\ o[2] <= Outs[o[1]]
    <2>1. PICK u \in Unit : o \in {u} \X (1 .. Outs[u])
      BY <1>1
    <2>2. o = <<o[1], o[2]>> /\ o[1] = u /\ o[2] \in 1 .. Outs[u]
      BY <2>1
    <2>3. QED
      BY <2>2, UnitType
  <1>3. ASSUME NEW u \in Unit, NEW i \in 1 .. Outs[u] PROVE <<u, i>> \in Output
    BY <1>1
  <1>4. QED
    BY <1>1, <1>2, <1>3

LEMMA OutputFinite == IsFiniteSet(Output) /\ Cardinality(Output) \in Nat
  <1>1. IsFiniteSet(Unit)
    BY UnitType, FS_Interval
  <1>2. PICK F : F = [u \in Unit |-> {u} \X (1 .. Outs[u])]
    OBVIOUS
  <1>3. PICK T : T = {{u} \X (1 .. Outs[u]) : u \in Unit}
    OBVIOUS
  <1>4. F \in [Unit -> T] /\ \A t \in T : \E u \in Unit : F[u] = t
    BY <1>2, <1>3
  <1>5. IsFiniteSet(T)
    BY <1>1, <1>4, Fun_IsSurj, FS_Surjection
  <1>6. ASSUME NEW t \in T PROVE IsFiniteSet(t)
    <2>1. PICK u \in Unit : t = {u} \X (1 .. Outs[u])
      BY <1>3
    <2>2. Outs[u] \in Int /\ 1 \in Int
      BY UnitType
    <2>3. IsFiniteSet({u}) /\ IsFiniteSet(1 .. Outs[u])
      BY <2>2, FS_Singleton, FS_Interval
    <2>4. QED
      BY <2>1, <2>3, FS_Product
  <1>7. Output = UNION T
    BY <1>3 DEF Output
  <1>8. QED
    BY <1>5, <1>6, <1>7, FS_UNION, FS_CardinalityType

LEMMA ReadsFinite ==
    ASSUME NEW o
    PROVE  /\ Consumers(o) = Cardinality(Reads(o)) /\ IsFiniteSet(Reads(o))
           /\ Consumers(o) \in Nat
  <1>1. IsFiniteSet(Unit \X (1 .. MaxIns))
    <2>1. IsFiniteSet(Unit) /\ IsFiniteSet(1 .. MaxIns)
      BY UnitType, ColoringAssumption, FS_Interval
    <2>2. QED
      BY <2>1, FS_Product
  <1>2. IsFiniteSet(Reads(o))
    BY <1>1, FS_Subset DEF Reads
  <1>3. Consumers(o) = Cardinality(Reads(o))
    BY DEF Consumers, Reads
  <1>4. QED
    BY <1>2, <1>3, FS_CardinalityType

LEMMA RemainingFinite ==
    ASSUME NEW o
    PROVE  /\ Remaining(o) \subseteq Reads(o) /\ IsFiniteSet(Remaining(o))
           /\ Cardinality(Remaining(o)) \in Nat
           /\ (Cardinality(Remaining(o)) = 0 <=> Remaining(o) = {})
  <1>1. Remaining(o) \subseteq Reads(o)
    BY DEF Remaining
  <1>2. IsFiniteSet(Remaining(o))
    BY <1>1, ReadsFinite, FS_Subset
  <1>3. QED
    BY <1>1, <1>2, FS_CardinalityType, FS_EmptySet

\* Some buffer is left for an output that has none yet.
LEMMA BuffersLeft ==
    ASSUME Stacked, pool \in Pool
    PROVE  pool.nextIndex \in Buffer /\ IsFiniteSet(Assigned) /\ Cardinality(Assigned) \in Nat
  <1>1. Assigned \subseteq Output
    BY DEF Assigned
  <1>2. IsFiniteSet(Assigned) /\ Cardinality(Assigned) <= Cardinality(Output)
    BY <1>1, OutputFinite, FS_Subset
  <1>3. Cardinality(Assigned) \in Nat
    BY <1>2, FS_CardinalityType
  <1>4. QED
    BY <1>2, <1>3, OutputFinite DEF Stacked, Pool, Buffer

-----------------------------------------------------------------------------
(* The allocator. *)

LEMMA Released ==
    ASSUME NEW p \in Pool, NEW b \in Buffer, p.refs[b] # 0, NEW q, q = Release(p, b)
    PROVE  /\ q \in Pool /\ q.error = p.error /\ q.nextIndex = p.nextIndex
           /\ q.refs[b] = p.refs[b] - 1
           /\ \A c \in Buffer : c # b => q.refs[c] = p.refs[c]
           /\ p.refs[b] = 1 => q.stack = Append(p.stack, b)
           /\ p.refs[b] # 1 => q.stack = p.stack
  <1>1. p.refs \in [Buffer -> Nat] /\ p.stack \in Seq(Buffer)
    BY DEF Pool
  <1>2. q = [p EXCEPT !.refs[b] = @ - 1, !.stack = IF p.refs[b] = 1 THEN Append(@, b) ELSE @]
    BY DEF Release
  <1>3. /\ q.refs = [p.refs EXCEPT ![b] = @ - 1]
        /\ q.stack = IF p.refs[b] = 1 THEN Append(p.stack, b) ELSE p.stack
        /\ q.nextIndex = p.nextIndex /\ q.error = p.error
        /\ q = [refs |-> q.refs, stack |-> q.stack, nextIndex |-> q.nextIndex, error |-> q.error]
    BY <1>2 DEF Pool
  <1>4. q.refs \in [Buffer -> Nat]
    BY <1>1, <1>3
  <1>5. q.stack \in Seq(Buffer)
    BY <1>1, <1>3
  <1>6. q \in Pool
    BY <1>3, <1>4, <1>5 DEF Pool
  <1>7. QED
    BY <1>1, <1>3, <1>6

LEMMA Uncut == \A n \in Nat, m \in Nat \ {0} : n < m => n % m = n
  OBVIOUS

LEMMA Allocated ==
    ASSUME NEW p \in Pool, p.nextIndex \in Buffer, NEW count \in Nat,
           NEW a, a = Alloc(p, count)
    PROVE  /\ a.index \in Buffer /\ a.pool \in Pool /\ a.pool.error = p.error
           /\ a.pool.refs[a.index] = count % RefMod
           /\ \A c \in Buffer : c # a.index => a.pool.refs[c] = p.refs[c]
           /\ p.stack = <<>> => /\ a.index = p.nextIndex /\ a.pool.stack = <<>>
                                /\ a.pool.nextIndex = p.nextIndex + 1
           /\ p.stack # <<>> => /\ a.index = p.stack[Len(p.stack)] /\ Len(p.stack) \in Nat \ {0}
                                /\ Len(a.pool.stack) = Len(p.stack) - 1
                                /\ \A i \in 1 .. Len(p.stack) - 1 : a.pool.stack[i] = p.stack[i]
                                /\ a.pool.nextIndex = p.nextIndex
  <1>1. p.refs \in [Buffer -> Nat] /\ p.stack \in Seq(Buffer) /\ p.nextIndex \in Nat
    BY DEF Pool
  <1> DEFINE b == IF p.stack # <<>> THEN p.stack[Len(p.stack)] ELSE p.nextIndex
  <1>2. a.index = b /\ a.pool = [p EXCEPT !.refs[b] = count % RefMod,
                            !.stack = IF @ # <<>> THEN SeqExt!Front(@) ELSE @,
                            !.nextIndex = IF p.stack = <<>> THEN @ + 1 ELSE @]
    BY DEF Alloc
  <1>3. b \in Buffer
    BY <1>1
  <1> HIDE DEF b
  <1>4. PICK q : q = a.pool
    OBVIOUS
  <1>5. /\ q.refs = [p.refs EXCEPT ![b] = count % RefMod]
        /\ q.stack = IF p.stack # <<>> THEN SubSeq(p.stack, 1, Len(p.stack) - 1) ELSE p.stack
        /\ q.nextIndex = IF p.stack = <<>> THEN p.nextIndex + 1 ELSE p.nextIndex
        /\ q.error = p.error
        /\ q = [refs |-> q.refs, stack |-> q.stack, nextIndex |-> q.nextIndex, error |-> q.error]
    BY <1>2, <1>4 DEF Pool, SeqExt!Front
  <1>6. q.refs \in [Buffer -> Nat] /\ q.nextIndex \in Nat
    <2>1. count % RefMod \in Nat
      BY ColoringAssumption
    <2>2. QED
      BY <1>1, <1>3, <1>5, <2>1
  <1>7. q.stack \in Seq(Buffer)
    BY <1>1, <1>5
  <1>8. q \in Pool
    BY <1>5, <1>6, <1>7 DEF Pool
  <1>9. p.stack # <<>> => /\ Len(p.stack) \in Nat \ {0} /\ Len(q.stack) = Len(p.stack) - 1
                          /\ \A i \in 1 .. Len(p.stack) - 1 : q.stack[i] = p.stack[i]
    BY <1>1, <1>5, SMTT(40)
  <1>10. q.refs[b] = count % RefMod /\ \A c \in Buffer : c # b => q.refs[c] = p.refs[c]
    BY <1>1, <1>3, <1>5
  <1>11. p.stack = <<>> => b = p.nextIndex /\ q.stack = <<>> /\ q.nextIndex = p.nextIndex + 1
    BY <1>5 DEF b
  <1>12. p.stack # <<>> => b = p.stack[Len(p.stack)] /\ q.nextIndex = p.nextIndex
    BY <1>5 DEF b
  <1>13. QED
    BY <1>2, <1>3, <1>4, <1>5, <1>8, <1>9, <1>10, <1>11, <1>12

-----------------------------------------------------------------------------
(* The first state. *)

LEMMA ColoringInitInv == ColoringInit /\ Countable => ColoringInv
  <1> SUFFICES ASSUME ColoringInit, Countable PROVE ColoringInv
    OBVIOUS
  <1>1. ASSUME NEW u \in Unit PROVE ins[u] \in Seq(Output) /\ Len(ins[u]) <= MaxIns
    <2>1. ins[u] \in SeqExt!BoundedSeq(Output, MaxIns)
      BY DEF ColoringInit
    <2>2. PICK m \in 0 .. MaxIns : ins[u] \in [1 .. m -> Output]
      BY <2>1 DEF SeqExt!BoundedSeq, SeqExt!SeqOf
    <2>3. QED
      BY <2>2, ColoringAssumption
  <1>2. Cardinality(Output) + 1 \in Nat /\ 0 \in Buffer
    BY OutputFinite DEF Buffer
  <1>3. pool \in Pool /\ pool.stack = <<>> /\ pool.nextIndex = 0 /\ ~pool.error
    BY DEF ColoringInit, Pool
  <1>4. bufferIndex \in [Output -> Nat] /\ holds \in [Buffer -> Output \cup {<<>>}]
    BY <1>2 DEF ColoringInit, NoBuffer
  <1>5. unit = 1 /\ released = 0 /\ given = 0 /\ kind \in [Unit -> Kind]
        /\ \A u \in Unit : \A i \in DOMAIN ins[u] : ins[u][i][1] < u
    BY DEF ColoringInit
  <1>6. ASSUME NEW u \in Unit PROVE 0 <= NumReleases(u) /\ 0 <= NumAllocs(u)
    BY <1>1, UnitType DEF NumReleases, NumAllocs
  <1>7. Typed
    BY <1>1, <1>3, <1>4, <1>5, <1>6 DEF Typed
  <1>8. \A u \in Unit : Given(u) = 0
    BY <1>5, UnitType DEF Given
  <1>9. Assigned = {}
    BY <1>8, OutputType DEF Assigned
  <1>10. Stacked
    BY <1>3, <1>9, FS_EmptySet DEF Stacked
  <1>11. Phase /\ Owned /\ Counted /\ Within /\ Fits
    BY <1>3, ColoringAssumption, <1>5, <1>9 DEF Phase, Owned, Counted, Within, Fits, ColoringInit
  <1>12. InputsThere
    <2> SUFFICES ASSUME NEW u \in Unit, NEW o \in AudioIns(u), o[1] < unit PROVE FALSE
      BY DEF InputsThere
    <2>1. PICK i \in DOMAIN ins[u] : o = ins[u][i]
      BY DEF AudioIns
    <2>2. o \in Output
      BY <1>1, <2>1
    <2>3. QED
      BY <1>5, <2>2, OutputType, UnitType
  <1>13. OwnBuffers
    BY <1>8 DEF OwnBuffers
  <1>14. QED
    BY <1>3, <1>7, <1>10, <1>11, <1>12, <1>13 DEF ColoringInv

-----------------------------------------------------------------------------
(* What the steps need: the inputs and the outputs of the unit at work. *)

LEMMA InputType ==
    ASSUME Typed, NEW u \in Unit, NEW i \in DOMAIN ins[u]
    PROVE  /\ i \in Nat /\ 1 <= i /\ i <= Len(ins[u]) /\ Len(ins[u]) \in Nat
           /\ ins[u][i] \in Output /\ ins[u][i][1] < u
           /\ <<u, i>> \in Reads(ins[u][i])
  <1>1. ins[u] \in Seq(Output) /\ Len(ins[u]) <= MaxIns /\ ins[u][i][1] < u
    BY DEF Typed
  <1>2. i \in Nat /\ 1 <= i /\ i <= Len(ins[u]) /\ Len(ins[u]) \in Nat /\ ins[u][i] \in Output
    BY <1>1
  <1>3. <<u, i>> \in Unit \X (1 .. MaxIns)
    BY <1>1, <1>2, ColoringAssumption
  <1>4. QED
    BY <1>1, <1>2, <1>3 DEF Reads

LEMMA UnitCounts ==
    ASSUME Typed, NEW u \in Unit
    PROVE  /\ NumReleases(u) \in Nat /\ NumAllocs(u) \in Nat /\ NumAllocs(u) <= Outs[u]
           /\ Len(ins[u]) \in Nat /\ (kind[u] # "demand" => NumReleases(u) = Len(ins[u]))
           /\ (IsAudio(u) => NumAllocs(u) = Outs[u])
           /\ u \in Nat /\ u >= 1 /\ Given(u) \in Nat /\ Given(u) <= NumAllocs(u)
  <1>1. ins[u] \in Seq(Output) /\ unit \in Nat /\ given \in Nat
    BY DEF Typed
  <1>2. Len(ins[u]) \in Nat /\ Outs[u] \in Nat /\ u \in Nat /\ u >= 1
    BY <1>1, UnitType
  <1>3. unit \in Unit => given <= NumAllocs(unit)
    BY DEF Typed
  <1>4. NumReleases(u) \in Nat /\ NumAllocs(u) \in Nat /\ NumAllocs(u) <= Outs[u]
        /\ (kind[u] # "demand" => NumReleases(u) = Len(ins[u]))
        /\ (IsAudio(u) => NumAllocs(u) = Outs[u])
    BY <1>2 DEF NumReleases, NumAllocs
  <1>5. Given(u) \in Nat /\ Given(u) <= NumAllocs(u)
    BY <1>1, <1>2, <1>3, <1>4 DEF Given
  <1>6. QED
    BY <1>2, <1>4, <1>5

\* An audio output of an earlier unit has a buffer.
LEMMA EarlierAssigned ==
    ASSUME Typed, NEW o \in Output, o[1] < unit, IsAudio(o[1])
    PROVE  o \in Assigned
  <1>1. o[1] \in Unit /\ o[2] <= Outs[o[1]]
    BY OutputType
  <1>2. Given(o[1]) = Outs[o[1]]
    BY <1>1, UnitCounts DEF Given
  <1>3. QED
    BY <1>1, <1>2 DEF Assigned

-----------------------------------------------------------------------------
(* An input is released. *)

\* One read less is to come.
LEMMA ReleaseReads ==
    ASSUME Typed, ReleaseInput, NEW k, k = Len(ins[unit]) - released
    PROVE  /\ unit \in Unit /\ k \in DOMAIN ins[unit] /\ kind[unit] # "demand"
           /\ <<unit, k>> \in Remaining(ins[unit][k])
           /\ \A o : Remaining(o)' = Remaining(o) \ {<<unit, k>>}
           /\ \A o : o # ins[unit][k] => <<unit, k>> \notin Remaining(o)
  <1>1. unit \in Unit /\ released < NumReleases(unit) /\ released \in Nat /\ unit \in Nat
    BY DEF ReleaseInput, Releasing, Coloring, Typed
  <1>2. kind[unit] # "demand" /\ NumReleases(unit) = Len(ins[unit]) /\ Len(ins[unit]) \in Nat
    BY <1>1, UnitCounts DEF NumReleases
  <1>3. ins[unit] \in Seq(Output)
    BY <1>1 DEF Typed
  <1>4. k \in DOMAIN ins[unit] /\ k \in Nat
    BY <1>1, <1>2, <1>3
  <1>5. <<unit, k>> \in Remaining(ins[unit][k])
    BY <1>1, <1>2, <1>4, InputType DEF Remaining, ToCome
  <1>6. kind' = kind /\ ins' = ins /\ unit' = unit /\ released' = released + 1
    BY DEF ReleaseInput
  <1>7. ASSUME NEW o PROVE Remaining(o)' = Remaining(o) \ {<<unit, k>>}
    <2>1. Reads(o)' = Reads(o)
      BY <1>6 DEF Reads
    <2>2. ASSUME NEW r \in Reads(o)
          PROVE  ToCome(r[1], r[2])' <=> ToCome(r[1], r[2]) /\ r # <<unit, k>>
      <3>1. r = <<r[1], r[2]>> /\ r[1] \in Unit /\ r[2] \in Nat
        BY ColoringAssumption DEF Reads
      <3>2. r[1] \in Nat
        BY <3>1, UnitType
      <3>3. CASE r[1] = unit
        BY <3>1, <3>3, <1>1, <1>2, <1>6, SMTT(40) DEF ToCome
      <3>4. CASE r[1] # unit
        BY <3>1, <3>2, <3>4, <1>1, <1>6 DEF ToCome
      <3>5. QED
        BY <3>3, <3>4
    <2>3. QED
      BY <2>1, <2>2 DEF Remaining
  <1>8. ASSUME NEW o, <<unit, k>> \in Remaining(o) PROVE o = ins[unit][k]
    BY <1>8 DEF Remaining, Reads
  <1>9. QED
    BY <1>1, <1>2, <1>4, <1>5, <1>7, <1>8

LEMMA ReleaseFrame ==
    ASSUME Typed, ReleaseInput
    PROVE  /\ Assigned' = Assigned /\ NumReleases(unit)' = NumReleases(unit)
           /\ \A u : NumAllocs(u)' = NumAllocs(u) /\ Given(u)' = Given(u)
                     /\ AudioIns(u)' = AudioIns(u) /\ (AllocsFirst(u)' <=> AllocsFirst(u))
  <1>1. kind' = kind /\ ins' = ins /\ unit' = unit /\ given' = given
    BY DEF ReleaseInput
  <1>2. \A u : NumAllocs(u)' = NumAllocs(u) /\ AudioIns(u)' = AudioIns(u)
               /\ (AllocsFirst(u)' <=> AllocsFirst(u))
    BY <1>1 DEF NumAllocs, AudioIns, IsAudio, AllocsFirst
  <1>3. \A u : Given(u)' = Given(u)
    BY <1>1, <1>2 DEF Given
  <1>4. Assigned' = Assigned
    BY <1>3 DEF Assigned
  <1>5. NumReleases(unit)' = NumReleases(unit)
    BY <1>1 DEF NumReleases
  <1>6. QED
    BY <1>2, <1>3, <1>4, <1>5

LEMMA ReleaseInv == ColoringInv /\ ReleaseInput => ColoringInv'
  <1> SUFFICES ASSUME ColoringInv, ReleaseInput PROVE ColoringInv'
    OBVIOUS
  <1>1. Typed /\ Phase /\ Stacked /\ Owned /\ Counted /\ ~pool.error
    BY DEF ColoringInv
  <1>2. kind' = kind /\ ins' = ins /\ unit' = unit /\ given' = given /\ released' = released + 1
        /\ bufferIndex' = bufferIndex /\ holds' = holds
    BY DEF ReleaseInput
  <1>3. PICK k : k = Len(ins[unit]) - released
    OBVIOUS
  <1>4. PICK o : o = ins[unit][k]
    OBVIOUS
  <1>5. /\ unit \in Unit /\ k \in DOMAIN ins[unit] /\ kind[unit] # "demand"
        /\ <<unit, k>> \in Remaining(o)
        /\ \A r : Remaining(r)' = Remaining(r) \ {<<unit, k>>}
        /\ \A r : r # o => Remaining(r)' = Remaining(r)
    BY <1>1, <1>3, <1>4, ReleaseReads
  <1>6. o \in Output /\ o[1] < unit /\ o[1] \in Unit
    BY <1>1, <1>4, <1>5, InputType, OutputType
  <1>7. Assigned' = Assigned
    BY <1>1, ReleaseFrame
  <1>8. /\ pool' \in Pool /\ Stacked' /\ Owned' /\ Counted' /\ ~pool'.error
    <2>1. CASE ~IsAudio(o[1])
      <3>1. pool' = pool
        BY <2>1, <1>3, <1>4 DEF ReleaseInput, Input
      <3>2. o \notin Assigned
        BY <1>1, <1>6, <2>1, UnitCounts, OutputType DEF Assigned, NumAllocs
      <3>3. \A r \in Assigned : Remaining(r)' = Remaining(r)
        BY <1>5, <3>2
      <3>4. Stacked' /\ pool' \in Pool /\ ~pool'.error
        BY <1>1, <1>7, <3>1 DEF Stacked, Typed
      <3>5. Owned'
        BY <1>1, <1>2, <1>7, <3>1, <3>3 DEF Owned, OnStack
      <3>6. Counted'
        BY <1>1, <1>2, <1>7, <3>1, <3>3 DEF Counted
      <3>7. QED
        BY <3>4, <3>5, <3>6
    <2>2. CASE IsAudio(o[1])
      <3>1. PICK b : b = bufferIndex[o]
        OBVIOUS
      <3>2. pool' = Release(pool, b)
        BY <2>2, <3>1, <1>3, <1>4 DEF ReleaseInput, Input
      <3>3. o \in Assigned
        BY <1>1, <1>6, <2>2, EarlierAssigned
      <3>4. /\ b \in Buffer /\ b < pool.nextIndex /\ holds[b] = o /\ ~OnStack(b)
        BY <1>1, <1>5, <3>1, <3>3 DEF Owned
      <3>5. /\ pool.refs[b] = Cardinality(Remaining(o)) /\ pool.refs[b] # 0
            /\ Cardinality(Remaining(o)) \in Nat
        BY <1>1, <1>5, <3>1, <3>3, RemainingFinite DEF Counted
      <3>6. /\ Cardinality(Remaining(o)') = Cardinality(Remaining(o)) - 1
            /\ IsFiniteSet(Remaining(o)')
        BY <1>5, RemainingFinite, FS_RemoveElement
      <3>7. pool \in Pool
        BY <1>1 DEF Typed
      <3>8. PICK q : q = pool'
        OBVIOUS
      <3>9. /\ q \in Pool /\ q.error = pool.error /\ q.nextIndex = pool.nextIndex
            /\ q.refs[b] = pool.refs[b] - 1
            /\ \A c \in Buffer : c # b => q.refs[c] = pool.refs[c]
            /\ pool.refs[b] = 1 => q.stack = Append(pool.stack, b)
            /\ pool.refs[b] # 1 => q.stack = pool.stack
        BY <3>2, <3>4, <3>5, <3>7, <3>8, Released
      <3>10. pool.stack \in Seq(Buffer) /\ Len(pool.stack) \in Nat /\ pool.nextIndex \in Nat
        BY <3>7 DEF Pool
      <3>11. Stacked'
        <4>1. CASE pool.refs[b] # 1
          BY <4>1, <1>1, <1>7, <3>8, <3>9 DEF Stacked
        <4>2. CASE pool.refs[b] = 1
          <5>1. /\ Len(q.stack) = Len(pool.stack) + 1 /\ q.stack[Len(pool.stack) + 1] = b
                /\ \A i \in 1 .. Len(pool.stack) : q.stack[i] = pool.stack[i]
            BY <4>2, <3>4, <3>9, <3>10, SMTT(40)
          <5>2. \A i \in 1 .. Len(q.stack) : i \in 1 .. Len(pool.stack) \/ i = Len(pool.stack) + 1
            BY <5>1, <3>10
          <5>3. \A i, j \in 1 .. Len(q.stack) : q.stack[i] = q.stack[j] => i = j
            BY <5>1, <5>2, <3>4, <1>1 DEF OnStack, Stacked
          <5>4. \A i \in 1 .. Len(q.stack) : q.stack[i] < q.nextIndex
            BY <5>1, <5>2, <3>4, <3>9, <1>1 DEF Stacked
          <5>5. QED
            BY <5>3, <5>4, <1>1, <1>7, <3>8, <3>9 DEF Stacked
        <4>3. QED
          BY <4>1, <4>2
      <3>12. ASSUME NEW r \in Assigned, r[1] = unit \/ Remaining(r)' # {}
             PROVE  /\ bufferIndex[r] \in Buffer /\ bufferIndex[r] < pool.nextIndex
                    /\ holds[bufferIndex[r]] = r /\ ~OnStack(bufferIndex[r])
                    /\ r # o => bufferIndex[r] # b
                    /\ r = o => pool.refs[b] # 1
        <4>1. r[1] = unit \/ Remaining(r) # {}
          BY <1>5, <3>12
        <4>2. /\ bufferIndex[r] \in Buffer /\ bufferIndex[r] < pool.nextIndex
              /\ holds[bufferIndex[r]] = r /\ ~OnStack(bufferIndex[r])
          BY <1>1, <4>1 DEF Owned
        <4>3. r # o => bufferIndex[r] # b
          BY <4>2, <3>4
        <4>4. ASSUME r = o PROVE pool.refs[b] # 1
          <5>1. r[1] # unit
            BY <4>4, <1>1, <1>6 DEF Typed
          <5>2. Remaining(o)' # {}
            BY <4>4, <5>1, <3>12
          <5>3. Cardinality(Remaining(o)') # 0
            BY <5>2, <3>6, FS_EmptySet
          <5>4. QED
            BY <5>3, <3>5, <3>6
        <4>5. QED
          BY <4>2, <4>3, <4>4
      <3>13. Owned'
        <4>1. ASSUME NEW r \in Assigned, r[1] = unit \/ Remaining(r)' # {}
              PROVE  ~ \E i \in 1 .. Len(q.stack) : q.stack[i] = bufferIndex[r]
          <5>1. CASE pool.refs[b] # 1
            BY <5>1, <4>1, <3>9, <3>12 DEF OnStack
          <5>2. CASE pool.refs[b] = 1
            <6>1. r # o /\ bufferIndex[r] # b /\ ~OnStack(bufferIndex[r])
              BY <5>2, <4>1, <3>12
            <6>2. q.stack = Append(pool.stack, b)
              BY <5>2, <3>9
            <6>3. QED
              BY <6>1, <6>2, <3>4, <3>10 DEF OnStack
          <5>3. QED
            BY <5>1, <5>2
        <4>2. QED
          BY <4>1, <3>8, <3>9, <3>12, <1>2, <1>7 DEF Owned, OnStack
      <3>14. Counted'
        <4>1. ASSUME NEW r \in Assigned, Remaining(r)' # {}
              PROVE  q.refs[bufferIndex[r]] = Cardinality(Remaining(r)')
          <5>1. CASE r = o
            BY <5>1, <3>1, <3>5, <3>6, <3>9
          <5>2. CASE r # o
            <6>1. Remaining(r)' = Remaining(r) /\ Remaining(r) # {}
              BY <5>2, <4>1, <1>5
            <6>2. pool.refs[bufferIndex[r]] = Cardinality(Remaining(r))
              BY <6>1, <1>1 DEF Counted
            <6>3. bufferIndex[r] \in Buffer /\ bufferIndex[r] # b
              BY <5>2, <4>1, <3>12
            <6>4. QED
              BY <6>1, <6>2, <6>3, <3>9
          <5>3. QED
            BY <5>1, <5>2
        <4>2. QED
          BY <4>1, <3>8, <1>2, <1>7 DEF Counted
      <3>15. QED
        BY <1>1, <3>8, <3>9, <3>11, <3>13, <3>14
    <2>3. QED
      BY <2>1, <2>2
  <1>9. released \in Nat /\ released < NumReleases(unit) /\ NumReleases(unit) \in Nat
        /\ given \in Nat /\ NumAllocs(unit) \in Nat
    BY <1>1, <1>5, UnitCounts DEF ReleaseInput, Releasing, Typed
  <1>10. Typed'
    BY <1>1, <1>2, <1>5, <1>8, <1>9, ReleaseFrame, SMTT(40) DEF Typed
  <1>11. Phase'
    <2>1. AllocsFirst(unit) => given = NumAllocs(unit)
      BY DEF ReleaseInput, Releasing
    <2>2. ~AllocsFirst(unit) => ~(given > 0)
      BY <1>1, <1>5, <1>9 DEF Phase
    <2>3. QED
      BY <1>1, <1>2, <1>9, <2>1, <2>2, ReleaseFrame DEF Phase
  <1>12. InputsThere'
    <2>1. InputsThere
      BY DEF ColoringInv
    <2>2. QED
      BY <1>1, <1>2, <2>1, ReleaseFrame DEF InputsThere
  <1>13. OwnBuffers'
    <2>1. OwnBuffers
      BY DEF ColoringInv
    <2>2. QED
      BY <1>1, <1>2, <2>1, ReleaseFrame DEF OwnBuffers
  <1>14. Countable' /\ Within' /\ Fits'
    <2>1. Countable' = Countable
      BY <1>2 DEF Countable, Consumers
    <2>2. pool'.nextIndex = pool.nextIndex
      BY DEF ReleaseInput, Release
    <2>3. outcome' = outcome /\ outcome # "accepted" /\ maxWireBufs' = maxWireBufs
      BY DEF ReleaseInput, Releasing, Coloring, endVars
    <2>4. QED
      BY <1>2, <1>7, <2>1, <2>2, <2>3 DEF ColoringInv, Within, Fits
  <1>15. QED
    BY <1>8, <1>10, <1>11, <1>12, <1>13, <1>14 DEF ColoringInv

-----------------------------------------------------------------------------
(* An output is given its buffer. *)

\* What units to come, and demand-rate units, read is there, as it is owned;
\* of the unit at work that is so while no input was released.
LEMMA OwnedIntact ==
    ASSUME Typed', Owned', given' # 0 \/ released' = 0
    PROVE  InputsThere'
  <1> SUFFICES ASSUME NEW u \in Unit, (u > unit \/ (u = unit /\ given = 0) \/ kind[u] = "demand")',
                      NEW o \in AudioIns(u)', o[1] < unit'
               PROVE  (holds[bufferIndex[o]] = o)'
    BY DEF InputsThere
  <1>1. PICK i \in DOMAIN ins'[u] : o = ins'[u][i] /\ IsAudio(o[1])'
    BY DEF AudioIns
  <1>2. /\ i \in Nat /\ i <= Len(ins'[u]) /\ Len(ins'[u]) \in Nat /\ o \in Output
        /\ i >= 1 /\ Len(ins'[u]) <= MaxIns
    BY <1>1 DEF Typed
  <1>3. <<u, i>> \in Reads(o)'
    BY <1>1, <1>2, ColoringAssumption DEF Reads
  <1>4. ToCome(u, i)'
    BY <1>2 DEF ToCome
  <1>5. Remaining(o)' # {}
    BY <1>3, <1>4 DEF Remaining
  <1>6. o[1] \in Unit /\ o[2] <= Outs[o[1]]
    BY <1>2, OutputType
  <1>7. Given(o[1])' = Outs[o[1]]
    BY <1>1, <1>6 DEF Given, NumAllocs
  <1>8. o \in Assigned'
    BY <1>2, <1>6, <1>7 DEF Assigned
  <1>9. QED
    BY <1>5, <1>8 DEF Owned

LEMMA AllocFrame ==
    ASSUME Typed, AllocOutput, NEW o, o = <<unit, given + 1>>
    PROVE  /\ unit \in Unit /\ o \in Output /\ o \notin Assigned
           /\ Assigned' = Assigned \cup {o}
           /\ NumReleases(unit)' = NumReleases(unit)
           /\ \A u : /\ NumAllocs(u)' = NumAllocs(u) /\ AudioIns(u)' = AudioIns(u)
                     /\ (AllocsFirst(u)' <=> AllocsFirst(u))
                     /\ (u # unit => Given(u)' = Given(u))
           /\ \A u : u = unit => Given(u)' = given + 1
           /\ \A r : Remaining(r)' = Remaining(r) /\ Reads(r)' = Reads(r)
  <1>1. kind' = kind /\ ins' = ins /\ unit' = unit /\ given' = given + 1 /\ released' = released
    BY DEF AllocOutput
  <1>2. unit \in Unit /\ unit \in Nat /\ given \in Nat /\ given < NumAllocs(unit)
    BY DEF AllocOutput, Allocating, Coloring, Typed
  <1>3. NumAllocs(unit) \in Nat /\ NumAllocs(unit) <= Outs[unit]
    BY <1>2, UnitCounts
  <1>4. o \in Output
    BY <1>2, <1>3, OutputType, UnitType
  <1>5. Given(unit) = given
    BY <1>2 DEF Given
  <1>6. \A u : NumAllocs(u)' = NumAllocs(u) /\ AudioIns(u)' = AudioIns(u)
               /\ (AllocsFirst(u)' <=> AllocsFirst(u))
    BY <1>1 DEF NumAllocs, AudioIns, IsAudio, AllocsFirst
  <1>7. \A u : u # unit => Given(u)' = Given(u)
    BY <1>1, <1>6 DEF Given
  <1>8. \A u : u = unit => Given(u)' = given + 1
    BY <1>1, <1>2 DEF Given
  <1>9. o \notin Assigned
    BY <1>2, <1>5 DEF Assigned
  <1>10. Assigned' = Assigned \cup {o}
    <2>1. ASSUME NEW r \in Output
          PROVE  r \in Assigned' <=> r \in Assigned \/ r = o
      <3>1. r = <<r[1], r[2]>> /\ r[2] \in Nat
        BY OutputType
      <3>2. CASE r[1] # unit
        BY <3>2, <1>7 DEF Assigned
      <3>3. CASE r[1] = unit
        <4>1. r \in Assigned' <=> r[2] <= given + 1
          BY <3>3, <1>8 DEF Assigned
        <4>2. r \in Assigned <=> r[2] <= given
          BY <3>3, <1>5 DEF Assigned
        <4>3. r = o <=> r[2] = given + 1
          BY <3>1, <3>3
        <4>4. QED
          BY <4>1, <4>2, <4>3, <3>1, <1>2
      <3>4. QED
        BY <3>2, <3>3
    <2>2. QED
      BY <2>1, <1>4 DEF Assigned
  <1>11. \A r : Reads(r)' = Reads(r)
    BY <1>1 DEF Reads
  <1>12. \A r : Remaining(r)' = Remaining(r)
    BY <1>1, <1>11 DEF Remaining, ToCome
  <1>13. NumReleases(unit)' = NumReleases(unit)
    BY <1>1 DEF NumReleases
  <1>14. QED
    BY <1>2, <1>4, <1>6, <1>7, <1>8, <1>9, <1>10, <1>11, <1>12, <1>13

\* All that read an output of the unit at work are still to come.
LEMMA OwnReads ==
    ASSUME Typed, unit \in Unit, NEW o \in Output, o[1] = unit
    PROVE  Remaining(o) = Reads(o)
  <1>1. ASSUME NEW r \in Reads(o) PROVE ToCome(r[1], r[2])
    <2>1. r[1] \in Unit /\ r[2] \in 1 .. MaxIns /\ r[2] <= Len(ins[r[1]]) /\ ins[r[1]][r[2]] = o
      BY DEF Reads
    <2>2. r[2] \in DOMAIN ins[r[1]]
      BY <2>1, ColoringAssumption DEF Typed
    <2>3. o[1] < r[1]
      BY <2>1, <2>2 DEF Typed
    <2>4. QED
      BY <2>1, <2>3, UnitType DEF ToCome
  <1>2. QED
    BY <1>1 DEF Remaining

LEMMA AllocInv == ColoringInv /\ AllocOutput => ColoringInv'
  <1> SUFFICES ASSUME ColoringInv, AllocOutput PROVE ColoringInv'
    OBVIOUS
  <1>1. Typed /\ Phase /\ Stacked /\ Owned /\ Counted /\ ~pool.error
    BY DEF ColoringInv
  <1>2. kind' = kind /\ ins' = ins /\ unit' = unit /\ given' = given + 1 /\ released' = released
    BY DEF AllocOutput
  <1>3. PICK o : o = <<unit, given + 1>>
    OBVIOUS
  <1>4. PICK a : a = Alloc(pool, Consumers(o))
    OBVIOUS
  <1>5. PICK b : b = a.index
    OBVIOUS
  <1>6. PICK q : q = a.pool
    OBVIOUS
  <1>7. /\ pool' = q /\ bufferIndex' = [bufferIndex EXCEPT ![o] = b]
        /\ holds' = [holds EXCEPT ![b] = o]
    BY <1>3, <1>4, <1>5, <1>6 DEF AllocOutput
  <1>8. /\ unit \in Unit /\ o \in Output /\ o \notin Assigned
        /\ Assigned' = Assigned \cup {o}
        /\ \A r : Remaining(r)' = Remaining(r)
    BY <1>1, <1>3, AllocFrame
  <1>9. pool \in Pool /\ bufferIndex \in [Output -> Nat] /\ holds \in [Buffer -> Output \cup {<<>>}]
    BY <1>1 DEF Typed
  <1>10. pool.nextIndex \in Buffer /\ IsFiniteSet(Assigned) /\ Cardinality(Assigned) \in Nat
    BY <1>1, <1>9, BuffersLeft
  <1>11. Consumers(o) \in Nat /\ Consumers(o) = Cardinality(Reads(o)) /\ Remaining(o) = Reads(o)
    BY <1>1, <1>3, <1>8, ReadsFinite, OwnReads
  <1>12. /\ b \in Buffer /\ q \in Pool /\ q.error = pool.error /\ q.refs[b] = Consumers(o) % RefMod
         /\ \A c \in Buffer : c # b => q.refs[c] = pool.refs[c]
         /\ pool.stack = <<>> => /\ b = pool.nextIndex /\ q.stack = <<>>
                                 /\ q.nextIndex = pool.nextIndex + 1
         /\ pool.stack # <<>> => /\ b = pool.stack[Len(pool.stack)] /\ Len(pool.stack) \in Nat \ {0}
                                 /\ Len(q.stack) = Len(pool.stack) - 1
                                 /\ \A i \in 1 .. Len(pool.stack) - 1 : q.stack[i] = pool.stack[i]
                                 /\ q.nextIndex = pool.nextIndex
    BY <1>4, <1>5, <1>6, <1>9, <1>10, <1>11, Allocated
  <1>uncut. Consumers(o) % RefMod = Consumers(o)
    <2>1. Consumers(o) < RefMod
      BY <1>8 DEF ColoringInv, Countable
    <2>2. QED
      BY <2>1, <1>11, ColoringAssumption, Uncut
  <1>13. pool.stack \in Seq(Buffer) /\ pool.nextIndex \in Nat /\ b \in Nat
         /\ Cardinality(Assigned') = Cardinality(Assigned) + 1
    <2>1. pool.stack \in Seq(Buffer) /\ pool.nextIndex \in Nat
      BY <1>9 DEF Pool
    <2>2. b \in Nat
      BY <1>12, OutputFinite DEF Buffer
    <2>3. Cardinality(Assigned') = Cardinality(Assigned) + 1
      BY <1>8, <1>10, FS_AddElement
    <2>4. QED
      BY <2>1, <2>2, <2>3
  <1>14. /\ b < q.nextIndex /\ pool.nextIndex <= q.nextIndex
         /\ ~ \E i \in 1 .. Len(q.stack) : q.stack[i] = b
         /\ \A c : (\E i \in 1 .. Len(q.stack) : q.stack[i] = c) => OnStack(c)
         /\ b < pool.nextIndex => OnStack(b)
    <2>1. CASE pool.stack = <<>>
      BY <2>1, <1>12, <1>13
    <2>2. CASE pool.stack # <<>>
      <3>1. b = pool.stack[Len(pool.stack)] /\ Len(pool.stack) \in 1 .. Len(pool.stack)
        BY <2>2, <1>12
      <3>2. b < pool.nextIndex
        BY <3>1, <1>1 DEF Stacked
      <3>3. \A i \in 1 .. Len(q.stack) : /\ q.stack[i] = pool.stack[i] /\ i \in 1 .. Len(pool.stack)
                                         /\ i # Len(pool.stack)
        BY <2>2, <1>12
      <3>4. OnStack(b)
        BY <3>1 DEF OnStack
      <3>5. \A c : (\E i \in 1 .. Len(q.stack) : q.stack[i] = c) => OnStack(c)
        BY <3>3 DEF OnStack
      <3>6. \A i \in 1 .. Len(q.stack) : q.stack[i] # b
        BY <3>1, <3>3, <1>1 DEF Stacked
      <3>7. QED
        BY <2>2, <3>2, <3>4, <3>5, <3>6, <1>12, <1>13
    <2>3. QED
      BY <2>1, <2>2
  <1>15. Stacked'
    <2>1. CASE pool.stack = <<>>
      BY <2>1, <1>1, <1>7, <1>10, <1>12, <1>13 DEF Stacked
    <2>2. CASE pool.stack # <<>>
      <3>1. \A i \in 1 .. Len(q.stack) : q.stack[i] = pool.stack[i] /\ i \in 1 .. Len(pool.stack)
        BY <2>2, <1>12
      <3>2. \A i, j \in 1 .. Len(q.stack) : q.stack[i] = q.stack[j] => i = j
        BY <3>1, <1>1 DEF Stacked
      <3>3. \A i \in 1 .. Len(q.stack) : q.stack[i] < q.nextIndex
        BY <2>2, <3>1, <1>1, <1>12 DEF Stacked
      <3>4. q.nextIndex <= Cardinality(Assigned')
        BY <2>2, <1>1, <1>10, <1>12, <1>13 DEF Stacked
      <3>5. QED
        BY <3>2, <3>3, <3>4, <1>7 DEF Stacked
    <2>3. QED
      BY <2>1, <2>2
  \* What is owned already keeps its buffer.
  <1>16. ASSUME NEW r \in Assigned, r[1] = unit \/ Remaining(r) # {}
         PROVE  /\ bufferIndex'[r] = bufferIndex[r] /\ bufferIndex[r] \in Buffer
                /\ bufferIndex[r] < pool.nextIndex /\ holds[bufferIndex[r]] = r
                /\ ~OnStack(bufferIndex[r]) /\ bufferIndex[r] # b
    <2>1. /\ bufferIndex[r] \in Buffer /\ bufferIndex[r] < pool.nextIndex
          /\ holds[bufferIndex[r]] = r /\ ~OnStack(bufferIndex[r])
      BY <1>1, <1>16 DEF Owned
    <2>2. r # o /\ r \in Output
      BY <1>8 DEF Assigned
    <2>3. bufferIndex'[r] = bufferIndex[r]
      BY <2>2, <1>7, <1>9
    <2>4. QED
      BY <2>1, <2>3, <1>14
  <1>17. bufferIndex'[o] = b /\ holds'[b] = o
    BY <1>7, <1>8, <1>9, <1>12
  <1>18. Owned'
    <2>1. ASSUME NEW r \in Assigned', (r[1] = unit \/ Remaining(r) # {})'
          PROVE  /\ bufferIndex'[r] \in Buffer /\ bufferIndex'[r] < q.nextIndex
                 /\ holds'[bufferIndex'[r]] = r
                 /\ ~ \E i \in 1 .. Len(q.stack) : q.stack[i] = bufferIndex'[r]
      <3>1. CASE r = o
        BY <3>1, <1>12, <1>14, <1>17
      <3>2. CASE r # o
        <4>1. r \in Assigned /\ (r[1] = unit \/ Remaining(r) # {})
          BY <3>2, <2>1, <1>2, <1>8
        <4>2. /\ bufferIndex'[r] = bufferIndex[r] /\ bufferIndex[r] \in Buffer
              /\ bufferIndex[r] < pool.nextIndex /\ holds[bufferIndex[r]] = r
              /\ ~OnStack(bufferIndex[r]) /\ bufferIndex[r] # b
          BY <4>1, <1>16
        <4>3. holds'[bufferIndex[r]] = r
          BY <4>2, <1>7, <1>9
        <4>4. bufferIndex[r] \in Nat /\ q.nextIndex \in Nat
          BY <4>2, <1>12, OutputFinite DEF Buffer, Pool
        <4>5. QED
          BY <4>2, <4>3, <4>4, <1>13, <1>14
      <3>3. QED
        BY <3>1, <3>2
    <2>2. QED
      BY <2>1, <1>7 DEF Owned, OnStack
  <1>19. Counted'
    <2>1. ASSUME NEW r \in Assigned', Remaining(r)' # {}
          PROVE  q.refs[bufferIndex'[r]] = Cardinality(Remaining(r)')
      <3>1. CASE r = o
        BY <3>1, <1>8, <1>11, <1>12, <1>17, <1>uncut
      <3>2. CASE r # o
        <4>1. r \in Assigned /\ Remaining(r) # {} /\ Remaining(r)' = Remaining(r)
          BY <3>2, <2>1, <1>8
        <4>2. bufferIndex'[r] = bufferIndex[r] /\ bufferIndex[r] \in Buffer /\ bufferIndex[r] # b
          BY <4>1, <1>16
        <4>3. pool.refs[bufferIndex[r]] = Cardinality(Remaining(r))
          BY <4>1, <1>1 DEF Counted
        <4>4. QED
          BY <4>1, <4>2, <4>3, <1>12
      <3>3. QED
        BY <3>1, <3>2
    <2>2. QED
      BY <2>1, <1>7 DEF Counted
  <1>20. given \in Nat /\ given < NumAllocs(unit) /\ NumAllocs(unit) \in Nat
         /\ released \in Nat /\ NumReleases(unit) \in Nat
    BY <1>1, <1>8, UnitCounts DEF AllocOutput, Allocating, Typed
  <1>21. Typed'
    <2>1. bufferIndex' \in [Output -> Nat]
      BY <1>7, <1>9, <1>13
    <2>2. holds' \in [Buffer -> Output \cup {<<>>}]
      BY <1>7, <1>8, <1>9
    <2>3. QED
      BY <1>1, <1>2, <1>3, <1>7, <1>8, <1>12, <1>20, <2>1, <2>2, AllocFrame, SMTT(40) DEF Typed
  <1>22. Phase'
    <2>1. ~AllocsFirst(unit) => released = NumReleases(unit)
      BY DEF AllocOutput, Allocating
    <2>2. AllocsFirst(unit) => released = 0
      BY <1>1, <1>8, <1>20 DEF Phase
    <2>3. QED
      BY <1>1, <1>2, <1>3, <2>1, <2>2, AllocFrame DEF Phase
  <1>23. InputsThere'
    BY <1>2, <1>18, <1>20, <1>21, OwnedIntact
  <1>24. OwnBuffers'
    <2>1. OwnBuffers
      BY DEF ColoringInv
    <2>2. ASSUME NEW u \in Unit, u # unit
          PROVE  /\ \A i \in 1 .. Given(u)' : bufferIndex'[<<u, i>>] = bufferIndex[<<u, i>>]
                 /\ Given(u)' = Given(u) /\ AudioIns(u)' = AudioIns(u)
      <3>1. Given(u)' = Given(u) /\ AudioIns(u)' = AudioIns(u)
        BY <2>2, <1>1, <1>3, AllocFrame
      <3>2. Given(u) \in Nat /\ Given(u) <= Outs[u] /\ Outs[u] \in Nat
        BY <1>1, UnitCounts, UnitType
      <3>3. \A i \in 1 .. Given(u) : <<u, i>> \in Output /\ <<u, i>> # o
        BY <2>2, <3>2, <1>3, OutputType
      <3>4. QED
        BY <3>1, <3>3, <1>7, <1>9
    <2>3. ASSUME NEW u \in Unit, u # unit, Given(u)' # 0, NEW r \in AudioIns(u)
          PROVE  bufferIndex'[r] = bufferIndex[r]
      <3>1. u < unit
        BY <2>3, <1>2, <1>1, UnitType DEF Given, Typed
      <3>2. PICK i \in DOMAIN ins[u] : r = ins[u][i]
        BY DEF AudioIns
      <3>3. r \in Output /\ r[1] < u
        BY <1>1, <3>2, InputType
      <3>4. r[1] \in Nat /\ u \in Nat /\ unit \in Nat
        BY <1>8, <3>3, OutputType, UnitType
      <3>5. r # o
        BY <3>1, <3>3, <3>4, <1>3
      <3>6. QED
        BY <3>3, <3>5, <1>7, <1>9
    <2>4. ASSUME NEW u \in Unit, u = unit, NEW i \in 1 .. Given(u)'
          PROVE  holds'[bufferIndex'[<<u, i>>]] = <<u, i>>
      <3>1. Given(u)' = given + 1 /\ NumAllocs(u) <= Outs[u] /\ Outs[u] \in Nat
        BY <1>1, <1>3, <2>4, AllocFrame, UnitCounts, UnitType
      <3>2. <<u, i>> \in Output /\ i <= Given(u)'
        BY <2>4, <3>1, <1>20, OutputType
      <3>3. PICK r : r = <<u, i>>
        OBVIOUS
      <3>4. r \in Assigned' /\ r[1] = unit'
        BY <2>4, <3>2, <3>3, <1>2 DEF Assigned
      <3>5. QED
        BY <3>3, <3>4, <1>18 DEF Owned
    <2>5. ASSUME kind[unit] = "audioNoAlias", NEW r \in AudioIns(unit)
          PROVE  holds'[bufferIndex'[r]] = r /\ r[1] # unit
      <3>1. released = 0
        BY <2>5, <1>1, <1>8, <1>20 DEF Phase, AllocsFirst
      <3>2. PICK i \in DOMAIN ins[unit] : r = ins[unit][i] /\ IsAudio(r[1])
        BY DEF AudioIns
      <3>3. /\ r \in Output /\ r[1] < unit /\ <<unit, i>> \in Reads(r)
            /\ i \in Nat /\ i <= Len(ins[unit]) /\ Len(ins[unit]) \in Nat
        BY <1>1, <1>8, <3>2, InputType
      <3>4. Remaining(r) # {}
        BY <3>1, <3>3 DEF Remaining, ToCome
      <3>5. r \in Assigned
        BY <1>1, <3>2, <3>3, EarlierAssigned
      <3>6. r \in Assigned' /\ Remaining(r)' # {}
        BY <3>4, <3>5, <1>8
      <3>7. holds'[bufferIndex'[r]] = r
        BY <3>6, <1>18 DEF Owned
      <3>8. r[1] \in Nat /\ unit \in Nat
        BY <1>8, <3>3, OutputType, UnitType
      <3>9. QED
        BY <3>3, <3>7, <3>8
    <2>6. ASSUME NEW u \in Unit, NEW i \in 1 .. Given(u)', NEW j \in 1 .. Given(u)',
                 bufferIndex'[<<u, i>>] = bufferIndex'[<<u, j>>]
          PROVE  i = j
      <3>1. CASE u = unit
        BY <3>1, <2>4, <2>6
      <3>2. CASE u # unit
        BY <3>2, <2>1, <2>2, <2>6 DEF OwnBuffers
      <3>3. QED
        BY <3>1, <3>2
    <2>7. ASSUME NEW u \in Unit, kind[u] = "audioNoAlias", NEW r \in AudioIns(u),
                 NEW i \in 1 .. Given(u)'
          PROVE  bufferIndex'[r] # bufferIndex'[<<u, i>>]
      <3>1. CASE u = unit
        <4>1. holds'[bufferIndex'[r]] = r /\ r[1] # unit
          BY <3>1, <2>5, <2>7
        <4>2. holds'[bufferIndex'[<<u, i>>]] = <<u, i>>
          BY <3>1, <2>4
        <4>3. QED
          BY <3>1, <4>1, <4>2
      <3>2. CASE u # unit
        <4>1. Given(u)' # 0
          BY <2>7
        <4>2. bufferIndex'[r] = bufferIndex[r]
          BY <3>2, <4>1, <2>3
        <4>3. bufferIndex[r] # bufferIndex[<<u, i>>]
          BY <3>2, <2>1, <2>2, <2>7 DEF OwnBuffers
        <4>4. QED
          BY <3>2, <4>2, <4>3, <2>2
      <3>3. QED
        BY <3>1, <3>2
    <2>8. \A u : AudioIns(u)' = AudioIns(u)
      BY <1>1, <1>3, AllocFrame
    <2>9. QED
      BY <2>6, <2>7, <2>8, <1>2 DEF OwnBuffers
  <1>fits. Countable' /\ Within' /\ Fits'
    <2>1. Countable' = Countable
      BY <1>2 DEF Countable, Consumers
    <2>2. outcome' = outcome /\ outcome # "accepted" /\ maxWireBufs' = maxWireBufs /\ ~RefsFull
      BY DEF AllocOutput, Allocating, Coloring, endVars
    <2>3. ASSUME NEW r \in Assigned' PROVE bufferIndex'[r] < q.nextIndex
      <3>1. CASE r = o
        BY <3>1, <1>14, <1>17
      <3>2. CASE r # o
        <4>1. r \in Assigned /\ r \in Output
          BY <3>2, <1>8 DEF Assigned
        <4>2. bufferIndex'[r] = bufferIndex[r] /\ bufferIndex[r] \in Nat
          BY <3>2, <4>1, <1>7, <1>9
        <4>3. bufferIndex[r] < pool.nextIndex
          BY <4>1 DEF ColoringInv, Within
        <4>4. q.nextIndex \in Nat
          BY <1>12 DEF Pool
        <4>5. QED
          BY <4>2, <4>3, <4>4, <1>13, <1>14
      <3>3. QED
        BY <3>1, <3>2
    <2>4. q.nextIndex <= MaxBufs
      BY <2>2, <1>12, <1>13, ColoringAssumption DEF ColoringInv, Fits, RefsFull
    <2>5. QED
      BY <2>1, <2>2, <2>3, <2>4, <1>7 DEF ColoringInv, Within, Fits
  <1>25. QED
    BY <1>1, <1>7, <1>12, <1>15, <1>18, <1>19, <1>21, <1>22, <1>23, <1>24, <1>fits
    DEF ColoringInv

-----------------------------------------------------------------------------
(* On to the next unit. *)

LEMMA NextUnitFrame ==
    ASSUME Typed, NextUnit
    PROVE  /\ unit \in Unit /\ unit \in Nat /\ unit' = unit + 1
           /\ Assigned' = Assigned /\ \A o : Remaining(o)' = Remaining(o)
           /\ \A u : /\ NumAllocs(u)' = NumAllocs(u) /\ NumReleases(u)' = NumReleases(u)
                     /\ AudioIns(u)' = AudioIns(u)
           /\ \A u \in Unit : Given(u)' = Given(u)
  <1>1. /\ kind' = kind /\ ins' = ins /\ unit' = unit + 1 /\ given' = 0 /\ released' = 0
        /\ released = NumReleases(unit) /\ given = NumAllocs(unit)
    BY DEF NextUnit
  <1>2. unit \in Unit /\ unit \in Nat
    BY DEF NextUnit, Coloring, Typed
  <1>3. \A u : /\ NumAllocs(u)' = NumAllocs(u) /\ NumReleases(u)' = NumReleases(u)
               /\ AudioIns(u)' = AudioIns(u)
    BY <1>1 DEF NumAllocs, NumReleases, AudioIns, IsAudio
  <1>4. ASSUME NEW u \in Unit PROVE Given(u)' = Given(u)
    BY <1>1, <1>2, <1>3, UnitType DEF Given
  <1>5. Assigned' = Assigned
    BY <1>4, OutputType DEF Assigned
  <1>6. ASSUME NEW o PROVE Remaining(o)' = Remaining(o)
    <2>1. Reads(o)' = Reads(o)
      BY <1>1 DEF Reads
    <2>2. ASSUME NEW r \in Reads(o)
          PROVE  ToCome(r[1], r[2])' <=> ToCome(r[1], r[2])
      <3>1. r[1] \in Unit /\ r[2] \in Nat /\ 1 <= r[2] /\ r[2] <= Len(ins[r[1]])
        BY ColoringAssumption DEF Reads
      <3>2. r[1] \in Nat /\ Len(ins[r[1]]) \in Nat
        BY <3>1, UnitCounts
      <3>3. CASE r[1] = unit
        <4>1. kind[unit] # "demand" => released = Len(ins[unit])
          BY <1>1, <1>2, UnitCounts
        <4>2. ToCome(r[1], r[2]) <=> kind[unit] = "demand"
          BY <3>1, <3>2, <3>3, <4>1, <1>2 DEF ToCome
        <4>3. ToCome(r[1], r[2])' <=> kind[unit] = "demand"
          BY <3>2, <3>3, <1>1, <1>2 DEF ToCome
        <4>4. QED
          BY <4>2, <4>3
      <3>4. CASE r[1] # unit
        BY <3>1, <3>2, <3>4, <1>1, <1>2 DEF ToCome
      <3>5. QED
        BY <3>3, <3>4
    <2>3. QED
      BY <2>1, <2>2 DEF Remaining
  <1>7. QED
    BY <1>1, <1>2, <1>3, <1>4, <1>5, <1>6

LEMMA NextUnitInv == ColoringInv /\ NextUnit => ColoringInv'
  <1> SUFFICES ASSUME ColoringInv, NextUnit PROVE ColoringInv'
    OBVIOUS
  <1>1. Typed /\ Phase /\ Stacked /\ Owned /\ Counted /\ ~pool.error /\ OwnBuffers
    BY DEF ColoringInv
  <1>2. /\ kind' = kind /\ ins' = ins /\ unit' = unit + 1 /\ given' = 0 /\ released' = 0
        /\ pool' = pool /\ bufferIndex' = bufferIndex /\ holds' = holds
    BY DEF NextUnit
  <1>3. /\ unit \in Unit /\ unit \in Nat
        /\ Assigned' = Assigned /\ \A o : Remaining(o)' = Remaining(o)
        /\ \A u : AudioIns(u)' = AudioIns(u)
        /\ \A u \in Unit : Given(u)' = Given(u)
    BY <1>1, NextUnitFrame
  <1>4. ASSUME NEW u \in Unit PROVE 0 <= NumReleases(u)' /\ 0 <= NumAllocs(u)'
    BY <1>1, NextUnitFrame, UnitCounts
  <1>5. Typed'
    BY <1>1, <1>2, <1>3, <1>4 DEF Typed
  <1>6. Phase'
    BY <1>2 DEF Phase
  <1>7. Stacked'
    BY <1>1, <1>2, <1>3 DEF Stacked
  <1>8. Owned'
    <2>1. ASSUME NEW o \in Assigned PROVE o[1] # unit + 1
      <3>1. o \in Output /\ o[2] <= Given(o[1])
        BY DEF Assigned
      <3>2. o[1] \in Unit /\ o[2] \in Nat /\ o[2] >= 1
        BY <3>1, OutputType
      <3>3. Given(o[1]) # 0
        BY <3>1, <3>2
      <3>4. QED
        BY <3>2, <3>3, <1>3, UnitType DEF Given
    <2>2. QED
      BY <2>1, <1>1, <1>2, <1>3 DEF Owned, OnStack
  <1>9. Counted'
    BY <1>1, <1>2, <1>3 DEF Counted
  <1>10. InputsThere'
    BY <1>2, <1>5, <1>8, OwnedIntact
  <1>11. OwnBuffers'
    BY <1>1, <1>2, <1>3 DEF OwnBuffers
  <1>12. Countable' /\ Within' /\ Fits'
    <2>1. Countable' = Countable
      BY <1>2 DEF Countable, Consumers
    <2>2. outcome' = outcome /\ outcome # "accepted" /\ maxWireBufs' = maxWireBufs
      BY DEF NextUnit, Coloring, endVars
    <2>3. QED
      BY <1>2, <1>3, <2>1, <2>2 DEF ColoringInv, Within, Fits
  <1>13. QED
    BY <1>1, <1>2, <1>5, <1>6, <1>7, <1>8, <1>9, <1>10, <1>11, <1>12 DEF ColoringInv

-----------------------------------------------------------------------------
(* The end, and all steps that leave the buffers alone. *)

LEMMA StillInv ==
    ASSUME ColoringInv,
           kind' = kind, ins' = ins, unit' = unit, released' = released, given' = given,
           pool' = pool, bufferIndex' = bufferIndex, holds' = holds, Fits'
    PROVE  ColoringInv'
  <1>1. \A u : /\ NumAllocs(u)' = NumAllocs(u) /\ NumReleases(u)' = NumReleases(u)
               /\ AudioIns(u)' = AudioIns(u) /\ (AllocsFirst(u)' <=> AllocsFirst(u))
    BY DEF NumAllocs, NumReleases, AudioIns, IsAudio, AllocsFirst
  <1>2. \A u : Given(u)' = Given(u)
    BY <1>1 DEF Given
  <1>3. Assigned' = Assigned
    BY <1>2 DEF Assigned
  <1>4. \A o : Remaining(o)' = Remaining(o)
    BY DEF Remaining, Reads, ToCome
  <1>5. Typed' /\ Phase'
    BY <1>1 DEF ColoringInv, Typed, Phase
  <1>6. Stacked' /\ Owned' /\ Counted' /\ Within'
    BY <1>3, <1>4 DEF ColoringInv, Stacked, Owned, Counted, OnStack, Within
  <1>7. Countable' /\ ~pool'.error
    BY DEF ColoringInv, Countable, Consumers
  <1>8. InputsThere' /\ OwnBuffers'
    BY <1>1, <1>2 DEF ColoringInv, InputsThere, OwnBuffers
  <1>9. QED
    BY <1>5, <1>6, <1>7, <1>8 DEF ColoringInv

LEMMA EndInv == ColoringInv /\ (ReallocFails \/ CheckWireBufs) => ColoringInv'
  <1> SUFFICES ASSUME ColoringInv, ReallocFails \/ CheckWireBufs PROVE ColoringInv'
    OBVIOUS
  <1>1. /\ kind' = kind /\ ins' = ins /\ unit' = unit /\ released' = released /\ given' = given
        /\ pool' = pool /\ bufferIndex' = bufferIndex /\ holds' = holds
    BY DEF ReallocFails, CheckWireBufs
  <1>2. Fits'
    <2>1. CASE ReallocFails
      BY <2>1 DEF ReallocFails, Fits, ColoringInv
    <2>2. CASE CheckWireBufs
      <3>1. pool.nextIndex \in Nat /\ maxWireBufs \in Nat /\ pool.nextIndex <= MaxBufs
        BY DEF ColoringInv, Typed, Pool, Fits
      <3>2. NumWireBufs \in Nat /\ pool.nextIndex <= NumWireBufs
        BY <3>1, ColoringAssumption DEF NumWireBufs
      <3>3. QED
        BY <2>2, <3>1, <3>2, <1>1 DEF CheckWireBufs, Fits
    <2>3. QED
      BY <2>1, <2>2
  <1>3. QED
    BY <1>1, <1>2, StillInv

-----------------------------------------------------------------------------
(* The theorems. *)

\* The steps of DoBufferColoring keep the pool in order: every buffer that will
\* still be read counts just those reads, is off the stack and its output's own.
THEOREM ColoringInvariant == ColoringSpec => [](Countable => ColoringInv)
  <1>1. ColoringInv /\ UNCHANGED colorVars => ColoringInv'
    <2> SUFFICES ASSUME ColoringInv, UNCHANGED colorVars PROVE ColoringInv'
      OBVIOUS
    <2>1. /\ kind' = kind /\ ins' = ins /\ unit' = unit /\ released' = released /\ given' = given
          /\ pool' = pool /\ bufferIndex' = bufferIndex /\ holds' = holds
          /\ outcome' = outcome /\ maxWireBufs' = maxWireBufs
      BY DEF colorVars, endVars
    <2>2. Fits'
      BY <2>1 DEF ColoringInv, Fits
    <2>3. QED
      BY <2>1, <2>2, StillInv
  <1>2. ColoringInv /\ [ColoringNext]_colorVars => ColoringInv'
    BY <1>1, ReleaseInv, AllocInv, NextUnitInv, EndInv DEF ColoringNext
  \* Who reads what is fixed.
  <1>3. [ColoringNext]_colorVars => Countable' = Countable
    <2>1. [ColoringNext]_colorVars => ins' = ins
      BY DEF ColoringNext, colorVars, ReleaseInput, AllocOutput, ReallocFails, NextUnit, CheckWireBufs
    <2>2. ins' = ins => Countable' = Countable
      BY DEF Countable, Consumers
    <2>3. QED
      BY <2>1, <2>2
  <1>4. ColoringInit => (Countable => ColoringInv)
    BY ColoringInitInv
  <1>5. (Countable => ColoringInv) /\ [ColoringNext]_colorVars => (Countable => ColoringInv)'
    BY <1>2, <1>3
  <1>6. QED
    BY <1>4, <1>5, PTL DEF ColoringSpec

\* Whatever the definition, release never returns false, for which
\* ReleaseInputBuffers would throw "tried to release output with zero count": the
\* count that alloc gives a buffer is the number of the releases to come.  The
\* one exception is a definition with an output that is read 65536 times or
\* more, whose count is cut.
THEOREM NeverOverReleased == ColoringSpec => []NoColoringError
  <1>1. (Countable => ColoringInv) => NoColoringError
    BY DEF ColoringInv, NoColoringError
  <1>2. QED
    BY <1>1, ColoringInvariant, PTL

\* No buffer is given to another output by AllocOutputBuffers before all units
\* that read what is in it have computed, with any number of units, branches and
\* demand-rate units, but for the same definitions.
THEOREM NothingOverwritten == ColoringSpec => []InputsIntact
  <1>1. (Countable => ColoringInv) => InputsIntact
    BY DEF ColoringInv, InputsIntact
  <1>2. QED
    BY <1>1, ColoringInvariant, PTL

\* The outputs of a unit have buffers of their own, and those of a unit with
\* kUnitDef_CantAliasInputsToOutputs none of its inputs' either; all buffers of
\* a definition that DoBufferColoring does not refuse are among mMaxWireBufs.
THEOREM OutputsNeverAlias == ColoringSpec => []OutputsApart
  <1>1. (Countable => ColoringInv) => OutputsApart
    <2> SUFFICES ASSUME Countable => ColoringInv, Countable PROVE OutputsApart
      BY DEF OutputsApart
    <2>1. ColoringInv
      OBVIOUS
    <2>2. ASSUME outcome = "accepted", NEW o \in Output, IsAudio(o[1])
          PROVE  bufferIndex[o] < maxWireBufs
      <3>1. Typed /\ pool.nextIndex <= maxWireBufs /\ unit \notin Unit
        BY <2>1, <2>2 DEF ColoringInv, Fits
      <3>2. /\ o[1] \in Unit /\ unit \in Nat /\ unit >= 1 /\ bufferIndex[o] \in Nat
            /\ pool.nextIndex \in Nat /\ maxWireBufs \in Nat
        BY <2>1, <3>1, OutputType DEF Typed, Pool, ColoringInv, Fits
      <3>3. o[1] < unit
        BY <3>1, <3>2, UnitType
      <3>4. bufferIndex[o] < pool.nextIndex
        BY <2>1, <2>2, <3>1, <3>3, EarlierAssigned DEF ColoringInv, Within
      <3>5. QED
        BY <3>1, <3>2, <3>4
    <2>3. QED
      BY <2>1, <2>2 DEF OutputsApart, ColoringInv
  <1>2. QED
    BY <1>1, ColoringInvariant, PTL
-----------------------------------------------------------------------------
(***************************************************************************)
(* The hash tables for every set of keys and items, all hashes and tables  *)
(* of every size: the loops end, and the table is the set with keys that   *)
(* its users take it for.                                                  *)
(*                                                                         *)
(* A table at rest is sound when no two items have the same key and no     *)
(* empty slot is on the way from an item's hash to the item (Reachable).   *)
(* While FixCollisionsFrom runs there is one slot, the hole, that may be   *)
(* on the way to items, but only to items that the loop has not come to.   *)
(* Moving an item back into the hole makes its place the new hole.  At an  *)
(* empty slot the loop ends: that slot would be on the way to every item   *)
(* behind it that the hole is on the way to, so there are none.  All this  *)
(* needs a second empty slot, and so does every search need one: this is   *)
(* what the counts are for.                                                *)
(***************************************************************************)
(* Definitions. *)

Table(n) == [0 .. n - 1 -> Item \cup {Empty}]

\* The way from slot a to slot b of n slots.
Ahead(n, a, b) == IF b >= a THEN b - a ELSE b + n - a

Home(n, key) == hash[key] % n

\* The slots that the search for the key looks at before slot i.
Before(n, key, i) == {s \in 0 .. n - 1 : Ahead(n, Home(n, key), s) < Ahead(n, Home(n, key), i)}

Used(n, t) == {i \in 0 .. n - 1 : t[i] # Empty}

ItemsOf(n, t) == {t[i] : i \in Used(n, t)}

Unique(n, t) == \A i, j \in Used(n, t) : GetKey(t[i]) = GetKey(t[j]) => i = j

Reachable(n, t) == \A i \in Used(n, t) : Before(n, GetKey(t[i]), i) \subseteq Used(n, t)

\* The hole h hides only items behind o, where FixCollisionsFrom is.
Hidden(n, t, h, o) ==
    /\ h \in 0 .. n - 1 /\ t[h] = Empty
    /\ \A s \in 0 .. n - 1 : 0 < Ahead(n, h, s) /\ Ahead(n, h, s) <= Ahead(n, h, o) => t[s] # Empty
    /\ \A i \in Used(n, t) :
          /\ Before(n, GetKey(t[i]), i) \subseteq Used(n, t) \cup {h}
          /\ h \in Before(n, GetKey(t[i]), i) => Ahead(n, h, o) < Ahead(n, h, i)

\* What Resize has still to add is unique and not there yet; slot e of the old
\* table is empty, so that there is room for one more in the end.
Moving(n, m) ==
    /\ oldItems \in Table(m) /\ m \in Nat /\ oldIndex \in 0 .. m /\ m <= maxItems
    /\ Unique(m, oldItems)
    /\ \A i \in Used(n, items), j \in Used(m, oldItems) :
          oldIndex <= j => GetKey(items[i]) # GetKey(oldItems[j])
    /\ \E e \in 0 .. m - 1 :
          oldItems[e] = Empty /\ numItems <= IF e < oldIndex THEN oldIndex - 1 ELSE oldIndex

TableTyped ==
    /\ hash \in [Key -> HashValue] /\ canResize \in BOOLEAN
    /\ numItems \in Nat /\ maxItems \in Nat \ {0}
    /\ doing \in {"nothing", "FixCollisionsFrom", "Resize"}

Sound(n) ==
    /\ items \in Table(n) /\ n \in Nat
    /\ Unique(n, items)
    /\ doing # "nothing" => inItem \in Item
    /\ doing # "FixCollisionsFrom" => Reachable(n, items)
    /\ doing = "FixCollisionsFrom" =>
          /\ oldIndex \in 0 .. n - 1
          /\ \A i \in Used(n, items) : GetKey(items[i]) # GetKey(inItem)
          /\ \E h \in 0 .. n - 1 : Hidden(n, items, h, oldIndex)
    /\ doing = "Resize" => canResize /\ \E m \in Nat : Moving(n, m)

TableInv == TableTyped /\ LoopsEnd /\ \E n \in Nat : Sound(n)
-----------------------------------------------------------------------------
(* Slots. *)

LEMMA LeastNat ==
    ASSUME NEW T, T \subseteq Nat, T # {}
    PROVE  \E m \in T : \A n \in T : m <= n
  <1>1. PICK m \in T : \A n \in T : ~(<<n, m>> \in OpToRel(<, Nat))
    BY WFMin, NatLessThanWellFounded, Zenon
  <1>2. \A n \in T : ~(n < m)
    BY <1>1 DEF OpToRel
  <1>3. QED
    BY <1>2

\* What the search looks at after d other slots.
LEMMA Wraps ==
    ASSUME NEW n \in Nat \ {0}, NEW a \in Int, NEW d \in 0 .. n - 1
    PROVE  /\ a % n \in 0 .. n - 1
           /\ (a + d) % n = IF (a % n) + d < n THEN (a % n) + d ELSE (a % n) + d - n
  <1>1. a % n \in 0 .. n - 1 /\ a = n * (a \div n) + (a % n) /\ a \div n \in Int
    OBVIOUS
  <1>2. (a + d) % n \in 0 .. n - 1 /\ a + d = n * ((a + d) \div n) + ((a + d) % n)
        /\ (a + d) \div n \in Int
    OBVIOUS
  <1>3. n * ((a + d) \div n) - n * (a \div n) \in {0, n}
    OBVIOUS
  <1>4. QED
    BY <1>1, <1>2, <1>3

LEMMA AheadFacts ==
    ASSUME NEW n \in Nat \ {0}, NEW a \in 0 .. n - 1, NEW b \in 0 .. n - 1, NEW c \in 0 .. n - 1
    PROVE  /\ Ahead(n, a, b) \in 0 .. n - 1
           /\ Ahead(n, a, b) = 0 <=> a = b
           /\ Ahead(n, a, b) = Ahead(n, a, c) => b = c
           /\ Ahead(n, a, b) < Ahead(n, a, c) => Ahead(n, b, c) = Ahead(n, a, c) - Ahead(n, a, b)
           /\ Ahead(n, a, b) <= Ahead(n, a, c) /\ Ahead(n, a, b) # 0 => Ahead(n, b, c) < Ahead(n, a, c)
  BY SMT DEF Ahead

LEMMA NextSlot ==
    ASSUME NEW n \in Nat \ {0}, NEW a \in 0 .. n - 1, NEW o \in 0 .. n - 1
    PROVE  /\ (o + 1) % n \in 0 .. n - 1
           /\ (o + 1) % n # a => Ahead(n, a, (o + 1) % n) = Ahead(n, a, o) + 1
           /\ (o + 1) % n = a => Ahead(n, a, o) = n - 1
  <1>1. CASE n = 1
    <2>1. o = 0 /\ a = 0
      BY <1>1
    <2>2. (o + 1) % n = 0
      BY <1>1, <2>1
    <2>3. QED
      BY <1>1, <2>1, <2>2 DEF Ahead
  <1>2. CASE n # 1
    <2>1. 1 \in 0 .. n - 1 /\ o % n = o
      BY <1>2
    <2>2. (o + 1) % n = IF o + 1 < n THEN o + 1 ELSE o + 1 - n
      BY <2>1, Wraps
    <2>3. QED
      BY <1>2, <2>2 DEF Ahead
  <1>3. QED
    BY <1>1, <1>2

LEMMA SizeOf ==
    ASSUME NEW n \in Nat, NEW S, NEW t \in [0 .. n - 1 -> S]
    PROVE  Size(t) = n /\ DOMAIN t = 0 .. n - 1
  <1>1. DOMAIN t = 0 .. n - 1
    OBVIOUS
  <1>2. Cardinality(0 .. n - 1) = n
    BY FS_Interval
  <1>3. QED
    BY <1>1, <1>2 DEF Size

\* The search looks at the slots in the order of their distance.
LEMMA ProbeIs ==
    ASSUME NEW n \in Nat \ {0}, NEW t \in Table(n), NEW key \in Key, hash \in [Key -> HashValue]
    PROVE  /\ Home(n, key) \in 0 .. n - 1
           /\ \A d \in 0 .. n - 1 : /\ Probe(t, key, d) \in 0 .. n - 1
                                    /\ Ahead(n, Home(n, key), Probe(t, key, d)) = d
           /\ \A s \in 0 .. n - 1 : Probe(t, key, Ahead(n, Home(n, key), s)) = s
  <1>1. hash[key] \in Int /\ Size(t) = n
    BY SizeOf, TableAssumption DEF Table
  <1>2. Home(n, key) \in 0 .. n - 1
    BY <1>1, Wraps DEF Home
  <1>3. ASSUME NEW d \in 0 .. n - 1
        PROVE  Probe(t, key, d) = IF Home(n, key) + d < n THEN Home(n, key) + d ELSE Home(n, key) + d - n
    BY <1>1, Wraps DEF Home, Probe
  <1>4. \A s \in 0 .. n - 1 : Ahead(n, Home(n, key), s) \in 0 .. n - 1
    BY <1>2, AheadFacts
  <1> DEFINE a == Home(n, key)
  <1> HIDE DEF a
  <1>5. a \in 0 .. n - 1 /\ a = Home(n, key)
    BY <1>2 DEF a
  <1>6. ASSUME NEW d \in 0 .. n - 1
        PROVE  Probe(t, key, d) \in 0 .. n - 1 /\ Ahead(n, a, Probe(t, key, d)) = d
    <2>1. Probe(t, key, d) = IF a + d < n THEN a + d ELSE a + d - n
      BY <1>3, <1>5
    <2>2. QED
      BY <2>1, <1>5 DEF Ahead
  <1>7. ASSUME NEW s \in 0 .. n - 1
        PROVE  Probe(t, key, Ahead(n, a, s)) = s
    <2>1. Ahead(n, a, s) \in 0 .. n - 1
      BY <1>4, <1>5
    <2>2. Probe(t, key, Ahead(n, a, s))
             = IF a + Ahead(n, a, s) < n THEN a + Ahead(n, a, s) ELSE a + Ahead(n, a, s) - n
      BY <2>1, <1>3, <1>5
    <2>3. QED
      BY <2>2, <1>5 DEF Ahead
  <1>8. QED
    BY <1>5, <1>6, <1>7

\* IndexFor finds the first slot that is empty or has the key, if any is empty.
LEMMA IndexForFinds ==
    ASSUME NEW n \in Nat \ {0}, NEW t \in Table(n), NEW key \in Key, hash \in [Key -> HashValue],
           NEW e \in 0 .. n - 1, t[e] = Empty
    PROVE  /\ IndexFor(t, key) \in 0 .. n - 1
           /\ t[IndexFor(t, key)] # Empty => GetKey(t[IndexFor(t, key)]) = key
           /\ \A s \in Before(n, key, IndexFor(t, key)) : t[s] # Empty /\ GetKey(t[s]) # key
  <1> DEFINE D == {d \in 0 .. n - 1 : Stops(t, key, d)}
             P(d) == Stops(t, key, d) /\ \A f \in 0 .. d - 1 : ~Stops(t, key, f)
             c == CHOOSE d \in 0 .. n - 1 : P(d)
  <1>1. Size(t) = n
    BY SizeOf DEF Table
  <1>2. Ahead(n, Home(n, key), e) \in D
    <2>1. Home(n, key) \in 0 .. n - 1 /\ Probe(t, key, Ahead(n, Home(n, key), e)) = e
      BY ProbeIs
    <2>2. Ahead(n, Home(n, key), e) \in 0 .. n - 1
      BY <2>1, AheadFacts
    <2>3. QED
      BY <2>1, <2>2 DEF Stops
  <1>3. PICK d \in D : \A f \in D : d <= f
    <2>1. D \subseteq Nat /\ D # {}
      BY <1>2
    <2>2. QED
      BY <2>1, LeastNat
  <1>4. P(d)
    <2>1. \A f \in 0 .. d - 1 : f \in 0 .. n - 1 /\ ~(d <= f)
      OBVIOUS
    <2>2. QED
      BY <2>1, <1>3
  <1>5. c \in 0 .. n - 1 /\ P(c)
    <2>1. d \in 0 .. n - 1
      OBVIOUS
    <2> HIDE DEF P, D
    <2>2. QED
      BY <2>1, <1>4
  <1>6. IndexFor(t, key) = Probe(t, key, c)
    BY <1>1 DEF IndexFor
  <1> HIDE DEF c, D
  <1>7. Stops(t, key, c) /\ \A f \in 0 .. c - 1 : ~Stops(t, key, f)
    BY <1>5
  <1>8. ASSUME NEW s \in Before(n, key, IndexFor(t, key))
        PROVE  t[s] # Empty /\ GetKey(t[s]) # key
    <2> DEFINE f == Ahead(n, Home(n, key), s)
    <2>1. s \in 0 .. n - 1 /\ f < c /\ f \in 0 .. n - 1
      <3>1. s \in 0 .. n - 1 /\ f < Ahead(n, Home(n, key), IndexFor(t, key))
        BY DEF Before
      <3>2. Ahead(n, Home(n, key), IndexFor(t, key)) = c
        BY <1>5, <1>6, ProbeIs
      <3>3. QED
        BY <3>1, <3>2, ProbeIs, AheadFacts
    <2>2. f \in 0 .. c - 1
      BY <2>1, <1>5
    <2>3. Probe(t, key, f) = s
      BY <2>1, ProbeIs
    <2>4. ~Stops(t, key, f)
      BY <2>2, <1>7
    <2> HIDE DEF f
    <2>5. QED
      BY <2>3, <2>4 DEF Stops
  <1>9. QED
    BY <1>5, <1>6, <1>7, <1>8, ProbeIs DEF Stops
-----------------------------------------------------------------------------
(* Searches and what Add and Remove do to a table. *)

LEMMA ItemFacts ==
    ASSUME NEW n \in Nat, NEW t \in Table(n), NEW i \in Used(n, t)
    PROVE  i \in 0 .. n - 1 /\ t[i] \in Item /\ t[i] # Empty /\ GetKey(t[i]) \in Key /\ n \in Nat \ {0}
  <1>1. i \in 0 .. n - 1 /\ t[i] # Empty
    BY DEF Used
  <1>2. t[i] \in Item
    BY <1>1 DEF Table
  <1>3. QED
    BY <1>1, <1>2, TableAssumption

\* Which of three slots comes first.
LEMMA BeforeFacts ==
    ASSUME NEW n \in Nat \ {0}, NEW key \in Key, hash \in [Key -> HashValue],
           NEW i \in 0 .. n - 1, NEW j \in 0 .. n - 1, NEW k \in 0 .. n - 1
    PROVE  /\ i \in Before(n, key, j) \/ j \in Before(n, key, i) \/ i = j
           /\ i \in Before(n, key, j) => j \notin Before(n, key, i) /\ i # j
           /\ i \in Before(n, key, j) /\ j \in Before(n, key, k) => i \in Before(n, key, k)
  <1> DEFINE a == Home(n, key)
  <1>1. a \in 0 .. n - 1
    BY Wraps, TableAssumption DEF Home
  <1> HIDE DEF a
  <1>2. /\ Ahead(n, a, i) \in 0 .. n - 1 /\ Ahead(n, a, j) \in 0 .. n - 1 /\ Ahead(n, a, k) \in 0 .. n - 1
        /\ Ahead(n, a, i) = Ahead(n, a, j) => i = j
    BY <1>1, SMT DEF Ahead
  <1>3. \A s, r \in 0 .. n - 1 : s \in Before(n, key, r) <=> Ahead(n, a, s) < Ahead(n, a, r)
    BY DEF Before, a
  <1>4. QED
    BY <1>2, <1>3

\* An item that no empty slot hides is found.
LEMMA FindsItem ==
    ASSUME NEW n \in Nat \ {0}, NEW t \in Table(n), hash \in [Key -> HashValue],
           NEW e \in 0 .. n - 1, t[e] = Empty, Unique(n, t), NEW j \in Used(n, t),
           Before(n, GetKey(t[j]), j) \subseteq Used(n, t)
    PROVE  IndexFor(t, GetKey(t[j])) = j
  <1> DEFINE key == GetKey(t[j])
             i == IndexFor(t, key)
  <1>1. j \in 0 .. n - 1 /\ t[j] # Empty /\ key \in Key
    BY ItemFacts
  <1> HIDE DEF key
  <1>2. /\ i \in 0 .. n - 1 /\ (t[i] # Empty => GetKey(t[i]) = key)
        /\ \A s \in Before(n, key, i) : t[s] # Empty /\ GetKey(t[s]) # key
    BY <1>1, IndexForFinds
  <1> HIDE DEF i
  <1>3. j \notin Before(n, key, i)
    BY <1>2 DEF key
  <1>4. CASE i \in Before(n, key, j)
    <2>1. i \in Used(n, t)
      BY <1>4 DEF key
    <2>2. GetKey(t[i]) = GetKey(t[j])
      BY <2>1, <1>2 DEF Used, key
    <2>3. QED
      BY <2>1, <2>2 DEF Unique, i, key
  <1>5. i = j
    BY <1>1, <1>2, <1>3, <1>4, BeforeFacts DEF i, key
  <1>6. QED
    BY <1>5 DEF i, key

\* For an item that one empty slot hides, that slot is found.
LEMMA FindsHole ==
    ASSUME NEW n \in Nat \ {0}, NEW t \in Table(n), hash \in [Key -> HashValue],
           NEW h \in 0 .. n - 1, t[h] = Empty, Unique(n, t), NEW j \in Used(n, t),
           Before(n, GetKey(t[j]), j) \subseteq Used(n, t) \cup {h},
           h \in Before(n, GetKey(t[j]), j)
    PROVE  IndexFor(t, GetKey(t[j])) = h
  <1> DEFINE key == GetKey(t[j])
             i == IndexFor(t, key)
  <1>1. j \in 0 .. n - 1 /\ t[j] # Empty /\ key \in Key
    BY ItemFacts
  <1> HIDE DEF key
  <1>2. /\ i \in 0 .. n - 1 /\ (t[i] # Empty => GetKey(t[i]) = key)
        /\ \A s \in Before(n, key, i) : t[s] # Empty /\ GetKey(t[s]) # key
    BY <1>1, IndexForFinds
  <1> HIDE DEF i
  <1>3. h \notin Before(n, key, i)
    BY <1>2
  <1>4. i \notin Before(n, key, h)
    <2> SUFFICES ASSUME i \in Before(n, key, h) PROVE FALSE
      OBVIOUS
    <2>1. i \in Before(n, key, j) /\ i # h /\ i # j
      BY <1>1, <1>2, BeforeFacts DEF key
    <2>2. i \in Used(n, t)
      BY <2>1 DEF key
    <2>3. GetKey(t[i]) = GetKey(t[j])
      BY <2>2, <1>2 DEF Used, key
    <2>4. QED
      BY <2>1, <2>2, <2>3 DEF Unique
  <1>5. i = h
    BY <1>1, <1>2, <1>3, <1>4, BeforeFacts
  <1>6. QED
    BY <1>5 DEF i, key

\* A sound table is searched without fail.
LEMMA Lookup ==
    ASSUME NEW n \in Nat \ {0}, NEW t \in Table(n), hash \in [Key -> HashValue],
           NEW e \in 0 .. n - 1, t[e] = Empty, Unique(n, t), Reachable(n, t), NEW key \in Key
    PROVE  /\ IndexFor(t, key) \in 0 .. n - 1
           /\ \A j \in Used(n, t) : GetKey(t[j]) = key => IndexFor(t, key) = j
           /\ t[IndexFor(t, key)] # Empty => GetKey(t[IndexFor(t, key)]) = key
           /\ \A s \in Before(n, key, IndexFor(t, key)) : t[s] # Empty
  <1>1. ASSUME NEW j \in Used(n, t), GetKey(t[j]) = key
        PROVE  IndexFor(t, key) = j
    BY <1>1, FindsItem DEF Reachable
  <1>2. QED
    BY <1>1, IndexForFinds

\* The table with the item where it belongs.
Inserted(t, x) == [t EXCEPT ![IndexFor(t, GetKey(x))] = x]

LEMMA InsertKeeps ==
    ASSUME NEW n \in Nat \ {0}, NEW t \in Table(n), hash \in [Key -> HashValue],
           NEW e \in 0 .. n - 1, t[e] = Empty, Unique(n, t), Reachable(n, t),
           NEW x \in Item, t[IndexFor(t, GetKey(x))] = Empty
    PROVE  /\ Inserted(t, x) \in Table(n) /\ Unique(n, Inserted(t, x)) /\ Reachable(n, Inserted(t, x))
           /\ \E i \in 0 .. n - 1 : /\ Inserted(t, x)[i] = x /\ i \notin Used(n, t)
                                    /\ Used(n, Inserted(t, x)) = Used(n, t) \cup {i}
           /\ \A j \in Used(n, t) : Inserted(t, x)[j] = t[j] /\ GetKey(t[j]) # GetKey(x)
  <1> DEFINE i == IndexFor(t, GetKey(x))
             u == Inserted(t, x)
  <1>1. GetKey(x) \in Key /\ x # Empty
    BY TableAssumption
  <1>2. /\ i \in 0 .. n - 1 /\ t[i] = Empty
        /\ \A j \in Used(n, t) : GetKey(t[j]) = GetKey(x) => i = j
        /\ \A s \in Before(n, GetKey(x), i) : t[s] # Empty
    BY <1>1, Lookup
  <1> HIDE DEF i
  <1>3. u \in Table(n) /\ u[i] = x /\ \A j \in 0 .. n - 1 : j # i => u[j] = t[j]
    BY <1>2 DEF Table, Inserted, i
  <1> HIDE DEF u
  <1>4. i \notin Used(n, t) /\ Used(n, u) = Used(n, t) \cup {i}
    BY <1>1, <1>2, <1>3 DEF Used
  <1>5. \A j \in Used(n, t) : j # i /\ u[j] = t[j] /\ GetKey(t[j]) # GetKey(x)
    <2>1. Used(n, t) \subseteq 0 .. n - 1
      BY DEF Used
    <2>2. QED
      BY <2>1, <1>2, <1>3, <1>4
  <1>6. Unique(n, u)
    BY <1>3, <1>4, <1>5 DEF Unique
  <1>7. Reachable(n, u)
    <2> SUFFICES ASSUME NEW j \in Used(n, u) PROVE Before(n, GetKey(u[j]), j) \subseteq Used(n, u)
      BY DEF Reachable
    <2>1. CASE j = i
      <3>1. Before(n, GetKey(x), i) \subseteq Used(n, t)
        BY <1>2 DEF Used, Before
      <3>2. QED
        BY <2>1, <3>1, <1>3, <1>4
    <2>2. CASE j # i
      <3>1. j \in Used(n, t)
        BY <2>2, <1>4
      <3>2. QED
        BY <3>1, <1>4, <1>5 DEF Reachable
    <2>3. QED
      BY <2>1, <2>2
  <1>8. QED
    BY <1>2, <1>3, <1>4, <1>5, <1>6, <1>7 DEF u

\* The table with the item of slot j where a search finds it.
Fixed(t, j) == Swap(t, j, IndexFor(t, GetKey(t[j])))

\* What FixCollisionsFrom does with the item in the next slot: the hole moves
\* there, or it hides nothing there.
LEMMA FixKeeps ==
    ASSUME NEW n \in Nat \ {0}, NEW t \in Table(n), hash \in [Key -> HashValue], Unique(n, t),
           NEW o \in 0 .. n - 1, NEW h \in 0 .. n - 1, Hidden(n, t, h, o),
           NEW j \in 0 .. n - 1, j = (o + 1) % n, t[j] # Empty
    PROVE  /\ Fixed(t, j) \in Table(n) /\ Unique(n, Fixed(t, j))
           /\ \/ Used(n, Fixed(t, j)) = Used(n, t)
              \/ /\ j \in Used(n, t) /\ h \notin Used(n, t)
                 /\ Used(n, Fixed(t, j)) = (Used(n, t) \ {j}) \cup {h}
           /\ ItemsOf(n, Fixed(t, j)) = ItemsOf(n, t)
           /\ Hidden(n, Fixed(t, j), h, j) \/ Hidden(n, Fixed(t, j), j, j)
  <1> DEFINE key == GetKey(t[j])
             u == Fixed(t, j)
  <1>1. j \in Used(n, t) /\ j # h /\ h \notin Used(n, t) /\ t[h] = Empty
    BY DEF Used, Hidden
  <1>2. t[j] \in Item /\ key \in Key
    BY <1>1, ItemFacts
  <1>3. Before(n, key, j) \subseteq Used(n, t) \cup {h}
    BY <1>1 DEF Hidden
  <1>4. Ahead(n, h, j) = Ahead(n, h, o) + 1 /\ Ahead(n, h, o) \in Nat /\ Ahead(n, h, j) \in Nat
    BY <1>1, NextSlot, SMT DEF Ahead
  <1>5. CASE h \notin Before(n, key, j)
    <2>1. IndexFor(t, key) = j
      BY <1>1, <1>3, <1>5, FindsItem
    <2>2. u = t
      BY <2>1 DEF Swap, Table, Fixed
    <2>3. ASSUME NEW s \in 0 .. n - 1, 0 < Ahead(n, h, s), Ahead(n, h, s) <= Ahead(n, h, j)
          PROVE  t[s] # Empty
      <3>1. Ahead(n, h, s) \in Nat /\ (Ahead(n, h, s) = Ahead(n, h, j) => s = j)
        BY SMT DEF Ahead
      <3>2. CASE Ahead(n, h, s) <= Ahead(n, h, o)
        BY <2>3, <3>2 DEF Hidden
      <3>3. QED
        BY <2>3, <3>1, <3>2, <1>4
    <2>4. ASSUME NEW i \in Used(n, t), h \in Before(n, GetKey(t[i]), i)
          PROVE  Ahead(n, h, j) < Ahead(n, h, i)
      <3>1. Ahead(n, h, o) < Ahead(n, h, i)
        BY <2>4 DEF Hidden
      <3>2. i \in 0 .. n - 1 /\ i # j
        BY <2>4, <1>5 DEF Used
      <3>3. Ahead(n, h, i) \in Nat /\ Ahead(n, h, i) # Ahead(n, h, j)
        BY <3>2, SMT DEF Ahead
      <3>4. QED
        BY <3>1, <3>3, <1>4
    <2>5. Hidden(n, t, h, j)
      BY <2>3, <2>4 DEF Hidden
    <2>6. QED
      BY <2>2, <2>5
  <1>6. CASE h \in Before(n, key, j)
    <2>1. IndexFor(t, key) = h
      BY <1>1, <1>3, <1>6, FindsHole
    <2>2. u = [t EXCEPT ![j] = t[h], ![h] = t[j]]
      BY <2>1 DEF Swap, Fixed
    <2>3. /\ u \in Table(n) /\ u[j] = Empty /\ u[h] = t[j]
          /\ \A i \in 0 .. n - 1 : i \notin {j, h} => u[i] = t[i]
      BY <2>2, <1>1, <1>2 DEF Table
    <2> HIDE DEF u
    <2>4. Used(n, u) = (Used(n, t) \ {j}) \cup {h}
      BY <2>3, <1>1 DEF Used
    <2> DEFINE f == [i \in 0 .. n - 1 |-> IF i = h THEN j ELSE i]
    <2>5. \A i \in Used(n, u) : f[i] \in Used(n, t) /\ u[i] = t[f[i]]
      BY <2>3, <2>4, <1>1 DEF Used
    <2>6. \A i, k \in Used(n, u) : f[i] = f[k] => i = k
      BY <2>4, <1>1 DEF Used
    <2>7. Unique(n, u)
      <3>1. ASSUME NEW i \in Used(n, u), NEW k \in Used(n, u), GetKey(u[i]) = GetKey(u[k])
            PROVE  i = k
        <4> HIDE DEF f
        <4>1. f[i] = f[k]
          BY <2>5, <3>1 DEF Unique
        <4>2. QED
          BY <4>1, <2>6
      <3>2. QED
        BY <3>1 DEF Unique
    <2>8. ItemsOf(n, u) = ItemsOf(n, t)
      <3>1. ASSUME NEW i \in Used(n, t) PROVE \E k \in Used(n, u) : u[k] = t[i]
        <4>1. CASE i = j
          BY <4>1, <2>3, <2>4
        <4>2. CASE i # j
          <5>1. i \in Used(n, u) /\ i \in 0 .. n - 1 /\ i # h
            BY <4>2, <2>4, <1>1 DEF Used
          <5>2. QED
            BY <5>1, <4>2, <2>3
        <4>3. QED
          BY <4>1, <4>2
      <3> HIDE DEF f
      <3>2. QED
        BY <3>1, <2>5 DEF ItemsOf
    <2>9. Hidden(n, u, j, j)
      <3>1. Ahead(n, j, j) = 0
        BY DEF Ahead
      <3>2. ASSUME NEW i \in Used(n, u)
            PROVE  /\ Before(n, GetKey(u[i]), i) \subseteq Used(n, u) \cup {j}
                   /\ Ahead(n, j, j) < Ahead(n, j, i)
        <4>1. i \in 0 .. n - 1 /\ i # j
          BY <2>4, <1>1 DEF Used
        <4>2. Ahead(n, j, j) < Ahead(n, j, i)
          BY <4>1, <3>1, SMT DEF Ahead
        <4>3. CASE i = h
          <5>1. u[i] = t[j]
            BY <4>3, <2>3
          <5>2. ASSUME NEW s \in Before(n, key, h) PROVE s \in Used(n, u)
            <6>1. s \in 0 .. n - 1
              BY DEF Before
            <6>2. s # h /\ s \in Before(n, key, j) /\ s # j
              BY <6>1, <1>2, <1>6, BeforeFacts
            <6>3. QED
              BY <6>2, <1>3, <2>4
          <5>3. QED
            BY <5>1, <5>2, <4>2, <4>3
        <4>4. CASE i # h
          <5>1. i \in Used(n, t) /\ u[i] = t[i]
            BY <4>1, <4>4, <2>3, <2>4
          <5>2. Before(n, GetKey(t[i]), i) \subseteq Used(n, t) \cup {h}
            BY <5>1 DEF Hidden
          <5>3. QED
            BY <5>1, <5>2, <4>2, <2>4
        <4>5. QED
          BY <4>3, <4>4
      <3>3. \A s \in 0 .. n - 1 : ~(0 < Ahead(n, j, s) /\ Ahead(n, j, s) <= Ahead(n, j, j))
        BY <3>1, SMT DEF Ahead
      <3>4. QED
        BY <3>2, <3>3, <2>3 DEF Hidden
    <2>10. QED
      BY <1>1, <2>3, <2>4, <2>7, <2>8, <2>9 DEF u
  <1>7. QED
    BY <1>5, <1>6

\* When FixCollisionsFrom comes to an empty slot nothing is hidden any more.
LEMMA FixEnds ==
    ASSUME NEW n \in Nat \ {0}, NEW t \in Table(n), hash \in [Key -> HashValue],
           NEW o \in 0 .. n - 1, NEW h \in 0 .. n - 1, Hidden(n, t, h, o),
           NEW j \in 0 .. n - 1, j = (o + 1) % n, t[j] = Empty,
           NEW e \in 0 .. n - 1, e # h, t[e] = Empty
    PROVE  Reachable(n, t)
  <1>1. j # h
    <2> SUFFICES ASSUME j = h PROVE FALSE
      OBVIOUS
    <2>1. Ahead(n, h, o) = n - 1
      BY NextSlot
    <2>2. 0 < Ahead(n, h, e) /\ Ahead(n, h, e) <= n - 1
      BY SMT DEF Ahead
    <2>3. QED
      BY <2>1, <2>2 DEF Hidden
  <1>2. Ahead(n, h, j) = Ahead(n, h, o) + 1
    BY <1>1, NextSlot
  <1>3. ASSUME NEW i \in Used(n, t) PROVE h \notin Before(n, GetKey(t[i]), i)
    <2> SUFFICES ASSUME h \in Before(n, GetKey(t[i]), i) PROVE FALSE
      OBVIOUS
    <2> DEFINE a == Home(n, GetKey(t[i]))
    <2>1. i \in 0 .. n - 1 /\ t[i] # Empty /\ GetKey(t[i]) \in Key
      BY ItemFacts
    <2>2. a \in 0 .. n - 1
      BY <2>1, Wraps, TableAssumption DEF Home
    <2>3. Ahead(n, h, o) < Ahead(n, h, i) /\ Before(n, GetKey(t[i]), i) \subseteq Used(n, t) \cup {h}
      BY DEF Hidden
    <2>4. Ahead(n, a, h) < Ahead(n, a, i)
      BY DEF Before
    <2> HIDE DEF a
    <2>5. i # j
      BY <2>1
    <2>6. Ahead(n, h, o) \in Nat
      BY SMT DEF Ahead
    <2>7. Ahead(n, h, j) < Ahead(n, h, i)
      <3>1. Ahead(n, h, j) # Ahead(n, h, i) /\ Ahead(n, h, i) \in Nat
        BY <2>1, <2>5, SMT DEF Ahead
      <3>2. QED
        BY <3>1, <2>3, <2>6, <1>2
    <2>8. Ahead(n, a, j) < Ahead(n, a, i)
      BY <2>1, <2>2, <2>4, <2>7, SMT DEF Ahead
    <2>9. j \in Before(n, GetKey(t[i]), i)
      BY <2>8 DEF Before, a
    <2>10. QED
      BY <2>9, <2>3, <1>1 DEF Used
  <1>4. QED
    BY <1>3 DEF Hidden, Reachable
-----------------------------------------------------------------------------
(* Counting. *)

LEMMA UsedFinite ==
    ASSUME NEW n \in Nat, NEW t
    PROVE  /\ IsFiniteSet(Used(n, t)) /\ Cardinality(Used(n, t)) \in Nat
           /\ IsFiniteSet(0 .. n - 1) /\ Cardinality(0 .. n - 1) = n
  <1>1. IsFiniteSet(0 .. n - 1) /\ Cardinality(0 .. n - 1) = n
    BY FS_Interval
  <1>2. Used(n, t) \in SUBSET (0 .. n - 1)
    BY DEF Used
  <1>3. QED
    BY <1>1, <1>2, FS_Subset, FS_CardinalityType

LEMMA OneEmpty ==
    ASSUME NEW n \in Nat, NEW t, Cardinality(Used(n, t)) < n
    PROVE  \E e \in 0 .. n - 1 : t[e] = Empty
  <1> SUFFICES ASSUME \A e \in 0 .. n - 1 : t[e] # Empty PROVE FALSE
    OBVIOUS
  <1>1. Used(n, t) = 0 .. n - 1
    BY DEF Used
  <1>2. QED
    BY <1>1, UsedFinite

LEMMA TwoEmpty ==
    ASSUME NEW n \in Nat, NEW t, NEW h \in 0 .. n - 1, Cardinality(Used(n, t)) < n - 1
    PROVE  \E e \in 0 .. n - 1 : e # h /\ t[e] = Empty
  <1> SUFFICES ASSUME \A e \in 0 .. n - 1 : e # h => t[e] # Empty PROVE FALSE
    OBVIOUS
  <1>1. (0 .. n - 1) \ {h} \in SUBSET Used(n, t)
    BY DEF Used
  <1>2. IsFiniteSet(Used(n, t)) /\ IsFiniteSet(0 .. n - 1) /\ Cardinality(0 .. n - 1) = n
        /\ Cardinality(Used(n, t)) \in Nat
    BY UsedFinite
  <1>3. Cardinality((0 .. n - 1) \ {h}) = n - 1
    BY <1>2, FS_RemoveElement, ZenonT(60)
  <1>4. Cardinality((0 .. n - 1) \ {h}) <= Cardinality(Used(n, t))
    BY <1>1, <1>2, FS_Subset
  <1>5. QED
    BY <1>2, <1>3, <1>4

\* As many items as slots in use.
LEMMA ItemsCounted ==
    ASSUME NEW n \in Nat, NEW t \in Table(n), Unique(n, t)
    PROVE  LET S == {t[i] : i \in Used(n, t)}
           IN  /\ S \subseteq Item /\ IsFiniteSet(S) /\ Cardinality(S) = Cardinality(Used(n, t))
               /\ \A x, y \in S : GetKey(x) = GetKey(y) => x = y
  <1> DEFINE S == {t[i] : i \in Used(n, t)}
             f == [i \in Used(n, t) |-> t[i]]
  <1>1. S \subseteq Item
    BY ItemFacts
  <1>2. IsFiniteSet(Used(n, t))
    BY UsedFinite
  <1>3. f \in [Used(n, t) -> S] /\ \A i \in Used(n, t) : f[i] = t[i]
    OBVIOUS
  <1>4. \A i, j \in Used(n, t) : f[i] = f[j] => i = j
    BY <1>3 DEF Unique
  <1>5. \A y \in S : \E i \in Used(n, t) : f[i] = y
    OBVIOUS
  <1> HIDE DEF f, S
  <1>6. f \in Bijection(Used(n, t), S)
    BY <1>3, <1>4, <1>5, Fun_IsBij, Zenon
  <1>7. IsFiniteSet(S) /\ Cardinality(S) = Cardinality(Used(n, t))
    BY <1>2, <1>6, FS_Bijection DEF ExistsBijection
  <1>8. \A x, y \in S : GetKey(x) = GetKey(y) => x = y
    BY DEF Unique, S
  <1>9. QED
    BY <1>1, <1>7, <1>8 DEF S

\* A table has slots to spare: one, and in FixCollisionsFrom a second one.
LEMMA Spare ==
    ASSUME TableTyped, LoopsEnd, NEW n \in Nat, Sound(n)
    PROVE  /\ n \in Nat \ {0} /\ Size(items) = n /\ DOMAIN items = 0 .. n - 1 /\ Taken = Used(n, items)
           /\ 2 * maxItems <= n
           /\ \E e \in 0 .. n - 1 : items[e] = Empty
           /\ doing = "FixCollisionsFrom" =>
                 \A h \in 0 .. n - 1 : \E e \in 0 .. n - 1 : e # h /\ items[e] = Empty
  <1>1. Size(items) = n /\ DOMAIN items = 0 .. n - 1
    BY SizeOf DEF Sound, Table
  <1>2. Taken = Used(n, items)
    BY <1>1 DEF Taken, Used
  <1>3. 2 * maxItems <= n /\ maxItems \in Nat \ {0} /\ numItems <= maxItems /\ numItems \in Nat
    BY <1>1 DEF LoopsEnd, TableTyped
  <1>4. /\ Cardinality(Used(n, items)) \in Nat
        /\ numItems = Cardinality(Used(n, items)) + (IF doing = "FixCollisionsFrom" THEN 1 ELSE 0)
    BY <1>2, UsedFinite DEF LoopsEnd
  <1>5. n \in Nat \ {0} /\ Cardinality(Used(n, items)) < n
    BY <1>3, <1>4
  <1>6. \E e \in 0 .. n - 1 : items[e] = Empty
    BY <1>5, OneEmpty
  <1>7. ASSUME doing = "FixCollisionsFrom", NEW h \in 0 .. n - 1
        PROVE  \E e \in 0 .. n - 1 : e # h /\ items[e] = Empty
    <2>1. Cardinality(Used(n, items)) < n - 1
      BY <1>3, <1>4, <1>7
    <2>2. QED
      BY <2>1, TwoEmpty
  <1>8. QED
    BY <1>1, <1>2, <1>3, <1>5, <1>6, <1>7

\* What Add does, of a table with room.
LEMMA InsertStep ==
    ASSUME TableTyped, LoopsEnd, NEW n \in Nat, Sound(n), doing # "FixCollisionsFrom",
           NEW x \in Item, Insert(x)
    PROVE  LET S == {items[i] : i \in Used(n, items)}
               y == items[IndexFor(items, GetKey(x))]
           IN  /\ items' \in Table(n) /\ Unique(n, items') /\ Reachable(n, items')
               /\ numItems' = Cardinality(Used(n, items'))
               /\ y \in S => /\ GetKey(y) = GetKey(x) /\ items' = items /\ numItems' = numItems
               /\ y \notin S => /\ y = Empty /\ \A z \in S : GetKey(z) # GetKey(x)
                                /\ {items'[i] : i \in Used(n, items')} = S \cup {x}
                                /\ numItems' = numItems + 1
               /\ \A i \in Used(n, items') :
                     (i \in Used(n, items) /\ items'[i] = items[i]) \/ items'[i] = x
  <1> DEFINE S == {items[i] : i \in Used(n, items)}
             i == IndexFor(items, GetKey(x))
             y == items[i]
  <1>1. /\ n \in Nat \ {0} /\ Taken = Used(n, items)
        /\ items \in Table(n) /\ Unique(n, items) /\ Reachable(n, items) /\ hash \in [Key -> HashValue]
    BY Spare DEF Sound, TableTyped
  <1>2. PICK e \in 0 .. n - 1 : items[e] = Empty
    BY Spare
  <1>3. numItems = Cardinality(Used(n, items)) /\ IsFiniteSet(Used(n, items))
    BY <1>1, UsedFinite DEF LoopsEnd
  <1>4. GetKey(x) \in Key /\ x # Empty
    BY TableAssumption
  <1>5. i \in 0 .. n - 1 /\ (y # Empty => GetKey(y) = GetKey(x))
    BY <1>1, <1>2, <1>4, Lookup
  <1>6. CASE y # Empty
    <2>1. i \in Used(n, items)
      BY <1>5, <1>6 DEF Used
    <2>2. y \in S /\ items' = items /\ numItems' = numItems
      BY <2>1, <1>6 DEF Insert
    <2>3. QED
      BY <2>2, <1>1, <1>3, <1>5, <1>6
  <1>7. CASE y = Empty
    <2> DEFINE u == Inserted(items, x)
    <2>1. items' = u /\ numItems' = numItems + 1
      BY <1>7 DEF Insert, Inserted
    <2>2. /\ u \in Table(n) /\ Unique(n, u) /\ Reachable(n, u)
          /\ \E k \in 0 .. n - 1 : u[k] = x /\ k \notin Used(n, items) /\ Used(n, u) = Used(n, items) \cup {k}
          /\ \A j \in Used(n, items) : u[j] = items[j] /\ GetKey(items[j]) # GetKey(x)
      BY <1>1, <1>2, <1>7, InsertKeeps
    <2> HIDE DEF u
    <2>3. Cardinality(Used(n, u)) = Cardinality(Used(n, items)) + 1
      BY <2>2, <1>3, FS_AddElement
    <2>4. {u[j] : j \in Used(n, u)} = S \cup {x}
      BY <2>2
    <2>5. y \notin S
      BY <1>7, <1>1, ItemFacts
    <2>6. QED
      BY <2>1, <2>2, <2>3, <2>4, <2>5, <1>3, <1>7
  <1>8. QED
    BY <1>6, <1>7

LEMMA FreshTable ==
    ASSUME NEW n \in Nat
    PROVE  /\ AllocTable(n) \in Table(n) /\ Used(n, AllocTable(n)) = {}
           /\ Unique(n, AllocTable(n)) /\ Reachable(n, AllocTable(n))
           /\ \A s \in 0 .. n - 1 : AllocTable(n)[s] = Empty
           /\ Size(AllocTable(n)) = n /\ Cardinality({i \in DOMAIN AllocTable(n) : AllocTable(n)[i] # Empty}) = 0
  <1>1. AllocTable(n) \in Table(n) /\ \A s \in 0 .. n - 1 : AllocTable(n)[s] = Empty
    BY DEF AllocTable, Table
  <1>2. Size(AllocTable(n)) = n /\ DOMAIN AllocTable(n) = 0 .. n - 1
    BY <1>1, SizeOf DEF Table
  <1>3. Used(n, AllocTable(n)) = {} /\ {i \in DOMAIN AllocTable(n) : AllocTable(n)[i] # Empty} = {}
    BY <1>1, <1>2 DEF Used
  <1>4. QED
    BY <1>1, <1>2, <1>3, FS_EmptySet DEF Unique, Reachable
-----------------------------------------------------------------------------
(* The invariant, action by action. *)

LEMMA InTable ==
    ASSUME NEW n \in Nat, NEW t \in Table(n)
    PROVE  Size(t) = n /\ {i \in DOMAIN t : t[i] # Empty} = Used(n, t)
  <1>1. Size(t) = n /\ DOMAIN t = 0 .. n - 1
    BY SizeOf DEF Table
  <1>2. QED
    BY <1>1 DEF Used

LEMMA InitKeeps ==
    ASSUME TableInit
    PROVE  TableInv
  <1> DEFINE n == 2 * maxItems
  <1>1. maxItems \in Nat \ {0} /\ n \in Nat
    BY TableAssumption DEF TableInit
  <1>2. items = AllocTable(n) /\ numItems = 0 /\ doing = "nothing"
    BY DEF TableInit
  <1> HIDE DEF n
  <1>3. /\ items \in Table(n) /\ Unique(n, items) /\ Reachable(n, items)
        /\ Size(items) = n /\ Cardinality(Taken) = 0
    BY <1>1, <1>2, FreshTable DEF Taken
  <1>4. TableTyped
    BY <1>1, <1>2 DEF TableTyped, TableInit
  <1>5. LoopsEnd
    BY <1>1, <1>2, <1>3 DEF LoopsEnd, n
  <1>6. Sound(n)
    BY <1>1, <1>2, <1>3 DEF Sound
  <1>7. QED
    BY <1>1, <1>4, <1>5, <1>6 DEF TableInv

\* Steps that leave the table alone.
LEMMA IdleKeeps ==
    ASSUME TableInv, UNCHANGED <<hash, canResize, items, numItems, maxItems, doing, inItem, oldIndex, oldItems>>
    PROVE  TableInv'
  <1>1. TableTyped'
    BY DEF TableInv, TableTyped
  <1>2. LoopsEnd'
    BY DEF TableInv, LoopsEnd, Taken
  <1>3. PICK n \in Nat : Sound(n)
    BY DEF TableInv
  <1>4. \A m : Moving(n, m) => Moving(n, m)'
    BY DEF Moving, Unique
  <1>5. Unique(n, items)' /\ (Reachable(n, items) => Reachable(n, items)')
    BY <1>3 DEF Sound, Unique, Reachable, Before, Home
  <1>6. \A h : Hidden(n, items, h, oldIndex) => Hidden(n, items, h, oldIndex)'
    BY DEF Hidden, Before, Home
  <1>7. Sound(n)'
    BY <1>3, <1>4, <1>5, <1>6 DEF Sound
  <1>8. QED
    BY <1>1, <1>2, <1>7 DEF TableInv

LEMMA AddKeeps ==
    ASSUME TableInv, NEW x \in Item, Add(x)
    PROVE  TableInv'
  <1>1. PICK n \in Nat : Sound(n)
    BY DEF TableInv
  <1>2. /\ TableTyped /\ LoopsEnd /\ doing = "nothing" /\ doing' = "nothing" /\ Insert(x) /\ numItems < maxItems
        /\ UNCHANGED <<hash, canResize, maxItems>>
    BY DEF TableInv, Add, Full, TableTyped
  <1>3. /\ items' \in Table(n) /\ Unique(n, items') /\ Reachable(n, items')
        /\ numItems' = Cardinality(Used(n, items')) /\ numItems' \in {numItems, numItems + 1}
    BY <1>1, <1>2, InsertStep
  <1>4. Size(items') = n /\ Taken' = Used(n, items') /\ numItems' \in Nat
    BY <1>2, <1>3, InTable DEF Taken, TableTyped
  <1>5. 2 * maxItems <= n
    BY <1>1, <1>2, Spare
  <1>6. TableTyped'
    BY <1>2, <1>4 DEF TableTyped
  <1>7. LoopsEnd'
    BY <1>2, <1>3, <1>4, <1>5 DEF LoopsEnd, TableTyped
  <1>8. Sound(n)'
    <2>1. Reachable(n, items)'
      BY <1>2, <1>3 DEF Reachable, Before, Home
    <2>2. Unique(n, items)'
      BY <1>3 DEF Unique
    <2>3. QED
      BY <2>1, <2>2, <1>2, <1>3 DEF Sound
  <1>9. QED
    BY <1>6, <1>7, <1>8 DEF TableInv

LEMMA MakeEmptyKeeps ==
    ASSUME TableInv, MakeEmpty
    PROVE  TableInv'
  <1>1. PICK n \in Nat : Sound(n)
    BY DEF TableInv
  <1>2. /\ TableTyped /\ LoopsEnd /\ doing' = "nothing" /\ numItems' = 0
        /\ UNCHANGED <<hash, canResize, maxItems>>
    BY DEF TableInv, MakeEmpty
  <1>3. Size(items) = n /\ 2 * maxItems <= n
    BY <1>1, <1>2, Spare
  <1>4. items' = AllocTable(n)
    BY <1>3 DEF MakeEmpty
  <1>5. /\ items' \in Table(n) /\ Unique(n, items)' /\ Used(n, items') = {}
        /\ Size(items') = n /\ Cardinality(Taken') = 0
    BY <1>4, FreshTable DEF Taken
  <1>6. Reachable(n, items)'
    BY <1>5 DEF Reachable
  <1>7. TableTyped'
    BY <1>2 DEF TableTyped
  <1>8. LoopsEnd'
    BY <1>2, <1>3, <1>5 DEF LoopsEnd, TableTyped
  <1>9. Sound(n)'
    BY <1>2, <1>5, <1>6 DEF Sound
  <1>10. QED
    BY <1>7, <1>8, <1>9 DEF TableInv

LEMMA ResizeKeeps ==
    ASSUME TableInv, NEW x \in Item, Resize(x)
    PROVE  TableInv'
  <1>1. PICK m \in Nat : Sound(m)
    BY DEF TableInv
  <1>2. /\ TableTyped /\ LoopsEnd /\ doing' = "Resize" /\ numItems' = 0 /\ inItem' = x /\ oldIndex' = 0
        /\ oldItems' = items /\ canResize /\ UNCHANGED <<hash, canResize>>
    BY DEF TableInv, Resize
  <1>3. Size(items) = m /\ m \in Nat \ {0} /\ \E e \in 0 .. m - 1 : items[e] = Empty
    BY <1>1, <1>2, Spare
  <1>4. PICK n \in Nat : n >= 2 * m /\ items' = AllocTable(n) /\ maxItems' = n \div 2
    BY <1>3, TableAssumption DEF Resize
  <1>5. maxItems' \in Nat \ {0} /\ m <= maxItems' /\ 2 * maxItems' <= n
    BY <1>3, <1>4
  <1>6. /\ items' \in Table(n) /\ Unique(n, items)' /\ Used(n, items') = {}
        /\ Size(items') = n /\ Cardinality(Taken') = 0
    BY <1>4, FreshTable DEF Taken
  <1>7. Reachable(n, items)'
    BY <1>6 DEF Reachable
  <1>8. TableTyped'
    BY <1>2, <1>5 DEF TableTyped
  <1>9. LoopsEnd'
    <2>1. numItems' = Cardinality(Taken') + (IF doing' = "FixCollisionsFrom" THEN 1 ELSE 0)
      BY <1>2, <1>6
    <2>2. numItems' <= maxItems' /\ 2 * maxItems' <= Size(items')
      <3>1. numItems' = 0 /\ Size(items') = n
        BY <1>2, <1>6
      <3>2. 0 <= maxItems'
        BY <1>5
      <3>3. QED
        BY <3>1, <3>2, <1>5, Zenon
    <2>3. QED
      BY <2>1, <2>2 DEF LoopsEnd
  <1>10. Moving(n, m)'
    <2>1. oldItems' \in Table(m) /\ Unique(m, oldItems)'
      BY <1>1, <1>2 DEF Sound, Unique
    <2>2. PICK e \in 0 .. m - 1 : oldItems'[e] = Empty
      BY <1>2, <1>3
    <2>3. numItems' <= IF e < oldIndex' THEN oldIndex' - 1 ELSE oldIndex'
      BY <1>2
    <2>4. QED
      BY <2>1, <2>2, <2>3, <1>2, <1>3, <1>5, <1>6 DEF Moving
  <1>11. Sound(n)'
    BY <1>2, <1>4, <1>6, <1>7, <1>10 DEF Sound
  <1>12. QED
    BY <1>4, <1>8, <1>9, <1>11 DEF TableInv

LEMMA ResizeAddKeeps ==
    ASSUME TableInv, ResizeAdd
    PROVE  TableInv'
  <1>1. PICK n \in Nat : Sound(n)
    BY DEF TableInv
  <1>2. /\ TableTyped /\ LoopsEnd /\ doing = "Resize" /\ doing' = "Resize" /\ inItem \in Item
        /\ oldIndex' = oldIndex + 1
        /\ UNCHANGED <<hash, canResize, maxItems, inItem, oldItems>>
    BY <1>1 DEF TableInv, ResizeAdd, Sound
  <1>3. PICK m \in Nat : Moving(n, m)
    BY <1>1, <1>2 DEF Sound
  <1>4. Size(oldItems) = m /\ oldIndex \in 0 .. m - 1 /\ m <= maxItems /\ maxItems \in Nat /\ numItems \in Nat
    BY <1>2, <1>3, InTable DEF Moving, ResizeAdd, TableTyped
  <1>5. 2 * maxItems <= n
    BY <1>1, <1>2, Spare
  <1>6. /\ items' \in Table(n) /\ Unique(n, items') /\ Reachable(n, items')
        /\ numItems' = Cardinality(Used(n, items')) /\ numItems' \in {numItems, numItems + 1}
        /\ oldItems[oldIndex] = Empty => numItems' = numItems
        /\ \A i \in Used(n, items') :
              \/ i \in Used(n, items) /\ items'[i] = items[i]
              \/ oldItems[oldIndex] # Empty /\ items'[i] = oldItems[oldIndex]
    <2>1. CASE oldItems[oldIndex] = Empty
      <3>1. UNCHANGED <<items, numItems>>
        BY <2>1 DEF ResizeAdd
      <3>2. Taken = Used(n, items)
        BY <1>1, <1>2, Spare
      <3>3. numItems = Cardinality(Used(n, items))
        BY <3>2, <1>2, UsedFinite DEF LoopsEnd
      <3>4. QED
        BY <3>1, <3>3, <1>1, <1>2 DEF Sound
    <2>2. CASE oldItems[oldIndex] # Empty
      <3>1. oldItems[oldIndex] \in Item
        BY <2>2, <1>3, <1>4 DEF Moving, Table
      <3>2. Insert(oldItems[oldIndex])
        BY <2>2 DEF ResizeAdd
      <3>3. QED
        BY <3>1, <3>2, <2>2, <1>1, <1>2, InsertStep
    <2>3. QED
      BY <2>1, <2>2
  <1>7. Size(items') = n /\ Taken' = Used(n, items') /\ numItems' \in Nat
    BY <1>4, <1>6, InTable DEF Taken
  <1>8. PICK e \in 0 .. m - 1 : oldItems[e] = Empty /\ numItems <= IF e < oldIndex THEN oldIndex - 1 ELSE oldIndex
    BY <1>3 DEF Moving
  <1>9. numItems' <= IF e < oldIndex' THEN oldIndex' - 1 ELSE oldIndex'
    <2>1. CASE e = oldIndex
      BY <2>1, <1>2, <1>4, <1>6, <1>8
    <2>2. CASE e # oldIndex
      BY <2>2, <1>2, <1>4, <1>6, <1>8
    <2>3. QED
      BY <2>1, <2>2
  <1>10. numItems' <= maxItems
    BY <1>2, <1>4, <1>7, <1>9
  <1>11. TableTyped'
    BY <1>2, <1>7 DEF TableTyped
  <1>12. LoopsEnd'
    BY <1>2, <1>5, <1>6, <1>7, <1>10 DEF LoopsEnd
  <1>13. Moving(n, m)'
    <2>1. oldItems' \in Table(m) /\ Unique(m, oldItems)' /\ oldIndex' \in 0 .. m
      BY <1>2, <1>3, <1>4 DEF Moving, Unique
    <2>2. ASSUME NEW i \in Used(n, items'), NEW j \in Used(m, oldItems'), oldIndex' <= j
          PROVE  GetKey(items'[i]) # GetKey(oldItems'[j])
      <3>1. j \in Used(m, oldItems) /\ j \in 0 .. m - 1 /\ oldIndex <= j /\ j # oldIndex
        BY <2>2, <1>2, <1>4 DEF Used
      <3>2. CASE i \in Used(n, items) /\ items'[i] = items[i]
        BY <3>1, <3>2, <1>2, <1>3 DEF Moving
      <3>3. CASE oldItems[oldIndex] # Empty /\ items'[i] = oldItems[oldIndex]
        <4>1. oldIndex \in Used(m, oldItems)
          BY <3>3, <1>4 DEF Used
        <4>2. QED
          BY <4>1, <3>1, <3>3, <1>2, <1>3 DEF Moving, Unique
      <3>4. QED
        BY <3>2, <3>3, <1>6
    <2>3. QED
      BY <2>1, <2>2, <1>2, <1>4, <1>8, <1>9 DEF Moving
  <1>14. Sound(n)'
    <2>1. Reachable(n, items)' /\ Unique(n, items)'
      BY <1>2, <1>6 DEF Reachable, Before, Home, Unique
    <2>2. canResize
      BY <1>1, <1>2 DEF Sound
    <2>3. QED
      BY <2>1, <2>2, <1>2, <1>6, <1>13 DEF Sound
  <1>15. QED
    BY <1>11, <1>12, <1>14 DEF TableInv

\* After Resize there is room for the item.
LEMMA Room ==
    ASSUME TableInv, doing = "Resize", oldIndex = Size(oldItems)
    PROVE  numItems < maxItems
  <1>1. PICK n \in Nat : Sound(n)
    BY DEF TableInv
  <1>2. PICK m \in Nat : Moving(n, m)
    BY <1>1 DEF Sound
  <1>3. Size(oldItems) = m /\ m <= maxItems /\ maxItems \in Nat /\ numItems \in Nat
    BY <1>2, InTable DEF Moving, TableInv, TableTyped
  <1>4. PICK e \in 0 .. m - 1 : numItems <= IF e < oldIndex THEN oldIndex - 1 ELSE oldIndex
    BY <1>2 DEF Moving
  <1>5. QED
    BY <1>3, <1>4

LEMMA AddAfterResizeKeeps ==
    ASSUME TableInv, AddAfterResize
    PROVE  TableInv'
  <1>1. PICK n \in Nat : Sound(n)
    BY DEF TableInv
  <1>2. /\ TableTyped /\ LoopsEnd /\ doing = "Resize" /\ doing' = "nothing" /\ inItem \in Item
        /\ Insert(inItem) /\ UNCHANGED <<hash, canResize, maxItems>>
    BY <1>1 DEF TableInv, AddAfterResize, Sound, Idle
  <1>3. numItems < maxItems
    BY Room DEF AddAfterResize
  <1>4. /\ items' \in Table(n) /\ Unique(n, items') /\ Reachable(n, items')
        /\ numItems' = Cardinality(Used(n, items')) /\ numItems' \in {numItems, numItems + 1}
    BY <1>1, <1>2, InsertStep
  <1>5. Size(items') = n /\ Taken' = Used(n, items') /\ numItems' \in Nat
    BY <1>2, <1>4, InTable DEF Taken, TableTyped
  <1>6. 2 * maxItems <= n
    BY <1>1, <1>2, Spare
  <1>7. TableTyped'
    BY <1>2, <1>5 DEF TableTyped
  <1>8. LoopsEnd'
    BY <1>2, <1>3, <1>4, <1>5, <1>6 DEF LoopsEnd, TableTyped
  <1>9. Sound(n)'
    <2>1. Reachable(n, items)' /\ Unique(n, items)'
      BY <1>2, <1>4 DEF Reachable, Before, Home, Unique
    <2>2. QED
      BY <2>1, <1>2, <1>4 DEF Sound
  <1>10. QED
    BY <1>7, <1>8, <1>9 DEF TableInv

LEMMA RemoveKeeps ==
    ASSUME TableInv, NEW x \in Item, Remove(x)
    PROVE  TableInv'
  <1>1. PICK n \in Nat : Sound(n)
    BY DEF TableInv
  <1> DEFINE k == IndexFor(items, GetKey(x))
  <1>2. /\ TableTyped /\ LoopsEnd /\ doing = "nothing" /\ doing' = "FixCollisionsFrom" /\ inItem' = x
        /\ items[k] = x /\ oldIndex' = k /\ items' = [items EXCEPT ![k] = Empty]
        /\ UNCHANGED <<hash, canResize, numItems, maxItems>>
    BY <1>1 DEF TableInv, Remove
  <1>3. n \in Nat \ {0} /\ Size(items) = n /\ Taken = Used(n, items) /\ 2 * maxItems <= n
        /\ items \in Table(n) /\ Unique(n, items) /\ Reachable(n, items) /\ hash \in [Key -> HashValue]
    BY <1>1, <1>2, Spare DEF Sound, TableTyped
  <1>4. GetKey(x) \in Key /\ x # Empty
    BY TableAssumption
  <1>5. k \in 0 .. n - 1
    <2>1. PICK e \in 0 .. n - 1 : items[e] = Empty
      BY <1>1, <1>2, Spare
    <2>2. QED
      BY <2>1, <1>3, <1>4, IndexForFinds
  <1>6. PICK i \in 0 .. n - 1 : i = k
    BY <1>5
  <1> HIDE DEF k
  <1>7. /\ items' \in Table(n) /\ items'[i] = Empty /\ \A j \in 0 .. n - 1 : j # i => items'[j] = items[j]
    BY <1>2, <1>3, <1>6 DEF Table
  <1>8. i \in Used(n, items) /\ Used(n, items') = Used(n, items) \ {i}
    BY <1>2, <1>4, <1>6, <1>7 DEF Used
  <1>9. \A j \in Used(n, items') : j \in Used(n, items) /\ j # i /\ items'[j] = items[j]
    BY <1>7, <1>8 DEF Used
  <1>10. Cardinality(Used(n, items')) = Cardinality(Used(n, items)) - 1 /\ Cardinality(Used(n, items)) \in Nat
    BY <1>8, UsedFinite, FS_RemoveElement, ZenonT(60)
  <1>11. Size(items') = n /\ Taken' = Used(n, items')
    BY <1>7, InTable DEF Taken
  <1>12. TableTyped'
    BY <1>2 DEF TableTyped
  <1>13. LoopsEnd'
    BY <1>2, <1>3, <1>10, <1>11 DEF LoopsEnd
  <1>14. Unique(n, items')
    BY <1>3, <1>9 DEF Unique
  <1>15. \A j \in Used(n, items') : GetKey(items'[j]) # GetKey(inItem')
    BY <1>2, <1>3, <1>6, <1>8, <1>9 DEF Unique
  <1>16. Hidden(n, items, i, i)'
    <2>1. Ahead(n, i, i) = 0 /\ \A s \in 0 .. n - 1 : s # i => 0 < Ahead(n, i, s)
      BY <1>3, SMT DEF Ahead
    <2>2. \A j \in Used(n, items') : /\ Before(n, GetKey(items'[j]), j) \subseteq Used(n, items') \cup {i}
                                     /\ Ahead(n, i, i) < Ahead(n, i, j)
      <3>1. Used(n, items') \subseteq 0 .. n - 1
        BY DEF Used
      <3>2. QED
        BY <3>1, <2>1, <1>3, <1>8, <1>9 DEF Reachable
    <2>3. \A key, j : Before(n, key, j)' = Before(n, key, j)
      BY <1>2 DEF Before, Home
    <2>4. \A s \in 0 .. n - 1 : ~(0 < Ahead(n, i, s) /\ Ahead(n, i, s) <= Ahead(n, i, i))
      BY <2>1, SMT DEF Ahead
    <2>5. QED
      BY <2>2, <2>3, <2>4, <1>7 DEF Hidden
  <1>17. Sound(n)'
    <2>1. oldIndex' = i /\ oldIndex' \in 0 .. n - 1
      BY <1>2, <1>6
    <2>2. \E h \in 0 .. n - 1 : Hidden(n, items, h, oldIndex)'
      BY <1>16, <2>1 DEF Hidden
    <2>3. Unique(n, items)'
      BY <1>14 DEF Unique
    <2>4. QED
      BY <2>1, <2>2, <2>3, <1>2, <1>7, <1>15 DEF Sound
  <1>18. QED
    BY <1>12, <1>13, <1>17 DEF TableInv

LEMMA FixCollisionKeeps ==
    ASSUME TableInv, FixCollision
    PROVE  /\ TableInv'
           /\ {items'[i] : i \in Taken'} = {items[i] : i \in Taken}
  <1>1. PICK n \in Nat : Sound(n)
    BY DEF TableInv
  <1>2. /\ TableTyped /\ LoopsEnd /\ doing = "FixCollisionsFrom" /\ doing' = "FixCollisionsFrom"
        /\ items[NextIndex] # Empty /\ oldIndex' = NextIndex
        /\ items' = Swap(items, NextIndex, IndexFor(items, GetKey(items[NextIndex])))
        /\ UNCHANGED <<hash, canResize, numItems, maxItems, inItem>>
    BY DEF TableInv, FixCollision
  <1>3. n \in Nat \ {0} /\ Size(items) = n /\ Taken = Used(n, items) /\ 2 * maxItems <= n
        /\ items \in Table(n) /\ Unique(n, items) /\ oldIndex \in 0 .. n - 1 /\ hash \in [Key -> HashValue]
    BY <1>1, <1>2, Spare DEF Sound, TableTyped
  <1>4. PICK h \in 0 .. n - 1 : Hidden(n, items, h, oldIndex)
    BY <1>1, <1>2 DEF Sound
  <1>5. PICK j \in 0 .. n - 1 : j = (oldIndex + 1) % n /\ j = NextIndex
    BY <1>3, NextSlot DEF NextIndex
  <1>6. items[j] # Empty /\ items' = Fixed(items, j)
    BY <1>2, <1>5 DEF Fixed
  <1>7. /\ items' \in Table(n) /\ Unique(n, items')
        /\ Used(n, items') = Used(n, items)
              \/ (j \in Used(n, items) /\ h \notin Used(n, items) /\ Used(n, items') = (Used(n, items) \ {j}) \cup {h})
        /\ ItemsOf(n, items') = ItemsOf(n, items)
        /\ Hidden(n, items', h, j) \/ Hidden(n, items', j, j)
    <2> DEFINE u == Fixed(items, j)
    <2>1. /\ u \in Table(n) /\ Unique(n, u)
          /\ \/ Used(n, u) = Used(n, items)
             \/ /\ j \in Used(n, items) /\ h \notin Used(n, items)
                /\ Used(n, u) = (Used(n, items) \ {j}) \cup {h}
          /\ ItemsOf(n, u) = ItemsOf(n, items)
          /\ Hidden(n, u, h, j) \/ Hidden(n, u, j, j)
      BY <1>3, <1>4, <1>5, <1>6, FixKeeps, SMTT(60)
    <2> HIDE DEF u
    <2>2. items' = u
      BY <1>6 DEF u
    <2>3. QED
      BY <2>1, <2>2, Zenon
  <1>8. Size(items') = n /\ Taken' = Used(n, items')
    BY <1>7, InTable DEF Taken
  <1>9. Cardinality(Used(n, items')) = Cardinality(Used(n, items))
    <2>1. CASE j \in Used(n, items) /\ h \notin Used(n, items) /\ Used(n, items') = (Used(n, items) \ {j}) \cup {h}
      <3>1. IsFiniteSet(Used(n, items)) /\ Cardinality(Used(n, items)) \in Nat
        BY UsedFinite
      <3>2. IsFiniteSet(Used(n, items) \ {j}) /\ Cardinality(Used(n, items) \ {j}) = Cardinality(Used(n, items)) - 1
        BY <2>1, <3>1, FS_RemoveElement
      <3>3. Cardinality((Used(n, items) \ {j}) \cup {h}) = Cardinality(Used(n, items) \ {j}) + 1
        BY <2>1, <3>2, FS_AddElement
      <3>4. QED
        BY <2>1, <3>1, <3>2, <3>3
    <2>2. QED
      BY <2>1, <1>7
  <1>10. TableTyped'
    BY <1>2 DEF TableTyped
  <1>11. LoopsEnd'
    BY <1>2, <1>3, <1>8, <1>9 DEF LoopsEnd
  <1>12. \A key, i : Before(n, key, i)' = Before(n, key, i)
    BY <1>2 DEF Before, Home
  <1>13. \E g \in 0 .. n - 1 : Hidden(n, items, g, oldIndex)'
    <2>1. PICK g \in 0 .. n - 1 : Hidden(n, items', g, j)
      BY <1>7
    <2>2. oldIndex' = j
      BY <1>2, <1>5
    <2>3. Hidden(n, items, g, oldIndex)'
      BY <2>1, <2>2, <1>12 DEF Hidden
    <2>4. QED
      BY <2>3
  <1>14. \A i \in Used(n, items') : GetKey(items'[i]) # GetKey(inItem')
    <2>1. \A i \in Used(n, items) : GetKey(items[i]) # GetKey(inItem)
      BY <1>1, <1>2 DEF Sound
    <2>2. \A i \in Used(n, items') : \E k \in Used(n, items) : items'[i] = items[k]
      BY <1>7 DEF ItemsOf
    <2>3. QED
      BY <2>1, <2>2, <1>2
  <1>15. Sound(n)'
    <2>1. oldIndex' = j /\ inItem' \in Item
      BY <1>1, <1>2, <1>5 DEF Sound
    <2>2. Unique(n, items)'
      BY <1>7 DEF Unique
    <2>3. QED
      BY <2>1, <2>2, <1>2, <1>7, <1>13, <1>14 DEF Sound
  <1>16. QED
    BY <1>3, <1>7, <1>8, <1>10, <1>11, <1>15 DEF TableInv, ItemsOf

LEMMA RemoveEndKeeps ==
    ASSUME TableInv, RemoveEnd
    PROVE  TableInv'
  <1>1. PICK n \in Nat : Sound(n)
    BY DEF TableInv
  <1>2. /\ TableTyped /\ LoopsEnd /\ doing = "FixCollisionsFrom" /\ doing' = "nothing"
        /\ items[NextIndex] = Empty /\ numItems' = numItems - 1
        /\ UNCHANGED <<hash, canResize, items, maxItems>>
    BY DEF TableInv, RemoveEnd, Idle
  <1>3. n \in Nat \ {0} /\ Size(items) = n /\ Taken = Used(n, items) /\ 2 * maxItems <= n
        /\ items \in Table(n) /\ Unique(n, items) /\ oldIndex \in 0 .. n - 1 /\ hash \in [Key -> HashValue]
    BY <1>1, <1>2, Spare DEF Sound, TableTyped
  <1>4. PICK h \in 0 .. n - 1 : Hidden(n, items, h, oldIndex)
    BY <1>1, <1>2 DEF Sound
  <1>5. PICK j \in 0 .. n - 1 : j = (oldIndex + 1) % n /\ j = NextIndex
    BY <1>3, NextSlot DEF NextIndex
  <1>6. PICK e \in 0 .. n - 1 : e # h /\ items[e] = Empty
    BY <1>1, <1>2, Spare
  <1>7. Reachable(n, items)
    BY <1>2, <1>3, <1>4, <1>5, <1>6, FixEnds
  <1>8. numItems = Cardinality(Used(n, items)) + 1 /\ Cardinality(Used(n, items)) \in Nat
    BY <1>2, <1>3, UsedFinite DEF LoopsEnd
  <1>9. Taken' = Used(n, items')
    BY <1>2, <1>3 DEF Taken
  <1>10. TableTyped'
    BY <1>2, <1>8 DEF TableTyped
  <1>11. LoopsEnd'
    BY <1>2, <1>3, <1>8, <1>9 DEF LoopsEnd, TableTyped
  <1>12. Reachable(n, items)' /\ Unique(n, items)'
    BY <1>2, <1>3, <1>7 DEF Reachable, Before, Home, Unique
  <1>13. Sound(n)'
    BY <1>2, <1>3, <1>12 DEF Sound
  <1>14. QED
    BY <1>10, <1>11, <1>13 DEF TableInv

LEMMA NextKeeps ==
    ASSUME TableInv, [TableNext]_tableVars
    PROVE  TableInv'
  <1>1. ASSUME NEW x \in Item, AddRefused(x) \/ RemoveRefused(x)
        PROVE  TableInv'
    BY <1>1, IdleKeeps DEF AddRefused, RemoveRefused
  <1>2. ASSUME NEW key \in Key, Get(key)
        PROVE  TableInv'
    BY <1>2, IdleKeeps DEF Get
  <1>3. CASE UNCHANGED tableVars
    BY <1>3, IdleKeeps DEF tableVars
  <1>4. QED
    BY <1>1, <1>2, <1>3, AddKeeps, ResizeKeeps, RemoveKeeps, ResizeAddKeeps, AddAfterResizeKeeps,
       FixCollisionKeeps, RemoveEndKeeps, MakeEmptyKeeps DEF TableNext

\* The counts are right, and there is always an empty slot for the loops of
\* IndexFor and FixCollisionsFrom to end at, in Resize and Remove too.
THEOREM LoopsAlwaysEnd == TableSpec => []LoopsEnd
  <1>1. TableInit => TableInv
    BY InitKeeps
  <1>2. TableInv /\ [TableNext]_tableVars => TableInv'
    BY NextKeeps
  <1>3. TableInv => LoopsEnd
    BY DEF TableInv
  <1>4. QED
    BY <1>1, <1>2, <1>3, PTL DEF TableSpec
-----------------------------------------------------------------------------
(* The table is the set with keys. *)

Capacity == IF canResize THEN Cardinality(Item) + 1 ELSE maxItems

\* What a search finds tells what is in the table.
LEMMA Found ==
    ASSUME TableInv, NEW n \in Nat, Sound(n), doing # "FixCollisionsFrom", NEW key \in Key
    PROVE  LET y == items[IndexFor(items, key)]
           IN  /\ y = Empty \/ (y \in ItemsOf(n, items) /\ GetKey(y) = key /\ y \in Item)
               /\ \A z \in ItemsOf(n, items) : z # Empty /\ (GetKey(z) = key => z = y)
  <1> DEFINE i == IndexFor(items, key)
             y == items[i]
  <1>1. /\ n \in Nat \ {0} /\ items \in Table(n) /\ Unique(n, items) /\ Reachable(n, items)
        /\ hash \in [Key -> HashValue]
    BY Spare DEF Sound, TableTyped, TableInv
  <1>2. PICK e \in 0 .. n - 1 : items[e] = Empty
    BY Spare DEF TableInv
  <1>3. /\ i \in 0 .. n - 1 /\ (y # Empty => GetKey(y) = key)
        /\ \A j \in Used(n, items) : GetKey(items[j]) = key => i = j
    BY <1>1, <1>2, Lookup
  <1> HIDE DEF i
  <1>4. y # Empty => i \in Used(n, items) /\ y \in Item
    BY <1>1, <1>3 DEF Used, Table
  <1>5. \A z \in ItemsOf(n, items) : z # Empty /\ (GetKey(z) = key => z = y)
    BY <1>3 DEF ItemsOf, Used
  <1>6. QED
    BY <1>3, <1>4, <1>5 DEF ItemsOf, i

LEMMA ContentsIs ==
    ASSUME TableInv, NEW n \in Nat, Sound(n)
    PROVE  /\ doing = "nothing" => Contents = ItemsOf(n, items)
           /\ doing = "FixCollisionsFrom" => Contents = ItemsOf(n, items) \cup {inItem}
           /\ doing = "Resize" => \A m \in Nat : Moving(n, m) =>
                 Contents = ItemsOf(n, items) \cup {oldItems[i] : i \in {j \in Used(m, oldItems) : oldIndex <= j}}
  <1>1. Taken = Used(n, items) /\ {items[i] : i \in Taken} = ItemsOf(n, items)
    BY Spare DEF TableInv, ItemsOf
  <1>3. ASSUME doing = "Resize", NEW m \in Nat, Moving(n, m)
        PROVE  Contents = ItemsOf(n, items) \cup {oldItems[i] : i \in {j \in Used(m, oldItems) : oldIndex <= j}}
    <2>1. Size(oldItems) = m /\ oldIndex \in 0 .. m
      BY <1>3, InTable DEF Moving
    <2>2. Contents = ItemsOf(n, items) \cup ({oldItems[i] : i \in oldIndex .. m - 1} \ {Empty})
      BY <2>1, <1>1, <1>3 DEF Contents
    <2>3. {oldItems[i] : i \in oldIndex .. m - 1} \ {Empty}
             = {oldItems[i] : i \in {j \in Used(m, oldItems) : oldIndex <= j}}
      <3>1. \A i \in oldIndex .. m - 1 : i \in 0 .. m - 1 /\ oldIndex <= i
        BY <2>1
      <3>2. \A i \in Used(m, oldItems) : oldIndex <= i => i \in oldIndex .. m - 1 /\ oldItems[i] # Empty
        BY <2>1 DEF Used
      <3>3. \A i \in oldIndex .. m - 1 : oldItems[i] # Empty => i \in Used(m, oldItems)
        BY <3>1 DEF Used
      <3>4. QED
        BY <3>1, <3>2, <3>3
    <2>4. QED
      BY <2>2, <2>3
  <1>4. QED
    BY <1>1, <1>3 DEF Contents

LEMMA SameCardinality ==
    ASSUME NEW S
    PROVE  Abstract!Cardinality(S) = Cardinality(S)
  BY DEF Abstract!Cardinality, Cardinality

LEMMA AbstractAdd ==
    ASSUME NEW x, NEW S, Contents = S, NEW same, same = {z \in S : GetKey(z) = GetKey(x)},
           ~(Cardinality(S) >= Capacity), same \in {{}, {x}},
           Contents' = S \cup {x}, result' = <<"Add", x, {x}>>
    PROVE  Abstract!Add(x)
  <1>1. {y \in Contents : GetKey(y) = GetKey(x)} = same
    OBVIOUS
  <1>2. ~(Cardinality(Contents) >= Capacity)
    BY Zenon
  <1>3. ~(Cardinality(Contents) >= Capacity \/ {y \in Contents : GetKey(y) = GetKey(x)} \notin {{}, {x}})
    BY <1>1, <1>2, Zenon
  <1>4. Contents' = Contents \cup {x}
    BY Zenon
  <1>5. QED
    BY <1>3, <1>4, SameCardinality DEF Abstract!Add, Capacity

\* As long as Add finds room, it does what the set does.
LEMMA AddRefines ==
    ASSUME TableInv, NEW n \in Nat, Sound(n), doing \in {"nothing", "Resize"}, NEW x \in Item,
           Insert(x), Added(x), Contents = ItemsOf(n, items), Contents' = ItemsOf(n, items'),
           numItems < maxItems \/ canResize
    PROVE  Abstract!Add(x)
  <1> DEFINE S == ItemsOf(n, items)
             y == items[IndexFor(items, GetKey(x))]
             same == {z \in S : GetKey(z) = GetKey(x)}
  <1>1. doing # "FixCollisionsFrom" /\ GetKey(x) \in Key /\ x # Empty
    BY TableAssumption
  <1>2. /\ y = Empty \/ (y \in S /\ GetKey(y) = GetKey(x) /\ y \in Item)
        /\ \A z \in S : z # Empty /\ (GetKey(z) = GetKey(x) => z = y)
    BY <1>1, Found
  <1>3. /\ y \in S => items' = items
        /\ y \notin S => y = Empty /\ ItemsOf(n, items') = S \cup {x}
    BY <1>1, InsertStep DEF TableInv, ItemsOf
  <1>4. result' = <<"Add", x, IF y \in {Empty, x} THEN {x} ELSE {}>>
    BY DEF Added
  <1>5. ~(Cardinality(S) >= Capacity)
    <2>1. S \subseteq Item /\ IsFiniteSet(S) /\ Cardinality(S) = Cardinality(Used(n, items))
      BY ItemsCounted DEF Sound, ItemsOf
    <2>2. numItems = Cardinality(Used(n, items)) /\ numItems \in Nat /\ maxItems \in Nat
      BY <1>1, Spare, UsedFinite DEF TableInv, LoopsEnd, TableTyped
    <2>3. Cardinality(S) <= Cardinality(Item) /\ Cardinality(Item) \in Nat
      BY <2>1, TableAssumption, FS_Subset, FS_CardinalityType
    <2>4. CASE canResize
      BY <2>1, <2>2, <2>3, <2>4 DEF Capacity
    <2>5. CASE ~canResize
      BY <2>1, <2>2, <2>5 DEF Capacity
    <2>6. QED
      BY <2>4, <2>5
  <1> HIDE DEF S, y
  <1>6. CASE y = Empty
    <2>1. same = {} /\ y \notin S
      BY <1>2, <1>6
    <2>2. Contents' = S \cup {x} /\ result' = <<"Add", x, {x}>>
      BY <2>1, <1>3, <1>4, <1>6 DEF S
    <2>3. QED
      BY <2>1, <2>2, <1>5, AbstractAdd, Zenon DEF S
  <1>7. CASE y # Empty
    <2>1. same = {y} /\ y \in S /\ items' = items
      BY <1>2, <1>3, <1>7
    <2>2. Contents' = S
      BY <2>1 DEF S
    <2>3. CASE y = x
      <3>1. result' = <<"Add", x, {x}>> /\ S \cup {x} = S /\ same = {x}
        BY <2>1, <2>3, <1>4
      <3>2. Contents' = S \cup {x}
        BY <3>1, <2>2
      <3>3. QED
        BY <3>1, <3>2, <1>5, AbstractAdd, Zenon DEF S
    <2>4. CASE y # x
      <3>1. result' = <<"Add", x, {}>> /\ same \notin {{}, {x}}
        BY <2>1, <2>4, <1>4, <1>7
      <3>2. QED
        BY <3>1, <2>2 DEF Abstract!Add, S
    <2>5. QED
      BY <2>3, <2>4
  <1>8. QED
    BY <1>6, <1>7

\* A step that the set does not see.
LEMMA Stutters ==
    ASSUME Contents' = Contents, canResize \in BOOLEAN, canResize' = canResize,
           canResize \/ maxItems' = maxItems, result' = result
    PROVE  UNCHANGED Abstract!vars
  <1>1. Capacity' = Capacity
    BY DEF Capacity
  <1>2. QED
    BY <1>1 DEF Abstract!vars, Capacity

\* A step of the set.
LEMMA Steps ==
    ASSUME canResize \in BOOLEAN, canResize' = canResize, maxItems' = maxItems,
           \/ \E x \in Item : Abstract!Add(x) \/ Abstract!Remove(x) \/ Abstract!Get(GetKey(x))
           \/ Abstract!MakeEmpty
    PROVE  Abstract!Next
  <1>1. Capacity' = Capacity
    BY DEF Capacity
  <1>2. QED
    BY <1>1 DEF Abstract!Next, Capacity

LEMMA InitRefines ==
    ASSUME TableInit
    PROVE  Abstract!Init
  <1>1. TableInv
    BY InitKeeps
  <1>2. PICK n \in Nat : Sound(n)
    BY <1>1 DEF TableInv
  <1>3. doing = "nothing" /\ numItems = 0 /\ result = <<>>
    BY DEF TableInit
  <1>4. Contents = ItemsOf(n, items)
    BY <1>1, <1>2, <1>3, ContentsIs
  <1>5. Cardinality(Used(n, items)) = 0 /\ IsFiniteSet(Used(n, items))
    BY <1>1, <1>2, <1>3, Spare, UsedFinite DEF TableInv, LoopsEnd
  <1>6. Used(n, items) = {}
    BY <1>5, FS_EmptySet
  <1>7. Contents = {}
    BY <1>4, <1>6 DEF ItemsOf
  <1>8. Capacity \in Nat
    <2>1. Cardinality(Item) \in Nat /\ maxItems \in Nat
      BY <1>1, TableAssumption, FS_CardinalityType DEF TableInv, TableTyped
    <2>2. QED
      BY <2>1 DEF Capacity
  <1>9. QED
    BY <1>3, <1>7, <1>8 DEF Abstract!Init, Capacity

LEMMA NextRefines ==
    ASSUME TableInv, TableInv', [TableNext]_tableVars
    PROVE  [Abstract!Next]_Abstract!vars
  <1>1. PICK n \in Nat : Sound(n)
    BY DEF TableInv
  <1>2. canResize \in BOOLEAN
    BY DEF TableInv, TableTyped
  <1>3. \A x \in Item : GetKey(x) \in Key
    BY TableAssumption
  <1>4. ASSUME UNCHANGED <<items, doing, inItem, oldIndex, oldItems>>
        PROVE  Contents' = Contents
    BY <1>4 DEF Contents, Taken
  <1>5. ASSUME NEW x \in Item, Add(x) PROVE Abstract!Next
    <2>2. doing = "nothing" /\ doing' = "nothing" /\ Insert(x) /\ Added(x) /\ numItems < maxItems
          /\ UNCHANGED <<canResize, maxItems>>
      BY <1>5 DEF Add, Full, TableInv, TableTyped
    <2>3. items' \in Table(n) /\ Taken' = Used(n, items')
      <3>1. items' \in Table(n)
        BY <1>1, <2>2, InsertStep DEF TableInv
      <3>2. QED
        BY <3>1, InTable DEF Taken
    <2>4. Contents = ItemsOf(n, items) /\ Contents' = ItemsOf(n, items')
      BY <1>1, <2>2, <2>3, ContentsIs DEF Contents, ItemsOf
    <2>5. Abstract!Add(x)
      BY <1>1, <2>2, <2>4, AddRefines
    <2>6. QED
      BY <2>2, <2>5, <1>2, Steps
  <1>6. ASSUME NEW x \in Item, AddRefused(x) PROVE Abstract!Next
    <2>1. doing = "nothing" /\ ~canResize /\ numItems >= maxItems /\ result' = <<"Add", x, {}>>
          /\ UNCHANGED <<canResize, maxItems>> /\ Contents' = Contents
      BY <1>4, <1>6 DEF AddRefused, Full
    <2>2. Contents = ItemsOf(n, items)
      BY <1>1, <2>1, ContentsIs
    <2>3. Cardinality(ItemsOf(n, items)) = Cardinality(Used(n, items))
      BY <1>1, ItemsCounted DEF Sound, ItemsOf
    <2>4. numItems = Cardinality(Used(n, items))
      BY <1>1, <2>1, Spare, UsedFinite DEF TableInv, LoopsEnd
    <2>5. Capacity = maxItems
      BY <2>1 DEF Capacity
    <2>6. Cardinality(Contents) >= Capacity
      BY <2>1, <2>2, <2>3, <2>4, <2>5, Zenon
    <2>7. Abstract!Add(x)
      BY <2>1, <2>6, SameCardinality DEF Abstract!Add, Capacity
    <2>8. QED
      BY <2>1, <2>7, <1>2, Steps
  <1>7. ASSUME NEW x \in Item, RemoveRefused(x) PROVE Abstract!Next
    <2>1. doing = "nothing" /\ items[IndexFor(items, GetKey(x))] # x /\ result' = <<"Remove", x, {}>>
          /\ UNCHANGED <<canResize, maxItems>> /\ Contents' = Contents
      BY <1>4, <1>7 DEF RemoveRefused
    <2>2. Contents = ItemsOf(n, items)
      BY <1>1, <2>1, ContentsIs
    <2>3. x \notin ItemsOf(n, items)
      BY <1>1, <1>3, <2>1, Found
    <2>4. Contents \ {x} = Contents /\ Contents \cap {x} = {}
      BY <2>2, <2>3
    <2>5. Abstract!Remove(x)
      BY <2>1, <2>4 DEF Abstract!Remove
    <2>6. QED
      BY <2>1, <2>5, <1>2, Steps
  <1>8. ASSUME NEW key \in Key, Get(key) PROVE Abstract!Next
    <2> DEFINE y == items[IndexFor(items, key)]
    <2>1. doing = "nothing" /\ result' = <<"Get", key, {y} \ {Empty}>>
          /\ UNCHANGED <<canResize, maxItems>> /\ Contents' = Contents
      BY <1>4, <1>8 DEF Get
    <2>2. Contents = ItemsOf(n, items)
      BY <1>1, <2>1, ContentsIs
    <2>3. /\ y = Empty \/ (y \in Contents /\ GetKey(y) = key)
          /\ \A z \in Contents : z # Empty /\ (GetKey(z) = key => z = y)
      BY <1>1, <2>1, <2>2, Found
    <2> HIDE DEF y
    <2>4. {z \in Contents : GetKey(z) = key} = {y} \ {Empty}
      BY <2>3
    <2>5. Abstract!Get(key)
      BY <2>1, <2>4 DEF Abstract!Get
    <2>6. PICK x \in Item : key = GetKey(x)
      BY TableAssumption
    <2>7. QED
      BY <2>1, <2>5, <2>6, <1>2, Steps
  <1>9. CASE MakeEmpty
    <2>1. doing' = "nothing" /\ result' = <<>> /\ UNCHANGED <<canResize, maxItems>> /\ items' = AllocTable(n)
      BY <1>1, <1>9, Spare DEF MakeEmpty, TableInv
    <2>2. Taken' = {}
      <3>1. items' \in Table(n) /\ Used(n, items') = {}
        BY <2>1, FreshTable
      <3>2. QED
        BY <3>1, InTable DEF Taken
    <2>3. Contents' = {}
      BY <2>1, <2>2 DEF Contents
    <2>4. Abstract!MakeEmpty
      BY <2>1, <2>3 DEF Abstract!MakeEmpty
    <2>5. QED
      BY <2>1, <2>4, <1>2, Steps
  <1>10. CASE RemoveEnd
    <2>1. doing = "FixCollisionsFrom" /\ doing' = "nothing" /\ result' = <<"Remove", inItem, {inItem}>>
          /\ UNCHANGED <<canResize, maxItems, items>>
      BY <1>10 DEF RemoveEnd, Idle
    <2>2. Contents = ItemsOf(n, items) \cup {inItem} /\ inItem \in Item
      BY <1>1, <2>1, ContentsIs DEF Sound
    <2>3. Contents' = ItemsOf(n, items)
      BY <1>1, <2>1, Spare DEF TableInv, Contents, Taken, ItemsOf
    <2>4. inItem \notin ItemsOf(n, items)
      BY <1>1, <2>1 DEF Sound, ItemsOf
    <2>5. Contents' = Contents \ {inItem} /\ Contents \cap {inItem} = {inItem}
      BY <2>2, <2>3, <2>4
    <2>6. Abstract!Remove(inItem)
      BY <2>1, <2>5 DEF Abstract!Remove
    <2>7. QED
      BY <2>1, <2>2, <2>6, <1>2, Steps
  <1>11. CASE FixCollision
    <2>1. doing = "FixCollisionsFrom" /\ UNCHANGED <<canResize, maxItems, doing, inItem, result>>
      BY <1>11 DEF FixCollision
    <2>2. {items'[i] : i \in Taken'} = {items[i] : i \in Taken}
      BY <1>11, FixCollisionKeeps
    <2>3. Contents = {items[i] : i \in Taken} \cup {inItem} /\ Contents' = {items'[i] : i \in Taken'} \cup {inItem'}
      BY <2>1 DEF Contents
    <2>4. Contents' = Contents
      BY <2>1, <2>2, <2>3
    <2>5. QED
      BY <2>1, <2>4, <1>2, Stutters
  <1>12. ASSUME NEW x \in Item, Remove(x) PROVE UNCHANGED Abstract!vars
    <2> DEFINE k == IndexFor(items, GetKey(x))
    <2>1. doing = "nothing" /\ doing' = "FixCollisionsFrom" /\ inItem' = x /\ items[k] = x
          /\ items' = [items EXCEPT ![k] = Empty] /\ UNCHANGED <<canResize, maxItems, result>>
      BY <1>12 DEF Remove
    <2>2. Taken = Used(n, items) /\ DOMAIN items = 0 .. n - 1 /\ Contents = ItemsOf(n, items) /\ items \in Table(n)
      BY <1>1, <2>1, Spare, ContentsIs DEF TableInv, Sound
    <2>3. k \in Used(n, items)
      <3>1. items[k] # Empty
        BY <2>1, TableAssumption
      <3>2. n \in Nat \ {0} /\ hash \in [Key -> HashValue] /\ \E e \in 0 .. n - 1 : items[e] = Empty
        BY <1>1, Spare DEF TableInv, TableTyped
      <3>3. k \in 0 .. n - 1
        BY <3>2, <2>2, <1>3, IndexForFinds
      <3>4. QED
        BY <3>1, <3>3 DEF Used
    <2>4. PICK i \in 0 .. n - 1 : i = k
      BY <2>3 DEF Used
    <2> HIDE DEF k
    <2>5. DOMAIN items' = 0 .. n - 1 /\ \A j \in 0 .. n - 1 : items'[j] = IF j = i THEN Empty ELSE items[j]
      BY <2>1, <2>2, <2>4 DEF Table
    <2>6. Taken' = Used(n, items) \ {i} /\ \A j \in Taken' : items'[j] = items[j]
      BY <2>5 DEF Taken, Used
    <2>7. Contents' = {items[j] : j \in Used(n, items) \ {i}} \cup {items[i]}
      BY <2>1, <2>4, <2>6 DEF Contents
    <2>8. Contents' = Contents
      BY <2>2, <2>3, <2>4, <2>7 DEF ItemsOf
    <2>9. QED
      BY <2>1, <2>8, <1>2, Stutters
  <1>13. ASSUME NEW x \in Item, Resize(x) PROVE UNCHANGED Abstract!vars
    <2>1. doing = "nothing" /\ doing' = "Resize" /\ canResize /\ oldIndex' = 0 /\ oldItems' = items
          /\ UNCHANGED <<canResize, result>>
      BY <1>13 DEF Resize
    <2>2. Taken' = {}
      <3>1. PICK m \in Nat : items' = AllocTable(m)
        <4>1. Size(items) = n
          BY <1>1, Spare DEF TableInv
        <4>2. QED
          BY <4>1, <1>13, TableAssumption DEF Resize
      <3>2. items' \in Table(m) /\ Used(m, items') = {}
        BY <3>1, FreshTable
      <3>3. QED
        BY <3>2, InTable DEF Taken
    <2>3. Size(oldItems') = n /\ Contents = ItemsOf(n, items)
      BY <1>1, <2>1, Spare, ContentsIs DEF TableInv
    <2>4. Contents' = {items[i] : i \in 0 .. n - 1} \ {Empty}
      BY <2>1, <2>2, <2>3 DEF Contents
    <2>5. Contents' = Contents
      BY <2>3, <2>4 DEF ItemsOf, Used
    <2>6. QED
      BY <2>1, <2>5, <1>2, Stutters
  <1>14. CASE ResizeAdd
    <2>1. doing = "Resize" /\ doing' = "Resize" /\ canResize /\ oldIndex' = oldIndex + 1
          /\ oldIndex < Size(oldItems) /\ UNCHANGED <<canResize, result, oldItems>>
      BY <1>1, <1>14 DEF ResizeAdd, Sound
    <2>2. PICK m \in Nat : Moving(n, m)
      BY <1>1, <2>1 DEF Sound
    <2>3. Size(oldItems) = m /\ oldIndex \in 0 .. m - 1
      BY <2>1, <2>2, InTable DEF Moving
    <2>4. Contents = ItemsOf(n, items) \cup {oldItems[i] : i \in {j \in Used(m, oldItems) : oldIndex <= j}}
      BY <1>1, <2>1, <2>2, ContentsIs
    <2>5. /\ items' \in Table(n)
          /\ oldItems[oldIndex] = Empty => items' = items
          /\ oldItems[oldIndex] # Empty => ItemsOf(n, items') = ItemsOf(n, items) \cup {oldItems[oldIndex]}
      <3>1. CASE oldItems[oldIndex] = Empty
        BY <3>1, <1>1, <1>14 DEF ResizeAdd, Sound
      <3>2. CASE oldItems[oldIndex] # Empty
        <4> DEFINE x == oldItems[oldIndex]
        <4>1. oldIndex \in Used(m, oldItems)
          BY <3>2, <2>3 DEF Used
        <4>2. x \in Item /\ Insert(x) /\ doing # "FixCollisionsFrom"
          BY <3>2, <2>1, <2>2, <2>3, <1>14 DEF Moving, Table, ResizeAdd
        <4>3. \A z \in ItemsOf(n, items) : GetKey(z) # GetKey(x)
          BY <4>1, <2>2, <2>3 DEF Moving, ItemsOf
        <4>4. LET y == items[IndexFor(items, GetKey(x))]
              IN  /\ items' \in Table(n)
                  /\ y \in ItemsOf(n, items) => GetKey(y) = GetKey(x)
                  /\ y \notin ItemsOf(n, items) => ItemsOf(n, items') = ItemsOf(n, items) \cup {x}
          BY <1>1, <4>2, InsertStep DEF TableInv, ItemsOf
        <4>5. QED
          BY <3>2, <4>3, <4>4
      <3>3. QED
        BY <3>1, <3>2
    <2>6. {items'[i] : i \in Taken'} = ItemsOf(n, items')
      BY <2>5, InTable DEF Taken, ItemsOf
    <2>7. Contents' = ItemsOf(n, items') \cup ({oldItems[i] : i \in oldIndex + 1 .. m - 1} \ {Empty})
      BY <2>1, <2>3, <2>6 DEF Contents
    <2>9. Contents = ItemsOf(n, items) \cup ({oldItems[i] : i \in oldIndex .. m - 1} \ {Empty})
      <3>1. {items[i] : i \in Taken} = ItemsOf(n, items)
        BY <1>1, Spare DEF TableInv, ItemsOf
      <3>2. QED
        BY <3>1, <2>1, <2>3 DEF Contents
    <2>10. {oldItems[i] : i \in oldIndex .. m - 1} = {oldItems[i] : i \in oldIndex + 1 .. m - 1} \cup {oldItems[oldIndex]}
      <3>1. oldIndex .. m - 1 = (oldIndex + 1 .. m - 1) \cup {oldIndex}
        BY <2>3
      <3>2. QED
        BY <3>1
    <2>11. Contents' = Contents
      <3>1. CASE oldItems[oldIndex] = Empty
        BY <3>1, <2>5, <2>7, <2>9, <2>10
      <3>2. CASE oldItems[oldIndex] # Empty
        BY <3>2, <2>5, <2>7, <2>9, <2>10
      <3>3. QED
        BY <3>1, <3>2
    <2>12. QED
      BY <2>1, <2>11, <1>2, Stutters
  <1>15. CASE AddAfterResize
    <2>1. doing = "Resize" /\ doing' = "nothing" /\ canResize /\ inItem \in Item /\ Insert(inItem) /\ Added(inItem)
          /\ oldIndex = Size(oldItems) /\ UNCHANGED <<canResize, maxItems>>
      BY <1>1, <1>15 DEF AddAfterResize, Idle, Sound
    <2>2. PICK m \in Nat : Moving(n, m)
      BY <1>1, <2>1 DEF Sound
    <2>3. oldIndex = m
      BY <2>1, <2>2, InTable DEF Moving
    <2>4. {j \in Used(m, oldItems) : oldIndex <= j} = {}
      BY <2>3 DEF Used
    <2>5. Contents = ItemsOf(n, items)
      BY <1>1, <2>1, <2>2, <2>4, ContentsIs
    <2>6. items' \in Table(n)
      BY <1>1, <2>1, InsertStep DEF TableInv
    <2>7. Contents' = ItemsOf(n, items')
      BY <2>1, <2>6, InTable DEF Contents, Taken, ItemsOf
    <2>8. Abstract!Add(inItem)
      BY <1>1, <2>1, <2>5, <2>7, AddRefines
    <2>9. QED
      BY <2>1, <2>8, <1>2, Steps
  <1>16. CASE UNCHANGED tableVars
    <2>1. UNCHANGED <<items, doing, inItem, oldIndex, oldItems, canResize, maxItems, result>>
      BY <1>16 DEF tableVars
    <2>2. QED
      BY <2>1, <1>2, <1>4, Stutters
  <1>17. QED
    BY <1>5, <1>6, <1>7, <1>8, <1>9, <1>10, <1>11, <1>12, <1>13, <1>14, <1>15, <1>16 DEF TableNext

\* The table is the set with keys, for every set of items, all hashes and
\* tables of every size: what Remove moves back and Resize moves is neither
\* lost nor found twice, and every search finds what is there.
THEOREM TableIsKeyedSet == TableSpec => TableImplements
  <1>1. TableInit => TableInv /\ Abstract!Init
    BY InitKeeps, InitRefines
  <1>2. TableInv /\ [TableNext]_tableVars => TableInv'
    BY NextKeeps
  <1>3. TableInv /\ TableInv' /\ [TableNext]_tableVars => [Abstract!Next]_Abstract!vars
    BY NextRefines
  <1>4. QED
    BY <1>1, <1>2, <1>3, PTL DEF TableSpec, TableImplements, Abstract!Spec
=============================================================================
