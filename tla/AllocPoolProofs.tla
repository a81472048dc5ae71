-------------------------- MODULE AllocPoolProofs --------------------------
(***************************************************************************)
(* Proofs about AllocPool, for pools of every size, any number of areas    *)
(* and blocks, and all requests but the ones PoolAssumption leaves out:    *)
(* the headers agree and the bins hold the free chunks (PoolStaysSound),   *)
(* Alloc finds the best fit (AllocFindsBest), and blocks keep their chunks *)
(* and contents (BlocksStayIntact).                                        *)
(***************************************************************************)
EXTENDS AllocPool, FiniteSetTheorems, SequenceTheorems, WellFoundedInduction, TLAPS

WordRec == [size : Nat, inUse : BOOLEAN]
Words(D) == [D -> WordRec]
AreaRec == [at : Nat, size : Nat]
BlockRec == [at : Nat, len : Nat, kept : BOOLEAN, back : BOOLEAN]

Pool == [mSize : UNION {Words(D) : D \in SUBSET Nat}, mPrevSize : UNION {Words(D) : D \in SUBSET Nat},
         mBins : UNION {[I -> Seq(Nat)] : I \in SUBSET Nat}, mBinBlocks : SUBSET Nat,
         mAreas : Seq(AreaRec), blocks : SUBSET BlockRec]

\* Areas are of the right size, where malloc puts them, and no two of them in
\* one place; there are headers in areas only.
Spaced(q) ==
    /\ \A area \in Areas(q) : area.at \in Places /\ area.size \in kMinAllocSize .. MaxSize
    /\ \A j, k \in DOMAIN q.mAreas : q.mAreas[j].at = q.mAreas[k].at => j = k
    /\ \A x \in DOMAIN q.mSize : \E area \in Areas(q) : area.at <= x /\ x <= area.at + area.size

Laid(q) == Tiled(q) /\ Spaced(q)

UsedChunks(q) == {c \in Chunks(q) : InUse(q, c)}

\* Chunks of F in bin i, each of them once, and large ones in the order of their sizes.
OneBin(q, i, s, F) ==
    \A j \in DOMAIN s :
       /\ s[j] \in F /\ BinIndex(ChunkSize(q, s[j])) = i
       /\ \A k \in DOMAIN s :
             /\ s[k] = s[j] => k = j
             /\ i >= kNumSmallBins /\ j < k => ChunkSize(q, s[k]) <= ChunkSize(q, s[j])

\* The bins hold the chunks of F.
Bins(q, F) ==
    /\ \A i \in DOMAIN q.mBins : q.mBins[i] # <<>> /\ OneBin(q, i, q.mBins[i], F)
    /\ \A c \in F :
          /\ BinIndex(ChunkSize(q, c)) \in DOMAIN q.mBins
          /\ \E j \in DOMAIN q.mBins[BinIndex(ChunkSize(q, c))] :
                q.mBins[BinIndex(ChunkSize(q, c))][j] = c
    /\ q.mBinBlocks = DOMAIN q.mBins

\* No block is there.
Nobody == -1

\* The chunks of U are those that blocks have, but for the block at x.
Held(q, U, x) ==
    /\ \A b \in q.blocks : b.at # x =>
          /\ b.at \in U
          /\ ChunkSize(q, b.at) - b.len \in 0 .. kMinAllocSize - 1
          /\ b.kept \/ b.back
    /\ \A b, d \in q.blocks : b.at = d.at => b = d
    /\ \A c \in U : \E b \in q.blocks : b.at = c

\* All is well with the pool but for the chunks of L, which an operation has
\* in hand: they are in no bin and have no block.
Fine(q, L, x) ==
    /\ q \in Pool
    /\ Laid(q)
    /\ Bins(q, FreeChunks(q) \ L)
    /\ Held(q, UsedChunks(q) \ L, x)

\* The chunks of the areas that FreeAllInternal has still to go to.
InAreas(s) == {c \in Nat : \E j \in DOMAIN s : s[j].at <= c /\ c <= s[j].at + s[j].size}

\* The areas of s are areas of q, each of them once.
SomeAreas(q, s) ==
    /\ s \in Seq(AreaRec)
    /\ \A j \in DOMAIN s : s[j] \in Areas(q) /\ \A k \in DOMAIN s : s[k] = s[j] => k = j

PoolInv ==
    /\ sizes \in Pools
    /\ SomeAreas(p, todo)
    /\ Fine(p, InAreas(todo), Nobody)
    /\ todo # <<>> => p.blocks = {}
-----------------------------------------------------------------------------
(* Records of a pool, and what the operations on its headers write. *)

LEMMA PoolFields ==
    ASSUME NEW q \in Pool
    PROVE  /\ q.mSize \in Words(DOMAIN q.mSize) /\ DOMAIN q.mSize \subseteq Nat
           /\ q.mPrevSize \in Words(DOMAIN q.mPrevSize) /\ DOMAIN q.mPrevSize \subseteq Nat
           /\ q.mBins \in [DOMAIN q.mBins -> Seq(Nat)] /\ DOMAIN q.mBins \subseteq Nat
           /\ q.mBinBlocks \subseteq Nat /\ q.mAreas \in Seq(AreaRec) /\ q.blocks \subseteq BlockRec
  BY DEF Pool, Words

LEMMA PoolWords ==
    ASSUME NEW q \in Pool
    PROVE  /\ \A c \in DOMAIN q.mSize : /\ c \in Nat /\ q.mSize[c] \in WordRec
                                        /\ ChunkSize(q, c) \in Nat /\ InUse(q, c) \in BOOLEAN
           /\ \A c \in DOMAIN q.mPrevSize : /\ c \in Nat /\ q.mPrevSize[c] \in WordRec
                                            /\ PrevSize(q, c) \in Nat /\ PrevInUse(q, c) \in BOOLEAN
  BY PoolFields DEF Words, WordRec, ChunkSize, InUse, PrevSize, PrevInUse

LEMMA PoolAreas ==
    ASSUME NEW q \in Pool
    PROVE  \A area \in Areas(q) : area \in AreaRec /\ area.at \in Nat /\ area.size \in Nat
  <1>1. q.mAreas \in Seq(AreaRec)
    BY PoolFields
  <1>2. \A j \in DOMAIN q.mAreas : q.mAreas[j] \in AreaRec
    BY <1>1
  <1>3. QED
    BY <1>2 DEF Areas, AreaRec

LEMMA WordType ==
    ASSUME NEW n \in Nat, NEW b \in BOOLEAN
    PROVE  Word(n, b) \in WordRec /\ Word(n, b).size = n /\ Word(n, b).inUse = b
  BY DEF Word, WordRec

LEMMA ExceptWords ==
    ASSUME NEW D \in SUBSET Nat, NEW f \in Words(D), NEW c \in Nat,
           NEW w \in WordRec, NEW S
    PROVE  /\ Except(Without(f, S), c, w) \in Words((D \ S) \cup {c})
           /\ DOMAIN Except(Without(f, S), c, w) = (D \ S) \cup {c}
           /\ Except(Without(f, S), c, w)[c] = w
           /\ \A a \in D \ S : a # c => Except(Without(f, S), c, w)[a] = f[a]
  BY DEF Words, Except, Without

LEMMA ClobberType ==
    ASSUME NEW B \in SUBSET BlockRec, NEW W \in SUBSET Nat
    PROVE  Clobber(B, W) \in SUBSET BlockRec
  BY DEF Clobber, BlockRec

\* What SetSize writes, header by header.
Wrote(q, r, c, e, w) ==
    /\ \A x : x \in DOMAIN r.mSize <=> x = c \/ (x \in DOMAIN q.mSize /\ (x <= c \/ x >= e))
    /\ \A x : x \in DOMAIN r.mPrevSize <=> x = e \/ (x \in DOMAIN q.mPrevSize /\ (x <= c \/ x >= e))
    /\ r.mSize[c] = w /\ r.mPrevSize[e] = w
    /\ \A x \in DOMAIN q.mSize : x # c /\ (x <= c \/ x >= e) => r.mSize[x] = q.mSize[x]
    /\ \A x \in DOMAIN q.mPrevSize : x # e /\ (x <= c \/ x >= e) => r.mPrevSize[x] = q.mPrevSize[x]

\* The parts of a pool that are no headers.
SameRest(q, r) == r.mBins = q.mBins /\ r.mBinBlocks = q.mBinBlocks /\ r.mAreas = q.mAreas

SizeSet(q, r, c, e, w) ==
    r \in Pool /\ Wrote(q, r, c, e, w) /\ SameRest(q, r) /\ r.blocks = Clobber(q.blocks, {c, e})

LEMMA SetSizeWords ==
    ASSUME NEW q \in Pool, NEW c \in Nat, NEW n \in Nat, NEW w \in WordRec,
           NEW r, r = SetSize(q, c, n, w), NEW e, e = c + n
    PROVE  SizeSet(q, r, c, e, w)
  <1> DEFINE S == c + 1 .. c + n - 1
             f == Except(Without(q.mSize, S), c, w)
             g == Except(Without(q.mPrevSize, S), e, w)
             B == Clobber(q.blocks, {c, e})
  <1>0. e \in Nat /\ \A x \in Nat : x \in S <=> ~(x <= c \/ x >= e)
    OBVIOUS
  <1>1. r = [q EXCEPT !.mSize = f, !.mPrevSize = g, !.blocks = B]
    BY DEF SetSize
  <1> HIDE DEF S
  <1>2. /\ DOMAIN q.mSize \in SUBSET Nat /\ q.mSize \in Words(DOMAIN q.mSize)
        /\ DOMAIN q.mPrevSize \in SUBSET Nat /\ q.mPrevSize \in Words(DOMAIN q.mPrevSize)
    BY PoolFields
  <1>3. f \in Words((DOMAIN q.mSize \ S) \cup {c}) /\ (DOMAIN q.mSize \ S) \cup {c} \in SUBSET Nat
    BY <1>2, ExceptWords, Zenon
  <1>4. g \in Words((DOMAIN q.mPrevSize \ S) \cup {e}) /\ (DOMAIN q.mPrevSize \ S) \cup {e} \in SUBSET Nat
    BY <1>0, <1>2, ExceptWords, Zenon
  <1>5. /\ DOMAIN f = (DOMAIN q.mSize \ S) \cup {c} /\ f[c] = w
        /\ \A x \in DOMAIN q.mSize \ S : x # c => f[x] = q.mSize[x]
    BY DEF Except, Without
  <1>6. /\ DOMAIN g = (DOMAIN q.mPrevSize \ S) \cup {e} /\ g[e] = w
        /\ \A x \in DOMAIN q.mPrevSize \ S : x # e => g[x] = q.mPrevSize[x]
    BY DEF Except, Without
  <1>7. B \in SUBSET BlockRec
    BY <1>0, ClobberType, PoolFields
  <1> HIDE DEF f, g, B
  <1>8. r \in Pool
    <2>1. f \in UNION {Words(D) : D \in SUBSET Nat} /\ g \in UNION {Words(D) : D \in SUBSET Nat}
      BY <1>3, <1>4
    <2> DEFINE WW == UNION {Words(D) : D \in SUBSET Nat}
               BB == UNION {[I -> Seq(Nat)] : I \in SUBSET Nat}
    <2>2. q \in [mSize : WW, mPrevSize : WW, mBins : BB, mBinBlocks : SUBSET Nat,
                 mAreas : Seq(AreaRec), blocks : SUBSET BlockRec]
      BY DEF Pool
    <2> HIDE DEF WW, BB
    <2>3. r \in [mSize : WW, mPrevSize : WW, mBins : BB, mBinBlocks : SUBSET Nat,
                 mAreas : Seq(AreaRec), blocks : SUBSET BlockRec]
      BY <1>1, <1>7, <2>1, <2>2 DEF WW
    <2>4. QED
      BY <2>3 DEF Pool, WW, BB
  <1>9. r.mSize = f /\ r.mPrevSize = g /\ r.blocks = B /\ SameRest(q, r)
    BY <1>1 DEF Pool, SameRest
  <1>10. Wrote(q, r, c, e, w)
    <2>1. /\ \A x : x \in DOMAIN f <=> x = c \/ (x \in DOMAIN q.mSize /\ (x <= c \/ x >= e))
          /\ \A x : x \in DOMAIN g <=> x = e \/ (x \in DOMAIN q.mPrevSize /\ (x <= c \/ x >= e))
      BY <1>0, <1>2, <1>5, <1>6
    <2>2. /\ \A x \in DOMAIN q.mSize : x # c /\ (x <= c \/ x >= e) => f[x] = q.mSize[x]
          /\ \A x \in DOMAIN q.mPrevSize : x # e /\ (x <= c \/ x >= e) => g[x] = q.mPrevSize[x]
      BY <1>0, <1>2, <1>5, <1>6
    <2>3. QED
      BY <1>5, <1>6, <1>9, <2>1, <2>2 DEF Wrote
  <1>11. QED
    BY <1>8, <1>9, <1>10 DEF B, SizeSet
-----------------------------------------------------------------------------
(* Where areas and chunks are. *)

LEMMA LeastNat ==
    ASSUME NEW T, T \subseteq Nat, T # {}
    PROVE  \E m \in T : \A n \in T : m <= n
  <1>1. PICK m \in T : \A n \in T : ~(<<n, m>> \in OpToRel(<, Nat))
    BY WFMin, NatLessThanWellFounded, Zenon
  <1>2. \A n \in T : ~(n < m)
    BY <1>1 DEF OpToRel
  <1>3. QED
    BY <1>2

LEMMA GreatestBelow ==
    ASSUME NEW T, T \subseteq Nat, T # {}, NEW e \in Nat, \A x \in T : x < e
    PROVE  \E m \in T : \A n \in T : n <= m
  <1> DEFINE R == {e - x : x \in T}
  <1>1. R \subseteq Nat /\ R # {}
    <2>1. \A x \in T : e - x \in Nat
      OBVIOUS
    <2>2. PICK x \in T : TRUE
      OBVIOUS
    <2>3. QED
      BY <2>1, <2>2
  <1>2. PICK k \in R : \A n \in R : k <= n
    BY <1>1, LeastNat
  <1>3. PICK m \in T : k = e - m
    OBVIOUS
  <1>4. ASSUME NEW n \in T PROVE n <= m
    <2>1. k <= e - n
      BY <1>2
    <2>2. QED
      BY <2>1, <1>3
  <1>5. QED
    BY <1>4

LEMMA MinSize == kMinAllocSize = 2
  BY DEF kMinAllocSize

\* Different areas do not touch.
LEMMA AreasApart ==
    ASSUME NEW q \in Pool, Spaced(q), NEW a \in Areas(q), NEW b \in Areas(q), a # b
    PROVE  a.at + a.size < b.at \/ b.at + b.size < a.at
  <1>1. a.at # b.at
    <2>1. PICK j \in DOMAIN q.mAreas, k \in DOMAIN q.mAreas : a = q.mAreas[j] /\ b = q.mAreas[k]
      BY DEF Areas
    <2>2. QED
      BY <2>1 DEF Spaced
  <1>2. /\ a.at \in Places /\ b.at \in Places /\ a.at \in Nat /\ b.at \in Nat
        /\ a.size \in 2 .. MaxSize /\ b.size \in 2 .. MaxSize
    BY MinSize, PoolAreas DEF Spaced
  <1>3. MaxSize \in Nat /\ (a.at < b.at => a.at + MaxSize < b.at) /\ (b.at < a.at => b.at + MaxSize < a.at)
    BY <1>2, PoolAssumption
  <1>4. QED
    BY <1>1, <1>2, <1>3

LEMMA AreaPlace ==
    ASSUME NEW q \in Pool, Laid(q), NEW a \in Areas(q)
    PROVE  /\ a.at \in Nat \ {0} /\ a.size \in Nat /\ a.size >= 2
           /\ a.at \in DOMAIN q.mSize /\ a.at + a.size \in DOMAIN q.mSize /\ a.at \in Chunks(q)
           /\ q.mPrevSize[a.at] = kChunkInUse /\ q.mSize[a.at + a.size] = kChunkInUse
           /\ a.at + a.size \in Ends(q)
  <1>1. /\ a.at \in Nat \ {0} /\ a.size \in Nat /\ a.size >= 2
        /\ a.at \in DOMAIN q.mSize /\ a.at + a.size \in DOMAIN q.mSize
        /\ q.mPrevSize[a.at] = kChunkInUse /\ q.mSize[a.at + a.size] = kChunkInUse
        /\ a.at + a.size \in Ends(q)
    BY MinSize, PoolAreas, PoolAssumption DEF Laid, Tiled, Spaced, Ends, None
  <1>2. ASSUME a.at \in Ends(q) PROVE FALSE
    <2>1. PICK b \in Areas(q) : a.at = b.at + b.size
      BY <1>2 DEF Ends
    <2>2. b # a
      BY <2>1, <1>1
    <2>3. b.at \in Nat /\ b.size \in Nat
      BY PoolAreas
    <2>4. QED
      BY <1>1, <2>1, <2>2, <2>3, AreasApart DEF Laid
  <1>3. QED
    BY <1>1, <1>2 DEF Chunks

\* A stretch of headers without an end in it is inside one area and touches no other.
LEMMA OneArea ==
    ASSUME NEW q \in Pool, Laid(q), NEW c \in Chunks(q), NEW e \in DOMAIN q.mSize, c < e,
           \A x \in Ends(q) : ~(c < x /\ x < e)
    PROVE  \E a \in Areas(q) :
              /\ a.at <= c /\ e <= a.at + a.size
              /\ \A b \in Areas(q) : b # a => b.at + b.size < c \/ e < b.at
  <1>1. c \in Nat /\ e \in Nat /\ c \in DOMAIN q.mSize /\ c \notin Ends(q)
    BY PoolWords DEF Chunks
  <1>2. PICK a \in Areas(q) : a.at <= c /\ c <= a.at + a.size
    BY <1>1 DEF Laid, Spaced
  <1>3. a.at \in Nat /\ a.size \in Nat /\ a.at + a.size \in Ends(q)
    BY AreaPlace
  <1>4. c < a.at + a.size
    BY <1>1, <1>2, <1>3
  <1>5. e <= a.at + a.size
    BY <1>1, <1>3, <1>4
  <1>6. ASSUME NEW b \in Areas(q), b # a PROVE b.at + b.size < c \/ e < b.at
    <2>1. b.at \in Nat /\ b.size \in Nat
      BY PoolAreas
    <2>2. a.at + a.size < b.at \/ b.at + b.size < a.at
      BY <1>6, AreasApart DEF Laid
    <2>3. QED
      BY <1>1, <1>2, <1>3, <1>5, <2>1, <2>2
  <1>7. QED
    BY <1>2, <1>5, <1>6

LEMMA NextChunk ==
    ASSUME NEW q \in Pool, Laid(q), NEW c \in Chunks(q)
    PROVE  LET next == c + ChunkSize(q, c) IN
           /\ c \in Nat /\ ChunkSize(q, c) \in Nat /\ ChunkSize(q, c) >= 2
           /\ next \in DOMAIN q.mSize
           /\ \A x \in DOMAIN q.mSize : ~(c < x /\ x < next)
           /\ q.mPrevSize[next] = q.mSize[c]
           /\ InUse(q, c) \/ (PrevInUse(q, c) /\ InUse(q, next))
           /\ next \in Chunks(q) \/ (next \in Ends(q) /\ InUse(q, next) /\ q.mSize[next] = kChunkInUse)
           /\ \A x \in Ends(q) : ~(c < x /\ x < next)
  <1> DEFINE next == c + ChunkSize(q, c)
  <1>1. c \in DOMAIN q.mSize /\ c \in Nat /\ ChunkSize(q, c) \in Nat
    BY PoolWords DEF Chunks
  <1>2. /\ ChunkSize(q, c) >= 2 /\ next \in DOMAIN q.mSize
        /\ c + 1 .. next - 1 \cap DOMAIN q.mSize = {}
        /\ q.mPrevSize[next] = q.mSize[c]
        /\ InUse(q, c) \/ (PrevInUse(q, c) /\ InUse(q, next))
    BY MinSize DEF Laid, Tiled
  <1>3. \A x \in DOMAIN q.mSize : ~(c < x /\ x < next)
    <2> SUFFICES ASSUME NEW x \in DOMAIN q.mSize, c < x, x < next PROVE FALSE
      OBVIOUS
    <2>1. x \in Nat
      BY PoolWords
    <2>2. x \in c + 1 .. next - 1
      BY <1>1, <2>1
    <2>3. QED
      BY <1>2, <2>2
  <1>4. \A x \in Ends(q) : x \in DOMAIN q.mSize /\ q.mSize[x] = kChunkInUse
    BY AreaPlace DEF Ends
  <1>5. next \in Chunks(q) \/ (next \in Ends(q) /\ InUse(q, next) /\ q.mSize[next] = kChunkInUse)
    <2>1. kChunkInUse.inUse
      BY DEF kChunkInUse, Word
    <2>2. QED
      BY <1>2, <1>4, <2>1 DEF Chunks, InUse
  <1> HIDE DEF next
  <1>6. QED
    BY <1>1, <1>2, <1>3, <1>4, <1>5, Zenon DEF next

\* Every header that is not an area's first has a chunk before it.
LEMMA PrevChunk ==
    ASSUME NEW q \in Pool, Laid(q), NEW e \in DOMAIN q.mSize, \A a \in Areas(q) : a.at # e
    PROVE  \E d \in Chunks(q) : d + ChunkSize(q, d) = e /\ q.mPrevSize[e] = q.mSize[d] /\ d < e
  <1>1. e \in Nat
    BY PoolWords
  <1>2. PICK a \in Areas(q) : a.at <= e /\ e <= a.at + a.size
    BY DEF Laid, Spaced
  <1>3. a.at \in Nat /\ a.size \in Nat /\ a.at \in DOMAIN q.mSize /\ a.at < e
    BY <1>1, <1>2, AreaPlace
  <1> DEFINE T == {x \in DOMAIN q.mSize : x < e}
  <1>4. T \subseteq Nat /\ T # {} /\ \A x \in T : x < e
    BY <1>3, PoolWords
  <1>5. PICK d \in T : \A n \in T : n <= d
    BY <1>1, <1>4, GreatestBelow
  <1>6. d \in Nat /\ a.at <= d /\ d < e /\ d \in DOMAIN q.mSize
    BY <1>3, <1>4, <1>5
  <1>7. d \notin Ends(q)
    <2> SUFFICES ASSUME NEW b \in Areas(q), d = b.at + b.size PROVE FALSE
      BY DEF Ends
    <2>1. b.at \in Nat /\ b.size \in Nat
      BY PoolAreas
    <2>2. b # a
      BY <1>2, <1>3, <1>6, <1>1
    <2>3. QED
      BY <1>1, <1>2, <1>3, <1>6, <2>1, <2>2, AreasApart DEF Laid
  <1>8. d \in Chunks(q)
    BY <1>6, <1>7 DEF Chunks
  <1> DEFINE next == d + ChunkSize(q, d)
  <1>9. /\ ChunkSize(q, d) \in Nat /\ ChunkSize(q, d) >= 2 /\ next \in DOMAIN q.mSize
        /\ q.mPrevSize[next] = q.mSize[d] /\ \A x \in DOMAIN q.mSize : ~(d < x /\ x < next)
    BY <1>8, NextChunk
  <1>10. next = e
    <2>1. next \in Nat /\ d < next
      BY <1>6, <1>9
    <2>2. ~(e < next)
      BY <1>6, <1>9
    <2>3. ~(next < e)
      BY <1>5, <1>9, <2>1, <1>6
    <2>4. QED
      BY <1>1, <2>1, <2>2, <2>3
  <1>11. QED
    BY <1>6, <1>8, <1>9, <1>10

\* What Free and Realloc find before a chunk.
LEMMA Before ==
    ASSUME NEW q \in Pool, Laid(q), NEW c \in Chunks(q)
    PROVE  LET prev == c - PrevSize(q, c) IN
           /\ prev \in Chunks(q) /\ PrevSize(q, c) \in Nat
           /\ PrevInUse(q, c) \in BOOLEAN
           /\ PrevInUse(q, c) => InUse(q, prev) \/ prev = c
           /\ ~PrevInUse(q, c) => /\ prev \in FreeChunks(q) /\ PrevInUse(q, prev)
                                  /\ ChunkSize(q, prev) = PrevSize(q, c) /\ prev + PrevSize(q, c) = c
                                  /\ PrevSize(q, c) >= 2 /\ prev < c /\ InUse(q, c)
  <1>1. c \in DOMAIN q.mSize /\ c \in Nat /\ DOMAIN q.mPrevSize = DOMAIN q.mSize
    BY PoolWords DEF Chunks, Laid, Tiled
  <1>2. PrevSize(q, c) \in Nat /\ PrevInUse(q, c) \in BOOLEAN
    BY <1>1, PoolWords
  <1>3. CASE \E a \in Areas(q) : a.at = c
    <2>1. q.mPrevSize[c] = kChunkInUse
      BY <1>3, AreaPlace
    <2>2. PrevSize(q, c) = 0 /\ PrevInUse(q, c)
      BY <2>1 DEF kChunkInUse, Word, PrevSize, PrevInUse
    <2>3. c - PrevSize(q, c) = c
      BY <2>2, <1>1
    <2>4. QED
      BY <1>2, <2>2, <2>3
  <1>4. CASE ~\E a \in Areas(q) : a.at = c
    <2>1. PICK d \in Chunks(q) : d + ChunkSize(q, d) = c /\ q.mPrevSize[c] = q.mSize[d] /\ d < c
      BY <1>1, <1>4, PrevChunk
    <2>2. PrevSize(q, c) = ChunkSize(q, d) /\ PrevInUse(q, c) = InUse(q, d)
      BY <2>1 DEF PrevSize, ChunkSize, PrevInUse, InUse
    <2>3. /\ d \in Nat /\ ChunkSize(q, d) \in Nat /\ ChunkSize(q, d) >= 2
          /\ InUse(q, d) \/ (PrevInUse(q, d) /\ InUse(q, d + ChunkSize(q, d)))
      BY NextChunk
    <2>4. c - PrevSize(q, c) = d
      BY <2>1, <2>2, <2>3, <1>1
    <2>5. InUse(q, d) \in BOOLEAN
      BY PoolWords DEF Chunks
    <2>6. ~InUse(q, d) => d \in FreeChunks(q) /\ PrevInUse(q, d) /\ InUse(q, c)
      BY <2>1, <2>3 DEF FreeChunks
    <2>7. d + PrevSize(q, c) = c /\ PrevSize(q, c) >= 2
      BY <2>1, <2>2, <2>3
    <2>8. QED
      BY <1>2, <2>1, <2>2, <2>4, <2>6, <2>7, Zenon
  <1>5. QED
    BY <1>3, <1>4
-----------------------------------------------------------------------------
(* Headers written anew between c and e: those of M, after which every     *)
(* chunk from c to e is as it should be.                                   *)

Rewritten(q, r, c, e, M) ==
    /\ r.mAreas = q.mAreas /\ \A x \in M : x \in Nat /\ c < x /\ x < e
    /\ \A x : x \in DOMAIN r.mSize <=> x \in M \/ (x \in DOMAIN q.mSize /\ (x <= c \/ x >= e))
    /\ DOMAIN r.mPrevSize = DOMAIN r.mSize
    /\ \A x \in DOMAIN q.mSize : x < c \/ x >= e => r.mSize[x] = q.mSize[x]
    /\ \A x \in DOMAIN q.mSize : x <= c \/ x > e => r.mPrevSize[x] = q.mPrevSize[x]

Filled(r, c, e, M) ==
    \A x \in {c} \cup M : LET next == x + ChunkSize(r, x) IN
       /\ ChunkSize(r, x) >= 2 /\ next \in M \cup {e}
       /\ \A y \in M : ~(x < y /\ y < next)
       /\ r.mPrevSize[next] = r.mSize[x]
       /\ InUse(r, x) \/ (PrevInUse(r, x) /\ InUse(r, next))

\* A stretch from c to e: both are headers and there is no end between them.
Stretch(q, c, e) ==
    c \in Chunks(q) /\ e \in DOMAIN q.mSize /\ c < e /\ \A x \in Ends(q) : ~(c < x /\ x < e)

LEMMA RewrittenLaid ==
    ASSUME NEW q \in Pool, NEW r \in Pool, Laid(q), NEW c, NEW e, Stretch(q, c, e), NEW M,
           Rewritten(q, r, c, e, M), Filled(r, c, e, M),
           PrevInUse(r, e) \/ InUse(q, e), InUse(r, c) \/ PrevInUse(q, c)
    PROVE  /\ Laid(r) /\ Areas(r) = Areas(q) /\ Ends(r) = Ends(q)
           /\ \A x : x \in Chunks(r) <=> x \in M \/ (x \in Chunks(q) /\ (x <= c \/ x >= e))
  <1>1. /\ c \in Chunks(q) /\ c \in DOMAIN q.mSize /\ c \in Nat /\ e \in DOMAIN q.mSize /\ e \in Nat /\ c < e
        /\ \A x \in Ends(q) : ~(c < x /\ x < e)
    BY PoolWords DEF Stretch, Chunks
  <1>2. Areas(r) = Areas(q) /\ Ends(r) = Ends(q)
    BY DEF Rewritten, Areas, Ends
  <1>3. PICK a \in Areas(q) : /\ a.at <= c /\ e <= a.at + a.size
                              /\ \A b \in Areas(q) : b # a => b.at + b.size < c \/ e < b.at
    BY <1>1, OneArea
  <1>4. /\ \A x \in DOMAIN q.mSize : x <= c \/ x >= e => x \in DOMAIN r.mSize
        /\ \A x \in DOMAIN r.mSize : x \in M \/ (x \in DOMAIN q.mSize /\ (x <= c \/ x >= e))
        /\ M \subseteq DOMAIN r.mSize /\ \A x \in M : x \in Nat /\ c < x /\ x < e
    <2>1. \A x \in DOMAIN q.mSize : x \in Nat
      BY PoolWords
    <2>2. QED
      BY <1>1, <2>1 DEF Rewritten
  <1>5. \A x : x \in Chunks(r) <=> x \in M \/ (x \in Chunks(q) /\ (x <= c \/ x >= e))
    <2>1. M \cap Ends(q) = {}
      BY <1>1, <1>4
    <2>2. QED
      BY <1>2, <2>1 DEF Chunks, Rewritten
  <1>6. ASSUME NEW b \in Areas(q)
        PROVE  /\ {b.at, b.at + b.size} \subseteq DOMAIN r.mSize
               /\ r.mPrevSize[b.at] = kChunkInUse /\ r.mSize[b.at + b.size] = kChunkInUse
    <2>1. /\ b.at \in Nat /\ b.size \in Nat /\ b.size >= 2
          /\ b.at \in DOMAIN q.mSize /\ b.at + b.size \in DOMAIN q.mSize
          /\ q.mPrevSize[b.at] = kChunkInUse /\ q.mSize[b.at + b.size] = kChunkInUse
      BY AreaPlace
    <2>2. (b.at <= c \/ b.at > e) /\ (b.at + b.size < c \/ b.at + b.size >= e)
      BY <1>1, <1>3, <2>1
    <2>3. QED
      BY <1>1, <1>4, <2>1, <2>2 DEF Rewritten
  <1>7. Spaced(r)
    <2>1. \A x \in DOMAIN r.mSize : \E area \in Areas(q) : area.at <= x /\ x <= area.at + area.size
      <3> SUFFICES ASSUME NEW x \in DOMAIN r.mSize
                   PROVE  \E area \in Areas(q) : area.at <= x /\ x <= area.at + area.size
        OBVIOUS
      <3>1. CASE x \in M
        <4>1. a.at \in Nat /\ a.size \in Nat
          BY PoolAreas
        <4>2. QED
          BY <1>1, <1>3, <1>4, <3>1, <4>1
      <3>2. CASE x \in DOMAIN q.mSize
        BY <3>2 DEF Laid, Spaced
      <3>3. QED
        BY <1>4, <3>1, <3>2
    <2>2. r.mAreas = q.mAreas
      BY DEF Rewritten
    <2>3. QED
      BY <1>2, <2>1, <2>2 DEF Laid, Spaced
  <1>8. ASSUME NEW x \in Chunks(r)
        PROVE  LET next == x + ChunkSize(r, x) IN
               /\ ChunkSize(r, x) >= 2 /\ next \in DOMAIN r.mSize
               /\ \A y \in DOMAIN r.mSize : ~(x < y /\ y < next)
               /\ r.mPrevSize[next] = r.mSize[x]
               /\ InUse(r, x) \/ (PrevInUse(r, x) /\ InUse(r, next))
    <2> DEFINE next == x + ChunkSize(r, x)
    <2>0. x \in DOMAIN r.mSize /\ x \in Nat /\ ChunkSize(r, x) \in Nat
      BY PoolWords DEF Chunks
    <2>1. CASE x \in {c} \cup M
      <3>1. /\ ChunkSize(r, x) >= 2 /\ next \in M \cup {e} /\ \A y \in M : ~(x < y /\ y < next)
            /\ r.mPrevSize[next] = r.mSize[x]
            /\ InUse(r, x) \/ (PrevInUse(r, x) /\ InUse(r, next))
        BY <2>1 DEF Filled
      <3>2. next \in DOMAIN r.mSize /\ next <= e /\ x >= c
        BY <1>1, <1>4, <2>1, <3>1
      <3>3. ASSUME NEW y \in DOMAIN r.mSize, x < y, y < next PROVE FALSE
        <4>1. y \in Nat
          BY PoolWords
        <4>2. y \in M
          BY <1>1, <1>4, <2>0, <3>2, <3>3, <4>1
        <4>3. QED
          BY <3>1, <3>3, <4>2
      <3>4. QED
        BY <3>1, <3>2, <3>3
    <2>2. CASE x \notin {c} \cup M
      <3>1. x \in Chunks(q) /\ x \in DOMAIN q.mSize /\ (x < c \/ x >= e)
        BY <1>1, <1>4, <1>5, <2>0, <2>2 DEF Chunks
      <3>2. r.mSize[x] = q.mSize[x] /\ ChunkSize(r, x) = ChunkSize(q, x) /\ InUse(r, x) = InUse(q, x)
        BY <3>1 DEF Rewritten, ChunkSize, InUse
      <3>3. /\ ChunkSize(q, x) \in Nat /\ ChunkSize(q, x) >= 2
            /\ next \in DOMAIN q.mSize
            /\ \A y \in DOMAIN q.mSize : ~(x < y /\ y < next)
            /\ q.mPrevSize[next] = q.mSize[x]
            /\ InUse(q, x) \/ (PrevInUse(q, x) /\ InUse(q, next))
        BY <3>1, <3>2, NextChunk
      <3>4. next \in Nat /\ ((x < c /\ next <= c) \/ (x >= e /\ next > e))
        BY <1>1, <2>0, <3>1, <3>2, <3>3
      <3>5. next \in DOMAIN r.mSize
        BY <1>4, <1>1, <3>3, <3>4
      <3>6. r.mPrevSize[next] = r.mSize[x]
        BY <1>1, <3>2, <3>3, <3>4 DEF Rewritten
      <3>7. ASSUME NEW y \in DOMAIN r.mSize, x < y, y < next PROVE FALSE
        <4>1. y \in Nat
          BY PoolWords
        <4>2. y \notin M
          BY <1>1, <1>4, <2>0, <3>4, <3>7, <4>1
        <4>3. QED
          BY <1>4, <3>3, <3>7, <4>2
      <3>8. ASSUME ~InUse(r, x) PROVE PrevInUse(r, x)
        <4>1. CASE x = e
          BY <3>2, <3>8, <4>1
        <4>2. CASE x # e
          <5>1. r.mPrevSize[x] = q.mPrevSize[x]
            BY <1>1, <2>0, <3>1, <4>2 DEF Rewritten
          <5>2. QED
            BY <3>2, <3>3, <3>8, <5>1 DEF PrevInUse
        <4>3. QED
          BY <4>1, <4>2
      <3>9. ASSUME ~InUse(r, x) PROVE InUse(r, next)
        <4>1. CASE next = c
          <5>1. PrevInUse(q, c) = InUse(q, x)
            BY <3>3, <4>1 DEF PrevInUse, InUse
          <5>2. QED
            BY <3>2, <3>9, <4>1, <5>1
        <4>2. CASE next # c
          <5>1. r.mSize[next] = q.mSize[next]
            BY <1>1, <3>3, <3>4, <4>2 DEF Rewritten
          <5>2. QED
            BY <3>2, <3>3, <3>9, <5>1 DEF InUse
        <4>3. QED
          BY <4>1, <4>2
      <3>10. QED
        BY <3>2, <3>3, <3>5, <3>6, <3>7, <3>8, <3>9
    <2>3. QED
      BY <2>1, <2>2
  <1>9. Tiled(r)
    <2>1. \A x \in Chunks(r) : x \in Nat /\ ChunkSize(r, x) \in Nat /\ InUse(r, x) \in BOOLEAN
      BY PoolWords DEF Chunks
    <2>2. \A y \in DOMAIN r.mSize : y \in Nat
      BY PoolWords
    <2>3. ASSUME NEW x \in Chunks(r)
          PROVE  x + 1 .. (x + ChunkSize(r, x)) - 1 \cap DOMAIN r.mSize = {}
      BY <1>8, <2>1, <2>2
    <2>4. DOMAIN r.mPrevSize = DOMAIN r.mSize
      BY DEF Rewritten
    <2>5. \A x \in Chunks(r) : ChunkSize(r, x) >= kMinAllocSize
      BY <1>8, MinSize
    <2>6. \A area \in Areas(r) :
             /\ {area.at, area.at + area.size} \subseteq DOMAIN r.mSize
             /\ r.mPrevSize[area.at] = kChunkInUse /\ r.mSize[area.at + area.size] = kChunkInUse
      BY <1>2, <1>6
    <2>7. ASSUME NEW x \in Chunks(r)
          PROVE  LET next == x + ChunkSize(r, x) IN
                 /\ ChunkSize(r, x) >= kMinAllocSize /\ next \in DOMAIN r.mSize
                 /\ x + 1 .. next - 1 \cap DOMAIN r.mSize = {}
                 /\ r.mPrevSize[next] = r.mSize[x]
                 /\ InUse(r, x) \/ (PrevInUse(r, x) /\ InUse(r, next))
      <3> DEFINE next == x + ChunkSize(r, x)
      <3>1. /\ next \in DOMAIN r.mSize /\ r.mPrevSize[next] = r.mSize[x]
            /\ InUse(r, x) \/ (PrevInUse(r, x) /\ InUse(r, next))
        BY <1>8, Zenon
      <3>2. x + 1 .. next - 1 \cap DOMAIN r.mSize = {}
        BY <2>3, Zenon
      <3>3. QED
        BY <2>5, <3>1, <3>2, Zenon
    <2>8. QED
      BY <2>4, <2>6, <2>7 DEF Tiled
  <1>10. QED
    BY <1>2, <1>5, <1>7, <1>9 DEF Laid

\* The pool r has other chunks from c to e, those at c and in M, and the rest as q has it.
Relaid(q, r, c, e, M) ==
    /\ r \in Pool /\ Laid(r) /\ r.mAreas = q.mAreas /\ Areas(r) = Areas(q) /\ Ends(r) = Ends(q)
    /\ \A x : x \in Chunks(r) <=> x \in M \/ (x \in Chunks(q) /\ (x <= c \/ x >= e))
    /\ \A x \in Chunks(q) : x < c \/ x >= e => r.mSize[x] = q.mSize[x]
    /\ r.mSize[e] = q.mSize[e] /\ r.mPrevSize[c] = q.mPrevSize[c]

LEMMA StretchPlaces ==
    ASSUME NEW q \in Pool, Laid(q), NEW c, NEW e, Stretch(q, c, e)
    PROVE  /\ c \in Chunks(q) /\ c \in DOMAIN q.mSize /\ e \in DOMAIN q.mSize /\ c \in Nat /\ e \in Nat /\ c < e
           /\ DOMAIN q.mPrevSize = DOMAIN q.mSize /\ \A x \in DOMAIN q.mSize : x \in Nat
  BY PoolWords DEF Stretch, Chunks, Laid, Tiled

LEMMA RelaidBy ==
    ASSUME NEW q \in Pool, NEW r \in Pool, Laid(q), NEW c, NEW e, Stretch(q, c, e), NEW M,
           Rewritten(q, r, c, e, M), Filled(r, c, e, M),
           PrevInUse(r, e) \/ InUse(q, e), InUse(r, c) \/ PrevInUse(q, c)
    PROVE  Relaid(q, r, c, e, M)
  <1>1. /\ Laid(r) /\ Areas(r) = Areas(q) /\ Ends(r) = Ends(q)
        /\ \A x : x \in Chunks(r) <=> x \in M \/ (x \in Chunks(q) /\ (x <= c \/ x >= e))
    BY RewrittenLaid
  <1>2. /\ c \in DOMAIN q.mSize /\ e \in DOMAIN q.mSize /\ c \in Nat /\ e \in Nat /\ c < e
    BY StretchPlaces
  <1>3. r.mSize[e] = q.mSize[e] /\ r.mPrevSize[c] = q.mPrevSize[c] /\ r.mAreas = q.mAreas
    BY <1>2 DEF Rewritten
  <1>4. \A x \in Chunks(q) : x < c \/ x >= e => r.mSize[x] = q.mSize[x]
    BY DEF Rewritten, Chunks
  <1>5. QED
    BY <1>1, <1>3, <1>4 DEF Relaid

\* One chunk from c to e.
LEMMA Merged ==
    ASSUME NEW q \in Pool, Laid(q), NEW c, NEW e, Stretch(q, c, e), NEW w \in WordRec, e = c + w.size,
           w.size >= 2, w.inUse \/ (PrevInUse(q, c) /\ InUse(q, e)),
           NEW r \in Pool, Wrote(q, r, c, e, w), r.mAreas = q.mAreas
    PROVE  Relaid(q, r, c, e, {}) /\ r.mSize[c] = w
  <1>1. /\ c \in DOMAIN q.mSize /\ e \in DOMAIN q.mSize /\ c \in Nat /\ e \in Nat /\ c < e
        /\ DOMAIN q.mPrevSize = DOMAIN q.mSize /\ \A x \in DOMAIN q.mSize : x \in Nat
    BY StretchPlaces
  <1>2. Rewritten(q, r, c, e, {})
    <2>1. \A x : x \in DOMAIN r.mSize <=> x \in {} \/ (x \in DOMAIN q.mSize /\ (x <= c \/ x >= e))
      BY <1>1 DEF Wrote
    <2>2. DOMAIN r.mPrevSize = DOMAIN r.mSize
      <3>1. \A x : x \in DOMAIN r.mPrevSize <=> x \in DOMAIN r.mSize
        BY <1>1 DEF Wrote
      <3>2. QED
        BY <3>1, Zenon
    <2>3. \A x \in DOMAIN q.mSize : x < c \/ x >= e => r.mSize[x] = q.mSize[x]
      BY <1>1 DEF Wrote
    <2>4. \A x \in DOMAIN q.mSize : x <= c \/ x > e => r.mPrevSize[x] = q.mPrevSize[x]
      BY <1>1 DEF Wrote
    <2>5. QED
      BY <2>1, <2>2, <2>3, <2>4 DEF Rewritten
  <1>3. r.mSize[c] = w /\ r.mPrevSize[e] = w /\ r.mSize[e] = q.mSize[e] /\ r.mPrevSize[c] = q.mPrevSize[c]
    BY <1>1 DEF Wrote
  <1>4. w.size \in Nat /\ w.inUse \in BOOLEAN
    BY DEF WordRec
  <1>5. /\ ChunkSize(r, c) = w.size /\ InUse(r, c) = w.inUse /\ PrevInUse(r, e) = w.inUse
        /\ PrevInUse(r, c) = PrevInUse(q, c) /\ InUse(r, e) = InUse(q, e)
    BY <1>3 DEF ChunkSize, InUse, PrevInUse
  <1>6. Filled(r, c, e, {})
    BY <1>3, <1>5 DEF Filled
  <1>7. QED
    BY <1>2, <1>3, <1>5, <1>6, RelaidBy

Halved(q, r, c, m, e, v, w) == Relaid(q, r, c, e, {m}) /\ r.mSize[c] = v /\ r.mSize[m] = w

\* Two chunks from c to e, the second at m.
LEMMA Divided ==
    ASSUME NEW q \in Pool, Laid(q), NEW c, NEW e, Stretch(q, c, e), NEW m,
           NEW v \in WordRec, NEW w \in WordRec, m = c + v.size, e = m + w.size, v.size >= 2, w.size >= 2,
           v.inUse \/ (PrevInUse(q, c) /\ w.inUse), w.inUse \/ (v.inUse /\ InUse(q, e)),
           NEW t, Wrote(q, t, m, e, w), NEW r \in Pool, Wrote(t, r, c, m, v), r.mAreas = q.mAreas
    PROVE  Halved(q, r, c, m, e, v, w)
  <1>1. /\ c \in DOMAIN q.mSize /\ e \in DOMAIN q.mSize /\ c \in Nat /\ e \in Nat /\ c < e
        /\ DOMAIN q.mPrevSize = DOMAIN q.mSize /\ \A x \in DOMAIN q.mSize : x \in Nat
    BY StretchPlaces
  <1>2. v.size \in Nat /\ v.inUse \in BOOLEAN /\ w.size \in Nat /\ w.inUse \in BOOLEAN
    BY DEF WordRec
  <1>3. m \in Nat /\ c < m /\ m < e
    BY <1>1, <1>2
  <1>4. \A x : x \in DOMAIN t.mSize <=> x = m \/ (x \in DOMAIN q.mSize /\ (x <= m \/ x >= e))
    BY DEF Wrote
  <1>5. \A x : x \in DOMAIN t.mPrevSize <=> x = e \/ (x \in DOMAIN q.mSize /\ (x <= m \/ x >= e))
    BY <1>1 DEF Wrote
  <1>6. \A x : x \in DOMAIN r.mSize <=> x = c \/ (x \in DOMAIN t.mSize /\ (x <= c \/ x >= m))
    BY DEF Wrote
  <1>7. \A x : x \in DOMAIN r.mPrevSize <=> x = m \/ (x \in DOMAIN t.mPrevSize /\ (x <= c \/ x >= m))
    BY DEF Wrote
  <1>8. Rewritten(q, r, c, e, {m})
    <2>1. \A x : x \in DOMAIN r.mSize <=> x \in {m} \/ (x \in DOMAIN q.mSize /\ (x <= c \/ x >= e))
      BY <1>1, <1>3, <1>4, <1>6
    <2>2. DOMAIN r.mPrevSize = DOMAIN r.mSize
      <3>1. \A x : x \in DOMAIN r.mPrevSize <=> x \in DOMAIN r.mSize
        BY <1>1, <1>3, <1>4, <1>5, <1>6, <1>7
      <3>2. QED
        BY <3>1, Zenon
    <2>3. \A x \in DOMAIN q.mSize : x < c \/ x >= e => r.mSize[x] = q.mSize[x]
      BY <1>1, <1>3, <1>4 DEF Wrote
    <2>4. \A x \in DOMAIN q.mSize : x <= c \/ x > e => r.mPrevSize[x] = q.mPrevSize[x]
      BY <1>1, <1>3, <1>5 DEF Wrote
    <2>5. QED
      BY <1>3, <2>1, <2>2, <2>3, <2>4 DEF Rewritten
  <1>9. /\ r.mSize[c] = v /\ r.mPrevSize[m] = v /\ r.mSize[m] = w /\ r.mPrevSize[e] = w
        /\ r.mSize[e] = q.mSize[e] /\ r.mPrevSize[c] = q.mPrevSize[c]
    BY <1>1, <1>3, <1>4, <1>5 DEF Wrote
  <1>10. /\ ChunkSize(r, c) = v.size /\ InUse(r, c) = v.inUse /\ PrevInUse(r, m) = v.inUse
         /\ ChunkSize(r, m) = w.size /\ InUse(r, m) = w.inUse /\ PrevInUse(r, e) = w.inUse
         /\ PrevInUse(r, c) = PrevInUse(q, c) /\ InUse(r, e) = InUse(q, e)
    BY <1>9 DEF ChunkSize, InUse, PrevInUse
  <1>11. Filled(r, c, e, {m})
    <2>1. ASSUME NEW x \in {c, m}
          PROVE  LET next == x + ChunkSize(r, x) IN
                 /\ ChunkSize(r, x) >= 2 /\ next \in {m} \cup {e}
                 /\ \A y \in {m} : ~(x < y /\ y < next)
                 /\ r.mPrevSize[next] = r.mSize[x]
                 /\ InUse(r, x) \/ (PrevInUse(r, x) /\ InUse(r, next))
      BY <1>3, <1>9, <1>10
    <2>2. QED
      BY <2>1 DEF Filled
  <1>12. Relaid(q, r, c, e, {m})
    BY <1>8, <1>9, <1>10, <1>11, RelaidBy
  <1>13. r.mSize[c] = v /\ r.mSize[m] = w
    BY <1>8, <1>9, <1>10, <1>11
  <1>14. QED
    BY <1>12, <1>13 DEF Halved
-----------------------------------------------------------------------------
(* Blocks under the headers that are written. *)

Harmed(b, W) == [b EXCEPT !.kept = @ /\ \A a \in W : ~(b.at < a /\ a < b.at + b.len)]

LEMMA HarmedFields ==
    ASSUME NEW b \in BlockRec, NEW W
    PROVE  /\ Harmed(b, W) \in BlockRec
           /\ Harmed(b, W).at = b.at /\ Harmed(b, W).len = b.len /\ Harmed(b, W).back = b.back
           /\ (\A a \in W : ~(b.at < a /\ a < b.at + b.len)) => Harmed(b, W) = b
  <1>1. /\ Harmed(b, W) \in BlockRec
        /\ Harmed(b, W).at = b.at /\ Harmed(b, W).len = b.len /\ Harmed(b, W).back = b.back
        /\ Harmed(b, W).kept = (b.kept /\ \A a \in W : ~(b.at < a /\ a < b.at + b.len))
    BY DEF Harmed, BlockRec
  <1>2. ASSUME \A a \in W : ~(b.at < a /\ a < b.at + b.len) PROVE Harmed(b, W) = b
    <2>1. Harmed(b, W).kept = b.kept
      <3>1. b.kept \in BOOLEAN
        BY DEF BlockRec
      <3>2. QED
        BY <1>1, <1>2, <3>1, Zenon
    <2>2. QED
      BY <1>1, <2>1 DEF BlockRec
  <1>3. QED
    BY <1>1, <1>2

LEMMA ClobberIs ==
    ASSUME NEW B, NEW W
    PROVE  /\ \A d : d \in Clobber(B, W) <=> \E b \in B : d = Harmed(b, W)
  BY DEF Clobber, Harmed

LEMMA HarmedTwice ==
    ASSUME NEW b \in BlockRec, NEW V, NEW W
    PROVE  Harmed(Harmed(b, V), W) = Harmed(b, V \cup W)
  <1> DEFINE d == Harmed(b, V)
             In(a) == b.at < a /\ a < b.at + b.len
  <1>1. /\ d \in BlockRec /\ d.at = b.at /\ d.len = b.len /\ d.back = b.back
        /\ d.kept = (b.kept /\ \A a \in V : ~In(a))
    BY DEF Harmed, BlockRec
  <1> HIDE DEF d
  <1>2. /\ Harmed(d, W) \in BlockRec /\ Harmed(d, W).at = d.at /\ Harmed(d, W).len = d.len
        /\ Harmed(d, W).back = d.back
        /\ Harmed(d, W).kept = (d.kept /\ \A a \in W : ~(d.at < a /\ a < d.at + d.len))
    BY <1>1 DEF Harmed, BlockRec
  <1>3. /\ Harmed(b, V \cup W) \in BlockRec /\ Harmed(b, V \cup W).at = b.at /\ Harmed(b, V \cup W).len = b.len
        /\ Harmed(b, V \cup W).back = b.back
        /\ Harmed(b, V \cup W).kept = (b.kept /\ \A a \in V \cup W : ~In(a))
    BY DEF Harmed, BlockRec
  <1>4. Harmed(d, W).kept = (d.kept /\ \A a \in W : ~In(a))
    BY <1>1, <1>2
  <1> HIDE DEF In
  <1>5. Harmed(d, W).kept = Harmed(b, V \cup W).kept
    <2>1. b.kept \in BOOLEAN /\ d.kept \in BOOLEAN
      BY <1>1 DEF BlockRec
    <2>2. QED
      BY <1>1, <1>3, <1>4, <2>1, Zenon
  <1>6. Harmed(d, W) = Harmed(b, V \cup W)
    BY <1>1, <1>2, <1>3, <1>5 DEF BlockRec
  <1>7. QED
    BY <1>6 DEF d

LEMMA ClobberTwice ==
    ASSUME NEW B \in SUBSET BlockRec, NEW V, NEW W
    PROVE  Clobber(Clobber(B, V), W) = Clobber(B, V \cup W)
  <1>1. \A b \in B : Harmed(Harmed(b, V), W) = Harmed(b, V \cup W)
    BY HarmedTwice
  <1>2. \A d : d \in Clobber(Clobber(B, V), W) <=> \E b \in Clobber(B, V) : d = Harmed(b, W)
    BY ClobberIs, Zenon
  <1>3. \A d : d \in Clobber(B, V) <=> \E b \in B : d = Harmed(b, V)
    BY ClobberIs, Zenon
  <1>4. \A d : d \in Clobber(B, V \cup W) <=> \E b \in B : d = Harmed(b, V \cup W)
    BY ClobberIs, Zenon
  <1>5. \A d : d \in Clobber(Clobber(B, V), W) <=> d \in Clobber(B, V \cup W)
    <2>1. ASSUME NEW d \in Clobber(Clobber(B, V), W) PROVE d \in Clobber(B, V \cup W)
      <3>1. PICK b \in Clobber(B, V) : d = Harmed(b, W)
        BY <1>2
      <3>2. PICK a \in B : b = Harmed(a, V)
        BY <1>3
      <3>3. d = Harmed(a, V \cup W)
        BY <1>1, <3>1, <3>2
      <3>4. QED
        BY <1>4, <3>3
    <2>2. ASSUME NEW d \in Clobber(B, V \cup W) PROVE d \in Clobber(Clobber(B, V), W)
      <3>1. PICK a \in B : d = Harmed(a, V \cup W)
        BY <1>4
      <3>2. Harmed(a, V) \in Clobber(B, V)
        BY <1>3
      <3>3. d = Harmed(Harmed(a, V), W)
        BY <1>1, <3>1
      <3>4. QED
        BY <1>2, <3>2, <3>3
    <2>3. QED
      BY <2>1, <2>2
  <1>6. QED
    BY <1>5, Zenon

\* Headers written outside of the chunks of U leave their blocks alone.
LEMMA HeldFrame ==
    ASSUME NEW q \in Pool, NEW r \in Pool, NEW U, NEW x, Held(q, U, x),
           NEW W, r.blocks = Clobber(q.blocks, W), \A a \in W : a \in Nat,
           \A d \in U : /\ d \in Nat /\ ChunkSize(q, d) \in Nat /\ ChunkSize(r, d) = ChunkSize(q, d)
                        /\ \A a \in W : ~(d < a /\ a < d + ChunkSize(q, d))
    PROVE  Held(r, U, x)
  <1>1. q.blocks \subseteq BlockRec
    BY PoolFields
  <1>2. \A d : d \in r.blocks <=> \E b \in q.blocks : d = Harmed(b, W)
    <2>1. \A d : d \in Clobber(q.blocks, W) <=> \E b \in q.blocks : d = Harmed(b, W)
      BY ClobberIs, Zenon
    <2>2. QED
      BY <2>1
  <1>3. ASSUME NEW d \in r.blocks, d.at # x
        PROVE  d.at \in U /\ ChunkSize(r, d.at) - d.len \in 0 .. kMinAllocSize - 1 /\ (d.kept \/ d.back)
    <2>1. PICK b \in q.blocks : d = Harmed(b, W)
      BY <1>2
    <2>2. b \in BlockRec /\ b.at \in Nat /\ b.len \in Nat
      BY <1>1 DEF BlockRec
    <2>3. d.at = b.at
      BY <2>1, <2>2, HarmedFields
    <2>4. b.at \in U /\ ChunkSize(q, b.at) - b.len \in 0 .. kMinAllocSize - 1 /\ (b.kept \/ b.back)
      BY <1>3, <2>3 DEF Held
    <2>5. b.len <= ChunkSize(q, b.at) /\ ChunkSize(q, b.at) \in Nat /\ ChunkSize(r, b.at) = ChunkSize(q, b.at)
      BY <2>2, <2>4
    <2>6. \A a \in W : ~(b.at < a /\ a < b.at + b.len)
      BY <2>2, <2>4, <2>5
    <2>7. d = b
      BY <2>1, <2>2, <2>6, HarmedFields
    <2>8. QED
      BY <2>4, <2>5, <2>7
  <1>4. ASSUME NEW b \in r.blocks, NEW d \in r.blocks, b.at = d.at PROVE b = d
    <2>1. PICK bb \in q.blocks, dd \in q.blocks : b = Harmed(bb, W) /\ d = Harmed(dd, W)
      BY <1>2
    <2>2. bb.at = dd.at
      BY <1>1, <1>4, <2>1, HarmedFields
    <2>3. QED
      BY <2>1, <2>2 DEF Held
  <1>5. ASSUME NEW c \in U PROVE \E b \in r.blocks : b.at = c
    <2>1. PICK b \in q.blocks : b.at = c
      BY DEF Held
    <2>2. Harmed(b, W) \in r.blocks /\ Harmed(b, W).at = c
      BY <1>1, <1>2, <2>1, HarmedFields
    <2>3. QED
      BY <2>2
  <1>6. QED
    BY <1>3, <1>4, <1>5 DEF Held

\* Blocks of the pool are changed, its headers are not.
LEMMA HeldWith ==
    ASSUME NEW q \in Pool, NEW r, NEW U, NEW x, Held(q, U, x), r.mSize = q.mSize,
           NEW b \in BlockRec, r.blocks = {d \in q.blocks : d.at # x} \cup {b},
           b.at \notin U \/ b.at = x, ChunkSize(q, b.at) - b.len \in 0 .. kMinAllocSize - 1, b.kept \/ b.back
    PROVE  Held(r, (U \ {x}) \cup {b.at}, Nobody)
  <1>1. \A d \in q.blocks : d.at # x => d.at \in U /\ d.at # b.at /\ d.at # Nobody
    <2>1. \A d \in q.blocks : d.at \in Nat
      BY PoolFields DEF BlockRec
    <2>2. QED
      BY <2>1 DEF Held, Nobody
  <1>2. \A d \in r.blocks : d = b \/ (d \in q.blocks /\ d.at # x)
    OBVIOUS
  <1>3. \A c : ChunkSize(r, c) = ChunkSize(q, c)
    BY DEF ChunkSize
  <1>4. ASSUME NEW d \in r.blocks
        PROVE  d.at \in (U \ {x}) \cup {b.at} /\ ChunkSize(r, d.at) - d.len \in 0 .. kMinAllocSize - 1
               /\ (d.kept \/ d.back)
    BY <1>1, <1>2, <1>3 DEF Held
  <1>5. \A d, f \in r.blocks : d.at = f.at => d = f
    BY <1>1, <1>2 DEF Held
  <1>6. ASSUME NEW c \in (U \ {x}) \cup {b.at} PROVE \E d \in r.blocks : d.at = c
    <2>1. CASE c = b.at
      BY <2>1
    <2>2. CASE c \in U /\ c # x
      BY <2>2 DEF Held
    <2>3. QED
      BY <2>1, <2>2
  <1>7. QED
    BY <1>4, <1>5, <1>6 DEF Held
-----------------------------------------------------------------------------
(* Bins. *)

LEMMA BinsFrame ==
    ASSUME NEW q, NEW r, NEW F, Bins(q, F), r.mBins = q.mBins, r.mBinBlocks = q.mBinBlocks,
           \A c \in F : ChunkSize(r, c) = ChunkSize(q, c)
    PROVE  Bins(r, F)
  <1>1. \A i \in DOMAIN r.mBins : r.mBins[i] # <<>> /\ OneBin(r, i, r.mBins[i], F)
    <2> SUFFICES ASSUME NEW i \in DOMAIN q.mBins PROVE q.mBins[i] # <<>> /\ OneBin(r, i, q.mBins[i], F)
      OBVIOUS
    <2>1. q.mBins[i] # <<>> /\ OneBin(q, i, q.mBins[i], F)
      BY DEF Bins
    <2>2. QED
      BY <2>1 DEF OneBin
  <1>2. QED
    BY <1>1 DEF Bins

LEMMA BinIndexNat ==
    ASSUME NEW n \in Nat
    PROVE  BinIndex(n) \in Nat
  BY DEF BinIndex

\* Bin i of r is s, and its bit says whether there is anything in it.
BinIs(q, r, i, s) ==
    /\ r.mBins = IF s = <<>> THEN Without(q.mBins, {i}) ELSE Except(q.mBins, i, s)
    /\ r.mBinBlocks = IF s = <<>> THEN q.mBinBlocks \ {i} ELSE q.mBinBlocks \cup {i}

Has(s, c) == \E j \in DOMAIN s : s[j] = c
AllOf(q, i, s, G) == \A c \in G : BinIndex(ChunkSize(q, c)) = i => Has(s, c)

\* The place l of a bin is between larger and smaller chunks than n.
Fits(q, i, bin, l, n) ==
    i >= kNumSmallBins => /\ \A j \in 1 .. l - 1 : ChunkSize(q, bin[j]) >= n
                          /\ \A j \in l .. Len(bin) : ChunkSize(q, bin[j]) <= n

\* One bin is another one.
LEMMA BinChanged ==
    ASSUME NEW q, NEW r, NEW F, NEW G, Bins(q, F), NEW i, NEW s, r.mSize = q.mSize,
           BinIs(q, r, i, s), OneBin(q, i, s, G), AllOf(q, i, s, G),
           \A c : BinIndex(ChunkSize(q, c)) # i => (c \in F <=> c \in G)
    PROVE  Bins(r, G)
  <1>1. \A c : ChunkSize(r, c) = ChunkSize(q, c)
    BY DEF ChunkSize
  <1>2. \A k : k \in DOMAIN r.mBins <=> IF k = i THEN s # <<>> ELSE k \in DOMAIN q.mBins
    BY DEF Without, Except, BinIs
  <1>3. \A k \in DOMAIN r.mBins : r.mBins[k] = IF k = i THEN s ELSE q.mBins[k]
    BY DEF Without, Except, BinIs
  <1>4. ASSUME NEW k \in DOMAIN r.mBins PROVE r.mBins[k] # <<>> /\ OneBin(r, k, r.mBins[k], G)
    <2>1. CASE k = i
      <3>1. r.mBins[k] = s /\ s # <<>>
        BY <1>2, <1>3, <2>1
      <3>2. QED
        BY <1>1, <2>1, <3>1 DEF OneBin
    <2>2. CASE k # i
      <3>1. k \in DOMAIN q.mBins /\ r.mBins[k] = q.mBins[k]
        BY <1>2, <1>3, <2>2
      <3>2. q.mBins[k] # <<>> /\ OneBin(q, k, q.mBins[k], F)
        BY <3>1 DEF Bins
      <3>3. OneBin(r, k, q.mBins[k], G)
        BY <1>1, <2>2, <3>2 DEF OneBin
      <3>4. QED
        BY <3>1, <3>2, <3>3
    <2>3. QED
      BY <2>1, <2>2
  <1>5. ASSUME NEW c \in G
        PROVE  /\ BinIndex(ChunkSize(r, c)) \in DOMAIN r.mBins
               /\ \E j \in DOMAIN r.mBins[BinIndex(ChunkSize(r, c))] : r.mBins[BinIndex(ChunkSize(r, c))][j] = c
    <2> DEFINE k == BinIndex(ChunkSize(q, c))
    <2>0. BinIndex(ChunkSize(r, c)) = k
      BY <1>1
    <2> HIDE DEF k
    <2>1. CASE k = i
      <3>1. PICK j \in DOMAIN s : s[j] = c
        BY <2>1 DEF k, AllOf, Has
      <3>2. s # <<>>
        BY <3>1
      <3>3. k \in DOMAIN r.mBins /\ r.mBins[k] = s
        BY <1>2, <1>3, <2>1, <3>2
      <3>4. QED
        BY <2>0, <3>1, <3>3
    <2>2. CASE k # i
      <3>1. c \in F
        BY <2>2 DEF k
      <3>2. k \in DOMAIN q.mBins /\ \E j \in DOMAIN q.mBins[k] : q.mBins[k][j] = c
        BY <3>1 DEF Bins, k
      <3>3. k \in DOMAIN r.mBins /\ r.mBins[k] = q.mBins[k]
        BY <1>2, <1>3, <2>2, <3>2
      <3>4. QED
        BY <2>0, <3>2, <3>3
    <2>3. QED
      BY <2>1, <2>2
  <1>6. r.mBinBlocks = DOMAIN r.mBins
    <2>1. q.mBinBlocks = DOMAIN q.mBins
      BY DEF Bins
    <2>2. \A k : k \in r.mBinBlocks <=> k \in DOMAIN r.mBins
      BY <1>2, <2>1 DEF BinIs
    <2>3. QED
      BY <2>2, Zenon
  <1>7. QED
    BY <1>4, <1>5, <1>6 DEF Bins

Inserted(s, bin, k, c) ==
    /\ s \in Seq(Nat) /\ Len(s) = Len(bin) + 1
    /\ \A j \in 1 .. Len(s) : s[j] = IF j < k THEN bin[j] ELSE IF j = k THEN c ELSE bin[j - 1]

Erased(s, bin, k) ==
    /\ s \in Seq(Nat) /\ Len(s) = Len(bin) - 1
    /\ \A j \in 1 .. Len(s) : s[j] = IF j < k THEN bin[j] ELSE bin[j + 1]

LEMMA PartOf ==
    ASSUME NEW S, NEW s \in Seq(S), NEW m \in Nat, NEW n \in Nat, 1 <= m, m <= n + 1, n <= Len(s)
    PROVE  /\ SubSeq(s, m, n) \in Seq(S) /\ Len(SubSeq(s, m, n)) = (n - m) + 1
           /\ \A j \in 1 .. (n - m) + 1 : SubSeq(s, m, n)[j] = s[j + (m - 1)]
  <1>1. m \in Int /\ n \in Int /\ \A i \in m .. n : s[i] \in S
    OBVIOUS
  <1>2. /\ SubSeq(s, m, n) \in Seq(S) /\ Len(SubSeq(s, m, n)) = IF m <= n THEN n - m + 1 ELSE 0
        /\ \A i \in 1 .. n - m + 1 : SubSeq(s, m, n)[i] = s[m + i - 1]
    BY <1>1, SubSeqProperties, SMTT(40)
  <1>3. PICK v : v = SubSeq(s, m, n)
    OBVIOUS
  <1>4. \A j \in 1 .. (n - m) + 1 : m + j - 1 = j + (m - 1)
    OBVIOUS
  <1>5. v \in Seq(S) /\ Len(v) = (n - m) + 1 /\ \A j \in 1 .. (n - m) + 1 : v[j] = s[j + (m - 1)]
    BY <1>2, <1>3, <1>4, SMTT(40)
  <1>6. QED
    BY <1>3, <1>5, Zenon

LEMMA InsertFirst ==
    ASSUME NEW bin \in Seq(Nat), NEW c \in Nat
    PROVE  Inserted(<<c>> \o bin, bin, 1, c)
  BY DEF Inserted

\* The sequence s is u and then v.
Joined(s, u, v) ==
    /\ s \in Seq(Nat) /\ Len(s) = Len(u) + Len(v)
    /\ \A j \in 1 .. Len(u) + Len(v) : s[j] = IF j <= Len(u) THEN u[j] ELSE v[j - Len(u)]

LEMMA JoinedIs ==
    ASSUME NEW u \in Seq(Nat), NEW v \in Seq(Nat)
    PROVE  Joined(u \o v, u, v)
  BY ConcatProperties, Zenon DEF Joined

LEMMA InsertJoined ==
    ASSUME NEW bin \in Seq(Nat), NEW c \in Nat, NEW k \in 1 .. Len(bin) + 1,
           NEW u \in Seq(Nat), Len(u) = k - 1, \A j \in 1 .. k - 1 : u[j] = bin[j],
           NEW v \in Seq(Nat), Len(v) = (Len(bin) - k) + 1, \A j \in 1 .. (Len(bin) - k) + 1 : v[j] = bin[j + (k - 1)],
           NEW w, Joined(w, u, <<c>>), NEW s, Joined(s, w, v)
    PROVE  Inserted(s, bin, k, c)
  <1>1. Len(bin) \in Nat /\ k \in Nat
    OBVIOUS
  <1>2. w \in Seq(Nat) /\ Len(w) = k /\ w[k] = c /\ \A j \in 1 .. k - 1 : w[j] = bin[j]
    BY <1>1, SMTT(40) DEF Joined
  <1>3. s \in Seq(Nat) /\ Len(s) = Len(bin) + 1
    BY <1>1, <1>2 DEF Joined
  <1>4. ASSUME NEW j \in 1 .. Len(s) PROVE s[j] = IF j < k THEN bin[j] ELSE IF j = k THEN c ELSE bin[j - 1]
    <2>1. j \in Nat /\ j \in 1 .. Len(bin) + 1 /\ s[j] = IF j <= k THEN w[j] ELSE v[j - k]
      <3>1. j \in Nat /\ j \in 1 .. Len(bin) + 1 /\ Len(w) + Len(v) = Len(bin) + 1
        BY <1>1, <1>2, <1>3
      <3>2. s[j] = IF j <= Len(w) THEN w[j] ELSE v[j - Len(w)]
        BY <3>1, Zenon DEF Joined
      <3>3. QED
        BY <1>2, <3>1, <3>2, Zenon
    <2>2. CASE j < k
      BY <1>1, <1>2, <2>1, <2>2
    <2>3. CASE j = k
      BY <1>1, <1>2, <2>1, <2>3
    <2>4. CASE j > k
      <3>1. j - k \in 1 .. (Len(bin) - k) + 1 /\ (j - k) + (k - 1) = j - 1
        BY <1>1, <2>1, <2>4
      <3>2. QED
        BY <1>1, <2>1, <2>4, <3>1
    <2>5. QED
      BY <1>1, <2>1, <2>2, <2>3, <2>4
  <1>5. QED
    BY <1>3, <1>4 DEF Inserted

LEMMA InsertAt ==
    ASSUME NEW bin \in Seq(Nat), NEW c \in Nat, NEW k \in 1 .. Len(bin) + 1
    PROVE  Inserted(SubSeq(bin, 1, k - 1) \o <<c>> \o SubSeq(bin, k, Len(bin)), bin, k, c)
  <1> DEFINE u == SubSeq(bin, 1, k - 1)
             v == SubSeq(bin, k, Len(bin))
             w == u \o <<c>>
  <1>0. k \in Nat /\ k - 1 \in Nat /\ Len(bin) \in Nat /\ <<c>> \in Seq(Nat)
    OBVIOUS
  <1>1. u \in Seq(Nat) /\ Len(u) = k - 1 /\ \A j \in 1 .. k - 1 : u[j] = bin[j]
    <2>1. \A j \in 1 .. k - 1 : bin[j] \in Nat
      OBVIOUS
    <2>2. QED
      BY <1>0, <2>1
  <1>2. v \in Seq(Nat) /\ Len(v) = (Len(bin) - k) + 1 /\ \A j \in 1 .. (Len(bin) - k) + 1 : v[j] = bin[j + (k - 1)]
    <2>1. 1 <= k /\ k <= Len(bin) + 1 /\ Len(bin) <= Len(bin)
      OBVIOUS
    <2>2. QED
      BY <1>0, <2>1, PartOf, ZenonT(60)
  <1> HIDE DEF u, v
  <1>3. Joined(w, u, <<c>>)
    BY <1>0, <1>1, JoinedIs, Zenon
  <1>4. w \in Seq(Nat)
    BY <1>3 DEF Joined
  <1> HIDE DEF w
  <1>5. Joined(w \o v, w, v)
    BY <1>2, <1>4, JoinedIs, Zenon
  <1>6. Inserted(w \o v, bin, k, c)
    BY <1>1, <1>2, <1>3, <1>5, InsertJoined, Zenon
  <1>7. QED
    BY <1>6, Zenon DEF u, v, w

LEMMA EraseJoined ==
    ASSUME NEW bin \in Seq(Nat), NEW k \in 1 .. Len(bin),
           NEW u \in Seq(Nat), Len(u) = k - 1, \A j \in 1 .. k - 1 : u[j] = bin[j],
           NEW v \in Seq(Nat), Len(v) = Len(bin) - k, \A j \in 1 .. Len(bin) - k : v[j] = bin[j + k],
           NEW s, Joined(s, u, v)
    PROVE  Erased(s, bin, k)
  <1>1. Len(bin) \in Nat /\ k \in Nat
    OBVIOUS
  <1>2. s \in Seq(Nat) /\ Len(s) = Len(bin) - 1
    BY <1>1 DEF Joined
  <1>3. ASSUME NEW j \in 1 .. Len(s) PROVE s[j] = IF j < k THEN bin[j] ELSE bin[j + 1]
    <2>1. j \in Nat /\ j \in 1 .. Len(bin) - 1 /\ s[j] = IF j <= k - 1 THEN u[j] ELSE v[j - (k - 1)]
      <3>1. j \in Nat /\ j \in 1 .. Len(bin) - 1 /\ Len(u) + Len(v) = Len(bin) - 1
        BY <1>1, <1>2
      <3>2. s[j] = IF j <= Len(u) THEN u[j] ELSE v[j - Len(u)]
        BY <3>1, Zenon DEF Joined
      <3>3. QED
        BY <3>1, <3>2, Zenon
    <2>2. CASE j < k
      BY <1>1, <2>1, <2>2
    <2>3. CASE j >= k
      <3>1. j - (k - 1) \in 1 .. Len(bin) - k /\ (j - (k - 1)) + k = j + 1
        BY <1>1, <2>1, <2>3
      <3>2. QED
        BY <1>1, <2>1, <2>3, <3>1, SMTT(40)
    <2>4. QED
      BY <1>1, <2>1, <2>2, <2>3
  <1>4. QED
    BY <1>2, <1>3 DEF Erased

LEMMA EraseAt ==
    ASSUME NEW bin \in Seq(Nat), NEW k \in 1 .. Len(bin)
    PROVE  Erased(SubSeq(bin, 1, k - 1) \o SubSeq(bin, k + 1, Len(bin)), bin, k)
  <1> DEFINE u == SubSeq(bin, 1, k - 1)
             v == SubSeq(bin, k + 1, Len(bin))
  <1>0. 1 \in Nat /\ k \in Nat /\ k - 1 \in Nat /\ Len(bin) \in Nat /\ k + 1 \in Nat
    OBVIOUS
  <1>1. u \in Seq(Nat) /\ Len(u) = k - 1 /\ \A j \in 1 .. k - 1 : u[j] = bin[j]
    <2>1. \A j \in 1 .. k - 1 : bin[j] \in Nat
      OBVIOUS
    <2>2. QED
      BY <1>0, <2>1
  <1>2. v \in Seq(Nat) /\ Len(v) = Len(bin) - k /\ \A j \in 1 .. Len(bin) - k : v[j] = bin[j + k]
    <2>1. 1 <= k + 1 /\ k + 1 <= Len(bin) + 1 /\ Len(bin) <= Len(bin)
      OBVIOUS
    <2>2. /\ v \in Seq(Nat) /\ Len(v) = (Len(bin) - (k + 1)) + 1
          /\ \A j \in 1 .. (Len(bin) - (k + 1)) + 1 : v[j] = bin[j + ((k + 1) - 1)]
      BY <1>0, <2>1, PartOf, ZenonT(60)
    <2>3. QED
      BY <1>0, <2>2
  <1> HIDE DEF u, v
  <1>3. Joined(u \o v, u, v)
    BY <1>1, <1>2, JoinedIs, Zenon
  <1>4. Erased(u \o v, bin, k)
    BY <1>1, <1>2, <1>3, EraseJoined, Zenon
  <1>5. QED
    BY <1>4, Zenon DEF u, v

\* A chunk is put in its place in a bin.
LEMMA OneBinInsert ==
    ASSUME NEW q, NEW F, NEW i, NEW bin \in Seq(Nat), OneBin(q, i, bin, F),
           NEW c \in Nat, c \notin F, BinIndex(ChunkSize(q, c)) = i,
           NEW k \in 1 .. Len(bin) + 1, NEW s, Inserted(s, bin, k, c), ChunkSize(q, c) \in Nat,
           \A f \in F : ChunkSize(q, f) \in Nat,
           Fits(q, i, bin, k, ChunkSize(q, c))
    PROVE  /\ OneBin(q, i, s, F \cup {c}) /\ s \in Seq(Nat) /\ s # <<>> /\ Has(s, c)
           /\ \A f : Has(bin, f) => Has(s, f)
  <1>1. /\ s \in Seq(Nat) /\ Len(s) = Len(bin) + 1 /\ DOMAIN s = 1 .. Len(bin) + 1 /\ DOMAIN bin = 1 .. Len(bin)
        /\ Len(bin) \in Nat /\ k \in Nat /\ k >= 1 /\ k <= Len(bin) + 1
    BY DEF Inserted
  <1>2. \A j \in 1 .. Len(bin) + 1 : s[j] = IF j < k THEN bin[j] ELSE IF j = k THEN c ELSE bin[j - 1]
    BY <1>1 DEF Inserted
  <1> DEFINE Old(j) == IF j < k THEN j ELSE j - 1
  <1>3. s[k] = c
    BY <1>1, <1>2
  <1>4. \A j \in 1 .. Len(bin) + 1 : j # k => s[j] = bin[Old(j)] /\ Old(j) \in 1 .. Len(bin)
    BY <1>1, <1>2
  <1>5. \A j \in 1 .. Len(bin) + 1 : \A l \in 1 .. Len(bin) + 1 :
           j # k /\ l # k => (Old(j) = Old(l) => j = l) /\ (j < l => Old(j) < Old(l))
    BY <1>1, SMTT(40)
  <1>6. \A j \in 1 .. Len(bin) + 1 : (j < k => Old(j) \in 1 .. k - 1) /\ (j > k => Old(j) \in k .. Len(bin))
    BY <1>1
  <1> HIDE DEF Old
  <1>7. ASSUME NEW j \in 1 .. Len(bin) + 1
        PROVE  /\ s[j] \in F \cup {c} /\ BinIndex(ChunkSize(q, s[j])) = i
               /\ s[j] = c <=> j = k
    <2>1. CASE j = k
      BY <1>3, <2>1
    <2>2. CASE j # k
      <3>1. s[j] \in F /\ BinIndex(ChunkSize(q, s[j])) = i
        BY <1>1, <1>4, <2>2 DEF OneBin
      <3>2. QED
        BY <2>2, <3>1
    <2>3. QED
      BY <2>1, <2>2
  <1>8. ASSUME NEW j \in 1 .. Len(bin) + 1, NEW l \in 1 .. Len(bin) + 1
        PROVE  /\ s[l] = s[j] => l = j
               /\ i >= kNumSmallBins /\ j < l => ChunkSize(q, s[l]) <= ChunkSize(q, s[j])
    <2>1. CASE j = k
      <3>1. s[l] = s[j] => l = j
        BY <1>3, <1>7, <2>1
      <3>2. ASSUME i >= kNumSmallBins, j < l PROVE ChunkSize(q, s[l]) <= ChunkSize(q, s[j])
        <4>1. l # k /\ l > k
          BY <1>1, <2>1, <3>2
        <4>2. s[l] = bin[Old(l)] /\ Old(l) \in k .. Len(bin)
          BY <1>4, <1>6, <4>1
        <4>3. QED
          BY <1>3, <2>1, <3>2, <4>2 DEF Fits
      <3>3. QED
        BY <3>1, <3>2
    <2>2. CASE j # k /\ l = k
      <3>1. s[l] = s[j] => l = j
        BY <1>3, <1>7, <2>2
      <3>2. ASSUME i >= kNumSmallBins, j < l PROVE ChunkSize(q, s[l]) <= ChunkSize(q, s[j])
        <4>1. s[j] = bin[Old(j)] /\ Old(j) \in 1 .. k - 1
          BY <1>4, <1>6, <2>2, <3>2
        <4>2. ChunkSize(q, bin[Old(j)]) >= ChunkSize(q, c)
          BY <3>2, <4>1 DEF Fits
        <4>3. ChunkSize(q, s[j]) \in Nat
          BY <1>7
        <4>4. QED
          BY <1>3, <2>2, <4>1, <4>2, <4>3
      <3>3. QED
        BY <3>1, <3>2
    <2>3. CASE j # k /\ l # k
      <3>1. /\ s[j] = bin[Old(j)] /\ Old(j) \in 1 .. Len(bin)
            /\ s[l] = bin[Old(l)] /\ Old(l) \in 1 .. Len(bin)
            /\ (Old(l) = Old(j) => l = j) /\ (j < l => Old(j) < Old(l))
        BY <1>4, <1>5, <2>3
      <3>2. /\ bin[Old(l)] = bin[Old(j)] => Old(l) = Old(j)
            /\ i >= kNumSmallBins /\ Old(j) < Old(l) => ChunkSize(q, bin[Old(l)]) <= ChunkSize(q, bin[Old(j)])
        BY <1>1, <3>1 DEF OneBin
      <3>3. QED
        BY <3>1, <3>2
    <2>4. QED
      BY <2>1, <2>2, <2>3
  <1>9. OneBin(q, i, s, F \cup {c})
    BY <1>1, <1>7, <1>8 DEF OneBin
  <1>10. ASSUME NEW f, NEW j \in DOMAIN bin, bin[j] = f PROVE \E l \in DOMAIN s : s[l] = f
    <2>1. CASE j < k
      <3>1. j \in 1 .. Len(bin) + 1 /\ s[j] = bin[j]
        BY <1>1, <1>2, <2>1, SMTT(40)
      <3>2. QED
        BY <1>1, <1>10, <3>1
    <2>2. CASE j >= k
      <3>1. j + 1 \in 1 .. Len(bin) + 1 /\ s[j + 1] = bin[(j + 1) - 1] /\ (j + 1) - 1 = j
        BY <1>1, <1>2, <2>2, SMTT(40)
      <3>2. QED
        BY <1>1, <1>10, <3>1
    <2>3. QED
      BY <1>1, <2>1, <2>2
  <1>11. s # <<>> /\ Has(s, c)
    BY <1>1, <1>3 DEF Has
  <1>12. QED
    BY <1>1, <1>9, <1>10, <1>11 DEF Has

LEMMA OneBinErase ==
    ASSUME NEW q, NEW F, NEW i, NEW bin \in Seq(Nat), OneBin(q, i, bin, F),
           NEW k \in 1 .. Len(bin), NEW s, Erased(s, bin, k)
    PROVE  /\ OneBin(q, i, s, F \ {bin[k]}) /\ s \in Seq(Nat)
           /\ \A f : f # bin[k] /\ Has(bin, f) => Has(s, f)
  <1>1. /\ s \in Seq(Nat) /\ Len(s) = Len(bin) - 1 /\ DOMAIN s = 1 .. Len(bin) - 1 /\ DOMAIN bin = 1 .. Len(bin)
        /\ Len(bin) \in Nat /\ k \in Nat /\ k >= 1 /\ k <= Len(bin)
    BY DEF Erased
  <1>2. \A j \in 1 .. Len(bin) - 1 : s[j] = IF j < k THEN bin[j] ELSE bin[j + 1]
    BY <1>1 DEF Erased
  <1> DEFINE Old(j) == IF j < k THEN j ELSE j + 1
  <1>3. \A j \in 1 .. Len(bin) - 1 : s[j] = bin[Old(j)] /\ Old(j) \in 1 .. Len(bin) /\ Old(j) # k
    BY <1>1, <1>2, SMTT(40)
  <1>4. \A j \in 1 .. Len(bin) - 1 : \A l \in 1 .. Len(bin) - 1 :
           (Old(j) = Old(l) => j = l) /\ (j < l => Old(j) < Old(l))
    <2> SUFFICES ASSUME NEW j \in Nat, NEW l \in Nat
                 PROVE  (Old(j) = Old(l) => j = l) /\ (j < l => Old(j) < Old(l))
      OBVIOUS
    <2>1. k \in Nat
      BY <1>1
    <2>2. QED
      BY <2>1, SMTT(40)
  <1> HIDE DEF Old
  <1>5. ASSUME NEW j \in 1 .. Len(bin) - 1
        PROVE  s[j] \in F \ {bin[k]} /\ BinIndex(ChunkSize(q, s[j])) = i
    <2>1. s[j] = bin[Old(j)] /\ Old(j) \in 1 .. Len(bin) /\ Old(j) # k
      BY <1>3
    <2>2. QED
      BY <1>1, <2>1 DEF OneBin
  <1>6. ASSUME NEW j \in 1 .. Len(bin) - 1, NEW l \in 1 .. Len(bin) - 1
        PROVE  /\ s[l] = s[j] => l = j
               /\ i >= kNumSmallBins /\ j < l => ChunkSize(q, s[l]) <= ChunkSize(q, s[j])
    <2>1. /\ s[j] = bin[Old(j)] /\ Old(j) \in 1 .. Len(bin)
          /\ s[l] = bin[Old(l)] /\ Old(l) \in 1 .. Len(bin)
          /\ (Old(l) = Old(j) => l = j) /\ (j < l => Old(j) < Old(l))
      BY <1>3, <1>4
    <2>2. /\ bin[Old(l)] = bin[Old(j)] => Old(l) = Old(j)
          /\ i >= kNumSmallBins /\ Old(j) < Old(l) => ChunkSize(q, bin[Old(l)]) <= ChunkSize(q, bin[Old(j)])
      BY <1>1, <2>1 DEF OneBin
    <2>3. QED
      BY <2>1, <2>2
  <1>7. OneBin(q, i, s, F \ {bin[k]})
    BY <1>1, <1>5, <1>6 DEF OneBin
  <1>8. ASSUME NEW f, f # bin[k], NEW j \in DOMAIN bin, bin[j] = f PROVE \E l \in DOMAIN s : s[l] = f
    <2>1. CASE j < k
      <3>1. j \in 1 .. Len(bin) - 1 /\ s[j] = bin[j]
        BY <1>1, <1>2, <2>1, SMTT(40)
      <3>2. QED
        BY <1>1, <1>8, <3>1
    <2>2. CASE j > k
      <3>1. j - 1 \in 1 .. Len(bin) - 1 /\ s[j - 1] = bin[(j - 1) + 1] /\ (j - 1) + 1 = j
        <4>1. j \in Nat /\ j <= Len(bin) /\ k \in Nat /\ k >= 1 /\ Len(bin) \in Nat
          BY <1>1
        <4>2. j - 1 \in 1 .. Len(bin) - 1 /\ (j - 1) + 1 = j /\ ~(j - 1 < k)
          BY <2>2, <4>1
        <4>3. QED
          BY <1>2, <4>2
      <3>2. QED
        BY <1>1, <1>8, <3>1
    <2>3. QED
      BY <1>1, <1>8, <2>1, <2>2
  <1>9. QED
    BY <1>1, <1>7, <1>8 DEF Has

\* Everything but the bins.
SameHeads(q, r) ==
    r.mSize = q.mSize /\ r.mPrevSize = q.mPrevSize /\ r.mAreas = q.mAreas /\ r.blocks = q.blocks

LEMMA SetBinIs ==
    ASSUME NEW q \in Pool, NEW i \in Nat, NEW s \in Seq(Nat), NEW I \in SUBSET Nat,
           I = IF s = <<>> THEN q.mBinBlocks \ {i} ELSE q.mBinBlocks \cup {i},
           NEW r, r = [SetBin(q, i, s) EXCEPT !.mBinBlocks = I] \/ (r = SetBin(q, i, s) /\ I = q.mBinBlocks)
    PROVE  r \in Pool /\ SameHeads(q, r) /\ BinIs(q, r, i, s)
  <1> DEFINE f == IF s = <<>> THEN Without(q.mBins, {i}) ELSE Except(q.mBins, i, s)
             BB == UNION {[J -> Seq(Nat)] : J \in SUBSET Nat}
             WW == UNION {Words(D) : D \in SUBSET Nat}
  <1>1. q.mBins \in [DOMAIN q.mBins -> Seq(Nat)] /\ DOMAIN q.mBins \subseteq Nat
    BY PoolFields
  <1>2. f \in BB
    <2>1. CASE s = <<>>
      <3>1. f \in [DOMAIN q.mBins \ {i} -> Seq(Nat)]
        BY <1>1, <2>1 DEF Without
      <3>2. DOMAIN q.mBins \ {i} \in SUBSET Nat
        BY <1>1
      <3>3. QED
        BY <3>1, <3>2
    <2>2. CASE s # <<>>
      <3>1. f \in [DOMAIN q.mBins \cup {i} -> Seq(Nat)]
        BY <1>1, <2>2 DEF Except
      <3>2. DOMAIN q.mBins \cup {i} \in SUBSET Nat
        BY <1>1
      <3>3. QED
        BY <3>1, <3>2
    <2>3. QED
      BY <2>1, <2>2
  <1>3. SetBin(q, i, s) = [q EXCEPT !.mBins = f]
    BY DEF SetBin
  <1>4. q \in [mSize : WW, mPrevSize : WW, mBins : BB, mBinBlocks : SUBSET Nat,
               mAreas : Seq(AreaRec), blocks : SUBSET BlockRec]
    BY DEF Pool
  <1> HIDE DEF f, WW, BB
  <1>5. r = [[q EXCEPT !.mBins = f] EXCEPT !.mBinBlocks = I]
    <2>1. CASE r = SetBin(q, i, s) /\ I = q.mBinBlocks
      BY <1>3, <1>4, <2>1
    <2>2. CASE r = [SetBin(q, i, s) EXCEPT !.mBinBlocks = I]
      BY <1>3, <2>2
    <2>3. QED
      BY <2>1, <2>2
  <1>6. r \in [mSize : WW, mPrevSize : WW, mBins : BB, mBinBlocks : SUBSET Nat,
               mAreas : Seq(AreaRec), blocks : SUBSET BlockRec]
    BY <1>2, <1>4, <1>5
  <1>7. /\ r.mSize = q.mSize /\ r.mPrevSize = q.mPrevSize /\ r.mAreas = q.mAreas /\ r.blocks = q.blocks
        /\ r.mBins = f /\ r.mBinBlocks = I
    BY <1>4, <1>5
  <1>8. QED
    BY <1>6, <1>7 DEF Pool, SameHeads, BinIs, f, WW, BB

LEMMA BinType ==
    ASSUME NEW q \in Pool, NEW F, Bins(q, F), NEW i
    PROVE  /\ Bin(q, i) \in Seq(Nat) /\ OneBin(q, i, Bin(q, i), F)
           /\ i \in DOMAIN q.mBins <=> Bin(q, i) # <<>>
           /\ i \in DOMAIN q.mBins => Bin(q, i) = q.mBins[i]
  <1>1. q.mBins \in [DOMAIN q.mBins -> Seq(Nat)]
    BY PoolFields
  <1>2. CASE i \in DOMAIN q.mBins
    <2>1. Bin(q, i) = q.mBins[i] /\ q.mBins[i] # <<>> /\ OneBin(q, i, q.mBins[i], F)
      BY <1>2 DEF Bin, Bins
    <2>2. QED
      BY <1>1, <1>2, <2>1
  <1>3. CASE i \notin DOMAIN q.mBins
    <2>1. Bin(q, i) = <<>>
      BY <1>3 DEF Bin
    <2>2. OneBin(q, i, <<>>, F)
      BY DEF OneBin
    <2>3. QED
      BY <1>3, <2>1, <2>2
  <1>4. QED
    BY <1>2, <1>3

\* LinkFree finds a place where the order of sizes is kept.
LEMMA PlaceForIs ==
    ASSUME NEW q, NEW F, NEW i, NEW bin \in Seq(Nat), OneBin(q, i, bin, F), i >= kNumSmallBins,
           \A f \in F : ChunkSize(q, f) \in Nat, NEW n \in Nat, NEW k, k = PlaceFor(q, bin, n)
    PROVE  k \in 1 .. Len(bin) + 1 /\ Fits(q, i, bin, k, n)
  <1>1. Len(bin) \in Nat /\ DOMAIN bin = 1 .. Len(bin) /\ \A j \in 1 .. Len(bin) : ChunkSize(q, bin[j]) \in Nat
    BY DEF OneBin
  <1> DEFINE T == {l \in 1 .. Len(bin) + 1 : l <= Len(bin) => ChunkSize(q, bin[l]) <= n}
  <1>2. T \subseteq Nat /\ T # {}
    <2>1. Len(bin) + 1 \in T
      BY <1>1
    <2>2. QED
      BY <1>1, <2>1
  <1>3. PICK m \in T : \A l \in T : m <= l
    BY <1>2, LeastNat
  <1>4. /\ m \in 1 .. Len(bin) + 1
        /\ \A j \in 1 .. m - 1 : ChunkSize(q, bin[j]) > n
        /\ m <= Len(bin) => ChunkSize(q, bin[m]) <= n
    <2>1. ASSUME NEW j \in 1 .. m - 1 PROVE ChunkSize(q, bin[j]) > n
      <3>1. j \in 1 .. Len(bin) /\ j \notin T
        BY <1>1, <1>2, <1>3
      <3>2. ~(ChunkSize(q, bin[j]) <= n)
        BY <1>1, <3>1
      <3>3. QED
        BY <1>1, <3>1, <3>2
    <2>2. QED
      BY <1>3, <2>1
  <1>5. /\ k \in 1 .. Len(bin) + 1
        /\ \A j \in 1 .. k - 1 : ChunkSize(q, bin[j]) > n
        /\ k <= Len(bin) => ChunkSize(q, bin[k]) <= n
    BY <1>4 DEF PlaceFor
  <1>6. ASSUME NEW j \in 1 .. k - 1 PROVE ChunkSize(q, bin[j]) >= n
    <2>1. j \in 1 .. Len(bin)
      BY <1>1, <1>5
    <2>2. QED
      BY <1>1, <1>5, <2>1
  <1>7. ASSUME NEW j \in k .. Len(bin) PROVE ChunkSize(q, bin[j]) <= n
    <2>1. j \in 1 .. Len(bin) /\ k \in 1 .. Len(bin) /\ k <= Len(bin)
      BY <1>1, <1>5
    <2>2. k < j => ChunkSize(q, bin[j]) <= ChunkSize(q, bin[k])
      BY <1>1, <2>1 DEF OneBin
    <2>3. QED
      BY <1>1, <1>5, <2>1, <2>2
  <1>8. QED
    BY <1>5, <1>6, <1>7 DEF Fits

\* LinkFree puts one chunk more into the bins.
LEMMA LinkFreeIs ==
    ASSUME NEW q \in Pool, NEW F, Bins(q, F), \A f \in F : ChunkSize(q, f) \in Nat,
           NEW c \in Nat, c \notin F, ChunkSize(q, c) \in Nat, NEW r, r = LinkFree(q, c)
    PROVE  r \in Pool /\ SameHeads(q, r) /\ Bins(r, F \cup {c})
  <1> DEFINE n == ChunkSize(q, c)
             i == BinIndex(n)
             bin == Bin(q, i)
             k == PlaceFor(q, bin, n)
             first == <<c>> \o bin
             other == SubSeq(bin, 1, k - 1) \o <<c>> \o SubSeq(bin, k, Len(bin))
  <1>1. i \in Nat
    BY BinIndexNat
  <1>2. /\ bin \in Seq(Nat) /\ OneBin(q, i, bin, F) /\ (i \in DOMAIN q.mBins <=> bin # <<>>)
        /\ (i \in DOMAIN q.mBins => bin = q.mBins[i])
    BY BinType, Zenon
  <1>3. r = IF i < kNumSmallBins \/ bin = <<>> THEN [SetBin(q, i, first) EXCEPT !.mBinBlocks = q.mBinBlocks \cup {i}]
            ELSE SetBin(q, i, other)
    <2>1. [SetBin(q, i, first) EXCEPT !.mBinBlocks = @ \cup {i}]
          = [SetBin(q, i, first) EXCEPT !.mBinBlocks = q.mBinBlocks \cup {i}]
      BY DEF SetBin, Pool
    <2>2. QED
      BY <2>1 DEF LinkFree
  <1> HIDE DEF i, bin, k, first, other
  <1>4. q.mBinBlocks \subseteq Nat /\ q.mBinBlocks = DOMAIN q.mBins /\ q.mBinBlocks \cup {i} \in SUBSET Nat
    BY <1>1, PoolFields DEF Bins
  <1>5. PICK s, l : /\ l \in 1 .. Len(bin) + 1 /\ Inserted(s, bin, l, c)
                    /\ r = [SetBin(q, i, s) EXCEPT !.mBinBlocks = q.mBinBlocks \cup {i}]
                       \/ (r = SetBin(q, i, s) /\ q.mBinBlocks \cup {i} = q.mBinBlocks)
                    /\ Fits(q, i, bin, l, n)
    <2>1. CASE i < kNumSmallBins \/ bin = <<>>
      <3>1. Inserted(first, bin, 1, c)
        BY <1>2, InsertFirst DEF first
      <3>2. 1 \in 1 .. Len(bin) + 1
        BY <1>2
      <3>3. Fits(q, i, bin, 1, n)
        BY <1>1, <1>2, <2>1 DEF Fits, kNumSmallBins
      <3>4. r = [SetBin(q, i, first) EXCEPT !.mBinBlocks = q.mBinBlocks \cup {i}]
        BY <1>3, <2>1
      <3> HIDE DEF n
      <3>5. QED
        BY <3>1, <3>2, <3>3, <3>4, Zenon
    <2>2. CASE ~(i < kNumSmallBins) /\ bin # <<>>
      <3>1. i >= kNumSmallBins
        BY <1>1, <2>2 DEF kNumSmallBins
      <3>2. k \in 1 .. Len(bin) + 1 /\ Fits(q, i, bin, k, n)
        BY <1>2, <3>1, PlaceForIs DEF k
      <3>3. Inserted(other, bin, k, c)
        BY <1>2, <3>2, InsertAt DEF other
      <3>4. r = SetBin(q, i, other) /\ q.mBinBlocks \cup {i} = q.mBinBlocks
        BY <1>2, <1>3, <1>4, <2>2
      <3> HIDE DEF n
      <3>5. QED
        BY <3>1, <3>2, <3>3, <3>4, Zenon
    <2>3. QED
      BY <2>1, <2>2
  <1>6. /\ OneBin(q, i, s, F \cup {c}) /\ s \in Seq(Nat) /\ s # <<>> /\ Has(s, c)
        /\ \A f : Has(bin, f) => Has(s, f)
    <2>1. BinIndex(ChunkSize(q, c)) = i
      BY DEF i
    <2>2. QED
      BY <1>2, <1>5, <2>1, OneBinInsert, Zenon
  <1>7. r \in Pool /\ SameHeads(q, r) /\ BinIs(q, r, i, s)
    <2>1. q.mBinBlocks \cup {i} = IF s = <<>> THEN q.mBinBlocks \ {i} ELSE q.mBinBlocks \cup {i}
      BY <1>6
    <2>2. QED
      BY <1>1, <1>4, <1>5, <1>6, <2>1, SetBinIs
  <1>8. Bins(r, F \cup {c})
    <2>1. AllOf(q, i, s, F \cup {c})
      <3> SUFFICES ASSUME NEW f \in F \cup {c}, BinIndex(ChunkSize(q, f)) = i PROVE Has(s, f)
        BY Zenon DEF AllOf
      <3>1. CASE f = c
        BY <1>6, <3>1
      <3>2. CASE f \in F
        <4>1. i \in DOMAIN q.mBins /\ \E j \in DOMAIN q.mBins[i] : q.mBins[i][j] = f
          BY <3>2 DEF Bins
        <4>2. Has(bin, f)
          BY <1>2, <4>1 DEF Has
        <4>3. QED
          BY <1>6, <3>2, <4>2
      <3>3. QED
        BY <3>1, <3>2
    <2>2. \A f : BinIndex(ChunkSize(q, f)) # i => (f \in F <=> f \in F \cup {c})
      BY DEF i
    <2>3. r.mSize = q.mSize
      BY <1>7 DEF SameHeads
    <2>4. QED
      BY <1>6, <1>7, <2>1, <2>2, <2>3, BinChanged, Zenon
  <1>9. QED
    BY <1>7, <1>8

\* UnlinkFree takes a chunk out of the bins.
LEMMA UnlinkFreeIs ==
    ASSUME NEW q \in Pool, NEW F, Bins(q, F), NEW c \in F, ChunkSize(q, c) \in Nat, NEW r, r = UnlinkFree(q, c)
    PROVE  r \in Pool /\ SameHeads(q, r) /\ Bins(r, F \ {c})
  <1> DEFINE i == BinIndex(ChunkSize(q, c))
             bin == Bin(q, i)
             k == CHOOSE j \in DOMAIN bin : bin[j] = c
             left == SubSeq(bin, 1, k - 1) \o SubSeq(bin, k + 1, Len(bin))
             I == IF left = <<>> THEN q.mBinBlocks \ {i} ELSE q.mBinBlocks
  <1>1. i \in Nat
    BY BinIndexNat
  <1>2. /\ bin \in Seq(Nat) /\ OneBin(q, i, bin, F)
        /\ (i \in DOMAIN q.mBins => bin = q.mBins[i])
    BY BinType, Zenon
  <1>3. i \in DOMAIN q.mBins /\ \E j \in DOMAIN q.mBins[i] : q.mBins[i][j] = c
    BY DEF Bins
  <1>4. k \in DOMAIN bin /\ bin[k] = c
    <2> HIDE DEF bin
    <2>1. \E j \in DOMAIN bin : bin[j] = c
      BY <1>2, <1>3, SMTT(40)
    <2>2. QED
      BY <2>1
  <1>5. r = [SetBin(q, i, left) EXCEPT !.mBinBlocks = I]
    <2>1. [SetBin(q, i, left) EXCEPT !.mBinBlocks = IF left = <<>> THEN @ \ {i} ELSE @]
          = [SetBin(q, i, left) EXCEPT !.mBinBlocks = I]
      BY DEF SetBin, Pool
    <2>2. QED
      BY <2>1 DEF UnlinkFree
  <1> HIDE DEF i, bin, k, left
  <1>6. q.mBinBlocks \subseteq Nat /\ q.mBinBlocks = DOMAIN q.mBins
    BY PoolFields DEF Bins
  <1>7. I \in SUBSET Nat /\ I = IF left = <<>> THEN q.mBinBlocks \ {i} ELSE q.mBinBlocks \cup {i}
    BY <1>3, <1>6
  <1> HIDE DEF I
  <1>8. k \in 1 .. Len(bin) /\ Erased(left, bin, k)
    <2>1. k \in 1 .. Len(bin)
      BY <1>2, <1>4
    <2>2. QED
      BY <1>2, <2>1, EraseAt DEF left
  <1>9. /\ OneBin(q, i, left, F \ {c}) /\ left \in Seq(Nat)
        /\ \A f : f # c /\ Has(bin, f) => Has(left, f)
    <2>1. /\ OneBin(q, i, left, F \ {bin[k]}) /\ left \in Seq(Nat)
          /\ \A f : f # bin[k] /\ Has(bin, f) => Has(left, f)
      BY <1>2, <1>8, OneBinErase, Zenon
    <2>2. QED
      BY <1>4, <2>1
  <1>10. r \in Pool /\ SameHeads(q, r) /\ BinIs(q, r, i, left)
    BY <1>1, <1>5, <1>7, <1>9, SetBinIs, Zenon
  <1>11. Bins(r, F \ {c})
    <2>1. AllOf(q, i, left, F \ {c})
      <3> SUFFICES ASSUME NEW f \in F \ {c}, BinIndex(ChunkSize(q, f)) = i PROVE Has(left, f)
        BY Zenon DEF AllOf
      <3>1. i \in DOMAIN q.mBins /\ \E j \in DOMAIN q.mBins[i] : q.mBins[i][j] = f
        BY DEF Bins
      <3>2. Has(bin, f)
        BY <1>2, <3>1 DEF Has
      <3>3. QED
        BY <1>9, <3>2
    <2>2. \A f : BinIndex(ChunkSize(q, f)) # i => (f \in F <=> f \in F \ {c})
      BY DEF i
    <2>3. r.mSize = q.mSize
      BY <1>10 DEF SameHeads
    <2>4. QED
      BY <1>9, <1>10, <2>1, <2>2, <2>3, BinChanged, Zenon
  <1>12. QED
    BY <1>10, <1>11
-----------------------------------------------------------------------------
(* Pieces of the operations. *)

LEMMA ChunkPlace ==
    ASSUME NEW q \in Pool, NEW c \in Chunks(q)
    PROVE  c \in Nat /\ c \in DOMAIN q.mSize /\ ChunkSize(q, c) \in Nat /\ InUse(q, c) \in BOOLEAN
  BY PoolWords DEF Chunks

LEMMA ChunksApart ==
    ASSUME NEW q \in Pool, Laid(q), NEW c \in Chunks(q), NEW d \in DOMAIN q.mSize, c < d
    PROVE  c + ChunkSize(q, c) <= d
  <1>1. c \in Nat /\ d \in Nat /\ ChunkSize(q, c) \in Nat
    BY ChunkPlace, PoolWords
  <1>2. ~(d < c + ChunkSize(q, c))
    BY NextChunk
  <1>3. QED
    BY <1>1, <1>2

LEMMA StretchOne ==
    ASSUME NEW q \in Pool, Laid(q), NEW c \in Chunks(q)
    PROVE  Stretch(q, c, c + ChunkSize(q, c))
  <1>1. /\ c \in Nat /\ ChunkSize(q, c) \in Nat /\ ChunkSize(q, c) >= 2
        /\ c + ChunkSize(q, c) \in DOMAIN q.mSize
        /\ \A x \in Ends(q) : ~(c < x /\ x < c + ChunkSize(q, c))
    BY NextChunk
  <1>2. c < c + ChunkSize(q, c)
    BY <1>1
  <1>3. QED
    BY <1>1, <1>2 DEF Stretch

LEMMA StretchTwo ==
    ASSUME NEW q \in Pool, Laid(q), NEW c, NEW d, NEW e, Stretch(q, c, d), Stretch(q, d, e)
    PROVE  Stretch(q, c, e)
  <1>1. c \in Nat /\ d \in Nat /\ e \in Nat
    BY StretchPlaces
  <1>2. d \notin Ends(q)
    BY DEF Stretch, Chunks
  <1>3. \A x \in Ends(q) : x \in Nat
    BY PoolAreas DEF Ends
  <1>4. QED
    BY <1>1, <1>2, <1>3 DEF Stretch

LEMMA SameLaid ==
    ASSUME NEW q, NEW r, r.mSize = q.mSize, r.mPrevSize = q.mPrevSize, r.mAreas = q.mAreas
    PROVE  /\ Laid(q) => Laid(r)
           /\ Areas(r) = Areas(q) /\ Ends(r) = Ends(q) /\ Chunks(r) = Chunks(q)
           /\ FreeChunks(r) = FreeChunks(q) /\ UsedChunks(r) = UsedChunks(q)
           /\ \A c : ChunkSize(r, c) = ChunkSize(q, c) /\ InUse(r, c) = InUse(q, c)
           /\ \A c : PrevSize(r, c) = PrevSize(q, c) /\ PrevInUse(r, c) = PrevInUse(q, c)
  <1>1. /\ \A c : ChunkSize(r, c) = ChunkSize(q, c) /\ InUse(r, c) = InUse(q, c)
        /\ \A c : PrevSize(r, c) = PrevSize(q, c) /\ PrevInUse(r, c) = PrevInUse(q, c)
    BY DEF ChunkSize, InUse, PrevSize, PrevInUse
  <1>2. Areas(r) = Areas(q)
    BY DEF Areas
  <1>3. Ends(r) = Ends(q)
    BY <1>2 DEF Ends
  <1>4. Chunks(r) = Chunks(q)
    BY <1>3 DEF Chunks
  <1>5. FreeChunks(r) = FreeChunks(q) /\ UsedChunks(r) = UsedChunks(q)
    BY <1>1, <1>4 DEF FreeChunks, UsedChunks
  <1>6. Spaced(q) => Spaced(r)
    BY <1>2 DEF Spaced
  <1>7. Tiled(q) => Tiled(r)
    BY <1>1, <1>2, <1>4 DEF Tiled
  <1>8. QED
    BY <1>1, <1>2, <1>3, <1>4, <1>5, <1>6, <1>7 DEF Laid

\* Headers that are written from c to e are none of the business of blocks elsewhere.
LEMMA HeldRelaid ==
    ASSUME NEW q \in Pool, Laid(q), NEW c, NEW e, Stretch(q, c, e), NEW M, NEW r \in Pool, Relaid(q, r, c, e, M),
           NEW U, NEW x, Held(q, U, x), \A d \in U : d \in Chunks(q) /\ (d < c \/ d >= e),
           NEW W, r.blocks = Clobber(q.blocks, W), \A a \in W : a \in Nat /\ c <= a /\ a <= e
    PROVE  Held(r, U, x)
  <1>1. c \in Nat /\ e \in Nat /\ c \in DOMAIN q.mSize /\ c < e
    BY StretchPlaces
  <1>2. ASSUME NEW d \in U
        PROVE  /\ d \in Nat /\ ChunkSize(q, d) \in Nat /\ ChunkSize(r, d) = ChunkSize(q, d)
               /\ \A a \in W : ~(d < a /\ a < d + ChunkSize(q, d))
    <2>1. d \in Nat /\ ChunkSize(q, d) \in Nat /\ d \in Chunks(q) /\ (d < c \/ d >= e)
      BY ChunkPlace
    <2>2. r.mSize[d] = q.mSize[d]
      BY <2>1 DEF Relaid
    <2>3. d < c => d + ChunkSize(q, d) <= c
      BY <1>1, <2>1, ChunksApart
    <2>4. \A a \in W : ~(d < a /\ a < d + ChunkSize(q, d))
      BY <1>1, <2>1, <2>3
    <2>5. QED
      BY <2>1, <2>2, <2>4 DEF ChunkSize
  <1>3. \A a \in W : a \in Nat
    OBVIOUS
  <1>4. QED
    BY <1>2, <1>3, HeldFrame

\* Which chunks are free and in use then.
LEMMA RelaidChunks ==
    ASSUME NEW q, NEW c \in Nat, NEW e \in Nat, c < e, NEW M, NEW r, Relaid(q, r, c, e, M), c \in Chunks(q),
           \A d \in Chunks(q) : d \in Nat, \A d \in M : d \notin Chunks(q) \/ (c <= d /\ d < e)
    PROVE  /\ c \in Chunks(r) /\ \A d \in M : d \in Chunks(r)
           /\ \A d : d # c /\ d \notin M =>
                 /\ d \in FreeChunks(r) <=> d \in FreeChunks(q) /\ (d < c \/ d >= e)
                 /\ d \in UsedChunks(r) <=> d \in UsedChunks(q) /\ (d < c \/ d >= e)
           /\ \A d \in Chunks(q) : d < c \/ d >= e =>
                 ChunkSize(r, d) = ChunkSize(q, d) /\ InUse(r, d) = InUse(q, d)
  <1>1. \A x : x \in Chunks(r) <=> x \in M \/ (x \in Chunks(q) /\ (x <= c \/ x >= e))
    BY DEF Relaid
  <1>2. \A d \in Chunks(q) : d < c \/ d >= e => ChunkSize(r, d) = ChunkSize(q, d) /\ InUse(r, d) = InUse(q, d)
    BY DEF Relaid, ChunkSize, InUse
  <1>3. ASSUME NEW d, d # c, d \notin M
        PROVE  /\ d \in FreeChunks(r) <=> d \in FreeChunks(q) /\ (d < c \/ d >= e)
               /\ d \in UsedChunks(r) <=> d \in UsedChunks(q) /\ (d < c \/ d >= e)
    <2>1. d \in Chunks(r) <=> d \in Chunks(q) /\ (d < c \/ d >= e)
      <3>1. d \in Chunks(r) <=> d \in Chunks(q) /\ (d <= c \/ d >= e)
        BY <1>1, <1>3, Zenon
      <3>2. d \in Chunks(q) => (d <= c <=> d < c)
        BY <1>3
      <3>3. QED
        BY <3>1, <3>2, Zenon
    <2>2. QED
      BY <1>2, <2>1 DEF FreeChunks, UsedChunks
  <1>4. QED
    BY <1>1, <1>2, <1>3

Rotated(t, s, i, f) ==
    /\ f \in [DOMAIN t -> DOMAIN s \ {i}]
    /\ \A j \in DOMAIN t : t[j] = s[f[j]]
    /\ \A j, k \in DOMAIN t : f[j] = f[k] => j = k
    /\ \A k \in DOMAIN s \ {i} : \E j \in DOMAIN t : f[j] = k

LEMMA RotatedJoin ==
    ASSUME NEW S, NEW s \in Seq(S), NEW i \in 1 .. Len(s), NEW t \in Seq(S), NEW u, NEW v,
           Len(u) = Len(s) - i, \A j \in 1 .. Len(s) - i : u[j] = s[j + i],
           Len(v) = i - 1, \A j \in 1 .. i - 1 : v[j] = s[j],
           Len(t) = Len(u) + Len(v),
           \A j \in 1 .. Len(u) + Len(v) : t[j] = IF j <= Len(u) THEN u[j] ELSE v[j - Len(u)]
    PROVE  \E f : Rotated(t, s, i, f)
  <1> DEFINE l == Len(s) - i
             f == [j \in DOMAIN t |-> IF j <= l THEN j + i ELSE j - l]
  <1>1. /\ Len(s) \in Nat /\ i \in Nat /\ l \in Nat /\ DOMAIN s = 1 .. Len(s)
        /\ DOMAIN t = 1 .. Len(s) - 1 /\ Len(u) + Len(v) = Len(s) - 1
    OBVIOUS
  <1>2. \A j \in DOMAIN t : f[j] \in DOMAIN s \ {i}
    BY <1>1, SMTT(40)
  <1>3. \A j, k \in DOMAIN t : f[j] = f[k] => j = k
    BY <1>1, SMTT(40)
  <1>4. ASSUME NEW k \in DOMAIN s \ {i} PROVE \E j \in DOMAIN t : f[j] = k
    <2>1. CASE k > i
      <3>1. k - i \in DOMAIN t /\ k - i <= l /\ (k - i) + i = k
        BY <1>1, <2>1
      <3>2. QED
        BY <3>1
    <2>2. CASE k < i
      <3>1. k + l \in DOMAIN t /\ ~(k + l <= l) /\ (k + l) - l = k
        BY <1>1, <2>2
      <3>2. QED
        BY <3>1
    <2>3. QED
      BY <1>1, <2>1, <2>2
  <1>5. ASSUME NEW j \in DOMAIN t PROVE t[j] = s[f[j]]
    <2>1. t[j] = IF j <= l THEN u[j] ELSE v[j - l]
      BY <1>1
    <2>2. CASE j <= l
      <3>1. j \in 1 .. Len(s) - i /\ f[j] = j + i
        BY <1>1, <2>2
      <3>2. QED
        BY <2>1, <2>2, <3>1
    <2>3. CASE ~(j <= l)
      <3>1. j - l \in 1 .. i - 1 /\ f[j] = j - l
        BY <1>1, <2>3
      <3>2. QED
        BY <2>1, <2>3, <3>1
    <2>4. QED
      BY <2>2, <2>3
  <1>6. f \in [DOMAIN t -> DOMAIN s \ {i}]
    BY <1>2
  <1> HIDE DEF f, l
  <1>7. Rotated(t, s, i, f)
    BY <1>3, <1>4, <1>5, <1>6 DEF Rotated
  <1>8. QED
    BY <1>7

\* What FreeArea makes of the list of areas.
LEMMA RotatedAreas ==
    ASSUME NEW s \in Seq(AreaRec), NEW i \in DOMAIN s,
           NEW t, t = SubSeq(s, i + 1, Len(s)) \o SubSeq(s, 1, i - 1)
    PROVE  t \in Seq(AreaRec) /\ \E f : Rotated(t, s, i, f)
  <1> DEFINE u == SubSeq(s, i + 1, Len(s))
             v == SubSeq(s, 1, i - 1)
  <1>0. /\ i \in 1 .. Len(s) /\ i \in Nat /\ Len(s) \in Nat /\ i + 1 \in Nat
        /\ 1 <= i + 1 /\ i + 1 <= Len(s) + 1 /\ Len(s) <= Len(s)
    OBVIOUS
  <1>1. u \in Seq(AreaRec) /\ Len(u) = Len(s) - i /\ \A j \in 1 .. Len(s) - i : u[j] = s[j + i]
    <2>1. /\ u \in Seq(AreaRec) /\ Len(u) = (Len(s) - (i + 1)) + 1
          /\ \A j \in 1 .. (Len(s) - (i + 1)) + 1 : u[j] = s[j + ((i + 1) - 1)]
      BY <1>0, PartOf, Zenon
    <2> HIDE DEF u
    <2>2. (Len(s) - (i + 1)) + 1 = Len(s) - i /\ (i + 1) - 1 = i
      BY <1>0
    <2>3. QED
      BY <2>1, <2>2, Zenon
  <1>2. v \in Seq(AreaRec) /\ Len(v) = i - 1 /\ \A j \in 1 .. i - 1 : v[j] = s[j]
    <2>1. \A j \in 1 .. i - 1 : s[j] \in AreaRec
      BY <1>0
    <2>2. QED
      BY <1>0, <2>1
  <1> HIDE DEF u, v
  <1>3. /\ u \o v \in Seq(AreaRec) /\ Len(u \o v) = Len(u) + Len(v)
        /\ \A j \in 1 .. Len(u) + Len(v) : (u \o v)[j] = IF j <= Len(u) THEN u[j] ELSE v[j - Len(u)]
    BY <1>1, <1>2, ConcatProperties, Zenon
  <1>4. t = u \o v
    BY Zenon DEF u, v
  <1>5. \E f : Rotated(u \o v, s, i, f)
    BY <1>0, <1>1, <1>2, <1>3, RotatedJoin, Zenon
  <1>6. QED
    BY <1>3, <1>4, <1>5, Zenon

\* A chunk that IsArea fills an area.
LEMMA AreaIs ==
    ASSUME NEW q \in Pool, Laid(q), NEW c \in Chunks(q), IsArea(q, c)
    PROVE  \E a \in Areas(q) : a.at = c /\ a.at + a.size = c + ChunkSize(q, c)
  <1>1. /\ q.mPrevSize[c] = kChunkInUse /\ q.mSize[c + ChunkSize(q, c)] = kChunkInUse /\ kChunkInUse.size = 0
        /\ c \in DOMAIN q.mSize /\ c \in Nat /\ ChunkSize(q, c) \in Nat /\ ChunkSize(q, c) >= 2
    BY ChunkPlace, NextChunk DEF IsArea, kChunkInUse, Word
  <1>2. PICK a \in Areas(q) : a.at = c
    <2> SUFFICES ASSUME \A a \in Areas(q) : a.at # c PROVE FALSE
      OBVIOUS
    <2>1. PICK d \in Chunks(q) : q.mPrevSize[c] = q.mSize[d]
      BY <1>1, PrevChunk
    <2>2. ChunkSize(q, d) >= 2
      BY NextChunk
    <2>3. QED
      BY <1>1, <2>1, <2>2 DEF ChunkSize
  <1> DEFINE next == c + ChunkSize(q, c)
  <1>3. next \in Ends(q)
    <2> SUFFICES ASSUME next \in Chunks(q) PROVE FALSE
      BY NextChunk
    <2>1. ChunkSize(q, next) >= 2
      BY NextChunk
    <2>2. QED
      BY <1>1, <2>1 DEF ChunkSize
  <1>4. PICK b \in Areas(q) : next = b.at + b.size
    BY <1>3 DEF Ends
  <1>5. a = b
    <2> SUFFICES ASSUME a # b PROVE FALSE
      OBVIOUS
    <2>1. /\ a.at \in Nat /\ a.size \in Nat /\ a.size >= 2 /\ a.at + a.size \in Ends(q)
          /\ b.at \in Nat /\ b.size \in Nat
      BY AreaPlace
    <2>2. a.at + a.size < b.at \/ b.at + b.size < a.at
      BY AreasApart DEF Laid
    <2>3. \A x \in Ends(q) : ~(c < x /\ x < next)
      BY NextChunk
    <2>4. QED
      BY <1>1, <1>2, <1>4, <2>1, <2>2, <2>3
  <1>6. QED
    BY <1>2, <1>4, <1>5

Removed(q, r, c, e, i) ==
    /\ r.mBins = q.mBins /\ r.mBinBlocks = q.mBinBlocks /\ r.blocks = q.blocks
    /\ \E f : Rotated(r.mAreas, q.mAreas, i, f)
    /\ \A x : x \in DOMAIN r.mSize <=> x \in DOMAIN q.mSize /\ (x < c \/ x > e)
    /\ \A x : x \in DOMAIN r.mPrevSize <=> x \in DOMAIN q.mPrevSize /\ (x < c \/ x > e)
    /\ \A x \in DOMAIN r.mSize : r.mSize[x] = q.mSize[x]
    /\ \A x \in DOMAIN r.mPrevSize : r.mPrevSize[x] = q.mPrevSize[x]

LEMMA FreeAreaFields ==
    ASSUME NEW q \in Pool, NEW i, NEW c \in Nat, i = CHOOSE j \in DOMAIN q.mAreas : q.mAreas[j].at = c,
           i \in DOMAIN q.mAreas, NEW e \in Nat, e = c + q.mAreas[i].size, NEW r, r = FreeArea(q, c)
    PROVE  r \in Pool /\ Removed(q, r, c, e, i)
  <1> DEFINE S == c .. e
             A == SubSeq(q.mAreas, i + 1, Len(q.mAreas)) \o SubSeq(q.mAreas, 1, i - 1)
             f == Without(q.mSize, S)
             g == Without(q.mPrevSize, S)
             BB == UNION {[J -> Seq(Nat)] : J \in SUBSET Nat}
             WW == UNION {Words(D) : D \in SUBSET Nat}
  <1>1. r = [q EXCEPT !.mAreas = A, !.mSize = f, !.mPrevSize = g]
    BY DEF FreeArea
  <1>2. q.mAreas \in Seq(AreaRec)
    BY PoolFields
  <1>3. A \in Seq(AreaRec) /\ \E h : Rotated(A, q.mAreas, i, h)
    BY <1>2, RotatedAreas, Zenon
  <1>4. /\ DOMAIN q.mSize \in SUBSET Nat /\ q.mSize \in Words(DOMAIN q.mSize)
        /\ DOMAIN q.mPrevSize \in SUBSET Nat /\ q.mPrevSize \in Words(DOMAIN q.mPrevSize)
    BY PoolFields
  <1>5. \A x \in Nat : x \in S <=> ~(x < c \/ x > e)
    OBVIOUS
  <1> HIDE DEF S, A
  <1>6. f \in Words(DOMAIN q.mSize \ S) /\ g \in Words(DOMAIN q.mPrevSize \ S)
    BY <1>4 DEF Words, Without
  <1>7. f \in WW /\ g \in WW
    BY <1>4, <1>6
  <1>8. /\ DOMAIN f = DOMAIN q.mSize \ S /\ DOMAIN g = DOMAIN q.mPrevSize \ S
        /\ \A x \in DOMAIN f : f[x] = q.mSize[x]
        /\ \A x \in DOMAIN g : g[x] = q.mPrevSize[x]
    BY DEF Without
  <1>9. q \in [mSize : WW, mPrevSize : WW, mBins : BB, mBinBlocks : SUBSET Nat,
               mAreas : Seq(AreaRec), blocks : SUBSET BlockRec]
    BY DEF Pool
  <1> HIDE DEF f, g, WW, BB
  <1>10. r \in [mSize : WW, mPrevSize : WW, mBins : BB, mBinBlocks : SUBSET Nat,
                mAreas : Seq(AreaRec), blocks : SUBSET BlockRec]
    BY <1>1, <1>3, <1>7, <1>9
  <1>11. /\ r.mSize = f /\ r.mPrevSize = g /\ r.mAreas = A
         /\ r.mBins = q.mBins /\ r.mBinBlocks = q.mBinBlocks /\ r.blocks = q.blocks
    BY <1>1, <1>9
  <1>12. r \in Pool
    BY <1>10 DEF Pool, WW, BB
  <1>13. /\ \A x : x \in DOMAIN f <=> x \in DOMAIN q.mSize /\ (x < c \/ x > e)
         /\ \A x : x \in DOMAIN g <=> x \in DOMAIN q.mPrevSize /\ (x < c \/ x > e)
    BY <1>4, <1>5, <1>8
  <1>14. QED
    BY <1>3, <1>8, <1>11, <1>12, <1>13, Zenon DEF Removed

\* FreeArea takes away one chunk and nothing else.
LEMMA FreeAreaIs ==
    ASSUME NEW q \in Pool, Laid(q), NEW c \in Chunks(q), IsArea(q, c), NEW r, r = FreeArea(q, c)
    PROVE  /\ r \in Pool /\ Laid(r) /\ r.mBins = q.mBins /\ r.mBinBlocks = q.mBinBlocks /\ r.blocks = q.blocks
           /\ \A x : x \in Chunks(r) <=> x \in Chunks(q) /\ x # c
           /\ \A x \in Chunks(r) : r.mSize[x] = q.mSize[x]
  <1>1. PICK a \in Areas(q) : a.at = c /\ a.at + a.size = c + ChunkSize(q, c)
    BY AreaIs
  <1> DEFINE i == CHOOSE j \in DOMAIN q.mAreas : q.mAreas[j].at = c
  <1>2. PICK k \in DOMAIN q.mAreas : q.mAreas[k] = a
    BY DEF Areas
  <1>3. i \in DOMAIN q.mAreas /\ q.mAreas[i].at = c
    <2>1. \E j \in DOMAIN q.mAreas : q.mAreas[j].at = c
      BY <1>1, <1>2
    <2>2. QED
      BY <2>1
  <1>4. q.mAreas[i] = a
    <2>1. i = k
      BY <1>1, <1>2, <1>3 DEF Laid, Spaced
    <2>2. QED
      BY <1>2, <2>1
  <1>5. i = CHOOSE j \in DOMAIN q.mAreas : q.mAreas[j].at = c
    OBVIOUS
  <1> HIDE DEF i
  <1>6. PICK e \in Nat : e = c + a.size /\ e = c + ChunkSize(q, c) /\ a.size \in Nat /\ e > c
    <2>1. a.at \in Nat /\ a.size \in Nat /\ a.size >= 2
      BY AreaPlace
    <2>2. QED
      BY <1>1, <2>1
  <1>7. c \in Nat /\ c \in DOMAIN q.mSize /\ e \in DOMAIN q.mSize /\ DOMAIN q.mPrevSize = DOMAIN q.mSize
    BY <1>6, ChunkPlace, NextChunk DEF Laid, Tiled
  <1>8. /\ r \in Pool /\ r.mBins = q.mBins /\ r.mBinBlocks = q.mBinBlocks /\ r.blocks = q.blocks
        /\ \E f : Rotated(r.mAreas, q.mAreas, i, f)
        /\ \A x : x \in DOMAIN r.mSize <=> x \in DOMAIN q.mSize /\ (x < c \/ x > e)
        /\ \A x : x \in DOMAIN r.mPrevSize <=> x \in DOMAIN q.mPrevSize /\ (x < c \/ x > e)
        /\ \A x \in DOMAIN r.mSize : r.mSize[x] = q.mSize[x]
        /\ \A x \in DOMAIN r.mPrevSize : r.mPrevSize[x] = q.mPrevSize[x]
    <2>1. r \in Pool /\ Removed(q, r, c, e, i)
      BY <1>3, <1>4, <1>5, <1>6, <1>7, FreeAreaFields
    <2>2. QED
      BY <2>1, Zenon DEF Removed
  <1>9. PICK f : Rotated(r.mAreas, q.mAreas, i, f)
    BY <1>8
  <1>10. \A b : b \in Areas(r) <=> b \in Areas(q) /\ b # a
    <2>1. ASSUME NEW b \in Areas(r) PROVE b \in Areas(q) /\ b # a
      <3>1. PICK j \in DOMAIN r.mAreas : b = r.mAreas[j]
        BY DEF Areas
      <3>2. b = q.mAreas[f[j]] /\ f[j] \in DOMAIN q.mAreas /\ f[j] # i
        BY <1>9, <3>1 DEF Rotated
      <3>3. b # a
        BY <1>3, <1>4, <3>2 DEF Laid, Spaced
      <3>4. QED
        BY <3>2, <3>3 DEF Areas
    <2>2. ASSUME NEW b \in Areas(q), b # a PROVE b \in Areas(r)
      <3>1. PICK j \in DOMAIN q.mAreas : b = q.mAreas[j]
        BY DEF Areas
      <3>2. j # i
        BY <1>4, <2>2, <3>1
      <3>3. PICK l \in DOMAIN r.mAreas : f[l] = j
        BY <1>9, <3>2 DEF Rotated
      <3>4. r.mAreas[l] = b
        BY <1>9, <3>1, <3>3 DEF Rotated
      <3>5. QED
        BY <3>4 DEF Areas
    <2>3. QED
      BY <2>1, <2>2
  <1>11. ASSUME NEW b \in Areas(r)
         PROVE  /\ b.at \in Nat /\ b.size \in Nat /\ b \in Areas(q)
                /\ (b.at > e /\ b.at + b.size > e) \/ (b.at < c /\ b.at + b.size < c)
    <2>1. b \in Areas(q) /\ b # a /\ b.at \in Nat /\ b.size \in Nat
      BY <1>10, PoolAreas
    <2>2. a.at + a.size < b.at \/ b.at + b.size < a.at
      BY <2>1, AreasApart DEF Laid
    <2>3. QED
      BY <1>1, <1>6, <1>7, <2>1, <2>2
  <1>12. \A x \in DOMAIN q.mSize : x \in Nat /\ (x = c \/ x < c \/ x >= e)
    <2>1. \A x \in DOMAIN q.mSize : x \in Nat /\ ~(c < x /\ x < e)
      BY <1>6, PoolWords, NextChunk
    <2>2. QED
      BY <1>7, <2>1
  <1>13. \A x \in DOMAIN r.mSize : x \in Ends(r) <=> x \in Ends(q)
    <2>1. ASSUME NEW x \in DOMAIN r.mSize, x \in Ends(q) PROVE x \in Ends(r)
      <3>1. PICK b \in Areas(q) : x = b.at + b.size
        BY <2>1 DEF Ends
      <3>2. b # a
        BY <1>1, <1>6, <1>7, <1>8, <3>1
      <3>3. QED
        BY <1>10, <3>1, <3>2 DEF Ends
    <2>2. ASSUME NEW x \in Ends(r) PROVE x \in Ends(q)
      BY <1>10 DEF Ends
    <2>3. QED
      BY <2>1, <2>2
  <1>14. e \in Ends(q)
    BY <1>1, <1>6 DEF Ends
  <1>15. \A x : x \in Chunks(r) <=> x \in Chunks(q) /\ x # c
    <2>1. ASSUME NEW x \in Chunks(r) PROVE x \in Chunks(q) /\ x # c
      <3>1. x \in DOMAIN r.mSize /\ x \notin Ends(r)
        BY DEF Chunks
      <3>2. QED
        BY <1>6, <1>7, <1>8, <1>13, <3>1 DEF Chunks
    <2>2. ASSUME NEW x \in Chunks(q), x # c PROVE x \in Chunks(r)
      <3>1. x \in DOMAIN q.mSize /\ x \notin Ends(q) /\ x # e
        BY <1>14 DEF Chunks
      <3>2. x < c \/ x > e
        BY <1>7, <1>12, <2>2, <3>1
      <3>3. QED
        BY <1>8, <1>13, <3>1, <3>2 DEF Chunks
    <2>3. QED
      BY <2>1, <2>2
  <1>16. \A x \in Chunks(r) : r.mSize[x] = q.mSize[x] /\ ChunkSize(r, x) = ChunkSize(q, x) /\ InUse(r, x) = InUse(q, x)
    BY <1>8 DEF Chunks, ChunkSize, InUse
  <1>17. ASSUME NEW x \in Chunks(r)
         PROVE  LET next == x + ChunkSize(r, x) IN
                /\ ChunkSize(r, x) >= kMinAllocSize /\ next \in DOMAIN r.mSize
                /\ x + 1 .. next - 1 \cap DOMAIN r.mSize = {}
                /\ r.mPrevSize[next] = r.mSize[x]
                /\ InUse(r, x) \/ (PrevInUse(r, x) /\ InUse(r, next))
    <2> DEFINE next == x + ChunkSize(q, x)
    <2>0. x \in Chunks(q) /\ x # c /\ x \in DOMAIN r.mSize /\ x \in DOMAIN q.mSize
      BY <1>15 DEF Chunks
    <2>1. /\ x \in Nat /\ ChunkSize(q, x) \in Nat /\ ChunkSize(q, x) >= 2 /\ next \in DOMAIN q.mSize
          /\ \A y \in DOMAIN q.mSize : ~(x < y /\ y < next)
          /\ q.mPrevSize[next] = q.mSize[x]
          /\ InUse(q, x) \/ (PrevInUse(q, x) /\ InUse(q, next))
      BY <2>0, NextChunk
    <2>2. next \in Nat /\ (next < c \/ next > e)
      <3>1. CASE x < c
        <4>1. next <= c
          BY <1>7, <2>0, <3>1, ChunksApart
        <4>2. next # c
          <5> SUFFICES ASSUME next = c PROVE FALSE
            OBVIOUS
          <5>1. q.mSize[x] = kChunkInUse
            BY <2>1 DEF IsArea
          <5>2. QED
            BY <2>1, <5>1 DEF ChunkSize, kChunkInUse, Word
        <4>3. QED
          BY <1>7, <2>1, <4>1, <4>2
      <3>2. CASE x >= e
        BY <2>1, <3>2
      <3>3. QED
        BY <1>12, <2>0, <3>1, <3>2
    <2>3. next \in DOMAIN r.mSize /\ next \in DOMAIN r.mPrevSize /\ x \in DOMAIN r.mPrevSize
      BY <1>7, <1>8, <2>0, <2>1, <2>2
    <2>4. ChunkSize(r, x) = ChunkSize(q, x) /\ r.mSize[x] = q.mSize[x] /\ InUse(r, x) = InUse(q, x)
      BY <1>16
    <2>5. r.mPrevSize[next] = q.mPrevSize[next] /\ r.mPrevSize[x] = q.mPrevSize[x] /\ r.mSize[next] = q.mSize[next]
      BY <1>8, <2>3
    <2>6. PrevInUse(r, x) = PrevInUse(q, x) /\ InUse(r, next) = InUse(q, next)
      BY <2>5 DEF PrevInUse, InUse
    <2>7. x + 1 .. next - 1 \cap DOMAIN r.mSize = {}
      <3> SUFFICES ASSUME NEW y \in DOMAIN r.mSize, y \in x + 1 .. next - 1 PROVE FALSE
        OBVIOUS
      <3>1. y \in DOMAIN q.mSize /\ y \in Nat
        BY <1>8, <1>12
      <3>2. QED
        BY <2>1, <2>2, <3>1
    <2> HIDE DEF next
    <2>8. x + ChunkSize(r, x) = next
      BY <2>4 DEF next
    <2>9. ChunkSize(r, x) >= kMinAllocSize
      BY <2>1, <2>4, MinSize
    <2>10. r.mPrevSize[next] = r.mSize[x]
      BY <2>1, <2>4, <2>5 DEF next
    <2>11. InUse(r, x) \/ (PrevInUse(r, x) /\ InUse(r, next))
      BY <2>1, <2>4, <2>6 DEF next
    <2>12. QED
      BY <2>3, <2>7, <2>8, <2>9, <2>10, <2>11, Zenon
  <1>18. \A b \in Areas(r) : /\ {b.at, b.at + b.size} \subseteq DOMAIN r.mSize
                             /\ r.mPrevSize[b.at] = kChunkInUse /\ r.mSize[b.at + b.size] = kChunkInUse
    <2> SUFFICES ASSUME NEW b \in Areas(r)
                 PROVE  /\ {b.at, b.at + b.size} \subseteq DOMAIN r.mSize
                        /\ r.mPrevSize[b.at] = kChunkInUse /\ r.mSize[b.at + b.size] = kChunkInUse
      OBVIOUS
    <2>1. b \in Areas(q) /\ ((b.at > e /\ b.at + b.size > e) \/ (b.at < c /\ b.at + b.size < c))
      BY <1>11
    <2>2. /\ b.at \in DOMAIN q.mSize /\ b.at + b.size \in DOMAIN q.mSize
          /\ q.mPrevSize[b.at] = kChunkInUse /\ q.mSize[b.at + b.size] = kChunkInUse
      BY <2>1, AreaPlace
    <2>3. QED
      BY <1>7, <1>8, <2>1, <2>2
  <1>19. Tiled(r)
    <2>1. DOMAIN r.mPrevSize = DOMAIN r.mSize
      <3>1. \A x : x \in DOMAIN r.mPrevSize <=> x \in DOMAIN r.mSize
        BY <1>7, <1>8
      <3>2. QED
        BY <3>1, Zenon
    <2>2. QED
      BY <2>1, <1>17, <1>18 DEF Tiled
  <1>20. Spaced(r)
    <2>1. \A b \in Areas(r) : b.at \in Places /\ b.size \in kMinAllocSize .. MaxSize
      BY <1>11 DEF Laid, Spaced
    <2>2. ASSUME NEW j \in DOMAIN r.mAreas, NEW l \in DOMAIN r.mAreas, r.mAreas[j].at = r.mAreas[l].at PROVE j = l
      <3>1. /\ r.mAreas[j] = q.mAreas[f[j]] /\ f[j] \in DOMAIN q.mAreas
            /\ r.mAreas[l] = q.mAreas[f[l]] /\ f[l] \in DOMAIN q.mAreas
        BY <1>9 DEF Rotated
      <3>2. f[j] = f[l]
        BY <2>2, <3>1 DEF Laid, Spaced
      <3>3. QED
        BY <1>9, <3>2 DEF Rotated
    <2>3. ASSUME NEW x \in DOMAIN r.mSize PROVE \E b \in Areas(r) : b.at <= x /\ x <= b.at + b.size
      <3>1. x \in DOMAIN q.mSize /\ (x < c \/ x > e)
        BY <1>8
      <3>2. PICK b \in Areas(q) : b.at <= x /\ x <= b.at + b.size
        BY <3>1 DEF Laid, Spaced
      <3>3. b # a
        BY <1>1, <1>6, <1>7, <1>12, <3>1, <3>2
      <3>4. QED
        BY <1>10, <3>2, <3>3
    <2>4. QED
      BY <2>1, <2>2, <2>3 DEF Spaced
  <1>21. QED
    BY <1>8, <1>15, <1>16, <1>19, <1>20 DEF Laid
-----------------------------------------------------------------------------
(* Free. *)

Outside(S, a, b) == {d \in S : d < a \/ d >= b}

\* The free chunk before c, when there is one, is taken out of its bin.
LEMMA FreeBack ==
    ASSUME NEW q \in Pool, Laid(q), Bins(q, FreeChunks(q)), NEW c \in UsedChunks(q),
           NEW first, first = IF PrevInUse(q, c) THEN c ELSE c - PrevSize(q, c),
           NEW back, back = IF PrevInUse(q, c) THEN q ELSE UnlinkFree(q, first),
           NEW F, F = Outside(FreeChunks(q), first, c)
    PROVE  /\ first \in Chunks(q) /\ first \in Nat /\ first <= c /\ (PrevInUse(q, c) => first = c)
           /\ first = c \/ Stretch(q, first, c)
           /\ PrevInUse(q, first)
           /\ \A d \in Chunks(q) : first <= d /\ d < c => d \in FreeChunks(q)
           /\ back \in Pool /\ SameHeads(q, back) /\ Bins(back, F)
  <1>0. c \in Chunks(q) /\ c \in Nat /\ InUse(q, c) /\ c \in DOMAIN q.mSize
    BY ChunkPlace DEF UsedChunks
  <1>1. CASE PrevInUse(q, c)
    <2>1. first = c /\ back = q
      BY <1>1
    <2>2. F = FreeChunks(q)
      <3>1. \A d \in FreeChunks(q) : d \in Nat
        BY ChunkPlace DEF FreeChunks
      <3>2. QED
        BY <1>0, <2>1, <3>1 DEF Outside
    <2>3. \A d \in Chunks(q) : ~(c <= d /\ d < c)
      BY <1>0, ChunkPlace
    <2>4. QED
      BY <1>0, <1>1, <2>1, <2>2, <2>3 DEF SameHeads
  <1>2. CASE ~PrevInUse(q, c)
    <2>1. /\ first = c - PrevSize(q, c) /\ back = UnlinkFree(q, first)
      BY <1>2
    <2>2. /\ first \in FreeChunks(q) /\ PrevInUse(q, first) /\ PrevSize(q, c) \in Nat
          /\ ChunkSize(q, first) = PrevSize(q, c) /\ first + PrevSize(q, c) = c /\ first < c
      BY <1>0, <1>2, <2>1, Before
    <2>3. first \in Chunks(q) /\ first \in Nat /\ ChunkSize(q, first) \in Nat
      BY <2>2, ChunkPlace DEF FreeChunks
    <2>4. Stretch(q, first, c)
      BY <2>2, <2>3, StretchOne
    <2>5. back \in Pool /\ SameHeads(q, back) /\ Bins(back, FreeChunks(q) \ {first})
      BY <2>1, <2>2, <2>3, UnlinkFreeIs
    <2>6. \A d \in DOMAIN q.mSize : d \in Nat /\ ~(first < d /\ d < c)
      BY <2>2, <2>3, NextChunk, PoolWords
    <2>7. \A d \in Chunks(q) : first <= d /\ d < c => d = first
      BY <1>0, <2>3, <2>6 DEF Chunks
    <2>8. F = FreeChunks(q) \ {first}
      <3>1. \A d \in FreeChunks(q) : d \in Chunks(q) /\ d \in Nat
        BY ChunkPlace DEF FreeChunks
      <3>2. \A d \in FreeChunks(q) : (d < first \/ d >= c) <=> d # first
        BY <1>0, <2>2, <2>3, <2>7, <3>1
      <3>3. QED
        BY <3>2 DEF Outside
    <2>9. first <= c
      BY <1>0, <2>2, <2>3
    <2>10. Bins(back, F)
      BY <2>5, <2>8, Zenon
    <2>11. \A d \in Chunks(q) : first <= d /\ d < c => d \in FreeChunks(q)
      BY <2>2, <2>7, Zenon
    <2>12. QED
      BY <1>2, <2>2, <2>3, <2>4, <2>5, <2>9, <2>10, <2>11, Zenon
  <1>3. QED
    BY <1>1, <1>2

\* And the one behind it.
LEMMA FreeForth ==
    ASSUME NEW q \in Pool, Laid(q), NEW c \in UsedChunks(q), NEW first \in Nat, first <= c,
           NEW back \in Pool, SameHeads(q, back), NEW next, next = c + ChunkSize(q, c),
           Bins(back, Outside(FreeChunks(q), first, c)),
           NEW both, both = IF InUse(q, next) THEN back ELSE UnlinkFree(back, next),
           NEW end, end = IF InUse(q, next) THEN next ELSE next + ChunkSize(q, next),
           NEW F, F = Outside(FreeChunks(q), first, end)
    PROVE  /\ Stretch(q, c, end) /\ InUse(q, end)
           /\ \A d \in Chunks(q) : c <= d /\ d < end => d = c \/ d \in FreeChunks(q)
           /\ both \in Pool /\ SameHeads(q, both) /\ Bins(both, F)
  <1> DEFINE E == Outside(FreeChunks(q), first, c)
  <1>0. c \in Chunks(q) /\ c \in Nat /\ InUse(q, c) /\ c \in DOMAIN q.mSize /\ c \notin FreeChunks(q)
    BY ChunkPlace DEF UsedChunks, FreeChunks
  <1>1. /\ ChunkSize(q, c) \in Nat /\ ChunkSize(q, c) >= 2 /\ next \in DOMAIN q.mSize
        /\ next \in Nat /\ (next \in Chunks(q) \/ InUse(q, next))
        /\ \A x \in DOMAIN q.mSize : x \in Nat /\ ~(c < x /\ x < next)
    BY <1>0, NextChunk, PoolWords
  <1>2. Stretch(q, c, next)
    BY <1>0, StretchOne
  <1>3. \A d \in FreeChunks(q) : d \in Chunks(q) /\ d \in Nat /\ d \in DOMAIN q.mSize
    BY ChunkPlace DEF FreeChunks
  <1>4. CASE InUse(q, next)
    <2>1. end = next /\ both = back
      BY <1>4
    <2>2. \A d \in Chunks(q) : c <= d /\ d < next => d = c
      BY <1>0, <1>1 DEF Chunks
    <2>3. \A d \in FreeChunks(q) : d >= c <=> d >= next
      BY <1>0, <1>1, <1>3, <2>2
    <2>4. F = E
      BY <2>1, <2>3 DEF Outside
    <2>5. QED
      BY <1>2, <1>4, <2>1, <2>2, <2>4
  <1>5. CASE ~InUse(q, next)
    <2>1. end = next + ChunkSize(q, next) /\ both = UnlinkFree(back, next)
      BY <1>5
    <2>2. next \in Chunks(q) /\ next \in FreeChunks(q) /\ next \in E
      BY <1>0, <1>1, <1>5 DEF FreeChunks, Outside
    <2>3. /\ ChunkSize(q, next) \in Nat /\ ChunkSize(q, next) >= 2 /\ end \in DOMAIN q.mSize /\ end \in Nat
          /\ InUse(q, end) /\ \A x \in DOMAIN q.mSize : ~(next < x /\ x < end)
      BY <1>1, <1>5, <2>1, <2>2, NextChunk
    <2>4. Stretch(q, next, end)
      BY <2>1, <2>2, StretchOne
    <2>5. Stretch(q, c, end)
      BY <1>2, <2>4, StretchTwo
    <2>6. \A d \in Chunks(q) : c <= d /\ d < end => d = c \/ d = next
      BY <1>0, <1>1, <2>3 DEF Chunks
    <2>7. F = E \ {next}
      <3>0. c < next /\ next < end
        BY <1>0, <1>1, <2>1, <2>3
      <3>1. \A d \in FreeChunks(q) : d >= end <=> d >= c /\ d # next
        <4> SUFFICES ASSUME NEW d \in FreeChunks(q) PROVE d >= end <=> d >= c /\ d # next
          OBVIOUS
        <4>1. d \in Nat /\ d # c /\ (c <= d /\ d < end => d = next)
          BY <1>0, <1>3, <2>6
        <4>2. QED
          BY <1>0, <1>1, <2>3, <3>0, <4>1
      <3>2. ~(next < first) /\ \A d \in FreeChunks(q) : d < first => d # next
        BY <1>0, <1>1, <1>3, SMTT(40)
      <3>3. QED
        BY <3>1, <3>2 DEF Outside
    <2>8. ChunkSize(back, next) \in Nat
      BY <2>3 DEF SameHeads, ChunkSize
    <2>9. both \in Pool /\ SameHeads(back, both) /\ Bins(both, E \ {next})
      BY <2>1, <2>2, <2>8, UnlinkFreeIs
    <2>10. SameHeads(q, both)
      BY <2>9 DEF SameHeads
    <2>11. QED
      BY <2>2, <2>3, <2>5, <2>6, <2>7, <2>9, <2>10
  <1>6. QED
    BY <1>4, <1>5

\* There is one chunk from c to e.
OneChunk(q, r, c, e, b, F) ==
    /\ Relaid(q, r, c, e, {}) /\ InUse(r, c) = b /\ ChunkSize(r, c) = e - c
    /\ Bins(r, F) /\ r.blocks = Clobber(q.blocks, {c, e})

\* SetSizeFree and SetSizeInUse make one chunk of a stretch whose chunks are in no bin.
LEMMA SetSizeMerges ==
    ASSUME NEW q \in Pool, Laid(q), NEW c, NEW e, Stretch(q, c, e), NEW n, n = e - c, n >= 2,
           NEW b \in BOOLEAN, b \/ (PrevInUse(q, c) /\ InUse(q, e)),
           NEW t \in Pool, SameHeads(q, t), NEW r, r = SetSize(t, c, n, Word(n, b)),
           NEW F, Bins(t, F), \A d \in F : d \in Chunks(q) /\ (d < c \/ d >= e)
    PROVE  OneChunk(q, r, c, e, b, F)
  <1> DEFINE w == Word(n, b)
  <1>1. c \in Nat /\ e \in Nat /\ c < e
    BY StretchPlaces
  <1>2. n \in Nat /\ e = c + n
    BY <1>1
  <1>3. w \in WordRec /\ w.size = n /\ w.inUse = b
    BY <1>2, WordType
  <1>4. r = SetSize(t, c, n, w)
    OBVIOUS
  <1> HIDE DEF w
  <1>5. r \in Pool /\ Wrote(t, r, c, e, w) /\ SameRest(t, r) /\ r.blocks = Clobber(t.blocks, {c, e})
    <2>1. SizeSet(t, r, c, e, w)
      BY <1>1, <1>2, <1>3, <1>4, SetSizeWords
    <2>2. QED
      BY <2>1 DEF SizeSet
  <1>6. Wrote(q, r, c, e, w) /\ r.mAreas = q.mAreas /\ r.blocks = Clobber(q.blocks, {c, e})
    BY <1>5 DEF Wrote, SameHeads, SameRest
  <1>7. Relaid(q, r, c, e, {}) /\ r.mSize[c] = w
    BY <1>2, <1>3, <1>5, <1>6, Merged
  <1>8. InUse(r, c) = b /\ ChunkSize(r, c) = n
    BY <1>3, <1>7 DEF InUse, ChunkSize
  <1>9. Bins(r, F)
    <2>1. r.mBins = t.mBins /\ r.mBinBlocks = t.mBinBlocks
      BY <1>5 DEF SameRest
    <2>2. \A d \in F : ChunkSize(r, d) = ChunkSize(t, d)
      BY <1>7 DEF Relaid, SameHeads, ChunkSize
    <2>3. QED
      BY <2>1, <2>2, BinsFrame
  <1>10. QED
    BY <1>6, <1>7, <1>8, <1>9 DEF OneChunk

\* The chunks that are merged are one free chunk then, in no bin.
LEMMA FreeMerges ==
    ASSUME NEW q \in Pool, Laid(q), Bins(q, FreeChunks(q)), NEW c \in UsedChunks(q),
           NEW next, next = c + ChunkSize(q, c),
           NEW first, first = IF PrevInUse(q, c) THEN c ELSE c - PrevSize(q, c),
           NEW back, back = IF PrevInUse(q, c) THEN q ELSE UnlinkFree(q, first),
           NEW both, both = IF InUse(q, next) THEN back ELSE UnlinkFree(back, next),
           NEW end, end = IF InUse(q, next) THEN next ELSE next + ChunkSize(q, next),
           NEW r, r = SetSizeFree(both, first, end - first)
    PROVE  /\ Stretch(q, first, end) /\ first <= c /\ c < end /\ (PrevInUse(q, c) => first = c)
           /\ \A d \in Chunks(q) : first <= d /\ d < end => d = c \/ d \in FreeChunks(q)
           /\ Relaid(q, r, first, end, {}) /\ ~InUse(r, first)
           /\ Bins(r, Outside(FreeChunks(q), first, end))
           /\ r.blocks = Clobber(q.blocks, {first, end})
  <1> DEFINE E == Outside(FreeChunks(q), first, c)
             F == Outside(FreeChunks(q), first, end)
             n == end - first
  <1>1. /\ first \in Chunks(q) /\ first \in Nat /\ first <= c /\ (PrevInUse(q, c) => first = c)
        /\ first = c \/ Stretch(q, first, c)
        /\ PrevInUse(q, first)
        /\ \A d \in Chunks(q) : first <= d /\ d < c => d \in FreeChunks(q)
        /\ back \in Pool /\ SameHeads(q, back) /\ Bins(back, E)
    BY FreeBack
  <1>2. /\ Stretch(q, c, end) /\ InUse(q, end)
        /\ \A d \in Chunks(q) : c <= d /\ d < end => d = c \/ d \in FreeChunks(q)
        /\ both \in Pool /\ SameHeads(q, both) /\ Bins(both, F)
    BY <1>1, FreeForth
  <1>3. Stretch(q, first, end)
    BY <1>1, <1>2, StretchTwo
  <1>4. c \in Chunks(q) /\ c \in Nat /\ end \in Nat /\ c < end /\ \A d \in Chunks(q) : d \in Nat
    BY <1>2, StretchPlaces, ChunkPlace
  <1>5. n >= 2 /\ n \in Nat
    <2>1. c + ChunkSize(q, c) <= end /\ ChunkSize(q, c) \in Nat /\ ChunkSize(q, c) >= 2
      BY <1>2, <1>4, ChunksApart, NextChunk, StretchPlaces
    <2>2. QED
      BY <2>1, <1>1, <1>4
  <1>7. r = SetSize(both, first, n, Word(n, FALSE)) /\ n = end - first
    BY DEF SetSizeFree
  <1>8. \A d \in F : d \in Chunks(q) /\ (d < first \/ d >= end)
    BY DEF F, Outside, FreeChunks
  <1> HIDE DEF E, F, n
  <1>9. /\ Relaid(q, r, first, end, {}) /\ InUse(r, first) = FALSE
        /\ Bins(r, F) /\ r.blocks = Clobber(q.blocks, {first, end})
    <2>1. OneChunk(q, r, first, end, FALSE, F)
      BY <1>1, <1>2, <1>3, <1>5, <1>7, <1>8, SetSizeMerges
    <2>2. QED
      BY <2>1 DEF OneChunk
  <1>13. \A d \in Chunks(q) : first <= d /\ d < end => d = c \/ d \in FreeChunks(q)
    BY <1>1, <1>2, <1>4
  <1>14. QED
    BY <1>1, <1>3, <1>4, <1>9, <1>13 DEF F

LEMMA SameHeld ==
    ASSUME NEW q, NEW r, NEW U, NEW x, Held(q, U, x), r.blocks = q.blocks,
           \A d \in U : ChunkSize(r, d) = ChunkSize(q, d)
    PROVE  Held(r, U, x)
  BY DEF Held

LEMMA SameBins ==
    ASSUME NEW q, NEW F, Bins(q, F), NEW G, \A c : c \in F <=> c \in G
    PROVE  Bins(q, G)
  <1>1. F = G
    OBVIOUS
  <1>2. QED
    BY <1>1

\* Free has made the chunk c free: it is no longer one in hand, the other
\* chunks in use are as they were, and headers were written where it was.
Freed(q, r, c, L, x) ==
    /\ Fine(r, L \ {c}, x)
    /\ \A d \in UsedChunks(q) : d # c => d \in UsedChunks(r) /\ r.mSize[d] = q.mSize[d]
    /\ \A d \in UsedChunks(r) : d \in UsedChunks(q) /\ d # c
    /\ \E W : r.blocks = Clobber(q.blocks, W) /\ \A a \in W : a \in Nat /\ (PrevInUse(q, c) => a >= c)

FreedRest(q, t, r, c, L, x) ==
    /\ Fine(r, L \ {c}, x) /\ r.blocks = t.blocks
    /\ \A d \in UsedChunks(q) : d # c => d \in UsedChunks(r) /\ r.mSize[d] = q.mSize[d]
    /\ \A d \in UsedChunks(r) : d \in UsedChunks(q) /\ d # c

LEMMA FreeEnds ==
    ASSUME NEW q, NEW t \in Pool, Laid(t), NEW c, NEW first \in FreeChunks(t), NEW F, Bins(t, F), first \notin F,
           \A d : d \in FreeChunks(t) <=> d \in F \/ d = first,
           NEW L, L \subseteq UsedChunks(q), NEW x, Held(t, UsedChunks(q) \ L, x), c \in L,
           \A d : d \in UsedChunks(t) <=> d \in UsedChunks(q) /\ d # c,
           \A d \in UsedChunks(q) : d # c => t.mSize[d] = q.mSize[d],
           NEW r, r = IF sizes.more # 0 /\ IsArea(t, first) THEN FreeArea(t, first) ELSE LinkFree(t, first)
    PROVE  FreedRest(q, t, r, c, L, x)
  <1> USE DEF FreedRest
  <1> DEFINE U == UsedChunks(q) \ L
  <1>1. first \in Chunks(t) /\ first \in Nat /\ ~InUse(t, first) /\ ChunkSize(t, first) \in Nat
    BY ChunkPlace DEF FreeChunks
  <1>2. CASE sizes.more # 0 /\ IsArea(t, first)
    <2>1. r = FreeArea(t, first)
      BY <1>2
    <2>2. /\ r \in Pool /\ Laid(r) /\ r.mBins = t.mBins /\ r.mBinBlocks = t.mBinBlocks /\ r.blocks = t.blocks
          /\ \A d : d \in Chunks(r) <=> d \in Chunks(t) /\ d # first
          /\ \A d \in Chunks(r) : r.mSize[d] = t.mSize[d]
      BY <1>1, <1>2, <2>1, FreeAreaIs
    <2>3. \A d : d \in FreeChunks(r) <=> d \in F
      BY <2>2 DEF FreeChunks, InUse
    <2>4. \A d : d \in UsedChunks(r) <=> d \in UsedChunks(q) /\ d # c
      BY <1>1, <2>2 DEF UsedChunks, InUse
    <2>5. Bins(r, F)
      <3>1. \A d \in F : ChunkSize(r, d) = ChunkSize(t, d)
        BY <2>2, <2>3 DEF FreeChunks, ChunkSize
      <3>2. QED
        BY <2>2, <3>1, BinsFrame
    <2>6. Held(r, U, x)
      <3>1. \A d \in U : ChunkSize(r, d) = ChunkSize(t, d)
        BY <2>2, <2>4 DEF UsedChunks, ChunkSize
      <3>2. QED
        BY <2>2, <3>1, SameHeld
    <2>7. \A d : d \in FreeChunks(r) \ (L \ {c}) <=> d \in F
      BY <2>3, <2>4 DEF FreeChunks, UsedChunks
    <2>8. UsedChunks(r) \ (L \ {c}) = U
      BY <2>4
    <2>9. Bins(r, FreeChunks(r) \ (L \ {c}))
      BY <2>5, <2>7, SameBins
    <2>10. \A d \in UsedChunks(q) : d # c => r.mSize[d] = t.mSize[d]
      BY <2>2, <2>4 DEF UsedChunks
    <2>11. QED
      BY <2>2, <2>4, <2>6, <2>8, <2>9, <2>10 DEF Fine
  <1>3. CASE ~(sizes.more # 0 /\ IsArea(t, first))
    <2>1. r = LinkFree(t, first)
      BY <1>3
    <2>2. \A d \in F : ChunkSize(t, d) \in Nat
      BY ChunkPlace DEF FreeChunks
    <2>3. r \in Pool /\ SameHeads(t, r) /\ Bins(r, F \cup {first})
      BY <1>1, <2>1, <2>2, LinkFreeIs
    <2>4. /\ Laid(r) /\ FreeChunks(r) = FreeChunks(t) /\ UsedChunks(r) = UsedChunks(t)
          /\ r.mSize = t.mSize /\ r.blocks = t.blocks
      BY <2>3, SameLaid DEF SameHeads
    <2>5. Held(r, U, x)
      BY <2>4, SameHeld DEF ChunkSize
    <2>6. \A d : d \in F \cup {first} <=> d \in FreeChunks(r) \ (L \ {c})
      BY <2>4 DEF FreeChunks, UsedChunks
    <2>7. Bins(r, FreeChunks(r) \ (L \ {c}))
      BY <2>3, <2>6, SameBins
    <2>8. UsedChunks(r) \ (L \ {c}) = U
      BY <2>4
    <2>9. QED
      BY <2>3, <2>4, <2>5, <2>7, <2>8 DEF Fine
  <1>4. QED
    BY <1>2, <1>3

\* Free gives one chunk back.
LEMMA FreeChunkIs ==
    ASSUME NEW q, NEW L, NEW x, Fine(q, L, x), L \subseteq UsedChunks(q), NEW c \in L,
           NEW r, r = FreeChunk(q, c)
    PROVE  Freed(q, r, c, L, x)
  <1> DEFINE next == c + ChunkSize(q, c)
             first == IF PrevInUse(q, c) THEN c ELSE c - PrevSize(q, c)
             back == IF PrevInUse(q, c) THEN q ELSE UnlinkFree(q, first)
             both == IF InUse(q, next) THEN back ELSE UnlinkFree(back, next)
             end == IF InUse(q, next) THEN next ELSE next + ChunkSize(q, next)
             t == SetSizeFree(both, first, end - first)
             F == Outside(FreeChunks(q), first, end)
             U == UsedChunks(q) \ L
  <1>1. q \in Pool /\ Laid(q) /\ Held(q, U, x) /\ Bins(q, FreeChunks(q) \ L)
    BY DEF Fine
  <1>2. Bins(q, FreeChunks(q))
    <2>1. \A d : d \in FreeChunks(q) \ L <=> d \in FreeChunks(q)
      BY DEF FreeChunks, UsedChunks
    <2>2. QED
      BY <1>1, <2>1, SameBins
  <1>3. r = IF sizes.more # 0 /\ IsArea(t, first) THEN FreeArea(t, first) ELSE LinkFree(t, first)
    BY DEF FreeChunk
  <1>4. /\ Stretch(q, first, end) /\ first <= c /\ c < end /\ (PrevInUse(q, c) => first = c)
        /\ \A d \in Chunks(q) : first <= d /\ d < end => d = c \/ d \in FreeChunks(q)
        /\ Relaid(q, t, first, end, {}) /\ ~InUse(t, first)
        /\ Bins(t, F)
        /\ t.blocks = Clobber(q.blocks, {first, end})
    <2>1. /\ next = c + ChunkSize(q, c)
          /\ first = IF PrevInUse(q, c) THEN c ELSE c - PrevSize(q, c)
          /\ back = IF PrevInUse(q, c) THEN q ELSE UnlinkFree(q, first)
          /\ both = IF InUse(q, next) THEN back ELSE UnlinkFree(back, next)
          /\ end = IF InUse(q, next) THEN next ELSE next + ChunkSize(q, next)
          /\ t = SetSizeFree(both, first, end - first)
          /\ F = Outside(FreeChunks(q), first, end)
      OBVIOUS
    <2> HIDE DEF next, first, back, both, end, t, F
    <2>2. QED
      BY <1>1, <1>2, <2>1, FreeMerges
  <1> HIDE DEF next, first, back, both, end, t
  <1>5. /\ first \in Chunks(q) /\ first \in Nat /\ end \in Nat /\ first < end /\ c \in Nat
        /\ \A d \in Chunks(q) : d \in Nat
    BY <1>1, <1>4, StretchPlaces, ChunkPlace DEF UsedChunks
  <1>6. /\ first \in Chunks(t)
        /\ \A d : d # first =>
              /\ d \in FreeChunks(t) <=> d \in FreeChunks(q) /\ (d < first \/ d >= end)
              /\ d \in UsedChunks(t) <=> d \in UsedChunks(q) /\ (d < first \/ d >= end)
    BY <1>4, <1>5, RelaidChunks
  <1>7. t \in Pool /\ Laid(t)
    BY <1>4 DEF Relaid
  <1>8. \A d \in UsedChunks(q) : d # c => d \in Chunks(q) /\ (d < first \/ d >= end)
    BY <1>4, <1>5 DEF UsedChunks, FreeChunks
  <1>9. Held(t, U, x)
    <2>1. \A d \in U : d \in Chunks(q) /\ (d < first \/ d >= end)
      BY <1>8
    <2>2. \A a \in {first, end} : a \in Nat /\ first <= a /\ a <= end
      BY <1>5
    <2>3. QED
      BY <1>1, <1>4, <1>7, <2>1, <2>2, HeldRelaid
  <1>10. first \in FreeChunks(t) /\ first \notin F /\ \A d : d \in FreeChunks(t) <=> d \in F \/ d = first
    <2>1. first \in FreeChunks(t)
      BY <1>4, <1>6 DEF FreeChunks
    <2>2. first \notin F
      BY <1>5 DEF Outside
    <2>3. QED
      BY <2>1, <2>2, <1>6 DEF Outside
  <1>11. \A d : d \in UsedChunks(t) <=> d \in UsedChunks(q) /\ d # c
    <2>1. first \notin UsedChunks(t)
      BY <1>10 DEF UsedChunks, FreeChunks
    <2>2. ASSUME NEW d PROVE d \in UsedChunks(t) <=> d \in UsedChunks(q) /\ d # c
      <3>1. d \in UsedChunks(q) /\ d # c => d # first
        BY <1>5, <1>8
      <3>2. ~(c < first \/ c >= end)
        BY <1>4, <1>5
      <3>3. QED
        BY <1>6, <1>8, <2>1, <3>1, <3>2
    <2>3. QED
      BY <2>2
  <1>12. \A d \in UsedChunks(q) : d # c => t.mSize[d] = q.mSize[d]
    BY <1>4, <1>8 DEF Relaid
  <1> HIDE DEF F
  <1>13. /\ Fine(r, L \ {c}, x) /\ r.blocks = t.blocks
         /\ \A d \in UsedChunks(q) : d # c => d \in UsedChunks(r) /\ r.mSize[d] = q.mSize[d]
         /\ \A d \in UsedChunks(r) : d \in UsedChunks(q) /\ d # c
    <2>1. Bins(t, F)
      BY <1>4
    <2>2. FreedRest(q, t, r, c, L, x)
      BY <1>3, <1>7, <1>9, <1>10, <1>11, <1>12, <2>1, FreeEnds
    <2>3. QED
      BY <2>2 DEF FreedRest
  <1>14. \E W : r.blocks = Clobber(q.blocks, W) /\ \A a \in W : a \in Nat /\ (PrevInUse(q, c) => a >= c)
    <2> WITNESS {first, end}
    <2>1. \A a \in {first, end} : a \in Nat /\ (PrevInUse(q, c) => a >= c)
      BY <1>4, <1>5
    <2>2. QED
      BY <2>1, <1>4, <1>13
  <1>15. QED
    BY <1>13, <1>14 DEF Freed
-----------------------------------------------------------------------------
(* Alloc. *)

\* There are two chunks from c to e, the first one in use.
TwoChunks(q, r, c, m, e, b, F) ==
    /\ Relaid(q, r, c, e, {m}) /\ InUse(r, c) /\ ChunkSize(r, c) = m - c
    /\ InUse(r, m) = b /\ ChunkSize(r, m) = e - m
    /\ Bins(r, F) /\ r.blocks = Clobber(q.blocks, {c, m, e})

LEMMA DividedBins ==
    ASSUME NEW q \in Pool, Laid(q), NEW c \in Nat, NEW e \in Nat, Stretch(q, c, e), NEW m \in Nat,
           NEW v \in WordRec, NEW w \in WordRec, m = c + v.size, e = m + w.size, v.size >= 2, w.size >= 2,
           v.inUse, w.inUse \/ InUse(q, e),
           NEW t, SizeSet(q, t, m, e, w), NEW l \in Pool, SameHeads(t, l), NEW r, SizeSet(l, r, c, m, v),
           NEW F, Bins(l, F), \A d \in F : d = m \/ (d \in Chunks(q) /\ (d < c \/ d >= e))
    PROVE  TwoChunks(q, r, c, m, e, w.inUse, F)
  <1>1. \A d \in Chunks(q) : d \in Nat /\ d \in DOMAIN q.mSize
    BY ChunkPlace
  <1>2. c < m /\ m < e /\ v.size \in Nat /\ w.size \in Nat
    BY DEF WordRec
  <1>7. t \in Pool /\ Wrote(q, t, m, e, w) /\ t.mAreas = q.mAreas /\ t.blocks = Clobber(q.blocks, {m, e})
    BY DEF SizeSet, SameRest
  <1>8. /\ r \in Pool /\ Wrote(t, r, c, m, v) /\ r.mAreas = q.mAreas
        /\ r.blocks = Clobber(t.blocks, {c, m}) /\ r.mBins = l.mBins /\ r.mBinBlocks = l.mBinBlocks
    <2>1. /\ r \in Pool /\ Wrote(l, r, c, m, v) /\ r.mAreas = l.mAreas
          /\ r.blocks = Clobber(l.blocks, {c, m}) /\ r.mBins = l.mBins /\ r.mBinBlocks = l.mBinBlocks
      BY DEF SizeSet, SameRest
    <2>2. l.mAreas = t.mAreas /\ l.blocks = t.blocks /\ l.mSize = t.mSize /\ l.mPrevSize = t.mPrevSize
      BY DEF SameHeads
    <2>3. Wrote(t, r, c, m, v)
      BY <2>1, <2>2 DEF Wrote
    <2>4. QED
      BY <1>7, <2>1, <2>2, <2>3
  <1>9. r.blocks = Clobber(q.blocks, {c, m, e})
    <2>1. q.blocks \in SUBSET BlockRec
      BY PoolFields
    <2>2. Clobber(Clobber(q.blocks, {m, e}), {c, m}) = Clobber(q.blocks, {m, e} \cup {c, m})
      BY <2>1, ClobberTwice
    <2>3. {m, e} \cup {c, m} = {c, m, e}
      OBVIOUS
    <2>4. QED
      BY <1>7, <1>8, <2>2, <2>3
  <1>10. Relaid(q, r, c, e, {m}) /\ r.mSize[c] = v /\ r.mSize[m] = w
    <2>2. v.inUse \/ (PrevInUse(q, c) /\ w.inUse)
      OBVIOUS
    <2>3. w.inUse \/ (v.inUse /\ InUse(q, e))
      OBVIOUS
    <2>4. r \in Pool /\ Wrote(q, t, m, e, w) /\ Wrote(t, r, c, m, v) /\ r.mAreas = q.mAreas
      BY <1>7, <1>8
    <2>5. Halved(q, r, c, m, e, v, w)
      BY <2>2, <2>3, <2>4, Divided
    <2>6. QED
      BY <2>5 DEF Halved
  <1>11. InUse(r, c) /\ ChunkSize(r, c) = m - c /\ InUse(r, m) = w.inUse /\ ChunkSize(r, m) = e - m
    BY <1>2, <1>10 DEF InUse, ChunkSize
  <1>12. \A d \in F : ChunkSize(r, d) = ChunkSize(l, d)
    <2> SUFFICES ASSUME NEW d \in F PROVE ChunkSize(r, d) = ChunkSize(l, d)
      OBVIOUS
    <2>1. l.mSize = t.mSize
      BY DEF SameHeads
    <2>2. CASE d = m
      BY <1>7, <1>10, <2>1, <2>2 DEF Wrote, ChunkSize
    <2>3. CASE d \in Chunks(q) /\ (d < c \/ d >= e)
      <3>1. d \in DOMAIN q.mSize /\ d # m /\ (d <= m \/ d >= e)
        BY <1>1, <1>2, <2>3
      <3>2. t.mSize[d] = q.mSize[d]
        BY <1>7, <3>1 DEF Wrote
      <3>3. r.mSize[d] = q.mSize[d]
        BY <1>10, <2>3 DEF Relaid
      <3>4. QED
        BY <2>1, <3>2, <3>3 DEF ChunkSize
    <2>4. QED
      BY <2>2, <2>3
  <1>13. Bins(r, F)
    <2>1. r.mBins = l.mBins /\ r.mBinBlocks = l.mBinBlocks
      BY <1>8
    <2>2. QED
      BY <1>12, <2>1, BinsFrame
  <1>14. QED
    BY <1>9, <1>10, <1>11, <1>13 DEF TwoChunks

\* A stretch is divided, and what is done to the bins meanwhile is done well.
LEMMA SetSizeDivides ==
    ASSUME NEW q \in Pool, Laid(q), NEW c, NEW e, Stretch(q, c, e), NEW m, NEW n, n = m - c, m \in Nat, n >= 2,
           NEW k, k = e - m, k >= 2, NEW b \in BOOLEAN, b \/ InUse(q, e),
           NEW t, t = SetSize(q, m, k, Word(k, b)), NEW l \in Pool, SameHeads(t, l),
           NEW r, r = SetSize(l, c, n, Word(n, TRUE)),
           NEW F, Bins(l, F), \A d \in F : d = m \/ (d \in Chunks(q) /\ (d < c \/ d >= e))
    PROVE  TwoChunks(q, r, c, m, e, b, F)
  <1> DEFINE v == Word(n, TRUE)
             w == Word(k, b)
  <1>1. c \in Nat /\ e \in Nat /\ c < e /\ c \in Chunks(q) /\ \A d \in Chunks(q) : d \in Nat /\ d \in DOMAIN q.mSize
    BY StretchPlaces, ChunkPlace
  <1>2. n \in Nat /\ k \in Nat /\ m = c + n /\ e = m + k /\ c < m /\ m < e
    BY <1>1
  <1>3. /\ v \in WordRec /\ v.size = n /\ v.inUse = TRUE
        /\ w \in WordRec /\ w.size = k /\ w.inUse = b
    BY <1>2, WordType
  <1>4. t = SetSize(q, m, k, w) /\ r = SetSize(l, c, n, v)
    OBVIOUS
  <1> HIDE DEF v, w
  <1>5. SizeSet(q, t, m, e, w)
    BY <1>2, <1>3, <1>4, SetSizeWords
  <1>6. SizeSet(l, r, c, m, v)
    BY <1>1, <1>2, <1>3, <1>4, SetSizeWords
  <1>7. w.inUse \/ InUse(q, e)
    BY <1>3
  <1>8. TwoChunks(q, r, c, m, e, w.inUse, F)
    BY <1>1, <1>2, <1>3, <1>5, <1>6, <1>7, DividedBins
  <1>9. QED
    BY <1>3, <1>8

\* A free chunk that is in no bin has become one in use of n units, or one more.
Taken(q, r, c, n, x) ==
    /\ Fine(r, {c}, x) /\ c \in UsedChunks(r) /\ ChunkSize(r, c) - n \in 0 .. 1
    /\ \A d \in UsedChunks(q) : d # c /\ d \in UsedChunks(r) /\ r.mSize[d] = q.mSize[d]

\* After one chunk's place is written anew.
LEMMA TakenBy ==
    ASSUME NEW q, NEW x, NEW c, Fine(q, {c}, x), c \in FreeChunks(q),
           NEW e, e = c + ChunkSize(q, c), NEW M, NEW r, Relaid(q, r, c, e, M), \A d \in M : d \in Nat /\ c < d /\ d < e,
           InUse(r, c), \A d \in M : ~InUse(r, d), NEW F, F = FreeChunks(q) \ {c}, Bins(r, F \cup M),
           NEW W, r.blocks = Clobber(q.blocks, W), \A a \in W : a \in Nat /\ c <= a /\ a <= e,
           NEW n, ChunkSize(r, c) - n \in 0 .. 1
    PROVE  Taken(q, r, c, n, x)
  <1>1. q \in Pool /\ Laid(q) /\ Held(q, UsedChunks(q) \ {c}, x)
    BY DEF Fine
  <1>2. c \in Chunks(q) /\ ~InUse(q, c) /\ \A d \in Chunks(q) : d \in Nat /\ d \in DOMAIN q.mSize
    BY <1>1, ChunkPlace DEF FreeChunks
  <1>3. /\ Stretch(q, c, e) /\ c \in Nat /\ e \in Nat /\ c < e
        /\ \A d \in DOMAIN q.mSize : ~(c < d /\ d < e)
    BY <1>1, <1>2, StretchOne, StretchPlaces, NextChunk
  <1>4. r \in Pool /\ Laid(r)
    BY DEF Relaid
  <1>5. \A d \in Chunks(q) : d = c \/ d < c \/ d >= e
    BY <1>2, <1>3
  <1>6. \A d \in UsedChunks(q) : d \in Chunks(q) /\ d # c /\ (d < c \/ d >= e)
    BY <1>2, <1>5 DEF UsedChunks
  <1>7. UsedChunks(q) \ {c} = UsedChunks(q)
    BY <1>6
  <1>8. Held(r, UsedChunks(q), x)
    BY <1>1, <1>3, <1>4, <1>6, <1>7, HeldRelaid, ZenonT(60)
  <1>9. /\ c \in Chunks(r) /\ \A d \in M : d \in Chunks(r)
        /\ \A d : d # c /\ d \notin M =>
              /\ d \in FreeChunks(r) <=> d \in FreeChunks(q) /\ (d < c \/ d >= e)
              /\ d \in UsedChunks(r) <=> d \in UsedChunks(q) /\ (d < c \/ d >= e)
    <2>1. \A d \in M : d \notin Chunks(q) \/ (c <= d /\ d < e)
      BY <1>3
    <2>2. QED
      BY <1>2, <1>3, <2>1, RelaidChunks
  <1>10. \A d \in M : d \notin Chunks(q) /\ d # c
    BY <1>2, <1>3
  <1>11. c \in UsedChunks(r) /\ c \notin FreeChunks(r) /\ \A d \in M : d \in FreeChunks(r) /\ d \notin UsedChunks(r)
    BY <1>9 DEF UsedChunks, FreeChunks
  <1>12. \A d : d \in F \cup M <=> d \in FreeChunks(r) \ {c}
    <2>1. \A d \in FreeChunks(q) : d \in Chunks(q)
      BY DEF FreeChunks
    <2>2. QED
      BY <1>5, <1>9, <1>10, <1>11, <2>1
  <1>13. Bins(r, FreeChunks(r) \ {c})
    BY <1>12, SameBins
  <1>14. \A d : d \in UsedChunks(r) \ {c} <=> d \in UsedChunks(q)
    BY <1>6, <1>9, <1>10, <1>11
  <1>15. UsedChunks(r) \ {c} = UsedChunks(q)
    BY <1>14
  <1>16. \A d \in UsedChunks(q) : r.mSize[d] = q.mSize[d]
    BY <1>6 DEF Relaid
  <1>17. QED
    BY <1>4, <1>6, <1>8, <1>11, <1>13, <1>14, <1>15, <1>16 DEF Fine, Taken

\* found_bigger_fit: the rest of the chunk goes into a bin.
LEMMA SplitOffIs ==
    ASSUME NEW q, NEW x, NEW c, Fine(q, {c}, x), c \in FreeChunks(q), NEW n \in Nat, n >= 2,
           ChunkSize(q, c) - n >= 2, NEW r, r = SplitOff(q, c, n)
    PROVE  Taken(q, r, c, n, x)
  <1> DEFINE e == c + ChunkSize(q, c)
             m == c + n
             k == ChunkSize(q, c) - n
             t == SetSize(q, m, k, Word(k, FALSE))
             l == LinkFree(t, m)
             F == FreeChunks(q) \ {c}
  <1>1. q \in Pool /\ Laid(q) /\ Bins(q, F)
    BY DEF Fine
  <1>2. /\ c \in Chunks(q) /\ ~InUse(q, c) /\ \A d \in Chunks(q) : d \in Nat /\ d \in DOMAIN q.mSize
        /\ ChunkSize(q, c) \in Nat
    BY <1>1, ChunkPlace DEF FreeChunks
  <1>3. /\ Stretch(q, c, e) /\ c \in Nat /\ e \in Nat /\ c < e /\ InUse(q, e)
        /\ \A d \in DOMAIN q.mSize : ~(c < d /\ d < e)
    BY <1>1, <1>2, StretchOne, StretchPlaces, NextChunk
  <1>4. m \in Nat /\ k \in Nat /\ n = m - c /\ k = e - m /\ e = m + k /\ c < m /\ m < e /\ k >= 2
    BY <1>2, <1>3
  <1>5. r = SetSize(l, c, n, Word(n, TRUE)) /\ t = SetSize(q, m, k, Word(k, FALSE)) /\ l = LinkFree(t, m)
    BY DEF SplitOff, SetSizeFree, SetSizeInUse
  <1>6. \A d \in F : d \in Chunks(q) /\ (d < c \/ d >= e)
    BY <1>2, <1>3 DEF FreeChunks
  <1>7. m \notin F
    BY <1>2, <1>3, <1>4 DEF FreeChunks
  <1> HIDE DEF e, m, k, t, l, F
  <1>8. SizeSet(q, t, m, e, Word(k, FALSE))
    BY <1>1, <1>4, <1>5, WordType, SetSizeWords
  <1>9. /\ t \in Pool /\ ChunkSize(t, m) = k
        /\ \A d \in F : ChunkSize(t, d) = ChunkSize(q, d) /\ ChunkSize(t, d) \in Nat
        /\ t.mBins = q.mBins /\ t.mBinBlocks = q.mBinBlocks
    <2>1. t \in Pool /\ Wrote(q, t, m, e, Word(k, FALSE)) /\ t.mBins = q.mBins /\ t.mBinBlocks = q.mBinBlocks
      BY <1>8 DEF SizeSet, SameRest
    <2>2. ChunkSize(t, m) = k
      BY <1>4, <2>1, WordType DEF Wrote, ChunkSize
    <2>3. \A d \in F : t.mSize[d] = q.mSize[d]
      <3>1. ASSUME NEW d \in F PROVE d \in DOMAIN q.mSize /\ d # m /\ (d <= m \/ d >= e)
        <4>1. d \in Nat /\ d \in DOMAIN q.mSize /\ (d < c \/ d >= e)
          BY <1>2, <1>6
        <4>2. c \in Nat /\ m \in Nat /\ e \in Nat /\ c < m /\ m < e
          BY <1>3, <1>4
        <4>3. QED
          BY <4>1, <4>2
      <3>2. QED
        BY <3>1, <2>1 DEF Wrote
    <2>4. QED
      BY <1>1, <1>6, <2>1, <2>2, <2>3, ChunkPlace DEF ChunkSize
  <1>10. Bins(t, F)
    BY <1>1, <1>9, BinsFrame
  <1>11. l \in Pool /\ SameHeads(t, l) /\ Bins(l, F \cup {m})
    BY <1>4, <1>5, <1>7, <1>9, <1>10, LinkFreeIs
  <1>12. TwoChunks(q, r, c, m, e, FALSE, F \cup {m})
    <2>1. \A d \in F \cup {m} : d = m \/ (d \in Chunks(q) /\ (d < c \/ d >= e))
      BY <1>6
    <2>2. QED
      BY <1>1, <1>3, <1>4, <1>5, <1>11, <2>1, SetSizeDivides
  <1>13. /\ Relaid(q, r, c, e, {m}) /\ InUse(r, c) /\ ChunkSize(r, c) = n /\ ~InUse(r, m)
         /\ Bins(r, F \cup {m}) /\ r.blocks = Clobber(q.blocks, {c, m, e})
    BY <1>4, <1>12 DEF TwoChunks
  <1>14. \A a \in {c, m, e} : a \in Nat /\ c <= a /\ a <= e
    BY <1>3, <1>4
  <1>15. (\A d \in {m} : d \in Nat /\ c < d /\ d < e) /\ (\A d \in {m} : ~InUse(r, d))
    BY <1>4, <1>13
  <1>16. ChunkSize(r, c) - n \in 0 .. 1
    BY <1>13
  <1>17. e = c + ChunkSize(q, c) /\ F = FreeChunks(q) \ {c}
    BY DEF e, F
  <1>18. QED
    <2> DEFINE M == {m}
               W == {c, m, e}
    <2>1. /\ Relaid(q, r, c, e, M) /\ Bins(r, F \cup M) /\ r.blocks = Clobber(q.blocks, W)
          /\ \A a \in W : a \in Nat /\ c <= a /\ a <= e
          /\ \A d \in M : d \in Nat /\ c < d /\ d < e
          /\ \A d \in M : ~InUse(r, d)
      BY <1>13, <1>14, <1>15, Zenon
    <2> HIDE DEF M, W
    <2>2. QED
      BY <1>13, <1>16, <1>17, <2>1, TakenBy

\* found_exact_fit
LEMMA TakeAllIs ==
    ASSUME NEW q, NEW x, NEW c, Fine(q, {c}, x), c \in FreeChunks(q), NEW n, ChunkSize(q, c) - n \in 0 .. 1,
           NEW r, r = SetSizeInUse(q, c, ChunkSize(q, c))
    PROVE  Taken(q, r, c, n, x)
  <1> DEFINE s == ChunkSize(q, c)
             e == c + s
             F == FreeChunks(q) \ {c}
             M == {}
             W == {c, e}
  <1>1. q \in Pool /\ Laid(q) /\ Bins(q, F)
    BY DEF Fine
  <1>2. c \in Chunks(q) /\ s \in Nat /\ \A d \in Chunks(q) : d \in Nat /\ d \in DOMAIN q.mSize
    BY <1>1, ChunkPlace DEF FreeChunks
  <1>3. /\ Stretch(q, c, e) /\ c \in Nat /\ e \in Nat /\ c < e /\ s = e - c /\ s >= 2
        /\ \A d \in DOMAIN q.mSize : ~(c < d /\ d < e)
    BY <1>1, <1>2, StretchOne, StretchPlaces, NextChunk
  <1>5. r = SetSize(q, c, s, Word(s, TRUE)) /\ e = c + ChunkSize(q, c) /\ F = FreeChunks(q) \ {c} /\ s = ChunkSize(q, c)
    BY DEF SetSizeInUse
  <1>6. SameHeads(q, q)
    BY DEF SameHeads
  <1> HIDE DEF s, e
  <1>4. \A d \in F : d \in Chunks(q) /\ (d < c \/ d >= e)
    BY <1>2, <1>3 DEF FreeChunks
  <1> HIDE DEF F
  <1>7. OneChunk(q, r, c, e, TRUE, F)
    BY <1>1, <1>3, <1>4, <1>5, <1>6, SetSizeMerges
  <1>8. /\ Relaid(q, r, c, e, M) /\ InUse(r, c) /\ ChunkSize(r, c) = s
        /\ Bins(r, F) /\ r.blocks = Clobber(q.blocks, W)
    BY <1>3, <1>7 DEF OneChunk
  <1>9. (\A a \in W : a \in Nat /\ c <= a /\ a <= e) /\ F \cup M = F /\ \A d \in M : FALSE
    BY <1>3
  <1> HIDE DEF M, W
  <1>10. Bins(r, F \cup M) /\ ChunkSize(r, c) - n \in 0 .. 1
    BY <1>5, <1>8, <1>9
  <1>11. QED
    BY <1>5, <1>8, <1>9, <1>10, TakenBy

\* A chunk taken out of its bin is in hand.
LEMMA FineUnlinked ==
    ASSUME NEW q, NEW L, NEW x, Fine(q, L, x), NEW c \in FreeChunks(q) \ L, NEW t, t = UnlinkFree(q, c)
    PROVE  Fine(t, L \cup {c}, x) /\ SameHeads(q, t)
  <1>1. q \in Pool /\ Laid(q) /\ Bins(q, FreeChunks(q) \ L) /\ Held(q, UsedChunks(q) \ L, x)
    BY DEF Fine
  <1>2. ChunkSize(q, c) \in Nat /\ c \notin UsedChunks(q)
    BY <1>1, ChunkPlace DEF FreeChunks, UsedChunks
  <1>3. t \in Pool /\ SameHeads(q, t) /\ Bins(t, (FreeChunks(q) \ L) \ {c})
    BY <1>1, <1>2, UnlinkFreeIs
  <1>4. /\ Laid(t) /\ FreeChunks(t) = FreeChunks(q) /\ UsedChunks(t) = UsedChunks(q)
        /\ t.blocks = q.blocks /\ t.mSize = q.mSize
    BY <1>1, <1>3, SameLaid DEF SameHeads
  <1>5. Held(t, UsedChunks(q) \ L, x)
    BY <1>1, <1>4, SameHeld DEF ChunkSize
  <1>6. UsedChunks(t) \ (L \cup {c}) = UsedChunks(q) \ L /\ FreeChunks(t) \ (L \cup {c}) = (FreeChunks(q) \ L) \ {c}
    BY <1>2, <1>4
  <1>7. QED
    BY <1>3, <1>4, <1>5, <1>6 DEF Fine

\* What Alloc does with a free chunk.
LEMMA TakeIs ==
    ASSUME NEW q, NEW x, Fine(q, {}, x), NEW c \in FreeChunks(q), NEW n \in Nat, n >= 2, ChunkSize(q, c) >= n,
           NEW r, r = Take(q, c, n)
    PROVE  Taken(q, r, c, n, x)
  <1> DEFINE t == UnlinkFree(q, c)
  <1>1. Fine(t, {} \cup {c}, x) /\ SameHeads(q, t)
    BY FineUnlinked
  <1>2. q \in Pool /\ ChunkSize(q, c) \in Nat
    BY ChunkPlace DEF Fine, FreeChunks
  <1>3. {} \cup {c} = {c}
    OBVIOUS
  <1> HIDE DEF t
  <1>4. /\ Fine(t, {c}, x) /\ c \in FreeChunks(t) /\ UsedChunks(t) = UsedChunks(q)
        /\ ChunkSize(t, c) = ChunkSize(q, c) /\ t.mSize = q.mSize
    BY <1>1, <1>3, SameLaid DEF SameHeads
  <1>5. Taken(t, r, c, n, x)
    <2>1. CASE ChunkSize(q, c) - n >= 2
      <3>1. r = SplitOff(t, c, n)
        BY <2>1, MinSize DEF Take, t
      <3>2. QED
        BY <1>4, <2>1, <3>1, SplitOffIs
    <2>2. CASE ~(ChunkSize(q, c) - n >= 2)
      <3>1. r = SetSizeInUse(t, c, ChunkSize(t, c))
        BY <1>4, <2>2, MinSize DEF Take, t
      <3>2. ChunkSize(t, c) - n \in 0 .. 1
        BY <1>2, <1>4, <2>2
      <3>3. QED
        BY <1>4, <3>1, <3>2, TakeAllIs
    <2>3. QED
      BY <2>1, <2>2
  <1>6. QED
    BY <1>4, <1>5 DEF Taken
-----------------------------------------------------------------------------
(* New areas. *)

\* Where malloc puts an area there is nothing yet.
LEMMA VacantApart ==
    ASSUME NEW q \in Pool, Spaced(q), NEW c \in Vacant(q), NEW n \in Nat, n <= MaxSize, NEW e, e = c + n
    PROVE  /\ c \in Nat /\ c \in Places
           /\ \A b \in Areas(q) : b.at + b.size < c \/ e < b.at
           /\ \A x \in DOMAIN q.mSize : x < c \/ x > e
  <1>1. c \in Nat /\ c \in Places /\ MaxSize \in Nat
    BY PoolAssumption DEF Vacant
  <1>2. ASSUME NEW b \in Areas(q) PROVE b.at + b.size < c \/ e < b.at
    <2>1. b.at # c
      BY DEF Areas, Vacant
    <2>2. b.at \in Places /\ b.at \in Nat /\ b.size \in Nat /\ b.size <= MaxSize
      BY <1>1, MinSize, PoolAreas DEF Spaced
    <2>3. (b.at < c => b.at + MaxSize < c) /\ (c < b.at => c + MaxSize < b.at)
      BY <1>1, <2>2, PoolAssumption
    <2>4. QED
      BY <1>1, <2>1, <2>2, <2>3
  <1>3. ASSUME NEW x \in DOMAIN q.mSize PROVE x < c \/ x > e
    <2>1. PICK b \in Areas(q) : b.at <= x /\ x <= b.at + b.size
      BY DEF Spaced
    <2>2. x \in Nat /\ b.at \in Nat /\ b.size \in Nat
      BY PoolAreas, PoolFields
    <2>3. QED
      BY <1>1, <1>2, <2>1, <2>2
  <1>4. QED
    BY <1>1, <1>2, <1>3

\* The pool r has one area more, from c to e, and in it one chunk with the word w.
Grown(q, r, c, e, w) ==
    /\ \A x : x \in DOMAIN r.mSize <=> x \in DOMAIN q.mSize \/ x = c \/ x = e
    /\ \A x : x \in DOMAIN r.mPrevSize <=> x \in DOMAIN q.mPrevSize \/ x = c \/ x = e
    /\ r.mSize[c] = w /\ r.mSize[e] = kChunkInUse /\ r.mPrevSize[c] = kChunkInUse /\ r.mPrevSize[e] = w
    /\ \A x \in DOMAIN q.mSize : r.mSize[x] = q.mSize[x]
    /\ \A x \in DOMAIN q.mPrevSize : r.mPrevSize[x] = q.mPrevSize[x]
    /\ r.mBins = q.mBins /\ r.mBinBlocks = q.mBinBlocks /\ r.blocks = Clobber(q.blocks, {c, e})
    /\ r.mAreas = <<[at |-> c, size |-> w.size]>> \o q.mAreas

LEMMA NewAreaFields ==
    ASSUME NEW q \in Pool, NEW c \in Nat, NEW n \in Nat, n >= 2, NEW e, e = c + n,
           \A x \in DOMAIN q.mSize : x < c \/ x > e, \A x \in DOMAIN q.mPrevSize : x < c \/ x > e,
           NEW r, r = NewArea(q, c, n), NEW w, w = Word(n, FALSE)
    PROVE  r \in Pool /\ Grown(q, r, c, e, w)
  <1> DEFINE f == Except(q.mSize, e, kChunkInUse)
             g == Except(q.mPrevSize, c, kChunkInUse)
             A == <<[at |-> c, size |-> n]>> \o q.mAreas
             u == [q EXCEPT !.mAreas = A, !.mSize = f, !.mPrevSize = g]
             WW == UNION {Words(D) : D \in SUBSET Nat}
             BB == UNION {[I -> Seq(Nat)] : I \in SUBSET Nat}
  <1>0. e \in Nat /\ c < e
    OBVIOUS
  <1>1. r = SetSize(u, c, n, w)
    <2>1. SetNeighborsInUse([q EXCEPT !.mAreas = A], c, n) = u
      BY DEF SetNeighborsInUse, Pool
    <2>2. QED
      BY <2>1 DEF NewArea, SetSizeFree
  <1>2. w \in WordRec /\ w.size = n /\ kChunkInUse \in WordRec
    BY WordType DEF kChunkInUse
  <1>3. /\ DOMAIN f = DOMAIN q.mSize \cup {e} /\ f[e] = kChunkInUse /\ \A x \in DOMAIN q.mSize : x # e => f[x] = q.mSize[x]
        /\ DOMAIN g = DOMAIN q.mPrevSize \cup {c} /\ g[c] = kChunkInUse
        /\ \A x \in DOMAIN q.mPrevSize : x # c => g[x] = q.mPrevSize[x]
    BY DEF Except
  <1>4. f \in WW /\ g \in WW
    <2>1. f \in [DOMAIN q.mSize \cup {e} -> WordRec] /\ DOMAIN q.mSize \cup {e} \in SUBSET Nat
      BY <1>0, <1>2, PoolFields DEF Words, Except
    <2>2. g \in [DOMAIN q.mPrevSize \cup {c} -> WordRec] /\ DOMAIN q.mPrevSize \cup {c} \in SUBSET Nat
      BY <1>0, <1>2, PoolFields DEF Words, Except
    <2>3. QED
      BY <2>1, <2>2 DEF Words
  <1>5. A \in Seq(AreaRec)
    <2>1. q.mAreas \in Seq(AreaRec) /\ [at |-> c, size |-> n] \in AreaRec
      BY PoolFields DEF AreaRec
    <2>2. QED
      BY <2>1
  <1>6. q \in [mSize : WW, mPrevSize : WW, mBins : BB, mBinBlocks : SUBSET Nat,
               mAreas : Seq(AreaRec), blocks : SUBSET BlockRec]
    BY DEF Pool
  <1> HIDE DEF f, g, A, WW, BB
  <1>7. /\ u \in [mSize : WW, mPrevSize : WW, mBins : BB, mBinBlocks : SUBSET Nat,
                  mAreas : Seq(AreaRec), blocks : SUBSET BlockRec]
        /\ u.mSize = f /\ u.mPrevSize = g /\ u.mBins = q.mBins /\ u.mBinBlocks = q.mBinBlocks
        /\ u.mAreas = A /\ u.blocks = q.blocks
    BY <1>4, <1>5, <1>6
  <1>8. u \in Pool
    BY <1>7 DEF Pool, WW, BB
  <1> HIDE DEF u
  <1>9. SizeSet(u, r, c, e, w)
    BY <1>1, <1>2, <1>8, SetSizeWords
  <1>10. r \in Pool /\ Wrote(u, r, c, e, w) /\ r.mBins = q.mBins /\ r.mBinBlocks = q.mBinBlocks /\ r.mAreas = A
         /\ r.blocks = Clobber(q.blocks, {c, e})
    BY <1>7, <1>9 DEF SizeSet, SameRest
  <1>11. /\ \A x : x \in DOMAIN r.mSize <=> x = c \/ (x \in DOMAIN f /\ (x <= c \/ x >= e))
         /\ \A x : x \in DOMAIN r.mPrevSize <=> x = e \/ (x \in DOMAIN g /\ (x <= c \/ x >= e))
         /\ r.mSize[c] = w /\ r.mPrevSize[e] = w
         /\ \A x \in DOMAIN f : x # c /\ (x <= c \/ x >= e) => r.mSize[x] = f[x]
         /\ \A x \in DOMAIN g : x # e /\ (x <= c \/ x >= e) => r.mPrevSize[x] = g[x]
    BY <1>7, <1>10 DEF Wrote
  <1>12. /\ \A x \in DOMAIN q.mSize : x \in Nat /\ x # c /\ x # e /\ (x <= c \/ x >= e)
         /\ \A x \in DOMAIN q.mPrevSize : x \in Nat /\ x # c /\ x # e /\ (x <= c \/ x >= e)
    BY <1>0, PoolFields
  <1>13. /\ \A x : x \in DOMAIN r.mSize <=> x \in DOMAIN q.mSize \/ x = c \/ x = e
         /\ \A x : x \in DOMAIN r.mPrevSize <=> x \in DOMAIN q.mPrevSize \/ x = c \/ x = e
    BY <1>0, <1>3, <1>11, <1>12
  <1>14. r.mSize[e] = kChunkInUse /\ r.mPrevSize[c] = kChunkInUse
    BY <1>0, <1>3, <1>11
  <1>15. /\ \A x \in DOMAIN q.mSize : r.mSize[x] = q.mSize[x]
         /\ \A x \in DOMAIN q.mPrevSize : r.mPrevSize[x] = q.mPrevSize[x]
    BY <1>3, <1>11, <1>12
  <1>16. r.mAreas = <<[at |-> c, size |-> w.size]>> \o q.mAreas
    BY <1>2, <1>10 DEF A
  <1>17. QED
    BY <1>10, <1>11, <1>13, <1>14, <1>15, <1>16 DEF Grown

OneMore(s, a, t) ==
    /\ t \in Seq(AreaRec) /\ {t[j] : j \in DOMAIN t} = {s[j] : j \in DOMAIN s} \cup {a}
    /\ (\A j, k \in DOMAIN s : s[j].at = s[k].at => j = k) /\ (\A j \in DOMAIN s : s[j].at # a.at)
       => \A j, k \in DOMAIN t : t[j].at = t[k].at => j = k

LEMMA OneMoreArea ==
    ASSUME NEW s \in Seq(AreaRec), NEW a \in AreaRec, NEW t
    PROVE  t = <<a>> \o s =>
           OneMore(s, a, t)
  <1>0. SUFFICES ASSUME t = <<a>> \o s
        PROVE  OneMore(s, a, t)
    OBVIOUS
  <1>1. Len(s) \in Nat /\ DOMAIN s = 1 .. Len(s)
    OBVIOUS
  <1>2. /\ t \in Seq(AreaRec) /\ Len(t) = Len(s) + 1 /\ t[1] = a /\ DOMAIN t = 1 .. Len(s) + 1
        /\ \A j \in 2 .. Len(s) + 1 : t[j] = s[j - 1]
    BY <1>0
  <1>3. \A j \in DOMAIN t : j = 1 \/ (j - 1 \in DOMAIN s /\ t[j] = s[j - 1])
    BY <1>1, <1>2
  <1>4. \A j \in DOMAIN s : j + 1 \in DOMAIN t /\ t[j + 1] = s[j]
    BY <1>1, <1>2
  <1>5. 1 \in DOMAIN t /\ \A j \in DOMAIN t : j \in Nat
    BY <1>1, <1>2
  <1>6. ASSUME NEW y \in {t[j] : j \in DOMAIN t} PROVE y \in {s[j] : j \in DOMAIN s} \cup {a}
    BY <1>2, <1>3
  <1>7. ASSUME NEW y \in {s[j] : j \in DOMAIN s} \cup {a} PROVE y \in {t[j] : j \in DOMAIN t}
    BY <1>2, <1>4, <1>5
  <1>8. {t[j] : j \in DOMAIN t} = {s[j] : j \in DOMAIN s} \cup {a}
    BY <1>6, <1>7
  <1>9. ASSUME \A j, k \in DOMAIN s : s[j].at = s[k].at => j = k, \A j \in DOMAIN s : s[j].at # a.at,
               NEW j \in DOMAIN t, NEW k \in DOMAIN t, t[j].at = t[k].at
        PROVE  j = k
    <2>1. j \in Nat /\ k \in Nat /\ t[1] = a
      BY <1>2, <1>5
    <2>2. CASE j = 1 /\ k = 1
      BY <2>2
    <2>3. CASE j = 1 /\ k # 1
      BY <1>3, <1>9, <2>1, <2>3
    <2>4. CASE j # 1 /\ k = 1
      BY <1>3, <1>9, <2>1, <2>4
    <2>5. CASE j # 1 /\ k # 1
      <3>1. j - 1 \in DOMAIN s /\ k - 1 \in DOMAIN s /\ s[j - 1].at = s[k - 1].at
        BY <1>3, <1>9, <2>5
      <3>2. j - 1 = k - 1
        BY <1>9, <3>1
      <3>3. QED
        BY <2>1, <3>2
    <2>6. QED
      BY <2>2, <2>3, <2>4, <2>5
  <1>10. QED
    BY <1>2, <1>8, <1>9 DEF OneMore

LEMMA GrownLaid ==
    ASSUME NEW q \in Pool, Laid(q), NEW r \in Pool, NEW c \in Places, c \in Nat, NEW w \in WordRec,
           w.size \in 2 .. MaxSize, ~w.inUse, NEW e, e = c + w.size, Grown(q, r, c, e, w),
           \A b \in Areas(q) : b.at + b.size < c \/ e < b.at,
           \A x \in DOMAIN q.mSize : x < c \/ x > e
    PROVE  Laid(r) /\ \A x : x \in Chunks(r) <=> x \in Chunks(q) \/ x = c
  <1> DEFINE a == [at |-> c, size |-> w.size]
  <1>0. /\ e \in Nat /\ c < e /\ MaxSize \in Nat /\ w.size \in Nat /\ a \in AreaRec /\ a.at = c /\ a.size = w.size
        /\ \A x \in DOMAIN q.mSize : x \in Nat /\ x # c /\ x # e
    <2>1. MaxSize \in Nat /\ \A x \in DOMAIN q.mSize : x \in Nat
      BY PoolAssumption, PoolFields
    <2>2. w.size \in Nat /\ w.size >= 2
      BY <2>1
    <2>3. e \in Nat /\ c < e
      BY <2>2
    <2>4. a \in AreaRec /\ a.at = c /\ a.size = w.size
      BY <2>2 DEF AreaRec
    <2>5. \A x \in DOMAIN q.mSize : x # c /\ x # e
      BY <2>1, <2>3
    <2>6. QED
      BY <2>1, <2>2, <2>3, <2>4, <2>5
  <1>1. /\ DOMAIN q.mPrevSize = DOMAIN q.mSize
        /\ \A x : x \in DOMAIN r.mSize <=> x \in DOMAIN q.mSize \/ x = c \/ x = e
        /\ DOMAIN r.mPrevSize = DOMAIN r.mSize
    BY DEF Laid, Tiled, Grown
  <1>2. /\ r.mSize[c] = w /\ r.mSize[e] = kChunkInUse /\ r.mPrevSize[c] = kChunkInUse /\ r.mPrevSize[e] = w
        /\ \A x \in DOMAIN q.mSize : r.mSize[x] = q.mSize[x] /\ r.mPrevSize[x] = q.mPrevSize[x]
    BY <1>1 DEF Grown
  <1>3. Areas(r) = Areas(q) \cup {a} /\ \A j, k \in DOMAIN r.mAreas : r.mAreas[j].at = r.mAreas[k].at => j = k
    <2>1. q.mAreas \in Seq(AreaRec) /\ r.mAreas = <<a>> \o q.mAreas
      BY PoolFields DEF Grown
    <2>2. \A j, k \in DOMAIN q.mAreas : q.mAreas[j].at = q.mAreas[k].at => j = k
      BY DEF Laid, Spaced
    <2>3. \A j \in DOMAIN q.mAreas : q.mAreas[j].at # a.at
      <3>1. \A b \in Areas(q) : b.at # c
        BY <1>0, PoolAreas
      <3>2. QED
        BY <1>0, <3>1 DEF Areas
    <2> HIDE DEF a
    <2>4. a \in AreaRec
      BY <1>0
    <2>5. /\ {r.mAreas[j] : j \in DOMAIN r.mAreas} = {q.mAreas[j] : j \in DOMAIN q.mAreas} \cup {a}
          /\ \A j, k \in DOMAIN r.mAreas : r.mAreas[j].at = r.mAreas[k].at => j = k
      <3>1. OneMore(q.mAreas, a, r.mAreas)
        BY <2>1, <2>4, OneMoreArea
      <3>2. QED
        BY <2>2, <2>3, <3>1 DEF OneMore
    <2>6. QED
      BY <2>5 DEF Areas
  <1> HIDE DEF a
  <1>4. \A x : x \in Ends(r) <=> x \in Ends(q) \/ x = e
    BY <1>0, <1>3 DEF Ends
  <1>5. \A x \in Ends(q) : x \in DOMAIN q.mSize
    BY DEF Ends, Laid, Tiled
  <1>6. \A x : x \in Chunks(r) <=> x \in Chunks(q) \/ x = c
    BY <1>0, <1>1, <1>4, <1>5 DEF Chunks
  <1>7. Spaced(r)
    <2>1. \A b \in Areas(r) : b.at \in Places /\ b.size \in kMinAllocSize .. MaxSize
      BY <1>0, <1>3, MinSize DEF Laid, Spaced
    <2>2. \A x \in DOMAIN r.mSize : \E b \in Areas(r) : b.at <= x /\ x <= b.at + b.size
      <3>1. \A x \in DOMAIN q.mSize : \E b \in Areas(r) : b.at <= x /\ x <= b.at + b.size
        BY <1>3 DEF Laid, Spaced
      <3>2. a \in Areas(r) /\ a.at <= c /\ c <= a.at + a.size /\ a.at <= e /\ e <= a.at + a.size
        BY <1>0, <1>3
      <3>3. QED
        BY <1>1, <3>1, <3>2
    <2>3. QED
      BY <1>3, <2>1, <2>2 DEF Spaced
  <1>8. ASSUME NEW b \in Areas(r)
        PROVE  /\ {b.at, b.at + b.size} \subseteq DOMAIN r.mSize
               /\ r.mPrevSize[b.at] = kChunkInUse
               /\ r.mSize[b.at + b.size] = kChunkInUse
    <2>1. CASE b = a
      BY <1>0, <1>1, <1>2, <2>1
    <2>2. CASE b \in Areas(q)
      <3>1. /\ b.at \in DOMAIN q.mSize /\ b.at + b.size \in DOMAIN q.mSize
            /\ q.mPrevSize[b.at] = kChunkInUse /\ q.mSize[b.at + b.size] = kChunkInUse
        BY <2>2 DEF Laid, Tiled
      <3>2. QED
        BY <1>1, <1>2, <3>1
    <2>3. QED
      BY <1>3, <2>1, <2>2
  <1>9. ASSUME NEW d \in Chunks(r)
        PROVE  LET next == d + ChunkSize(r, d) IN
               /\ ChunkSize(r, d) >= kMinAllocSize /\ next \in DOMAIN r.mSize
               /\ d + 1 .. next - 1 \cap DOMAIN r.mSize = {}
               /\ r.mPrevSize[next] = r.mSize[d]
               /\ InUse(r, d) \/ (PrevInUse(r, d) /\ InUse(r, next))
    <2>1. CASE d = c
      <3>1. ChunkSize(r, c) = w.size /\ c + ChunkSize(r, c) = e
        BY <1>2 DEF ChunkSize
      <3>2. c + 1 .. e - 1 \cap DOMAIN r.mSize = {}
        BY <1>0, <1>1
      <3>3. PrevInUse(r, c) /\ InUse(r, e)
        BY <1>2 DEF PrevInUse, InUse, kChunkInUse, Word
      <3>4. QED
        BY <1>0, <1>1, <1>2, <2>1, <3>1, <3>2, <3>3, MinSize
    <2>2. CASE d \in Chunks(q)
      <3> DEFINE next == d + ChunkSize(q, d)
      <3>1. /\ d \in Nat /\ ChunkSize(q, d) \in Nat /\ ChunkSize(q, d) >= 2 /\ next \in DOMAIN q.mSize
            /\ \A x \in DOMAIN q.mSize : ~(d < x /\ x < next)
            /\ q.mPrevSize[next] = q.mSize[d]
            /\ InUse(q, d) \/ (PrevInUse(q, d) /\ InUse(q, next))
            /\ \A x \in Ends(q) : ~(d < x /\ x < next)
            /\ d \in DOMAIN q.mSize
        BY <2>2, NextChunk, ChunkPlace
      <3>2. ChunkSize(r, d) = ChunkSize(q, d) /\ InUse(r, d) = InUse(q, d) /\ PrevInUse(r, d) = PrevInUse(q, d)
        BY <1>2, <3>1 DEF ChunkSize, InUse, PrevInUse
      <3>3. InUse(r, next) = InUse(q, next) /\ r.mPrevSize[next] = r.mSize[d] /\ next \in DOMAIN r.mSize
        BY <1>1, <1>2, <3>1 DEF InUse
      <3>4. d < next /\ next \in Nat
        BY <3>1
      <3> HIDE DEF next
      <3>5. PICK b \in Areas(q) : b.at <= d /\ next <= b.at + b.size
        BY <2>2, <3>1, <3>4, OneArea
      <3>6. ~(d < c /\ c < next) /\ ~(d < e /\ e < next)
        <4>1. b.at \in Nat /\ b.size \in Nat /\ (b.at + b.size < c \/ e < b.at)
          BY PoolAreas
        <4>2. QED
          BY <1>0, <3>1, <3>4, <3>5, <4>1
      <3>7. d + 1 .. next - 1 \cap DOMAIN r.mSize = {}
        BY <1>0, <1>1, <3>1, <3>4, <3>6
      <3>8. next = d + ChunkSize(r, d) /\ ChunkSize(r, d) >= 2
        BY <3>1, <3>2 DEF next
      <3>9. QED
        BY <3>1, <3>2, <3>3, <3>7, <3>8, MinSize
    <2>3. QED
      BY <1>6, <2>1, <2>2
  <1>10. Tiled(r)
    BY <1>1, <1>8, <1>9 DEF Tiled
  <1>11. QED
    BY <1>6, <1>7, <1>10 DEF Laid

\* The new area is one free chunk that is in no bin.
HasArea(q, r, c, n, x) ==
    /\ Fine(r, {c}, x) /\ c \in FreeChunks(r) /\ ChunkSize(r, c) = n /\ r.blocks = Clobber(q.blocks, {c, c + n})
    /\ c \notin UsedChunks(q) /\ UsedChunks(r) = UsedChunks(q) /\ \A d \in UsedChunks(q) : r.mSize[d] = q.mSize[d]

LEMMA NewAreaIs ==
    ASSUME NEW q, NEW x, Fine(q, {}, x), NEW c \in Vacant(q), NEW n \in 2 .. MaxSize, NEW r, r = NewArea(q, c, n)
    PROVE  HasArea(q, r, c, n, x)
  <1> DEFINE e == c + n
             w == Word(n, FALSE)
             W == {c, e}
  <1>1. q \in Pool /\ Laid(q) /\ Tiled(q) /\ Spaced(q) /\ Bins(q, FreeChunks(q)) /\ Held(q, UsedChunks(q), x)
    <2>1. FreeChunks(q) \ {} = FreeChunks(q) /\ UsedChunks(q) \ {} = UsedChunks(q)
      OBVIOUS
    <2>2. QED
      BY <2>1 DEF Fine, Laid
  <1>2. n \in Nat /\ n >= 2 /\ n <= MaxSize /\ n \in 2 .. MaxSize
    BY PoolAssumption
  <1>3. w \in WordRec /\ w.size = n /\ ~w.inUse /\ w = Word(n, FALSE) /\ e = c + n
    BY <1>2, WordType
  <1> HIDE DEF e, w
  <1>4. /\ c \in Nat /\ c \in Places
        /\ \A b \in Areas(q) : b.at + b.size < c \/ e < b.at
        /\ \A y \in DOMAIN q.mSize : y < c \/ y > e
    BY <1>1, <1>2, <1>3, VacantApart
  <1>5. \A y \in DOMAIN q.mPrevSize : y < c \/ y > e
    BY <1>1, <1>4 DEF Tiled
  <1>6. r \in Pool /\ Grown(q, r, c, e, w)
    BY <1>1, <1>2, <1>3, <1>4, <1>5, NewAreaFields
  <1>7. Laid(r) /\ \A y : y \in Chunks(r) <=> y \in Chunks(q) \/ y = c
    BY <1>1, <1>2, <1>3, <1>4, <1>6, GrownLaid
  <1>8. /\ r.mSize[c] = w /\ c \in DOMAIN r.mSize /\ e \in DOMAIN r.mSize
        /\ \A y \in DOMAIN q.mSize : r.mSize[y] = q.mSize[y]
        /\ r.mBins = q.mBins /\ r.mBinBlocks = q.mBinBlocks /\ r.blocks = Clobber(q.blocks, W)
    BY <1>6 DEF Grown
  <1>9. c \in FreeChunks(r) /\ ChunkSize(r, c) = n /\ c \notin Chunks(q)
    <2>1. c \notin Chunks(q)
      BY <1>2, <1>3, <1>4 DEF Chunks
    <2>2. c \in Chunks(r) /\ ~InUse(r, c) /\ ChunkSize(r, c) = n
      BY <1>3, <1>7, <1>8 DEF InUse, ChunkSize
    <2>3. QED
      BY <2>1, <2>2 DEF FreeChunks
  <1>10. \A d \in Chunks(q) : ChunkSize(r, d) = ChunkSize(q, d) /\ InUse(r, d) = InUse(q, d)
    BY <1>8 DEF Chunks, ChunkSize, InUse
  <1>11. UsedChunks(r) = UsedChunks(q) /\ c \notin UsedChunks(q) /\ UsedChunks(r) \ {c} = UsedChunks(q)
    BY <1>7, <1>9, <1>10 DEF UsedChunks, FreeChunks
  <1>12. \A d : d \in FreeChunks(q) <=> d \in FreeChunks(r) \ {c}
    BY <1>7, <1>9, <1>10 DEF FreeChunks
  <1>13. Bins(r, FreeChunks(r) \ {c})
    <2>1. Bins(r, FreeChunks(q))
      <3>1. \A d \in FreeChunks(q) : ChunkSize(r, d) = ChunkSize(q, d)
        BY <1>10 DEF FreeChunks
      <3>2. QED
        BY <1>1, <1>8, <3>1, BinsFrame
    <2>2. QED
      BY <1>12, <2>1, SameBins
  <1>14. Held(r, UsedChunks(q), x)
    <2>1. \A a \in W : a \in Nat
      BY <1>2, <1>3, <1>4
    <2>2. ASSUME NEW d \in UsedChunks(q)
          PROVE  /\ d \in Nat /\ ChunkSize(q, d) \in Nat /\ ChunkSize(r, d) = ChunkSize(q, d)
                 /\ \A a \in W : ~(d < a /\ a < d + ChunkSize(q, d))
      <3>1. d \in Chunks(q) /\ d \in Chunks(r)
        BY <1>7 DEF UsedChunks
      <3>2. ChunkSize(r, d) = ChunkSize(q, d) /\ d \in Nat /\ ChunkSize(q, d) \in Nat
        BY <1>1, <1>10, <3>1, ChunkPlace
      <3>3. \A a \in DOMAIN r.mSize : ~(d < a /\ a < d + ChunkSize(r, d))
        BY <1>6, <1>7, <3>1, NextChunk
      <3>4. QED
        BY <1>8, <3>2, <3>3
    <2> HIDE DEF W
    <2>3. QED
      BY <1>1, <1>6, <1>8, <2>1, <2>2, HeldFrame
  <1>15. \A d \in UsedChunks(q) : r.mSize[d] = q.mSize[d]
    BY <1>8 DEF UsedChunks, Chunks
  <1>16. Fine(r, {c}, x)
    BY <1>6, <1>7, <1>11, <1>13, <1>14 DEF Fine
  <1>17. QED
    BY <1>3, <1>8, <1>9, <1>11, <1>15, <1>16 DEF HasArea

\* A chunk put into its bin is not in hand any more.
LEMMA FineLinked ==
    ASSUME NEW q, NEW L, NEW x, Fine(q, L, x), NEW c \in FreeChunks(q), c \in L, NEW r, r = LinkFree(q, c)
    PROVE  Fine(r, L \ {c}, x) /\ SameHeads(q, r)
  <1>1. q \in Pool /\ Laid(q) /\ Bins(q, FreeChunks(q) \ L) /\ Held(q, UsedChunks(q) \ L, x)
    BY DEF Fine
  <1>2. /\ c \in Nat /\ ChunkSize(q, c) \in Nat /\ c \notin UsedChunks(q) /\ c \notin FreeChunks(q) \ L
        /\ \A d \in FreeChunks(q) \ L : ChunkSize(q, d) \in Nat
    BY <1>1, ChunkPlace DEF FreeChunks, UsedChunks
  <1>3. r \in Pool /\ SameHeads(q, r) /\ Bins(r, (FreeChunks(q) \ L) \cup {c})
    BY <1>1, <1>2, LinkFreeIs
  <1>4. /\ Laid(r) /\ FreeChunks(r) = FreeChunks(q) /\ UsedChunks(r) = UsedChunks(q)
        /\ r.blocks = q.blocks /\ r.mSize = q.mSize
    BY <1>1, <1>3, SameLaid DEF SameHeads
  <1>5. Held(r, UsedChunks(q) \ L, x)
    BY <1>1, <1>4, SameHeld DEF ChunkSize
  <1>6. /\ UsedChunks(r) \ (L \ {c}) = UsedChunks(q) \ L
        /\ FreeChunks(r) \ (L \ {c}) = (FreeChunks(q) \ L) \cup {c}
    BY <1>2, <1>4
  <1>7. QED
    BY <1>3, <1>4, <1>5, <1>6 DEF Fine

LEMMA EmptyIsFine ==
    /\ Fine(EmptyPool, {}, Nobody) /\ EmptyPool.blocks = {} /\ EmptyPool.mAreas = <<>>
    /\ Malloc(EmptyPool) \in Vacant(EmptyPool)
  <1> DEFINE q == EmptyPool
  <1>1. /\ q.mSize = Nothing /\ q.mPrevSize = Nothing /\ q.mBins = Nothing /\ q.mBinBlocks = {}
        /\ q.mAreas = <<>> /\ q.blocks = {}
    BY DEF EmptyPool
  <1>2. DOMAIN Nothing = {} /\ DOMAIN q.mAreas = {}
    BY <1>1 DEF Nothing
  <1>3. q \in Pool
    <2> DEFINE WW == UNION {Words(D) : D \in SUBSET Nat}
               BB == UNION {[I -> Seq(Nat)] : I \in SUBSET Nat}
    <2>1. Nothing \in Words({}) /\ Nothing \in [{} -> Seq(Nat)] /\ {} \in SUBSET Nat
      BY DEF Nothing, Words
    <2>2. Nothing \in WW /\ Nothing \in BB
      BY <2>1
    <2>3. <<>> \in Seq(AreaRec)
      OBVIOUS
    <2> HIDE DEF WW, BB
    <2>4. q \in [mSize : WW, mPrevSize : WW, mBins : BB, mBinBlocks : SUBSET Nat,
                 mAreas : Seq(AreaRec), blocks : SUBSET BlockRec]
      BY <2>2, <2>3 DEF EmptyPool
    <2>5. QED
      BY <2>4 DEF Pool, WW, BB
  <1> HIDE DEF q
  <1>4. Areas(q) = {} /\ Chunks(q) = {}
    BY <1>1, <1>2 DEF Areas, Chunks
  <1>5. FreeChunks(q) = {} /\ UsedChunks(q) = {}
    BY <1>4 DEF FreeChunks, UsedChunks
  <1>6. Tiled(q)
    BY <1>1, <1>2, <1>4 DEF Tiled
  <1>7. Spaced(q)
    BY <1>1, <1>2, <1>4 DEF Spaced
  <1>8. Bins(q, {}) /\ Held(q, {}, Nobody)
    BY <1>1, <1>2 DEF Bins, Held
  <1>9. Fine(q, {}, Nobody)
    BY <1>3, <1>5, <1>6, <1>7, <1>8 DEF Fine, Laid
  <1>10. Vacant(q) = Places
    BY <1>2 DEF Vacant
  <1>11. Malloc(q) \in Vacant(q)
    BY <1>10, PoolAssumption DEF Malloc
  <1>12. QED
    BY <1>1, <1>9, <1>11 DEF q
-----------------------------------------------------------------------------
(* The search. *)

LEMMA BinIndexRange ==
    ASSUME NEW n \in Nat
    PROVE  /\ BinIndex(n) \in Nat
           /\ n < 16 => BinIndex(n) = 4 * n
           /\ n >= 16 => BinIndex(n) >= 64
           /\ n >= 16 /\ n < 32 => BinIndex(n) >= 64 /\ BinIndex(n) <= 71
           /\ n >= 32 /\ n < 64 => BinIndex(n) >= 72 /\ BinIndex(n) <= 79
           /\ n >= 64 /\ n < 128 => BinIndex(n) >= 80 /\ BinIndex(n) <= 87
           /\ n >= 128 /\ n < 256 => BinIndex(n) >= 88 /\ BinIndex(n) <= 95
           /\ n >= 256 /\ n < 512 => BinIndex(n) >= 96 /\ BinIndex(n) <= 103
           /\ n >= 512 /\ n < 1024 => BinIndex(n) >= 104 /\ BinIndex(n) <= 111
           /\ n >= 1024 /\ n < 2048 => BinIndex(n) >= 112 /\ BinIndex(n) <= 119
           /\ n >= 2048 /\ n < 4096 => BinIndex(n) >= 120 /\ BinIndex(n) <= 127
           /\ n >= 4096 => BinIndex(n) = 127
  <1>1. BinIndex(n) \in Nat /\ (n < 16 => BinIndex(n) = 4 * n) /\ (n >= 4096 => BinIndex(n) = 127)
    BY BinIndexNat DEF BinIndex
  <1>2. n >= 16 /\ n < 32 => BinIndex(n) >= 64 /\ BinIndex(n) <= 71
    BY DEF BinIndex
  <1>3. n >= 32 /\ n < 64 => BinIndex(n) >= 72 /\ BinIndex(n) <= 79
    BY DEF BinIndex
  <1>4. n >= 64 /\ n < 128 => BinIndex(n) >= 80 /\ BinIndex(n) <= 87
    BY DEF BinIndex
  <1>5. n >= 128 /\ n < 256 => BinIndex(n) >= 88 /\ BinIndex(n) <= 95
    BY DEF BinIndex
  <1>6. n >= 256 /\ n < 512 => BinIndex(n) >= 96 /\ BinIndex(n) <= 103
    BY DEF BinIndex
  <1>7. n >= 512 /\ n < 1024 => BinIndex(n) >= 104 /\ BinIndex(n) <= 111
    BY DEF BinIndex
  <1>8. n >= 1024 /\ n < 2048 => BinIndex(n) >= 112 /\ BinIndex(n) <= 119
    BY DEF BinIndex
  <1>9. n >= 2048 /\ n < 4096 => BinIndex(n) >= 120 /\ BinIndex(n) <= 127
    BY DEF BinIndex
  <1>10. n >= 16 => BinIndex(n) >= 64
    BY <1>1, <1>2, <1>3, <1>4, <1>5, <1>6, <1>7, <1>8, <1>9
  <1>11. QED
    BY <1>1, <1>2, <1>3, <1>4, <1>5, <1>6, <1>7, <1>8, <1>9, <1>10

\* Larger chunks are in later bins, and in a small bin all are of one size.
LEMMA BinIndexOrder ==
    ASSUME NEW m \in Nat, NEW n \in Nat
    PROVE  /\ m <= n => BinIndex(m) <= BinIndex(n)
           /\ BinIndex(m) = BinIndex(n) /\ BinIndex(n) < 64 => m = n
           /\ n < 16 <=> BinIndex(n) < 63
  <1>1. /\ BinIndex(n) \in Nat
        /\ n < 16 => BinIndex(n) = 4 * n
        /\ n >= 16 => BinIndex(n) >= 64
        /\ n >= 16 /\ n < 32 => BinIndex(n) >= 64 /\ BinIndex(n) <= 71
        /\ n >= 32 /\ n < 64 => BinIndex(n) >= 72 /\ BinIndex(n) <= 79
        /\ n >= 64 /\ n < 128 => BinIndex(n) >= 80 /\ BinIndex(n) <= 87
        /\ n >= 128 /\ n < 256 => BinIndex(n) >= 88 /\ BinIndex(n) <= 95
        /\ n >= 256 /\ n < 512 => BinIndex(n) >= 96 /\ BinIndex(n) <= 103
        /\ n >= 512 /\ n < 1024 => BinIndex(n) >= 104 /\ BinIndex(n) <= 111
        /\ n >= 1024 /\ n < 2048 => BinIndex(n) >= 112 /\ BinIndex(n) <= 119
        /\ n >= 2048 /\ n < 4096 => BinIndex(n) >= 120 /\ BinIndex(n) <= 127
        /\ n >= 4096 => BinIndex(n) = 127
    BY BinIndexRange
  <1>2. /\ BinIndex(m) \in Nat
        /\ m < 16 => BinIndex(m) = 4 * m
        /\ m >= 16 => BinIndex(m) >= 64
        /\ m >= 16 /\ m < 32 => BinIndex(m) >= 64 /\ BinIndex(m) <= 71
        /\ m >= 32 /\ m < 64 => BinIndex(m) >= 72 /\ BinIndex(m) <= 79
        /\ m >= 64 /\ m < 128 => BinIndex(m) >= 80 /\ BinIndex(m) <= 87
        /\ m >= 128 /\ m < 256 => BinIndex(m) >= 88 /\ BinIndex(m) <= 95
        /\ m >= 256 /\ m < 512 => BinIndex(m) >= 96 /\ BinIndex(m) <= 103
        /\ m >= 512 /\ m < 1024 => BinIndex(m) >= 104 /\ BinIndex(m) <= 111
        /\ m >= 1024 /\ m < 2048 => BinIndex(m) >= 112 /\ BinIndex(m) <= 119
        /\ m >= 2048 /\ m < 4096 => BinIndex(m) >= 120 /\ BinIndex(m) <= 127
        /\ m >= 4096 => BinIndex(m) = 127
    BY BinIndexRange
  <1>3. BinIndex(m) \in Nat /\ BinIndex(n) \in Nat
    BY BinIndexNat
  <1>4. m <= n => BinIndex(m) <= BinIndex(n)
    <2> SUFFICES ASSUME m <= n PROVE BinIndex(m) <= BinIndex(n)
      OBVIOUS
    <2>1. CASE n < 16
      BY <2>1, <1>1, <1>2
    <2>2. CASE m >= 16 /\ n < 32
      BY <2>2 DEF BinIndex
    <2>3. CASE m >= 32 /\ n < 64
      BY <2>3 DEF BinIndex
    <2>4. CASE m >= 64 /\ n < 128
      BY <2>4 DEF BinIndex
    <2>5. CASE m >= 128 /\ n < 256
      BY <2>5 DEF BinIndex
    <2>6. CASE m >= 256 /\ n < 512
      BY <2>6 DEF BinIndex
    <2>7. CASE m >= 512 /\ n < 1024
      BY <2>7 DEF BinIndex
    <2>8. CASE m >= 1024 /\ n < 2048
      BY <2>8 DEF BinIndex
    <2>9. CASE m >= 2048 /\ n < 4096
      BY <2>9 DEF BinIndex
    <2>10. CASE n >= 4096
      BY <2>10, <1>1, <1>2, <1>3
    <2>11. QED
      BY <1>1, <1>2, <1>3, <2>1, <2>2, <2>3, <2>4, <2>5, <2>6, <2>7, <2>8, <2>9, <2>10
  <1>5. BinIndex(m) = BinIndex(n) /\ BinIndex(n) < 64 => m = n
    <2>1. (n < 16 \/ BinIndex(n) >= 64) /\ (m < 16 \/ BinIndex(m) >= 64)
      BY <1>1, <1>2
    <2>2. QED
      BY <2>1, <1>1, <1>2, <1>3
  <1>6. n < 16 <=> BinIndex(n) < 63
    <2>1. n < 16 \/ BinIndex(n) >= 64
      BY <1>1
    <2>2. QED
      BY <2>1, <1>1, <1>3
  <1>7. QED
    BY <1>4, <1>5, <1>6

\* c is a chunk of F that n units fit into, and there is none such that is smaller.
Best(q, F, n, c) ==
    c \in F /\ ChunkSize(q, c) >= n /\ \A f \in F : ChunkSize(q, f) >= n => ChunkSize(q, c) <= ChunkSize(q, f)

NoneFits(q, F, n) == \A f \in F : ~(ChunkSize(q, f) >= n)

InBin(q, F, i) == {f \in F : BinIndex(ChunkSize(q, f)) = i}
FromBin(q, F, i) == {f \in F : BinIndex(ChunkSize(q, f)) >= i}

\* FirstFit finds the best chunk of a bin.
LEMMA FirstFitIs ==
    ASSUME NEW q \in Pool, NEW F, Bins(q, F), \A f \in F : f # None /\ ChunkSize(q, f) \in Nat,
           NEW i, NEW n \in Nat, NEW c, c = FirstFit(q, i, n)
    PROVE  IF c = None THEN NoneFits(q, InBin(q, F, i), n) ELSE Best(q, InBin(q, F, i), n, c)
  <1> DEFINE bin == Bin(q, i)
             fits == {j \in DOMAIN bin : ChunkSize(q, bin[j]) >= n}
             k == CHOOSE k \in fits : \A j \in fits : j <= k
  <1>1. /\ bin \in Seq(Nat) /\ OneBin(q, i, bin, F) /\ (i \in DOMAIN q.mBins <=> bin # <<>>)
        /\ (i \in DOMAIN q.mBins => bin = q.mBins[i])
    BY BinType
  <1>2. c = IF fits = {} THEN None ELSE bin[k]
    BY DEF FirstFit
  <1>3. \A f \in InBin(q, F, i) : \E j \in DOMAIN bin : bin[j] = f
    BY <1>1 DEF Bins, InBin
  <1> HIDE DEF bin
  <1>4. \A j \in DOMAIN bin : bin[j] \in InBin(q, F, i) /\ j \in Nat
    BY <1>1 DEF OneBin, InBin
  <1>5. CASE fits = {}
    <2>1. c = None
      BY <1>2, <1>5
    <2>2. NoneFits(q, InBin(q, F, i), n)
      BY <1>3, <1>5 DEF NoneFits
    <2>3. QED
      BY <2>1, <2>2
  <1>6. CASE fits # {}
    <2>1. fits \subseteq Nat /\ \A j \in fits : j < Len(bin) + 1
      BY <1>1, <1>4
    <2>2. \E m \in fits : \A j \in fits : j <= m
      <3>1. Len(bin) + 1 \in Nat
        BY <1>1
      <3> HIDE DEF fits
      <3>2. QED
        BY <1>6, <2>1, <3>1, GreatestBelow
    <2>3. k \in fits /\ \A j \in fits : j <= k
      BY <2>2
    <2> HIDE DEF k
    <2>4. c = bin[k] /\ k \in DOMAIN bin /\ ChunkSize(q, c) >= n /\ c \in InBin(q, F, i)
      BY <1>2, <1>4, <1>6, <2>3
    <2>5. c # None /\ c \in F /\ ChunkSize(q, c) \in Nat /\ BinIndex(ChunkSize(q, c)) = i
      BY <2>4 DEF InBin
    <2>6. ASSUME NEW f \in InBin(q, F, i), ChunkSize(q, f) >= n PROVE ChunkSize(q, c) <= ChunkSize(q, f)
      <3>1. PICK j \in DOMAIN bin : bin[j] = f
        BY <1>3
      <3>2. j \in fits /\ j \in Nat /\ k \in Nat /\ j <= k
        BY <1>4, <2>3, <2>4, <2>6, <3>1
      <3>3. ChunkSize(q, f) \in Nat /\ BinIndex(ChunkSize(q, f)) = i
        BY DEF InBin
      <3>4. CASE i >= 64 /\ j < k
        BY <1>1, <2>4, <3>1, <3>4 DEF OneBin, kNumSmallBins
      <3>5. CASE j = k
        BY <2>4, <2>5, <3>1, <3>5
      <3>6. CASE ~(i >= 64)
        <4>1. i < 64
          BY <3>3, <3>6, BinIndexNat
        <4>2. ChunkSize(q, f) = ChunkSize(q, c)
          BY <2>5, <3>3, <4>1, BinIndexOrder
        <4>3. QED
          BY <2>5, <4>2
      <3>7. QED
        BY <3>2, <3>4, <3>5, <3>6
    <2>7. QED
      BY <2>4, <2>5, <2>6 DEF Best
  <1>7. QED
    BY <1>5, <1>6

Found(q, F, n, c) == IF c = None THEN NoneFits(q, F, n) ELSE Best(q, F, n, c)

LEMMA FoundIn ==
    ASSUME NEW q, NEW F, NEW G, NEW n, NEW c, Found(q, G, n, c), G \subseteq F,
           \A f \in F : ChunkSize(q, f) >= n => f \in G
    PROVE  Found(q, F, n, c)
  <1>1. CASE c = None
    BY <1>1 DEF Found, NoneFits
  <1>2. CASE c # None
    BY <1>2 DEF Found, Best
  <1>3. QED
    BY <1>1, <1>2

\* The best chunk of a bin is better than those of later bins.
LEMMA BestOfFirst ==
    ASSUME NEW q, NEW F, \A f \in F : f # None /\ ChunkSize(q, f) \in Nat, NEW i \in Nat, NEW n, NEW c,
           Best(q, InBin(q, F, i), n, c)
    PROVE  Best(q, FromBin(q, F, i), n, c)
  <1>1. /\ c \in F /\ BinIndex(ChunkSize(q, c)) = i /\ ChunkSize(q, c) \in Nat /\ ChunkSize(q, c) >= n
        /\ \A f \in F : BinIndex(ChunkSize(q, f)) = i /\ ChunkSize(q, f) >= n => ChunkSize(q, c) <= ChunkSize(q, f)
    BY DEF Best, InBin
  <1>2. ASSUME NEW f \in FromBin(q, F, i), ChunkSize(q, f) >= n PROVE ChunkSize(q, c) <= ChunkSize(q, f)
    <2>1. f \in F /\ ChunkSize(q, f) \in Nat /\ BinIndex(ChunkSize(q, f)) >= i
      BY DEF FromBin
    <2>2. CASE BinIndex(ChunkSize(q, f)) = i
      BY <1>1, <1>2, <2>1, <2>2
    <2>3. CASE BinIndex(ChunkSize(q, f)) # i
      <3>1. BinIndex(ChunkSize(q, f)) \in Nat
        BY <2>1, BinIndexNat
      <3>2. ~(BinIndex(ChunkSize(q, f)) <= BinIndex(ChunkSize(q, c)))
        BY <1>1, <2>1, <2>3, <3>1
      <3>3. ~(ChunkSize(q, f) <= ChunkSize(q, c))
        BY <1>1, <2>1, <3>2, BinIndexOrder
      <3>4. QED
        BY <1>1, <2>1, <3>3
    <2>4. QED
      BY <2>2, <2>3
  <1>3. c \in FromBin(q, F, i)
    BY <1>1 DEF FromBin
  <1>4. QED
    BY <1>1, <1>2, <1>3 DEF Best

\* Scan finds the best chunk of the bins from i on.
LEMMA ScanIs ==
    ASSUME NEW q \in Pool, NEW F, Bins(q, F), \A f \in F : f # None /\ ChunkSize(q, f) \in Nat,
           NEW i \in Nat, NEW n \in Nat, NEW c, c = Scan(q, i, n)
    PROVE  Found(q, FromBin(q, F, i), n, c)
  <1> DEFINE full == {j \in q.mBinBlocks : j >= i /\ FirstFit(q, j, n) # None}
             k == CHOOSE j \in full : \A m \in full : j <= m
  <1>1. c = IF full = {} THEN None ELSE FirstFit(q, k, n)
    BY DEF Scan
  <1>2. q.mBinBlocks \subseteq Nat /\ full \subseteq Nat
    BY PoolFields
  <1>3. ASSUME NEW j
        PROVE  Found(q, InBin(q, F, j), n, FirstFit(q, j, n))
    BY FirstFitIs DEF Found
  <1>4. ASSUME NEW f \in FromBin(q, F, i), ChunkSize(q, f) >= n
        PROVE  BinIndex(ChunkSize(q, f)) \in full
    <2> DEFINE j == BinIndex(ChunkSize(q, f))
    <2>1. f \in F /\ j >= i /\ f \in InBin(q, F, j)
      BY DEF FromBin, InBin
    <2>2. j \in q.mBinBlocks
      BY <2>1 DEF Bins
    <2>3. FirstFit(q, j, n) # None
      <3> HIDE DEF j
      <3>1. ~NoneFits(q, InBin(q, F, j), n)
        BY <1>4, <2>1 DEF NoneFits
      <3>2. QED
        BY <1>3, <3>1 DEF Found
    <2>4. QED
      BY <2>1, <2>2, <2>3
  <1>5. CASE full = {}
    <2>1. c = None
      BY <1>1, <1>5
    <2> HIDE DEF full
    <2>2. NoneFits(q, FromBin(q, F, i), n)
      BY <1>4, <1>5 DEF NoneFits
    <2>3. QED
      BY <2>1, <2>2 DEF Found
  <1>6. CASE full # {}
    <2>1. \E j \in full : \A m \in full : j <= m
      <3> HIDE DEF full
      <3>1. QED
        BY <1>2, <1>6, LeastNat
    <2>2. k \in full /\ \A m \in full : k <= m
      BY <2>1
    <2> HIDE DEF k
    <2>3. c = FirstFit(q, k, n) /\ c # None /\ k \in Nat /\ k >= i
      BY <1>1, <1>2, <1>6, <2>2
    <2> HIDE DEF full
    <2>4. Best(q, InBin(q, F, k), n, c)
      BY <1>3, <2>3 DEF Found
    <2>5. Best(q, FromBin(q, F, k), n, c)
      BY <2>3, <2>4, BestOfFirst
    <2>6. FromBin(q, F, k) \subseteq FromBin(q, F, i)
      BY <2>3, BinIndexNat DEF FromBin
    <2>7. \A f \in FromBin(q, F, i) : ChunkSize(q, f) >= n => f \in FromBin(q, F, k)
      BY <1>2, <1>4, <2>2, <2>3 DEF FromBin
    <2>8. Found(q, FromBin(q, F, k), n, c)
      BY <2>3, <2>5 DEF Found
    <2>9. QED
      BY <2>6, <2>7, <2>8, FoundIn
  <1>7. QED
    BY <1>5, <1>6

\* The last chunk of a bin.
LEMMA LastOfBin ==
    ASSUME NEW q \in Pool, NEW F, Bins(q, F), NEW i, Bin(q, i) # <<>>, NEW c, c = Bin(q, i)[Len(Bin(q, i))]
    PROVE  c \in F /\ BinIndex(ChunkSize(q, c)) = i
  <1>1. Bin(q, i) \in Seq(Nat) /\ OneBin(q, i, Bin(q, i), F)
    BY BinType
  <1>2. Len(Bin(q, i)) \in DOMAIN Bin(q, i)
    BY <1>1
  <1>3. QED
    BY <1>1, <1>2 DEF OneBin

LEMMA NothingInBin ==
    ASSUME NEW q \in Pool, NEW F, Bins(q, F), NEW i, Bin(q, i) = <<>>, NEW f \in F
    PROVE  BinIndex(ChunkSize(q, f)) # i
  BY DEF Bins, Bin

\* Alloc's search finds a chunk that is large enough if there is any, and a smallest of these.
LEMMA SearchIs ==
    ASSUME NEW q \in Pool, NEW F, Bins(q, F), \A f \in F : f # None /\ ChunkSize(q, f) \in Nat,
           NEW n \in Nat, NEW c, c = Search(q, n)
    PROVE  Found(q, F, n, c)
  <1> DEFINE i == BinIndex(n)
             own == FirstFit(q, i, n)
  <1>1. i \in Nat /\ (n < 16 => i = 4 * n) /\ (n < 16 <=> i < 63)
    BY BinIndexRange, BinIndexOrder
  <1>2. \A f \in F : ChunkSize(q, f) >= n => BinIndex(ChunkSize(q, f)) \in Nat /\ BinIndex(ChunkSize(q, f)) >= i
    <2> SUFFICES ASSUME NEW f \in F, ChunkSize(q, f) >= n
                 PROVE  BinIndex(ChunkSize(q, f)) \in Nat /\ BinIndex(ChunkSize(q, f)) >= i
      OBVIOUS
    <2>1. n <= ChunkSize(q, f) /\ ChunkSize(q, f) \in Nat
      OBVIOUS
    <2>2. BinIndex(n) <= BinIndex(ChunkSize(q, f)) /\ BinIndex(ChunkSize(q, f)) \in Nat
      BY <2>1, BinIndexOrder, BinIndexNat
    <2>3. QED
      BY <1>1, <2>2
  <1>3. ASSUME NEW j \in Nat, c = Scan(q, j, n), \A f \in F : ChunkSize(q, f) >= n => BinIndex(ChunkSize(q, f)) >= j
        PROVE  Found(q, F, n, c)
    <2>1. Found(q, FromBin(q, F, j), n, c)
      BY <1>3, ScanIs
    <2>2. FromBin(q, F, j) \subseteq F /\ \A f \in F : ChunkSize(q, f) >= n => f \in FromBin(q, F, j)
      BY <1>3 DEF FromBin
    <2>3. QED
      BY <2>1, <2>2, FoundIn
  <1>4. CASE i < 63
    <2>1. n < 16 /\ i = 4 * n
      BY <1>1, <1>4
    <2>2. c = IF Bin(q, i) # <<>> THEN Bin(q, i)[Len(Bin(q, i))]
              ELSE IF Bin(q, i + 1) # <<>> THEN Bin(q, i + 1)[Len(Bin(q, i + 1))]
              ELSE Scan(q, i + 2, n)
      BY <1>4 DEF Search, kNumSmallBins
    <2>3. CASE Bin(q, i) # <<>>
      <3>1. c \in F /\ BinIndex(ChunkSize(q, c)) = i
        BY <2>2, <2>3, LastOfBin
      <3>2. ChunkSize(q, c) \in Nat /\ ChunkSize(q, c) = n
        BY <1>1, <1>4, <3>1, BinIndexOrder
      <3>3. Best(q, F, n, c) /\ c # None
        BY <3>1, <3>2 DEF Best
      <3>4. QED
        BY <3>3 DEF Found
    <2>4. CASE Bin(q, i) = <<>> /\ Bin(q, i + 1) # <<>>
      <3>1. c = Bin(q, i + 1)[Len(Bin(q, i + 1))]
        BY <2>2, <2>4
      <3> HIDE DEF i
      <3>2. c \in F /\ BinIndex(ChunkSize(q, c)) = i + 1
        BY <2>4, <3>1, LastOfBin
      <3>3. ChunkSize(q, c) \in Nat
        BY <3>2
      <3>4. FALSE
        BY <1>1, <2>1, <3>2, <3>3, BinIndexRange
      <3>5. QED
        BY <3>4
    <2>5. CASE Bin(q, i) = <<>> /\ Bin(q, i + 1) = <<>>
      <3>1. c = Scan(q, i + 2, n)
        BY <2>2, <2>5
      <3> HIDE DEF i
      <3>2. \A f \in F : BinIndex(ChunkSize(q, f)) # i /\ BinIndex(ChunkSize(q, f)) # i + 1
        BY <2>5, NothingInBin
      <3>3. i + 2 \in Nat /\ \A f \in F : ChunkSize(q, f) >= n => BinIndex(ChunkSize(q, f)) >= i + 2
        BY <1>1, <1>2, <3>2
      <3>4. QED
        BY <1>3, <3>1, <3>3
    <2>6. QED
      BY <2>3, <2>4, <2>5
  <1>5. CASE ~(i < 63)
    <2>1. c = IF own # None /\ ChunkSize(q, own) - n < 2 THEN own
              ELSE Scan(q, IF own # None THEN i ELSE i + 1, n)
      BY <1>5 DEF Search, kNumSmallBins, kMinAllocSize
    <2>2. Found(q, InBin(q, F, i), n, own)
      BY FirstFitIs DEF Found
    <2> HIDE DEF own, i
    <2>3. CASE own # None /\ ChunkSize(q, own) - n < 2
      <3>1. c = own /\ c # None
        BY <2>1, <2>3
      <3>2. Best(q, InBin(q, F, i), n, c)
        BY <2>2, <3>1 DEF Found
      <3>3. Best(q, FromBin(q, F, i), n, c)
        BY <1>1, <3>2, BestOfFirst
      <3>4. Found(q, FromBin(q, F, i), n, c)
        BY <3>1, <3>3 DEF Found
      <3>5. FromBin(q, F, i) \subseteq F /\ \A f \in F : ChunkSize(q, f) >= n => f \in FromBin(q, F, i)
        BY <1>2 DEF FromBin
      <3>6. QED
        BY <3>4, <3>5, FoundIn
    <2>4. CASE own # None /\ ~(ChunkSize(q, own) - n < 2)
      <3>1. c = Scan(q, i, n)
        BY <2>1, <2>4
      <3>2. QED
        BY <1>1, <1>2, <1>3, <3>1
    <2>5. CASE own = None
      <3>1. c = Scan(q, i + 1, n)
        BY <2>1, <2>5
      <3>2. \A f \in F : ChunkSize(q, f) >= n => BinIndex(ChunkSize(q, f)) # i
        BY <2>2, <2>5 DEF Found, NoneFits, InBin
      <3>3. i + 1 \in Nat /\ \A f \in F : ChunkSize(q, f) >= n => BinIndex(ChunkSize(q, f)) >= i + 1
        BY <1>1, <1>2, <3>2
      <3>4. QED
        BY <1>3, <3>1, <3>3
    <2>6. QED
      BY <2>3, <2>4, <2>5
  <1>6. QED
    BY <1>4, <1>5

LEMMA FreeChunkPlaces ==
    ASSUME NEW q \in Pool, Laid(q)
    PROVE  \A f \in FreeChunks(q) : f # None /\ ChunkSize(q, f) \in Nat
  <1> SUFFICES ASSUME NEW f \in FreeChunks(q) PROVE f # None /\ ChunkSize(q, f) \in Nat
    OBVIOUS
  <1>1. f \in Chunks(q) /\ f \in DOMAIN q.mSize /\ f \in Nat /\ ChunkSize(q, f) \in Nat
    BY ChunkPlace DEF FreeChunks
  <1>2. PICK a \in Areas(q) : a.at <= f
    BY <1>1 DEF Laid, Spaced
  <1>3. a.at \in Nat \ {0}
    BY AreaPlace
  <1>4. QED
    BY <1>1, <1>2, <1>3 DEF None

\* The area that Alloc makes is as large as the request, or leaves a rest that is a chunk.
LEMMA AreaSizeIs ==
    ASSUME sizes \in Pools, NEW q, NEW n \in Request, NEW size, size = AreaSize(q, n), size # None
    PROVE  /\ size \in 2 .. MaxSize /\ n \in 2 .. MaxSize /\ n \in Nat
           /\ IF sizes.more # 0 /\ n > sizes.more THEN size = n ELSE size - n >= 2
  <1>1. /\ MaxSize \in Nat /\ n \in 2 .. MaxSize /\ sizes.init \in {0} \cup 2 .. MaxSize
        /\ sizes.more \in {0} \cup 2 .. MaxSize
        /\ n \notin IF sizes.more = 0 THEN {sizes.init, sizes.init - 1} ELSE {sizes.more, sizes.more - 1}
    <2>1. /\ MaxSize \in Nat /\ n \in 2 .. MaxSize
          /\ sizes \in [init : {0} \cup 2 .. MaxSize, more : {0} \cup 2 .. MaxSize]
          /\ n \notin IF sizes.more = 0 THEN {sizes.init, sizes.init - 1} ELSE {sizes.more, sizes.more - 1}
      BY PoolAssumption, MinSize
    <2>2. QED
      BY <2>1
  <1>2. CASE sizes.more = 0
    <2>1. size = sizes.init /\ ~(n > sizes.init) /\ size # 0
      BY <1>2 DEF AreaSize, None
    <2>2. n # size /\ n # size - 1
      BY <1>1, <1>2, <2>1
    <2>3. QED
      BY <1>1, <1>2, <2>1, <2>2
  <1>3. CASE sizes.more # 0
    <2>1. size = IF n > sizes.more THEN n ELSE sizes.more
      BY <1>3 DEF AreaSize
    <2>2. n # sizes.more /\ n # sizes.more - 1
      BY <1>1, <1>3
    <2>3. QED
      BY <1>1, <1>3, <2>1, <2>2
  <1>4. QED
    BY <1>2, <1>3

\* Alloc gives a chunk of n units, or one more, that nobody else has.
LEMMA AllocIs ==
    ASSUME NEW q, NEW x, Fine(q, {}, x), sizes \in Pools, NEW n \in Request,
           NEW r, r = AllocChunk(q, n), NEW c, c = r.chunk, c # None, NEW s, s = r.pool
    PROVE  Taken(q, s, c, n, x)
  <1> DEFINE best == Search(q, n)
             size == AreaSize(q, n)
             at == Malloc(q)
             fresh == NewArea(q, at, size)
  <1>1. q \in Pool /\ Laid(q) /\ Bins(q, FreeChunks(q))
    <2>1. FreeChunks(q) \ {} = FreeChunks(q)
      OBVIOUS
    <2>2. QED
      BY <2>1 DEF Fine
  <1>2. n \in Nat /\ n >= 2
    BY PoolAssumption, MinSize
  <1>3. r = IF best # None THEN [pool |-> Take(q, best, n), chunk |-> best]
            ELSE IF size = None \/ Vacant(q) = {} THEN [pool |-> q, chunk |-> None]
            ELSE [pool |-> IF sizes.more # 0 /\ n > sizes.more
                           THEN SetSizeInUse(fresh, at, size) ELSE SplitOff(fresh, at, n),
                  chunk |-> at]
    BY DEF AllocChunk
  <1>4. best = Search(q, n) /\ size = AreaSize(q, n) /\ fresh = NewArea(q, at, size) /\ at = Malloc(q)
    OBVIOUS
  <1> HIDE DEF best, size, at, fresh
  <1>5. CASE best # None
    <2>1. c = best /\ s = Take(q, best, n)
      BY <1>3, <1>5
    <2>2. Found(q, FreeChunks(q), n, best)
      BY <1>1, <1>2, <1>4, FreeChunkPlaces, SearchIs
    <2>3. best \in FreeChunks(q) /\ ChunkSize(q, best) >= n
      BY <1>5, <2>2 DEF Found, Best
    <2>4. QED
      BY <1>2, <2>1, <2>3, TakeIs
  <1>6. CASE best = None
    <2>1. /\ size # None /\ Vacant(q) # {} /\ c = at
          /\ s = IF sizes.more # 0 /\ n > sizes.more THEN SetSizeInUse(fresh, at, size) ELSE SplitOff(fresh, at, n)
      BY <1>3, <1>6
    <2>2. at \in Vacant(q)
      BY <1>4, <2>1 DEF Malloc
    <2>3. /\ size \in 2 .. MaxSize
          /\ IF sizes.more # 0 /\ n > sizes.more THEN size = n ELSE size - n >= 2
      BY <1>4, <2>1, AreaSizeIs
    <2>4. HasArea(q, fresh, at, size, x)
      BY <1>4, <2>2, <2>3, NewAreaIs
    <2>5. /\ Fine(fresh, {at}, x) /\ at \in FreeChunks(fresh) /\ ChunkSize(fresh, at) = size
          /\ UsedChunks(fresh) = UsedChunks(q) /\ \A d \in UsedChunks(q) : fresh.mSize[d] = q.mSize[d]
      BY <2>4 DEF HasArea
    <2>6. Taken(fresh, s, at, n, x)
      <3>1. CASE sizes.more # 0 /\ n > sizes.more
        <4>1. s = SetSizeInUse(fresh, at, ChunkSize(fresh, at)) /\ ChunkSize(fresh, at) = n
          BY <2>1, <2>3, <2>5, <3>1
        <4>2. ChunkSize(fresh, at) - n \in 0 .. 1
          BY <1>2, <4>1
        <4>3. QED
          BY <2>5, <4>1, <4>2, TakeAllIs
      <3>2. CASE ~(sizes.more # 0 /\ n > sizes.more)
        <4>1. s = SplitOff(fresh, at, n) /\ ChunkSize(fresh, at) - n >= 2
          BY <2>1, <2>3, <2>5, <3>2
        <4>2. QED
          BY <1>2, <2>5, <4>1, SplitOffIs
      <3>3. QED
        BY <3>1, <3>2
    <2>7. QED
      BY <2>1, <2>5, <2>6 DEF Taken
  <1>7. QED
    BY <1>5, <1>6
-----------------------------------------------------------------------------
(* Realloc. *)

\* The chunks from c to e are in hand.
InHand(q, L, c, e) == \A d : d \in L <=> d \in Chunks(q) /\ c <= d /\ d < e

\* They are one or two chunks in use, still in hand.
StillInHand(q, L, u, c, M, x) ==
    /\ Fine(u, {c} \cup M, x) /\ c \in UsedChunks(u) /\ M \subseteq UsedChunks(u)
    /\ \A d \in UsedChunks(u) : d = c \/ d \in M \/ (d \in UsedChunks(q) /\ d \notin L)

LEMMA FineRelaid ==
    ASSUME NEW q, NEW L, NEW x, Fine(q, L, x), NEW c, NEW e, Stretch(q, c, e), InHand(q, L, c, e),
           NEW M, NEW u, Relaid(q, u, c, e, M), \A d \in M : d \in Nat /\ c < d /\ d < e,
           InUse(u, c), \A d \in M : InUse(u, d), NEW F, F = FreeChunks(q) \ L, Bins(u, F),
           NEW W, u.blocks = Clobber(q.blocks, W), \A a \in W : a \in Nat /\ c <= a /\ a <= e
    PROVE  StillInHand(q, L, u, c, M, x)
  <1> DEFINE U == UsedChunks(q) \ L
  <1>1. q \in Pool /\ Laid(q) /\ Held(q, U, x)
    BY DEF Fine
  <1>2. c \in Chunks(q) /\ c \in Nat /\ e \in Nat /\ c < e /\ \A d \in Chunks(q) : d \in Nat
    BY <1>1, StretchPlaces, ChunkPlace
  <1>3. u \in Pool /\ Laid(u)
    BY DEF Relaid
  <1>4. \A d \in U : d \in Chunks(q) /\ (d < c \/ d >= e)
    BY <1>2 DEF UsedChunks, InHand
  <1>5. Held(u, U, x)
    BY <1>1, <1>3, <1>4, HeldRelaid
  <1>6. /\ c \in Chunks(u) /\ \A d \in M : d \in Chunks(u)
        /\ \A d : d # c /\ d \notin M =>
              /\ d \in FreeChunks(u) <=> d \in FreeChunks(q) /\ (d < c \/ d >= e)
              /\ d \in UsedChunks(u) <=> d \in UsedChunks(q) /\ (d < c \/ d >= e)
    <2>1. \A d \in M : d \notin Chunks(q) \/ (c <= d /\ d < e)
      BY <1>2
    <2>2. QED
      BY <1>2, <2>1, RelaidChunks
  <1>7. \A d \in {c} \cup M : d \in UsedChunks(u) /\ d \notin FreeChunks(u) /\ ~(d < c \/ d >= e)
    BY <1>2, <1>6 DEF UsedChunks, FreeChunks
  <1>8. \A d \in Chunks(q) : d \notin L <=> (d < c \/ d >= e)
    BY <1>2 DEF InHand
  <1>9. \A d : d \in UsedChunks(u) \ ({c} \cup M) <=> d \in U
    BY <1>6, <1>7, <1>8 DEF UsedChunks
  <1>10. \A d : d \in F <=> d \in FreeChunks(u) \ ({c} \cup M)
    BY <1>6, <1>7, <1>8 DEF FreeChunks
  <1>11. Bins(u, FreeChunks(u) \ ({c} \cup M))
    BY <1>10, SameBins
  <1>12. UsedChunks(u) \ ({c} \cup M) = U
    BY <1>9
  <1>13. QED
    BY <1>3, <1>5, <1>7, <1>9, <1>11, <1>12 DEF Fine, StillInHand

\* A chunk of n units, or one more, is left in hand, and no header was written inside of it.
Trimmed(q, L, r, c, n, x) ==
    /\ Fine(r, {c}, x) /\ c \in UsedChunks(r) /\ ChunkSize(r, c) - n \in 0 .. 1
    /\ \A d \in UsedChunks(r) : d = c \/ (d \in UsedChunks(q) /\ d \notin L)
    /\ \E W : r.blocks = Clobber(q.blocks, W) /\ \A a \in W : a \in Nat /\ (a <= c \/ a >= c + n)

LEMMA TrimAllIs ==
    ASSUME NEW q, NEW L, NEW x, Fine(q, L, x), NEW c, NEW e, Stretch(q, c, e), InHand(q, L, c, e),
           NEW has, NEW n \in Nat, n >= 2, has - n \in 0 .. 1, NEW r
    PROVE  has = e - c /\ r = SetSizeInUse(q, c, has) => Trimmed(q, L, r, c, n, x)
  <1>0. SUFFICES ASSUME has = e - c, r = SetSizeInUse(q, c, has)
        PROVE  Trimmed(q, L, r, c, n, x)
    OBVIOUS
  <1> DEFINE F == FreeChunks(q) \ L
             M == {}
             W == {c, e}
  <1>1. q \in Pool /\ Laid(q) /\ Bins(q, F)
    BY DEF Fine
  <1>2. c \in Chunks(q) /\ c \in Nat /\ e \in Nat /\ c < e /\ \A d \in Chunks(q) : d \in Nat
    BY <1>1, StretchPlaces, ChunkPlace
  <1>3. has = e - c /\ has \in Nat /\ has >= 2 /\ e >= c + n
    BY <1>0, <1>2
  <1>4. \A d \in F : d \in Chunks(q) /\ (d < c \/ d >= e)
    BY <1>2 DEF FreeChunks, InHand
  <1>5. r = SetSize(q, c, has, Word(has, TRUE))
    BY <1>0 DEF SetSizeInUse
  <1>6. SameHeads(q, q)
    BY DEF SameHeads
  <1>7. F = FreeChunks(q) \ L /\ {c} \cup M = {c}
    OBVIOUS
  <1> HIDE DEF F
  <1>8. OneChunk(q, r, c, e, TRUE, F)
    BY <1>1, <1>3, <1>4, <1>5, <1>6, SetSizeMerges
  <1>9. /\ Relaid(q, r, c, e, M) /\ InUse(r, c) /\ ChunkSize(r, c) = has
        /\ Bins(r, F) /\ r.blocks = Clobber(q.blocks, W)
    BY <1>3, <1>8 DEF OneChunk
  <1>10. /\ \A a \in W : a \in Nat /\ c <= a /\ a <= e
         /\ \A a \in W : a \in Nat /\ (a <= c \/ a >= c + n)
         /\ \A d \in M : FALSE
    BY <1>2, <1>3
  <1> HIDE DEF M, W
  <1>11. /\ Fine(r, {c} \cup M, x) /\ c \in UsedChunks(r)
         /\ \A d \in UsedChunks(r) : d = c \/ d \in M \/ (d \in UsedChunks(q) /\ d \notin L)
    <2>1. StillInHand(q, L, r, c, M, x)
      BY <1>7, <1>9, <1>10, FineRelaid
    <2>2. QED
      BY <2>1 DEF StillInHand
  <1>12. QED
    BY <1>7, <1>9, <1>10, <1>11 DEF Trimmed

LEMMA TrimSplitIs ==
    ASSUME NEW q, NEW L, NEW x, Fine(q, L, x), NEW c, NEW e, Stretch(q, c, e), InHand(q, L, c, e),
           NEW k, NEW m, NEW n \in Nat, n >= 2, k >= 2,
           NEW t, NEW u,
           NEW r
    PROVE  (/\ m = c + n /\ k = e - m
            /\ t = SetSize(q, m, k, Word(k, TRUE))
            /\ u = SetSize(t, c, n, Word(n, TRUE))
            /\ r = FreeChunk(u, m))
           => Trimmed(q, L, r, c, n, x)
  <1>0. SUFFICES ASSUME m = c + n, k = e - m, t = SetSize(q, m, k, Word(k, TRUE)),
                        u = SetSize(t, c, n, Word(n, TRUE)), r = FreeChunk(u, m)
        PROVE  Trimmed(q, L, r, c, n, x)
    OBVIOUS
  <1> DEFINE F == FreeChunks(q) \ L
             M == {m}
             W == {c, m, e}
  <1>1. q \in Pool /\ Laid(q) /\ Bins(q, F)
    BY DEF Fine
  <1>2. c \in Chunks(q) /\ c \in Nat /\ e \in Nat /\ c < e /\ \A d \in Chunks(q) : d \in Nat /\ d \in DOMAIN q.mSize
    BY <1>1, StretchPlaces, ChunkPlace
  <1>3. m \in Nat /\ k \in Nat /\ n = m - c /\ e = m + k /\ c < m /\ m < e
    BY <1>0, <1>2
  <1>4. m = c + n /\ k = e - m
    BY <1>0
  <1>5. t = SetSize(q, m, k, Word(k, TRUE))
    BY <1>0
  <1>6. u = SetSize(t, c, n, Word(n, TRUE))
    BY <1>0
  <1>7. r = FreeChunk(u, m)
    BY <1>0
  <1>8. m \in Nat /\ c < m /\ m < e
    BY <1>3
  <1>9. \A d \in F : d \in Chunks(q) /\ (d < c \/ d >= e)
    BY <1>2 DEF FreeChunks, InHand
  <1> HIDE DEF F
  <1>10. SizeSet(q, t, m, e, Word(k, TRUE))
    BY <1>1, <1>3, <1>5, WordType, SetSizeWords
  <1>11. t \in Pool /\ Bins(t, F)
    <2>1. t \in Pool /\ Wrote(q, t, m, e, Word(k, TRUE)) /\ t.mBins = q.mBins /\ t.mBinBlocks = q.mBinBlocks
      BY <1>10 DEF SizeSet, SameRest
    <2>2. \A d \in F : d \in DOMAIN q.mSize /\ d # m /\ (d <= m \/ d >= e)
      <3> SUFFICES ASSUME NEW d \in F PROVE d \in DOMAIN q.mSize /\ d # m /\ (d <= m \/ d >= e)
        OBVIOUS
      <3>1. d \in DOMAIN q.mSize /\ d \in Nat /\ (d < c \/ d >= e)
        BY <1>2, <1>9
      <3>2. c \in Nat /\ e \in Nat
        BY <1>2
      <3>3. QED
        BY <1>8, <3>1, <3>2
    <2>3. \A d \in F : ChunkSize(t, d) = ChunkSize(q, d)
      BY <2>1, <2>2 DEF Wrote, ChunkSize
    <2>4. QED
      BY <1>1, <2>1, <2>3, BinsFrame
  <1>12. SameHeads(t, t)
    BY DEF SameHeads
  <1>13. TwoChunks(q, u, c, m, e, TRUE, F)
    BY <1>1, <1>3, <1>9, <1>11, <1>12, <1>4, <1>5, <1>6, SetSizeDivides
  <1>14. /\ Relaid(q, u, c, e, M) /\ InUse(u, c) /\ ChunkSize(u, c) = n /\ InUse(u, m)
        /\ Bins(u, F) /\ u.blocks = Clobber(q.blocks, W)
    BY <1>3, <1>13 DEF TwoChunks
  <1>15. /\ \A a \in W : a \in Nat /\ c <= a /\ a <= e
         /\ \A a \in W : a \in Nat /\ (a <= c \/ a >= c + n)
         /\ \A d \in M : d \in Nat /\ c < d /\ d < e
         /\ \A d \in M : InUse(u, d)
    BY <1>2, <1>3, <1>14
  <1>16. m \in M /\ (\A d \in M : d = m) /\ ({c} \cup M) \ {m} = {c} /\ F = FreeChunks(q) \ L
    BY <1>3 DEF F
  <1> HIDE DEF M, W
  <1>17. /\ Fine(u, {c} \cup M, x) /\ c \in UsedChunks(u) /\ M \subseteq UsedChunks(u)
         /\ \A d \in UsedChunks(u) : d = c \/ d \in M \/ (d \in UsedChunks(q) /\ d \notin L)
    <2>1. StillInHand(q, L, u, c, M, x)
      BY <1>14, <1>15, <1>16, FineRelaid
    <2>2. QED
      BY <2>1 DEF StillInHand
  <1>18. Freed(u, r, m, {c} \cup M, x)
    BY <1>16, <1>17, <1>7, FreeChunkIs
  <1>19. Fine(r, {c}, x) /\ c \in UsedChunks(r) /\ r.mSize[c] = u.mSize[c]
    BY <1>3, <1>16, <1>17, <1>18 DEF Freed
  <1>20. ChunkSize(r, c) - n \in 0 .. 1
    BY <1>14, <1>19 DEF ChunkSize
  <1>21. PrevInUse(u, m)
    <2>1. u \in Pool /\ Laid(u) /\ c \in Chunks(u)
      BY <1>17 DEF Fine, UsedChunks
    <2>2. u.mPrevSize[c + ChunkSize(u, c)] = u.mSize[c]
      BY <2>1, NextChunk
    <2>3. QED
      BY <1>14, <1>4, <2>2 DEF PrevInUse, InUse
  <1>22. PICK V : r.blocks = Clobber(u.blocks, V) /\ \A a \in V : a \in Nat /\ a >= m
    BY <1>18, <1>21 DEF Freed
  <1>23. r.blocks = Clobber(q.blocks, W \cup V)
    <2>1. q.blocks \in SUBSET BlockRec
      BY <1>1, PoolFields
    <2>2. QED
      BY <1>14, <1>22, <2>1, ClobberTwice
  <1>24. \A a \in W \cup V : a \in Nat /\ (a <= c \/ a >= c + n)
    BY <1>2, <1>15, <1>22, <1>4
  <1>25. \A d \in UsedChunks(r) : d = c \/ (d \in UsedChunks(q) /\ d \notin L)
    BY <1>16, <1>17, <1>18 DEF Freed
  <1>26. QED
    BY <1>19, <1>20, <1>23, <1>24, <1>25 DEF Trimmed

\* The end of Realloc leaves a chunk that is large enough, and not larger than it needs to be.
LEMMA TrimIs ==
    ASSUME NEW q, NEW L, NEW x, Fine(q, L, x), NEW c, NEW e, Stretch(q, c, e), InHand(q, L, c, e),
           NEW has, has = e - c, NEW n \in Nat, n >= 2, has >= n, NEW r, r = Trim(q, c, has, n)
    PROVE  Trimmed(q, L, r, c, n, x)
  <1>1. q \in Pool /\ Laid(q) /\ c \in Nat /\ e \in Nat /\ c < e
    BY StretchPlaces DEF Fine
  <1>2. CASE has - n >= 2
    <2> DEFINE k == has - n
               m == c + n
               t == SetSize(q, m, k, Word(k, TRUE))
               u == SetSize(t, c, n, Word(n, TRUE))
    <2>1. r = FreeChunk(u, m)
      BY <1>2, MinSize DEF Trim, SetSizeInUse
    <2>2. m = c + n /\ k = e - m /\ k >= 2
      BY <1>1, <1>2
    <2>3. t = SetSize(q, m, k, Word(k, TRUE)) /\ u = SetSize(t, c, n, Word(n, TRUE))
      OBVIOUS
    <2> HIDE DEF k, m, t, u
    <2>4. QED
      BY <2>1, <2>2, <2>3, TrimSplitIs
  <1>3. CASE ~(has - n >= 2)
    <2>1. r = SetSizeInUse(q, c, has)
      BY <1>3, MinSize DEF Trim
    <2>2. has - n \in 0 .. 1
      BY <1>1, <1>3
    <2>3. QED
      BY <2>1, <2>2, TrimAllIs
  <1>4. QED
    BY <1>2, <1>3

\* Nothing but the blocks is changed.
SameButBlocks(t, r) ==
    /\ r \in Pool /\ r.mSize = t.mSize /\ r.mPrevSize = t.mPrevSize /\ r.mAreas = t.mAreas
    /\ r.mBins = t.mBins /\ r.mBinBlocks = t.mBinBlocks

LEMMA WithBlocks ==
    ASSUME NEW t \in Pool, NEW B \in SUBSET BlockRec, NEW r, r = [t EXCEPT !.blocks = B]
    PROVE  SameButBlocks(t, r) /\ r.blocks = B
  <1> DEFINE WW == UNION {Words(D) : D \in SUBSET Nat}
             BB == UNION {[I -> Seq(Nat)] : I \in SUBSET Nat}
  <1>1. t \in [mSize : WW, mPrevSize : WW, mBins : BB, mBinBlocks : SUBSET Nat,
               mAreas : Seq(AreaRec), blocks : SUBSET BlockRec]
    BY DEF Pool
  <1> HIDE DEF WW, BB
  <1>2. /\ r \in [mSize : WW, mPrevSize : WW, mBins : BB, mBinBlocks : SUBSET Nat,
                  mAreas : Seq(AreaRec), blocks : SUBSET BlockRec]
        /\ r.blocks = B /\ r.mSize = t.mSize /\ r.mPrevSize = t.mPrevSize /\ r.mAreas = t.mAreas
        /\ r.mBins = t.mBins /\ r.mBinBlocks = t.mBinBlocks
    BY <1>1
  <1>3. r \in Pool
    BY <1>2 DEF Pool, WW, BB
  <1>4. QED
    BY <1>2, <1>3 DEF SameButBlocks

Updated(t, r, c, nb) ==
    SameButBlocks(t, r) /\ r.blocks = {b \in t.blocks : b.at # c} \cup {nb}

LEMMA UpdateIs ==
    ASSUME NEW t \in Pool, NEW c, NEW nb \in BlockRec, NEW r, r = Update(t, c, nb)
    PROVE  Updated(t, r, c, nb)
  <1> DEFINE B == {b \in t.blocks : b.at # c} \cup {nb}
  <1>1. r = [t EXCEPT !.blocks = B]
    BY DEF Update
  <1>2. B \in SUBSET BlockRec
    BY PoolFields
  <1>3. r.blocks = B
    <2> HIDE DEF B
    <2>1. QED
      BY <1>1, <1>2, WithBlocks
  <1>4. SameButBlocks(t, r)
    <2> HIDE DEF B
    <2>1. QED
      BY <1>1, <1>2, WithBlocks
  <1>5. QED
    BY <1>3, <1>4 DEF Updated

\* From now on nb is the block of the chunk d, in the place of the one at c.
LEMMA BlockIs ==
    ASSUME NEW t, NEW d, NEW c, NEW x, Fine(t, {d}, x), x = c \/ x = Nobody, d \in UsedChunks(t),
           NEW nb \in BlockRec, nb.at = d, ChunkSize(t, d) - nb.len \in 0 .. 1, nb.kept \/ nb.back,
           NEW r,
           NEW K, \A e : e \in K <=> e \in UsedChunks(t) /\ e = c /\ e # d
    PROVE  r = Update(t, c, nb) =>
           Fine(r, K, Nobody) /\ UsedChunks(r) = UsedChunks(t) /\ r.mSize = t.mSize
  <1>0. SUFFICES ASSUME r = Update(t, c, nb)
        PROVE  Fine(r, K, Nobody) /\ UsedChunks(r) = UsedChunks(t) /\ r.mSize = t.mSize
    OBVIOUS
  <1> DEFINE U == UsedChunks(t) \ {d}
             G == FreeChunks(t)
             V == UsedChunks(t)
  <1>1. t \in Pool /\ Laid(t) /\ Bins(t, G \ {d}) /\ Held(t, U, x)
    BY DEF Fine
  <1>2. Updated(t, r, c, nb)
    BY <1>0, <1>1, UpdateIs
  <1>3. /\ r \in Pool /\ r.mSize = t.mSize /\ r.mPrevSize = t.mPrevSize /\ r.mAreas = t.mAreas
        /\ r.mBins = t.mBins /\ r.mBinBlocks = t.mBinBlocks
    BY <1>2 DEF Updated, SameButBlocks
  <1>4. r.blocks = {b \in t.blocks : b.at # c} \cup {nb}
    BY <1>2 DEF Updated, SameButBlocks
  <1>5. Held(t, U, c)
    <2>1. \A b \in t.blocks : b.at # Nobody
      BY <1>1, PoolFields DEF BlockRec, Nobody
    <2>2. QED
      BY <1>1, <2>1 DEF Held
  <1>6. Held(r, (U \ {c}) \cup {nb.at}, Nobody)
    <2>1. nb.at \notin U /\ ChunkSize(t, nb.at) - nb.len \in 0 .. kMinAllocSize - 1
      BY MinSize
    <2>2. QED
      BY <1>1, <1>3, <1>4, <1>5, <2>1, HeldWith
  <1>7. Laid(r) /\ FreeChunks(r) = G /\ UsedChunks(r) = V
    BY <1>1, <1>3, SameLaid
  <1>8. G \ {d} = G \ K
    BY DEF FreeChunks, UsedChunks
  <1>9. Bins(r, G \ K)
    <2>1. \A f \in G \ {d} : ChunkSize(r, f) = ChunkSize(t, f)
      BY <1>3 DEF ChunkSize
    <2>2. Bins(r, G \ {d})
      BY <1>1, <1>3, <2>1, BinsFrame
    <2>3. QED
      BY <1>8, <2>2
  <1>10. (U \ {c}) \cup {nb.at} = V \ K
    OBVIOUS
  <1>11. QED
    BY <1>3, <1>6, <1>7, <1>9, <1>10 DEF Fine

\* The block that a chunk's user has is still there when headers were written.
LEMMA AtIs ==
    ASSUME NEW q \in Pool, NEW c, NEW b \in q.blocks, b.at = c, \A d \in q.blocks : d.at = c => d = b,
           NEW s, NEW W, s.blocks = Clobber(q.blocks, W)
    PROVE  At(s, c) = Harmed(b, W)
  <1>1. \A d \in q.blocks : d \in BlockRec
    BY PoolFields
  <1>2. Harmed(b, W) \in s.blocks /\ Harmed(b, W).at = c
    BY <1>1, ClobberIs, HarmedFields
  <1>3. ASSUME NEW d \in s.blocks, d.at = c PROVE d = Harmed(b, W)
    <2>1. PICK e \in q.blocks : d = Harmed(e, W)
      BY ClobberIs
    <2>2. e.at = c
      BY <1>1, <1>3, <2>1, HarmedFields
    <2>3. QED
      BY <2>1, <2>2
  <1>4. QED
    BY <1>2, <1>3 DEF At

\* The block at c, some of its contents wanted, is from now on n units long and at d.
MovedTo(old, nb, d, c, n) ==
    \/ d = c /\ nb = [old EXCEPT !.len = n]
    \/ nb = [old EXCEPT !.at = d, !.len = n, !.back = TRUE]

LEMMA MovedIs ==
    ASSUME NEW old \in BlockRec, NEW c, old.at = c, NEW d \in Nat, NEW n \in Nat, NEW nb, MovedTo(old, nb, d, c, n)
    PROVE  /\ nb \in BlockRec /\ nb.at = d /\ nb.len = n
           /\ nb.back \/ (d = c /\ nb.kept = old.kept /\ nb.back = old.back)
  <1>1. CASE d = c /\ nb = [old EXCEPT !.len = n]
    BY <1>1 DEF BlockRec
  <1>2. CASE nb = [old EXCEPT !.at = d, !.len = n, !.back = TRUE]
    BY <1>2 DEF BlockRec
  <1>3. QED
    BY <1>1, <1>2 DEF MovedTo

\* Realloc's first four ways: the block stays where it is, or goes to the chunk before it.
LEMMA ReallocTrims ==
    ASSUME NEW t, NEW L, NEW c \in L, Fine(t, L, c), NEW d, NEW e, Stretch(t, d, e), InHand(t, L, d, e),
           NEW has, NEW n \in Nat, n >= 2, has >= n,
           NEW b \in t.blocks, b.at = c, b.kept \/ b.back, b.len <= n, \A a \in t.blocks : a.at = c => a = b,
           NEW s, NEW nb, MovedTo(At(s, c), nb, d, c, n),
           NEW r, r = Update(s, c, nb)
    PROVE  s = Trim(t, d, has, n) /\ has = e - d =>
           Fine(r, {}, Nobody)
  <1>0. SUFFICES ASSUME s = Trim(t, d, has, n), has = e - d
        PROVE  Fine(r, {}, Nobody)
    OBVIOUS
  <1>1. Trimmed(t, L, s, d, n, c)
    BY <1>0, TrimIs
  <1>2. /\ Fine(s, {d}, c) /\ d \in UsedChunks(s) /\ ChunkSize(s, d) - n \in 0 .. 1
        /\ \A u \in UsedChunks(s) : u = d \/ (u \in UsedChunks(t) /\ u \notin L)
    BY <1>1 DEF Trimmed
  <1>3. PICK W : s.blocks = Clobber(t.blocks, W) /\ \A a \in W : a \in Nat /\ (a <= d \/ a >= d + n)
    BY <1>1 DEF Trimmed
  <1>4. t \in Pool
    BY DEF Fine
  <1>5. At(s, c) = Harmed(b, W) /\ b \in BlockRec
    BY <1>3, <1>4, AtIs, PoolFields
  <1>6. /\ nb \in BlockRec /\ nb.at = d /\ nb.len = n
        /\ nb.back \/ (d = c /\ nb.kept = At(s, c).kept /\ nb.back = At(s, c).back)
    <2>1. At(s, c) \in BlockRec /\ At(s, c).at = c
      BY <1>5, HarmedFields
    <2>2. d \in Nat
      BY <1>4, StretchPlaces DEF Fine
    <2>3. QED
      BY <2>1, <2>2, MovedIs
  <1>7. nb.kept \/ nb.back
    <2>1. CASE nb.back
      BY <2>1
    <2>2. CASE d = c /\ nb.kept = At(s, c).kept /\ nb.back = At(s, c).back
      <3>1. CASE b.back
        BY <1>5, <2>2, <3>1, HarmedFields
      <3>2. CASE b.kept /\ ~b.back
        <4>1. \A a \in W : ~(b.at < a /\ a < b.at + b.len)
          <5>1. b.at \in Nat /\ b.len \in Nat
            BY <1>5 DEF BlockRec
          <5>2. QED
            BY <1>3, <2>2, <5>1
        <4>2. Harmed(b, W) = b
          BY <1>5, <4>1, HarmedFields
        <4>3. QED
          BY <1>5, <2>2, <3>2, <4>2
      <3>3. QED
        BY <3>1, <3>2
    <2>3. QED
      BY <1>6, <2>1, <2>2
  <1>8. nb \in BlockRec /\ nb.at = d /\ ChunkSize(s, d) - nb.len \in 0 .. 1
    BY <1>2, <1>6
  <1> DEFINE K == {}
  <1>9. \A u : u \in K <=> u \in UsedChunks(s) /\ u = c /\ u # d
    BY <1>2
  <1> HIDE DEF K
  <1>10. Fine(r, K, Nobody)
    BY <1>2, <1>7, <1>8, <1>9, BlockIs
  <1>11. QED
    BY <1>10 DEF K

\* What Realloc begins with: the one block at c, of which n units or less are wanted.
Wanted(q, c, w, n) ==
    /\ Fine(q, {}, c) /\ c \in UsedChunks(q) /\ w \in q.blocks /\ w.at = c
    /\ w.kept \/ w.back
    /\ w.len <= n /\ \A a \in q.blocks : a.at = c => a = w
    /\ ChunkSize(q, c) < n => Fine(q, {}, Nobody)

LEMMA WantedIs ==
    ASSUME NEW q, Fine(q, {}, Nobody), NEW b \in q.blocks, NEW c, c = b.at, NEW n \in Nat,
           NEW w, NEW r
    PROVE  w = [b EXCEPT !.len = IF n < @ THEN n ELSE @] /\ r = Update(q, c, w) =>
           Wanted(r, c, w, n)
  <1>0. SUFFICES ASSUME w = [b EXCEPT !.len = IF n < @ THEN n ELSE @], r = Update(q, c, w)
        PROVE  Wanted(r, c, w, n)
    OBVIOUS
  <1> DEFINE U == UsedChunks(q)
             G == FreeChunks(q)
  <1>1. q \in Pool /\ Laid(q) /\ Bins(q, G) /\ Held(q, U, Nobody)
    <2>1. G \ {} = G /\ U \ {} = U
      OBVIOUS
    <2>2. QED
      BY <2>1 DEF Fine
  <1>2. b \in BlockRec /\ c \in Nat /\ c # Nobody /\ b.len \in Nat
    BY <1>1, PoolFields DEF BlockRec, Nobody
  <1>3. /\ w \in BlockRec /\ w.at = c /\ w.kept = b.kept /\ w.back = b.back /\ w.len \in Nat /\ w.len <= n
        /\ ~(n < b.len) => w = b
    BY <1>0, <1>2 DEF BlockRec
  <1>4. /\ c \in U /\ ChunkSize(q, c) - b.len \in 0 .. 1 /\ (b.kept \/ b.back)
        /\ \A a \in q.blocks : a.at = c => a = b
    BY <1>1, <1>2, MinSize DEF Held
  <1>5. ChunkSize(q, c) \in Nat
    BY <1>1, <1>4, ChunkPlace DEF UsedChunks
  <1>6. Updated(q, r, c, w)
    BY <1>0, <1>1, <1>3, UpdateIs
  <1>7. /\ r \in Pool /\ r.mSize = q.mSize /\ r.mPrevSize = q.mPrevSize /\ r.mAreas = q.mAreas
        /\ r.mBins = q.mBins /\ r.mBinBlocks = q.mBinBlocks
    BY <1>6 DEF Updated, SameButBlocks
  <1>8. \A a : a \in r.blocks <=> (a \in q.blocks /\ a.at # c) \/ a = w
    BY <1>6 DEF Updated, SameButBlocks
  <1>9. Laid(r) /\ FreeChunks(r) = G /\ UsedChunks(r) = U /\ ChunkSize(r, c) = ChunkSize(q, c)
    BY <1>1, <1>7, SameLaid
  <1>10. \A d : ChunkSize(r, d) = ChunkSize(q, d)
    BY <1>7 DEF ChunkSize
  <1>11. Bins(r, G)
    BY <1>1, <1>7, <1>10, BinsFrame
  <1>12. Held(r, U, c)
    <2>1. \A a \in q.blocks : a.at # Nobody
      BY <1>1, PoolFields DEF BlockRec, Nobody
    <2>2. \A a \in r.blocks : a.at # c => /\ a.at \in U
                                          /\ ChunkSize(r, a.at) - a.len \in 0 .. kMinAllocSize - 1
                                          /\ a.kept \/ a.back
      BY <1>1, <1>3, <1>8, <1>10, <2>1 DEF Held
    <2>3. \A a, d \in r.blocks : a.at = d.at => a = d
      BY <1>1, <1>3, <1>8 DEF Held
    <2>4. \A d \in U : \E a \in r.blocks : a.at = d
      BY <1>1, <1>3, <1>8 DEF Held
    <2>5. QED
      BY <2>2, <2>3, <2>4 DEF Held
  <1>13. FreeChunks(r) \ {} = G /\ UsedChunks(r) \ {} = U
    BY <1>9
  <1>14. Fine(r, {}, c)
    BY <1>7, <1>9, <1>11, <1>12, <1>13 DEF Fine
  <1>15. ASSUME ChunkSize(r, c) < n PROVE Fine(r, {}, Nobody)
    <2>1. w = b
      BY <1>2, <1>3, <1>4, <1>5, <1>9, <1>15
    <2>2. r.blocks = q.blocks
      BY <1>4, <1>8, <2>1
    <2>3. Held(r, U, Nobody)
      BY <1>1, <1>10, <2>2, SameHeld
    <2>4. QED
      BY <1>7, <1>9, <1>11, <1>13, <2>3 DEF Fine
  <1>16. QED
    BY <1>3, <1>4, <1>8, <1>9, <1>14, <1>15 DEF Wanted

LEMMA InHandOne ==
    ASSUME NEW q \in Pool, Laid(q), NEW c \in Chunks(q)
    PROVE  InHand(q, {c}, c, c + ChunkSize(q, c))
  <1>1. /\ c \in Nat /\ ChunkSize(q, c) \in Nat /\ ChunkSize(q, c) >= 2
        /\ \A x \in DOMAIN q.mSize : ~(c < x /\ x < c + ChunkSize(q, c))
    BY NextChunk
  <1>2. \A d \in Chunks(q) : d \in Nat /\ d \in DOMAIN q.mSize
    BY ChunkPlace
  <1>3. \A d \in Chunks(q) : c <= d /\ d < c + ChunkSize(q, c) => d = c
    BY <1>1, <1>2
  <1>4. c <= c /\ c < c + ChunkSize(q, c)
    BY <1>1
  <1>5. \A d : d \in {c} <=> d \in Chunks(q) /\ c <= d /\ d < c + ChunkSize(q, c)
    BY <1>3, <1>4
  <1>6. QED
    BY <1>5 DEF InHand

LEMMA InHandJoin ==
    ASSUME NEW q \in Pool, NEW L, NEW K, NEW c \in Nat, NEW d \in Nat, NEW e \in Nat, c <= d, d <= e,
           InHand(q, L, c, d), InHand(q, K, d, e), NEW M, \A x : x \in M <=> x \in L \/ x \in K
    PROVE  InHand(q, M, c, e)
  <1>1. \A x \in Chunks(q) : x \in Nat
    BY ChunkPlace
  <1>2. \A x : x \in M <=> x \in Chunks(q) /\ ((c <= x /\ x < d) \/ (d <= x /\ x < e))
    BY DEF InHand
  <1>3. \A x \in Chunks(q) : (c <= x /\ x < d) \/ (d <= x /\ x < e) <=> c <= x /\ x < e
    BY <1>1
  <1>4. QED
    BY <1>2, <1>3 DEF InHand

LEMMA SameStretch ==
    ASSUME NEW q, NEW r, SameHeads(q, r), NEW c, NEW e, NEW L
    PROVE  (Stretch(q, c, e) => Stretch(r, c, e)) /\ (InHand(q, L, c, e) => InHand(r, L, c, e))
  <1>1. r.mSize = q.mSize /\ Chunks(r) = Chunks(q) /\ Ends(r) = Ends(q)
    BY SameLaid DEF SameHeads
  <1>2. QED
    BY <1>1 DEF Stretch, InHand

\* The chunks on both sides of c, as Realloc looks at them.
FreeIs(q, d, e) ==
    /\ d \in FreeChunks(q) /\ d \in Nat /\ e \in Nat /\ e = d + ChunkSize(q, d) /\ e >= d + 2
    /\ ChunkSize(q, d) \in Nat /\ Stretch(q, d, e) /\ InHand(q, {d}, d, e)

NextTo(q, c, next, prev) ==
    /\ c \in Nat /\ ChunkSize(q, c) \in Nat /\ ChunkSize(q, c) >= 2 /\ next \in Nat
    /\ Stretch(q, c, next) /\ InHand(q, {c}, c, next)
    /\ ~InUse(q, next) => FreeIs(q, next, next + ChunkSize(q, next))
    /\ ~InUse(q, prev) => FreeIs(q, prev, c)

LEMMA Neighbours ==
    ASSUME NEW q \in Pool, Laid(q), NEW c \in UsedChunks(q), NEW next, next = c + ChunkSize(q, c),
           NEW prev, prev = c - PrevSize(q, c)
    PROVE  NextTo(q, c, next, prev)
  <1>1. c \in Chunks(q) /\ InUse(q, c)
    BY DEF UsedChunks
  <1>2. /\ c \in Nat /\ ChunkSize(q, c) \in Nat /\ ChunkSize(q, c) >= 2 /\ next \in Nat
        /\ Stretch(q, c, next) /\ InHand(q, {c}, c, next)
    BY <1>1, NextChunk, StretchOne, InHandOne
  <1>3. ASSUME ~InUse(q, next) PROVE FreeIs(q, next, next + ChunkSize(q, next))
    <2>1. next \in Chunks(q)
      BY <1>1, <1>3, NextChunk
    <2>2. next \in FreeChunks(q)
      BY <1>3, <2>1 DEF FreeChunks
    <2>3. Stretch(q, next, next + ChunkSize(q, next)) /\ InHand(q, {next}, next, next + ChunkSize(q, next))
      BY <2>1, StretchOne, InHandOne
    <2>4. next \in Nat /\ ChunkSize(q, next) \in Nat /\ ChunkSize(q, next) >= 2
      BY <2>1, NextChunk
    <2>5. QED
      BY <2>2, <2>3, <2>4 DEF FreeIs
  <1>4. ASSUME ~InUse(q, prev) PROVE FreeIs(q, prev, c)
    <2>1. ~PrevInUse(q, c)
      BY <1>1, <1>4, Before
    <2>2. /\ prev \in FreeChunks(q) /\ ChunkSize(q, prev) = PrevSize(q, c) /\ prev + PrevSize(q, c) = c
          /\ PrevSize(q, c) >= 2 /\ prev < c
      BY <1>1, <2>1, Before
    <2>3. prev \in Chunks(q) /\ prev \in Nat /\ ChunkSize(q, prev) \in Nat
      BY <2>2, ChunkPlace DEF FreeChunks
    <2>4. Stretch(q, prev, c) /\ InHand(q, {prev}, prev, c)
      BY <2>2, <2>3, StretchOne, InHandOne
    <2>5. QED
      BY <1>2, <2>2, <2>3, <2>4 DEF FreeIs
  <1>5. QED
    BY <1>2, <1>3, <1>4 DEF NextTo

\* The chunks of L, which an operation has in hand, are the stretch from c to e.
Ready(q, t, L, c, e, x) ==
    SameHeads(q, t) /\ Fine(t, L, x) /\ Stretch(q, c, e) /\ InHand(q, L, c, e)

\* A free chunk next to them is taken in hand with them.
LEMMA ReadyMore ==
    ASSUME NEW q \in Pool, Laid(q), NEW t, NEW L, NEW c, NEW e, NEW x, Ready(q, t, L, c, e, x),
           NEW d, NEW f, FreeIs(q, d, f), NEW b, NEW g, (d = e /\ b = c /\ g = f) \/ (f = c /\ b = d /\ g = e),
           NEW u, u = UnlinkFree(t, d)
    PROVE  Ready(q, u, L \cup {d}, b, g, x)
  <1>1. SameHeads(q, t) /\ Fine(t, L, x) /\ Stretch(q, c, e) /\ InHand(q, L, c, e)
    BY DEF Ready
  <1>2. /\ d \in FreeChunks(q) /\ d \in Nat /\ f \in Nat /\ d < f
        /\ Stretch(q, d, f) /\ InHand(q, {d}, d, f)
    BY DEF FreeIs
  <1>3. c \in Nat /\ e \in Nat /\ c < e
    BY <1>1, StretchPlaces
  <1>4. d \notin L
    BY <1>1, <1>2, <1>3 DEF InHand
  <1>5. FreeChunks(t) = FreeChunks(q)
    BY <1>1, SameLaid DEF SameHeads
  <1> DEFINE M == L \cup {d}
             K == {d}
  <1>6. Fine(u, M, x) /\ SameHeads(t, u)
    BY <1>1, <1>2, <1>4, <1>5, FineUnlinked
  <1>7. SameHeads(q, u)
    BY <1>1, <1>6 DEF SameHeads
  <1>8. InHand(q, K, d, f) /\ \A a : a \in M <=> a \in L \/ a \in K
    BY <1>2
  <1>9. \A a : a \in M <=> a \in K \/ a \in L
    BY <1>8
  <1> HIDE DEF M, K
  <1>10. Stretch(q, b, g) /\ InHand(q, M, b, g)
    <2>1. CASE d = e /\ b = c /\ g = f
      BY <1>1, <1>2, <1>3, <1>8, <2>1, StretchTwo, InHandJoin
    <2>2. CASE f = c /\ b = d /\ g = e
      BY <1>1, <1>2, <1>3, <1>8, <1>9, <2>2, StretchTwo, InHandJoin
    <2>3. QED
      BY <2>1, <2>2
  <1>11. QED
    BY <1>6, <1>7, <1>10 DEF Ready, M

\* A chunk in use is in hand, with the block it has.
LEMMA FineHeld ==
    ASSUME NEW q, NEW c, Fine(q, {}, c), c \in UsedChunks(q)
    PROVE  Fine(q, {c}, c)
  <1>1. Held(q, UsedChunks(q), c)
    <2>1. UsedChunks(q) \ {} = UsedChunks(q)
      OBVIOUS
    <2>2. QED
      BY <2>1 DEF Fine
  <1>2. Held(q, UsedChunks(q) \ {c}, c)
    BY <1>1 DEF Held
  <1>3. FreeChunks(q) \ {} = FreeChunks(q) \ {c}
    BY DEF FreeChunks, UsedChunks
  <1>4. QED
    BY <1>2, <1>3 DEF Fine

MovedBy(old, nb, d, n, prev) == nb = [old EXCEPT !.at = d, !.len = n, !.back = @ \/ d = prev]

\* Realloc's last way: another chunk, and the block's old one is freed.
LEMMA ReallocElsewhere ==
    ASSUME NEW q, NEW c \in UsedChunks(q), Fine(q, {}, Nobody), sizes \in Pools, NEW n \in Request,
           NEW other, NEW d, d # None, NEW s,
           NEW prev, NEW nb, MovedBy(At(s, c), nb, d, n, prev),
           NEW t, NEW r, r = FreeChunk(t, c)
    PROVE  other = AllocChunk(q, n) /\ s = other.pool /\ d = other.chunk /\ t = Update(s, c, nb) =>
           Fine(r, {}, Nobody)
  <1>0. SUFFICES ASSUME other = AllocChunk(q, n), s = other.pool, d = other.chunk, t = Update(s, c, nb)
        PROVE  Fine(r, {}, Nobody)
    OBVIOUS
  <1>1. Taken(q, s, d, n, Nobody)
    BY <1>0, AllocIs
  <1>2. /\ Fine(s, {d}, Nobody) /\ d \in UsedChunks(s) /\ ChunkSize(s, d) - n \in 0 .. 1
        /\ c # d /\ c \in UsedChunks(s)
    BY <1>1 DEF Taken
  <1>3. s \in Pool /\ Held(s, UsedChunks(s) \ {d}, Nobody)
    BY <1>2 DEF Fine
  <1>4. At(s, c) \in s.blocks /\ At(s, c).at = c
    BY <1>2, <1>3 DEF Held, At
  <1>5. At(s, c) \in BlockRec /\ (At(s, c).kept \/ At(s, c).back)
    <2>1. At(s, c) \in BlockRec
      BY <1>3, <1>4, PoolFields
    <2>2. c \in Nat /\ c # Nobody
      BY <1>4, <2>1 DEF BlockRec, Nobody
    <2>3. QED
      BY <1>3, <1>4, <2>1, <2>2 DEF Held
  <1>6. n \in Nat /\ d \in Nat
    <2>1. n \in Nat
      BY PoolAssumption, MinSize
    <2>2. d \in Chunks(s)
      BY <1>2 DEF UsedChunks
    <2>3. QED
      BY <1>3, <2>1, <2>2, ChunkPlace
  <1>7. nb \in BlockRec /\ nb.at = d /\ nb.len = n /\ (nb.kept \/ nb.back)
    BY <1>5, <1>6 DEF BlockRec, MovedBy
  <1> DEFINE K == {c}
  <1>8. \A e : e \in K <=> e \in UsedChunks(s) /\ e = c /\ e # d
    BY <1>2
  <1>9. c \in K /\ K \ {c} = {} /\ \A e \in K : e = c
    OBVIOUS
  <1> HIDE DEF K
  <1>10. Fine(t, K, Nobody) /\ UsedChunks(t) = UsedChunks(s) /\ t.mSize = s.mSize
    <2>1. ChunkSize(s, d) - nb.len \in 0 .. 1
      BY <1>2, <1>7
    <2>2. QED
      BY <1>0, <1>2, <1>7, <1>8, <2>1, BlockIs
  <1>11. K \subseteq UsedChunks(t)
    BY <1>2, <1>9, <1>10
  <1>12. Freed(t, r, c, K, Nobody)
    BY <1>9, <1>10, <1>11, FreeChunkIs
  <1>13. QED
    BY <1>9, <1>12 DEF Freed

\* Realloc leaves the pool well in each of its five ways.
LEMMA ReallocIs ==
    ASSUME NEW q, NEW c, NEW w, NEW n \in Request, Wanted(q, c, w, n), sizes \in Pools,
           NEW r
    PROVE  r = ReallocChunk(q, c, n) =>
           Fine(r, {}, Nobody)
  <1>0. SUFFICES ASSUME r = ReallocChunk(q, c, n)
        PROVE  Fine(r, {}, Nobody)
    OBVIOUS
  <1> DEFINE has == ChunkSize(q, c)
             next == c + has
             nextsize == IF InUse(q, next) THEN 0 ELSE ChunkSize(q, next)
             prev == c - PrevSize(q, c)
             prevsize == IF InUse(q, prev) THEN 0 ELSE ChunkSize(q, prev)
             forward == IF nextsize = 0 THEN q ELSE UnlinkFree(q, next)
             Resized(t) == Update(t, c, [At(t, c) EXCEPT !.len = n])
             Moved(t, d) == Update(t, c, [At(t, c) EXCEPT !.at = d, !.len = n, !.back = @ \/ d = prev])
             other == AllocChunk(q, n)
  <1>1. r = IF has >= n THEN Resized(Trim(q, c, has, n))
            ELSE IF nextsize + has >= n THEN Resized(Trim(forward, c, has + nextsize, n))
            ELSE IF prevsize > 0 /\ nextsize > 0 /\ nextsize + prevsize + has >= n
                 THEN Moved(Trim(UnlinkFree(forward, prev), prev, has + nextsize + prevsize, n), prev)
            ELSE IF prevsize > 0 /\ prevsize + has >= n
                 THEN Moved(Trim(UnlinkFree(q, prev), prev, has + prevsize, n), prev)
            ELSE IF other.chunk = None THEN q
            ELSE FreeChunk(Moved(other.pool, other.chunk), c)
    BY <1>0 DEF ReallocChunk
  <1>2. /\ Fine(q, {}, c) /\ c \in UsedChunks(q) /\ w \in q.blocks /\ w.at = c
        /\ w.kept \/ w.back
        /\ w.len <= n /\ \A a \in q.blocks : a.at = c => a = w
        /\ ChunkSize(q, c) < n => Fine(q, {}, Nobody)
    BY DEF Wanted
  <1>3. q \in Pool /\ Laid(q) /\ Fine(q, {c}, c)
    BY <1>2, FineHeld DEF Fine
  <1>4. n \in Nat /\ n >= 2
    BY PoolAssumption, MinSize
  <1>5. next = c + ChunkSize(q, c) /\ prev = c - PrevSize(q, c) /\ has = ChunkSize(q, c) /\ next = c + has
    OBVIOUS
  <1>6. /\ InUse(q, next) => nextsize = 0
        /\ ~InUse(q, next) => nextsize = ChunkSize(q, next)
        /\ nextsize # 0 => ~InUse(q, next) /\ forward = UnlinkFree(q, next)
        /\ InUse(q, prev) => prevsize = 0
        /\ ~InUse(q, prev) => prevsize = ChunkSize(q, prev)
    OBVIOUS
  <1>7. other = AllocChunk(q, n)
    OBVIOUS
  <1> HIDE DEF has, next, nextsize, prev, prevsize, forward, other
  <1>8. NextTo(q, c, next, prev)
    BY <1>2, <1>3, <1>5, Neighbours
  <1> DEFINE K == {c}
  <1>9. /\ c \in Nat /\ has \in Nat /\ next \in Nat /\ Stretch(q, c, next) /\ InHand(q, K, c, next)
        /\ ~InUse(q, next) => FreeIs(q, next, next + ChunkSize(q, next))
        /\ ~InUse(q, prev) => FreeIs(q, prev, c)
    BY <1>5, <1>8 DEF NextTo
  <1>10. c \in K /\ Ready(q, q, K, c, next, c)
    BY <1>3, <1>9 DEF Ready, SameHeads
  <1> HIDE DEF K
  <1>11. /\ nextsize \in Nat /\ prevsize \in Nat
         /\ nextsize # 0 => FreeIs(q, next, next + nextsize)
         /\ prevsize # 0 => FreeIs(q, prev, c) /\ prev \in Nat /\ c = prev + prevsize
    BY <1>6, <1>9 DEF FreeIs
  <1>12. ASSUME NEW t, NEW L, c \in L, NEW d, NEW e, Ready(q, t, L, d, e, c), NEW size, size = e - d, size >= n,
                (d = c /\ r = Resized(Trim(t, d, size, n))) \/ (d = prev /\ r = Moved(Trim(t, d, size, n), d))
         PROVE  Fine(r, {}, Nobody)
    <2> DEFINE s == Trim(t, d, size, n)
    <2>1. SameHeads(q, t) /\ Fine(t, L, c) /\ Stretch(t, d, e) /\ InHand(t, L, d, e)
      BY <1>12, SameStretch DEF Ready
    <2>2. w \in t.blocks /\ \A a \in t.blocks : a.at = c => a = w
      BY <1>2, <2>1 DEF SameHeads
    <2>3. \E nb : MovedTo(At(s, c), nb, d, c, n) /\ r = Update(s, c, nb)
      <3> HIDE DEF s
      <3>1. CASE d = c /\ r = Resized(s)
        BY <3>1 DEF MovedTo
      <3>2. CASE d = prev /\ r = Moved(s, d)
        BY <3>2 DEF MovedTo
      <3>3. QED
        BY <1>12, <3>1, <3>2 DEF s
    <2>4. PICK nb : MovedTo(At(s, c), nb, d, c, n) /\ r = Update(s, c, nb)
      BY <2>3
    <2>5. s = Trim(t, d, size, n)
      OBVIOUS
    <2> HIDE DEF s
    <2>6. QED
      BY <1>2, <1>4, <1>12, <2>1, <2>2, <2>4, <2>5, ReallocTrims
  <1> HIDE DEF Resized, Moved
  <1>13. CASE has >= n
    <2>1. r = Resized(Trim(q, c, has, n)) /\ has = next - c
      BY <1>1, <1>5, <1>9, <1>13
    <2>2. QED
      BY <1>10, <1>12, <1>13, <2>1
  <1>14. CASE ~(has >= n) /\ nextsize + has >= n
    <2> DEFINE e == next + nextsize
               size == has + nextsize
               L == K \cup {next}
    <2>1. nextsize # 0
      BY <1>4, <1>9, <1>14
    <2>2. r = Resized(Trim(forward, c, size, n)) /\ size = e - c /\ size >= n
      BY <1>1, <1>5, <1>9, <1>11, <1>14
    <2>3. FreeIs(q, next, e) /\ forward = UnlinkFree(q, next) /\ c \in L
      BY <1>6, <1>10, <1>11, <2>1
    <2> HIDE DEF e, size
    <2>4. Ready(q, forward, L, c, e, c)
      BY <1>3, <1>10, <2>3, ReadyMore
    <2> HIDE DEF L
    <2>5. QED
      BY <1>12, <2>2, <2>3, <2>4
  <1>15. CASE ~(has >= n) /\ ~(nextsize + has >= n) /\ prevsize > 0 /\ nextsize > 0 /\ nextsize + prevsize + has >= n
    <2> DEFINE e == next + nextsize
               size == has + nextsize + prevsize
               L == K \cup {next}
               M == L \cup {prev}
               t == UnlinkFree(forward, prev)
    <2>1. nextsize # 0 /\ prevsize # 0
      BY <1>11, <1>15
    <2>2. r = Moved(Trim(t, prev, size, n), prev)
      BY <1>1, <1>15
    <2>3. size = e - prev /\ size >= n
      BY <1>4, <1>5, <1>9, <1>11, <1>15, <2>1
    <2>4. FreeIs(q, next, e) /\ FreeIs(q, prev, c) /\ forward = UnlinkFree(q, next) /\ c \in M
      BY <1>6, <1>10, <1>11, <2>1
    <2> HIDE DEF e, size
    <2>5. Ready(q, forward, L, c, e, c)
      BY <1>3, <1>10, <2>4, ReadyMore
    <2> HIDE DEF L
    <2>6. Ready(q, t, M, prev, e, c)
      BY <1>3, <2>4, <2>5, ReadyMore
    <2> HIDE DEF M, t
    <2>7. QED
      BY <1>12, <2>2, <2>3, <2>4, <2>6
  <1>16. CASE /\ ~(has >= n) /\ ~(nextsize + has >= n)
              /\ ~(prevsize > 0 /\ nextsize > 0 /\ nextsize + prevsize + has >= n)
              /\ prevsize > 0 /\ prevsize + has >= n
    <2> DEFINE size == has + prevsize
               L == K \cup {prev}
               t == UnlinkFree(q, prev)
    <2>1. prevsize # 0
      BY <1>11, <1>16
    <2>2. r = Moved(Trim(t, prev, size, n), prev)
      BY <1>1, <1>16
    <2>3. size = next - prev /\ size >= n
      BY <1>4, <1>5, <1>9, <1>11, <1>16, <2>1
    <2>4. FreeIs(q, prev, c) /\ c \in L
      BY <1>10, <1>11, <2>1
    <2> HIDE DEF size
    <2>5. Ready(q, t, L, prev, next, c)
      BY <1>3, <1>10, <2>4, ReadyMore
    <2> HIDE DEF L, t
    <2>6. QED
      BY <1>12, <2>2, <2>3, <2>4, <2>5
  <1>17. CASE /\ ~(has >= n) /\ ~(nextsize + has >= n)
              /\ ~(prevsize > 0 /\ nextsize > 0 /\ nextsize + prevsize + has >= n)
              /\ ~(prevsize > 0 /\ prevsize + has >= n)
    <2>1. Fine(q, {}, Nobody)
      BY <1>2, <1>4, <1>5, <1>9, <1>17
    <2>2. CASE other.chunk = None
      <3>1. r = q
        BY <1>1, <1>17, <2>2
      <3>2. QED
        BY <2>1, <3>1
    <2>3. CASE other.chunk # None
      <3> DEFINE d == other.chunk
                 s == other.pool
                 nb == [At(s, c) EXCEPT !.at = d, !.len = n, !.back = @ \/ d = prev]
                 t == Update(s, c, nb)
      <3>1. r = FreeChunk(t, c)
        BY <1>1, <1>17, <2>3 DEF Moved
      <3>2. d = other.chunk /\ s = other.pool /\ t = Update(s, c, nb) /\ d # None
        BY <2>3
      <3> HIDE DEF t
      <3>3. MovedBy(At(s, c), nb, d, n, prev)
        BY DEF MovedBy
      <3>4. c \in UsedChunks(q)
        BY <1>2
      <3> HIDE DEF nb, s, d
      <3>5. QED
        BY <1>7, <2>1, <3>1, <3>2, <3>3, <3>4, ReallocElsewhere
    <2>4. QED
      BY <2>2, <2>3
  <1>18. QED
    BY <1>13, <1>14, <1>15, <1>16, <1>17
-----------------------------------------------------------------------------
(* What users do. *)

\* Alloc gives a chunk to its user.
LEMMA AllocBlockIs ==
    ASSUME NEW q, Fine(q, {}, Nobody), sizes \in Pools, NEW n \in Request,
           NEW r, r.chunk # None,
           NEW t
    PROVE  r = AllocChunk(q, n) /\ t = [r.pool EXCEPT !.blocks = @ \cup {Block(r.chunk, n)}] =>
           Fine(t, {}, Nobody)
  <1>0. SUFFICES ASSUME r = AllocChunk(q, n), t = [r.pool EXCEPT !.blocks = @ \cup {Block(r.chunk, n)}]
        PROVE  Fine(t, {}, Nobody)
    OBVIOUS
  <1> DEFINE d == r.chunk
             s == r.pool
             nb == Block(d, n)
  <1>1. Taken(q, s, d, n, Nobody)
    <2>1. d = r.chunk /\ s = r.pool /\ d # None
      OBVIOUS
    <2> HIDE DEF d, s
    <2>2. QED
      BY <1>0, <2>1, AllocIs
  <1>2. Fine(s, {d}, Nobody) /\ d \in UsedChunks(s) /\ ChunkSize(s, d) - n \in 0 .. 1
    BY <1>1 DEF Taken
  <1>3. t = [s EXCEPT !.blocks = @ \cup {nb}] /\ nb = [at |-> d, len |-> n, kept |-> TRUE, back |-> FALSE]
    BY <1>0 DEF Block
  <1> HIDE DEF d, s, nb
  <1>4. s \in Pool /\ d \in Nat /\ n \in Nat
    <2>1. s \in Pool /\ d \in Chunks(s)
      BY <1>2 DEF Fine, UsedChunks
    <2>2. QED
      BY <2>1, ChunkPlace, PoolAssumption, MinSize
  <1>5. nb \in BlockRec /\ nb.at = d /\ nb.len = n /\ nb.kept
    BY <1>3, <1>4 DEF BlockRec
  <1>6. {b \in s.blocks : b.at # Nobody} = s.blocks
    BY <1>4, PoolFields DEF BlockRec, Nobody
  <1>7. t = Update(s, Nobody, nb)
    BY <1>3, <1>6 DEF Update
  <1> DEFINE K == {}
  <1>8. \A e : e \in K <=> e \in UsedChunks(s) /\ e = Nobody /\ e # d
    <2>1. \A e \in UsedChunks(s) : e \in Nat
      BY <1>4, ChunkPlace DEF UsedChunks
    <2>2. QED
      BY <2>1 DEF Nobody
  <1> HIDE DEF K
  <1>9. Fine(t, K, Nobody)
    <2>1. ChunkSize(s, d) - nb.len \in 0 .. 1
      BY <1>2, <1>5
    <2>2. QED
      BY <1>2, <1>5, <1>7, <1>8, <2>1, BlockIs
  <1>10. QED
    BY <1>9 DEF K

\* The chunk of a block that is freed is in hand.
LEMMA ReleasedIs ==
    ASSUME NEW q, Fine(q, {}, Nobody), NEW b \in q.blocks, NEW c, c = b.at,
           NEW t
    PROVE  t = [q EXCEPT !.blocks = @ \ {b}] =>
           Fine(t, {c}, Nobody) /\ c \in UsedChunks(t)
  <1>0. SUFFICES ASSUME t = [q EXCEPT !.blocks = @ \ {b}]
        PROVE  Fine(t, {c}, Nobody) /\ c \in UsedChunks(t)
    OBVIOUS
  <1> DEFINE U == UsedChunks(q)
             G == FreeChunks(q)
             B == q.blocks \ {b}
  <1>1. q \in Pool /\ Laid(q) /\ Bins(q, G) /\ Held(q, U, Nobody)
    <2>1. G \ {} = G /\ U \ {} = U
      OBVIOUS
    <2>2. QED
      BY <2>1 DEF Fine
  <1>2. SameButBlocks(q, t) /\ t.blocks = B
    <2>1. B \in SUBSET BlockRec /\ t = [q EXCEPT !.blocks = B]
      BY <1>0, <1>1, PoolFields
    <2> HIDE DEF B
    <2>2. QED
      BY <1>1, <2>1, WithBlocks
  <1>3. /\ t \in Pool /\ t.mSize = q.mSize /\ t.mPrevSize = q.mPrevSize /\ t.mAreas = q.mAreas
        /\ t.mBins = q.mBins /\ t.mBinBlocks = q.mBinBlocks
    BY <1>2 DEF SameButBlocks
  <1>4. Laid(t) /\ FreeChunks(t) = G /\ UsedChunks(t) = U
    BY <1>1, <1>3, SameLaid
  <1>5. \A d : ChunkSize(t, d) = ChunkSize(q, d)
    BY <1>3 DEF ChunkSize
  <1>6. c \in U /\ \A a \in q.blocks : a.at = c => a = b
    <2>1. b.at # Nobody
      BY <1>1, PoolFields DEF BlockRec, Nobody
    <2>2. QED
      BY <1>1, <2>1 DEF Held
  <1>7. Held(t, U \ {c}, Nobody)
    <2>1. \A a \in t.blocks : a \in q.blocks /\ a.at # c
      BY <1>2, <1>6
    <2>2. \A a \in q.blocks : a.at # c => a \in t.blocks
      BY <1>2
    <2>3. QED
      BY <1>1, <1>5, <2>1, <2>2 DEF Held
  <1>8. Bins(t, G)
    BY <1>1, <1>3, <1>5, BinsFrame
  <1>9. G \ {c} = G
    BY <1>6 DEF FreeChunks, UsedChunks
  <1>10. QED
    BY <1>3, <1>4, <1>6, <1>7, <1>8, <1>9 DEF Fine

\* Free gives the chunk of a block back.
LEMMA FreeBlockIs ==
    ASSUME NEW q, Fine(q, {}, Nobody), NEW b \in q.blocks,
           NEW r, r = FreeChunk([q EXCEPT !.blocks = @ \ {b}], b.at)
    PROVE  Fine(r, {}, Nobody)
  <1> DEFINE c == b.at
             t == [q EXCEPT !.blocks = @ \ {b}]
             K == {c}
  <1>1. Fine(t, K, Nobody) /\ c \in UsedChunks(t)
    BY ReleasedIs
  <1>2. K \subseteq UsedChunks(t) /\ c \in K /\ K \ {c} = {}
    BY <1>1
  <1>3. r = FreeChunk(t, c)
    OBVIOUS
  <1> HIDE DEF c, t, K
  <1>4. Freed(t, r, c, K, Nobody)
    BY <1>1, <1>2, <1>3, FreeChunkIs
  <1>5. QED
    BY <1>2, <1>4 DEF Freed

\* Realloc makes a block larger or smaller, here or elsewhere.
LEMMA ReallocBlockIs ==
    ASSUME NEW q, Fine(q, {}, Nobody), sizes \in Pools, NEW b \in q.blocks, NEW n \in Request,
           NEW w, w = [b EXCEPT !.len = IF n < @ THEN n ELSE @],
           NEW r
    PROVE  r = ReallocChunk(Update(q, b.at, w), b.at, n) =>
           Fine(r, {}, Nobody)
  <1>0. SUFFICES ASSUME r = ReallocChunk(Update(q, b.at, w), b.at, n)
        PROVE  Fine(r, {}, Nobody)
    OBVIOUS
  <1> DEFINE c == b.at
             t == Update(q, c, w)
  <1>1. n \in Nat
    BY PoolAssumption, MinSize
  <1>2. Wanted(t, c, w, n)
    BY <1>1, WantedIs
  <1>3. r = ReallocChunk(t, c, n)
    BY <1>0
  <1> HIDE DEF c, t
  <1>4. QED
    BY <1>2, <1>3, ReallocIs

\* InitAlloc: no area at all, or one that is one free chunk.
LEMMA InitAllocIs ==
    ASSUME NEW s \in Pools, NEW r, r = InitAlloc(s)
    PROVE  Fine(r, {}, Nobody)
  <1> DEFINE c == Malloc(EmptyPool)
             t == NewArea(EmptyPool, c, s.init)
  <1>1. Fine(EmptyPool, {}, Nobody) /\ c \in Vacant(EmptyPool)
    BY EmptyIsFine
  <1>2. CASE s.init = 0
    BY <1>1, <1>2 DEF InitAlloc
  <1>3. CASE s.init # 0
    <2>1. s.init \in 2 .. MaxSize
      BY <1>3, PoolAssumption, MinSize
    <2>2. r = LinkFree(t, c) /\ t = NewArea(EmptyPool, c, s.init)
      BY <1>3 DEF InitAlloc
    <2> HIDE DEF c, t
    <2>3. HasArea(EmptyPool, t, c, s.init, Nobody)
      BY <1>1, <2>1, <2>2, NewAreaIs
    <2> DEFINE K == {c}
    <2>4. Fine(t, K, Nobody) /\ c \in FreeChunks(t) /\ c \in K /\ K \ {c} = {}
      BY <2>3 DEF HasArea
    <2> HIDE DEF K
    <2>5. Fine(r, K \ {c}, Nobody)
      BY <2>2, <2>4, FineLinked
    <2>6. QED
      BY <2>4, <2>5
  <1>4. QED
    BY <1>2, <1>3

\* FreeAllInternal has all chunks in hand when it has emptied the bins.
LEMMA FreeAllInternalIs ==
    ASSUME NEW q, Fine(q, {}, Nobody), NEW r
    PROVE  r = InitBins([q EXCEPT !.blocks = {}]) =>
           Fine(r, InAreas(q.mAreas), Nobody) /\ SomeAreas(r, q.mAreas) /\ r.blocks = {}
  <1>0. SUFFICES ASSUME r = InitBins([q EXCEPT !.blocks = {}])
        PROVE  Fine(r, InAreas(q.mAreas), Nobody) /\ SomeAreas(r, q.mAreas) /\ r.blocks = {}
    OBVIOUS
  <1> DEFINE L == InAreas(q.mAreas)
  <1>1. q \in Pool /\ Laid(q)
    BY DEF Fine
  <1>2. DOMAIN Nothing = {}
    BY DEF Nothing
  <1>3. /\ r \in Pool /\ r.mSize = q.mSize /\ r.mPrevSize = q.mPrevSize /\ r.mAreas = q.mAreas
        /\ r.mBins = Nothing /\ r.mBinBlocks = {} /\ r.blocks = {}
    <2> DEFINE WW == UNION {Words(D) : D \in SUBSET Nat}
               BB == UNION {[I -> Seq(Nat)] : I \in SUBSET Nat}
    <2>1. Nothing \in [{} -> Seq(Nat)] /\ {} \in SUBSET Nat
      BY DEF Nothing
    <2>2. Nothing \in BB
      BY <2>1
    <2>3. q \in [mSize : WW, mPrevSize : WW, mBins : BB, mBinBlocks : SUBSET Nat,
                 mAreas : Seq(AreaRec), blocks : SUBSET BlockRec]
      BY <1>1 DEF Pool
    <2> HIDE DEF WW, BB
    <2>4. r = [[q EXCEPT !.blocks = {}] EXCEPT !.mBins = Nothing, !.mBinBlocks = {}]
      BY <1>0 DEF InitBins
    <2>5. /\ r \in [mSize : WW, mPrevSize : WW, mBins : BB, mBinBlocks : SUBSET Nat,
                    mAreas : Seq(AreaRec), blocks : SUBSET BlockRec]
          /\ r.mSize = q.mSize /\ r.mPrevSize = q.mPrevSize /\ r.mAreas = q.mAreas
          /\ r.mBins = Nothing /\ r.mBinBlocks = {} /\ r.blocks = {}
      BY <2>2, <2>3, <2>4
    <2>6. QED
      BY <2>5 DEF Pool, WW, BB
  <1>4. Laid(r) /\ Areas(r) = Areas(q) /\ Chunks(r) = Chunks(q)
    BY <1>1, <1>3, SameLaid
  <1>5. \A c \in Chunks(q) : c \in L
    <2> SUFFICES ASSUME NEW c \in Chunks(q) PROVE c \in L
      OBVIOUS
    <2>1. c \in Nat /\ c \in DOMAIN q.mSize
      BY <1>1, ChunkPlace
    <2>2. PICK a \in Areas(q) : a.at <= c /\ c <= a.at + a.size
      BY <1>1, <2>1 DEF Laid, Spaced
    <2>3. QED
      BY <2>1, <2>2 DEF Areas, InAreas
  <1>6. FreeChunks(r) \ L = {} /\ UsedChunks(r) \ L = {}
    BY <1>4, <1>5 DEF FreeChunks, UsedChunks
  <1>7. Bins(r, {}) /\ Held(r, {}, Nobody)
    BY <1>2, <1>3 DEF Bins, Held
  <1>8. Fine(r, L, Nobody)
    BY <1>3, <1>4, <1>6, <1>7 DEF Fine
  <1>9. SomeAreas(r, q.mAreas)
    <2>1. q.mAreas \in Seq(AreaRec)
      BY <1>1, PoolFields
    <2>2. \A j \in DOMAIN q.mAreas : q.mAreas[j] \in Areas(r)
      BY <1>4 DEF Areas
    <2>3. \A j, k \in DOMAIN q.mAreas : q.mAreas[k] = q.mAreas[j] => k = j
      BY <1>1 DEF Laid, Spaced
    <2>4. QED
      BY <2>1, <2>2, <2>3 DEF SomeAreas
  <1>10. QED
    BY <1>3, <1>8, <1>9

\* The ends of areas are marked already.
LEMMA MarkedAlready ==
    ASSUME NEW q \in Pool, Laid(q), NEW a \in Areas(q)
    PROVE  SetNeighborsInUse(q, a.at, a.size) = q
  <1> DEFINE c == a.at
             e == a.at + a.size
             WW == UNION {Words(D) : D \in SUBSET Nat}
             BB == UNION {[I -> Seq(Nat)] : I \in SUBSET Nat}
  <1>1. /\ c \in DOMAIN q.mSize /\ e \in DOMAIN q.mSize /\ DOMAIN q.mPrevSize = DOMAIN q.mSize
        /\ q.mPrevSize[c] = kChunkInUse /\ q.mSize[e] = kChunkInUse
    BY AreaPlace DEF Laid, Tiled
  <1> HIDE DEF c, e
  <1>2. Except(q.mPrevSize, c, kChunkInUse) = q.mPrevSize
    <2>1. q.mPrevSize \in [DOMAIN q.mPrevSize -> WordRec]
      BY PoolFields DEF Words
    <2>2. QED
      BY <1>1, <2>1 DEF Except
  <1>3. Except(q.mSize, e, kChunkInUse) = q.mSize
    <2>1. q.mSize \in [DOMAIN q.mSize -> WordRec]
      BY PoolFields DEF Words
    <2>2. QED
      BY <1>1, <2>1 DEF Except
  <1>4. SetNeighborsInUse(q, a.at, a.size) = [q EXCEPT !.mPrevSize = q.mPrevSize, !.mSize = q.mSize]
    BY <1>2, <1>3 DEF SetNeighborsInUse, c, e
  <1>5. q \in [mSize : WW, mPrevSize : WW, mBins : BB, mBinBlocks : SUBSET Nat,
               mAreas : Seq(AreaRec), blocks : SUBSET BlockRec]
    BY DEF Pool
  <1> HIDE DEF WW, BB
  <1>6. QED
    BY <1>4, <1>5

\* An area is a stretch whose ends are marked.
LEMMA AreaStretch ==
    ASSUME NEW q \in Pool, Laid(q), NEW a \in Areas(q), NEW c, c = a.at, NEW e, e = a.at + a.size
    PROVE  Stretch(q, c, e) /\ PrevInUse(q, c) /\ InUse(q, e) /\ c \in Nat /\ e \in Nat /\ e >= c + 2
  <1>1. /\ c \in Nat /\ a.size \in Nat /\ a.size >= 2 /\ c \in Chunks(q) /\ e \in DOMAIN q.mSize
        /\ q.mPrevSize[c] = kChunkInUse /\ q.mSize[e] = kChunkInUse
    BY AreaPlace
  <1>2. PrevInUse(q, c) /\ InUse(q, e)
    BY <1>1 DEF PrevInUse, InUse, kChunkInUse, Word
  <1>3. ASSUME NEW x \in Ends(q) PROVE ~(c < x /\ x < e)
    <2>1. PICK b \in Areas(q) : x = b.at + b.size
      BY DEF Ends
    <2>2. b.at \in Nat /\ b.size \in Nat
      BY PoolAreas
    <2>3. CASE b = a
      BY <1>1, <2>1, <2>3
    <2>4. CASE b # a
      <3>1. a.at + a.size < b.at \/ b.at + b.size < a.at
        BY <2>4, AreasApart DEF Laid
      <3>2. QED
        BY <1>1, <2>1, <2>2, <3>1
    <2>5. QED
      BY <2>3, <2>4
  <1>4. QED
    BY <1>1, <1>2, <1>3 DEF Stretch

\* The areas that are left are all somewhere else.
LEMMA AreasLeft ==
    ASSUME NEW q \in Pool, Laid(q), NEW s, SomeAreas(q, s), s # <<>>, NEW c, c = s[1].at,
           NEW e, e = s[1].at + s[1].size
    PROVE  /\ s[1] \in Areas(q) /\ Tail(s) \in Seq(AreaRec)
           /\ \A j \in DOMAIN Tail(s) : Tail(s)[j] \in Areas(q) /\ \A k \in DOMAIN Tail(s) : Tail(s)[k] = Tail(s)[j] => k = j
           /\ \A d \in InAreas(Tail(s)) : d \in InAreas(s) /\ (d < c \/ d > e)
           /\ \A d \in InAreas(s) : d \in InAreas(Tail(s)) \/ (c <= d /\ d <= e)
           /\ \A d \in Nat : c <= d /\ d <= e => d \in InAreas(s)
  <1> DEFINE t == Tail(s)
  <1>1. s \in Seq(AreaRec) /\ s # <<>>
    BY DEF SomeAreas
  <1>2. Len(s) \in Nat /\ Len(s) >= 1 /\ DOMAIN s = 1 .. Len(s)
    BY <1>1, EmptySeq
  <1>3. /\ t \in Seq(AreaRec) /\ DOMAIN t = 1 .. Len(s) - 1
        /\ \A j \in DOMAIN t : t[j] = s[j + 1]
    BY <1>1, <1>2, HeadTailProperties
  <1>4. \A j \in DOMAIN s : s[j] \in Areas(q) /\ \A k \in DOMAIN s : s[k] = s[j] => k = j
    BY DEF SomeAreas
  <1>5. 1 \in DOMAIN s /\ \A j \in DOMAIN t : j + 1 \in DOMAIN s /\ j + 1 # 1 /\ j \in Nat
    BY <1>2, <1>3
  <1> HIDE DEF t
  <1>6. \A j \in DOMAIN t : t[j] \in Areas(q) /\ t[j] # s[1] /\ \A k \in DOMAIN t : t[k] = t[j] => k = j
    <2> SUFFICES ASSUME NEW j \in DOMAIN t
                 PROVE  t[j] \in Areas(q) /\ t[j] # s[1] /\ \A k \in DOMAIN t : t[k] = t[j] => k = j
      OBVIOUS
    <2>1. t[j] = s[j + 1] /\ j + 1 \in DOMAIN s /\ j + 1 # 1
      BY <1>3, <1>5
    <2>2. ASSUME NEW k \in DOMAIN t, t[k] = t[j] PROVE k = j
      <3>1. s[k + 1] = s[j + 1] /\ k + 1 \in DOMAIN s /\ k \in Nat /\ j \in Nat
        BY <1>3, <1>5, <2>2
      <3>2. k + 1 = j + 1
        BY <1>4, <2>1, <3>1
      <3>3. QED
        BY <3>1, <3>2
    <2>3. QED
      BY <1>4, <1>5, <2>1, <2>2
  <1>7. s[1] \in Areas(q) /\ c \in Nat /\ e \in Nat /\ s[1].size \in Nat
    BY <1>4, <1>5, PoolAreas
  <1>8. ASSUME NEW d \in InAreas(t) PROVE d \in InAreas(s) /\ (d < c \/ d > e)
    <2>1. PICK j \in DOMAIN t : d \in Nat /\ t[j].at <= d /\ d <= t[j].at + t[j].size
      BY DEF InAreas
    <2>2. d \in InAreas(s)
      BY <1>3, <1>5, <2>1 DEF InAreas
    <2>3. t[j].at + t[j].size < c \/ e < t[j].at
      BY <1>6, <1>7, AreasApart DEF Laid
    <2>4. t[j].at \in Nat /\ t[j].size \in Nat
      BY <1>6, PoolAreas
    <2>5. QED
      BY <1>7, <2>1, <2>2, <2>3, <2>4
  <1>9. ASSUME NEW d \in InAreas(s) PROVE d \in InAreas(t) \/ (c <= d /\ d <= e)
    <2>1. PICK j \in DOMAIN s : d \in Nat /\ s[j].at <= d /\ d <= s[j].at + s[j].size
      BY DEF InAreas
    <2>2. CASE j = 1
      BY <2>1, <2>2
    <2>3. CASE j # 1
      <3>1. j - 1 \in DOMAIN t /\ j - 1 + 1 = j
        BY <1>2, <1>3, <2>3
      <3>2. t[j - 1] = s[j]
        BY <1>3, <3>1
      <3>3. QED
        BY <2>1, <3>1, <3>2 DEF InAreas
    <2>4. QED
      BY <2>2, <2>3
  <1>10. \A d \in Nat : c <= d /\ d <= e => d \in InAreas(s)
    BY <1>5 DEF InAreas
  <1>11. QED
    BY <1>3, <1>6, <1>7, <1>8, <1>9, <1>10 DEF t

\* FreeAllInternal makes an area one free chunk and puts it into its bin.
LEMMA FreeAllAreaIs ==
    ASSUME NEW q, NEW s, Fine(q, InAreas(s), Nobody), SomeAreas(q, s), s # <<>>, q.blocks = {},
           NEW c, c = s[1].at, NEW n, n = s[1].size,
           NEW r
    PROVE  r = LinkFree(SetNeighborsInUse(SetSizeFree(q, c, n), c, n), c) =>
           Fine(r, InAreas(Tail(s)), Nobody) /\ SomeAreas(r, Tail(s)) /\ r.blocks = {}
  <1>0. SUFFICES ASSUME r = LinkFree(SetNeighborsInUse(SetSizeFree(q, c, n), c, n), c)
        PROVE  Fine(r, InAreas(Tail(s)), Nobody) /\ SomeAreas(r, Tail(s)) /\ r.blocks = {}
    OBVIOUS
  <1> DEFINE e == c + n
             L == InAreas(s)
             K == InAreas(Tail(s))
             M == K \cup {c}
             F == FreeChunks(q) \ L
             w == Word(n, FALSE)
             u == SetSize(q, c, n, w)
  <1>1. q \in Pool /\ Laid(q) /\ Bins(q, F) /\ Held(q, UsedChunks(q) \ L, Nobody)
    BY DEF Fine
  <1>2. /\ s[1] \in Areas(q) /\ Tail(s) \in Seq(AreaRec)
        /\ \A j \in DOMAIN Tail(s) : Tail(s)[j] \in Areas(q) /\ \A k \in DOMAIN Tail(s) : Tail(s)[k] = Tail(s)[j] => k = j
        /\ \A d \in K : d \in L /\ (d < c \/ d > e)
        /\ \A d \in L : d \in K \/ (c <= d /\ d <= e)
        /\ \A d \in Nat : c <= d /\ d <= e => d \in L
    BY <1>1, AreasLeft
  <1>3. Stretch(q, c, e) /\ PrevInUse(q, c) /\ InUse(q, e) /\ c \in Nat /\ e \in Nat /\ e >= c + 2
    BY <1>1, <1>2, AreaStretch
  <1>4. n \in Nat /\ n = e - c /\ n >= 2 /\ e \in Ends(q)
    <2>1. n \in Nat
      BY <1>1, <1>2, PoolAreas
    <2>2. QED
      BY <1>2, <1>3, <2>1 DEF Ends
  <1>5. r = LinkFree(SetNeighborsInUse(u, c, n), c) /\ u = SetSize(q, c, n, Word(n, FALSE))
    BY <1>0 DEF SetSizeFree
  <1>6. \A d \in Chunks(q) : d \in Nat
    BY <1>1, ChunkPlace
  <1>7. \A d \in F : d \in Chunks(q) /\ (d < c \/ d >= e)
    BY <1>2, <1>3, <1>6 DEF FreeChunks
  <1>8. M \ {c} = K
    BY <1>2, <1>3
  <1>9. \A d : d \in M <=> d \in K \/ d = c
    OBVIOUS
  <1> HIDE DEF e, u, F, L, K, M
  <1>10. OneChunk(q, u, c, e, FALSE, F)
    BY <1>1, <1>3, <1>4, <1>5, <1>7, SetSizeMerges DEF SameHeads
  <1>11. /\ Relaid(q, u, c, e, {}) /\ ~InUse(u, c) /\ Bins(u, F) /\ u.blocks = Clobber(q.blocks, {c, e})
    BY <1>10 DEF OneChunk
  <1>12. u.blocks = {}
    BY <1>11 DEF Clobber
  <1>13. u \in Pool /\ Laid(u) /\ Areas(u) = Areas(q)
    BY <1>11 DEF Relaid
  <1>14. /\ c \in Chunks(u)
         /\ \A d : d # c => /\ d \in FreeChunks(u) <=> d \in FreeChunks(q) /\ (d < c \/ d >= e)
                            /\ d \in UsedChunks(u) <=> d \in UsedChunks(q) /\ (d < c \/ d >= e)
    <2>1. c \in Chunks(q) /\ c < e
      BY <1>3 DEF Stretch
    <2>2. QED
      BY <1>3, <1>6, <1>11, <2>1, RelaidChunks, SMTT(40)
  <1>15. c \in FreeChunks(u) /\ c \notin UsedChunks(u)
    BY <1>11, <1>14 DEF FreeChunks, UsedChunks
  <1>16. \A d \in Chunks(q) : d \in L <=> d \in K \/ (c <= d /\ d < e)
    BY <1>2, <1>3, <1>4, <1>6 DEF Chunks
  <1>17. FreeChunks(u) \ M = F
    <2>1. ASSUME NEW d PROVE d \in FreeChunks(u) \ M <=> d \in F
      <3>1. CASE d = c
        BY <1>7, <1>9, <1>3, <3>1
      <3>2. CASE d # c
        <4>1. d \in FreeChunks(u) \ M <=> d \in FreeChunks(q) /\ (d < c \/ d >= e) /\ d \notin K
          BY <1>9, <1>14, <3>2
        <4>2. d \in FreeChunks(q) => d \in Chunks(q) /\ d \in Nat
          BY <1>6 DEF FreeChunks
        <4>3. d \in FreeChunks(q) => ((d < c \/ d >= e) /\ d \notin K <=> d \notin L)
          BY <1>3, <1>16, <4>2
        <4>4. QED
          BY <4>1, <4>3 DEF F
      <3>3. QED
        BY <3>1, <3>2
    <2>2. QED
      BY <2>1
  <1>18. UsedChunks(u) \ M = {}
    <2>1. \A d \in UsedChunks(q) : d \in L /\ d \in Chunks(q) /\ d \in Nat
      BY <1>1, <1>6 DEF Held, UsedChunks
    <2>2. ASSUME NEW d \in UsedChunks(u), d \notin M PROVE FALSE
      <3>1. d # c /\ d \notin K
        BY <1>9, <2>2
      <3>2. d \in UsedChunks(q) /\ (d < c \/ d >= e)
        BY <1>14, <2>2, <3>1
      <3>3. QED
        BY <1>3, <1>16, <2>1, <3>1, <3>2
    <2>3. QED
      BY <2>2
  <1>19. Fine(u, M, Nobody)
    <2>1. Held(u, {}, Nobody)
      BY <1>12 DEF Held
    <2>2. QED
      BY <1>11, <1>13, <1>17, <1>18, <2>1 DEF Fine
  <1>20. r = LinkFree(u, c)
    BY <1>2, <1>5, <1>13, MarkedAlready
  <1>21. Fine(r, M \ {c}, Nobody) /\ SameHeads(u, r)
    BY <1>9, <1>15, <1>19, <1>20, FineLinked
  <1>22. Areas(r) = Areas(q) /\ r.blocks = {}
    BY <1>12, <1>13, <1>21, SameLaid DEF SameHeads
  <1>23. QED
    BY <1>2, <1>8, <1>21, <1>22 DEF SomeAreas, K
-----------------------------------------------------------------------------
(* The invariant and what follows from it. *)

LEMMA NothingLeft ==
    ASSUME todo = <<>>
    PROVE  InAreas(todo) = {} /\ \A q : SomeAreas(q, todo)
  <1>1. DOMAIN todo = {} /\ todo \in Seq(AreaRec)
    OBVIOUS
  <1>2. QED
    BY <1>1 DEF InAreas, SomeAreas

\* Between operations nothing is in hand.
LEMMA AtRest ==
    ASSUME PoolInv, todo = <<>>
    PROVE  sizes \in Pools /\ Fine(p, {}, Nobody)
  BY NothingLeft DEF PoolInv

LEMMA RestAgain ==
    ASSUME PoolInv, todo = <<>>, UNCHANGED <<sizes, todo>>, Fine(p', {}, Nobody)
    PROVE  PoolInv'
  <1>1. todo' = <<>> /\ sizes' \in Pools
    BY DEF PoolInv
  <1>2. InAreas(todo') = {} /\ SomeAreas(p', todo')
    BY NothingLeft
  <1>3. QED
    BY <1>1, <1>2 DEF PoolInv

LEMMA PoolInvInit ==
    ASSUME PoolInit
    PROVE  PoolInv
  <1>1. sizes \in Pools /\ p = InitAlloc(sizes) /\ todo = <<>>
    BY DEF PoolInit
  <1>2. Fine(p, {}, Nobody)
    BY <1>1, InitAllocIs
  <1>3. QED
    BY <1>1, <1>2, NothingLeft DEF PoolInv

LEMMA PoolInvNext ==
    ASSUME PoolInv, [PoolNext]_poolVars
    PROVE  PoolInv'
  <1>1. ASSUME NEW n \in Request, AllocBlock(n) PROVE PoolInv'
    <2> DEFINE r == AllocChunk(p, n)
    <2>1. /\ todo = <<>> /\ r.chunk # None /\ UNCHANGED <<sizes, todo>>
          /\ p' = [r.pool EXCEPT !.blocks = @ \cup {Block(r.chunk, n)}]
      BY <1>1 DEF AllocBlock
    <2>2. r = AllocChunk(p, n)
      OBVIOUS
    <2> HIDE DEF r
    <2>3. Fine(p', {}, Nobody)
      BY <2>1, <2>2, AtRest, AllocBlockIs
    <2>4. QED
      BY <2>1, <2>3, RestAgain
  <1>2. ASSUME NEW b \in p.blocks, FreeBlock(b) PROVE PoolInv'
    <2>1. todo = <<>> /\ UNCHANGED <<sizes, todo>> /\ p' = FreeChunk([p EXCEPT !.blocks = @ \ {b}], b.at)
      BY <1>2 DEF FreeBlock
    <2>2. Fine(p', {}, Nobody)
      BY <2>1, AtRest, FreeBlockIs
    <2>3. QED
      BY <2>1, <2>2, RestAgain
  <1>3. ASSUME NEW b \in p.blocks, NEW n \in Request, ReallocBlock(b, n) PROVE PoolInv'
    <2> DEFINE w == [b EXCEPT !.len = IF n < @ THEN n ELSE @]
    <2>1. todo = <<>> /\ UNCHANGED <<sizes, todo>> /\ p' = ReallocChunk(Update(p, b.at, w), b.at, n)
      BY <1>3 DEF ReallocBlock
    <2>2. Fine(p', {}, Nobody)
      BY <2>1, AtRest, ReallocBlockIs
    <2>3. QED
      BY <2>1, <2>2, RestAgain
  <1>4. ASSUME FreeAllInternal PROVE PoolInv'
    <2>1. todo = <<>> /\ p' = InitBins([p EXCEPT !.blocks = {}]) /\ todo' = p.mAreas /\ sizes' = sizes
      BY <1>4 DEF FreeAllInternal
    <2>2. Fine(p', InAreas(todo'), Nobody) /\ SomeAreas(p', todo') /\ p'.blocks = {}
      BY <2>1, AtRest, FreeAllInternalIs
    <2>3. QED
      BY <2>1, <2>2 DEF PoolInv
  <1>5. ASSUME FreeAllArea PROVE PoolInv'
    <2> DEFINE c == todo[1].at
               n == todo[1].size
    <2>1. /\ todo # <<>> /\ todo' = Tail(todo) /\ sizes' = sizes
          /\ p' = LinkFree(SetNeighborsInUse(SetSizeFree(p, c, n), c, n), c)
      BY <1>5 DEF FreeAllArea
    <2>2. Fine(p, InAreas(todo), Nobody) /\ SomeAreas(p, todo) /\ p.blocks = {}
      BY <2>1 DEF PoolInv
    <2>3. Fine(p', InAreas(Tail(todo)), Nobody) /\ SomeAreas(p', Tail(todo)) /\ p'.blocks = {}
      BY <2>1, <2>2, FreeAllAreaIs
    <2>4. QED
      BY <2>1, <2>3 DEF PoolInv
  <1>6. ASSUME FreeAll PROVE PoolInv'
    <2>1. todo = <<>> /\ p' = EmptyPool /\ UNCHANGED <<sizes, todo>>
      BY <1>6 DEF FreeAll
    <2>2. QED
      BY <2>1, EmptyIsFine, RestAgain
  <1>7. ASSUME Reinit PROVE PoolInv'
    <2>1. todo = <<>> /\ p' = InitAlloc(sizes) /\ UNCHANGED <<sizes, todo>>
      BY <1>7 DEF Reinit
    <2>2. Fine(p', {}, Nobody)
      BY <2>1, AtRest, InitAllocIs
    <2>3. QED
      BY <2>1, <2>2, RestAgain
  <1>8. CASE UNCHANGED poolVars
    BY <1>8 DEF poolVars, PoolInv
  <1>9. QED
    BY <1>1, <1>2, <1>3, <1>4, <1>5, <1>6, <1>7, <1>8 DEF PoolNext

\* Whatever its users do, the pool's invariant holds.
THEOREM PoolInvariant == PoolSpec => []PoolInv
  <1>1. PoolInit => PoolInv
    BY PoolInvInit
  <1>2. PoolInv /\ [PoolNext]_poolVars => PoolInv'
    BY PoolInvNext
  <1>3. QED
    BY <1>1, <1>2, PTL DEF PoolSpec

LEMMA FineIsSound ==
    ASSUME NEW q, Fine(q, {}, Nobody)
    PROVE  Tiled(q) /\ Binned(q)
  <1>1. q \in Pool /\ Tiled(q) /\ Bins(q, FreeChunks(q))
    <2>1. FreeChunks(q) \ {} = FreeChunks(q)
      OBVIOUS
    <2>2. QED
      BY <2>1 DEF Fine, Laid
  <1>2. \A i \in DOMAIN q.mBins : \A j \in DOMAIN q.mBins[i] :
          /\ q.mBins[i][j] \in FreeChunks(q)
          /\ BinIndex(ChunkSize(q, q.mBins[i][j])) = i
          /\ \A k \in DOMAIN q.mBins[i] : q.mBins[i][k] = q.mBins[i][j] => k = j
    BY <1>1 DEF Bins, OneBin
  <1>3. \A c \in FreeChunks(q) : \E j \in DOMAIN Bin(q, BinIndex(ChunkSize(q, c))) :
           Bin(q, BinIndex(ChunkSize(q, c)))[j] = c
    BY <1>1 DEF Bins, Bin
  <1>4. q.mBinBlocks = DOMAIN q.mBins
    BY <1>1 DEF Bins
  <1>5. QED
    BY <1>1, <1>2, <1>3, <1>4 DEF Binned

\* After every operation (Alloc, Free, Realloc, FreeAll, FreeAllInternal, Reinit)
\* what DoCheckArea, DoCheckChunk and DoCheckBin assert of the pool is true: the
\* two words of a size agree, free chunks are merged, and the bins hold the free
\* chunks and no other.
THEOREM PoolStaysSound == PoolSpec => []PoolSound
  <1>1. PoolInv => PoolSound
    BY AtRest, FineIsSound DEF PoolSound
  <1>2. QED
    BY <1>1, PoolInvariant, PTL

\* Alloc's search through the bins and their bits (NextFullBin) finds a chunk
\* whenever one is large enough, and of these a smallest.
THEOREM AllocFindsBest == PoolSpec => []BestFit
  <1>1. ASSUME PoolInv PROVE BestFit
    <2> SUFFICES ASSUME todo = <<>>, NEW n \in Request
                 PROVE  LET fits == {c \in FreeChunks(p) : ChunkSize(p, c) >= n}
                        IN  IF fits = {} THEN Search(p, n) = None
                            ELSE /\ Search(p, n) \in fits
                                 /\ \A c \in fits : ChunkSize(p, Search(p, n)) <= ChunkSize(p, c)
      BY DEF BestFit
    <2> DEFINE F == FreeChunks(p)
               m == Search(p, n)
    <2>1. p \in Pool /\ Laid(p) /\ Bins(p, F)
      <3>1. F \ {} = F
        OBVIOUS
      <3>2. QED
        BY <1>1, <3>1, AtRest DEF Fine
    <2>2. \A f \in F : f # None /\ ChunkSize(p, f) \in Nat
      BY <2>1, FreeChunkPlaces
    <2>3. n \in Nat /\ m = Search(p, n)
      BY PoolAssumption, MinSize
    <2> HIDE DEF F, m
    <2>4. Found(p, F, n, m)
      BY <2>1, <2>2, <2>3, SearchIs
    <2>5. CASE m = None
      BY <2>3, <2>4, <2>5 DEF Found, NoneFits, F
    <2>6. CASE m # None
      BY <2>3, <2>4, <2>6 DEF Found, Best, F
    <2>7. QED
      BY <2>5, <2>6
  <1>2. QED
    BY <1>1, PoolInvariant, PTL

\* Every block that Alloc or Realloc gave out has a chunk of its own, of the size
\* that was asked for, and no operation on another block, nor one on its own that
\* does not move it back, writes into its contents.
THEOREM BlocksStayIntact == PoolSpec => []Intact
  <1>1. ASSUME PoolInv PROVE Intact
    <2> SUFFICES ASSUME todo = <<>>
                 PROVE  /\ \A b \in p.blocks :
                              /\ b.at \in Chunks(p) /\ InUse(p, b.at)
                              /\ ChunkSize(p, b.at) - b.len \in 0 .. kMinAllocSize - 1
                              /\ b.kept \/ b.back
                        /\ \A c \in Chunks(p) \ FreeChunks(p) : Cardinality({b \in p.blocks : b.at = c}) = 1
      BY DEF Intact
    <2>1. p \in Pool /\ Held(p, UsedChunks(p), Nobody)
      <3>1. UsedChunks(p) \ {} = UsedChunks(p)
        OBVIOUS
      <3>2. QED
        BY <1>1, <3>1, AtRest DEF Fine
    <2>2. \A b \in p.blocks : b.at # Nobody
      BY <2>1, PoolFields DEF BlockRec, Nobody
    <2>3. ASSUME NEW b \in p.blocks
          PROVE  /\ b.at \in Chunks(p) /\ InUse(p, b.at)
                 /\ ChunkSize(p, b.at) - b.len \in 0 .. kMinAllocSize - 1
                 /\ b.kept \/ b.back
      BY <2>1, <2>2 DEF Held, UsedChunks
    <2>4. ASSUME NEW c \in Chunks(p) \ FreeChunks(p) PROVE Cardinality({b \in p.blocks : b.at = c}) = 1
      <3>1. c \in UsedChunks(p)
        BY DEF FreeChunks, UsedChunks
      <3>2. PICK b \in p.blocks : b.at = c
        BY <2>1, <3>1 DEF Held
      <3>3. {d \in p.blocks : d.at = c} = {b}
        BY <2>1, <3>2 DEF Held
      <3>4. QED
        BY <3>3, FS_Singleton
    <2>5. QED
      BY <2>3, <2>4
  <1>2. QED
    BY <1>1, PoolInvariant, PTL
=============================================================================
