----------------------------- MODULE AllocPool -----------------------------
(***************************************************************************)
(* The memory pool of scsynth's audio thread and of sclang (AllocPool in   *)
(* SC_AllocPool.cpp and SC_AllocPool.h).                                   *)
(*                                                                         *)
(* An area is tiled with chunks.  A chunk has its size and the bit InUse   *)
(* in front, and the same word once more where the next chunk begins, so   *)
(* that both neighbours can be reached.  Free chunks hang in bins by their *)
(* size, and a bit per bin tells which of them are not empty.              *)
(*                                                                         *)
(* All sizes and addresses count units of kAlign = 64 bytes, to which      *)
(* RequestToSize rounds up; the header and a half unit of data share the   *)
(* first unit of a chunk.  A pool is one record and operations return the  *)
(* record that they leave.  Headers are known where chunks begin and       *)
(* nowhere else: what is inside of a chunk is its owner's data, or stale.  *)
(***************************************************************************)
EXTENDS Integers, Sequences, FiniteSets

CONSTANTS
    Request,      \* the sizes that are asked for, as RequestToSize gives them
    Pools,        \* the pools there are: [init, more], mAreaInitSize and mAreaMoreSize
    Places,       \* where malloc puts areas; more of them it refuses
    MaxSize,      \* bound on the size of areas, so that they have room there
    MaxBlocks     \* bound on the blocks in use

VARIABLES
    sizes,        \* the pool's mAreaInitSize and mAreaMoreSize, the same all the time
    p,            \* the rest of it, and the blocks that its users hold
    todo          \* the areas that FreeAllInternal, when under way, has still to go to

poolVars == <<sizes, p, todo>>

kMinAllocSize == 2
None == 0

\* A request of the whole of a new area, or one unit less, makes a remainder that
\* is no chunk; these are left out.
ASSUME PoolAssumption ==
    /\ MaxSize \in Nat /\ Places # {} /\ Places \subseteq Nat \ {None}
    /\ \A a, b \in Places : a < b => a + MaxSize < b
    /\ Request \subseteq kMinAllocSize .. MaxSize
    /\ Pools \subseteq [init : {0} \cup kMinAllocSize .. MaxSize,
                       more : {0} \cup kMinAllocSize .. MaxSize]
    /\ \A s \in Pools, n \in Request :
          n \notin IF s.more = 0 THEN {s.init, s.init - 1} ELSE {s.more, s.more - 1}

\* BinIndex: a bin per 16 bytes below 1024 bytes, then eight per octave; the
\* octaves are told apart by bits = 28 - CLZ.
kNumSmallBins == 64
BinIndex(n) ==
    IF n < 16 THEN 4 * n
    ELSE IF n < 32 THEN 8 * 7 + n \div 2
    ELSE IF n < 64 THEN 8 * 8 + n \div 4
    ELSE IF n < 128 THEN 8 * 9 + n \div 8
    ELSE IF n < 256 THEN 8 * 10 + n \div 16
    ELSE IF n < 512 THEN 8 * 11 + n \div 32
    ELSE IF n < 1024 THEN 8 * 12 + n \div 64
    ELSE IF n < 2048 THEN 8 * 13 + n \div 128
    ELSE IF n < 4096 THEN 8 * 14 + n \div 256
    ELSE 127

\* The word with a size and the bit kChunkInUse.
Word(n, inUse) == [size |-> n, inUse |-> inUse]
kChunkInUse == Word(0, TRUE)

ChunkSize(q, c) == q.mSize[c].size
PrevSize(q, c) == q.mPrevSize[c].size
InUse(q, c) == q.mSize[c].inUse
PrevInUse(q, c) == q.mPrevSize[c].inUse

Except(f, c, x) == [a \in DOMAIN f \cup {c} |-> IF a = c THEN x ELSE f[a]]
Without(f, S) == [a \in DOMAIN f \ S |-> f[a]]

\* Headers written where a user has data destroy it.
Clobber(blocks, written) ==
    {[b EXCEPT !.kept = @ /\ \A a \in written : ~(b.at < a /\ a < b.at + b.len)] : b \in blocks}

\* SetSizeFree and SetSizeInUse
SetSize(q, c, n, word) ==
    [q EXCEPT !.mSize = Except(Without(@, c + 1 .. c + n - 1), c, word),
              !.mPrevSize = Except(Without(@, c + 1 .. c + n - 1), c + n, word),
              !.blocks = Clobber(@, {c, c + n})]
SetSizeFree(q, c, n) == SetSize(q, c, n, Word(n, FALSE))
SetSizeInUse(q, c, n) == SetSize(q, c, n, Word(n, TRUE))

SetNeighborsInUse(q, c, n) ==
    [q EXCEPT !.mPrevSize = Except(@, c, kChunkInUse), !.mSize = Except(@, c + n, kChunkInUse)]
-----------------------------------------------------------------------------
(* Bins: a bin is the sequence of its chunks in the direction of Next. *)

Bin(q, i) == IF i \in DOMAIN q.mBins THEN q.mBins[i] ELSE <<>>
SetBin(q, i, s) == [q EXCEPT !.mBins = IF s = <<>> THEN Without(@, {i}) ELSE Except(@, i, s)]

\* Slip: chunks of a bin in the order in which they come.
LinkFreeUnsorted(q, c) ==
    LET i == BinIndex(ChunkSize(q, c))
    IN  [SetBin(q, i, <<c>> \o Bin(q, i)) EXCEPT !.mBinBlocks = @ \cup {i}]

\* The place in a bin before the first chunk that is not larger.
PlaceFor(q, bin, n) ==
    CHOOSE k \in 1 .. Len(bin) + 1 :
        /\ \A j \in 1 .. k - 1 : ChunkSize(q, bin[j]) > n
        /\ k <= Len(bin) => ChunkSize(q, bin[k]) <= n

\* LinkFree: small bins in the order of freeing, the others from large to small.
LinkFree(q, c) ==
    LET n == ChunkSize(q, c)
        i == BinIndex(n)
        bin == Bin(q, i)
        k == PlaceFor(q, bin, n)
    IN  IF i < kNumSmallBins \/ bin = <<>>
        THEN [SetBin(q, i, <<c>> \o bin) EXCEPT !.mBinBlocks = @ \cup {i}]
        ELSE SetBin(q, i, SubSeq(bin, 1, k - 1) \o <<c>> \o SubSeq(bin, k, Len(bin)))

\* UnlinkFree
UnlinkFree(q, c) ==
    LET i == BinIndex(ChunkSize(q, c))
        bin == Bin(q, i)
        k == CHOOSE k \in DOMAIN bin : bin[k] = c
        left == SubSeq(bin, 1, k - 1) \o SubSeq(bin, k + 1, Len(bin))
    IN  [SetBin(q, i, left) EXCEPT !.mBinBlocks = IF left = <<>> THEN @ \ {i} ELSE @]
-----------------------------------------------------------------------------
(* Areas: an area is where its first chunk is, and its size. *)

\* The places that malloc can give; NewArea throws when there is none.
Vacant(q) == Places \ {q.mAreas[j].at : j \in DOMAIN q.mAreas}
Malloc(q) == CHOOSE a \in Vacant(q) : TRUE

\* NewArea, in the place that malloc gives
NewArea(q, c, n) ==
    SetSizeFree(SetNeighborsInUse([q EXCEPT !.mAreas = <<[at |-> c, size |-> n]>> \o @], c, n), c, n)

\* FreeArea: the list begins behind it.
FreeArea(q, c) ==
    LET i == CHOOSE j \in DOMAIN q.mAreas : q.mAreas[j].at = c
        gone == c .. c + q.mAreas[i].size
    IN  [q EXCEPT !.mAreas = SubSeq(@, i + 1, Len(@)) \o SubSeq(@, 1, i - 1),
                  !.mSize = Without(@, gone), !.mPrevSize = Without(@, gone)]

Nothing == [a \in {} |-> None]
EmptyPool == [mSize |-> Nothing, mPrevSize |-> Nothing, mBins |-> Nothing, mBinBlocks |-> {},
              mAreas |-> <<>>, blocks |-> {}]

\* AllocPool::AllocPool, InitAlloc
InitAlloc(spec) ==
    IF spec.init = 0 THEN EmptyPool 
    ELSE LinkFree(NewArea(EmptyPool, Malloc(EmptyPool), spec.init), Malloc(EmptyPool))
-----------------------------------------------------------------------------
(* Free. *)

IsArea(q, c) ==
    q.mPrevSize[c] = kChunkInUse /\ q.mSize[c + ChunkSize(q, c)] = kChunkInUse

\* Slip: no consolidation with the chunk before.
FreeForward(q, c) ==
    LET next == c + ChunkSize(q, c)
        r == IF InUse(q, next) THEN q ELSE UnlinkFree(q, next)
        s == SetSizeFree(r, c, ChunkSize(q, c) + (IF InUse(q, next) THEN 0 ELSE ChunkSize(q, next)))
    IN  IF sizes.more # 0 /\ IsArea(s, c) THEN FreeArea(s, c) ELSE LinkFree(s, c)

\* AllocPool::Free
FreeChunk(q, c) ==
    LET next == c + ChunkSize(q, c)
        first == IF PrevInUse(q, c) THEN c ELSE c - PrevSize(q, c)
        back == IF PrevInUse(q, c) THEN q ELSE UnlinkFree(q, first)
        both == IF InUse(q, next) THEN back ELSE UnlinkFree(back, next)
        end == IF InUse(q, next) THEN next ELSE next + ChunkSize(q, next)
        r == SetSizeFree(both, first, end - first)
    IN  IF sizes.more # 0 /\ IsArea(r, first) THEN FreeArea(r, first) ELSE LinkFree(r, first)
-----------------------------------------------------------------------------
(* Alloc. *)

\* Slip: no size check, as in small bins.
FirstFitUnchecked(q, i, n) ==
    IF Bin(q, i) = <<>> THEN None ELSE Bin(q, i)[Len(Bin(q, i))]

\* The first chunk of a bin, from its far end on, that n units fit into.
FirstFit(q, i, n) ==
    LET fits == {j \in DOMAIN Bin(q, i) : ChunkSize(q, Bin(q, i)[j]) >= n}
    IN  IF fits = {} THEN None ELSE Bin(q, i)[CHOOSE j \in fits : \A k \in fits : k <= j]

\* The search goes on in the bins from i on whose bits are set (NextFullBin).
Scan(q, i, n) ==
    LET full == {j \in q.mBinBlocks : j >= i /\ FirstFit(q, j, n) # None}
    IN  IF full = {} THEN None
        ELSE FirstFit(q, CHOOSE j \in full : \A k \in full : j <= k, n)

\* The chunk that Alloc chooses; None when there is none.  A chunk of its own
\* bin that is too big sends a large request back to that bin.
Search(q, n) ==
    LET i == BinIndex(n)
        own == FirstFit(q, i, n)
    IN  IF i < kNumSmallBins - 1
        THEN IF Bin(q, i) # <<>> THEN Bin(q, i)[Len(Bin(q, i))]
             ELSE IF Bin(q, i + 1) # <<>> THEN Bin(q, i + 1)[Len(Bin(q, i + 1))]
             ELSE Scan(q, i + 2, n)
        ELSE IF own # None /\ ChunkSize(q, own) - n < kMinAllocSize THEN own
             ELSE Scan(q, IF own # None THEN i ELSE i + 1, n)

\* found_bigger_fit: the rest of a chunk that is in no bin becomes a free one.
SplitOff(q, c, n) ==
    LET rest == ChunkSize(q, c) - n
    IN  SetSizeInUse(LinkFree(SetSizeFree(q, c + n, rest), c + n), c, n)

\* What Alloc does with the chunk: found_exact_fit, or the split.
Take(q, c, n) ==
    IF ChunkSize(q, c) - n >= kMinAllocSize THEN SplitOff(UnlinkFree(q, c), c, n)
    ELSE SetSizeInUse(UnlinkFree(q, c), c, ChunkSize(q, c))

\* The size of the area that is made when no chunk fits; None: found_nothing.
AreaSize(q, n) ==
    IF sizes.more = 0
    THEN IF q.mAreas # <<>> \/ n > sizes.init THEN None ELSE sizes.init
    ELSE IF n > sizes.more THEN n ELSE sizes.more

\* AllocPool::Alloc: the pool it leaves and the chunk; None when it throws.
AllocChunk(q, n) ==
    LET c == Search(q, n)
        size == AreaSize(q, n)
        at == Malloc(q)
        fresh == NewArea(q, at, size)
    IN  IF c # None THEN [pool |-> Take(q, c, n), chunk |-> c]
        ELSE IF size = None \/ Vacant(q) = {} THEN [pool |-> q, chunk |-> None]
        ELSE [pool |-> IF sizes.more # 0 /\ n > sizes.more
                       THEN SetSizeInUse(fresh, at, size) ELSE SplitOff(fresh, at, n),
              chunk |-> at]
-----------------------------------------------------------------------------
(***************************************************************************)
(* What users do.  A block is where its chunk is, the units its user has   *)
(* filled, whether they are still as he left them, and whether Realloc has *)
(* moved it into the chunk before it.                                      *)
(***************************************************************************)
Block(c, n) == [at |-> c, len |-> n, kept |-> TRUE, back |-> FALSE]

PoolInit == sizes \in Pools /\ p = InitAlloc(sizes) /\ todo = <<>>

AllocBlock(n) ==
    LET r == AllocChunk(p, n)
    IN  /\ todo = <<>> /\ Cardinality(p.blocks) < MaxBlocks /\ r.chunk # None
        /\ p' = [r.pool EXCEPT !.blocks = @ \cup {Block(r.chunk, n)}]
        /\ UNCHANGED <<sizes, todo>>

FreeBlock(b) ==
    /\ todo = <<>>
    /\ p' = FreeChunk([p EXCEPT !.blocks = @ \ {b}], b.at)
    /\ UNCHANGED <<sizes, todo>>

\* The end of Realloc (split): c is n or more units long, c in no bin.
Trim(q, c, has, n) ==
    IF has - n >= kMinAllocSize
    THEN FreeChunk(SetSizeInUse(SetSizeInUse(q, c + n, has - n), c, n), c + n)
    ELSE SetSizeInUse(q, c, has)

\* The one block at c is from now on this one.
Update(q, c, b) == [q EXCEPT !.blocks = {d \in @ : d.at # c} \cup {b}]
At(q, c) == CHOOSE b \in q.blocks : b.at = c

\* AllocPool::Realloc
ReallocChunk(q, c, n) ==
    LET has == ChunkSize(q, c)
        next == c + has
        nextsize == IF InUse(q, next) THEN 0 ELSE ChunkSize(q, next)
        prev == c - PrevSize(q, c)
        prevsize == IF InUse(q, prev) THEN 0 ELSE ChunkSize(q, prev)
        forward == IF nextsize = 0 THEN q ELSE UnlinkFree(q, next)
        Resized(r) == Update(r, c, [At(r, c) EXCEPT !.len = n])
        Moved(r, d) == Update(r, c, [At(r, c) EXCEPT !.at = d, !.len = n, !.back = @ \/ d = prev])
        other == AllocChunk(q, n)
    IN  IF has >= n THEN Resized(Trim(q, c, has, n))
        ELSE IF nextsize + has >= n THEN Resized(Trim(forward, c, has + nextsize, n))
        ELSE IF prevsize > 0 /\ nextsize > 0 /\ nextsize + prevsize + has >= n
             THEN Moved(Trim(UnlinkFree(forward, prev), prev, has + nextsize + prevsize, n), prev)
        ELSE IF prevsize > 0 /\ prevsize + has >= n
             THEN Moved(Trim(UnlinkFree(q, prev), prev, has + prevsize, n), prev)
        ELSE IF other.chunk = None THEN q
        ELSE FreeChunk(Moved(other.pool, other.chunk), c)

\* Of a block that is made smaller its user wants the first n units.
ReallocBlock(b, n) ==
    LET wanted == [b EXCEPT !.len = IF n < @ THEN n ELSE @]
    IN  /\ todo = <<>>
        /\ p' = ReallocChunk(Update(p, b.at, wanted), b.at, n)
        /\ UNCHANGED <<sizes, todo>>

InitBins(q) == [q EXCEPT !.mBins = Nothing, !.mBinBlocks = {}]

\* FreeAllInternal empties the bins,
FreeAllInternal ==
    /\ todo = <<>>
    /\ p' = InitBins([p EXCEPT !.blocks = {}]) /\ todo' = p.mAreas
    /\ UNCHANGED sizes

\* and makes every area one free chunk, in turn.
FreeAllArea ==
    /\ todo # <<>>
    /\ LET at == todo[1].at
           size == todo[1].size
       IN  p' = LinkFree(SetNeighborsInUse(SetSizeFree(p, at, size), at, size), at)
    /\ todo' = Tail(todo)
    /\ UNCHANGED sizes

\* FreeAll
FreeAll == todo = <<>> /\ p' = EmptyPool /\ UNCHANGED <<sizes, todo>>

\* Reinit
Reinit == todo = <<>> /\ p' = InitAlloc(sizes) /\ UNCHANGED <<sizes, todo>>

PoolNext ==
    \/ \E n \in Request : AllocBlock(n)
    \/ \E b \in p.blocks : FreeBlock(b) \/ \E n \in Request : ReallocBlock(b, n)
    \/ FreeAllInternal \/ FreeAllArea \/ FreeAll \/ Reinit

PoolSpec == PoolInit /\ [][PoolNext]_poolVars
-----------------------------------------------------------------------------
Areas(q) == {q.mAreas[j] : j \in DOMAIN q.mAreas}
Ends(q) == {area.at + area.size : area \in Areas(q)}
Chunks(q) == DOMAIN q.mSize \ Ends(q)
FreeChunks(q) == {c \in Chunks(q) : ~InUse(q, c)}

Tiled(q) ==
    /\ DOMAIN q.mPrevSize = DOMAIN q.mSize
    /\ \A area \in Areas(q) :
          /\ {area.at, area.at + area.size} \subseteq DOMAIN q.mSize
          /\ q.mPrevSize[area.at] = kChunkInUse
          /\ q.mSize[area.at + area.size] = kChunkInUse
    /\ \A c \in Chunks(q) : LET next == c + ChunkSize(q, c) IN
          /\ ChunkSize(q, c) >= kMinAllocSize /\ next \in DOMAIN q.mSize
          /\ c + 1 .. next - 1 \cap DOMAIN q.mSize = {}
          /\ q.mPrevSize[next] = q.mSize[c]
          /\ InUse(q, c) \/ (PrevInUse(q, c) /\ InUse(q, next))

Binned(q) ==
    /\ \A i \in DOMAIN q.mBins : \A j \in DOMAIN q.mBins[i] :
          /\ q.mBins[i][j] \in FreeChunks(q)
          /\ BinIndex(ChunkSize(q, q.mBins[i][j])) = i
          /\ \A k \in DOMAIN q.mBins[i] : q.mBins[i][k] = q.mBins[i][j] => k = j
    /\ \A c \in FreeChunks(q) : \E j \in DOMAIN Bin(q, BinIndex(ChunkSize(q, c))) :
          Bin(q, BinIndex(ChunkSize(q, c)))[j] = c
    /\ q.mBinBlocks = DOMAIN q.mBins

\* Chunks tile the areas: both words of a size agree, the ends are marked in
\* use so that nothing merges across them, and two free chunks never touch
\* (what DoCheckArea, DoCheckChunk and DoCheckFreeChunk assert).  The bins hold
\* every free chunk once and nothing else, each where the search looks for it
\* (DoCheckBin), and "each bin's flag can be kept accurate".
PoolSound == todo = <<>> => Tiled(p) /\ Binned(p)

\* Alloc finds a chunk whenever one is large enough, and of these a smallest.
BestFit == todo = <<>> => \A n \in Request :
    LET fits == {c \in FreeChunks(p) : ChunkSize(p, c) >= n}
    IN  IF fits = {} THEN Search(p, n) = None
        ELSE Search(p, n) \in fits /\ \A c \in fits : ChunkSize(p, Search(p, n)) <= ChunkSize(p, c)

\* Every block has a chunk of its own that is large enough and not larger than
\* it needs to be, every chunk in use has its block, and its contents survive
\* all that happens to others and to itself, other than being moved back.
Intact == todo = <<>> =>
    /\ \A b \in p.blocks :
          /\ b.at \in Chunks(p) /\ InUse(p, b.at)
          /\ ChunkSize(p, b.at) - b.len \in 0 .. kMinAllocSize - 1
          /\ b.kept \/ b.back
    /\ \A c \in Chunks(p) \ FreeChunks(p) : Cardinality({b \in p.blocks : b.at = c}) = 1

\* Realloc keeps what is in a block wherever it goes: only "extra room" is
\* split off.
ReallocKeeps == \A b \in p.blocks : b.kept
=============================================================================
