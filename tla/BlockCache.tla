------------------------------ MODULE BlockCache ------------------------------
(***************************************************************************)
(* core/cache.py: the LRU cache of fixed-size byte blocks every byte of    *)
(* the media goes through.  Each method of the class holds one lock from   *)
(* end to end, so each is one operator from a cache value to a cache       *)
(* value, and one atomic step wherever another module uses it.             *)
(*                                                                         *)
(* The unit of length is a cell: a run of bytes no chunk boundary ever     *)
(* splits.  Cell i of the media has content i, so a sequence of cells says *)
(* which part of the media it is, and BLOCK_SIZE is a number of cells.     *)
(***************************************************************************)
EXTENDS Integers, Sequences, FiniteSets, SequencesExt

CONSTANTS
    BLOCK_SIZE,     \* cells in a block (64 KiB in the code)
    CapacityBytes,  \* the capacity the cache is asked to have
    FileSize,       \* cells of the media on the server
    TotalBytes,     \* the length the server announced, or None
    None            \* Python's None

ASSUME CacheAssumption ==
    /\ BLOCK_SIZE \in Nat \ {0}
    /\ CapacityBytes \in Nat
    /\ FileSize \in Nat
    /\ TotalBytes \in Nat \/ TotalBytes = None
    /\ None \notin Int
    /\ None \notin Seq(Int)

VARIABLE cache      \* [blocks, lru, pending, resident]

(* A cache never holds less than two blocks' worth. *)
capacity == IF CapacityBytes > 2 * BLOCK_SIZE THEN CapacityBytes
                                              ELSE 2 * BLOCK_SIZE

-----------------------------------------------------------------------------
(* Functions with a finite domain, as the code's dictionaries.             *)

Put(f, k, v) == [i \in DOMAIN f \cup {k} |-> IF i = k THEN v ELSE f[i]]
Drop(f, S)   == [i \in DOMAIN f \ S |-> f[i]]
NoEntries    == [i \in {} |-> <<>>]

(* The n cells of the media from cell a on. *)
Cells(a, n) == [k \in 1..n |-> a + k - 1]

FirstBlock(start)     == start \div BLOCK_SIZE
LastBlock(start, end) == (end - 1) \div BLOCK_SIZE

(* How many cells complete block idx: the last one of a media of known     *)
(* length is short, and past the announced end nothing is awaited.         *)
BlockLimit(idx) ==
    IF TotalBytes = None \/ TotalBytes - idx * BLOCK_SIZE > BLOCK_SIZE
    THEN BLOCK_SIZE
    ELSE TotalBytes - idx * BLOCK_SIZE

(* The cells a dictionary of blocks holds, a block's worth of each at most. *)
CellsIn(blocks) ==
    {cell \in (DOMAIN blocks) \X (1..BLOCK_SIZE) : cell[2] <= Len(blocks[cell[1]])}

(* Blocks first, first + 1, ... moved to the recent end one after the      *)
(* other, n of them (OrderedDict.move_to_end; a new key goes there too).   *)
Touch(lru, first, n) ==
    LET kept[k \in 0..Len(lru)] ==
            IF k = 0 THEN <<>>
            ELSE IF lru[k] \in first..(first + n - 1) THEN kept[k - 1]
            ELSE Append(kept[k - 1], lru[k])
    IN  kept[Len(lru)] \o [k \in 1..n |-> first + k - 1]

EmptyCache == [blocks |-> NoEntries, lru |-> <<>>,
               pending |-> NoEntries, resident |-> 0]

-----------------------------------------------------------------------------
(* Writing.                                                                *)

(* Mutant: a replaced block is still counted. *)
CommitOldCounted(c, idx, block) ==
    [blocks   |-> Put(c.blocks, idx, block),
     lru      |-> Touch(c.lru, idx, 1),
     pending  |-> Drop(c.pending, {idx}),
     resident |-> c.resident + Len(block)]

(* Moves block idx from the pending buffers to the resident blocks, as the *)
(* most recently used one.  A resident block of the same length is kept    *)
(* as it is: only its recency changes.                                     *)
Commit(c, idx, block) ==
    LET known == idx \in DOMAIN c.blocks
        old   == IF known THEN Len(c.blocks[idx]) ELSE 0
    IN  [blocks   |-> IF known /\ old = Len(block) THEN c.blocks
                      ELSE Put(c.blocks, idx, block),
         lru      |-> Touch(c.lru, idx, 1),
         pending  |-> Drop(c.pending, {idx}),
         resident |-> c.resident + Len(block) - old]

(* The pending bytes of block idx once piece has been added to them. *)
Buffered(c, idx, piece) ==
    (IF idx \in DOMAIN c.pending THEN c.pending[idx] ELSE <<>>) \o piece

(* Mutant: a block is the whole of what was buffered. *)
FullBlockUncut(buf) == buf

(* A buffer to which two downloads have added may be longer than a block. *)
FullBlock(buf) ==
    IF Len(buf) > BLOCK_SIZE THEN SubSeq(buf, 1, BLOCK_SIZE) ELSE buf

(* Mutant: > for >= at the end of a block. *)
StorePieceLate(r, offset, piece) ==
    LET idx == FirstBlock(offset)
        buf == Buffered(r.cache, idx, piece)
    IN  IF Len(buf) > BlockLimit(idx)
        THEN [cache     |-> Commit(r.cache, idx, FullBlock(buf)),
              committed |-> r.committed + Len(FullBlock(buf))]
        ELSE [r EXCEPT !.cache.pending = Put(@, idx, buf)]

(* One turn of store_bytes' loop, on [cache, committed]. *)
StorePiece(r, offset, piece) ==
    LET idx == FirstBlock(offset)
        buf == Buffered(r.cache, idx, piece)
    IN  IF Len(buf) >= BlockLimit(idx)
        THEN [cache     |-> Commit(r.cache, idx, FullBlock(buf)),
              committed |-> r.committed + Len(FullBlock(buf))]
        ELSE [r EXCEPT !.cache.pending = Put(@, idx, buf)]

(* The n least recently used blocks, and what stays resident without them. *)
Oldest(c, n) == {c.lru[k] : k \in 1..n}

ResidentWithout(c, n) ==
    c.resident - Cardinality(CellsIn(Restrict(c.blocks, Oldest(c, n))))

(* Mutant: the most recently used block goes (popitem's default). *)
EvictNewest(c) ==
    IF c.resident <= capacity \/ c.lru = <<>> THEN c
    ELSE LET newest == c.lru[Len(c.lru)]
         IN  [c EXCEPT !.blocks   = Drop(@, {newest}),
                       !.lru      = SubSeq(@, 1, Len(@) - 1),
                       !.resident = @ - Len(c.blocks[newest])]

(* Least recently used blocks go until the rest fits. *)
Evict(c) ==
    LET n == CHOOSE k \in 0..Len(c.lru) :
                /\ ResidentWithout(c, k) <= capacity \/ k = Len(c.lru)
                /\ \A j \in 0..(k - 1) : ResidentWithout(c, j) > capacity
    IN  [c EXCEPT !.blocks   = Drop(@, Oldest(c, n)),
                  !.lru      = SubSeq(@, n + 1, Len(@)),
                  !.resident = ResidentWithout(c, n)]

(* Mutant: the whole chunk goes into the block it starts in. *)
StoreBytesUnsplit(c, start, data) ==
    LET r == StorePiece([cache |-> c, committed |-> 0], start, data)
    IN  [r EXCEPT !.cache = Evict(@)]

(* store_bytes: a chunk is no longer than a block (both are 64 KiB), so it *)
(* falls in at most two blocks and the loop has at most two turns.         *)
StoreBytes(c, start, data) ==
    LET room  == BLOCK_SIZE - (start % BLOCK_SIZE)
        r     == [cache |-> c, committed |-> 0]
        split == Len(data) > room
        r1    == StorePiece(r, start,
                            IF split THEN SubSeq(data, 1, room) ELSE data)
        r2    == IF split
                 THEN StorePiece(r1, start + room,
                                 SubSeq(data, room + 1, Len(data)))
                 ELSE r1
    IN  [r2 EXCEPT !.cache = Evict(@)]

(* The cells that are buffered. *)
Gathered(c) == CellsIn(c.pending)

(* flush_pending: what is buffered is committed as it is, in block order. *)
FlushPending(c) ==
    LET last == Max({0} \cup DOMAIN c.pending)
        flushed[i \in 0..(last + 1)] ==
            IF i = 0 THEN c
            ELSE IF i - 1 \in DOMAIN c.pending
                 THEN Commit(flushed[i - 1], i - 1, FullBlock(c.pending[i - 1]))
                 ELSE flushed[i - 1]
    IN  [cache     |-> Evict(flushed[last + 1]),
         committed |-> Cardinality(Gathered(c))]

-----------------------------------------------------------------------------
(* Reading.                                                                *)

HasBlock(c, idx) == idx \in DOMAIN c.blocks

(* Mutant: the offset of the span in its first block is forgotten. *)
ReadSpanUncut(c, start, end) ==
    LET first  == FirstBlock(start)
        last   == LastBlock(start, end)
        joined == FlattenSeq([k \in 1..(last - first + 1) |-> c.blocks[first + k - 1]])
    IN  [cache |-> c,
         data  |-> IF \E i \in first..last : ~HasBlock(c, i) THEN None
                   ELSE SubSeq(joined, 1, Min({end - start, Len(joined)}))]

(* read_span: the blocks are touched one after the other, and the first    *)
(* missing one ends the read with None, the ones before it already moved   *)
(* to the recent end.                                                      *)
ReadSpan(c, start, end) ==
    LET first   == FirstBlock(start)
        last    == LastBlock(start, end)
        missing == {i \in first..last : ~HasBlock(c, i)}
        found   == IF missing = {} THEN last - first + 1 ELSE Min(missing) - first
        joined  == FlattenSeq([k \in 1..(last - first + 1) |-> c.blocks[first + k - 1]])
        cut     == start - first * BLOCK_SIZE
    IN  [cache |-> [c EXCEPT !.lru = Touch(@, first, found)],
         data  |-> IF missing # {} THEN None
                   ELSE SubSeq(joined, cut + 1, Min({cut + end - start, Len(joined)}))]

-----------------------------------------------------------------------------
(* The cache on its own, under the writers the fetchers are: a chunk       *)
(* starts where its block starts, or right behind what is buffered of it;  *)
(* a fetch that was given up may have left a buffer behind.                *)

CacheInit == cache = EmptyCache

Writable(start) ==
    LET idx == FirstBlock(start)
    IN  \/ start % BLOCK_SIZE = 0
        \/ /\ idx \in DOMAIN cache.pending
           /\ Len(cache.pending[idx]) = start % BLOCK_SIZE

CacheStore ==
    \E start \in 0..(FileSize - 1), n \in 1..BLOCK_SIZE :
        /\ Writable(start)
        /\ start + n <= FileSize
        /\ cache' = StoreBytes(cache, start, Cells(start, n)).cache

CacheRead ==
    \E start, end \in 0..FileSize :
        /\ start < end
        /\ cache' = ReadSpan(cache, start, end).cache

CacheFlush == cache' = FlushPending(cache).cache

CacheClear == cache' = EmptyCache

CacheNext == CacheStore \/ CacheRead \/ CacheFlush \/ CacheClear

CacheSpec == CacheInit /\ [][CacheNext]_cache

-----------------------------------------------------------------------------
(* Properties.                                                             *)

(* The number of the last block of the media. *)
FinalBlock == (FileSize - 1) \div BLOCK_SIZE
BlockIds   == 0..FinalBlock

(* Type invariant of the cache (BlockCache.__init__). *)
CacheTypeOK ==
    /\ DOMAIN cache = {"blocks", "lru", "pending", "resident"}
    /\ DOMAIN cache.blocks \subseteq BlockIds
    /\ DOMAIN cache.pending \subseteq BlockIds
    /\ \A i \in DOMAIN cache.blocks : cache.blocks[i] \in Seq(0..(FileSize - 1))
    /\ \A i \in DOMAIN cache.pending : cache.pending[i] \in Seq(0..(FileSize - 1))
    /\ cache.lru \in Seq(BlockIds)
    /\ cache.resident \in Nat

(* Accounting: the counter that decides about eviction is exactly the      *)
(* number of cells held, never above the capacity, and the recency list    *)
(* names each resident block once - over any interleaving of stores,       *)
(* re-commits of a resident block, reads that fail half way and clears.    *)
ResidentExact ==
    /\ \A i \in DOMAIN cache.blocks : Len(cache.blocks[i]) \in 1..BLOCK_SIZE
    /\ cache.resident = Cardinality(CellsIn(cache.blocks))
    /\ cache.resident <= capacity
    /\ Len(cache.lru) = Cardinality(DOMAIN cache.blocks)
    /\ ToSet(cache.lru) = DOMAIN cache.blocks

(* A pending buffer is never complete: whatever a block needs to be        *)
(* committed, it is committed in the very call that brings it.             *)
PendingIncomplete ==
    \A i \in DOMAIN cache.pending :
        Len(cache.pending[i]) \in 1..(BlockLimit(i) - 1)

(* The right content of block idx. *)
FileBlock(idx) ==
    Cells(idx * BLOCK_SIZE,
          IF (idx + 1) * BLOCK_SIZE <= FileSize THEN BLOCK_SIZE
          ELSE FileSize - idx * BLOCK_SIZE)

(* read_span's slicing: whenever the blocks under a span hold the media,   *)
(* the bytes returned are exactly those of the span.                       *)
ReadExact ==
    \A start, end \in 0..FileSize :
        LET r == ReadSpan(cache, start, end).data
        IN  /\ start < end
            /\ \A i \in FirstBlock(start)..LastBlock(start, end) :
                   HasBlock(cache, i) /\ cache.blocks[i] = FileBlock(i)
            => r = Cells(start, end - start)

(* Eviction takes the least recently used blocks (_evict): a block that    *)
(* goes was older than every block that stays, save the blocks the step    *)
(* itself has moved to the recent end: the last two (a store commits no    *)
(* more) and those whose buffers it has committed (a flush commits all).   *)
Age(i) == CHOOSE k \in 1..Len(cache.lru) : cache.lru[k] = i

Recent(c) == {c.lru[k] : k \in {n \in 1..Len(c.lru) : n > Len(c.lru) - 2}}

EvictsOldest ==
    [][ cache' # EmptyCache =>
        \A i \in DOMAIN cache.blocks \ DOMAIN cache'.blocks,
           j \in DOMAIN cache.blocks \cap DOMAIN cache'.blocks :
            \/ Age(i) < Age(j)
            \/ j \in Recent(cache')
            \/ j \in DOMAIN cache.pending \ DOMAIN cache'.pending
      ]_cache
=============================================================================
