------------------------------ MODULE FeederProofs ------------------------------
(***************************************************************************)
(* What SequentialFeeder guarantees for every media, block size, capacity, *)
(* number of handlers and fault of the remote: its types, the order of its *)
(* two counters, that nobody waits for the other, how far it runs ahead of *)
(* the player, what the handlers behind it send, the cache's accounts, and *)
(* that what is stored stays in the cache until it is read.                *)
(***************************************************************************)
EXTENDS SequentialFeeder, CacheProofs

-----------------------------------------------------------------------------
(* How many cells are buffered.                                            *)

(* A cache whose buffers are finitely many sequences. *)
CacheShape(c) ==
    /\ c = [blocks |-> c.blocks, lru |-> c.lru,
            pending |-> c.pending, resident |-> c.resident]
    /\ IsFiniteSet(DOMAIN c.pending)
    /\ \A i \in DOMAIN c.pending : c.pending[i] \in Seq(Nat)

LEMMA GatheredFinite ==
    ASSUME NEW c, CacheShape(c)
    PROVE  IsFiniteSet(Gathered(c)) /\ Cardinality(Gathered(c)) \in Nat
<1>1. IsFiniteSet(1..BLOCK_SIZE)
  BY FS_Interval, CacheAssumption
<1>2. IsFiniteSet((DOMAIN c.pending) \X (1..BLOCK_SIZE))
  BY <1>1, FS_Product DEF CacheShape
<1>3. Gathered(c) \in SUBSET ((DOMAIN c.pending) \X (1..BLOCK_SIZE))
  BY DEF Gathered, CellsIn
<1> QED
  BY <1>2, <1>3, FS_Subset, FS_CardinalityType

(* The length of a buffer that counts. *)
Counted(c, idx) ==
    IF idx \in DOMAIN c.pending
    THEN Lesser(Len(c.pending[idx]), BLOCK_SIZE) ELSE 0

LEMMA CountedNat ==
    ASSUME NEW c, CacheShape(c), NEW idx
    PROVE  Counted(c, idx) \in 0..BLOCK_SIZE
BY CacheAssumption DEF CacheShape, Counted, Lesser

LEMMA InGathered ==
    ASSUME NEW c, CacheShape(c), NEW idx, NEW k
    PROVE  <<idx, k>> \in Gathered(c)
              <=> idx \in DOMAIN c.pending /\ k \in 1..Counted(c, idx)
BY CacheAssumption DEF CacheShape, Gathered, CellsIn, Counted, Lesser

LEMMA GatheredPairs ==
    ASSUME NEW c, NEW x \in Gathered(c)
    PROVE  \E idx, k : x = <<idx, k>>
BY DEF Gathered, CellsIn

(* What a commit takes out of the buffers. *)
LEMMA CommitTakes ==
    ASSUME NEW c, CacheShape(c), NEW idx, NEW block
    PROVE  LET d == Commit(c, idx, block)
           IN  /\ CacheShape(d)
               /\ d.pending = Drop(c.pending, {idx})
               /\ Cardinality(Gathered(d)) = Cardinality(Gathered(c)) - Counted(c, idx)
<1> DEFINE d == Commit(c, idx, block)
           column == {idx} \X ((0 + 1)..Counted(c, idx))
<1>1. /\ d = [blocks |-> d.blocks, lru |-> d.lru,
              pending |-> d.pending, resident |-> d.resident]
      /\ d.pending = Drop(c.pending, {idx})
  BY DEF Commit
<1>2. DOMAIN d.pending = (DOMAIN c.pending) \ {idx}
  BY <1>1 DEF Drop
<1>3. \A i \in DOMAIN d.pending : d.pending[i] = c.pending[i]
  BY <1>1 DEF Drop
<1>4. IsFiniteSet(DOMAIN d.pending)
  BY <1>2, FS_Subset DEF CacheShape
<1>5. CacheShape(d)
  BY <1>1, <1>2, <1>3, <1>4 DEF CacheShape
<1> HIDE DEF d
<1>6. \A i : i # idx => Counted(d, i) = Counted(c, i)
  BY <1>2, <1>3 DEF Counted
<1>7. Gathered(c) = Gathered(d) \cup column
  <2>1. \A i, k : <<i, k>> \in Gathered(c) <=> <<i, k>> \in Gathered(d) \cup column
    <3> TAKE i, k
    <3>1. CASE i = idx
      <4>1. <<i, k>> \notin Gathered(d)
        BY <1>2, <1>5, <3>1, InGathered
      <4>2. Counted(c, idx) # 0 => idx \in DOMAIN c.pending
        BY DEF Counted
      <4>3. <<i, k>> \in Gathered(c) <=> k \in 1..Counted(c, idx)
        BY <3>1, <4>2, InGathered, CountedNat
      <4> QED
        BY <3>1, <4>1, <4>3
    <3>2. CASE i # idx
      BY <1>2, <1>5, <1>6, <3>2, InGathered
    <3> QED
      BY <3>1, <3>2
  <2>2. \A x \in column : \E i, k : x = <<i, k>>
    OBVIOUS
  <2> QED
    BY <2>1, <2>2, GatheredPairs
<1>8. Gathered(d) \cap column = {}
  <2>1. \A x \in column : \E k : x = <<idx, k>>
    OBVIOUS
  <2>2. \A k : <<idx, k>> \notin Gathered(d)
    BY <1>2, <1>5, InGathered
  <2> HIDE DEF column
  <2>3. \A x \in column : x \notin Gathered(d)
    BY <2>1, <2>2
  <2> QED
    BY <2>3
<1>9. IsFiniteSet(column) /\ Cardinality(column) = Counted(c, idx)
  <2>1. Counted(c, idx) \in Nat /\ 0 <= Counted(c, idx)
    BY CountedNat, CacheAssumption
  <2>2. IsFiniteSet(column) /\ Cardinality(column) = Counted(c, idx) - 0
    BY <2>1, ColumnSize
  <2> QED
    BY <2>1, <2>2
<1>10. IsFiniteSet(Gathered(d)) /\ Cardinality(Gathered(d)) \in Nat
  BY <1>5, GatheredFinite
<1>11. Cardinality(Gathered(c)) = Cardinality(Gathered(d)) + Cardinality(column) - 0
  BY <1>7, <1>8, <1>9, <1>10, FS_Union, FS_EmptySet
<1>12. Cardinality(Gathered(d)) = Cardinality(Gathered(c)) - Counted(c, idx)
  BY <1>9, <1>10, <1>11, CountedNat
<1> QED
  BY <1>1, <1>5, <1>12 DEF d

(* What a piece that does not complete its block adds to them. *)
LEMMA BufferAdds ==
    ASSUME NEW c, CacheShape(c), NEW idx, NEW piece \in Seq(Nat)
    PROVE  LET d == [c EXCEPT !.pending = Put(@, idx, Buffered(c, idx, piece))]
           IN  /\ CacheShape(d)
               /\ Cardinality(Gathered(d)) <= Cardinality(Gathered(c)) + Len(piece)
<1> DEFINE buf == Buffered(c, idx, piece)
           d == [c EXCEPT !.pending = Put(@, idx, buf)]
<1>1. /\ buf \in Seq(Nat)
      /\ Len(buf) = Len(piece) + (IF idx \in DOMAIN c.pending THEN Len(c.pending[idx]) ELSE 0)
  BY DEF Buffered, CacheShape
<1> HIDE DEF buf
<1>2. d = [blocks |-> c.blocks, lru |-> c.lru,
           pending |-> Put(c.pending, idx, buf), resident |-> c.resident]
  BY DEF CacheShape
<1>3. /\ DOMAIN d.pending = (DOMAIN c.pending) \cup {idx}
      /\ \A i \in DOMAIN d.pending : d.pending[i] = IF i = idx THEN buf ELSE c.pending[i]
  BY <1>2 DEF Put
<1>4. IsFiniteSet(DOMAIN d.pending)
  <2>1. IsFiniteSet(DOMAIN c.pending)
    BY DEF CacheShape
  <2>2. IsFiniteSet((DOMAIN c.pending) \cup {idx})
    BY <2>1, FS_AddElement
  <2> QED
    BY <1>3, <2>2
<1>5. CacheShape(d)
  BY <1>1, <1>2, <1>3, <1>4 DEF CacheShape
<1> HIDE DEF d
<1> DEFINE m == Counted(c, idx)
           n == Counted(d, idx)
           column == {idx} \X ((m + 1)..n)
<1>6. \A i : i # idx => Counted(d, i) = Counted(c, i)
  BY <1>3 DEF Counted
<1>7. m \in Nat /\ n \in Nat /\ m <= n /\ n - m <= Len(piece)
  <2>1. Len(piece) \in Nat /\ \A i \in DOMAIN c.pending : Len(c.pending[i]) \in Nat
    BY DEF CacheShape
  <2>2. n = Lesser(Len(buf), BLOCK_SIZE)
    BY <1>3 DEF Counted
  <2>3. m = IF idx \in DOMAIN c.pending THEN Lesser(Len(c.pending[idx]), BLOCK_SIZE) ELSE 0
    BY DEF Counted
  <2> HIDE DEF m, n
  <2> QED
    BY <1>1, <2>1, <2>2, <2>3, CacheAssumption DEF Lesser
<1>8. Gathered(d) = Gathered(c) \cup column
  <2>1. \A i, k : <<i, k>> \in Gathered(d) <=> <<i, k>> \in Gathered(c) \cup column
    <3> TAKE i, k
    <3>1. CASE i = idx
      <4>1. <<i, k>> \in Gathered(d) <=> k \in 1..n
        BY <1>3, <1>5, <3>1, InGathered
      <4>2. m # 0 => idx \in DOMAIN c.pending
        BY DEF Counted
      <4>3. <<i, k>> \in Gathered(c) <=> k \in 1..m
        BY <3>1, <4>2, InGathered, CountedNat
      <4>4. <<i, k>> \in column <=> k \in (m + 1)..n
        BY <3>1
      <4> HIDE DEF m, n, column
      <4> QED
        BY <1>7, <4>1, <4>3, <4>4
    <3>2. CASE i # idx
      BY <1>3, <1>5, <1>6, <3>2, InGathered
    <3> QED
      BY <3>1, <3>2
  <2>2. \A x \in column : \E i, k : x = <<i, k>>
    OBVIOUS
  <2> HIDE DEF column
  <2> QED
    BY <2>1, <2>2, GatheredPairs
<1> HIDE DEF m, n
<1>9. IsFiniteSet(column) /\ Cardinality(column) = n - m
  BY <1>7, ColumnSize
<1> HIDE DEF column
<1>10. IsFiniteSet(Gathered(c)) /\ Cardinality(Gathered(c)) \in Nat
  BY GatheredFinite
<1>11. Cardinality(Gathered(d)) =
          Cardinality(Gathered(c)) + Cardinality(column) - Cardinality(Gathered(c) \cap column)
  BY <1>8, <1>9, <1>10, FS_Union
<1>12. Cardinality(Gathered(c) \cap column) \in Nat
  BY <1>10, FS_Subset, FS_CardinalityType
<1>13. Len(piece) \in Nat
  OBVIOUS
<1>14. Cardinality(Gathered(d)) <= Cardinality(Gathered(c)) + Len(piece)
  BY <1>7, <1>9, <1>10, <1>11, <1>12, <1>13
<1> QED
  BY <1>5, <1>14 DEF d, buf

-----------------------------------------------------------------------------
(* store_bytes and flush_pending count no cell twice.                      *)

Stored(r) ==
    /\ r = [cache |-> r.cache, committed |-> r.committed]
    /\ CacheShape(r.cache)
    /\ r.committed \in Nat

LEMMA PieceCounted ==
    ASSUME NEW r, Stored(r), NEW p \in Nat, NEW piece \in Seq(Nat)
    PROVE  LET q == StorePiece(r, p, piece)
           IN  /\ Stored(q)
               /\ Cardinality(Gathered(q.cache)) + q.committed
                     <= Cardinality(Gathered(r.cache)) + r.committed + Len(piece)
<1> DEFINE idx == FirstBlock(p)
           buf == Buffered(r.cache, idx, piece)
           q   == StorePiece(r, p, piece)
           c   == r.cache
<1>1. /\ buf \in Seq(Nat)
      /\ Len(buf) = Len(piece) + (IF idx \in DOMAIN c.pending THEN Len(c.pending[idx]) ELSE 0)
  BY DEF Buffered, Stored, CacheShape
<1>2. /\ Len(piece) \in Nat
      /\ idx \in DOMAIN c.pending => Len(c.pending[idx]) \in Nat
  BY DEF Stored, CacheShape
<1>3. Len(FullBlock(buf)) \in Nat /\ Len(FullBlock(buf)) <= Len(piece) + Counted(c, idx)
  <2>1. Len(FullBlock(buf)) = Lesser(Len(buf), BLOCK_SIZE)
    <3>1. CASE Len(buf) > BLOCK_SIZE
      <4>1. FullBlock(buf) = SubSeq(buf, 1, BLOCK_SIZE)
        BY <3>1 DEF FullBlock
      <4> HIDE DEF buf
      <4>2. Len(SubSeq(buf, 1, BLOCK_SIZE)) = BLOCK_SIZE
        BY <1>1, <3>1, CacheAssumption
      <4> QED
        BY <1>1, <3>1, <4>1, <4>2, CacheAssumption DEF Lesser
    <3>2. CASE ~(Len(buf) > BLOCK_SIZE)
      <4>1. FullBlock(buf) = buf
        BY <3>2 DEF FullBlock
      <4> HIDE DEF buf
      <4>2. Len(buf) \in Nat /\ ~(Len(buf) > BLOCK_SIZE)
        BY <1>1, <3>2
      <4> QED
        BY <4>1, <4>2, CacheAssumption DEF Lesser
    <3> QED
      BY <3>1, <3>2
  <2> HIDE DEF buf
  <2> QED
    BY <1>1, <1>2, <2>1, CacheAssumption DEF Counted, Lesser
<1>4. Cardinality(Gathered(c)) \in Nat
  BY GatheredFinite DEF Stored
<1>5. CASE Len(buf) >= BlockLimit(idx)
  <2> DEFINE d == Commit(c, idx, FullBlock(buf))
  <2>1. q = [cache |-> d, committed |-> r.committed + Len(FullBlock(buf))]
    BY <1>5 DEF StorePiece
  <2>2. CacheShape(d) /\ Cardinality(Gathered(d)) = Cardinality(Gathered(c)) - Counted(c, idx)
    BY CommitTakes DEF Stored
  <2>3. Counted(c, idx) \in Nat
    BY CountedNat DEF Stored
  <2> HIDE DEF d, buf
  <2>4. q.cache = d /\ q.committed = r.committed + Len(FullBlock(buf))
    BY <2>1
  <2>5. Stored(q)
    BY <1>3, <2>1, <2>2 DEF Stored
  <2>6. Cardinality(Gathered(d)) + (r.committed + Len(FullBlock(buf)))
            <= Cardinality(Gathered(c)) + r.committed + Len(piece)
    BY <1>2, <1>3, <1>4, <2>2, <2>3 DEF Stored
  <2> QED
    BY <2>4, <2>5, <2>6
<1>6. CASE ~(Len(buf) >= BlockLimit(idx))
  <2> DEFINE d == [c EXCEPT !.pending = Put(@, idx, buf)]
  <2>1. q = [r EXCEPT !.cache.pending = Put(@, idx, buf)]
    BY <1>6 DEF StorePiece
  <2>2. CacheShape(d) /\ Cardinality(Gathered(d)) <= Cardinality(Gathered(c)) + Len(piece)
    BY BufferAdds DEF Stored
  <2> HIDE DEF buf
  <2>3. q = [cache |-> d, committed |-> r.committed]
    BY <2>1 DEF Stored
  <2> HIDE DEF d
  <2>4. Cardinality(Gathered(d)) \in Nat
    BY <2>2, GatheredFinite
  <2>5. Stored(q)
    BY <2>2, <2>3 DEF Stored
  <2>6. Cardinality(Gathered(d)) + r.committed
            <= Cardinality(Gathered(c)) + r.committed + Len(piece)
    BY <1>2, <1>4, <2>2, <2>4 DEF Stored
  <2> QED
    BY <2>3, <2>5, <2>6
<1> QED
  BY <1>5, <1>6

(* _evict touches no buffer. *)
LEMMA EvictKeepsBuffers ==
    ASSUME NEW c, CacheShape(c)
    PROVE  CacheShape(Evict(c)) /\ Evict(c).pending = c.pending
<1>1. PICK S, lru, resident :
          Evict(c) = [c EXCEPT !.blocks = Drop(@, S), !.lru = lru, !.resident = resident]
  BY DEF Evict
<1>2. Evict(c) = [blocks |-> Drop(c.blocks, S), lru |-> lru,
                  pending |-> c.pending, resident |-> resident]
  BY <1>1 DEF CacheShape
<1> QED
  BY <1>2 DEF CacheShape

(* store_bytes is one piece or two, and an eviction. *)
LEMMA StoreByPieces ==
    ASSUME NEW c, CacheShape(c), NEW p \in Nat, NEW data \in Seq(Nat)
    PROVE  \E q : /\ \/ /\ Len(data) <= Room(p)
                       /\ q = StorePiece([cache |-> c, committed |-> 0], p, data)
                    \/ /\ Len(data) > Room(p)
                       /\ q = StorePiece(
                                  StorePiece([cache |-> c, committed |-> 0], p,
                                             SubSeq(data, 1, Room(p))),
                                  p + Room(p), SubSeq(data, Room(p) + 1, Len(data)))
                 /\ Stored(q)
                 /\ Cardinality(Gathered(q.cache)) + q.committed
                       <= Cardinality(Gathered(c)) + Len(data)
                 /\ StoreBytes(c, p, data) = [cache |-> Evict(q.cache),
                                             committed |-> q.committed]
<1> DEFINE r == [cache |-> c, committed |-> 0]
<1>1. Stored(r) /\ r.cache = c /\ r.committed = 0
  BY DEF Stored
<1>2. Room(p) \in Nat /\ Len(data) \in Nat /\ p + Room(p) \in Nat
  <2>1. Room(p) \in 1..BLOCK_SIZE
    BY RoomBounds
  <2> QED
    BY <2>1, CacheAssumption
<1>3. Cardinality(Gathered(c)) \in Nat
  BY GatheredFinite
<1> HIDE DEF r
<1>4. CASE Len(data) <= Room(p)
  <2> DEFINE q == StorePiece(r, p, data)
  <2>1. /\ Stored(q)
        /\ Cardinality(Gathered(q.cache)) + q.committed
              <= Cardinality(Gathered(r.cache)) + r.committed + Len(data)
    BY <1>1, PieceCounted
  <2>2. StoreBytes(c, p, data) = [q EXCEPT !.cache = Evict(@)]
    BY <1>2, <1>4 DEF StoreBytes, Room, r
  <2> HIDE DEF q
  <2>3. StoreBytes(c, p, data) = [cache |-> Evict(q.cache), committed |-> q.committed]
    BY <2>1, <2>2 DEF Stored
  <2>4. Cardinality(Gathered(q.cache)) + q.committed <= Cardinality(Gathered(c)) + Len(data)
    BY <1>1, <1>2, <1>3, <2>1
  <2> QED
    BY <1>4, <2>1, <2>3, <2>4 DEF q, r
<1>5. CASE Len(data) > Room(p)
  <2> DEFINE a == SubSeq(data, 1, Room(p))
             b == SubSeq(data, Room(p) + 1, Len(data))
             q1 == StorePiece(r, p, a)
             q == StorePiece(q1, p + Room(p), b)
  <2>1. /\ a \in Seq(Nat) /\ b \in Seq(Nat)
        /\ Len(a) = Room(p) /\ Len(b) = Len(data) - Room(p)
    BY <1>2, <1>5, PiecesOf
  <2>2. StoreBytes(c, p, data) = [q EXCEPT !.cache = Evict(@)]
    BY <1>2, <1>5 DEF StoreBytes, Room, r
  <2> HIDE DEF a, b
  <2>3. /\ Stored(q1)
        /\ Cardinality(Gathered(q1.cache)) + q1.committed
              <= Cardinality(Gathered(r.cache)) + r.committed + Len(a)
    BY <1>1, <2>1, PieceCounted
  <2>9. Cardinality(Gathered(q1.cache)) + q1.committed <= Cardinality(Gathered(c)) + Room(p)
    BY <1>1, <1>2, <1>3, <2>1, <2>3
  <2> HIDE DEF q1
  <2>4. /\ Stored(q)
        /\ Cardinality(Gathered(q.cache)) + q.committed
              <= Cardinality(Gathered(q1.cache)) + q1.committed + Len(b)
    BY <1>2, <2>1, <2>3, PieceCounted
  <2> HIDE DEF q
  <2>5. StoreBytes(c, p, data) = [cache |-> Evict(q.cache), committed |-> q.committed]
    BY <2>2, <2>4 DEF Stored
  <2>6. /\ Cardinality(Gathered(q1.cache)) \in Nat /\ q1.committed \in Nat
        /\ Cardinality(Gathered(q.cache)) \in Nat /\ q.committed \in Nat
    BY <2>3, <2>4, GatheredFinite DEF Stored
  <2>7. Cardinality(Gathered(q.cache)) + q.committed <= Cardinality(Gathered(c)) + Len(data)
    <3>1. Len(b) = Len(data) - Room(p) /\ Room(p) \in Nat /\ Len(data) \in Nat
      BY <1>2, <2>1
    <3>2. Cardinality(Gathered(q.cache)) + q.committed
             <= Cardinality(Gathered(q1.cache)) + q1.committed + Len(b)
      BY <2>4
    <3> QED
      BY <1>3, <2>6, <2>9, <3>1, <3>2, SMTT(30)
  <2>8. q = StorePiece(StorePiece([cache |-> c, committed |-> 0], p, SubSeq(data, 1, Room(p))),
                       p + Room(p), SubSeq(data, Room(p) + 1, Len(data)))
    BY DEF q, q1, a, b, r
  <2> QED
    BY <1>5, <2>4, <2>5, <2>7, <2>8
<1> QED
  BY <1>2, <1>4, <1>5

(* No cell is counted that was not stored, nor counted twice. *)
LEMMA StoreCounted ==
    ASSUME NEW c, CacheShape(c), NEW p \in Nat, NEW data \in Seq(Nat)
    PROVE  LET r == StoreBytes(c, p, data)
           IN  /\ CacheShape(r.cache)
               /\ r.committed \in Nat
               /\ Cardinality(Gathered(r.cache)) + r.committed
                     <= Cardinality(Gathered(c)) + Len(data)
<1>1. PICK q : /\ Stored(q)
               /\ Cardinality(Gathered(q.cache)) + q.committed
                       <= Cardinality(Gathered(c)) + Len(data)
               /\ StoreBytes(c, p, data) = [cache |-> Evict(q.cache),
                                           committed |-> q.committed]
  BY StoreByPieces
<1>2. CacheShape(Evict(q.cache)) /\ Gathered(Evict(q.cache)) = Gathered(q.cache)
  BY <1>1, EvictKeepsBuffers DEF Stored, Gathered
<1> QED
  BY <1>1, <1>2 DEF Stored

-----------------------------------------------------------------------------
(* The inductive invariant.                                                *)

Gathering == {"connect", "stream", "store", "count", "pace", "flush"}

(* What the feeder has committed and not yet counted. *)
Uncounted == IF feeder.pc = "count" THEN feeder.committed ELSE 0

(* What the feeder has received covers what it counted, what it is about   *)
(* to count and what it still has buffered.                                *)
ReceivedCovers ==
    /\ stored <= feeder.position
    /\ feeder.pc \in Gathering =>
          /\ CacheShape(cache)
          /\ stored + Uncounted + Cardinality(Gathered(cache)) <= feeder.position

(* What a handler has sent it has reported, save between the two steps;    *)
(* and it only reads what is counted as stored.                            *)
HandlerBehind(h) ==
    /\ handler[h].pc # "report" => handler[h].pos <= consumed
    /\ handler[h].pc = "report" => handler[h].pos <= stored
    /\ handler[h].pc \in {"read", "write"} => handler[h].avail <= stored

HandlerShapes ==
    /\ handler = [h \in Handlers |-> handler[h]]
    /\ \A h \in Handlers :
          handler[h] = [pc |-> handler[h].pc, pos |-> handler[h].pos,
                        avail |-> handler[h].avail, data |-> handler[h].data,
                        sent |-> handler[h].sent]

Counters ==
    /\ FeederTypeOK
    /\ HandlerShapes
    /\ ReceivedCovers
    /\ ConsumedStored
    /\ \A h \in Handlers : HandlerBehind(h)

LEMMA CountersInit == FeederInit => Counters
<1> SUFFICES ASSUME FeederInit PROVE Counters
  OBVIOUS
<1>1. CacheShape(cache) /\ Gathered(cache) = {}
  <2>1. cache = EmptyCache
    BY DEF FeederInit, CacheInit
  <2>2. DOMAIN cache.pending = {}
    BY <2>1 DEF EmptyCache, NoEntries
  <2>3. IsFiniteSet(DOMAIN cache.pending)
    BY <2>2, FS_EmptySet
  <2>4. CacheShape(cache)
    BY <2>1, <2>2, <2>3 DEF CacheShape, EmptyCache
  <2>5. Gathered(cache) = {}
    BY <2>2 DEF Gathered, CellsIn
  <2> QED
    BY <2>4, <2>5
<1>2. Cardinality(Gathered(cache)) = 0
  BY <1>1, FS_EmptySet
<1>3. FeederTypeOK
  <2>1. 0 \in 0..FileSize /\ 0 \in 0..(Retries - 1) /\ 0 \in 0..MaxRequests
    BY FeederAssumption, CacheAssumption
  <2>2. feeder \in FeederRecords
    BY <2>1 DEF FeederInit, FeederRecords
  <2>3. \A h \in Handlers : handler[h] = Idle
    BY DEF FeederInit
  <2> QED
    BY <2>1, <2>2, <2>3 DEF FeederInit, FeederTypeOK, HandlerSteps, Idle
<1>4. HandlerShapes
  BY DEF FeederInit, HandlerShapes, Idle
<1>5. ReceivedCovers
  BY <1>1, <1>2 DEF FeederInit, ReceivedCovers, Uncounted
<1>6. ConsumedStored /\ \A h \in Handlers : HandlerBehind(h)
  BY DEF FeederInit, ConsumedStored, HandlerBehind, Idle
<1> QED
  BY <1>3, <1>4, <1>5, <1>6 DEF Counters

(* A step of the feeder moves the counters up and leaves the handlers.     *)
LEMMA FeederUp ==
    ASSUME Counters, UNCHANGED <<session, consumed, handler, requests>>,
           feeder' \in FeederRecords, stored' \in Nat, done' \in BOOLEAN,
           stored <= stored', ReceivedCovers'
    PROVE  Counters'
<1>1. FeederTypeOK'
  BY DEF Counters, FeederTypeOK
<1>2. HandlerShapes'
  BY DEF Counters, HandlerShapes
<1>3. ConsumedStored'
  BY DEF Counters, ConsumedStored, FeederTypeOK
<1>4. ASSUME NEW h \in Handlers PROVE HandlerBehind(h)'
  BY <1>4 DEF Counters, HandlerBehind, FeederTypeOK
<1> QED
  BY <1>1, <1>2, <1>3, <1>4 DEF Counters

LEMMA FeederMoves ==
    ASSUME Counters, FeederStep
    PROVE  Counters'
<1> USE DEF Counters, FeederTypeOK
<1>1. ASSUME NEW label \in {"connect", "stream", "store", "flush", "fail"},
             feeder.pc \in {"connect", "stream", "pace"},
             FeederGoto(label)
      PROVE  Counters'
  <2>1. /\ feeder' \in FeederRecords
        /\ feeder'.pc = label /\ feeder'.position = feeder.position
    BY <1>1 DEF FeederGoto, FeederRecords
  <2>2. ReceivedCovers'
    BY <1>1, <2>1 DEF FeederGoto, ReceivedCovers, Uncounted, Gathering
  <2> QED
    BY <1>1, <2>1, <2>2, FeederUp DEF FeederGoto
<1>2. CASE Connect
  <2>1. /\ feeder' \in FeederRecords
        /\ feeder'.pc = "stream" /\ feeder'.position = feeder.position
    <3>1. 0 \in 0..FileSize
      BY CacheAssumption
    <3>2. feeder' = [feeder EXCEPT !.pc = "stream", !.served = 0]
      BY <1>2 DEF Connect
    <3> QED
      BY <3>1, <3>2 DEF FeederRecords
  <2>2. ReceivedCovers'
    BY <1>2, <2>1 DEF Connect, ReceivedCovers, Uncounted, Gathering
  <2> QED
    BY <1>2, <2>1, <2>2, FeederUp DEF Connect
<1>3. CASE Receive
  BY <1>1, <1>3 DEF Receive
<1>4. CASE EndOfStream
  BY <1>1, <1>4 DEF EndOfStream
<1>5. CASE Store
  <2>1. PICK n \in {Lesser(m, FileSize - feeder.served) : m \in ChunkLens} :
           LET r == StoreBytes(cache, feeder.position, Cells(feeder.served, n))
           IN  /\ cache' = r.cache
               /\ feeder' = [feeder EXCEPT !.pc = "count",
                                           !.committed = r.committed,
                                           !.position = @ + n,
                                           !.served = @ + n]
    BY <1>5 DEF Store
  <2>2. /\ n \in Nat /\ feeder.served + n \in 0..FileSize
        /\ feeder.position \in Nat /\ feeder.served \in Nat
    BY FeederAssumption, CacheAssumption DEF Lesser, FeederRecords
  <2> DEFINE r == StoreBytes(cache, feeder.position, Cells(feeder.served, n))
  <2>3. CacheShape(cache) /\ stored + Cardinality(Gathered(cache)) <= feeder.position
    BY <1>5 DEF Store, ReceivedCovers, Uncounted, Gathering
  <2>4. Cardinality(Gathered(cache)) \in Nat
    BY <2>3, GatheredFinite
  <2>5. /\ CacheShape(r.cache)
        /\ r.committed \in Nat
        /\ Cardinality(Gathered(r.cache)) + r.committed <= Cardinality(Gathered(cache)) + n
    BY <2>2, <2>3, CellsSeq, StoreCounted
  <2>6. Cardinality(Gathered(r.cache)) \in Nat
    BY <2>5, GatheredFinite
  <2> HIDE DEF r
  <2>7. cache' = r.cache
    BY <2>1 DEF r
  <2>8. feeder' = [feeder EXCEPT !.pc = "count", !.committed = r.committed,
                                 !.position = @ + n, !.served = @ + n]
    BY <2>1 DEF r
  <2>9. /\ feeder' \in FeederRecords
        /\ feeder'.pc = "count" /\ feeder'.position = feeder.position + n
        /\ feeder'.committed = r.committed
    <3>1. /\ feeder.position + n \in Nat
          /\ feeder = [pc |-> feeder.pc, position |-> feeder.position, served |-> feeder.served,
                       attempt |-> feeder.attempt, committed |-> feeder.committed]
          /\ feeder.attempt \in 0..(Retries - 1)
      BY <2>2 DEF FeederRecords
    <3>2. feeder' = [pc |-> "count", position |-> feeder.position + n,
                     served |-> feeder.served + n, attempt |-> feeder.attempt,
                     committed |-> r.committed]
      BY <2>8, <3>1
    <3> QED
      BY <2>2, <2>5, <3>1, <3>2 DEF FeederRecords
  <2>10. UNCHANGED <<session, stored, consumed, done, handler, requests>>
    BY <1>5 DEF Store
  <2>11. ReceivedCovers'
    <3>1. stored + r.committed + Cardinality(Gathered(r.cache)) <= feeder.position + n
      BY <2>2, <2>3, <2>4, <2>5, <2>6
    <3>2. Uncounted' = r.committed
      BY <2>9 DEF Uncounted
    <3>3. stored <= feeder.position + n
      BY <2>2, <2>3, <2>4
    <3> QED
      BY <2>5, <2>7, <2>9, <2>10, <3>1, <3>2, <3>3 DEF ReceivedCovers
  <2> QED
    BY <2>9, <2>10, <2>11, FeederUp
<1>6. CASE Count
  <2>1. /\ feeder' \in FeederRecords
        /\ feeder'.pc = "pace" /\ feeder'.position = feeder.position
        /\ feeder.committed \in Nat /\ feeder.position \in Nat
    BY <1>6 DEF Count, FeederRecords
  <2>2. /\ CacheShape(cache)
        /\ stored + feeder.committed + Cardinality(Gathered(cache)) <= feeder.position
    BY <1>6 DEF Count, ReceivedCovers, Uncounted, Gathering
  <2>3. Cardinality(Gathered(cache)) \in Nat
    BY <2>2, GatheredFinite
  <2>4. cache' = cache /\ stored' = stored + feeder.committed
    BY <1>6 DEF Count
  <2>5. ReceivedCovers'
    BY <2>1, <2>2, <2>3, <2>4 DEF ReceivedCovers, Uncounted
  <2>6. stored' \in Nat /\ stored <= stored'
    BY <2>1, <2>4
  <2> QED
    BY <1>6, <2>1, <2>5, <2>6, FeederUp DEF Count
<1>7. CASE Pace
  BY <1>1, <1>7 DEF Pace
<1>8. CASE Flush
  <2>1. /\ feeder' \in FeederRecords
        /\ feeder'.pc = "finish" /\ feeder'.position = feeder.position
    BY <1>8 DEF Flush, FeederRecords
  <2>2. /\ CacheShape(cache)
        /\ stored + Cardinality(Gathered(cache)) <= feeder.position
    BY <1>8 DEF Flush, ReceivedCovers, Uncounted, Gathering
  <2>3. Cardinality(Gathered(cache)) \in Nat
    BY <2>2, GatheredFinite
  <2>4. stored' = stored + Cardinality(Gathered(cache))
    BY <1>8 DEF Flush, FlushPending
  <2>5. ReceivedCovers'
    BY <2>1, <2>2, <2>3, <2>4 DEF ReceivedCovers, Gathering
  <2>6. stored' \in Nat /\ stored <= stored'
    BY <2>3, <2>4
  <2> QED
    BY <1>8, <2>1, <2>5, <2>6, FeederUp DEF Flush
<1>9. CASE Finish
  <2>1. /\ feeder' \in FeederRecords
        /\ feeder'.pc = "ended" /\ feeder'.position = feeder.position
    BY <1>9 DEF Finish, FeederRecords
  <2>2. ReceivedCovers'
    BY <1>9, <2>1 DEF Finish, ReceivedCovers, Gathering
  <2> QED
    BY <1>9, <2>1, <2>2, FeederUp DEF Finish
<1>10. CASE Break
  <2>1. /\ feeder' \in FeederRecords
        /\ feeder'.pc \in {"connect", "fail"} /\ feeder'.position = feeder.position
    <3>1. CASE feeder.attempt + 1 < Retries /\ ~stop_event
      <4>1. feeder' = [feeder EXCEPT !.pc = "connect", !.attempt = @ + 1]
        BY <1>10, <3>1 DEF Break
      <4>2. feeder.attempt + 1 \in 0..(Retries - 1)
        BY <3>1, FeederAssumption DEF FeederRecords
      <4> QED
        BY <4>1, <4>2 DEF FeederRecords
    <3>2. CASE ~(feeder.attempt + 1 < Retries /\ ~stop_event)
      <4>1. feeder' = [feeder EXCEPT !.pc = "fail"]
        BY <1>10, <3>2 DEF Break
      <4> QED
        BY <4>1 DEF FeederRecords
    <3> QED
      BY <3>1, <3>2
  <2>2. ReceivedCovers'
    BY <1>10, <2>1 DEF Break, ReceivedCovers, Uncounted, Gathering
  <2> QED
    BY <1>10, <2>1, <2>2, FeederUp DEF Break
<1>11. CASE BadStatus
  BY <1>1, <1>11 DEF BadStatus
<1> QED
  BY <1>2, <1>3, <1>4, <1>5, <1>6, <1>7, <1>8, <1>9, <1>10, <1>11 DEF FeederStep

(* Only handler h moves, and it becomes the record next. *)
Becomes(h, next) ==
    /\ handler' = [g \in Handlers |-> IF g = h THEN next ELSE handler[g]]
    /\ next = [pc |-> next.pc, pos |-> next.pos, avail |-> next.avail,
               data |-> next.data, sent |-> next.sent]
    /\ next.pc \in HandlerSteps /\ next.pos \in Nat /\ next.avail \in Nat
    /\ next.pos <= IF next.pc = "report" THEN stored ELSE consumed'
    /\ next.pc \in {"read", "write"} => next.avail <= stored

(* A step of a handler leaves the feeder's side alone. *)
LEMMA HandlerUp ==
    ASSUME Counters, NEW h \in Handlers, Becomes(h, handler'[h]),
           UNCHANGED <<session, feeder, stored, done>>,
           requests' \in 0..MaxRequests,
           consumed' \in Nat, consumed <= consumed', consumed' <= stored,
           ReceivedCovers'
    PROVE  Counters'
<1> DEFINE next == handler'[h]
<1> HIDE DEF next
<1>0. Becomes(h, next)
  BY DEF next
<1>1. \A g \in Handlers : handler'[g] = IF g = h THEN next ELSE handler[g]
  BY <1>0 DEF Becomes
<1>2. handler' = [g \in Handlers |-> handler'[g]]
  BY <1>0 DEF Becomes
<1>3. ASSUME NEW g \in Handlers
      PROVE  /\ handler'[g].pc \in HandlerSteps /\ handler'[g].pos \in Nat
             /\ handler'[g].avail \in Nat
             /\ HandlerBehind(g)'
  <2>1. CASE g = h
    BY <1>0, <1>1, <2>1 DEF Becomes, HandlerBehind
  <2>2. CASE g # h
    <3>1. handler'[g] = handler[g]
      BY <1>1, <2>2
    <3>2. consumed \in Nat /\ handler[g].pos \in Nat
      BY DEF Counters, FeederTypeOK
    <3> QED
      BY <3>1, <3>2 DEF Counters, FeederTypeOK, HandlerBehind
  <2> QED
    BY <2>1, <2>2
<1>4. HandlerShapes'
  <2>1. ASSUME NEW g \in Handlers
        PROVE  handler'[g] = [pc |-> handler'[g].pc, pos |-> handler'[g].pos,
                              avail |-> handler'[g].avail, data |-> handler'[g].data,
                              sent |-> handler'[g].sent]
    BY <1>0, <1>1 DEF Becomes, Counters, HandlerShapes
  <2> QED
    BY <1>2, <2>1 DEF HandlerShapes
<1>5. FeederTypeOK'
  BY <1>3 DEF Counters, FeederTypeOK
<1>6. ConsumedStored'
  BY DEF ConsumedStored
<1> QED
  BY <1>3, <1>4, <1>5, <1>6 DEF Counters

LEMMA HandlerMoves ==
    ASSUME Counters, NEW h \in Handlers, HandlerStep(h)
    PROVE  Counters'
<1> DEFINE me == handler[h]
           next == handler'[h]
<1>1. /\ me.pos \in Nat /\ me.avail \in Nat
      /\ me.pc # "report" => me.pos <= consumed
      /\ me.pc = "report" => me.pos <= stored
      /\ me.pc \in {"read", "write"} => me.avail <= stored
      /\ stored \in Nat /\ consumed \in Nat /\ consumed <= stored
      /\ requests \in 0..MaxRequests
  BY DEF Counters, FeederTypeOK, HandlerBehind, ConsumedStored
<1>2. /\ me = [pc |-> me.pc, pos |-> me.pos, avail |-> me.avail,
               data |-> me.data, sent |-> me.sent]
      /\ handler = [g \in Handlers |-> handler[g]]
  BY DEF Counters, HandlerShapes
<1>3. HandlerOnly => ReceivedCovers'
  BY DEF Counters, HandlerOnly, ReceivedCovers, Uncounted
<1>4. ASSUME Becomes(h, next), UNCHANGED <<session, feeder, stored, done, requests>>,
              consumed' \in Nat, consumed <= consumed', consumed' <= stored,
              ReceivedCovers'
       PROVE  Counters'
  BY <1>1, <1>4, HandlerUp
<1>5. ASSUME Becomes(h, next), HandlerOnly
      PROVE  Counters'
  BY <1>1, <1>3, <1>5, <1>4 DEF HandlerOnly
<1> HIDE DEF next
<1>6. ASSUME NEW r, handler' = [handler EXCEPT ![h] = r]
      PROVE  /\ next = r
             /\ handler' = [g \in Handlers |-> IF g = h THEN next ELSE handler[g]]
  BY <1>2, <1>6 DEF next
<1>7. ASSUME NEW label \in {"wait", "next", "answered"}, me.pos <= consumed',
             handler' = [handler EXCEPT ![h].pc = label]
      PROVE  Becomes(h, next)
  <2>1. handler' = [handler EXCEPT ![h] = [me EXCEPT !.pc = label]]
    BY <1>2, <1>7
  <2>2. next = [me EXCEPT !.pc = label]
    BY <1>6, <2>1
  <2>3. next = [pc |-> label, pos |-> me.pos, avail |-> me.avail, data |-> me.data,
                sent |-> me.sent]
    BY <1>2, <2>2
  <2> QED
    BY <1>1, <1>6, <1>7, <2>1, <2>3 DEF Becomes, HandlerSteps
<1>8. CASE WaitUntil(h)
  <2> DEFINE a == Lesser(stored, Want(me.pos))
  <2>1. a \in Nat /\ a <= stored
    BY <1>1, FeederAssumption, CacheAssumption DEF Lesser, Want
  <2>2. me.pc = "wait" /\ HandlerOnly
    BY <1>8 DEF WaitUntil
  <2>3. \/ handler' = [handler EXCEPT ![h].pc = "read", ![h].avail = a]
        \/ handler' = [handler EXCEPT ![h].pc = "answered"]
    BY <1>8 DEF WaitUntil
  <2> HIDE DEF a
  <2>4. CASE handler' = [handler EXCEPT ![h].pc = "read", ![h].avail = a]
    <3>1. handler' = [handler EXCEPT ![h] = [me EXCEPT !.pc = "read", !.avail = a]]
      BY <1>2, <2>4
    <3>2. next = [me EXCEPT !.pc = "read", !.avail = a]
      BY <1>6, <3>1
    <3>3. next = [pc |-> "read", pos |-> me.pos, avail |-> a, data |-> me.data, sent |-> me.sent]
      BY <1>2, <3>2
    <3>4. Becomes(h, next)
      BY <1>1, <1>6, <2>1, <2>2, <3>1, <3>3 DEF Becomes, HandlerOnly, HandlerSteps
    <3> QED
      BY <1>5, <2>2, <3>4
  <2>5. CASE handler' = [handler EXCEPT ![h].pc = "answered"]
    <3>1. Becomes(h, next)
      BY <1>1, <1>7, <2>2, <2>5 DEF HandlerOnly
    <3> QED
      BY <1>5, <2>2, <3>1
  <2> QED
    BY <1>5, <2>2, <2>3, <2>4, <2>5
<1>9. CASE Read(h)
  <2> DEFINE r == ReadSpan(cache, me.pos, me.avail)
  <2>1. /\ cache' = r.cache
        /\ handler' = [handler EXCEPT
                  ![h] = IF r.data = None THEN [@ EXCEPT !.pc = "wait"]
                         ELSE [@ EXCEPT !.pc = "write", !.data = r.data]]
        /\ UNCHANGED <<session, feeder, stored, consumed, done, requests>>
        /\ me.pc = "read"
    BY <1>9 DEF Read
  <2>2. \E lru : r.cache = [cache EXCEPT !.lru = lru]
    BY DEF ReadSpan
  <2> HIDE DEF r
  <2>3. CacheShape(cache) => CacheShape(cache') /\ Gathered(cache') = Gathered(cache)
    <3> SUFFICES ASSUME CacheShape(cache)
                 PROVE  CacheShape(cache') /\ Gathered(cache') = Gathered(cache)
      OBVIOUS
    <3>1. PICK lru : cache' = [cache EXCEPT !.lru = lru]
      BY <2>1, <2>2
    <3>2. cache' = [blocks |-> cache.blocks, lru |-> lru,
                    pending |-> cache.pending, resident |-> cache.resident]
      BY <3>1 DEF CacheShape
    <3> QED
      BY <3>2 DEF CacheShape, Gathered
  <2>4. ReceivedCovers'
    BY <2>1, <2>3 DEF Counters, ReceivedCovers, Uncounted
  <2>5. Becomes(h, next)
    <3>1. CASE r.data = None
      BY <1>1, <1>7, <2>1, <3>1 DEF HandlerSteps
    <3>2. CASE r.data # None
      <4>1. handler' = [handler EXCEPT ![h] = [me EXCEPT !.pc = "write", !.data = r.data]]
        BY <2>1, <3>2
      <4>2. next = [me EXCEPT !.pc = "write", !.data = r.data]
        BY <1>6, <4>1
      <4>3. next = [pc |-> "write", pos |-> me.pos, avail |-> me.avail, data |-> r.data,
                    sent |-> me.sent]
        BY <1>2, <4>2
      <4> QED
        BY <1>1, <1>6, <2>1, <4>1, <4>3 DEF Becomes, HandlerSteps
    <3> QED
      BY <3>1, <3>2
  <2> QED
    BY <1>1, <1>4, <2>1, <2>4, <2>5
<1>10. CASE Write(h)
  <2>1. handler' = [handler EXCEPT ![h] = [me EXCEPT !.pc = "report",
                                                     !.sent = @ \o me.data,
                                                     !.data = <<>>,
                                                     !.pos = me.avail]]
    BY <1>2, <1>10 DEF Write
  <2>2. next = [pc |-> "report", pos |-> me.avail, avail |-> me.avail, data |-> <<>>,
                sent |-> me.sent \o me.data]
    BY <1>2, <1>6, <2>1
  <2>3. me.pc = "write" /\ HandlerOnly
    BY <1>10 DEF Write
  <2>4. Becomes(h, next)
    BY <1>1, <1>6, <2>1, <2>2, <2>3 DEF Becomes, HandlerSteps
  <2> QED
    BY <1>5, <2>3, <2>4
<1>11. CASE Report(h)
  <2>1. /\ me.pc = "report"
        /\ consumed' = Greater(consumed, me.pos)
        /\ UNCHANGED <<cache, session, feeder, stored, done, requests>>
        /\ handler' = [handler EXCEPT ![h].pc = "next"]
    BY <1>11 DEF Report
  <2>2. ReceivedCovers'
    BY <2>1 DEF Counters, ReceivedCovers, Uncounted
  <2>3. /\ consumed' \in Nat /\ consumed <= consumed' /\ consumed' <= stored
        /\ me.pos <= consumed'
    BY <1>1, <2>1 DEF Greater
  <2>4. Becomes(h, next)
    BY <1>1, <1>7, <2>1, <2>3 DEF HandlerSteps
  <2> QED
    BY <1>4, <2>1, <2>2, <2>3, <2>4
<1>12. CASE Continue(h)
  <2>1. me.pc = "next" /\ HandlerOnly
    BY <1>12 DEF Continue
  <2>2. \/ handler' = [handler EXCEPT ![h].pc = "answered"]
        \/ handler' = [handler EXCEPT ![h].pc = "wait"]
    BY <1>12 DEF Continue
  <2>3. Becomes(h, next)
    BY <1>1, <1>7, <2>1, <2>2 DEF HandlerOnly
  <2> QED
    BY <1>5, <2>1, <2>3
<1>13. CASE Close(h) \/ ClientGone(h)
  <2>1. HandlerOnly /\ handler' = [handler EXCEPT ![h] = Idle]
    BY <1>13 DEF Close, ClientGone
  <2>2. next = [pc |-> "idle", pos |-> 0, avail |-> 0, data |-> <<>>, sent |-> <<>>]
    BY <1>6, <2>1 DEF Idle
  <2>3. consumed' \in Nat /\ 0 <= consumed'
    BY <1>1, <2>1 DEF HandlerOnly
  <2>4. Becomes(h, next)
    BY <1>6, <2>1, <2>2, <2>3 DEF Becomes, HandlerSteps
  <2> QED
    BY <1>5, <2>1, <2>4
<1> QED
  BY <1>8, <1>9, <1>10, <1>11, <1>12, <1>13 DEF HandlerStep

(* A new request starts from where the connection was left. *)
LEMMA RequestMoves ==
    ASSUME Counters, NEW h \in Handlers, Request(h)
    PROVE  Counters'
<1> DEFINE me == handler[h]
           next == handler'[h]
<1>1. /\ me = [pc |-> me.pc, pos |-> me.pos, avail |-> me.avail,
               data |-> me.data, sent |-> me.sent]
      /\ handler = [g \in Handlers |-> handler[g]]
      /\ me.pc = "idle" /\ me.pos \in Nat /\ me.avail \in Nat
      /\ me.pos <= consumed
      /\ stored \in Nat /\ consumed \in Nat /\ consumed <= stored
  BY DEF Counters, FeederTypeOK, HandlerShapes, HandlerBehind, ConsumedStored, Request
<1>2. handler' = [handler EXCEPT ![h] = [me EXCEPT !.pc = "wait"]]
  BY <1>1 DEF Request
<1>3. /\ next = [me EXCEPT !.pc = "wait"]
      /\ handler' = [g \in Handlers |-> IF g = h THEN next ELSE handler[g]]
  BY <1>1, <1>2
<1>4. UNCHANGED <<cache, session, feeder, stored, consumed, done>>
  BY DEF Request
<1>5. requests' \in 0..MaxRequests
  BY FeederAssumption DEF Counters, FeederTypeOK, Request
<1>6. ReceivedCovers'
  BY <1>4 DEF Counters, ReceivedCovers, Uncounted
<1> HIDE DEF next
<1>7. next = [pc |-> "wait", pos |-> me.pos, avail |-> me.avail, data |-> me.data,
              sent |-> me.sent]
  BY <1>1, <1>3
<1>8. Becomes(h, next)
  BY <1>1, <1>3, <1>4, <1>7 DEF Becomes, HandlerSteps
<1>9. Becomes(h, handler'[h])
  BY <1>8 DEF next
<1> QED
  BY <1>1, <1>4, <1>5, <1>6, <1>9, HandlerUp

LEMMA SessionMoves ==
    ASSUME Counters, Stop \/ Clear
    PROVE  Counters'
<1>1. /\ session' \in {"stopped", "cleared"}
      /\ done' \in BOOLEAN
      /\ UNCHANGED <<feeder, stored, consumed, handler, requests>>
      /\ cache' \in {cache, EmptyCache}
  BY DEF Stop, Clear, Counters, FeederTypeOK
<1>2. CacheShape(EmptyCache) /\ Cardinality(Gathered(EmptyCache)) = 0
  <2>1. DOMAIN EmptyCache.pending = {}
    BY DEF EmptyCache, NoEntries
  <2>2. IsFiniteSet(DOMAIN EmptyCache.pending)
    BY <2>1, FS_EmptySet
  <2>3. CacheShape(EmptyCache)
    BY <2>1, <2>2 DEF CacheShape, EmptyCache
  <2>4. Gathered(EmptyCache) = {}
    BY <2>1 DEF Gathered, CellsIn
  <2> QED
    BY <2>3, <2>4, FS_EmptySet
<1>3. ReceivedCovers'
  <2>1. CASE cache' = cache
    BY <1>1, <2>1 DEF Counters, ReceivedCovers, Uncounted
  <2>2. CASE cache' = EmptyCache
    <3>1. Uncounted' = Uncounted
      BY <1>1 DEF Uncounted
    <3>2. stored \in Nat /\ Uncounted \in Nat /\ feeder.position \in Nat
      BY DEF Counters, FeederTypeOK, FeederRecords, Uncounted
    <3>3. CacheShape(cache) => Cardinality(Gathered(cache)) \in Nat
      BY GatheredFinite
    <3>4. feeder.pc \in Gathering => stored + Uncounted + 0 <= feeder.position
      BY <3>2, <3>3 DEF Counters, ReceivedCovers
    <3> QED
      BY <1>1, <1>2, <2>2, <3>1, <3>4 DEF Counters, ReceivedCovers
  <2> QED
    BY <1>1, <2>1, <2>2
<1>4. FeederTypeOK' /\ HandlerShapes' /\ ConsumedStored'
  BY <1>1 DEF Counters, FeederTypeOK, HandlerShapes, ConsumedStored
<1>5. ASSUME NEW h \in Handlers PROVE HandlerBehind(h)'
  BY <1>1, <1>5 DEF Counters, HandlerBehind
<1> QED
  BY <1>3, <1>4, <1>5 DEF Counters

(* The counters are in order in every state of the feeder's sessions. *)
THEOREM CountersHold == FeederSpec => []Counters
<1>1. Counters /\ [FeederNext]_feederVars => Counters'
  <2> SUFFICES ASSUME Counters, [FeederNext]_feederVars PROVE Counters'
    OBVIOUS
  <2>1. CASE FeederStep
    BY <2>1, FeederMoves
  <2>2. CASE \E h \in Handlers : Request(h) \/ HandlerStep(h)
    BY <2>2, RequestMoves, HandlerMoves
  <2>3. CASE Stop \/ Clear
    BY <2>3, SessionMoves
  <2>4. CASE Quiescent \/ UNCHANGED feederVars
    <3>1. UNCHANGED <<cache, session, feeder, stored, consumed, done, handler, requests>>
      BY <2>4 DEF Quiescent, feederVars
    <3> QED
      BY <3>1 DEF Counters, FeederTypeOK, HandlerShapes, ReceivedCovers, Uncounted,
                  ConsumedStored, HandlerBehind
  <2> QED
    BY <2>1, <2>2, <2>3, <2>4 DEF FeederNext
<1> QED
  BY <1>1, CountersInit, PTL DEF FeederSpec

(* What the shared variables hold, for every media and cache. *)
THEOREM FeederTypes == FeederSpec => []FeederTypeOK
<1>1. Counters => FeederTypeOK
  BY DEF Counters
<1> QED
  BY <1>1, CountersHold, PTL

(* The player is never reported further than what is counted as stored:    *)
(* the two counters proxy.py reads and writes without a common lock keep   *)
(* their order.                                                            *)
THEOREM CountersOrdered == FeederSpec => []ConsumedStored
<1>1. Counters => ConsumedStored
  BY DEF Counters
<1> QED
  BY <1>1, CountersHold, PTL

(* Whatever the pacing, the chunk a handler waits for is already stored    *)
(* while the feeder waits for the player: keep_ahead is at least what one  *)
(* write takes.                                                            *)
THEOREM NobodyWaits == FeederSpec => []NoMutualWait
<1>1. Counters => NoMutualWait
  <2> SUFFICES ASSUME Counters, NEW h \in Handlers,
                      stored - consumed > keep_ahead, handler[h].pc = "wait"
               PROVE  stored >= Want(handler[h].pos)
    BY DEF NoMutualWait
  <2>1. /\ handler[h].pos \in Nat /\ handler[h].pos <= consumed
        /\ stored \in Nat /\ consumed \in Nat
    BY DEF Counters, FeederTypeOK, HandlerBehind
  <2>2. Want(handler[h].pos) <= handler[h].pos + SERVE_CHUNK
    BY <2>1, FeederAssumption, CacheAssumption DEF Want, Lesser
  <2>3. Want(handler[h].pos) \in Int
    BY <2>1, FeederAssumption, CacheAssumption DEF Want, Lesser
  <2> QED
    BY <2>1, <2>2, <2>3, FeederAssumption
<1> QED
  BY <1>1, CountersHold, PTL

-----------------------------------------------------------------------------
(* How far the feeder runs ahead of the player.                            *)

LEMMA Limits ==
    ASSUME NEW f \in Nat
    PROVE  /\ BlockLimit(f) \in Int /\ BlockLimit(f) <= BLOCK_SIZE
           /\ BlockLimit(f) < BLOCK_SIZE => BlockLimit(f + 1) <= 0
<1>1. BLOCK_SIZE \in Nat /\ BLOCK_SIZE > 0 /\ (TotalBytes # None => TotalBytes \in Nat)
  BY CacheAssumption
<1>2. f * BLOCK_SIZE \in Nat /\ (f + 1) * BLOCK_SIZE = f * BLOCK_SIZE + BLOCK_SIZE
  BY <1>1
<1> DEFINE a == f * BLOCK_SIZE
           b == (f + 1) * BLOCK_SIZE
<1>3. /\ BlockLimit(f) = IF TotalBytes = None \/ TotalBytes - a > BLOCK_SIZE
                         THEN BLOCK_SIZE ELSE TotalBytes - a
      /\ BlockLimit(f + 1) = IF TotalBytes = None \/ TotalBytes - b > BLOCK_SIZE
                             THEN BLOCK_SIZE ELSE TotalBytes - b
  BY DEF BlockLimit
<1>4. a \in Nat /\ b = a + BLOCK_SIZE
  BY <1>2
<1> HIDE DEF a, b
<1> QED
  BY <1>1, <1>3, <1>4

(* The buffers behind position p hold the g cells stored there last and    *)
(* not committed: one block's, the one p is in or - past the announced end *)
(* - an older one.                                                         *)
LeftIn(c, i, p, g) ==
    /\ DOMAIN c.pending \subseteq {i}
    /\ g = IF i \in DOMAIN c.pending THEN Len(c.pending[i]) ELSE 0
    /\ i <= FirstBlock(p)
    /\ i = FirstBlock(p) => g <= p % BLOCK_SIZE
    /\ i < FirstBlock(p) => BlockLimit(FirstBlock(p)) <= 0
    /\ BlockLimit(FirstBlock(p)) = BLOCK_SIZE => g = p % BLOCK_SIZE

LeftOver(c, p, g) == g < BLOCK_SIZE /\ \E i \in Nat : LeftIn(c, i, p, g)

LEMMA PieceLeaves ==
    ASSUME NEW r, Stored(r), NEW p \in Nat, NEW piece \in Seq(Nat),
           (p % BLOCK_SIZE) + Len(piece) <= BLOCK_SIZE,
           NEW g \in Nat, LeftOver(r.cache, p, g)
    PROVE  LET q == StorePiece(r, p, piece)
           IN  \E h \in Nat : /\ LeftOver(q.cache, p + Len(piece), h)
                              /\ h + q.committed = g + r.committed + Len(piece)
<1> DEFINE c   == r.cache
           f   == FirstBlock(p)
           o   == p % BLOCK_SIZE
           n   == Len(piece)
           f2  == FirstBlock(p + n)
           o2  == (p + n) % BLOCK_SIZE
           buf == Buffered(c, f, piece)
           q   == StorePiece(r, p, piece)
           L   == BlockLimit(f)
           L2  == BlockLimit(f2)
           goal == \E x \in Nat : /\ LeftOver(q.cache, p + n, x)
                                   /\ x + q.committed = g + r.committed + n
<1> SUFFICES goal
  OBVIOUS
<1>1. PICK i \in Nat : LeftIn(c, i, p, g)
  BY DEF LeftOver
<1>2. /\ n \in Nat /\ f \in Nat /\ o \in 0..(BLOCK_SIZE - 1)
      /\ o + n < BLOCK_SIZE => f2 = f /\ o2 = o + n
      /\ o + n = BLOCK_SIZE => f2 = f + 1 /\ o2 = 0
      /\ o + n <= BLOCK_SIZE
      /\ BLOCK_SIZE \in Nat /\ BLOCK_SIZE > 0
  <2>1. n \in Nat /\ o + n <= BLOCK_SIZE
    OBVIOUS
  <2> HIDE DEF n
  <2>2. /\ o + n < BLOCK_SIZE => f2 = f /\ o2 = o + n
        /\ o + n = BLOCK_SIZE => f2 = f + 1 /\ o2 = 0
        /\ f \in Nat /\ o \in 0..(BLOCK_SIZE - 1)
    BY <2>1, Advance
  <2>3. BLOCK_SIZE \in Nat /\ BLOCK_SIZE > 0
    BY CacheAssumption
  <2> QED
    BY <2>1, <2>2, <2>3
<1>3. f2 \in Nat /\ f <= f2 /\ o2 \in Nat
  BY <1>2
<1>4. /\ L \in Int /\ L <= BLOCK_SIZE
      /\ L2 \in Int /\ L2 <= BLOCK_SIZE
      /\ o + n = BLOCK_SIZE /\ L < BLOCK_SIZE => L2 <= 0
      /\ o + n < BLOCK_SIZE => L2 = L
  <2>1. /\ L \in Int /\ L <= BLOCK_SIZE
        /\ L < BLOCK_SIZE => BlockLimit(f + 1) <= 0
    BY <1>2, Limits
  <2>2. L2 \in Int /\ L2 <= BLOCK_SIZE
    BY <1>3, Limits
  <2> QED
    BY <1>2, <2>1, <2>2
<1>5. /\ buf \in Seq(Nat)
      /\ Len(buf) = n + (IF f \in DOMAIN c.pending THEN Len(c.pending[f]) ELSE 0)
  BY DEF Buffered, Stored, CacheShape
<1>6. /\ DOMAIN c.pending \subseteq {i}
      /\ g = IF i \in DOMAIN c.pending THEN Len(c.pending[i]) ELSE 0
      /\ i <= f
      /\ i = f => g <= o
      /\ i < f => L <= 0
      /\ L = BLOCK_SIZE => g = o
      /\ g < BLOCK_SIZE
  BY <1>1 DEF LeftIn, LeftOver
<1>7. r.committed \in Nat
  BY DEF Stored
<1>8. Len(buf) \in Nat /\ (Len(buf) <= BLOCK_SIZE => Len(FullBlock(buf)) = Len(buf))
  <2> HIDE DEF buf
  <2>1. Len(buf) \in Nat
    BY <1>5
  <2>2. Len(buf) <= BLOCK_SIZE => ~(Len(buf) > BLOCK_SIZE)
    BY <1>2, <2>1
  <2>3. ~(Len(buf) > BLOCK_SIZE) => FullBlock(buf) = buf
    BY DEF FullBlock
  <2> QED
    BY <2>1, <2>2, <2>3
<1>9. /\ Len(buf) >= L => /\ q.cache.pending = Drop(c.pending, {f})
                          /\ q.committed = r.committed + Len(FullBlock(buf))
      /\ ~(Len(buf) >= L) => /\ q.cache.pending = Put(c.pending, f, buf)
                             /\ q.committed = r.committed
  <2>1. CASE Len(buf) >= L
    <3>1. q = [cache |-> Commit(c, f, FullBlock(buf)),
               committed |-> r.committed + Len(FullBlock(buf))]
      BY <2>1 DEF StorePiece
    <3> HIDE DEF buf, q
    <3> QED
      BY <2>1, <3>1 DEF Commit
  <2>2. CASE ~(Len(buf) >= L)
    <3>1. q = [r EXCEPT !.cache.pending = Put(@, f, buf)]
      BY <2>2 DEF StorePiece
    <3> HIDE DEF buf, q
    <3>2. q = [cache |-> [c EXCEPT !.pending = Put(@, f, buf)], committed |-> r.committed]
      BY <3>1 DEF Stored
    <3> QED
      BY <2>2, <3>2 DEF Stored, CacheShape
  <2> QED
    BY <2>1, <2>2
<1> HIDE DEF c, f, o, n, f2, o2, buf, q, L, L2
<1>10. ASSUME NEW j \in Nat, NEW h \in Nat,
              DOMAIN q.cache.pending \subseteq {j},
              h = IF j \in DOMAIN q.cache.pending THEN Len(q.cache.pending[j]) ELSE 0,
              j <= f2, j = f2 => h <= o2, j < f2 => L2 <= 0, L2 = BLOCK_SIZE => h = o2,
              h < BLOCK_SIZE,
              h + q.committed = g + r.committed + n
       PROVE  goal
  <2>1. LeftIn(q.cache, j, p + n, h)
    BY <1>10 DEF LeftIn, f2, o2, L2
  <2> QED
    BY <1>10, <2>1 DEF LeftOver
<1> HIDE DEF goal
<1>11. CASE i = f /\ Len(buf) >= L
  <2>1. Len(buf) = g + n /\ Len(buf) <= BLOCK_SIZE
    <3>1. g = IF f \in DOMAIN c.pending THEN Len(c.pending[f]) ELSE 0
      BY <1>6, <1>11
    <3>2. Len(buf) = n + g
      BY <1>5, <3>1
    <3>3. g <= o /\ o + n <= BLOCK_SIZE
      BY <1>2, <1>6, <1>11
    <3> QED
      BY <1>2, <3>2, <3>3
  <2>2. DOMAIN q.cache.pending = {}
    BY <1>6, <1>9, <1>11 DEF Drop
  <2>3. 0 + q.committed = g + r.committed + n
    <3>1. q.committed = r.committed + Len(FullBlock(buf)) /\ Len(FullBlock(buf)) = g + n
      BY <1>8, <1>9, <1>11, <2>1
    <3> QED
      BY <1>2, <1>7, <3>1
  <2>4. L2 = BLOCK_SIZE => 0 = o2
    BY <1>2, <1>4, <1>6, <1>11, <2>1
  <2> QED
    BY <1>2, <1>3, <1>10, <2>2, <2>3, <2>4
<1>12. CASE i = f /\ ~(Len(buf) >= L)
  <2>1. Len(buf) = g + n /\ Len(buf) < L
    BY <1>2, <1>4, <1>5, <1>6, <1>12
  <2>2. DOMAIN q.cache.pending = {f} /\ q.cache.pending[f] = buf
    BY <1>6, <1>9, <1>12 DEF Put
  <2>3. /\ f = f2 => g + n <= o2
        /\ f < f2 => L2 <= 0
        /\ L2 = BLOCK_SIZE => g + n = o2
        /\ g + n < BLOCK_SIZE
    <3>1. /\ g <= o /\ g + n < L /\ (L = BLOCK_SIZE => g = o)
          /\ L \in Int /\ L <= BLOCK_SIZE /\ o \in Nat /\ n \in Nat /\ f \in Nat
      BY <1>2, <1>4, <1>6, <1>12, <2>1
    <3>2. CASE o + n < BLOCK_SIZE
      BY <1>2, <1>4, <3>1, <3>2
    <3>3. CASE o + n = BLOCK_SIZE
      <4>1. L < BLOCK_SIZE
        BY <1>2, <3>1, <3>3
      <4> QED
        BY <1>2, <1>4, <3>1, <3>3, <4>1
    <3> QED
      BY <1>2, <3>1, <3>2, <3>3
  <2>4. g + n + q.committed = g + r.committed + n
    BY <1>2, <1>7, <1>9, <1>12
  <2> QED
    BY <1>2, <1>3, <1>10, <2>1, <2>2, <2>3, <2>4
<1>13. CASE i < f
  <2>1. f \notin DOMAIN c.pending
    BY <1>6, <1>13
  <2>2. Len(buf) = n /\ L <= 0
    BY <1>2, <1>5, <1>6, <1>13, <2>1
  <2>3. /\ q.cache.pending = Drop(c.pending, {f})
        /\ q.committed = r.committed + n
    BY <1>2, <1>4, <1>8, <1>9, <2>2
  <2>4. /\ DOMAIN q.cache.pending = DOMAIN c.pending
        /\ \A j \in DOMAIN c.pending : q.cache.pending[j] = c.pending[j]
    BY <2>1, <2>3 DEF Drop
  <2>5. L2 <= 0 /\ L2 # BLOCK_SIZE
    BY <1>2, <1>4, <2>2
  <2>6. g + q.committed = g + r.committed + n
    BY <1>2, <1>7, <2>3
  <2> QED
    BY <1>2, <1>3, <1>6, <1>10, <1>13, <2>4, <2>5, <2>6
<1>14. i \in Nat /\ i <= f
  BY <1>6
<1> QED
  BY <1>2, <1>11, <1>12, <1>13, <1>14

(* store_bytes: what is neither counted nor left over has been there before. *)
LEMMA StoreLeaves ==
    ASSUME NEW c, CacheShape(c), NEW p \in Nat,
           NEW data \in Seq(Nat), Len(data) <= BLOCK_SIZE,
           NEW g \in Nat, LeftOver(c, p, g)
    PROVE  LET r == StoreBytes(c, p, data)
           IN  \E h \in Nat : /\ LeftOver(r.cache, p + Len(data), h)
                              /\ h + r.committed = g + Len(data)
<1> DEFINE r == [cache |-> c, committed |-> 0]
<1>1. Stored(r) /\ LeftOver(r.cache, p, g) /\ r.committed = 0
  BY DEF Stored
<1>2. PICK q : /\ \/ /\ Len(data) <= Room(p)
                    /\ q = StorePiece(r, p, data)
                 \/ /\ Len(data) > Room(p)
                    /\ q = StorePiece(StorePiece(r, p, SubSeq(data, 1, Room(p))),
                                      p + Room(p), SubSeq(data, Room(p) + 1, Len(data)))
               /\ Stored(q)
               /\ StoreBytes(c, p, data) = [cache |-> Evict(q.cache),
                                           committed |-> q.committed]
  BY StoreByPieces, SMTT(30)
<1> HIDE DEF r
<1>3. /\ Room(p) = BLOCK_SIZE - (p % BLOCK_SIZE) /\ Room(p) \in 1..BLOCK_SIZE
      /\ Len(data) \in Nat /\ p % BLOCK_SIZE \in Nat
      /\ BLOCK_SIZE \in Nat /\ BLOCK_SIZE > 0
  <2>1. Room(p) \in 1..BLOCK_SIZE /\ p % BLOCK_SIZE \in Nat
    BY RoomBounds
  <2> QED
    BY <2>1, CacheAssumption DEF Room
<1>4. ASSUME Len(data) <= Room(p), q = StorePiece(r, p, data)
      PROVE  \E h \in Nat : /\ LeftOver(q.cache, p + Len(data), h)
                            /\ h + q.committed = g + Len(data)
  <2>1. (p % BLOCK_SIZE) + Len(data) <= BLOCK_SIZE
    BY <1>3, <1>4
  <2>2. \E h \in Nat : /\ LeftOver(q.cache, p + Len(data), h)
                       /\ h + q.committed = g + r.committed + Len(data)
    BY <1>1, <1>4, <2>1, PieceLeaves
  <2> QED
    BY <1>1, <1>3, <2>2
<1>5. ASSUME Len(data) > Room(p),
             q = StorePiece(StorePiece(r, p, SubSeq(data, 1, Room(p))),
                            p + Room(p), SubSeq(data, Room(p) + 1, Len(data)))
      PROVE  \E h \in Nat : /\ LeftOver(q.cache, p + Len(data), h)
                            /\ h + q.committed = g + Len(data)
  <2> DEFINE a == SubSeq(data, 1, Room(p))
             b == SubSeq(data, Room(p) + 1, Len(data))
             q1 == StorePiece(r, p, a)
             p2 == p + Room(p)
  <2>1. /\ a \in Seq(Nat) /\ b \in Seq(Nat)
        /\ Len(a) = Room(p) /\ Len(b) = Len(data) - Room(p)
    BY <1>3, <1>5, PiecesOf
  <2>2. q = StorePiece(q1, p2, b)
    BY <1>5
  <2> HIDE DEF a, b
  <2>3. (p % BLOCK_SIZE) + Len(a) <= BLOCK_SIZE
    BY <1>3, <2>1
  <2>4. Stored(q1)
    BY <1>1, <2>1, PieceCounted
  <2>5. \E h \in Nat : /\ LeftOver(q1.cache, p + Len(a), h)
                       /\ h + q1.committed = g + r.committed + Len(a)
    BY <1>1, <2>1, <2>3, PieceLeaves
  <2> HIDE DEF q1
  <2>6. PICK h1 \in Nat : /\ LeftOver(q1.cache, p2, h1)
                          /\ h1 + q1.committed = g + Room(p)
    BY <1>1, <1>3, <2>1, <2>5
  <2>7. p2 \in Nat /\ p2 % BLOCK_SIZE = 0
    <3>1. Room(p) \in Nat /\ (p % BLOCK_SIZE) + Room(p) = BLOCK_SIZE
      BY <1>3
    <3>2. (p % BLOCK_SIZE) + Room(p) <= BLOCK_SIZE
      BY <1>3, <3>1
    <3>3. (p + Room(p)) % BLOCK_SIZE = 0
      BY <3>1, <3>2, Advance
    <3>4. p + Room(p) \in Nat
      BY <3>1
    <3> QED
      BY <3>3, <3>4
  <2>8. p2 + Len(b) = p + Len(data)
    BY <1>3, <2>1
  <2> HIDE DEF p2
  <2>9. (p2 % BLOCK_SIZE) + Len(b) <= BLOCK_SIZE
    BY <1>3, <2>1, <2>7
  <2>10. \E h \in Nat : /\ LeftOver(q.cache, p2 + Len(b), h)
                        /\ h + q.committed = h1 + q1.committed + Len(b)
    <3>1. b \in Seq(Nat) /\ p2 \in Nat /\ LeftOver(q1.cache, p2, h1)
      BY <2>1, <2>6, <2>7
    <3>2. LET s == StorePiece(q1, p2, b)
          IN  \E h \in Nat : /\ LeftOver(s.cache, p2 + Len(b), h)
                             /\ h + s.committed = h1 + q1.committed + Len(b)
      BY <2>4, <2>9, <3>1, PieceLeaves
    <3> QED
      BY <2>2, <3>2
  <2>11. h1 + q1.committed + Len(b) = g + Len(data)
    BY <1>3, <2>1, <2>6
  <2> QED
    BY <2>8, <2>10, <2>11
<1>6. PICK h \in Nat : /\ LeftOver(q.cache, p + Len(data), h)
                       /\ h + q.committed = g + Len(data)
  BY <1>2, <1>4, <1>5
<1>7. LeftOver(Evict(q.cache), p + Len(data), h)
  <2>1. Evict(q.cache).pending = q.cache.pending
    BY <1>2, EvictKeepsBuffers DEF Stored
  <2> QED
    BY <1>6, <2>1 DEF LeftOver, LeftIn
<1> QED
  BY <1>2, <1>6, <1>7

(* While the session is open, what the feeder received and did not count   *)
(* is less than a block: the buffer it is filling.                         *)
Running == {"connect", "stream", "store", "count", "pace"}

TailBuffered ==
    session = "open" /\ feeder.pc \in Running =>
        \E g \in Nat : /\ LeftOver(cache, feeder.position, g)
                       /\ stored + Uncounted + g = feeder.position

Distance == feeder.position - consumed

Paced ==
    /\ TailBuffered
    /\ Distance < keep_ahead + 2 * BLOCK_SIZE
    /\ feeder.pc = "store" => Distance < keep_ahead + BLOCK_SIZE
    /\ feeder.pc \in {"connect", "stream"} /\ session = "open"
          => Distance < keep_ahead + BLOCK_SIZE

LEMMA PacedInit == FeederInit => Paced
<1> SUFFICES ASSUME FeederInit PROVE Paced
  OBVIOUS
<1>1. Distance = 0 /\ 0 < keep_ahead + BLOCK_SIZE /\ 0 < keep_ahead + 2 * BLOCK_SIZE
  BY FeederAssumption, CacheAssumption DEF FeederInit, Distance
<1>2. FirstBlock(0) = 0 /\ 0 % BLOCK_SIZE = 0
  BY PositionIn, CacheAssumption
<1>3. DOMAIN cache.pending = {}
  BY DEF FeederInit, CacheInit, EmptyCache, NoEntries
<1>4. LeftOver(cache, 0, 0)
  BY <1>2, <1>3, CacheAssumption DEF LeftOver, LeftIn
<1>5. TailBuffered
  BY <1>4 DEF FeederInit, TailBuffered, Uncounted
<1> QED
  BY <1>1, <1>5 DEF Paced

(* Steps that leave the buffers and the position of the feeder alone. *)
LEMMA PacedKept ==
    ASSUME Counters, Counters', Paced,
           cache'.pending = cache.pending \/ session' # "open",
           feeder'.position = feeder.position, stored' = stored, Uncounted' = Uncounted,
           consumed <= consumed',
           session' = "open" => session = "open",
           session' = "open" /\ feeder'.pc \in Running => feeder.pc \in Running,
           \/ Distance < keep_ahead + BLOCK_SIZE
           \/ /\ feeder'.pc # "store"
              /\ feeder'.pc \in {"connect", "stream"} => session' # "open"
    PROVE  Paced'
<1>1. /\ consumed \in Nat /\ consumed' \in Nat /\ feeder.position \in Nat
      /\ keep_ahead \in Nat /\ BLOCK_SIZE \in Nat
  BY FeederAssumption, CacheAssumption DEF Counters, FeederTypeOK, FeederRecords
<1>2. Distance' <= Distance /\ Distance \in Int /\ Distance' \in Int
  BY <1>1 DEF Distance
<1>3. TailBuffered'
  <2> SUFFICES ASSUME session' = "open", feeder'.pc \in Running
               PROVE  \E g \in Nat : /\ LeftOver(cache', feeder'.position, g)
                                     /\ stored' + Uncounted' + g = feeder'.position
    BY DEF TailBuffered
  <2>1. PICK g \in Nat : /\ LeftOver(cache, feeder.position, g)
                         /\ stored + Uncounted + g = feeder.position
    BY DEF Paced, TailBuffered
  <2>2. LeftOver(cache', feeder.position, g)
    BY <2>1 DEF LeftOver, LeftIn
  <2> QED
    BY <2>1, <2>2
<1>4. Distance' < keep_ahead + 2 * BLOCK_SIZE
  BY <1>1, <1>2 DEF Paced
<1>5. Distance < keep_ahead + BLOCK_SIZE => Distance' < keep_ahead + BLOCK_SIZE
  BY <1>1, <1>2
<1> QED
  BY <1>3, <1>4, <1>5 DEF Paced

LEMMA PacedMoves ==
    ASSUME Counters, Counters', Paced, FeederStep
    PROVE  Paced'
<1>1. /\ consumed \in Nat /\ stored \in Nat /\ feeder.position \in Nat
      /\ feeder.committed \in Nat /\ feeder.served \in 0..FileSize /\ Uncounted \in Nat
      /\ keep_ahead \in Nat /\ BLOCK_SIZE \in Nat /\ BLOCK_SIZE > 0
      /\ Distance \in Int
  <2>1. /\ consumed \in Nat /\ stored \in Nat /\ feeder.position \in Nat
        /\ feeder.committed \in Nat /\ feeder.served \in 0..FileSize
    BY DEF Counters, FeederTypeOK, FeederRecords
  <2>2. keep_ahead \in Nat /\ BLOCK_SIZE \in Nat /\ BLOCK_SIZE > 0
    BY FeederAssumption, CacheAssumption
  <2>3. Uncounted \in Nat
    BY <2>1 DEF Uncounted
  <2> QED
    BY <2>1, <2>2, <2>3 DEF Distance
<1>2. ASSUME NEW label \in {"connect", "stream", "store", "flush", "fail"},
             feeder.pc \in {"connect", "stream", "pace"},
             FeederGoto(label),
             \/ Distance < keep_ahead + BLOCK_SIZE
             \/ label \in {"flush", "fail"}
             \/ label \in {"connect", "stream"} /\ session # "open"
      PROVE  Paced'
  <2>1. /\ feeder'.pc = label /\ feeder'.position = feeder.position
        /\ UNCHANGED <<cache, session, stored, consumed>>
    BY <1>2 DEF FeederGoto, Counters, FeederTypeOK, FeederRecords
  <2>2. Uncounted' = Uncounted
    BY <1>2, <2>1 DEF Uncounted
  <2>3. consumed <= consumed'
    BY <1>1, <2>1
  <2> QED
    BY <1>2, <2>1, <2>2, <2>3, PacedKept DEF Running
<1>3. CASE Connect
  <2>1. /\ feeder'.pc = "stream" /\ feeder'.position = feeder.position
        /\ UNCHANGED <<cache, session, stored, consumed>>
    BY <1>3 DEF Connect, Counters, FeederTypeOK, FeederRecords
  <2>2. Uncounted' = Uncounted
    BY <1>3, <2>1 DEF Connect, Uncounted
  <2>3. consumed <= consumed'
    BY <1>1, <2>1
  <2>4. Distance < keep_ahead + BLOCK_SIZE \/ session' # "open"
    BY <1>3, <2>1 DEF Connect, Paced
  <2> QED
    BY <1>3, <2>1, <2>2, <2>3, <2>4, PacedKept DEF Connect, Running
<1>4. CASE Receive
  <2>1. feeder.pc = "stream" /\ FeederGoto(IF stop_event THEN "flush" ELSE "store")
    BY <1>4 DEF Receive
  <2>2. CASE stop_event
    BY <1>2, <2>1, <2>2
  <2>3. CASE ~stop_event
    <3>1. Distance < keep_ahead + BLOCK_SIZE
      BY <2>1, <2>3 DEF Paced, stop_event
    <3> QED
      BY <1>2, <2>1, <2>3, <3>1
  <2> QED
    BY <2>2, <2>3
<1>5. CASE EndOfStream
  BY <1>2, <1>5 DEF EndOfStream
<1>6. CASE Store
  <2>1. PICK n \in {Lesser(m, FileSize - feeder.served) : m \in ChunkLens} :
           LET r == StoreBytes(cache, feeder.position, Cells(feeder.served, n))
           IN  /\ cache' = r.cache
               /\ feeder' = [feeder EXCEPT !.pc = "count",
                                           !.committed = r.committed,
                                           !.position = @ + n,
                                           !.served = @ + n]
    BY <1>6 DEF Store
  <2>2. n \in Nat /\ n <= BLOCK_SIZE
    BY <1>1, FeederAssumption, CacheAssumption DEF Lesser
  <2> DEFINE data == Cells(feeder.served, n)
             r == StoreBytes(cache, feeder.position, data)
  <2>3. /\ feeder.pc = "store"
        /\ UNCHANGED <<session, stored, consumed>>
    BY <1>6 DEF Store
  <2>4. data \in Seq(Nat) /\ Len(data) = n
    <3>1. feeder.served \in Nat
      BY <1>1, CacheAssumption
    <3> QED
      BY <2>2, <3>1, CellsSeq
  <2> HIDE DEF data
  <2>5. CacheShape(cache)
    BY <2>3 DEF Counters, ReceivedCovers, Gathering
  <2> HIDE DEF r
  <2>6. /\ cache' = r.cache
        /\ feeder' = [feeder EXCEPT !.pc = "count", !.committed = r.committed,
                                    !.position = @ + n, !.served = @ + n]
    BY <2>1 DEF r, data
  <2>7. /\ feeder'.pc = "count" /\ feeder'.position = feeder.position + n
        /\ feeder'.committed = r.committed
    BY <2>6 DEF Counters, FeederTypeOK, FeederRecords
  <2>8. TailBuffered'
    <3> SUFFICES ASSUME session' = "open"
                 PROVE  \E g \in Nat : /\ LeftOver(cache', feeder'.position, g)
                                       /\ stored' + Uncounted' + g = feeder'.position
      BY DEF TailBuffered
    <3>1. PICK g \in Nat : /\ LeftOver(cache, feeder.position, g)
                           /\ stored + Uncounted + g = feeder.position
      BY <2>3 DEF Paced, TailBuffered, Running
    <3>2. Uncounted = 0 /\ Uncounted' = r.committed
      BY <2>3, <2>7 DEF Uncounted
    <3>3. PICK h \in Nat : /\ LeftOver(r.cache, feeder.position + n, h)
                           /\ h + r.committed = g + n
      <4>1. Len(data) <= BLOCK_SIZE /\ data \in Seq(Nat) /\ feeder.position \in Nat
        BY <1>1, <2>2, <2>4
      <4>2. \E h \in Nat : /\ LeftOver(r.cache, feeder.position + Len(data), h)
                           /\ h + r.committed = g + Len(data)
        BY <2>5, <3>1, <4>1, StoreLeaves DEF r
      <4> QED
        BY <2>4, <4>2
    <3>4. r.committed \in Nat
      BY <1>1, <2>4, <2>5, StoreCounted DEF r
    <3>5. stored' + Uncounted' + h = feeder'.position
      BY <1>1, <2>2, <2>3, <2>7, <3>1, <3>2, <3>3, <3>4
    <3> QED
      BY <2>6, <2>7, <3>3, <3>5
  <2>9. Distance' < keep_ahead + 2 * BLOCK_SIZE
    BY <1>1, <2>2, <2>3, <2>7 DEF Paced, Distance
  <2> QED
    BY <2>7, <2>8, <2>9 DEF Paced
<1>7. CASE Count
  <2>1. /\ feeder.pc = "count" /\ stored' = stored + feeder.committed
        /\ feeder'.pc = "pace" /\ feeder'.position = feeder.position
        /\ UNCHANGED <<cache, session, consumed>>
    BY <1>7 DEF Count, Counters, FeederTypeOK, FeederRecords
  <2>2. stored' + Uncounted' = stored + Uncounted
    BY <1>1, <2>1 DEF Uncounted
  <2>3. TailBuffered'
    <3> SUFFICES ASSUME session' = "open"
                 PROVE  \E g \in Nat : /\ LeftOver(cache', feeder'.position, g)
                                       /\ stored' + Uncounted' + g = feeder'.position
      BY DEF TailBuffered
    <3>1. PICK g \in Nat : /\ LeftOver(cache, feeder.position, g)
                           /\ stored + Uncounted + g = feeder.position
      BY <2>1 DEF Paced, TailBuffered, Running
    <3> QED
      BY <2>1, <2>2, <3>1
  <2>4. Distance' = Distance
    BY <2>1 DEF Distance
  <2> QED
    BY <2>1, <2>3, <2>4 DEF Paced
<1>8. CASE Pace
  <2>1. feeder.pc = "pace" /\ FeederGoto("stream")
    BY <1>8 DEF Pace
  <2>2. CASE session # "open"
    BY <1>2, <2>1, <2>2
  <2>3. CASE session = "open"
    <3>1. stored - consumed <= keep_ahead
      BY <1>8, <2>3 DEF Pace, stop_event
    <3>2. PICK g \in Nat : /\ LeftOver(cache, feeder.position, g)
                           /\ stored + Uncounted + g = feeder.position
      BY <2>1, <2>3 DEF Paced, TailBuffered, Running
    <3>3. g < BLOCK_SIZE /\ Uncounted = 0
      BY <2>1, <3>2 DEF LeftOver, Uncounted
    <3>4. Distance < keep_ahead + BLOCK_SIZE
      BY <1>1, <3>1, <3>2, <3>3 DEF Distance
    <3> QED
      BY <1>2, <2>1, <3>4
  <2> QED
    BY <2>2, <2>3
<1>9. CASE Flush \/ Finish
  <2>1. /\ feeder'.pc \notin Running /\ feeder'.position = feeder.position
        /\ UNCHANGED <<session, consumed>>
    BY <1>9 DEF Flush, Finish, Running, Counters, FeederTypeOK, FeederRecords
  <2>2. Distance' = Distance /\ TailBuffered'
    BY <2>1 DEF Distance, TailBuffered
  <2> QED
    BY <2>1, <2>2 DEF Paced, Running
<1>10. CASE Break
  <2>1. /\ feeder.pc \in {"connect", "stream"}
        /\ feeder'.pc \in {"connect", "fail"} /\ feeder'.position = feeder.position
        /\ UNCHANGED <<cache, session, stored, consumed>>
    BY <1>10 DEF Break, Counters, FeederTypeOK, FeederRecords
  <2>2. Uncounted' = Uncounted
    BY <2>1 DEF Uncounted
  <2>3. consumed <= consumed'
    BY <1>1, <2>1
  <2>4. Distance < keep_ahead + BLOCK_SIZE \/ session' # "open"
    BY <2>1 DEF Paced
  <2> QED
    BY <2>1, <2>2, <2>3, <2>4, PacedKept DEF Running
<1>11. CASE BadStatus
  BY <1>2, <1>11 DEF BadStatus
<1> QED
  BY <1>3, <1>4, <1>5, <1>6, <1>7, <1>8, <1>9, <1>10, <1>11 DEF FeederStep

(* The player's side only shortens the distance. *)
LEMMA OthersPaced ==
    ASSUME Counters, Counters', Paced,
           \/ \E h \in Handlers : Request(h) \/ HandlerStep(h)
           \/ Stop \/ Clear
    PROVE  Paced'
<1>1. UNCHANGED <<feeder, stored>>
  BY DEF Request, HandlerStep, HandlerOnly, WaitUntil, Read, Write, Report, Continue,
         Close, ClientGone, Stop, Clear
<1>2. cache'.pending = cache.pending \/ session' # "open"
  <2>1. ASSUME NEW h \in Handlers, Read(h) PROVE cache'.pending = cache.pending
    <3>1. \E lru : cache' = [cache EXCEPT !.lru = lru]
      BY <2>1 DEF Read, ReadSpan
    <3>2. cache'.pending = cache.pending
      BY <3>1
    <3> QED
      BY <3>2
  <2>2. \/ UNCHANGED cache \/ (\E h \in Handlers : Read(h)) \/ session' # "open"
    BY DEF Request, HandlerStep, HandlerOnly, WaitUntil, Read, Write, Report, Continue,
           Close, ClientGone, Stop, Clear
  <2> QED
    BY <2>1, <2>2
<1>3. session' = "open" => session = "open"
  BY DEF Request, HandlerStep, HandlerOnly, WaitUntil, Read, Write, Report, Continue,
         Close, ClientGone, Stop, Clear
<1>4. consumed <= consumed'
  <2>1. consumed \in Nat /\ \A h \in Handlers : handler[h].pos \in Nat
    BY DEF Counters, FeederTypeOK
  <2>2. consumed' = consumed \/ \E h \in Handlers : consumed' = Greater(consumed, handler[h].pos)
    BY DEF Request, HandlerStep, HandlerOnly, WaitUntil, Read, Write, Report, Continue,
           Close, ClientGone, Stop, Clear
  <2> QED
    BY <2>1, <2>2 DEF Greater
<1>5. Uncounted' = Uncounted /\ feeder'.position = feeder.position /\ feeder'.pc = feeder.pc
  BY <1>1 DEF Uncounted
<1>6. \/ Distance < keep_ahead + BLOCK_SIZE
      \/ /\ feeder'.pc # "store"
         /\ feeder'.pc \in {"connect", "stream"} => session' # "open"
  BY <1>3, <1>5 DEF Paced
<1> QED
  BY <1>1, <1>2, <1>3, <1>4, <1>5, <1>6, PacedKept

LEMMA PacedHolds == FeederSpec => []Paced
<1>1. Counters /\ Counters' /\ Paced /\ [FeederNext]_feederVars => Paced'
  <2> SUFFICES ASSUME Counters, Counters', Paced, [FeederNext]_feederVars PROVE Paced'
    OBVIOUS
  <2>1. CASE FeederStep
    BY <2>1, PacedMoves
  <2>2. CASE \/ \E h \in Handlers : Request(h) \/ HandlerStep(h)
             \/ Stop \/ Clear
    BY <2>2, OthersPaced
  <2>3. CASE Quiescent \/ UNCHANGED feederVars
    <3>1. UNCHANGED <<cache, session, feeder, stored, consumed, done, handler, requests>>
      BY <2>3 DEF Quiescent, feederVars
    <3> QED
      BY <3>1 DEF Paced, TailBuffered, Distance, Uncounted
  <2> QED
    BY <2>1, <2>2, <2>3 DEF FeederNext
<1> QED
  BY <1>1, PacedInit, CountersHold, PTL DEF FeederSpec

(* The feeder never runs further ahead of the player than keep_ahead, the  *)
(* chunk in hand and the unfinished block, however slow the player and     *)
(* however often the stream breaks.                                        *)
THEOREM PacedWithin == FeederSpec => []PacedAhead
<1>1. Counters /\ Paced => PacedAhead
  BY DEF Counters, ReceivedCovers, Paced, Distance, PacedAhead
<1> QED
  BY <1>1, PacedHolds, CountersHold, PTL
-----------------------------------------------------------------------------
(* What the feeder writes, as long as its stream does not break.           *)

(* The cache holds nothing but the first p cells of the media: blocks of   *)
(* them, and what there is of the block p is in.                           *)
Fronted(c, p) ==
    /\ \A i \in DOMAIN c.blocks :
          i \in Nat /\ i * BLOCK_SIZE < p /\ c.blocks[i] = BlockOf(i, p)
    /\ \A i \in DOMAIN c.pending :
          /\ i = FirstBlock(p) /\ p % BLOCK_SIZE > 0
          /\ c.pending[i] = Cells(i * BLOCK_SIZE, p % BLOCK_SIZE)

(* Short of the end of the media, only whole blocks are resident, and the  *)
(* cells behind them are buffered.                                         *)
Filling(c, p) ==
    p < FileSize =>
       /\ \A i \in DOMAIN c.blocks : (i + 1) * BLOCK_SIZE <= p
       /\ p % BLOCK_SIZE > 0 => FirstBlock(p) \in DOMAIN c.pending

(* A whole block stays what it is. *)
LEMMA BlockStays ==
    ASSUME NEW i \in Nat, NEW p \in Nat, NEW n \in Nat, (i + 1) * BLOCK_SIZE <= p
    PROVE  /\ i * BLOCK_SIZE < p + n
           /\ (i + 1) * BLOCK_SIZE <= p + n
           /\ BlockOf(i, p + n) = BlockOf(i, p)
<1> DEFINE a == i * BLOCK_SIZE
           b == (i + 1) * BLOCK_SIZE
<1>1. a \in Nat /\ b = a + BLOCK_SIZE /\ BLOCK_SIZE \in Nat /\ BLOCK_SIZE > 0 /\ b <= p
  BY CacheAssumption
<1>2. \A m : BlockLen(i, m) = IF b <= m THEN BLOCK_SIZE ELSE m - a
  BY DEF BlockLen
<1> HIDE DEF a, b
<1>3. a < p + n /\ b <= p + n /\ BlockLen(i, p + n) = BlockLen(i, p)
  BY <1>1, <1>2
<1> QED
  BY <1>3 DEF BlockOf, a, b

(* The block a position is in, up to it. *)
LEMMA BlockAt ==
    ASSUME NEW f \in Nat, NEW k \in 1..BLOCK_SIZE, NEW p,
           p = f * BLOCK_SIZE + k
    PROVE  /\ f * BLOCK_SIZE < p
           /\ BlockOf(f, p) = Cells(f * BLOCK_SIZE, k)
           /\ k = BLOCK_SIZE => (f + 1) * BLOCK_SIZE <= p
<1> DEFINE a == f * BLOCK_SIZE
           b == (f + 1) * BLOCK_SIZE
<1>1. a \in Nat /\ b = a + BLOCK_SIZE /\ BLOCK_SIZE \in Nat /\ BLOCK_SIZE > 0 /\ p = a + k
  BY CacheAssumption
<1>2. BlockLen(f, p) = IF b <= p THEN BLOCK_SIZE ELSE p - a
  BY DEF BlockLen
<1> HIDE DEF a, b
<1>3. a < p /\ BlockLen(f, p) = k /\ (k = BLOCK_SIZE => b <= p)
  BY <1>1, <1>2
<1> QED
  BY <1>3 DEF BlockOf, a, b

(* A length was announced that is not that of the media but less, as that  *)
(* of an encoded body is: the block it ends in is complete before it is    *)
(* full, and complete again with what follows of it.                       *)
AnnouncedShort == TotalBytes # None /\ TotalBytes < FileSize

(* n cells from p on are one block, or as much of it as there is.          *)
OneBlock(p, n) ==
    p % BLOCK_SIZE = 0 /\ (n = BLOCK_SIZE \/ p + n = FileSize)

(* When a buffer that starts with its block is complete. *)
LEMMA LimitAt ==
    ASSUME NEW f \in Nat, NEW k \in 1..BLOCK_SIZE,
           f * BLOCK_SIZE + k <= FileSize,
           AnnouncedShort => k = BLOCK_SIZE \/ f * BLOCK_SIZE + k = FileSize
    PROVE  /\ k >= BlockLimit(f) => k = BLOCK_SIZE \/ f * BLOCK_SIZE + k = FileSize
           /\ ~(k >= BlockLimit(f)) => k < BLOCK_SIZE
<1> DEFINE a == f * BLOCK_SIZE
<1>1. /\ a \in Nat /\ a + k <= FileSize /\ BLOCK_SIZE \in Nat /\ BLOCK_SIZE > 0
      /\ FileSize \in Nat /\ (TotalBytes \in Nat \/ TotalBytes = None)
      /\ AnnouncedShort => k = BLOCK_SIZE \/ a + k = FileSize
  BY CacheAssumption
<1>2. BlockLimit(f) = IF TotalBytes = None \/ TotalBytes - a > BLOCK_SIZE
                      THEN BLOCK_SIZE ELSE TotalBytes - a
  BY DEF BlockLimit
<1> HIDE DEF a
<1>3. /\ k >= BlockLimit(f) => k = BLOCK_SIZE \/ a + k = FileSize
      /\ ~(k >= BlockLimit(f)) => k < BLOCK_SIZE
  <2>1. CASE AnnouncedShort
    BY <1>1, <1>2, <2>1
  <2>2. CASE ~AnnouncedShort
    BY <1>1, <1>2, <2>2 DEF AnnouncedShort
  <2> QED
    BY <2>1, <2>2
<1> QED
  BY <1>3 DEF a

(* The next cells of the media, added to the buffer of their block. *)
LEMMA PieceFills ==
    ASSUME NEW r, Stored(r), NEW p \in Nat, NEW n \in Nat \ {0},
           (p % BLOCK_SIZE) + n <= BLOCK_SIZE, p + n <= FileSize,
           AnnouncedShort => OneBlock(p, n),
           Fronted(r.cache, p), Filling(r.cache, p)
    PROVE  LET q == StorePiece(r, p, Cells(p, n))
           IN  Fronted(q.cache, p + n) /\ Filling(q.cache, p + n)
<1> DEFINE c    == r.cache
           f    == FirstBlock(p)
           o    == p % BLOCK_SIZE
           base == f * BLOCK_SIZE
           buf  == Buffered(c, f, Cells(p, n))
           q    == StorePiece(r, p, Cells(p, n))
<1>1. /\ f \in Nat /\ o \in 0..(BLOCK_SIZE - 1) /\ base \in Nat /\ p = base + o
      /\ (f + 1) * BLOCK_SIZE = base + BLOCK_SIZE
      /\ BLOCK_SIZE \in Nat /\ BLOCK_SIZE > 0 /\ FileSize \in Nat
  BY Located, CacheAssumption
<1>2. /\ p < FileSize /\ p + n <= FileSize /\ o + n \in 1..BLOCK_SIZE /\ n \in Nat /\ n > 0
      /\ p + n = base + (o + n)
  <2>1. o + n <= BLOCK_SIZE
    OBVIOUS
  <2> HIDE DEF f, o, base
  <2> QED
    BY <1>1, <2>1
<1>3. /\ o + n < BLOCK_SIZE =>
            FirstBlock(p + n) = f /\ (p + n) % BLOCK_SIZE = o + n
      /\ o + n = BLOCK_SIZE => (p + n) % BLOCK_SIZE = 0
  BY Advance
<1>4. /\ \A i \in DOMAIN c.blocks :
            i \in Nat /\ (i + 1) * BLOCK_SIZE <= p /\ c.blocks[i] = BlockOf(i, p)
      /\ DOMAIN c.pending \subseteq {f}
      /\ f \in DOMAIN c.pending <=> o > 0
      /\ f \in DOMAIN c.pending => c.pending[f] = Cells(base, o)
  BY <1>1, <1>2 DEF Fronted, Filling
<1>5. \A i \in DOMAIN c.blocks :
          /\ i \in Nat /\ i * BLOCK_SIZE < p + n /\ (i + 1) * BLOCK_SIZE <= p + n
          /\ c.blocks[i] = BlockOf(i, p + n)
  <2> TAKE i \in DOMAIN c.blocks
  <2>1. i \in Nat /\ (i + 1) * BLOCK_SIZE <= p /\ c.blocks[i] = BlockOf(i, p)
    BY <1>4
  <2> QED
    BY <1>2, <2>1, BlockStays
<1>6. buf = Cells(base, o + n)
  <2>1. CASE o > 0
    <3>1. buf = Cells(base, o) \o Cells(p, n)
      BY <1>4, <2>1 DEF Buffered
    <3>2. Cells(base, o) \o Cells(base + o, n) = Cells(base, o + n)
      <4>1. base \in Nat /\ o \in Nat /\ n \in Nat
        BY <1>1, <1>2
      <4> HIDE DEF base, o
      <4> QED
        BY <4>1, CellsJoin
    <3> QED
      BY <1>1, <3>1, <3>2
  <2>2. CASE ~(o > 0)
    <3>1. o = 0 /\ base = p /\ o + n = n
      BY <1>1, <1>2, <2>2
    <3> DEFINE piece == Cells(p, n)
    <3>2. buf = <<>> \o piece
      BY <1>4, <2>2 DEF Buffered
    <3>3. piece \in Seq(Nat)
      BY <1>2, CellsSeq
    <3> HIDE DEF piece
    <3>4. <<>> \o piece = piece
      BY <3>3
    <3> HIDE DEF buf, o, base
    <3> QED
      BY <3>1, <3>2, <3>4 DEF piece
  <2> QED
    BY <2>1, <2>2
<1>7. Len(buf) = o + n /\ FullBlock(buf) = buf
  <2>1. o + n \in Nat
    BY <1>2
  <2> HIDE DEF base, o
  <2>2. Len(Cells(base, o + n)) = o + n
    BY <1>1, <2>1, CellsSeq
  <2> HIDE DEF buf
  <2>3. Len(buf) = o + n
    BY <1>6, <2>2
  <2>4. ~(Len(buf) > BLOCK_SIZE)
    BY <1>1, <1>2, <2>3
  <2> QED
    BY <2>3, <2>4 DEF FullBlock
<1>8. /\ o + n >= BlockLimit(f) => o + n = BLOCK_SIZE \/ p + n = FileSize
      /\ ~(o + n >= BlockLimit(f)) => o + n < BLOCK_SIZE
  <2>1. AnnouncedShort => o + n = BLOCK_SIZE \/ p + n = FileSize
    BY <1>1, <1>2 DEF OneBlock
  <2> DEFINE k == o + n
  <2>2. k \in 1..BLOCK_SIZE /\ p + n = f * BLOCK_SIZE + k
    BY <1>2
  <2> HIDE DEF f, o, k
  <2>3. AnnouncedShort => k = BLOCK_SIZE \/ f * BLOCK_SIZE + k = FileSize
    BY <2>1, <2>2 DEF k
  <2>4. /\ k >= BlockLimit(f) => k = BLOCK_SIZE \/ f * BLOCK_SIZE + k = FileSize
        /\ ~(k >= BlockLimit(f)) => k < BLOCK_SIZE
    BY <1>1, <1>2, <2>2, <2>3, LimitAt
  <2> QED
    BY <2>2, <2>4 DEF k
<1>9. /\ base < p + n /\ BlockOf(f, p + n) = buf
      /\ o + n = BLOCK_SIZE => (f + 1) * BLOCK_SIZE <= p + n
  <2> DEFINE k == o + n
  <2>1. k \in 1..BLOCK_SIZE /\ p + n = f * BLOCK_SIZE + k
    BY <1>2
  <2> HIDE DEF k, f
  <2>2. /\ f * BLOCK_SIZE < p + n
        /\ BlockOf(f, p + n) = Cells(f * BLOCK_SIZE, k)
        /\ k = BLOCK_SIZE => (f + 1) * BLOCK_SIZE <= p + n
    BY <1>1, <2>1, BlockAt
  <2> HIDE DEF buf
  <2> QED
    BY <1>6, <2>2 DEF k
<1>10. CASE o + n >= BlockLimit(f)
  <2>1. q = [cache |-> Commit(c, f, buf), committed |-> r.committed + Len(buf)]
    BY <1>7, <1>10 DEF StorePiece
  <2>2. f \notin DOMAIN c.blocks
    <3>1. ~((f + 1) * BLOCK_SIZE <= p)
      <4> HIDE DEF o, base, f
      <4> QED
        BY <1>1
    <3> QED
      BY <1>4, <3>1
  <2> HIDE DEF buf, q
  <2>3. q.cache.blocks = Put(c.blocks, f, buf) /\ q.cache.pending = Drop(c.pending, {f})
    BY <2>1, <2>2 DEF Commit
  <2>4. DOMAIN q.cache.pending = {}
    BY <1>4, <2>3 DEF Drop
  <2>5. /\ DOMAIN q.cache.blocks = DOMAIN c.blocks \cup {f}
        /\ q.cache.blocks[f] = buf
        /\ \A i \in DOMAIN c.blocks : q.cache.blocks[i] = c.blocks[i]
    BY <2>2, <2>3 DEF Put
  <2>6. Fronted(q.cache, p + n)
    BY <1>1, <1>5, <1>9, <2>4, <2>5 DEF Fronted
  <2>7. Filling(q.cache, p + n)
    <3>1. CASE p + n = FileSize
      BY <1>1, <3>1 DEF Filling
    <3>2. CASE o + n = BLOCK_SIZE
      <4>1. \A i \in DOMAIN q.cache.blocks : (i + 1) * BLOCK_SIZE <= p + n
        BY <1>5, <1>9, <2>5, <3>2
      <4> QED
        BY <1>3, <3>2, <4>1 DEF Filling
    <3> QED
      BY <1>8, <1>10, <3>1, <3>2
  <2> QED
    BY <2>6, <2>7 DEF q
<1>11. CASE ~(o + n >= BlockLimit(f))
  <2>1. q = [r EXCEPT !.cache.pending = Put(@, f, buf)]
    BY <1>7, <1>11 DEF StorePiece
  <2>2. o + n < BLOCK_SIZE /\ o + n > 0
    BY <1>2, <1>8, <1>11
  <2> HIDE DEF buf, q
  <2>3. q = [cache |-> [c EXCEPT !.pending = Put(@, f, buf)], committed |-> r.committed]
    BY <2>1 DEF Stored
  <2>4. q.cache.blocks = c.blocks /\ q.cache.pending = Put(c.pending, f, buf)
    BY <2>3 DEF Stored, CacheShape
  <2>5. DOMAIN q.cache.pending = {f} /\ q.cache.pending[f] = buf
    BY <1>4, <2>4 DEF Put
  <2>6. FirstBlock(p + n) = f /\ (p + n) % BLOCK_SIZE = o + n
    BY <1>3, <2>2
  <2> HIDE DEF o, f, base
  <2>7. Fronted(q.cache, p + n)
    BY <1>5, <1>6, <2>2, <2>4, <2>5, <2>6 DEF Fronted, base
  <2>8. Filling(q.cache, p + n)
    BY <1>5, <2>4, <2>5, <2>6 DEF Filling
  <2> QED
    BY <2>7, <2>8 DEF q
<1> QED
  BY <1>10, <1>11
(* Eviction takes blocks away, and a read changes only their recency. *)
LEMMA FewerFronted ==
    ASSUME NEW c, NEW d, NEW p \in Nat,
           DOMAIN d.blocks \subseteq DOMAIN c.blocks,
           \A i \in DOMAIN d.blocks : d.blocks[i] = c.blocks[i],
           d.pending = c.pending
    PROVE  /\ Fronted(c, p) => Fronted(d, p)
           /\ Filling(c, p) => Filling(d, p)
BY DEF Fronted, Filling

LEMMA EvictFronted ==
    ASSUME NEW c, CacheShape(c), NEW p \in Nat
    PROVE  /\ Fronted(c, p) => Fronted(Evict(c), p)
           /\ Filling(c, p) => Filling(Evict(c), p)
<1> DEFINE d == Evict(c)
<1>1. PICK S, lru, resident :
          d = [c EXCEPT !.blocks = Drop(@, S), !.lru = lru, !.resident = resident]
  BY DEF Evict
<1> HIDE DEF d
<1>2. d = [blocks |-> Drop(c.blocks, S), lru |-> lru,
           pending |-> c.pending, resident |-> resident]
  BY <1>1 DEF CacheShape
<1>3. /\ DOMAIN d.blocks \subseteq DOMAIN c.blocks
      /\ \A i \in DOMAIN d.blocks : d.blocks[i] = c.blocks[i]
      /\ d.pending = c.pending
  BY <1>2 DEF Drop
<1> QED
  BY <1>3, FewerFronted DEF d

LEMMA ReadFronted ==
    ASSUME NEW c, CacheShape(c), NEW p \in Nat, NEW s, NEW e
    PROVE  LET d == ReadSpan(c, s, e).cache
           IN  /\ CacheShape(d)
               /\ Fronted(c, p) => Fronted(d, p)
               /\ Filling(c, p) => Filling(d, p)
<1> DEFINE d == ReadSpan(c, s, e).cache
<1>1. PICK lru : d = [c EXCEPT !.lru = lru]
  BY DEF ReadSpan
<1> HIDE DEF d
<1>2. d = [blocks |-> c.blocks, lru |-> lru, pending |-> c.pending, resident |-> c.resident]
  BY <1>1 DEF CacheShape
<1>3. CacheShape(d)
  BY <1>2 DEF CacheShape
<1>4. d.blocks = c.blocks /\ d.pending = c.pending
  BY <1>2
<1> QED
  BY <1>3, <1>4, FewerFronted DEF d

(* store_bytes with the next cells of the media, however they fall in the  *)
(* blocks.                                                                 *)
LEMMA StoreFills ==
    ASSUME NEW c, CacheShape(c), NEW p \in Nat,
           NEW n \in 1..BLOCK_SIZE, p + n <= FileSize,
           AnnouncedShort => OneBlock(p, n),
           Fronted(c, p), Filling(c, p)
    PROVE  LET d == StoreBytes(c, p, Cells(p, n)).cache
           IN  Fronted(d, p + n) /\ Filling(d, p + n)
<1> DEFINE data == Cells(p, n)
           r    == [cache |-> c, committed |-> 0]
<1>1. /\ data \in Seq(Nat) /\ Len(data) = n
      /\ n \in Nat /\ n > 0 /\ n <= BLOCK_SIZE /\ BLOCK_SIZE \in Nat /\ BLOCK_SIZE > 0
  BY CellsSeq, CacheAssumption
<1>2. /\ Room(p) = BLOCK_SIZE - (p % BLOCK_SIZE) /\ Room(p) \in 1..BLOCK_SIZE
      /\ p % BLOCK_SIZE \in Nat
  BY RoomBounds DEF Room
<1>3. Stored(r) /\ r.cache = c
  BY DEF Stored
<1> HIDE DEF data, r
<1>4. PICK q : /\ \/ /\ Len(data) <= Room(p)
                    /\ q = StorePiece(r, p, data)
                 \/ /\ Len(data) > Room(p)
                    /\ q = StorePiece(StorePiece(r, p, SubSeq(data, 1, Room(p))),
                                      p + Room(p), SubSeq(data, Room(p) + 1, Len(data)))
               /\ Stored(q)
               /\ StoreBytes(c, p, data) = [cache |-> Evict(q.cache),
                                           committed |-> q.committed]
  BY <1>1, StoreByPieces, SMTT(30) DEF r
<1>5. ASSUME Len(data) <= Room(p), q = StorePiece(r, p, data)
      PROVE  Fronted(q.cache, p + n) /\ Filling(q.cache, p + n)
  <2>1. (p % BLOCK_SIZE) + n <= BLOCK_SIZE /\ n \in Nat \ {0}
    BY <1>1, <1>2, <1>5
  <2> QED
    BY <1>3, <1>5, <2>1, PieceFills DEF data
<1>6. ASSUME Len(data) > Room(p),
             q = StorePiece(StorePiece(r, p, SubSeq(data, 1, Room(p))),
                            p + Room(p), SubSeq(data, Room(p) + 1, Len(data)))
      PROVE  Fronted(q.cache, p + n) /\ Filling(q.cache, p + n)
  <2> DEFINE k  == Room(p)
             m  == n - k
             p2 == p + k
             q1 == StorePiece(r, p, Cells(p, k))
  <2>1. /\ k \in Nat \ {0} /\ m \in Nat \ {0} /\ k + m = n /\ p2 \in Nat
        /\ p2 + m = p + n /\ p2 <= FileSize /\ m <= BLOCK_SIZE
        /\ (p % BLOCK_SIZE) + k = BLOCK_SIZE
    BY <1>1, <1>2, <1>6, CacheAssumption
  <2>0. ~AnnouncedShort
    BY <1>1, <1>2, <1>6 DEF OneBlock
  <2> HIDE DEF k, m
  <2>2. SubSeq(data, 1, k) = Cells(p, k)
    <3> DEFINE z == 0
    <3>1. z \in Nat /\ z + k <= n /\ n \in Nat /\ p \in Nat /\ k \in Nat
      BY <1>1, <2>1
    <3>2. z + 1 = 1 /\ z + k = k /\ p + z = p
      BY <2>1
    <3> HIDE DEF z
    <3>3. Part(Cells(p, n), z + 1, z + k) = Cells(p + z, k)
      BY <3>1, CellsPart
    <3>4. Part(data, 1, k) = Cells(p, k)
      BY <3>2, <3>3 DEF data
    <3> QED
      BY <3>4 DEF Part
  <2>3. SubSeq(data, k + 1, n) = Cells(p2, m)
    <3>1. Part(Cells(p, n), k + 1, k + m) = Cells(p + k, m)
      <4>1. k \in Nat /\ m \in Nat /\ k + m <= n /\ n \in Nat
        BY <1>1, <2>1
      <4> QED
        BY <4>1, CellsPart
    <3>2. Part(data, k + 1, n) = Cells(p2, m)
      BY <2>1, <3>1 DEF data
    <3> QED
      BY <3>2 DEF Part
  <2>4. q = StorePiece(q1, p2, Cells(p2, m))
    BY <1>1, <1>6, <2>2, <2>3 DEF k
  <2>5. Stored(q1)
    <3>1. Cells(p, k) \in Seq(Nat)
      BY <2>1, CellsSeq
    <3> QED
      BY <1>3, <3>1, PieceCounted
  <2>6. Fronted(q1.cache, p2) /\ Filling(q1.cache, p2)
    <3>1. (p % BLOCK_SIZE) + k <= BLOCK_SIZE /\ p + k <= FileSize
      BY <1>1, <2>1
    <3> QED
      BY <1>3, <2>0, <2>1, <3>1, PieceFills
  <2>7. p2 % BLOCK_SIZE = 0
    <3>1. (p % BLOCK_SIZE) + k <= BLOCK_SIZE /\ k \in Nat
      BY <1>1, <2>1
    <3> QED
      BY <2>1, <3>1, Advance
  <2> HIDE DEF p2, q1
  <2>8. (p2 % BLOCK_SIZE) + m <= BLOCK_SIZE /\ p2 + m <= FileSize
    BY <1>1, <2>1, <2>7
  <2>9. LET s == StorePiece(q1, p2, Cells(p2, m))
        IN  Fronted(s.cache, p2 + m) /\ Filling(s.cache, p2 + m)
    BY <2>0, <2>1, <2>5, <2>6, <2>8, PieceFills
  <2> QED
    BY <2>1, <2>4, <2>9
<1>7. Fronted(q.cache, p + n) /\ Filling(q.cache, p + n)
  BY <1>4, <1>5, <1>6
<1>8. p + n \in Nat /\ CacheShape(q.cache)
  BY <1>1, <1>4 DEF Stored
<1>9. Fronted(Evict(q.cache), p + n) /\ Filling(Evict(q.cache), p + n)
  BY <1>7, <1>8, EvictFronted
<1>10. StoreBytes(c, p, data).cache = Evict(q.cache)
  BY <1>4
<1> QED
  BY <1>9, <1>10 DEF data

(* flush_pending: the buffer becomes a block as it is. *)
LEMMA FlushFronted ==
    ASSUME NEW c, CacheShape(c), NEW p \in Nat, Fronted(c, p)
    PROVE  CacheShape(FlushPending(c).cache) /\ Fronted(FlushPending(c).cache, p)
<1> DEFINE P == {0} \cup DOMAIN c.pending
           n == Max(P) + 1
           g == CHOOSE h : FlushUpTo(h, c, n)
           Good(d) == CacheShape(d) /\ Fronted(d, p)
<1>1. n \in Nat
  <2>1. FirstBlock(p) \in Nat
    BY Located
  <2>2. IsFiniteSet(P) /\ P \subseteq Nat /\ P # {}
    BY <2>1, FS_AddElement DEF Fronted, CacheShape
  <2> HIDE DEF P
  <2>3. Max(P) \in Nat
    BY <2>2, Greatest
  <2> QED
    BY <2>3
<1>2. FlushPending(c).cache = Evict(g[n])
  BY DEF FlushPending, FlushUpTo
<1>3. FlushUpTo(g, c, n)
  <2> HIDE DEF n
  <2>1. \E h : FlushUpTo(h, c, n)
    BY <1>1, FlushExists
  <2> QED
    BY <2>1
<1> HIDE DEF n, g
<1>4. \A i \in Nat : i <= n => Good(g[i])
  <2> DEFINE X == {i \in Nat : i <= n => Good(g[i])}
  <2>1. 0 \in X
    BY <1>1, <1>3, FlushValues
  <2>2. ASSUME NEW i \in X PROVE i + 1 \in X
    <3> SUFFICES ASSUME i + 1 <= n PROVE Good(g[i + 1])
      OBVIOUS
    <3> DEFINE d == g[i]
    <3>1. i \in Nat /\ i + 1 \in 1..n /\ i <= n /\ (i + 1) - 1 = i
      BY <1>1
    <3>2. Good(d)
      BY <3>1
    <3>3. g[i + 1] = FlushStep(c, d, i + 1)
      <4>1. g[i + 1] = FlushStep(c, g[(i + 1) - 1], i + 1)
        BY <1>1, <1>3, <3>1, FlushValues
      <4> QED
        BY <3>1, <4>1
    <3> HIDE DEF d
    <3>4. CASE i \in DOMAIN c.pending
      <4> DEFINE k   == p % BLOCK_SIZE
                 buf == Cells(i * BLOCK_SIZE, k)
                 e   == Commit(d, i, buf)
      <4>1. i = FirstBlock(p) /\ k > 0 /\ c.pending[i] = buf
        BY <3>4 DEF Fronted
      <4>2. /\ k \in 1..BLOCK_SIZE /\ k < BLOCK_SIZE /\ i * BLOCK_SIZE \in Nat
            /\ p = i * BLOCK_SIZE + k
        <5>1. /\ i * BLOCK_SIZE \in Nat /\ p = i * BLOCK_SIZE + k
              /\ k \in 0..(BLOCK_SIZE - 1) /\ BLOCK_SIZE \in Nat
          BY <4>1, Located
        <5> HIDE DEF k
        <5>2. k \in 1..BLOCK_SIZE /\ k < BLOCK_SIZE
          BY <4>1, <5>1
        <5> QED
          BY <5>1, <5>2
      <4>3. i * BLOCK_SIZE < p /\ BlockOf(i, p) = buf
        BY <3>1, <4>2, BlockAt
      <4>4. FullBlock(buf) = buf
        <5>1. Len(buf) = k /\ ~(k > BLOCK_SIZE)
          BY <4>2, CellsSeq, CacheAssumption
        <5> HIDE DEF buf
        <5> QED
          BY <5>1 DEF FullBlock
      <4>5. g[i + 1] = e
        BY <3>1, <3>3, <3>4, <4>1, <4>4 DEF FlushStep
      <4>6. CacheShape(e)
        BY <3>2, CommitTakes
      <4> HIDE DEF buf
      <4>7. /\ e.blocks \in {d.blocks, Put(d.blocks, i, buf)}
            /\ e.pending = Drop(d.pending, {i})
        BY DEF Commit
      <4> HIDE DEF e
      <4>8. Fronted(e, p)
        BY <3>1, <3>2, <4>3, <4>7 DEF Fronted, Put, Drop
      <4> QED
        BY <4>5, <4>6, <4>8
    <3>5. CASE i \notin DOMAIN c.pending
      <4>1. g[i + 1] = d
        BY <3>1, <3>3, <3>5 DEF FlushStep
      <4> QED
        BY <3>2, <4>1
    <3> QED
      BY <3>4, <3>5
  <2> HIDE DEF X
  <2>3. X = Nat
    <3>1. X \subseteq Nat
      BY DEF X
    <3> QED
      BY <2>1, <2>2, <3>1, Induct
  <2> QED
    BY <2>3 DEF X
<1>5. Good(g[n])
  BY <1>1, <1>4
<1> QED
  BY <1>2, <1>5, EvictFronted, EvictKeepsBuffers
-----------------------------------------------------------------------------
(* What the player is sent, as long as the stream does not break.          *)

(* No length was announced that is less than the media's, or the body      *)
(* comes in whole blocks: then no block is complete before its last piece. *)
BlocksWhole == AnnouncedShort => ChunkLens = {BLOCK_SIZE}

(* Where a body that comes in whole blocks is between two of them. *)
BlockEnds == {p \in Nat : p % BLOCK_SIZE = 0 \/ p = FileSize}

(* The feeder is where its connection is: the only one, from byte 0.       *)
Straight ==
    /\ feeder.position = feeder.served
    /\ feeder.pc \in {"connect", "fail"} => feeder.served = 0
    /\ feeder.pc = "store" => feeder.served < FileSize
    /\ ChunkLens = {BLOCK_SIZE} => feeder.served \in BlockEnds

Written ==
    session # "cleared" =>
        /\ CacheShape(cache)
        /\ Fronted(cache, feeder.position)
        /\ feeder.pc \in Gathering => Filling(cache, feeder.position)

(* No further than the announced end. *)
Within(p) == TotalBytes # None => p <= TotalBytes

(* A handler has sent the media up to where it is, and holds what follows. *)
Sends(h) ==
    /\ handler[h].sent = Cells(0, handler[h].pos)
    /\ handler[h].pc \in {"read", "write"} => handler[h].pos < handler[h].avail
    /\ handler[h].pc = "write" =>
          handler[h].data = Cells(handler[h].pos, handler[h].avail - handler[h].pos)
    /\ Within(handler[h].pos)
    /\ handler[h].pc \in {"read", "write"} => Within(handler[h].avail)

AllSend == session # "cleared" => \A h \in Handlers : Sends(h)

LEMMA SendsInit == FeederInit => Straight /\ Written /\ AllSend
<1> SUFFICES ASSUME FeederInit PROVE Straight /\ Written /\ AllSend
  OBVIOUS
<1>1. Straight
  <2>1. 0 \in BlockEnds
    BY CacheAssumption DEF BlockEnds
  <2> QED
    BY <2>1 DEF FeederInit, Straight
<1>2. /\ cache = EmptyCache /\ feeder.position = 0
      /\ DOMAIN EmptyCache.pending = {} /\ DOMAIN EmptyCache.blocks = {}
  BY DEF FeederInit, CacheInit, EmptyCache, NoEntries
<1>3. CacheShape(cache)
  <2>1. IsFiniteSet(DOMAIN EmptyCache.pending)
    BY <1>2, FS_EmptySet
  <2> QED
    BY <1>2, <2>1 DEF CacheShape, EmptyCache
<1>4. 0 % BLOCK_SIZE = 0
  BY CacheAssumption
<1>5. Written
  BY <1>2, <1>3, <1>4 DEF Written, Fronted, Filling
<1>6. <<>> = Cells(0, 0)
  <2>1. Cells(0, 0) \in Seq(Nat) /\ Len(Cells(0, 0)) = 0
    BY CellsSeq
  <2> QED
    BY <2>1
<1>7. ASSUME NEW h \in Handlers PROVE Sends(h)
  <2>1. handler[h] = Idle
    BY DEF FeederInit
  <2> QED
    BY <1>6, <2>1, CacheAssumption DEF Idle, Sends, Within
<1> QED
  BY <1>1, <1>5, <1>7 DEF AllSend

LEMMA FeederStraight ==
    ASSUME "break" \notin StreamFaults, FeederTypeOK, Straight, FeederStep
    PROVE  /\ Straight'
           /\ \/ /\ UNCHANGED <<cache, session>>
                 /\ feeder'.position = feeder.position
                 /\ feeder'.pc \in Gathering => feeder.pc \in Gathering
              \/ Store
              \/ Flush
<1>0. feeder = [pc |-> feeder.pc, position |-> feeder.position, served |-> feeder.served,
                attempt |-> feeder.attempt, committed |-> feeder.committed]
  BY DEF FeederTypeOK, FeederRecords
<1>1. feeder.position \in Nat /\ feeder.served \in 0..FileSize /\ FileSize \in Nat
  BY CacheAssumption DEF FeederTypeOK, FeederRecords
<1>2. ASSUME NEW label, FeederGoto(label),
             label \in {"connect", "fail"} => feeder.served = 0,
             label = "store" => feeder.served < FileSize,
             label \in Gathering => feeder.pc \in Gathering
      PROVE  /\ Straight'
             /\ UNCHANGED <<cache, session>>
             /\ feeder'.position = feeder.position
             /\ feeder'.pc \in Gathering => feeder.pc \in Gathering
  <2>1. feeder' = [pc |-> label, position |-> feeder.position, served |-> feeder.served,
                   attempt |-> feeder.attempt, committed |-> feeder.committed]
    BY <1>0, <1>2 DEF FeederGoto
  <2> QED
    BY <1>2, <2>1 DEF Straight, FeederGoto
<1>3. CASE Connect
  <2>1. feeder' = [pc |-> "stream", position |-> feeder.position, served |-> 0,
                   attempt |-> feeder.attempt, committed |-> feeder.committed]
    BY <1>0, <1>3 DEF Connect
  <2>2. 0 \in BlockEnds
    BY CacheAssumption DEF BlockEnds
  <2> QED
    BY <1>3, <2>1, <2>2 DEF Connect, Straight, Gathering
<1>4. CASE Receive
  BY <1>2, <1>4 DEF Receive, Gathering
<1>5. CASE EndOfStream
  BY <1>2, <1>5 DEF EndOfStream, Gathering
<1>6. CASE Store
  <2>1. PICK n \in {Lesser(m, FileSize - feeder.served) : m \in ChunkLens} :
           LET r == StoreBytes(cache, feeder.position, Cells(feeder.served, n))
           IN  feeder' = [feeder EXCEPT !.pc = "count", !.committed = r.committed,
                                        !.position = @ + n, !.served = @ + n]
    BY <1>6 DEF Store
  <2>2. \E k : feeder' = [pc |-> "count", position |-> feeder.position + n,
                          served |-> feeder.served + n,
                          attempt |-> feeder.attempt, committed |-> k]
    BY <1>0, <2>1
  <2>3. feeder'.pc = "count" /\ feeder'.position = feeder'.served
    BY <2>2 DEF Straight
  <2>4. ChunkLens = {BLOCK_SIZE} => feeder'.served \in BlockEnds
    <3> SUFFICES ASSUME ChunkLens = {BLOCK_SIZE} PROVE feeder'.served \in BlockEnds
      OBVIOUS
    <3>1. feeder.served \in BlockEnds /\ feeder.served < FileSize
      BY <1>6 DEF Store, Straight
    <3>2. n = Lesser(BLOCK_SIZE, FileSize - feeder.served)
      BY <2>1
    <3>3. feeder'.served = feeder.served + n
      BY <2>2
    <3> DEFINE v == feeder.served
    <3> HIDE DEF v
    <3>4. v \in Nat /\ v % BLOCK_SIZE = 0 /\ v < FileSize
      BY <1>1, <3>1 DEF BlockEnds, v
    <3>5. (v + BLOCK_SIZE) % BLOCK_SIZE = 0
      <4>1. (v % BLOCK_SIZE) + BLOCK_SIZE <= BLOCK_SIZE /\ (v % BLOCK_SIZE) + BLOCK_SIZE = BLOCK_SIZE
        BY <3>4, CacheAssumption
      <4>2. BLOCK_SIZE \in Nat \ {0} /\ BLOCK_SIZE \in Nat
        BY CacheAssumption
      <4> QED
        BY <3>4, <4>1, <4>2, Advance
    <3>6. v + n \in {v + BLOCK_SIZE, FileSize}
      BY <1>1, <3>2, <3>4, CacheAssumption DEF v, Lesser
    <3> QED
      BY <1>1, <3>3, <3>4, <3>5, <3>6, CacheAssumption DEF BlockEnds, v
  <2> QED
    BY <1>6, <2>2, <2>3, <2>4 DEF Straight
<1>7. CASE Count
  <2>1. feeder' = [pc |-> "pace", position |-> feeder.position, served |-> feeder.served,
                   attempt |-> feeder.attempt, committed |-> feeder.committed]
    BY <1>0, <1>7 DEF Count
  <2> QED
    BY <1>7, <2>1 DEF Count, Straight, Gathering
<1>8. CASE Pace
  BY <1>2, <1>8 DEF Pace, Gathering
<1>9. CASE Flush
  <2>1. feeder' = [pc |-> "finish", position |-> feeder.position, served |-> feeder.served,
                   attempt |-> feeder.attempt, committed |-> feeder.committed]
    BY <1>0, <1>9 DEF Flush
  <2> QED
    BY <1>9, <2>1 DEF Straight
<1>10. CASE Finish
  <2>1. feeder' = [pc |-> "ended", position |-> feeder.position, served |-> feeder.served,
                   attempt |-> feeder.attempt, committed |-> feeder.committed]
    BY <1>0, <1>10 DEF Finish
  <2> QED
    BY <1>10, <2>1 DEF Finish, Straight, Gathering
<1>11. CASE Break
  <2>1. feeder.pc = "connect"
    BY <1>11 DEF Break
  <2>2. \E label \in {"connect", "fail"} : \E k :
           feeder' = [pc |-> label, position |-> feeder.position, served |-> feeder.served,
                      attempt |-> k, committed |-> feeder.committed]
    BY <1>0, <1>11 DEF Break
  <2> QED
    BY <1>11, <2>1, <2>2 DEF Break, Straight, Gathering
<1>12. CASE BadStatus
  BY <1>2, <1>12 DEF BadStatus, Straight, Gathering
<1> QED
  BY <1>3, <1>4, <1>5, <1>6, <1>7, <1>8, <1>9, <1>10, <1>11, <1>12 DEF FeederStep

LEMMA FeederWrites ==
    ASSUME "break" \notin StreamFaults, BlocksWhole, Counters, Straight, Written, FeederStep
    PROVE  Written'
<1>1. /\ feeder.position \in Nat /\ feeder.served \in Nat /\ FileSize \in Nat
      /\ BLOCK_SIZE \in Nat /\ BLOCK_SIZE > 0
  BY CacheAssumption DEF Counters, FeederTypeOK, FeederRecords
<1>2. session' = session
  BY DEF FeederStep, FeederGoto, Connect, Receive, EndOfStream, Store, Count, Pace,
         Flush, Finish, Break, BadStatus
<1> SUFFICES ASSUME session # "cleared"
             PROVE  /\ CacheShape(cache')
                    /\ Fronted(cache', feeder'.position)
                    /\ feeder'.pc \in Gathering => Filling(cache', feeder'.position)
  BY <1>2 DEF Written
<1>3. /\ CacheShape(cache)
      /\ Fronted(cache, feeder.position)
      /\ feeder.pc \in Gathering => Filling(cache, feeder.position)
  BY DEF Written
<1>4. \/ /\ UNCHANGED <<cache, session>>
         /\ feeder'.position = feeder.position
         /\ feeder'.pc \in Gathering => feeder.pc \in Gathering
      \/ Store
      \/ Flush
  BY FeederStraight DEF Counters
<1>5. CASE Store
  <2> DEFINE p == feeder.position
  <2>1. PICK n \in {Lesser(m, FileSize - feeder.served) : m \in ChunkLens} :
           LET r == StoreBytes(cache, feeder.position, Cells(feeder.served, n))
           IN  /\ cache' = r.cache
               /\ feeder' = [feeder EXCEPT !.pc = "count", !.committed = r.committed,
                                           !.position = @ + n, !.served = @ + n]
    BY <1>5 DEF Store
  <2>2. feeder.pc = "store" /\ feeder.served < FileSize /\ feeder.served = p
    BY <1>5 DEF Store, Straight
  <2>3. n \in 1..BLOCK_SIZE /\ p + n <= FileSize
    BY <1>1, <2>2, FeederAssumption DEF Lesser
  <2>4. cache' = StoreBytes(cache, p, Cells(p, n)).cache
    BY <2>1, <2>2
  <2>5. feeder'.position = p + n
    BY <2>1 DEF Counters, FeederTypeOK, FeederRecords
  <2>6. Filling(cache, p)
    BY <1>3, <2>2 DEF Gathering
  <2>0. AnnouncedShort => OneBlock(p, n)
    <3> SUFFICES ASSUME AnnouncedShort PROVE OneBlock(p, n)
      OBVIOUS
    <3>1. ChunkLens = {BLOCK_SIZE} /\ feeder.served \in BlockEnds
      BY DEF BlocksWhole, Straight
    <3>2. p % BLOCK_SIZE = 0
      BY <2>2, <3>1 DEF BlockEnds
    <3>3. n = Lesser(BLOCK_SIZE, FileSize - p)
      BY <2>1, <2>2, <3>1
    <3> HIDE DEF p
    <3>4. n = BLOCK_SIZE \/ p + n = FileSize
      BY <1>1, <2>2, <3>3 DEF Lesser, p
    <3> QED
      BY <3>2, <3>4 DEF OneBlock
  <2> HIDE DEF p
  <2>7. p \in Nat /\ Fronted(cache, p)
    BY <1>1, <1>3 DEF p
  <2>8. Fronted(cache', p + n) /\ Filling(cache', p + n)
    BY <1>3, <2>0, <2>3, <2>4, <2>6, <2>7, StoreFills
  <2>9. CacheShape(cache')
    <3>1. Cells(p, n) \in Seq(Nat)
      BY <2>3, <2>7, CellsSeq
    <3> QED
      BY <1>3, <2>4, <2>7, <3>1, StoreCounted
  <2> QED
    BY <2>5, <2>8, <2>9
<1>6. CASE Flush
  <2>1. /\ cache' = FlushPending(cache).cache
        /\ feeder'.pc = "finish" /\ feeder'.position = feeder.position
    BY <1>6 DEF Flush, Counters, FeederTypeOK, FeederRecords
  <2>2. CacheShape(cache') /\ Fronted(cache', feeder.position)
    BY <1>1, <1>3, <2>1, FlushFronted
  <2> QED
    BY <2>1, <2>2 DEF Gathering
<1> QED
  BY <1>3, <1>4, <1>5, <1>6

(* What a handler reads is what the feeder wrote there. *)
LEMMA ReadFollows ==
    ASSUME Counters, Written, AllSend, session # "cleared",
           NEW h \in Handlers, handler[h].pc = "read"
    PROVE  ReadSpan(cache, handler[h].pos, handler[h].avail).data
               \in {None, Cells(handler[h].pos, handler[h].avail - handler[h].pos)}
<1> DEFINE s == handler[h].pos
           e == handler[h].avail
           M == feeder.position
<1>1. s \in Nat /\ e \in Nat /\ M \in Nat /\ stored \in Nat
  BY DEF Counters, FeederTypeOK, FeederRecords
<1>2. s < e
  BY DEF AllSend, Sends
<1>3. e <= M
  <2>1. e <= stored /\ stored <= M
    BY DEF Counters, HandlerBehind, ReceivedCovers
  <2> HIDE DEF e, M
  <2> QED
    BY <1>1, <2>1
<1>4. \A i \in DOMAIN cache.blocks : cache.blocks[i] = BlockOf(i, M)
  BY DEF Written, Fronted
<1> HIDE DEF s, e, M
<1>5. CASE \A i \in FirstBlock(s)..LastBlock(s, e) : HasBlock(cache, i)
  <2>1. \A i \in FirstBlock(s)..LastBlock(s, e) :
            HasBlock(cache, i) /\ cache.blocks[i] = BlockOf(i, M)
    BY <1>4, <1>5 DEF HasBlock
  <2>2. ReadSpan(cache, s, e).data = Cells(s, e - s)
    BY <1>1, <1>2, <1>3, <2>1, SpanRead
  <2> QED
    BY <2>2 DEF s, e
<1>6. CASE ~(\A i \in FirstBlock(s)..LastBlock(s, e) : HasBlock(cache, i))
  <2>1. {i \in FirstBlock(s)..LastBlock(s, e) : ~HasBlock(cache, i)} # {}
    BY <1>6
  <2>2. ReadSpan(cache, s, e).data = None
    BY <2>1 DEF ReadSpan
  <2> QED
    BY <2>2 DEF s, e
<1> QED
  BY <1>5, <1>6
LEMMA HandlerSends ==
    ASSUME Counters, Written, AllSend, session' # "cleared",
           NEW h \in Handlers, Request(h) \/ HandlerStep(h)
    PROVE  AllSend' /\ Written'
<1> DEFINE me   == handler[h]
           next == handler'[h]
<1>1. session # "cleared" /\ UNCHANGED <<session, feeder, stored, done>>
  BY DEF Request, HandlerStep, HandlerOnly, WaitUntil, Read, Write, Report, Continue,
         Close, ClientGone
<1>2. /\ me = [pc |-> me.pc, pos |-> me.pos, avail |-> me.avail,
               data |-> me.data, sent |-> me.sent]
      /\ handler = [g \in Handlers |-> handler[g]]
      /\ me.pos \in Nat /\ me.avail \in Nat
      /\ \A g \in Handlers : Sends(g)
  BY <1>1 DEF Counters, HandlerShapes, FeederTypeOK, AllSend
<1>3. /\ me.sent = Cells(0, me.pos)
      /\ me.pc \in {"read", "write"} => me.pos < me.avail
      /\ me.pc = "write" => me.data = Cells(me.pos, me.avail - me.pos)
      /\ Within(me.pos)
      /\ me.pc \in {"read", "write"} => Within(me.avail)
  BY <1>2 DEF Sends
<1>0. me = [pc |-> me.pc, pos |-> me.pos, avail |-> me.avail,
            data |-> me.data, sent |-> me.sent]
  BY <1>2
<1> HIDE DEF next
<1>4. ASSUME NEW r, handler' = [handler EXCEPT ![h] = r],
             r.sent = Cells(0, r.pos),
             r.pc \in {"read", "write"} => r.pos < r.avail,
             r.pc = "write" => r.data = Cells(r.pos, r.avail - r.pos),
             Within(r.pos), r.pc \in {"read", "write"} => Within(r.avail)
      PROVE  AllSend'
  <2>1. ASSUME NEW g \in Handlers PROVE Sends(g)'
    <3>1. CASE g = h
      <4>1. handler'[g] = r
        BY <1>2, <1>4, <3>1
      <4> QED
        BY <1>4, <4>1 DEF Sends
    <3>2. CASE g # h
      <4>1. handler'[g] = handler[g]
        BY <1>2, <1>4, <3>2
      <4> QED
        BY <1>2, <4>1 DEF Sends
    <3> QED
      BY <3>1, <3>2
  <2> QED
    BY <2>1 DEF AllSend
<1>5. ASSUME NEW label, label \notin {"read", "write"},
             handler' = [handler EXCEPT ![h].pc = label]
      PROVE  AllSend'
  <2> DEFINE r == [pc |-> label, pos |-> me.pos, avail |-> me.avail, data |-> me.data,
                   sent |-> me.sent]
  <2>1. handler' = [handler EXCEPT ![h] = [me EXCEPT !.pc = label]]
    BY <1>2, <1>5
  <2>2. [me EXCEPT !.pc = label] = r
    BY <1>2
  <2>3. handler' = [handler EXCEPT ![h] = r]
    BY <2>1, <2>2
  <2>4. /\ r.sent = Cells(0, r.pos) /\ r.pc \notin {"read", "write"}
        /\ Within(r.pos)
    BY <1>3, <1>5
  <2> HIDE DEF r
  <2> QED
    BY <1>4, <2>3, <2>4
<1>6. HandlerOnly \/ UNCHANGED cache => Written'
  BY <1>1 DEF HandlerOnly, Written
<1>7. CASE Request(h)
  <2>1. UNCHANGED cache /\ \E label \in {"wait"} : handler' = [handler EXCEPT ![h].pc = label]
    BY <1>7 DEF Request
  <2>2. AllSend'
    BY <1>5, <2>1
  <2> QED
    BY <1>6, <2>1, <2>2
<1>8. CASE WaitUntil(h)
  <2> DEFINE a == Lesser(stored, Want(me.pos))
             r == [me EXCEPT !.pc = "read", !.avail = a]
  <2>1. \/ a > me.pos /\ handler' = [handler EXCEPT ![h].pc = "read", ![h].avail = a]
        \/ handler' = [handler EXCEPT ![h].pc = "answered"]
    BY <1>8 DEF WaitUntil
  <2>2. a \in Int
    BY <1>2, FeederAssumption, CacheAssumption DEF Counters, FeederTypeOK, Lesser, Want
  <2>5. Within(a)
    <3> DEFINE p == me.pos
    <3>1. p \in Nat /\ stored \in Nat /\ SERVE_CHUNK \in Nat
          /\ (TotalBytes \in Nat \/ TotalBytes = None)
      BY <1>2, FeederAssumption, CacheAssumption DEF Counters, FeederTypeOK
    <3> HIDE DEF p
    <3> QED
      BY <3>1 DEF Within, Lesser, Want, p
  <2> HIDE DEF a
  <2>3. ASSUME a > me.pos, handler' = [handler EXCEPT ![h].pc = "read", ![h].avail = a]
        PROVE  AllSend'
    <3>1. handler' = [handler EXCEPT ![h] = r]
      BY <1>2, <2>3
    <3>2. r.sent = me.sent /\ r.pos = me.pos /\ r.avail = a /\ r.pc = "read"
      <4> HIDE DEF me
      <4> QED
        BY <1>0
    <3> HIDE DEF r, me
    <3>3. /\ r.sent = Cells(0, r.pos) /\ r.pos < r.avail
          /\ Within(r.pos) /\ Within(r.avail)
      BY <1>2, <1>3, <2>2, <2>3, <2>5, <3>2
    <3> QED
      BY <1>4, <3>1, <3>2, <3>3
  <2>4. AllSend'
    BY <1>5, <2>1, <2>3
  <2> QED
    BY <1>6, <1>8, <2>4 DEF WaitUntil
<1>9. CASE Read(h)
  <2> DEFINE read == ReadSpan(cache, me.pos, me.avail)
             d == read.data
             r == [me EXCEPT !.pc = "write", !.data = d]
  <2>1. /\ me.pc = "read"
        /\ cache' = read.cache
        /\ handler' = [handler EXCEPT ![h] = IF d = None THEN [@ EXCEPT !.pc = "wait"]
                                             ELSE [@ EXCEPT !.pc = "write", !.data = d]]
    BY <1>9 DEF Read
  <2>2. d \in {None, Cells(me.pos, me.avail - me.pos)}
    BY <1>1, <2>1, ReadFollows
  <2>3. Written'
    <3>1. CacheShape(cache) /\ feeder.position \in Nat
      BY <1>1 DEF Written, Counters, FeederTypeOK, FeederRecords
    <3>2. /\ CacheShape(cache')
          /\ Fronted(cache, feeder.position) => Fronted(cache', feeder.position)
          /\ Filling(cache, feeder.position) => Filling(cache', feeder.position)
      BY <2>1, <3>1, ReadFronted
    <3> QED
      BY <1>1, <3>2 DEF Written
  <2> HIDE DEF read, d
  <2>4. CASE d = None
    <3>1. \E label \in {"wait"} : handler' = [handler EXCEPT ![h].pc = label]
      BY <1>2, <2>1, <2>4
    <3>2. AllSend'
      BY <1>5, <3>1
    <3> QED
      BY <2>3, <3>2
  <2>5. CASE d # None
    <3>1. handler' = [handler EXCEPT ![h] = r]
      BY <1>2, <2>1, <2>5
    <3>2. r.sent = me.sent /\ r.pos = me.pos /\ r.avail = me.avail /\ r.data = d
      <4> HIDE DEF me
      <4> QED
        BY <1>0
    <3> HIDE DEF r, me
    <3>3. /\ r.sent = Cells(0, r.pos) /\ r.pos < r.avail
          /\ r.data = Cells(r.pos, r.avail - r.pos)
          /\ Within(r.pos) /\ Within(r.avail)
      BY <1>3, <2>1, <2>2, <2>5, <3>2
    <3> QED
      BY <1>4, <2>3, <3>1, <3>3
  <2> QED
    BY <2>4, <2>5
<1>10. CASE Write(h)
  <2> DEFINE all == me.sent \o me.data
             r   == [me EXCEPT !.pc = "report", !.sent = all, !.data = <<>>,
                               !.pos = me.avail]
  <2>1. me.pc = "write" /\ HandlerOnly
    BY <1>10 DEF Write
  <2>2. handler' = [handler EXCEPT ![h] = r]
    BY <1>2, <1>10 DEF Write
  <2>3. r.sent = all /\ r.pos = me.avail /\ r.pc = "report"
    <3> HIDE DEF me, all
    <3> QED
      BY <1>0
  <2>4. me.sent \o me.data = Cells(0, me.avail)
    <3> DEFINE a == me.pos
               b == me.avail - me.pos
    <3>1. 0 \in Nat /\ a \in Nat /\ b \in Nat /\ 0 + a = me.pos /\ a + b = me.avail
      BY <1>2, <1>3, <2>1
    <3>2. me.sent = Cells(0, a) /\ me.data = Cells(0 + a, b)
      BY <1>2, <1>3, <2>1
    <3> HIDE DEF a, b
    <3>3. Cells(0, a) \o Cells(0 + a, b) = Cells(0, a + b)
      BY <3>1, CellsJoin
    <3> QED
      BY <3>1, <3>2, <3>3
  <2> HIDE DEF r
  <2>5. r.sent = Cells(0, r.pos) /\ Within(r.pos)
    BY <1>3, <2>1, <2>3, <2>4
  <2> QED
    BY <1>4, <1>6, <2>1, <2>2, <2>3, <2>5
<1>11. CASE Report(h)
  <2>1. UNCHANGED cache /\ \E label \in {"next"} : handler' = [handler EXCEPT ![h].pc = label]
    BY <1>11 DEF Report
  <2>2. AllSend'
    BY <1>5, <2>1
  <2> QED
    BY <1>6, <2>1, <2>2
<1>12. CASE Continue(h)
  <2>1. \E label \in {"answered", "wait"} : handler' = [handler EXCEPT ![h].pc = label]
    BY <1>12 DEF Continue
  <2> QED
    BY <1>5, <1>6, <1>12, <2>1 DEF Continue
<1>13. CASE Close(h) \/ ClientGone(h)
  <2>1. HandlerOnly /\ handler' = [handler EXCEPT ![h] = Idle]
    BY <1>13 DEF Close, ClientGone
  <2>2. <<>> = Cells(0, 0)
    <3>1. Cells(0, 0) \in Seq(Nat) /\ Len(Cells(0, 0)) = 0
      BY CellsSeq
    <3> QED
      BY <3>1
  <2>3. Idle.sent = Cells(0, Idle.pos) /\ Idle.pc = "idle" /\ Within(Idle.pos)
    BY <2>2, CacheAssumption DEF Idle, Within
  <2> QED
    BY <1>4, <1>6, <2>1, <2>3
<1> QED
  BY <1>7, <1>8, <1>9, <1>10, <1>11, <1>12, <1>13 DEF HandlerStep

Sending == Straight /\ Written /\ AllSend

LEMMA SendsHold ==
    ASSUME "break" \notin StreamFaults, BlocksWhole
    PROVE  FeederSpec => []Sending
<1>1. Counters /\ Sending /\ [FeederNext]_feederVars => Sending'
  <2> SUFFICES ASSUME Counters, Sending, [FeederNext]_feederVars PROVE Sending'
    OBVIOUS
  <2> USE DEF Sending
  <2>1. CASE FeederStep
    <3>1. Straight' /\ Written'
      BY <2>1, FeederStraight, FeederWrites DEF Counters
    <3>2. UNCHANGED <<session, handler>>
      BY <2>1 DEF FeederStep, FeederGoto, Connect, Receive, EndOfStream, Store, Count, Pace,
                  Flush, Finish, Break, BadStatus
    <3>3. AllSend'
      BY <3>2 DEF AllSend, Sends
    <3> QED
      BY <3>1, <3>3
  <2>2. ASSUME NEW h \in Handlers, Request(h) \/ HandlerStep(h) PROVE Sending'
    <3>1. UNCHANGED <<session, feeder>>
      BY <2>2 DEF Request, HandlerStep, HandlerOnly, WaitUntil, Read, Write, Report,
                  Continue, Close, ClientGone
    <3>2. Straight'
      BY <3>1 DEF Straight
    <3>3. session' # "cleared" => Written' /\ AllSend'
      BY <2>2, HandlerSends
    <3>4. session' = "cleared" => Written' /\ AllSend'
      BY DEF Written, AllSend
    <3> QED
      BY <3>2, <3>3, <3>4
  <2>3. CASE Stop
    BY <2>3 DEF Stop, Straight, Written, AllSend, Sends
  <2>4. CASE Clear
    BY <2>4 DEF Clear, Straight, Written, AllSend
  <2>5. CASE Quiescent \/ UNCHANGED feederVars
    <3>1. UNCHANGED <<cache, session, feeder, stored, consumed, done, handler, requests>>
      BY <2>5 DEF Quiescent, feederVars
    <3> QED
      BY <3>1 DEF Straight, Written, AllSend, Sends
  <2> QED
    BY <2>1, <2>2, <2>3, <2>4, <2>5 DEF FeederNext
<1>2. FeederInit => Sending
  BY SendsInit DEF Sending
<1> QED
  BY <1>1, <1>2, CountersHold, PTL DEF FeederSpec

(* The player is sent the media from its first byte on, whatever evicts,   *)
(* pauses, refuses or stops, and whatever length was announced - unless    *)
(* the connection breaks after bytes of it were stored (MCFeederRestart),  *)
(* or less was announced than there is and the body does not come in whole *)
(* blocks (MCFeederCut).                                                   *)
THEOREM PrefixSent ==
    ASSUME "break" \notin StreamFaults, BlocksWhole
    PROVE  FeederSpec => []SentPrefix
<1>1. Counters /\ Sending => SentPrefix
  <2> SUFFICES ASSUME Counters, Sending, session # "cleared", NEW h \in Handlers
               PROVE  handler[h].sent = Cells(0, Len(handler[h].sent))
    BY DEF SentPrefix
  <2>1. handler[h].sent = Cells(0, handler[h].pos) /\ handler[h].pos \in Nat
    BY DEF Sending, AllSend, Sends, Counters, FeederTypeOK
  <2>2. Len(handler[h].sent) = handler[h].pos
    BY <2>1, CellsSeq
  <2> QED
    BY <2>1, <2>2
<1> QED
  BY <1>1, SendsHold, CountersHold, PTL
-----------------------------------------------------------------------------
(* How an answer ends.                                                     *)

(* In an open session the feeder is done when it has ended; then all it    *)
(* received is counted, the tail included, or it did not receive it all.   *)
Ending ==
    session = "open" =>
        /\ done => feeder.pc = "ended"
        /\ feeder.pc = "flush" =>
              \E g \in Nat : /\ LeftOver(cache, feeder.position, g)
                             /\ stored + g = feeder.position
        /\ feeder.pc = "finish" => stored = feeder.position
        /\ feeder.pc = "ended" =>
              feeder.served < FileSize \/ stored = feeder.position
        /\ \A h \in Handlers : handler[h].pc = "answered" =>
              \/ handler[h].pos >= Announced
              \/ feeder.pc = "ended" /\ feeder.served < FileSize

(* What a flush counts: the one buffer there is. *)
LEMMA LeftGathered ==
    ASSUME NEW c, CacheShape(c), NEW p, NEW g \in Nat, LeftOver(c, p, g)
    PROVE  Cardinality(Gathered(c)) = g
<1>1. PICK i \in Nat : LeftIn(c, i, p, g)
  BY DEF LeftOver
<1>2. /\ DOMAIN c.pending \subseteq {i}
      /\ g = IF i \in DOMAIN c.pending THEN Len(c.pending[i]) ELSE 0
      /\ g < BLOCK_SIZE /\ BLOCK_SIZE \in Nat
  BY <1>1, CacheAssumption DEF LeftIn, LeftOver
<1>3. CASE i \in DOMAIN c.pending
  <2>1. Gathered(c) = {i} \X (1..g)
    BY <1>2, <1>3 DEF Gathered, CellsIn
  <2> DEFINE a == 0
  <2>2. a \in Nat /\ a <= g /\ a + 1 = 1 /\ g - a = g
    OBVIOUS
  <2> HIDE DEF a
  <2>3. Cardinality({i} \X ((a + 1)..g)) = g - a
    BY <2>2, ColumnSize
  <2> QED
    BY <2>1, <2>2, <2>3
<1>4. CASE i \notin DOMAIN c.pending
  <2>1. Gathered(c) = {} /\ g = 0
    BY <1>2, <1>4 DEF Gathered, CellsIn
  <2> QED
    BY <2>1, FS_EmptySet
<1> QED
  BY <1>3, <1>4

LEMMA EndingInit == FeederInit => Ending
BY DEF FeederInit, Ending, Idle

LEMMA FeederEnds ==
    ASSUME "break" \notin StreamFaults, Counters, Paced, Straight, Ending, FeederStep
    PROVE  Ending'
<1>1. /\ stored \in Nat /\ feeder.position \in Nat
      /\ feeder = [pc |-> feeder.pc, position |-> feeder.position,
                   served |-> feeder.served, attempt |-> feeder.attempt,
                   committed |-> feeder.committed]
      /\ FileSize > 0
  BY FeederAssumption DEF Counters, FeederTypeOK, FeederRecords
<1>2. UNCHANGED <<session, handler>> /\ feeder.pc # "ended"
  BY DEF FeederStep, FeederGoto, Connect, Receive, EndOfStream, Store, Count, Pace,
         Flush, Finish, Break, BadStatus
<1> SUFFICES ASSUME session = "open" PROVE Ending'
  BY <1>2 DEF Ending
<1>3. /\ ~done
      /\ \A h \in Handlers : handler[h].pc = "answered" => handler[h].pos >= Announced
  BY <1>2 DEF Ending
<1>4. ASSUME feeder'.pc \in {"connect", "stream", "store", "count", "pace", "fail"},
             done' = done
      PROVE  Ending'
  BY <1>2, <1>3, <1>4 DEF Ending
<1>5. ASSUME NEW label \in {"connect", "stream", "store", "count", "pace", "fail"},
             FeederGoto(label)
      PROVE  Ending'
  <2>1. feeder'.pc = label /\ done' = done
    BY <1>1, <1>5 DEF FeederGoto
  <2> QED
    BY <1>4, <2>1
<1>6. CASE Connect
  BY <1>1, <1>4, <1>6 DEF Connect
<1>7. CASE Receive
  BY <1>5, <1>7 DEF Receive, stop_event
<1>8. CASE EndOfStream
  <2>1. /\ feeder.pc = "stream" /\ feeder'.pc = "flush"
        /\ feeder'.position = feeder.position
        /\ UNCHANGED <<cache, stored, done>>
    BY <1>1, <1>8 DEF EndOfStream, FeederGoto
  <2>2. \E g \in Nat : /\ LeftOver(cache, feeder.position, g)
                       /\ stored + Uncounted + g = feeder.position
    BY <2>1 DEF Paced, TailBuffered, Running
  <2>3. Uncounted = 0
    BY <2>1 DEF Uncounted
  <2>4. \E g \in Nat : LeftOver(cache, feeder.position, g) /\ stored + g = feeder.position
    BY <1>1, <2>2, <2>3
  <2> QED
    BY <1>2, <1>3, <2>1, <2>4 DEF Ending
<1>9. CASE Store
  <2>1. feeder'.pc = "count" /\ done' = done
    BY <1>1, <1>9 DEF Store
  <2> QED
    BY <1>4, <2>1
<1>10. CASE Count
  BY <1>1, <1>4, <1>10 DEF Count
<1>11. CASE Pace
  BY <1>5, <1>11 DEF Pace
<1>12. CASE Flush
  <2>1. /\ feeder.pc = "flush" /\ feeder'.pc = "finish"
        /\ feeder'.position = feeder.position
        /\ stored' = stored + Cardinality(Gathered(cache))
        /\ UNCHANGED done
    BY <1>1, <1>12 DEF Flush, FlushPending
  <2>2. PICK g \in Nat : /\ LeftOver(cache, feeder.position, g)
                         /\ stored + g = feeder.position
    BY <2>1 DEF Ending
  <2>3. CacheShape(cache)
    BY <2>1 DEF Counters, ReceivedCovers, Gathering
  <2>4. stored' = feeder.position
    BY <2>1, <2>2, <2>3, LeftGathered
  <2> QED
    BY <1>2, <1>3, <2>1, <2>4 DEF Ending
<1>13. CASE Finish
  <2>1. /\ feeder.pc \in {"finish", "fail"}
        /\ feeder'.pc = "ended" /\ feeder'.position = feeder.position
        /\ feeder'.served = feeder.served
        /\ UNCHANGED stored
    BY <1>1, <1>13 DEF Finish
  <2>2. feeder.served < FileSize \/ stored = feeder.position
    BY <1>1, <2>1 DEF Ending, Straight
  <2> QED
    BY <1>2, <1>3, <2>1, <2>2 DEF Ending
<1>14. CASE Break
  <2>1. feeder'.pc \in {"connect", "fail"} /\ done' = done
    BY <1>1, <1>14 DEF Break
  <2> QED
    BY <1>4, <2>1
<1>15. CASE BadStatus
  BY <1>5, <1>15 DEF BadStatus
<1> QED
  BY <1>6, <1>7, <1>8, <1>9, <1>10, <1>11, <1>12, <1>13, <1>14, <1>15 DEF FeederStep

(* An answer that ends has come to the end of the media, or of what there  *)
(* will ever be of it.                                                     *)
LEMMA AnswerEnds ==
    ASSUME Counters, Straight, Ending, session = "open",
           NEW h \in Handlers, handler[h].pc \in {"wait", "next"},
           \/ AtEnd(handler[h].pos)
           \/ done /\ handler[h].pos >= stored
           \/ Want(handler[h].pos) <= handler[h].pos
    PROVE  \/ handler[h].pos >= Announced
           \/ feeder.pc = "ended" /\ feeder.served < FileSize
<1> DEFINE pos == handler[h].pos
<1>1. /\ pos \in Nat /\ stored \in Nat /\ consumed \in Nat
      /\ feeder.position \in Nat /\ feeder.served \in 0..FileSize
      /\ FileSize \in Nat /\ SERVE_CHUNK \in Nat \ {0}
      /\ TotalBytes \in Nat \/ TotalBytes = None
  BY CacheAssumption, FeederAssumption DEF Counters, FeederTypeOK, FeederRecords
<1>2. pos <= consumed /\ consumed <= stored /\ stored <= feeder.position
  BY DEF Counters, HandlerBehind, ConsumedStored, ReceivedCovers
<1>3. feeder.position = feeder.served
  BY DEF Straight
<1> HIDE DEF pos
<1>4. AtEnd(pos) => pos >= Announced
  BY <1>1 DEF AtEnd, Announced, Lesser
<1>5. Want(pos) <= pos => pos >= Announced
  BY <1>1 DEF Want, Announced, Lesser
<1>6. done => feeder.pc = "ended" /\ (feeder.served < FileSize \/ stored = feeder.position)
  BY DEF Ending
<1>7. done /\ pos >= stored => pos >= Announced \/ (feeder.pc = "ended" /\ feeder.served < FileSize)
  <2>1. Announced <= FileSize /\ Announced \in Nat
    BY <1>1 DEF Announced, Lesser
  <2> QED
    BY <1>1, <1>2, <1>3, <1>6, <2>1
<1> QED
  BY <1>4, <1>5, <1>7 DEF pos

LEMMA HandlerEnds ==
    ASSUME Counters, Straight, Ending, NEW h \in Handlers, Request(h) \/ HandlerStep(h)
    PROVE  Ending'
<1>1. UNCHANGED <<session, feeder, stored, done>>
  BY DEF Request, HandlerStep, HandlerOnly, WaitUntil, Read, Write, Report, Continue,
         Close, ClientGone
<1> SUFFICES ASSUME session = "open" PROVE Ending'
  BY <1>1 DEF Ending
<1>2. cache'.pending = cache.pending
  <2>1. ASSUME Read(h) PROVE cache'.pending = cache.pending
    <3>1. \E lru : cache' = [cache EXCEPT !.lru = lru]
      BY <2>1 DEF Read, ReadSpan
    <3> QED
      BY <3>1
  <2>2. UNCHANGED cache \/ Read(h)
    BY DEF Request, HandlerStep, HandlerOnly, WaitUntil, Write, Report, Continue,
           Close, ClientGone
  <2> QED
    BY <2>1, <2>2
<1>3. \A p, g : LeftOver(cache, p, g) => LeftOver(cache', p, g)
  BY <1>2 DEF LeftOver, LeftIn
<1> DEFINE me      == handler[h]
           next    == handler'[h]
           Over(r) == r.pos >= Announced \/ (feeder.pc = "ended" /\ feeder.served < FileSize)
<1>4. /\ me = [pc |-> me.pc, pos |-> me.pos, avail |-> me.avail,
               data |-> me.data, sent |-> me.sent]
      /\ handler = [g \in Handlers |-> handler[g]]
  BY DEF Counters, HandlerShapes
<1>5. \A g \in Handlers : handler[g].pc = "answered" => Over(handler[g])
  BY DEF Ending
<1>6. \E r : handler' = [handler EXCEPT ![h] = r]
  BY <1>4 DEF Request, HandlerStep, WaitUntil, Read, Write, Report, Continue, Close, ClientGone
<1>7. \A g \in Handlers : g # h => handler'[g] = handler[g]
  BY <1>4, <1>6
<1>8. next.pc = "answered" => Over(next)
  <2>1. ASSUME handler' = [handler EXCEPT ![h].pc = "answered"],
               me.pc \in {"wait", "next"},
               \/ AtEnd(me.pos)
               \/ done /\ me.pos >= stored
               \/ Want(me.pos) <= me.pos
        PROVE  Over(next)
    <3>1. next.pos = me.pos
      BY <1>4, <2>1
    <3>2. Over(me)
      BY <2>1, AnswerEnds
    <3> QED
      BY <3>1, <3>2
  <2>2. CASE WaitUntil(h)
    <3> DEFINE a == Lesser(stored, Want(me.pos))
    <3>1. CASE a > me.pos
      <4>1. next.pc = "read"
        BY <1>4, <2>2, <3>1 DEF WaitUntil
      <4> QED
        BY <4>1
    <3>2. CASE ~(a > me.pos)
      <4>1. done /\ handler' = [handler EXCEPT ![h].pc = "answered"] /\ me.pc = "wait"
        BY <2>2, <3>2 DEF WaitUntil
      <4>2. /\ me.pos \in Nat /\ stored \in Nat /\ Want(me.pos) \in Int
        BY FeederAssumption, CacheAssumption DEF Counters, FeederTypeOK, Want, Lesser
      <4>3. me.pos >= stored \/ Want(me.pos) <= me.pos
        BY <3>2, <4>2 DEF Lesser
      <4> QED
        BY <2>1, <4>1, <4>3
    <3> QED
      BY <3>1, <3>2
  <2>3. CASE Continue(h)
    <3>1. CASE AtEnd(me.pos) \/ (done /\ me.pos >= stored)
      <4>1. handler' = [handler EXCEPT ![h].pc = "answered"] /\ me.pc = "next"
        BY <2>3, <3>1 DEF Continue
      <4> QED
        BY <2>1, <3>1, <4>1
    <3>2. CASE ~(AtEnd(me.pos) \/ (done /\ me.pos >= stored))
      <4>1. handler' = [handler EXCEPT ![h].pc = "wait"]
        BY <2>3, <3>2 DEF Continue
      <4>2. next.pc = "wait"
        BY <1>4, <4>1
      <4> QED
        BY <4>2
    <3> QED
      BY <3>1, <3>2
  <2>4. CASE Request(h) \/ Read(h) \/ Write(h) \/ Report(h) \/ Close(h) \/ ClientGone(h)
    <3>1. next.pc # "answered"
      <4>1. CASE Request(h)
        BY <1>4, <4>1 DEF Request
      <4>2. CASE Read(h)
        <5> DEFINE d == ReadSpan(cache, me.pos, me.avail).data
        <5>1. handler' = [handler EXCEPT ![h] = IF d = None THEN [@ EXCEPT !.pc = "wait"]
                                                ELSE [@ EXCEPT !.pc = "write", !.data = d]]
          BY <4>2 DEF Read
        <5> HIDE DEF d
        <5>2. next \in {[me EXCEPT !.pc = "wait"], [me EXCEPT !.pc = "write", !.data = d]}
          BY <1>4, <5>1
        <5>3. next.pc \in {"wait", "write"}
          BY <1>4, <5>2
        <5> QED
          BY <5>3
      <4>3. CASE Write(h)
        BY <1>4, <4>3 DEF Write
      <4>4. CASE Report(h)
        BY <1>4, <4>4 DEF Report
      <4>5. CASE Close(h) \/ ClientGone(h)
        BY <1>4, <4>5 DEF Close, ClientGone, Idle
      <4> QED
        BY <2>4, <4>1, <4>2, <4>3, <4>4, <4>5
    <3> QED
      BY <3>1
  <2> QED
    BY <2>2, <2>3, <2>4 DEF HandlerStep
<1>9. \A g \in Handlers : handler'[g].pc = "answered" => Over(handler'[g])
  BY <1>5, <1>7, <1>8
<1> QED
  BY <1>1, <1>3, <1>9 DEF Ending

LEMMA EndingHolds ==
    ASSUME "break" \notin StreamFaults, BlocksWhole
    PROVE  FeederSpec => []Ending
<1>1. Counters /\ Paced /\ Sending /\ Ending /\ [FeederNext]_feederVars => Ending'
  <2> SUFFICES ASSUME Counters, Paced, Sending, Ending, [FeederNext]_feederVars
               PROVE  Ending'
    OBVIOUS
  <2>1. Straight
    BY DEF Sending
  <2>2. CASE FeederStep
    BY <2>1, <2>2, FeederEnds
  <2>3. CASE \E h \in Handlers : Request(h) \/ HandlerStep(h)
    BY <2>1, <2>3, HandlerEnds
  <2>4. CASE Stop \/ Clear
    <3>1. session' # "open"
      BY <2>4 DEF Stop, Clear
    <3> QED
      BY <3>1 DEF Ending
  <2>5. CASE Quiescent \/ UNCHANGED feederVars
    <3>1. UNCHANGED <<cache, session, feeder, stored, consumed, done, handler, requests>>
      BY <2>5 DEF Quiescent, feederVars
    <3> QED
      BY <3>1 DEF Ending
  <2> QED
    BY <2>2, <2>3, <2>4, <2>5 DEF FeederNext
<1> QED
  BY <1>1, EndingInit, CountersHold, PacedHolds, SendsHold, PTL DEF FeederSpec

(* An answer that ends is all there is to send, to the byte, or the feeder *)
(* has ended without receiving all of the media: the flush counts the tail *)
(* before done is set, so no handler takes a done feeder's count for final *)
(* too early.  Whatever length was announced, none, that of the media or   *)
(* that of an encoded body.                                                *)
THEOREM AnswersWhole ==
    ASSUME "break" \notin StreamFaults, BlocksWhole
    PROVE  FeederSpec => []AnswerComplete
<1>1. Counters /\ Sending /\ Ending => AnswerComplete
  <2> SUFFICES ASSUME Counters, Sending, Ending, NEW h \in Handlers,
                      handler[h].pc = "answered", session = "open"
               PROVE  \/ Len(handler[h].sent) = Announced
                      \/ /\ feeder.pc = "ended" /\ feeder.served < FileSize
                         /\ Len(handler[h].sent) < Announced
    BY DEF AnswerComplete
  <2> DEFINE pos == handler[h].pos
  <2>1. handler[h].sent = Cells(0, pos) /\ pos \in Nat /\ Within(pos)
    BY DEF Sending, AllSend, Sends, Counters, FeederTypeOK
  <2>2. Len(handler[h].sent) = pos
    BY <2>1, CellsSeq
  <2>3. /\ pos <= consumed /\ consumed <= stored /\ stored <= feeder.position
        /\ feeder.position = feeder.served /\ feeder.served \in 0..FileSize
        /\ consumed \in Nat /\ stored \in Nat /\ FileSize \in Nat
    BY CacheAssumption DEF Counters, HandlerBehind, ConsumedStored, ReceivedCovers,
       Sending, Straight, FeederTypeOK, FeederRecords
  <2>4. pos >= Announced \/ (feeder.pc = "ended" /\ feeder.served < FileSize)
    BY DEF Ending
  <2> HIDE DEF pos
  <2>5. Announced \in Nat /\ pos <= Announced
    BY <2>1, <2>3, CacheAssumption DEF Announced, Lesser, Within
  <2> QED
    BY <2>1, <2>2, <2>4, <2>5
<1> QED
  BY <1>1, SendsHold, EndingHolds, CountersHold, PTL

-----------------------------------------------------------------------------
(* Nothing that is stored is evicted before the player has read it.        *)

(* Every block starts before position p of the stream. *)
Behind(c, p) ==
    \A i \in Nat : i \in DOMAIN c.blocks \/ i \in DOMAIN c.pending => i * BLOCK_SIZE < p

(* A block lies less than keep_ahead and three blocks behind every block   *)
(* that is older than it in the recency list.                              *)
Near(c) ==
    \A x, y \in Nat :
        Before(c.lru, x, y) =>
            x * BLOCK_SIZE < y * BLOCK_SIZE + 3 * BLOCK_SIZE + keep_ahead

(* From position q on, what was received up to p is there: the full blocks *)
(* are resident, the rest of the last one is at least buffered.            *)
Holds(c, p, q) ==
    \A i \in Nat : q < (i + 1) * BLOCK_SIZE =>
        /\ (i + 1) * BLOCK_SIZE <= p => i \in DOMAIN c.blocks
        /\ i = FirstBlock(p) /\ p % BLOCK_SIZE > 0 =>
              \/ i \in DOMAIN c.blocks
              \/ i \in DOMAIN c.pending /\ Len(c.pending[i]) >= p % BLOCK_SIZE

(* A piece either commits its block or is buffered behind the rest of it. *)
LEMMA PieceCases ==
    ASSUME NEW r, Kept(r), NEW p \in Nat, NEW piece \in Seq(Nat)
    PROVE  LET c   == r.cache
               d   == StorePiece(r, p, piece).cache
               f   == FirstBlock(p)
               old == IF f \in DOMAIN c.pending THEN Len(c.pending[f]) ELSE 0
           IN  \/ /\ DOMAIN d.blocks = DOMAIN c.blocks \cup {f}
                  /\ DOMAIN d.pending \subseteq DOMAIN c.pending
               \/ /\ d.blocks = c.blocks
                  /\ DOMAIN d.pending = DOMAIN c.pending \cup {f}
                  /\ Len(d.pending[f]) = old + Len(piece)
                  /\ old + Len(piece) < BLOCK_SIZE
                  /\ old \in Nat
<1> DEFINE c   == r.cache
           q   == StorePiece(r, p, piece)
           f   == FirstBlock(p)
           n   == Len(piece)
           old == IF f \in DOMAIN c.pending THEN Len(c.pending[f]) ELSE 0
           buf == Buffered(c, f, piece)
           L   == BlockLimit(f)
<1>1. f \in Nat /\ n \in Nat /\ L \in Int /\ L <= BLOCK_SIZE /\ BLOCK_SIZE \in Nat
  <2>1. f \in Nat
    BY FirstNat
  <2>2. n \in Nat /\ BLOCK_SIZE \in Nat
    BY CacheAssumption
  <2> HIDE DEF f, n
  <2> QED
    BY <2>1, <2>2, LimitInt
<1>2. buf \in Seq(Nat) /\ Len(buf) = old + n /\ old \in Nat
  BY DEF Buffered, Kept, Awaiting
<1>3. CASE Len(buf) >= L
  <2>1. q = [cache |-> Commit(c, f, FullBlock(buf)),
             committed |-> r.committed + Len(FullBlock(buf))]
    BY <1>3 DEF StorePiece
  <2> DEFINE b == FullBlock(buf)
  <2> HIDE DEF b, c, q, f
  <2>2. q.cache = Commit(c, f, b)
    BY <2>1 DEF b
  <2>3. /\ DOMAIN q.cache.blocks = DOMAIN c.blocks \cup {f}
        /\ q.cache.pending = Drop(c.pending, {f})
    <3>1. /\ DOMAIN Commit(c, f, b).blocks = DOMAIN c.blocks \cup {f}
          /\ Commit(c, f, b).pending = Drop(c.pending, {f})
      BY CommitSets
    <3> QED
      BY <2>2, <3>1
  <2>4. DOMAIN q.cache.pending \subseteq DOMAIN c.pending
    BY <2>3 DEF Drop
  <2> QED
    BY <2>3, <2>4 DEF q, f, c
<1>4. CASE ~(Len(buf) >= L)
  <2>1. q = [r EXCEPT !.cache.pending = Put(@, f, buf)]
    BY <1>4 DEF StorePiece
  <2> HIDE DEF buf, q
  <2>2. q = [cache |-> [c EXCEPT !.pending = Put(@, f, buf)], committed |-> r.committed]
    BY <2>1 DEF Kept
  <2>3. q.cache = [c EXCEPT !.pending = Put(@, f, buf)]
    BY <2>2
  <2>4. q.cache.blocks = c.blocks /\ q.cache.pending = Put(c.pending, f, buf)
    BY <2>3 DEF Kept, Accounted
  <2>5. /\ DOMAIN q.cache.pending = DOMAIN c.pending \cup {f}
        /\ q.cache.pending[f] = buf
    BY <2>4 DEF Put
  <2> HIDE DEF old, n
  <2>6. Len(q.cache.pending[f]) = old + n /\ old + n < BLOCK_SIZE
    BY <1>1, <1>2, <1>4, <2>5
  <2> QED
    BY <1>2, <2>4, <2>5, <2>6 DEF q, old, n
<1> QED
  BY <1>3, <1>4

(* Whatever is in the recency list is resident. *)
LEMMA Listed ==
    ASSUME NEW c, Accounted(c), NEW x, NEW y, Before(c.lru, x, y)
    PROVE  x \in DOMAIN c.blocks /\ y \in DOMAIN c.blocks /\ x \in Nat /\ y \in Nat
<1>1. c.lru \in Seq(Nat) /\ ToSet(c.lru) = {c.lru[k] : k \in 1..Len(c.lru)}
      /\ ToSet(c.lru) = DOMAIN c.blocks
  BY Members DEF Accounted
<1>2. DOMAIN c.blocks \subseteq Nat
  BY DEF Accounted, Blocks
<1> QED
  BY <1>1, <1>2 DEF Before

LEMMA PieceRetains ==
    ASSUME NEW r, Kept(r), NEW p \in Nat, NEW piece \in Seq(Nat), Len(piece) >= 1,
           (p % BLOCK_SIZE) + Len(piece) <= BLOCK_SIZE,
           NEW q \in Nat,
           Behind(r.cache, p), Near(r.cache), Holds(r.cache, p, q)
    PROVE  LET d == StorePiece(r, p, piece).cache
           IN  /\ Behind(d, p + Len(piece))
               /\ Near(d)
               /\ Holds(d, p + Len(piece), q)
<1> DEFINE c    == r.cache
           d    == StorePiece(r, p, piece).cache
           f    == FirstBlock(p)
           o    == p % BLOCK_SIZE
           n    == Len(piece)
           base == f * BLOCK_SIZE
           old  == IF f \in DOMAIN c.pending THEN Len(c.pending[f]) ELSE 0
<1>1. /\ f \in Nat /\ o \in 0..(BLOCK_SIZE - 1) /\ base \in Nat /\ p = base + o
      /\ (f + 1) * BLOCK_SIZE = base + BLOCK_SIZE
      /\ BLOCK_SIZE \in Nat /\ BLOCK_SIZE > 0
  BY Located
<1>2. n \in Nat /\ n >= 1 /\ o + n <= BLOCK_SIZE
  OBVIOUS
<1>3. /\ o + n < BLOCK_SIZE => FirstBlock(p + n) = f /\ (p + n) % BLOCK_SIZE = o + n
      /\ o + n = BLOCK_SIZE => (p + n) % BLOCK_SIZE = 0
  <2> HIDE DEF n
  <2> QED
    BY <1>2, Advance
<1>4. /\ Accounted(c)
      /\ Kept(StorePiece(r, p, piece))
      /\ Accounted(d)
  BY PieceAccounted DEF Kept
<1>5. \/ /\ DOMAIN d.blocks = DOMAIN c.blocks \cup {f}
         /\ DOMAIN d.pending \subseteq DOMAIN c.pending
      \/ /\ d.blocks = c.blocks
         /\ DOMAIN d.pending = DOMAIN c.pending \cup {f}
         /\ Len(d.pending[f]) = old + n
         /\ old + n < BLOCK_SIZE
         /\ old \in Nat
  BY PieceCases
<1>6. \/ d.lru = c.lru /\ d.blocks = c.blocks
      \/ Moved(c, d, {f})
  BY PieceMoved
<1>7. f \in DOMAIN c.pending => old = Len(c.pending[f])
  OBVIOUS
<1> HIDE DEF c, d, f, o, n, base, old
<1>8. ASSUME NEW i \in Nat, i \in DOMAIN d.blocks \/ i \in DOMAIN d.pending
      PROVE  i * BLOCK_SIZE < p + n
  <2>1. i = f \/ i \in DOMAIN c.blocks \/ i \in DOMAIN c.pending
    BY <1>5, <1>8
  <2>2. CASE i = f
    BY <1>1, <1>2, <2>2 DEF base
  <2>3. CASE i \in DOMAIN c.blocks \/ i \in DOMAIN c.pending
    <3>1. i * BLOCK_SIZE < p
      BY <2>3 DEF Behind, c
    <3>2. i * BLOCK_SIZE \in Nat
      BY <1>1
    <3> QED
      BY <1>2, <3>1, <3>2
  <2> QED
    BY <2>1, <2>2, <2>3
<1>9. Near(d)
  <2> SUFFICES ASSUME NEW x \in Nat, NEW y \in Nat, Before(d.lru, x, y)
               PROVE  x * BLOCK_SIZE < y * BLOCK_SIZE + 3 * BLOCK_SIZE + keep_ahead
    BY DEF Near
  <2>1. CASE Before(c.lru, x, y)
    BY <2>1 DEF Near, c
  <2>2. CASE y = f
    <3>1. x * BLOCK_SIZE < p + n
      BY <1>4, <1>8, Listed
    <3>2. x * BLOCK_SIZE \in Nat /\ y * BLOCK_SIZE = base /\ keep_ahead \in Nat
      BY <1>1, <2>2, FeederAssumption DEF base
    <3> QED
      BY <1>1, <1>2, <3>1, <3>2
  <2>3. Before(c.lru, x, y) \/ y = f
    BY <1>6 DEF Moved
  <2> QED
    BY <2>1, <2>2, <2>3
<1>10. DOMAIN c.blocks \subseteq DOMAIN d.blocks
  BY <1>5
<1>11. Holds(d, p + n, q)
  <2> SUFFICES ASSUME NEW i \in Nat, q < (i + 1) * BLOCK_SIZE
               PROVE  /\ (i + 1) * BLOCK_SIZE <= p + n => i \in DOMAIN d.blocks
                      /\ i = FirstBlock(p + n) /\ (p + n) % BLOCK_SIZE > 0 =>
                            \/ i \in DOMAIN d.blocks
                            \/ /\ i \in DOMAIN d.pending
                               /\ Len(d.pending[i]) >= (p + n) % BLOCK_SIZE
    BY DEF Holds
  <2>1. /\ (i + 1) * BLOCK_SIZE <= p => i \in DOMAIN c.blocks
        /\ i = f /\ o > 0 =>
              \/ i \in DOMAIN c.blocks
              \/ i \in DOMAIN c.pending /\ Len(c.pending[i]) >= o
    BY DEF Holds, c, f, o
  <2>2. i = f => \/ i \in DOMAIN d.blocks
                 \/ /\ i \in DOMAIN d.pending
                    /\ Len(d.pending[i]) >= o + n
                    /\ o + n < BLOCK_SIZE
    <3> SUFFICES ASSUME i = f, f \notin DOMAIN d.blocks
                 PROVE  /\ f \in DOMAIN d.pending
                        /\ Len(d.pending[f]) >= o + n
                        /\ o + n < BLOCK_SIZE
      OBVIOUS
    <3>1. /\ f \in DOMAIN d.pending /\ Len(d.pending[f]) = old + n
          /\ old + n < BLOCK_SIZE /\ old \in Nat
          /\ f \notin DOMAIN c.blocks
      BY <1>5
    <3>2. old >= o
      BY <1>1, <1>7, <2>1, <3>1
    <3> QED
      BY <1>1, <1>2, <3>1, <3>2
  <2>3. ASSUME (i + 1) * BLOCK_SIZE <= p + n PROVE i \in DOMAIN d.blocks
    <3>1. CASE (i + 1) * BLOCK_SIZE <= p
      BY <1>10, <2>1, <3>1
    <3>2. CASE ~((i + 1) * BLOCK_SIZE <= p)
      <4>1. i = f
        <5>1. i < f => (i + 1) * BLOCK_SIZE <= base
          <6>1. i < f => i + 1 <= f /\ i + 1 \in Nat
            BY <1>1
          <6> QED
            BY <1>1, <6>1, MultiplesOrdered DEF base
        <5>2. i > f => (f + 2) * BLOCK_SIZE <= (i + 1) * BLOCK_SIZE
          <6>1. i > f => f + 2 <= i + 1 /\ f + 2 \in Nat /\ i + 1 \in Nat
            BY <1>1
          <6> QED
            BY <1>1, <6>1, MultiplesOrdered
        <5>3. (f + 2) * BLOCK_SIZE = base + 2 * BLOCK_SIZE
          BY <1>1 DEF base
        <5>4. (i + 1) * BLOCK_SIZE \in Nat
          BY <1>1
        <5>5. ~(i < f)
          BY <1>1, <3>2, <5>1, <5>4
        <5>6. ~(i > f)
          BY <1>1, <1>2, <2>3, <5>2, <5>3, <5>4
        <5> QED
          BY <1>1, <5>5, <5>6
      <4>2. o + n = BLOCK_SIZE
        BY <1>1, <1>2, <2>3, <4>1
      <4>3. ~(o + n < BLOCK_SIZE)
        BY <1>1, <4>2
      <4> QED
        BY <2>2, <4>1, <4>3
    <3> QED
      BY <3>1, <3>2
  <2>4. ASSUME i = FirstBlock(p + n), (p + n) % BLOCK_SIZE > 0
        PROVE  \/ i \in DOMAIN d.blocks
               \/ i \in DOMAIN d.pending /\ Len(d.pending[i]) >= (p + n) % BLOCK_SIZE
    <3>1. i = f /\ (p + n) % BLOCK_SIZE = o + n
      BY <1>1, <1>2, <1>3, <2>4
    <3> QED
      BY <2>2, <3>1
  <2> QED
    BY <2>3, <2>4
<1>12. Behind(d, p + n)
  BY <1>8 DEF Behind
<1> QED
  BY <1>9, <1>11, <1>12 DEF d, n

(* A chunk before the eviction that ends store_bytes. *)
Retains(c, p, q) == Behind(c, p) /\ Near(c) /\ Holds(c, p, q)

LEMMA PiecesRetain ==
    ASSUME NEW c, Budget(c), NEW p \in Nat,
           NEW data \in Seq(Nat), Len(data) \in 1..BLOCK_SIZE,
           NEW q \in Nat, Retains(c, p, q)
    PROVE  \E d : /\ StoreBytes(c, p, data).cache = Evict(d)
                  /\ Accounted(d)
                  /\ Retains(d, p + Len(data), q)
<1> DEFINE r == [cache |-> c, committed |-> 0]
           n == Len(data)
           k == Room(p)
<1>1. n \in 1..BLOCK_SIZE /\ BLOCK_SIZE \in Nat /\ BLOCK_SIZE > 0
  BY CacheAssumption
<1>2. k = BLOCK_SIZE - (p % BLOCK_SIZE) /\ k \in 1..BLOCK_SIZE /\ p % BLOCK_SIZE \in Nat
  BY RoomBounds DEF Room
<1>3. Kept(r) /\ r.cache = c
  BY DEF Kept, Budget
<1>4. CacheShape(c)
  BY DEF CacheShape, Budget, Accounted, Awaiting
<1> HIDE DEF r
<1>5. PICK s : /\ \/ /\ n <= k
                     /\ s = StorePiece(r, p, data)
                  \/ /\ n > k
                     /\ s = StorePiece(StorePiece(r, p, SubSeq(data, 1, k)),
                                       p + k, SubSeq(data, k + 1, n))
               /\ StoreBytes(c, p, data) = [cache |-> Evict(s.cache),
                                           committed |-> s.committed]
  BY <1>4, StoreByPieces, SMTT(60) DEF r
<1> HIDE DEF n, k
<1>6. StoreBytes(c, p, data).cache = Evict(s.cache)
  BY <1>5
<1>7. ASSUME n <= k, s = StorePiece(r, p, data)
      PROVE  Accounted(s.cache) /\ Retains(s.cache, p + n, q)
  <2>1. (p % BLOCK_SIZE) + Len(data) <= BLOCK_SIZE /\ Len(data) >= 1
    BY <1>1, <1>2, <1>7 DEF n
  <2>2. Behind(r.cache, p) /\ Near(r.cache) /\ Holds(r.cache, p, q)
    BY <1>3 DEF Retains
  <2>3. LET d == StorePiece(r, p, data).cache
        IN  Behind(d, p + Len(data)) /\ Near(d) /\ Holds(d, p + Len(data), q)
    BY <1>3, <2>1, <2>2, PieceRetains
  <2>4. Kept(StorePiece(r, p, data))
    BY <1>3, <2>1, PieceAccounted
  <2> QED
    BY <1>7, <2>3, <2>4 DEF Retains, Kept, n
<1>8. ASSUME n > k,
             s = StorePiece(StorePiece(r, p, SubSeq(data, 1, k)),
                            p + k, SubSeq(data, k + 1, n))
      PROVE  Accounted(s.cache) /\ Retains(s.cache, p + n, q)
  <2> DEFINE a  == SubSeq(data, 1, k)
             b  == SubSeq(data, k + 1, n)
             p2 == p + k
             r1 == StorePiece(r, p, a)
  <2>1. a \in Seq(Nat) /\ Len(a) = k /\ b \in Seq(Nat) /\ Len(b) = n - k
    <3>1. k \in Nat /\ k < Len(data)
      BY <1>1, <1>2, <1>8 DEF n
    <3> QED
      BY <3>1, PiecesOf DEF n
  <2>2. /\ k \in Nat /\ Len(a) >= 1 /\ Len(b) >= 1 /\ Len(a) \in Nat /\ Len(b) \in Nat
        /\ (p % BLOCK_SIZE) + Len(a) <= BLOCK_SIZE
        /\ p2 \in Nat /\ p + Len(a) = p2 /\ p2 + Len(b) = p + n
        /\ Len(b) <= BLOCK_SIZE
        /\ (p % BLOCK_SIZE) + k = BLOCK_SIZE
    BY <1>1, <1>2, <1>8, <2>1
  <2> HIDE DEF a, b
  <2>3. Kept(r1)
    BY <1>3, <2>1, <2>2, PieceAccounted
  <2>4. Behind(r1.cache, p2) /\ Near(r1.cache) /\ Holds(r1.cache, p2, q)
    <3>1. Behind(r.cache, p) /\ Near(r.cache) /\ Holds(r.cache, p, q)
      BY <1>3 DEF Retains
    <3>2. LET d == StorePiece(r, p, a).cache
          IN  Behind(d, p + Len(a)) /\ Near(d) /\ Holds(d, p + Len(a), q)
      BY <1>3, <2>1, <2>2, <3>1, PieceRetains
    <3> QED
      BY <2>2, <3>2
  <2>5. p2 % BLOCK_SIZE = 0
    <3>1. (p % BLOCK_SIZE) + k <= BLOCK_SIZE
      BY <1>1, <2>2
    <3> QED
      BY <2>2, <3>1, Advance
  <2> HIDE DEF p2, r1
  <2>6. (p2 % BLOCK_SIZE) + Len(b) <= BLOCK_SIZE
    BY <1>1, <2>2, <2>5
  <2>7. LET d == StorePiece(r1, p2, b).cache
        IN  Behind(d, p2 + Len(b)) /\ Near(d) /\ Holds(d, p2 + Len(b), q)
    BY <2>1, <2>2, <2>3, <2>4, <2>6, PieceRetains
  <2>8. Kept(StorePiece(r1, p2, b))
    BY <2>1, <2>2, <2>3, PieceAccounted
  <2>9. s = StorePiece(r1, p2, b)
    BY <1>8 DEF r1, p2, a, b
  <2> QED
    BY <2>2, <2>7, <2>8, <2>9 DEF Retains, Kept
<1>9. Accounted(s.cache) /\ Retains(s.cache, p + n, q)
  BY <1>5, <1>7, <1>8
<1> QED
  BY <1>6, <1>9 DEF n

(* Twice keep_ahead and what the blocks' edges add. *)
AmpleCapacity == 2 * keep_ahead + 8 * BLOCK_SIZE <= capacity

(* The blocks near block u, and one more. *)
Vicinity(u, i) ==
    ((u - (keep_ahead \div BLOCK_SIZE) - 3)..(u + (keep_ahead \div BLOCK_SIZE) + 3)) \cup {i}

LEMMA VicinityFits ==
    ASSUME AmpleCapacity, NEW u \in Nat, NEW i
    PROVE  /\ IsFiniteSet(Vicinity(u, i))
           /\ Cardinality(Vicinity(u, i)) * BLOCK_SIZE <= capacity
           /\ u \in Vicinity(u, i)
<1> DEFINE k == keep_ahead \div BLOCK_SIZE
           a == u - k - 3
           b == u + k + 3
           S == a..b
<1>1. /\ keep_ahead \in Nat /\ BLOCK_SIZE \in Nat \ {0} /\ k \in Nat
      /\ k * BLOCK_SIZE <= keep_ahead
  BY DivisionBounds, FeederAssumption, CacheAssumption
<1> HIDE DEF k
<1>2. a \in Int /\ b \in Int /\ ~(a > b) /\ b - a + 1 = 2 * k + 7
  BY <1>1
<1> HIDE DEF a, b
<1>3. IsFiniteSet(S) /\ Cardinality(S) = 2 * k + 7
  <2>1. IsFiniteSet(S) /\ Cardinality(S) = IF a > b THEN 0 ELSE b - a + 1
    BY <1>2, FS_Interval
  <2> QED
    BY <1>2, <2>1
<1>4. IsFiniteSet({i}) /\ Cardinality({i}) = 1
  BY FS_Singleton
<1> DEFINE T == {i}
<1>5. u \in S
  BY <1>1 DEF a, b
<1> HIDE DEF S, T
<1>6. /\ IsFiniteSet(S \cup T) /\ Cardinality(S \cup T) \in Nat
      /\ Cardinality(S \cup T) = Cardinality(S) + Cardinality(T) - Cardinality(S \cap T)
      /\ Cardinality(S \cap T) \in Nat
  <2>1. IsFiniteSet(S) /\ IsFiniteSet(T)
    BY <1>3, <1>4 DEF T
  <2>2. IsFiniteSet(S \cup T) /\ IsFiniteSet(S \cap T)
    BY <2>1, FS_Union, FS_Intersection
  <2>3. Cardinality(S \cup T) = Cardinality(S) + Cardinality(T) - Cardinality(S \cap T)
    BY <2>1, FS_Union
  <2> QED
    BY <2>2, <2>3, FS_CardinalityType
<1> DEFINE m == Cardinality(S \cup T)
<1>7. m \in Nat /\ m <= 2 * k + 8
  BY <1>1, <1>3, <1>4, <1>6 DEF T
<1> HIDE DEF m
<1>8. m * BLOCK_SIZE <= (2 * k + 8) * BLOCK_SIZE
  <2> DEFINE z == 2 * k + 8
  <2>1. z \in Nat /\ m <= z
    BY <1>1, <1>7
  <2> HIDE DEF z
  <2>2. m * BLOCK_SIZE <= z * BLOCK_SIZE
    BY <1>1, <1>7, <2>1, MultiplesOrdered
  <2> QED
    BY <2>2 DEF z
<1>9. (2 * k + 8) * BLOCK_SIZE = 2 * (k * BLOCK_SIZE) + 8 * BLOCK_SIZE
  BY <1>1
<1>10. m * BLOCK_SIZE <= capacity
  <2>1. m * BLOCK_SIZE \in Nat /\ k * BLOCK_SIZE \in Nat
    BY <1>1, <1>7
  <2> QED
    BY <1>1, <1>8, <1>9, <2>1, CapacityNat DEF AmpleCapacity
<1>11. Vicinity(u, i) = S \cup T
  BY DEF Vicinity, S, T, a, b, k
<1> QED
  BY <1>5, <1>6, <1>10, <1>11 DEF m

(* What is near an unread block is in its vicinity. *)
LEMMA NearVicinity ==
    ASSUME NEW u \in Nat, NEW y \in Nat, NEW i,
           u * BLOCK_SIZE < y * BLOCK_SIZE + 3 * BLOCK_SIZE + keep_ahead,
           y * BLOCK_SIZE < u * BLOCK_SIZE + 3 * BLOCK_SIZE + keep_ahead
    PROVE  y \in Vicinity(u, i)
<1> DEFINE k == keep_ahead \div BLOCK_SIZE
<1>1. /\ keep_ahead \in Nat /\ BLOCK_SIZE \in Nat \ {0} /\ k \in Nat
      /\ keep_ahead < (k + 1) * BLOCK_SIZE
  BY DivisionBounds, FeederAssumption, CacheAssumption
<1> HIDE DEF k
<1>2. ASSUME NEW x \in Nat, NEW z \in Nat,
             x * BLOCK_SIZE < z * BLOCK_SIZE + 3 * BLOCK_SIZE + keep_ahead
      PROVE  x <= z + k + 3
  <2> DEFINE w == z + k + 4
  <2>1. w \in Nat /\ w * BLOCK_SIZE = z * BLOCK_SIZE + 3 * BLOCK_SIZE + (k + 1) * BLOCK_SIZE
    BY <1>1
  <2>2. z * BLOCK_SIZE \in Nat /\ x * BLOCK_SIZE \in Nat /\ (k + 1) * BLOCK_SIZE \in Nat
    BY <1>1
  <2> HIDE DEF w
  <2>3. x * BLOCK_SIZE < w * BLOCK_SIZE /\ w * BLOCK_SIZE \in Nat
    BY <1>1, <1>2, <2>1, <2>2
  <2>4. w <= x => w * BLOCK_SIZE <= x * BLOCK_SIZE
    BY <1>1, <2>1, MultiplesOrdered
  <2>5. ~(w <= x)
    BY <2>2, <2>3, <2>4
  <2> QED
    BY <1>1, <2>1, <2>5 DEF w
<1>3. u <= y + k + 3 /\ y <= u + k + 3
  BY <1>2
<1>4. y \in (u - k - 3)..(u + k + 3)
  BY <1>1, <1>3
<1> QED
  BY <1>4 DEF Vicinity, k

LEMMA EvictLeaves ==
    ASSUME NEW c, Accounted(c)
    PROVE  /\ DOMAIN Evict(c).blocks \subseteq DOMAIN c.blocks
           /\ Evict(c).pending = c.pending
           /\ \A x, y : Before(Evict(c).lru, x, y) => Before(c.lru, x, y)
<1> DEFINE l == c.lru
           e == Evict(c)
<1>1. PICK n \in 0..Len(l) : e = [blocks   |-> Drop(c.blocks, Oldest(c, n)),
                                  lru      |-> SubSeq(l, n + 1, Len(l)),
                                  pending  |-> c.pending,
                                  resident |-> ResidentWithout(c, n)]
  BY EvictFront
<1>2. l \in Seq(Nat)
  BY DEF Accounted
<1> HIDE DEF e, l
<1> DEFINE t == SubSeq(l, n + 1, Len(l))
<1>3. /\ t \in Seq(Nat) /\ Len(t) = Len(l) - n
      /\ \A k \in 1..(Len(l) - n) : t[k] = l[n + k] /\ n + k \in 1..Len(l)
  BY <1>2, TailOf
<1>4. e.lru = t /\ e.pending = c.pending /\ e.blocks = Drop(c.blocks, Oldest(c, n))
  BY <1>1
<1> HIDE DEF t
<1>5. DOMAIN e.blocks \subseteq DOMAIN c.blocks
  BY <1>4 DEF Drop
<1>6. ASSUME NEW x, NEW y, Before(t, x, y) PROVE Before(l, x, y)
  <2>1. PICK j \in 1..Len(t), k \in 1..Len(t) : j < k /\ t[j] = x /\ t[k] = y
    BY <1>6 DEF Before
  <2>2. /\ n + j \in 1..Len(l) /\ n + k \in 1..Len(l)
        /\ l[n + j] = x /\ l[n + k] = y
    BY <1>3, <2>1
  <2>3. n + j < n + k
    BY <1>3, <2>1
  <2> QED
    BY <2>2, <2>3 DEF Before
<1> QED
  BY <1>4, <1>5, <1>6 DEF e, l

(* An eviction leaves the blocks the player has not read. *)
LEMMA EvictHolds ==
    ASSUME AmpleCapacity, NEW d, Accounted(d), NEW p \in Nat, NEW q \in Nat,
           p < q + keep_ahead + 2 * BLOCK_SIZE,
           Behind(d, p), Holds(d, p, q), NEW i,
           \A u, y \in Nat : Before(d.lru, u, y) =>
               y = i \/ u * BLOCK_SIZE < y * BLOCK_SIZE + 3 * BLOCK_SIZE + keep_ahead
    PROVE  Behind(Evict(d), p) /\ Holds(Evict(d), p, q)
<1> DEFINE e == Evict(d)
<1>1. /\ DOMAIN e.blocks \subseteq DOMAIN d.blocks
      /\ e.pending = d.pending
  BY EvictLeaves
<1>2. ASSUME NEW u \in Nat, u \in DOMAIN d.blocks, q < (u + 1) * BLOCK_SIZE
      PROVE  u \in DOMAIN e.blocks
  <2> DEFINE S == Vicinity(u, i)
  <2>1. IsFiniteSet(S) /\ Cardinality(S) * BLOCK_SIZE <= capacity /\ u \in S
    BY VicinityFits
  <2>2. ASSUME NEW y \in Nat, Before(d.lru, u, y) PROVE y \in S
    <3>1. CASE y = i
      BY <3>1 DEF Vicinity
    <3>2. CASE y # i
      <4>1. u * BLOCK_SIZE < y * BLOCK_SIZE + 3 * BLOCK_SIZE + keep_ahead
        BY <2>2, <3>2
      <4>2. y * BLOCK_SIZE < p
        <5>1. y \in DOMAIN d.blocks
          BY <2>2, Listed
        <5> QED
          BY <5>1 DEF Behind
      <4>3. /\ keep_ahead \in Nat /\ BLOCK_SIZE \in Nat
            /\ u * BLOCK_SIZE \in Nat /\ y * BLOCK_SIZE \in Nat
            /\ (u + 1) * BLOCK_SIZE = u * BLOCK_SIZE + BLOCK_SIZE
        BY FeederAssumption, CacheAssumption
      <4>4. y * BLOCK_SIZE < u * BLOCK_SIZE + 3 * BLOCK_SIZE + keep_ahead
        BY <1>2, <4>2, <4>3
      <4> QED
        BY <4>1, <4>4, NearVicinity
    <3> QED
      BY <3>1, <3>2
  <2> HIDE DEF S, e
  <2>3. u \in DOMAIN Evict(d).blocks
    BY <1>2, <2>1, <2>2, EvictKeeps
  <2> QED
    BY <2>3 DEF e
<1> HIDE DEF e
<1>3. Behind(e, p)
  BY <1>1 DEF Behind
<1>4. Holds(e, p, q)
  BY <1>1, <1>2 DEF Holds
<1> QED
  BY <1>3, <1>4 DEF e

(* store_bytes keeps what the player has not read. *)
LEMMA StoreRetains ==
    ASSUME AmpleCapacity, NEW c, Budget(c), NEW p \in Nat,
           NEW data \in Seq(Nat), Len(data) \in 1..BLOCK_SIZE,
           NEW q \in Nat, Retains(c, p, q),
           p < q + keep_ahead + BLOCK_SIZE
    PROVE  Retains(StoreBytes(c, p, data).cache, p + Len(data), q)
<1> DEFINE n == Len(data)
           p2 == p + n
<1>1. PICK d : /\ StoreBytes(c, p, data).cache = Evict(d)
               /\ Accounted(d) /\ Retains(d, p2, q)
  BY PiecesRetain
<1>2. p2 \in Nat /\ p2 < q + keep_ahead + 2 * BLOCK_SIZE
  <2>1. n \in 1..BLOCK_SIZE /\ BLOCK_SIZE \in Nat /\ keep_ahead \in Nat
    BY FeederAssumption, CacheAssumption
  <2> HIDE DEF n
  <2> QED
    BY <2>1
<1> HIDE DEF p2
<1>3. /\ Behind(d, p2) /\ Holds(d, p2, q)
      /\ \A u, y \in Nat : Before(d.lru, u, y) =>
             u * BLOCK_SIZE < y * BLOCK_SIZE + 3 * BLOCK_SIZE + keep_ahead
  BY <1>1 DEF Retains, Near
<1>4. Behind(Evict(d), p2) /\ Holds(Evict(d), p2, q)
  <2>1. \A u, y \in Nat : Before(d.lru, u, y) =>
            y = p2 \/ u * BLOCK_SIZE < y * BLOCK_SIZE + 3 * BLOCK_SIZE + keep_ahead
    BY <1>3
  <2> QED
    BY <1>1, <1>2, <1>3, <2>1, EvictHolds
<1>5. Near(Evict(d))
  BY <1>1, <1>3, EvictLeaves DEF Near
<1> QED
  BY <1>1, <1>4, <1>5 DEF Retains, p2

(* flush_pending keeps it too: the tail is one block. *)
LEMMA FlushRetains ==
    ASSUME AmpleCapacity, NEW c, Budget(c), NEW p \in Nat, NEW q \in Nat,
           p < q + keep_ahead + 2 * BLOCK_SIZE,
           Retains(c, p, q), NEW i, DOMAIN c.pending \subseteq {i}
    PROVE  LET d == FlushPending(c).cache
           IN  Behind(d, p) /\ Holds(d, p, q)
<1>1. PICK d : /\ FlushPending(c).cache = Evict(d)
               /\ Accounted(d) /\ DOMAIN d.pending = {}
               /\ DOMAIN d.blocks = DOMAIN c.blocks \cup DOMAIN c.pending
               /\ Moved(c, d, DOMAIN c.pending)
  BY FlushTurns
<1>2. Behind(d, p) /\ Holds(d, p, q)
  BY <1>1 DEF Retains, Behind, Holds
<1>3. \A u, y \in Nat : Before(d.lru, u, y) =>
          y = i \/ u * BLOCK_SIZE < y * BLOCK_SIZE + 3 * BLOCK_SIZE + keep_ahead
  BY <1>1 DEF Moved, Retains, Near
<1>4. Behind(Evict(d), p) /\ Holds(Evict(d), p, q)
  BY <1>1, <1>2, <1>3, EvictHolds
<1> QED
  BY <1>1, <1>4

(* read_span moves blocks the player is about to have read: none of them   *)
(* is far behind what the feeder has received.                             *)
LEMMA ReadRetains ==
    ASSUME NEW c, Budget(c), NEW p \in Nat, NEW q \in Nat,
           p < q + keep_ahead + 2 * BLOCK_SIZE,
           NEW start \in Nat, NEW end \in Nat, start < end, q <= start,
           Behind(c, p), Holds(c, p, q)
    PROVE  LET d == ReadSpan(c, start, end).cache
           IN  /\ Behind(d, p) /\ Holds(d, p, q)
               /\ Near(c) => Near(d)
<1> DEFINE d == ReadSpan(c, start, end).cache
           f == FirstBlock(start)
<1>1. d.blocks = c.blocks /\ d.pending = c.pending
  <2>1. PICK found \in Nat : d = [blocks   |-> c.blocks,
                                 lru      |-> Touch(c.lru, f, found),
                                 pending  |-> c.pending,
                                 resident |-> c.resident]
    BY ReadTouches
  <2> HIDE DEF d
  <2> QED
    BY <2>1
<1>2. Accounted(d)
  BY ReadBudget DEF Budget
<1>3. ASSUME Near(c), NEW x \in Nat, NEW y \in Nat, Before(d.lru, x, y)
      PROVE  x * BLOCK_SIZE < y * BLOCK_SIZE + 3 * BLOCK_SIZE + keep_ahead
  <2>1. f \in Nat /\ start < (f + 1) * BLOCK_SIZE
    <3>1. /\ FirstBlock(start) \in Nat /\ start % BLOCK_SIZE \in 0..(BLOCK_SIZE - 1)
          /\ FirstBlock(start) * BLOCK_SIZE \in Nat
          /\ start = FirstBlock(start) * BLOCK_SIZE + (start % BLOCK_SIZE)
          /\ (FirstBlock(start) + 1) * BLOCK_SIZE = FirstBlock(start) * BLOCK_SIZE + BLOCK_SIZE
          /\ BLOCK_SIZE \in Nat
      BY Located
    <3> QED
      BY <3>1
  <2>2. CASE y < f
    <3>1. Before(c.lru, x, y)
      BY <1>3, <2>2, ReadOrder
    <3> QED
      BY <1>3, <3>1 DEF Near
  <2>3. CASE ~(y < f)
    <3> HIDE DEF f, d
    <3>1. x * BLOCK_SIZE < p
      <4>1. x \in DOMAIN c.blocks
        BY <1>1, <1>2, <1>3, Listed
      <4> QED
        BY <4>1 DEF Behind
    <3>2. /\ BLOCK_SIZE \in Nat /\ keep_ahead \in Nat
          /\ x * BLOCK_SIZE \in Nat /\ y * BLOCK_SIZE \in Nat
          /\ (y + 1) * BLOCK_SIZE = y * BLOCK_SIZE + BLOCK_SIZE
          /\ (f + 1) * BLOCK_SIZE \in Nat
      BY <2>1, FeederAssumption, CacheAssumption
    <3>3. (f + 1) * BLOCK_SIZE <= (y + 1) * BLOCK_SIZE
      <4>1. f + 1 \in Nat /\ y + 1 \in Nat /\ f + 1 <= y + 1
        BY <2>1, <2>3
      <4> QED
        BY <3>2, <4>1, MultiplesOrdered
    <3> QED
      BY <2>1, <3>1, <3>2, <3>3
  <2> QED
    BY <2>2, <2>3
<1> HIDE DEF d
<1>4. Behind(d, p) /\ Holds(d, p, q)
  BY <1>1 DEF Behind, Holds
<1>5. Near(c) => Near(d)
  BY <1>3 DEF Near
<1> QED
  BY <1>4, <1>5 DEF d

-----------------------------------------------------------------------------
(* The cache's accounts, whoever writes and reads it.                      *)

Ready ==
    /\ feeder.pc = "store" => feeder.served < FileSize
    /\ \A h \in Handlers :
          handler[h].pc \in {"read", "write"} => handler[h].pos < handler[h].avail

(* What a step of the feeder is to the cache. *)
LEMMA FeederTurns ==
    ASSUME FeederTypeOK, Ready, FeederStep
    PROVE  /\ UNCHANGED <<session, consumed, handler, requests>>
           /\ feeder'.pc = "store" => feeder'.served < FileSize
           /\ \/ /\ cache' = cache /\ feeder'.position = feeder.position
                 /\ feeder'.pc \in Gathering => feeder.pc \in Gathering
                 /\ feeder'.pc = "flush" => feeder.pc = "stream"
              \/ /\ feeder.pc = "store" /\ feeder'.pc = "count"
                 /\ \E n \in 1..BLOCK_SIZE :
                       /\ cache' = StoreBytes(cache, feeder.position,
                                              Cells(feeder.served, n)).cache
                       /\ feeder'.position = feeder.position + n
              \/ /\ feeder.pc = "flush" /\ feeder'.pc = "finish"
                 /\ cache' = FlushPending(cache).cache
                 /\ feeder'.position = feeder.position
<1>0. feeder = [pc |-> feeder.pc, position |-> feeder.position, served |-> feeder.served,
                attempt |-> feeder.attempt, committed |-> feeder.committed]
  BY DEF FeederTypeOK, FeederRecords
<1>1. feeder.position \in Nat /\ feeder.served \in 0..FileSize /\ FileSize \in Nat
  BY CacheAssumption DEF FeederTypeOK, FeederRecords
<1>2. UNCHANGED <<session, consumed, handler, requests>>
  BY DEF FeederStep, FeederGoto, Connect, Receive, EndOfStream, Store, Count, Pace,
         Flush, Finish, Break, BadStatus
<1> DEFINE Plain == /\ feeder'.pc = "store" => feeder'.served < FileSize
                    /\ cache' = cache /\ feeder'.position = feeder.position
                    /\ feeder'.pc \in Gathering => feeder.pc \in Gathering
                    /\ feeder'.pc = "flush" => feeder.pc = "stream"
<1>3. ASSUME NEW label, NEW served, NEW attempt,
             feeder' = [pc |-> label, position |-> feeder.position, served |-> served,
                        attempt |-> attempt, committed |-> feeder.committed],
             cache' = cache,
             label = "store" => served < FileSize,
             label \in Gathering => feeder.pc \in Gathering,
             label = "flush" => feeder.pc = "stream"
      PROVE  Plain
  BY <1>3
<1>4. ASSUME NEW label, FeederGoto(label),
             label = "store" => feeder.served < FileSize,
             label \in Gathering => feeder.pc \in Gathering,
             label = "flush" => feeder.pc = "stream"
      PROVE  Plain
  <2>1. feeder' = [pc |-> label, position |-> feeder.position, served |-> feeder.served,
                   attempt |-> feeder.attempt, committed |-> feeder.committed]
    BY <1>0, <1>4 DEF FeederGoto
  <2>2. cache' = cache
    BY <1>4 DEF FeederGoto
  <2> HIDE DEF Plain
  <2> QED
    BY <1>3, <1>4, <2>1, <2>2
<1> HIDE DEF Plain
<1>5. CASE Connect
  <2>1. feeder' = [pc |-> "stream", position |-> feeder.position, served |-> 0,
                   attempt |-> feeder.attempt, committed |-> feeder.committed]
    BY <1>0, <1>5 DEF Connect
  <2>2. cache' = cache /\ feeder.pc \in Gathering
    BY <1>5 DEF Connect, Gathering
  <2>3. Plain
    BY <1>3, <2>1, <2>2
  <2> QED
    BY <1>2, <2>3 DEF Plain
<1>6. CASE Receive
  <2>1. Plain
    BY <1>4, <1>6 DEF Receive, Gathering
  <2> QED
    BY <1>2, <2>1 DEF Plain
<1>7. CASE EndOfStream
  <2>1. Plain
    BY <1>4, <1>7 DEF EndOfStream, Gathering
  <2> QED
    BY <1>2, <2>1 DEF Plain
<1>8. CASE Store
  <2>1. PICK n \in {Lesser(m, FileSize - feeder.served) : m \in ChunkLens} :
           LET r == StoreBytes(cache, feeder.position, Cells(feeder.served, n))
           IN  /\ cache' = r.cache
               /\ feeder' = [feeder EXCEPT !.pc = "count", !.committed = r.committed,
                                           !.position = @ + n, !.served = @ + n]
    BY <1>8 DEF Store
  <2>2. feeder.pc = "store" /\ feeder.served < FileSize
    BY <1>8 DEF Store, Ready
  <2>3. n \in 1..BLOCK_SIZE
    BY <1>1, <2>2, FeederAssumption, CacheAssumption DEF Lesser
  <2>4. \E k : feeder' = [pc |-> "count", position |-> feeder.position + n,
                          served |-> feeder.served + n,
                          attempt |-> feeder.attempt, committed |-> k]
    BY <1>0, <2>1
  <2>5. feeder'.pc = "count" /\ feeder'.position = feeder.position + n
    BY <2>4
  <2>6. cache' = StoreBytes(cache, feeder.position, Cells(feeder.served, n)).cache
    BY <2>1
  <2> QED
    BY <1>2, <2>2, <2>3, <2>5, <2>6
<1>9. CASE Count
  <2>1. feeder' = [pc |-> "pace", position |-> feeder.position, served |-> feeder.served,
                   attempt |-> feeder.attempt, committed |-> feeder.committed]
    BY <1>0, <1>9 DEF Count
  <2>2. cache' = cache /\ feeder.pc \in Gathering
    BY <1>9 DEF Count, Gathering
  <2>3. Plain
    BY <1>3, <2>1, <2>2
  <2> QED
    BY <1>2, <2>3 DEF Plain
<1>10. CASE Pace
  <2>1. Plain
    BY <1>4, <1>10 DEF Pace, Gathering
  <2> QED
    BY <1>2, <2>1 DEF Plain
<1>11. CASE Flush
  <2>1. feeder' = [pc |-> "finish", position |-> feeder.position, served |-> feeder.served,
                   attempt |-> feeder.attempt, committed |-> feeder.committed]
    BY <1>0, <1>11 DEF Flush
  <2>2. feeder'.pc = "finish" /\ feeder'.position = feeder.position
    BY <2>1
  <2>3. feeder.pc = "flush" /\ cache' = FlushPending(cache).cache
    BY <1>11 DEF Flush
  <2> QED
    BY <1>2, <2>2, <2>3
<1>12. CASE Finish
  <2>1. feeder' = [pc |-> "ended", position |-> feeder.position, served |-> feeder.served,
                   attempt |-> feeder.attempt, committed |-> feeder.committed]
    BY <1>0, <1>12 DEF Finish
  <2>2. cache' = cache /\ "ended" \notin Gathering
    BY <1>12 DEF Finish, Gathering
  <2>3. Plain
    BY <1>3, <2>1, <2>2
  <2> QED
    BY <1>2, <2>3 DEF Plain
<1>13. CASE Break
  <2>1. feeder.pc \in {"connect", "stream"} /\ cache' = cache
    BY <1>13 DEF Break
  <2>2. \E label \in {"connect", "fail"} : \E k :
           feeder' = [pc |-> label, position |-> feeder.position, served |-> feeder.served,
                      attempt |-> k, committed |-> feeder.committed]
    BY <1>0, <1>13 DEF Break
  <2>3. Plain
    BY <1>3, <2>1, <2>2 DEF Gathering
  <2> QED
    BY <1>2, <2>3 DEF Plain
<1>14. CASE BadStatus
  <2>1. Plain
    BY <1>4, <1>14 DEF BadStatus, Gathering
  <2> QED
    BY <1>2, <2>1 DEF Plain
<1> QED
  BY <1>5, <1>6, <1>7, <1>8, <1>9, <1>10, <1>11, <1>12, <1>13, <1>14 DEF FeederStep

(* What a step of a handler is to the cache and to what is consumed. *)
Turns(h, next) ==
    /\ handler' = [g \in Handlers |-> IF g = h THEN next ELSE handler[g]]
    /\ next.pc \in {"read", "write"} => next.pos < next.avail
    /\ next.pc \notin {"idle", "answered"} =>
          /\ handler[h].pc \notin {"idle", "answered"}
          /\ handler[h].pos <= next.pos
          /\ consumed' \in {consumed, Greater(consumed, next.pos)}

LEMMA HandlerTurns ==
    ASSUME Counters, Ready, NEW h \in Handlers, HandlerStep(h)
    PROVE  /\ Turns(h, handler'[h])
           /\ UNCHANGED <<session, feeder, requests>>
           /\ \/ cache' = cache
              \/ /\ handler[h].pc = "read"
                 /\ cache' = ReadSpan(cache, handler[h].pos, handler[h].avail).cache
           /\ handler[h].pc # "idle"
<1> DEFINE me   == handler[h]
           next == handler'[h]
<1>1. /\ me.pos \in Nat /\ me.avail \in Nat /\ stored \in Nat /\ consumed \in Nat
      /\ me.pc \in {"read", "write"} => me.pos < me.avail
  BY DEF Counters, FeederTypeOK, Ready
<1>2. /\ me = [pc |-> me.pc, pos |-> me.pos, avail |-> me.avail,
               data |-> me.data, sent |-> me.sent]
      /\ handler = [g \in Handlers |-> handler[g]]
  BY DEF Counters, HandlerShapes
<1> HIDE DEF next
<1>3. ASSUME NEW r, handler' = [handler EXCEPT ![h] = r]
      PROVE  /\ next = r
             /\ handler' = [g \in Handlers |-> IF g = h THEN next ELSE handler[g]]
  BY <1>2, <1>3 DEF next
<1> DEFINE ahead == me.pos <= next.pos
           moves == consumed' \in {consumed, Greater(consumed, next.pos)}
           some  == next.pos < next.avail
<1>31. ASSUME NEW r, handler' = [handler EXCEPT ![h] = r],
              next.pc \in {"read", "write"} => some,
              me.pc \notin {"idle", "answered"}, ahead, moves
       PROVE  Turns(h, next)
  <2>1. handler' = [g \in Handlers |-> IF g = h THEN next ELSE handler[g]]
    BY <1>3, <1>31
  <2> QED
    BY <1>31, <2>1, Zenon DEF Turns
<1>4. ASSUME NEW label \in {"wait", "next", "answered"},
             me.pc \notin {"idle", "answered"},
             consumed' \in {consumed, Greater(consumed, me.pos)},
             handler' = [handler EXCEPT ![h].pc = label]
      PROVE  Turns(h, next)
  <2>1. handler' = [handler EXCEPT ![h] = [me EXCEPT !.pc = label]]
    BY <1>2, <1>4
  <2>2. next = [me EXCEPT !.pc = label]
    BY <1>3, <2>1
  <2>3. next = [pc |-> label, pos |-> me.pos, avail |-> me.avail, data |-> me.data,
                sent |-> me.sent]
    BY <1>2, <2>2
  <2>4. next.pc = label /\ next.pos = me.pos
    BY <2>3
  <2>5. next.pc \in {"read", "write"} => some
    BY <2>4
  <2>6. ahead /\ moves
    BY <1>1, <1>4, <2>4
  <2> QED
    BY <1>31, <1>4, <2>1, <2>5, <2>6
<1>5. HandlerOnly => /\ UNCHANGED <<session, feeder, requests>>
                     /\ cache' = cache /\ consumed' = consumed
  BY DEF HandlerOnly
<1>6. CASE WaitUntil(h)
  <2> DEFINE a == Lesser(stored, Want(me.pos))
  <2>1. me.pc = "wait" /\ HandlerOnly
    BY <1>6 DEF WaitUntil
  <2>2. \/ a > me.pos /\ handler' = [handler EXCEPT ![h].pc = "read", ![h].avail = a]
        \/ handler' = [handler EXCEPT ![h].pc = "answered"]
    BY <1>6 DEF WaitUntil
  <2>3. a \in Nat
    BY <1>1, FeederAssumption, CacheAssumption DEF Lesser, Want
  <2> HIDE DEF a
  <2>4. CASE a > me.pos /\ handler' = [handler EXCEPT ![h].pc = "read", ![h].avail = a]
    <3>1. handler' = [handler EXCEPT ![h] = [me EXCEPT !.pc = "read", !.avail = a]]
      BY <1>2, <2>4
    <3>2. next = [me EXCEPT !.pc = "read", !.avail = a]
      BY <1>3, <3>1
    <3>3. next = [pc |-> "read", pos |-> me.pos, avail |-> a, data |-> me.data, sent |-> me.sent]
      BY <1>2, <3>2
    <3>4. next.pc = "read" /\ next.pos = me.pos /\ next.avail = a
      BY <3>3
    <3>5. Turns(h, next)
      <4>1. some /\ ahead /\ moves
        BY <1>1, <1>5, <2>1, <2>3, <2>4, <3>4
      <4> QED
        BY <1>31, <2>1, <3>1, <4>1
    <3> QED
      BY <1>5, <2>1, <3>5 DEF next
  <2>5. CASE handler' = [handler EXCEPT ![h].pc = "answered"]
    <3>1. Turns(h, next)
      BY <1>4, <1>5, <2>1, <2>5
    <3> QED
      BY <1>5, <2>1, <3>1 DEF next
  <2> QED
    BY <2>2, <2>4, <2>5
<1>7. CASE Read(h)
  <2> DEFINE r == ReadSpan(cache, me.pos, me.avail)
  <2>1. /\ cache' = r.cache
        /\ handler' = [handler EXCEPT
                  ![h] = IF r.data = None THEN [@ EXCEPT !.pc = "wait"]
                         ELSE [@ EXCEPT !.pc = "write", !.data = r.data]]
        /\ UNCHANGED <<session, feeder, consumed, requests>>
        /\ me.pc = "read"
    BY <1>7 DEF Read
  <2> HIDE DEF r
  <2>2. Turns(h, next)
    <3>1. CASE r.data = None
      <4>1. handler' = [handler EXCEPT ![h].pc = "wait"]
        BY <2>1, <3>1
      <4> QED
        BY <1>4, <2>1, <4>1
    <3>2. CASE r.data # None
      <4>1. handler' = [handler EXCEPT ![h] = [me EXCEPT !.pc = "write", !.data = r.data]]
        BY <2>1, <3>2
      <4>2. next = [me EXCEPT !.pc = "write", !.data = r.data]
        BY <1>3, <4>1
      <4>3. next = [pc |-> "write", pos |-> me.pos, avail |-> me.avail, data |-> r.data,
                    sent |-> me.sent]
        BY <1>2, <4>2
      <4>4. next.pc = "write" /\ next.pos = me.pos /\ next.avail = me.avail
        BY <4>3
      <4> QED
        <5>1. some /\ ahead /\ moves
          BY <1>1, <2>1, <4>4
        <5> QED
          BY <1>31, <2>1, <4>1, <5>1
    <3> QED
      BY <3>1, <3>2
  <2> QED
    BY <2>1, <2>2 DEF next, r
<1>8. CASE Write(h)
  <2>1. handler' = [handler EXCEPT ![h] = [me EXCEPT !.pc = "report",
                                                     !.sent = @ \o me.data,
                                                     !.data = <<>>,
                                                     !.pos = me.avail]]
    BY <1>2, <1>8 DEF Write
  <2>2. next = [pc |-> "report", pos |-> me.avail, avail |-> me.avail, data |-> <<>>,
                sent |-> me.sent \o me.data]
    BY <1>2, <1>3, <2>1
  <2>3. me.pc = "write" /\ HandlerOnly
    BY <1>8 DEF Write
  <2>4. next.pc = "report" /\ next.pos = me.avail
    BY <2>2
  <2>5. Turns(h, next)
    <3>1. ahead /\ moves /\ me.pc \notin {"idle", "answered"}
      BY <1>1, <1>5, <2>3, <2>4
    <3>2. next.pc \in {"read", "write"} => some
      BY <2>4
    <3> QED
      BY <1>31, <2>1, <3>1, <3>2
  <2> QED
    BY <1>5, <2>3, <2>5 DEF next
<1>9. CASE Report(h)
  <2>1. /\ me.pc = "report"
        /\ consumed' = Greater(consumed, me.pos)
        /\ UNCHANGED <<cache, session, feeder, requests>>
        /\ handler' = [handler EXCEPT ![h].pc = "next"]
    BY <1>9 DEF Report
  <2>2. Turns(h, next)
    BY <1>4, <2>1
  <2> QED
    BY <2>1, <2>2 DEF next
<1>10. CASE Continue(h)
  <2>1. me.pc = "next" /\ HandlerOnly
    BY <1>10 DEF Continue
  <2>2. \/ handler' = [handler EXCEPT ![h].pc = "answered"]
        \/ handler' = [handler EXCEPT ![h].pc = "wait"]
    BY <1>10 DEF Continue
  <2>3. Turns(h, next)
    BY <1>4, <1>5, <2>1, <2>2
  <2> QED
    BY <1>5, <2>1, <2>3 DEF next
<1>11. CASE Close(h) \/ ClientGone(h)
  <2>1. HandlerOnly /\ handler' = [handler EXCEPT ![h] = Idle] /\ me.pc # "idle"
    BY <1>11 DEF Close, ClientGone
  <2>2. next = Idle
    BY <1>3, <2>1
  <2>3. next.pc = "idle"
    BY <2>2 DEF Idle
  <2>4. Turns(h, next)
    BY <1>3, <2>1, <2>3 DEF Turns
  <2> QED
    BY <1>5, <2>1, <2>4 DEF next
<1> QED
  BY <1>6, <1>7, <1>8, <1>9, <1>10, <1>11 DEF HandlerStep

LEMMA RequestTurns ==
    ASSUME Counters, NEW h \in Handlers, Request(h)
    PROVE  /\ UNCHANGED <<cache, session, feeder, consumed>>
           /\ requests < MaxRequests /\ requests' = requests + 1
           /\ \A g \in Handlers : /\ handler'[g].pos = handler[g].pos
                                  /\ g # h => handler'[g] = handler[g]
           /\ handler'[h].pc = "wait"
<1>1. /\ UNCHANGED <<cache, session, feeder, consumed>>
      /\ requests < MaxRequests /\ requests' = requests + 1
      /\ handler' = [handler EXCEPT ![h].pc = "wait"]
  BY DEF Request
<1>2. handler = [g \in Handlers |-> handler[g]]
  BY DEF Counters, HandlerShapes
<1>3. handler[h] = [pc |-> handler[h].pc, pos |-> handler[h].pos,
                    avail |-> handler[h].avail, data |-> handler[h].data,
                    sent |-> handler[h].sent]
  BY DEF Counters, HandlerShapes
<1>4. \A g \in Handlers : g # h => handler'[g] = handler[g]
  BY <1>1, <1>2
<1>5. handler'[h] = [handler[h] EXCEPT !.pc = "wait"]
  BY <1>1, <1>2
<1>6. handler'[h].pc = "wait" /\ handler'[h].pos = handler[h].pos
  BY <1>3, <1>5
<1> QED
  BY <1>1, <1>4, <1>6

Balanced == Ready /\ Budget(cache)

LEMMA BalancedInit == FeederInit => Balanced
<1> SUFFICES ASSUME FeederInit PROVE Balanced
  OBVIOUS
<1>1. Budget(cache)
  BY EmptyBudget DEF FeederInit, CacheInit
<1>2. Ready
  BY DEF FeederInit, Ready, Idle
<1> QED
  BY <1>1, <1>2 DEF Balanced

LEMMA BalancedKept ==
    Counters /\ Balanced /\ [FeederNext]_feederVars => Balanced'
<1> SUFFICES ASSUME Counters, Balanced, [FeederNext]_feederVars PROVE Balanced'
  OBVIOUS
<1>1. FeederTypeOK /\ Ready /\ Budget(cache) /\ feeder.position \in Nat
  BY DEF Balanced, Counters, FeederTypeOK, FeederRecords
<1>2. CASE FeederStep
  <2>1. /\ UNCHANGED handler
        /\ feeder'.pc = "store" => feeder'.served < FileSize
        /\ \/ cache' = cache
           \/ \E n \in 1..BLOCK_SIZE :
                 cache' = StoreBytes(cache, feeder.position, Cells(feeder.served, n)).cache
           \/ cache' = FlushPending(cache).cache
    BY <1>1, <1>2, FeederTurns
  <2>2. Ready'
    BY <1>1, <2>1 DEF Ready
  <2>3. ASSUME NEW n \in 1..BLOCK_SIZE,
               cache' = StoreBytes(cache, feeder.position, Cells(feeder.served, n)).cache
        PROVE  Budget(cache')
    <3> DEFINE data == Cells(feeder.served, n)
    <3>1. data \in Seq(Nat) /\ Len(data) = n
      <4>1. feeder.served \in Nat /\ n \in Nat
        BY <1>1, CacheAssumption DEF FeederTypeOK, FeederRecords
      <4> QED
        BY <4>1, CellsSeq
    <3> HIDE DEF data
    <3>2. Budget(StoreBytes(cache, feeder.position, data).cache)
      BY <1>1, <3>1, StoreBudget
    <3> QED
      BY <2>3, <3>2 DEF data
  <2>4. Budget(cache')
    BY <1>1, <2>1, <2>3, FlushBudget
  <2> QED
    BY <2>2, <2>4 DEF Balanced
<1>3. ASSUME NEW h \in Handlers, HandlerStep(h) PROVE Balanced'
  <2>1. /\ Turns(h, handler'[h]) /\ UNCHANGED feeder
        /\ \/ cache' = cache
           \/ /\ handler[h].pc = "read"
              /\ cache' = ReadSpan(cache, handler[h].pos, handler[h].avail).cache
    BY <1>1, <1>3, HandlerTurns
  <2>2. Ready'
    <3>1. ASSUME NEW g \in Handlers, handler'[g].pc \in {"read", "write"}
          PROVE  handler'[g].pos < handler'[g].avail
      <4>1. CASE g = h
        BY <2>1, <3>1, <4>1 DEF Turns
      <4>2. CASE g # h
        <5>1. handler'[g] = handler[g]
          BY <2>1, <4>2 DEF Turns
        <5> QED
          BY <1>1, <3>1, <5>1 DEF Ready
      <4> QED
        BY <4>1, <4>2
    <3> QED
      BY <1>1, <2>1, <3>1 DEF Ready
  <2>3. Budget(cache')
    <3>1. CASE cache' = cache
      BY <1>1, <3>1
    <3>2. CASE /\ handler[h].pc = "read"
               /\ cache' = ReadSpan(cache, handler[h].pos, handler[h].avail).cache
      <4> DEFINE s == handler[h].pos
                 e == handler[h].avail
      <4>1. s \in Nat /\ e \in Nat /\ s < e
        BY <1>1, <3>2 DEF Ready, FeederTypeOK
      <4> HIDE DEF s, e
      <4>2. Budget(ReadSpan(cache, s, e).cache)
        BY <1>1, <4>1, ReadBudget
      <4> QED
        BY <3>2, <4>2 DEF s, e
    <3> QED
      BY <2>1, <3>1, <3>2
  <2> QED
    BY <2>2, <2>3 DEF Balanced
<1>4. ASSUME NEW h \in Handlers, Request(h) PROVE Balanced'
  <2>1. /\ UNCHANGED <<cache, feeder>>
        /\ \A g \in Handlers : g # h => handler'[g] = handler[g]
        /\ handler'[h].pc = "wait"
    BY <1>4, RequestTurns
  <2>2. Ready'
    BY <1>1, <2>1 DEF Ready
  <2> QED
    BY <1>1, <2>1, <2>2 DEF Balanced
<1>5. CASE Stop
  BY <1>1, <1>5 DEF Stop, Balanced, Ready
<1>6. CASE Clear
  BY <1>1, <1>6, EmptyBudget DEF Clear, Balanced, Ready
<1>7. CASE Quiescent \/ UNCHANGED feederVars
  <2>1. UNCHANGED <<cache, feeder, handler>>
    BY <1>7 DEF Quiescent, feederVars
  <2> QED
    BY <1>1, <2>1 DEF Balanced, Ready
<1> QED
  BY <1>2, <1>3, <1>4, <1>5, <1>6, <1>7 DEF FeederNext

LEMMA BalancedHolds == FeederSpec => []Balanced
BY BalancedInit, BalancedKept, CountersHold, PTL DEF FeederSpec

-----------------------------------------------------------------------------
(* One connection that reads the media once.                               *)

(* h has reported no more than it has sent, and nothing before it began.   *)
Lone(h) ==
    /\ requests = 0 => consumed = 0 /\ handler[h].pc = "idle"
    /\ handler[h].pc \notin {"idle", "answered"} => consumed <= handler[h].pos

(* While the session is open the cache has what is stored and not read.    *)
Retained ==
    session = "open" =>
        /\ Behind(cache, feeder.position)
        /\ Holds(cache, feeder.position, consumed)
        /\ feeder.pc \in Gathering => Near(cache)
        /\ feeder.pc = "flush" => \E i : DOMAIN cache.pending \subseteq {i}

LEMMA LoneInit ==
    ASSUME NEW h \in Handlers, FeederInit
    PROVE  Lone(h) /\ Retained
<1>1. Lone(h)
  BY DEF FeederInit, Lone, Idle
<1>2. /\ DOMAIN cache.blocks = {} /\ DOMAIN cache.pending = {} /\ cache.lru = <<>>
      /\ feeder.position = 0 /\ consumed = 0 /\ feeder.pc = "connect"
  BY DEF FeederInit, CacheInit, EmptyCache, NoEntries
<1>3. Near(cache) /\ Behind(cache, 0)
  BY <1>2 DEF Near, Before, Behind
<1> DEFINE z == 0
<1>4. FirstBlock(z) = 0 /\ z % BLOCK_SIZE = 0
  BY PositionIn, CacheAssumption
<1>5. \A i \in Nat : ~((i + 1) * BLOCK_SIZE <= 0)
  <2> TAKE i \in Nat
  <2>1. (i + 1) * BLOCK_SIZE = i * BLOCK_SIZE + BLOCK_SIZE /\ i * BLOCK_SIZE \in Nat
        /\ BLOCK_SIZE \in Nat /\ BLOCK_SIZE > 0
    BY CacheAssumption
  <2> QED
    BY <2>1
<1>6. Holds(cache, z, 0)
  BY <1>4, <1>5 DEF Holds
<1> QED
  BY <1>1, <1>2, <1>3, <1>6 DEF Retained

LEMMA HoldsOn ==
    ASSUME NEW c, NEW p, NEW q \in Nat, NEW r \in Nat, q <= r, Holds(c, p, q)
    PROVE  Holds(c, p, r)
<1>1. \A i \in Nat : r < (i + 1) * BLOCK_SIZE => q < (i + 1) * BLOCK_SIZE
  <2> TAKE i \in Nat
  <2>1. (i + 1) * BLOCK_SIZE \in Nat
    BY CacheAssumption
  <2> QED
    BY <2>1
<1> QED
  BY <1>1 DEF Holds

(* The feeder's steps. *)
LEMMA FeederRetains ==
    ASSUME AmpleCapacity, Counters, Paced, Balanced, Retained,
           NEW h \in Handlers, Lone(h), FeederStep
    PROVE  Lone(h)' /\ Retained'
<1>1. /\ FeederTypeOK /\ Ready /\ Budget(cache)
      /\ feeder.position \in Nat /\ feeder.served \in Nat /\ consumed \in Nat
  BY CacheAssumption DEF Balanced, Counters, FeederTypeOK, FeederRecords
<1>2. /\ UNCHANGED <<session, consumed, handler, requests>>
      /\ \/ /\ cache' = cache /\ feeder'.position = feeder.position
            /\ feeder'.pc \in Gathering => feeder.pc \in Gathering
            /\ feeder'.pc = "flush" => feeder.pc = "stream"
         \/ /\ feeder.pc = "store" /\ feeder'.pc = "count"
            /\ \E n \in 1..BLOCK_SIZE :
                  /\ cache' = StoreBytes(cache, feeder.position,
                                         Cells(feeder.served, n)).cache
                  /\ feeder'.position = feeder.position + n
         \/ /\ feeder.pc = "flush" /\ feeder'.pc = "finish"
            /\ cache' = FlushPending(cache).cache
            /\ feeder'.position = feeder.position
  BY <1>1, FeederTurns
<1>3. Lone(h)'
  BY <1>2 DEF Lone
<1> SUFFICES ASSUME session = "open"
             PROVE  /\ Behind(cache', feeder'.position)
                    /\ Holds(cache', feeder'.position, consumed)
                    /\ feeder'.pc \in Gathering => Near(cache')
                    /\ feeder'.pc = "flush" => \E i : DOMAIN cache'.pending \subseteq {i}
  BY <1>2, <1>3 DEF Retained
<1> DEFINE p == feeder.position
<1>4. /\ Behind(cache, p) /\ Holds(cache, p, consumed)
      /\ feeder.pc \in Gathering => Near(cache)
      /\ feeder.pc = "flush" => \E i : DOMAIN cache.pending \subseteq {i}
  BY DEF Retained
<1>5. /\ p < consumed + keep_ahead + 2 * BLOCK_SIZE
      /\ feeder.pc = "store" => p < consumed + keep_ahead + BLOCK_SIZE
  <2>1. /\ p - consumed < keep_ahead + 2 * BLOCK_SIZE
        /\ feeder.pc = "store" => p - consumed < keep_ahead + BLOCK_SIZE
    BY DEF Paced, Distance
  <2>2. keep_ahead \in Nat /\ BLOCK_SIZE \in Nat /\ p \in Nat
    BY <1>1, FeederAssumption, CacheAssumption
  <2> HIDE DEF p
  <2> QED
    BY <1>1, <2>1, <2>2
<1>6. CASE /\ cache' = cache /\ feeder'.position = feeder.position
           /\ feeder'.pc \in Gathering => feeder.pc \in Gathering
           /\ feeder'.pc = "flush" => feeder.pc = "stream"
  <2>1. feeder.pc = "stream" => \E i : DOMAIN cache.pending \subseteq {i}
    BY DEF Paced, TailBuffered, Running, LeftOver, LeftIn
  <2> QED
    BY <1>4, <1>6, <2>1
<1>7. CASE /\ feeder.pc = "store" /\ feeder'.pc = "count"
           /\ \E n \in 1..BLOCK_SIZE :
                 /\ cache' = StoreBytes(cache, feeder.position,
                                        Cells(feeder.served, n)).cache
                 /\ feeder'.position = feeder.position + n
  <2>1. PICK n \in 1..BLOCK_SIZE :
            /\ cache' = StoreBytes(cache, p, Cells(feeder.served, n)).cache
            /\ feeder'.position = p + n
    BY <1>7
  <2> DEFINE data == Cells(feeder.served, n)
  <2>2. data \in Seq(Nat) /\ Len(data) = n
    <3>1. n \in Nat
      BY CacheAssumption
    <3> QED
      BY <1>1, <3>1, CellsSeq
  <2> HIDE DEF data, p
  <2>3. p \in Nat /\ Retains(cache, p, consumed) /\ p < consumed + keep_ahead + BLOCK_SIZE
    BY <1>1, <1>4, <1>5, <1>7 DEF Retains, Gathering, p
  <2>4. Len(data) \in 1..BLOCK_SIZE
    BY <2>2
  <2>5. Retains(StoreBytes(cache, p, data).cache, p + Len(data), consumed)
    BY <1>1, <2>2, <2>3, <2>4, StoreRetains
  <2>6. Retains(cache', feeder'.position, consumed)
    BY <2>1, <2>2, <2>5 DEF data
  <2> QED
    BY <1>7, <2>6 DEF Retains
<1>8. CASE /\ feeder.pc = "flush" /\ feeder'.pc = "finish"
           /\ cache' = FlushPending(cache).cache
           /\ feeder'.position = feeder.position
  <2>1. PICK i : DOMAIN cache.pending \subseteq {i}
    BY <1>4, <1>8
  <2>2. Retains(cache, p, consumed)
    BY <1>4, <1>8 DEF Retains, Gathering
  <2> HIDE DEF p
  <2>3. p \in Nat
    BY <1>1 DEF p
  <2>4. LET d == FlushPending(cache).cache
        IN  Behind(d, p) /\ Holds(d, p, consumed)
    BY <1>1, <1>5, <2>1, <2>2, <2>3, FlushRetains
  <2>5. Behind(cache', feeder'.position) /\ Holds(cache', feeder'.position, consumed)
    BY <1>8, <2>4 DEF p
  <2> QED
    BY <1>8, <2>5 DEF Gathering
<1> QED
  BY <1>2, <1>6, <1>7, <1>8

(* The player's steps and the session's. *)
LEMMA OthersRetain ==
    ASSUME Counters, Paced, Balanced, Retained,
           NEW h \in Handlers, Handlers = {h}, MaxRequests = 1, Lone(h),
           Request(h) \/ HandlerStep(h) \/ Stop \/ Clear
    PROVE  Lone(h)' /\ Retained'
<1>1. /\ Ready /\ Budget(cache)
      /\ feeder.position \in Nat /\ consumed \in Nat
      /\ requests \in 0..MaxRequests
      /\ handler[h].pos \in Nat /\ handler[h].avail \in Nat
      /\ keep_ahead \in Nat /\ BLOCK_SIZE \in Nat
  BY FeederAssumption, CacheAssumption DEF Balanced, Counters, FeederTypeOK, FeederRecords
<1>2. CASE Stop \/ Clear
  <2>1. session' # "open" /\ UNCHANGED <<consumed, handler, requests>>
    BY <1>2 DEF Stop, Clear
  <2> QED
    BY <2>1 DEF Lone, Retained
<1>3. CASE Request(h)
  <2>1. /\ UNCHANGED <<cache, session, feeder, consumed>>
        /\ requests < MaxRequests /\ requests' = requests + 1
        /\ handler'[h].pos = handler[h].pos
    BY <1>3, RequestTurns
  <2>2. consumed = 0 /\ requests' # 0
    BY <1>1, <2>1 DEF Lone
  <2>3. Lone(h)'
    BY <1>1, <2>1, <2>2 DEF Lone
  <2> QED
    BY <2>1, <2>3 DEF Retained
<1>4. CASE HandlerStep(h)
  <2>1. /\ Turns(h, handler'[h])
        /\ UNCHANGED <<session, feeder, requests>>
        /\ \/ cache' = cache
           \/ /\ handler[h].pc = "read"
              /\ cache' = ReadSpan(cache, handler[h].pos, handler[h].avail).cache
        /\ handler[h].pc # "idle"
    BY <1>1, <1>4, HandlerTurns
  <2>2. requests' # 0
    BY <2>1 DEF Lone
  <2>3. handler'[h].pos \in Nat
    BY <1>4, HandlerMoves DEF Counters, FeederTypeOK
  <2>4. handler'[h].pc \notin {"idle", "answered"} => consumed' <= handler'[h].pos
    <3> SUFFICES ASSUME handler'[h].pc \notin {"idle", "answered"}
                 PROVE  consumed' <= handler'[h].pos
      OBVIOUS
    <3>1. /\ handler[h].pc \notin {"idle", "answered"}
          /\ handler[h].pos <= handler'[h].pos
          /\ consumed' \in {consumed, Greater(consumed, handler'[h].pos)}
      BY <2>1 DEF Turns
    <3>2. consumed <= handler[h].pos
      BY <3>1 DEF Lone
    <3> QED
      BY <1>1, <2>3, <3>1, <3>2 DEF Greater
  <2>5. Lone(h)'
    BY <2>2, <2>4 DEF Lone
  <2>6. consumed' \in Nat /\ consumed <= consumed'
    <3>1. consumed' = consumed \/ consumed' = Greater(consumed, handler[h].pos)
      BY <1>4 DEF HandlerStep, HandlerOnly, WaitUntil, Read, Write, Report, Continue,
                  Close, ClientGone
    <3> QED
      BY <1>1, <3>1 DEF Greater
  <2> SUFFICES ASSUME session = "open"
               PROVE  /\ Behind(cache', feeder.position)
                      /\ Holds(cache', feeder.position, consumed')
                      /\ feeder.pc \in Gathering => Near(cache')
                      /\ feeder.pc = "flush" => \E i : DOMAIN cache'.pending \subseteq {i}
    BY <2>1, <2>5 DEF Retained
  <2> DEFINE p == feeder.position
  <2>7. /\ Behind(cache, p) /\ Holds(cache, p, consumed)
        /\ feeder.pc \in Gathering => Near(cache)
        /\ feeder.pc = "flush" => \E i : DOMAIN cache.pending \subseteq {i}
    BY DEF Retained
  <2>8. /\ Behind(cache', p) /\ Holds(cache', p, consumed)
        /\ Near(cache) => Near(cache')
        /\ cache'.pending = cache.pending
    <3>1. CASE cache' = cache
      BY <2>7, <3>1
    <3>2. CASE /\ handler[h].pc = "read"
               /\ cache' = ReadSpan(cache, handler[h].pos, handler[h].avail).cache
      <4> DEFINE s == handler[h].pos
                 e == handler[h].avail
      <4>1. s \in Nat /\ e \in Nat /\ s < e /\ consumed <= s
        BY <1>1, <3>2 DEF Ready, Lone
      <4>2. p < consumed + keep_ahead + 2 * BLOCK_SIZE /\ p \in Nat
        <5>1. p - consumed < keep_ahead + 2 * BLOCK_SIZE /\ p \in Nat
          BY <1>1 DEF Paced, Distance
        <5> HIDE DEF p
        <5> QED
          BY <1>1, <5>1
      <4> HIDE DEF s, e, p
      <4>3. LET d == ReadSpan(cache, s, e).cache
            IN  /\ Behind(d, p) /\ Holds(d, p, consumed)
                /\ Near(cache) => Near(d)
        BY <1>1, <2>7, <4>1, <4>2, ReadRetains
      <4>4. ReadSpan(cache, s, e).cache.pending = cache.pending
        <5> DEFINE d == ReadSpan(cache, s, e).cache
        <5>1. PICK found \in Nat : d = [blocks   |-> cache.blocks,
                                       lru      |-> Touch(cache.lru, FirstBlock(s), found),
                                       pending  |-> cache.pending,
                                       resident |-> cache.resident]
          BY <1>1, <4>1, ReadTouches
        <5> HIDE DEF d
        <5>2. d.pending = cache.pending
          BY <5>1
        <5> QED
          BY <5>2 DEF d
      <4>5. cache' = ReadSpan(cache, s, e).cache
        BY <3>2 DEF s, e
      <4> QED
        BY <4>3, <4>4, <4>5
    <3> QED
      BY <2>1, <3>1, <3>2
  <2> HIDE DEF p
  <2>9. Holds(cache', p, consumed')
    BY <1>1, <2>6, <2>8, HoldsOn
  <2> QED
    BY <2>7, <2>8, <2>9 DEF p
<1> QED
  BY <1>2, <1>3, <1>4

LEMMA RetainedHolds ==
    ASSUME NEW h \in Handlers, Handlers = {h}, MaxRequests = 1, AmpleCapacity
    PROVE  FeederSpec => []Retained
<1>1. FeederInit => Lone(h) /\ Retained
  BY LoneInit
<1>2. Counters /\ Paced /\ Balanced /\ Lone(h) /\ Retained /\ [FeederNext]_feederVars
          => (Lone(h) /\ Retained)'
  <2> SUFFICES ASSUME Counters, Paced, Balanced, Lone(h), Retained,
                      [FeederNext]_feederVars
               PROVE  Lone(h)' /\ Retained'
    OBVIOUS
  <2>1. CASE FeederStep
    BY <2>1, FeederRetains
  <2>2. CASE Request(h) \/ HandlerStep(h) \/ Stop \/ Clear
    BY <2>2, OthersRetain
  <2>3. CASE Quiescent \/ UNCHANGED feederVars
    <3>1. UNCHANGED <<cache, session, feeder, consumed, handler, requests>>
      BY <2>3 DEF Quiescent, feederVars
    <3> QED
      BY <3>1 DEF Lone, Retained
  <2> QED
    BY <2>1, <2>2, <2>3 DEF FeederNext
<1> QED
  BY <1>1, <1>2, CountersHold, PacedHolds, BalancedHolds, PTL DEF FeederSpec

(* The counter that decides about eviction stays exact and within the      *)
(* capacity under the feeder, its restarts and every handler's reads.      *)
THEOREM FeederAccounts == FeederSpec => []ResidentExact
BY BudgetExact, BalancedHolds, PTL DEF Balanced

(* One player that reads the media once finds everything that was stored   *)
(* for it: no block is evicted before it was read, whatever the stream's   *)
(* breaks and restarts, the sizes of its chunks and the moments of the     *)
(* reads, where the cache has twice keep_ahead and eight blocks.           *)
THEOREM UnreadStays ==
    ASSUME NEW h \in Handlers, Handlers = {h}, MaxRequests = 1,
           2 * keep_ahead + 8 * BLOCK_SIZE <= capacity
    PROVE  FeederSpec => []UnreadResident
<1>1. FeederSpec => []Retained
  BY RetainedHolds DEF AmpleCapacity
<1>2. Counters /\ Retained => UnreadResident
  <2> SUFFICES ASSUME Counters, Retained, session = "open", NEW i \in BlockIds,
                      consumed < (i + 1) * BLOCK_SIZE, (i + 1) * BLOCK_SIZE <= stored
               PROVE  i \in DOMAIN cache.blocks
    BY DEF UnreadResident, HasBlock
  <2>1. i \in Nat /\ (i + 1) * BLOCK_SIZE \in Nat
    BY CacheAssumption, FeederAssumption DEF BlockIds, FinalBlock
  <2>2. stored <= feeder.position /\ stored \in Nat /\ feeder.position \in Nat
    BY DEF Counters, ReceivedCovers, FeederTypeOK, FeederRecords
  <2>3. (i + 1) * BLOCK_SIZE <= feeder.position
    BY <2>1, <2>2
  <2> QED
    BY <2>1, <2>3 DEF Retained, Holds
<1> QED
  BY <1>1, <1>2, CountersHold, PTL
=============================================================================
