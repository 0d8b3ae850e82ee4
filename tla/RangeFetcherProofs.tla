--------------------------- MODULE RangeFetcherProofs ---------------------------
(***************************************************************************)
(* What RangeFetcher guarantees for every set of threads, every media,     *)
(* block size, capacity and bound: its types, its connection permits, the  *)
(* ownership of downloads, where they write, what they leave in the cache, *)
(* and what its callers are answered.                                      *)
(***************************************************************************)
EXTENDS RangeFetcher, CacheProofs

-----------------------------------------------------------------------------
(* Arithmetic of blocks and limits.                                        *)

(* A cell lies in a block with a natural number. *)
LEMMA FirstBlockNat ==
    ASSUME NEW a \in Nat
    PROVE  FirstBlock(a) \in Nat
BY CacheAssumption DEF FirstBlock

LEMMA LastBlockInt ==
    ASSUME NEW a, NEW b \in Nat
    PROVE  LastBlock(a, b) \in Int
BY CacheAssumption DEF LastBlock

(* A cell of block i is the block's first cell and a rest. *)
LEMMA MultipleAndRest ==
    ASSUME NEW i \in Nat, NEW b \in Nat \ {0}, NEW r \in 0..(b - 1)
    PROVE  (i * b + r) \div b = i
OBVIOUS

(* The run of a thread ends at a natural number of cells. *)
LEMMA RunLimitNat ==
    ASSUME NEW t \in Threads, call[t] \in Calls
    PROVE  RunLimit(t) \in Nat
<1>1. call[t].run_end \in Nat
  BY DEF Calls
<1>2. (call[t].run_end + 1) * BLOCK_SIZE \in Nat
  BY <1>1, CacheAssumption
<1> QED
  BY <1>2, CacheAssumption DEF RunLimit, Lesser

-----------------------------------------------------------------------------
(* Types and permits are inductive together: the number of free permits is *)
(* at most MAX_CONCURRENT because a thread that returns one holds it.      *)

TypeAndSlots == FetcherTypeOK /\ SlotsExact

LEMMA HoldersFinite == IsFiniteSet(Holders) /\ Cardinality(Holders) \in Nat
<1>1. Holders \in SUBSET Threads
  BY DEF Holders
<1>2. IsFiniteSet(Holders)
  BY <1>1, FS_Subset, FetcherAssumption
<1> QED
  BY <1>2, FS_CardinalityType

LEMMA InitTypeAndSlots == FetcherInit => TypeAndSlots
<1> SUFFICES ASSUME FetcherInit PROVE TypeAndSlots
  OBVIOUS
<1>1. FetcherTypeOK
  BY FetcherAssumption
  DEF FetcherInit, FetcherTypeOK, Labels, NoCall, Calls
<1>2. Holders = {}
  BY DEF FetcherInit, Holders, Holder
<1>3. SlotsExact
  BY <1>2, FS_EmptySet, FetcherAssumption DEF SlotsExact, FetcherInit
<1> QED
  BY <1>1, <1>3 DEF TypeAndSlots

(* A step of a call keeps the types. *)
LEMMA ProceedType ==
    ASSUME TypeAndSlots, NEW t \in Threads, Proceed(t)
    PROVE  FetcherTypeOK'
<1> USE DEF TypeAndSlots
<1>1. /\ pc \in [Threads -> Labels]
      /\ call \in [Threads -> Calls]
      /\ call[t] \in Calls
  BY DEF FetcherTypeOK
<1>2. CASE ScanHit(t) \/ ScanMiss(t)
  <2>1. LastOf(t) \in Int
    BY <1>1, LastBlockInt DEF LastOf, Calls
  <2>2. Lesser(LastOf(t), call[t].idx + MAX_RUN_BLOCKS - 1) \in Nat
        \/ ~(call[t].idx <= LastOf(t))
    BY <1>1, <2>1, FetcherAssumption DEF Lesser, Calls
  <2> QED
    BY <1>1, <1>2, <2>2
    DEF ScanHit, ScanMiss, Goto, Local, FetcherTypeOK, Labels, Calls
<1>3. CASE Recheck(t) \/ Verify(t) \/ Wake(t) \/ Join(t)
  BY <1>1, <1>3
  DEF Recheck, Verify, Wake, Join, GiveUp, Goto, Local, FetcherTypeOK, Labels, Calls
<1>4. CASE ReadBack(t) \/ Return(t)
  <2>1. pc' \in [Threads -> Labels]
    BY <1>1, <1>4 DEF ReadBack, Return, Goto, Labels
  <2>2. call' \in [Threads -> Calls]
    <3>1. NoCall \in Calls
      BY DEF NoCall, Calls
    <3> QED
      BY <1>1, <1>4, <3>1 DEF ReadBack, Return
  <2>3. DOMAIN answer' = Threads
    BY <1>4 DEF ReadBack, Return, FetcherTypeOK
  <2> QED
    BY <1>4, <2>1, <2>2, <2>3 DEF ReadBack, Return, FetcherTypeOK
<1>5. CASE Claim(t) \/ Retire(t)
  <2>1. Key(t) \in Nat \X Nat
    BY <1>1 DEF Key, Calls
  <2> QED
    BY <1>1, <1>5, <2>1
    DEF Claim, Retire, GiveUp, Goto, FetcherTypeOK, Labels, Calls
<1>6. CASE AcquireSlot(t)
  <2>1. call[t].idx * BLOCK_SIZE \in Nat
    BY <1>1, CacheAssumption DEF Calls
  <2>2. call' \in [Threads -> Calls]
    BY <1>1, <1>6, <2>1 DEF AcquireSlot, Calls
  <2>3. pc' \in [Threads -> Labels]
    BY <1>1, <1>6 DEF AcquireSlot, Goto, Labels
  <2>4. slots' \in 0..MAX_CONCURRENT
    BY <1>6, FetcherAssumption DEF AcquireSlot, FetcherTypeOK
  <2> QED
    BY <1>6, <2>2, <2>3, <2>4 DEF AcquireSlot, FetcherTypeOK
<1>7. CASE ReleaseSlot(t)
  <2>1. t \in Holders
    BY <1>7 DEF ReleaseSlot, Holders, Holder
  <2>2. Cardinality(Holders) # 0
    BY <2>1, HoldersFinite, FS_EmptySet
  <2>3. slots + 1 \in 0..MAX_CONCURRENT
    BY <2>2, HoldersFinite, FetcherAssumption DEF SlotsExact, FetcherTypeOK
  <2> QED
    BY <1>1, <1>7, <2>3
    DEF ReleaseSlot, Goto, FetcherTypeOK, Labels, Calls
<1>8. CASE StoreChunk(t)
  <2>1. RunLimit(t) \in Nat
    BY <1>1, RunLimitNat
  <2>2. \A m \in ChunkLens :
            call[t].pos + Lesser(m, RunLimit(t) - call[t].pos) \in Nat
    BY <1>1, <2>1, FetcherAssumption, CacheAssumption DEF Lesser, Calls
  <2>3. PICK m \in ChunkLens :
            /\ call' = [call EXCEPT ![t].pos =
                            @ + Lesser(m, RunLimit(t) - call[t].pos)]
            /\ pc' = [pc EXCEPT ![t] = pc'[t]]
            /\ pc'[t] \in {"stream", "release"}
    BY <1>1, <1>8 DEF StoreChunk, Goto
  <2>4. call' \in [Threads -> Calls]
    BY <1>1, <2>2, <2>3 DEF Calls
  <2>5. pc' \in [Threads -> Labels]
    BY <1>1, <2>3 DEF Labels
  <2> QED
    BY <1>8, <2>4, <2>5 DEF StoreChunk, FetcherTypeOK
<1>9. CASE \/ FetchCancelled(t) \/ Connect(t) \/ ReceiveChunk(t)
           \/ FetchError(t) \/ FetchShort(t) \/ FetchBreak(t)
  <2>1. pc' \in [Threads -> Labels]
    BY <1>1, <1>9
    DEF FetchCancelled, Connect, ReceiveChunk, FetchError, FetchShort,
        FetchBreak, EndFetch, Goto, Labels
  <2>2. call' \in [Threads -> Calls]
    <3>1. \/ UNCHANGED call
          \/ \E ok \in BOOLEAN : call' = [call EXCEPT ![t].ok = ok]
          \/ call' = [call EXCEPT ![t].attempt = @ + 1]
      BY <1>9
      DEF FetchCancelled, Connect, ReceiveChunk, FetchError, FetchShort,
          FetchBreak, EndFetch
    <3>2. CASE \E ok \in BOOLEAN : call' = [call EXCEPT ![t].ok = ok]
      BY <1>1, <3>2 DEF Calls
    <3>3. CASE call' = [call EXCEPT ![t].attempt = @ + 1]
      BY <1>1, <3>3 DEF Calls
    <3> QED
      BY <1>1, <3>1, <3>2, <3>3
  <2>3. Local
    BY <1>9
    DEF FetchCancelled, Connect, ReceiveChunk, FetchError, FetchShort, FetchBreak
  <2> QED
    BY <2>1, <2>2, <2>3 DEF Local, FetcherTypeOK
<1> QED
  BY <1>2, <1>3, <1>4, <1>5, <1>6, <1>7, <1>8, <1>9 DEF Proceed, Inside, Fetch

(* So does a new call, and the session. *)
LEMMA NextType == TypeAndSlots /\ [FetcherNext]_fetcherVars => FetcherTypeOK'
<1> SUFFICES ASSUME TypeAndSlots, [FetcherNext]_fetcherVars
             PROVE  FetcherTypeOK'
  OBVIOUS
<1> USE DEF TypeAndSlots
<1>1. ASSUME NEW t \in Threads, GetSpan(t)
      PROVE  FetcherTypeOK'
  <2>1. pc' \in [Threads -> Labels]
    BY <1>1 DEF GetSpan, AskFor, Goto, FetcherTypeOK, Labels
  <2>2. call' \in [Threads -> Calls]
    <3>1. PICK span \in SpansOf(t) :
              call' = [call EXCEPT ![t] = [NoCall EXCEPT
                          !.start = span[1], !.end = span[2],
                          !.idx = FirstBlock(span[1])]]
      BY <1>1 DEF GetSpan, AskFor
    <3>2. span \in Nat \X Nat
      BY FetcherAssumption DEF SpansOf
    <3>3. [NoCall EXCEPT !.start = span[1], !.end = span[2],
                         !.idx = FirstBlock(span[1])] \in Calls
      BY <3>2, FirstBlockNat DEF NoCall, Calls
    <3> QED
      BY <3>1, <3>3 DEF FetcherTypeOK
  <2>3. calls' \in 0..MaxCalls
    BY <1>1, FetcherAssumption DEF GetSpan, AskFor, FetcherTypeOK
  <2> QED
    BY <1>1, <2>1, <2>2, <2>3 DEF GetSpan, AskFor, FetcherTypeOK
<1>2. ASSUME NEW t \in Threads, Proceed(t)
      PROVE  FetcherTypeOK'
  BY <1>2, ProceedType
<1>3. CASE Stop \/ Clear
  BY <1>3 DEF Stop, Clear, FetcherTypeOK
<1>4. CASE UNCHANGED fetcherVars
  BY <1>4 DEF fetcherVars, FetcherTypeOK
<1> QED
  BY <1>1, <1>2, <1>3, <1>4 DEF FetcherNext, Quiescent

(* Only AcquireSlot and ReleaseSlot change the holders, by one thread, and *)
(* they are the only ones that change the number of permits.               *)
LEMMA NextSlots == TypeAndSlots /\ [FetcherNext]_fetcherVars => SlotsExact'
<1> SUFFICES ASSUME TypeAndSlots, [FetcherNext]_fetcherVars
             PROVE  SlotsExact'
  OBVIOUS
<1>1. /\ pc \in [Threads -> Labels]
      /\ slots \in 0..MAX_CONCURRENT
      /\ SlotsExact
  BY DEF TypeAndSlots, FetcherTypeOK
<1>2. ASSUME NEW t \in Threads, AcquireSlot(t)
      PROVE  SlotsExact'
  <2>1. t \notin Holders
    BY <1>2 DEF AcquireSlot, Holders, Holder
  <2>2. Holders' = Holders \cup {t}
    BY <1>1, <1>2 DEF AcquireSlot, Goto, Holders, Holder
  <2>3. Cardinality(Holders') = Cardinality(Holders) + 1
    BY <2>1, <2>2, HoldersFinite, FS_AddElement
  <2> QED
    BY <1>1, <1>2, <2>3, HoldersFinite, FetcherAssumption
    DEF AcquireSlot, SlotsExact
<1>3. ASSUME NEW t \in Threads, ReleaseSlot(t)
      PROVE  SlotsExact'
  <2>1. t \in Holders
    BY <1>3 DEF ReleaseSlot, Holders, Holder
  <2>2. Holders' = Holders \ {t}
    BY <1>1, <1>3 DEF ReleaseSlot, Goto, Holders, Holder
  <2>3. Cardinality(Holders') = Cardinality(Holders) - 1
    BY <2>1, <2>2, HoldersFinite, FS_RemoveElement
  <2> QED
    BY <1>1, <1>3, <2>3, HoldersFinite, FetcherAssumption
    DEF ReleaseSlot, SlotsExact
<1>4. ASSUME NEW t \in Threads, GetSpan(t) \/ Proceed(t),
             ~AcquireSlot(t), ~ReleaseSlot(t)
      PROVE  Holders' = Holders /\ slots' = slots
  <2>1. CASE Fetch(t)
    BY <1>1, <2>1
    DEF Fetch, FetchCancelled, Connect, ReceiveChunk, StoreChunk, FetchError,
        FetchShort, FetchBreak, EndFetch, Goto, Local, Holders, Holder
  <2>2. CASE \/ GetSpan(t) \/ ScanHit(t) \/ ScanMiss(t) \/ Recheck(t)
             \/ ReadBack(t) \/ Return(t) \/ Claim(t) \/ Join(t) \/ Retire(t)
             \/ Wake(t) \/ Verify(t)
    BY <1>1, <2>2
    DEF GetSpan, AskFor, ScanHit, ScanMiss, Recheck, ReadBack, Return, Claim, Join,
        Retire, Wake, Verify, GiveUp, Goto, Local, Holders, Holder
  <2> QED
    BY <1>4, <2>1, <2>2 DEF Proceed, Inside
<1>5. CASE Stop \/ Clear \/ UNCHANGED fetcherVars
  BY <1>1, <1>5 DEF Stop, Clear, fetcherVars, SlotsExact, Holders, Holder
<1> QED
  BY <1>1, <1>2, <1>3, <1>4, <1>5 DEF FetcherNext, Quiescent, SlotsExact

(* The fetcher's registry, permits and locals keep their types in every    *)
(* behaviour of get_span, _ensure and iter_range.                          *)
THEOREM TypeCorrect == FetcherSpec => []FetcherTypeOK
<1>1. TypeAndSlots /\ [FetcherNext]_fetcherVars => TypeAndSlots'
  BY NextType, NextSlots DEF TypeAndSlots
<1>2. TypeAndSlots => FetcherTypeOK
  BY DEF TypeAndSlots
<1> QED
  BY InitTypeAndSlots, <1>1, <1>2, PTL DEF FetcherSpec

(* Permits of _slots are neither lost nor made up, on any path out of a    *)
(* download (_ensure's inner finally).                                     *)
THEOREM PermitsKept == FetcherSpec => []SlotsExact
<1>1. TypeAndSlots /\ [FetcherNext]_fetcherVars => TypeAndSlots'
  BY NextType, NextSlots DEF TypeAndSlots
<1>2. TypeAndSlots => SlotsExact
  BY DEF TypeAndSlots
<1> QED
  BY InitTypeAndSlots, <1>1, <1>2, PTL DEF FetcherSpec

-----------------------------------------------------------------------------
(* Ownership of downloads.                                                 *)

(* A step that leaves owners, their keys and the registry alone. *)
LEMMA SameOwners ==
    ASSUME OneOwner, Owners' = Owners, inflight' = inflight,
           \A u \in Owners : Key(u)' = Key(u)
    PROVE  OneOwner'
BY DEF OneOwner

LEMMA NextOwner ==
    TypeAndSlots /\ OneOwner /\ [FetcherNext]_fetcherVars => OneOwner'
<1> SUFFICES ASSUME TypeAndSlots, OneOwner, [FetcherNext]_fetcherVars
             PROVE  OneOwner'
  OBVIOUS
<1>1. /\ pc \in [Threads -> Labels]
      /\ call \in [Threads -> Calls]
  BY DEF TypeAndSlots, FetcherTypeOK
<1>2. ASSUME NEW t \in Threads, Claim(t)
      PROVE  OneOwner'
  <2>1. Owners' = Owners \cup {t}
    BY <1>1, <1>2 DEF Claim, Goto, Owners, Owner
  <2>2. \A u \in Threads : Key(u)' = Key(u)
    BY <1>2 DEF Claim, Key
  <2>3. \A u \in Owners : Key(u) # Key(t)
    BY <1>2 DEF Claim, OneOwner
  <2>4. inflight' = inflight \cup {Key(t)}
    BY <1>2 DEF Claim
  <2>5. Owners \subseteq Threads
    BY DEF Owners
  <2>6. inflight' = {Key(u)' : u \in Owners'}
    BY <2>1, <2>2, <2>4, <2>5 DEF OneOwner
  <2>7. \A u, v \in Owners' : Key(u)' = Key(v)' => u = v
    BY <2>1, <2>2, <2>3, <2>5 DEF OneOwner
  <2> QED
    BY <2>6, <2>7 DEF OneOwner
<1>3. ASSUME NEW t \in Threads, Retire(t)
      PROVE  OneOwner'
  <2>1. /\ t \in Owners
        /\ Owners \subseteq Threads
        /\ Owners' = Owners \ {t}
    BY <1>1, <1>3 DEF Retire, GiveUp, Goto, Owners, Owner
  <2>2. \A u \in Threads \ {t} : Key(u)' = Key(u)
    BY <1>1, <1>3 DEF Retire, GiveUp, Key, Calls
  <2>3. inflight' = inflight \ {Key(t)}
    BY <1>3 DEF Retire
  <2>4. \A u \in Owners' : Key(u) # Key(t)
    BY <2>1 DEF OneOwner
  <2>5. inflight' = {Key(u)' : u \in Owners'}
    BY <2>1, <2>2, <2>3, <2>4 DEF OneOwner
  <2>6. \A u, v \in Owners' : Key(u)' = Key(v)' => u = v
    BY <2>1, <2>2 DEF OneOwner
  <2> QED
    BY <2>5, <2>6 DEF OneOwner
<1>4. ASSUME NEW t \in Threads,
             \/ Recheck(t) \/ ReadBack(t) \/ Return(t) \/ Join(t) \/ Wake(t)
             \/ Verify(t) \/ GetSpan(t) \/ ScanHit(t) \/ ScanMiss(t)
      PROVE  OneOwner'
  <2>1. Owners' = Owners /\ t \notin Owners
    BY <1>1, <1>4
    DEF Recheck, ReadBack, Return, Join, Wake, Verify, GetSpan, AskFor, ScanHit,
        ScanMiss, GiveUp, Goto, Local, Owners, Owner
  <2>2. \A u \in Threads \ {t} : call'[u] = call[u]
    BY <1>1, <1>4
    DEF Recheck, ReadBack, Return, Join, Wake, Verify, GetSpan, AskFor, ScanHit,
        ScanMiss, GiveUp, Local
  <2>3. inflight' = inflight
    BY <1>4
    DEF Recheck, ReadBack, Return, Join, Wake, Verify, GetSpan, AskFor, ScanHit,
        ScanMiss, Local
  <2> QED
    BY <2>1, <2>2, <2>3, SameOwners DEF Key, Owners
<1>5. ASSUME NEW t \in Threads, AcquireSlot(t) \/ ReleaseSlot(t) \/ Fetch(t)
      PROVE  OneOwner'
  <2>1. Owners' = Owners /\ inflight' = inflight
    BY <1>1, <1>5
    DEF AcquireSlot, ReleaseSlot, Fetch, FetchCancelled, Connect, ReceiveChunk,
        StoreChunk, FetchError, FetchShort, FetchBreak, EndFetch, Goto, Local,
        Owners, Owner
  <2>2. \A u \in Threads : /\ call'[u].idx = call[u].idx
                           /\ call'[u].run_end = call[u].run_end
    BY <1>1, <1>5
    DEF AcquireSlot, ReleaseSlot, Fetch, FetchCancelled, Connect, ReceiveChunk,
        StoreChunk, FetchError, FetchShort, FetchBreak, EndFetch, Local, Calls
  <2> QED
    BY <2>1, <2>2, SameOwners DEF Key, Owners
<1>6. CASE Stop \/ Clear \/ UNCHANGED fetcherVars
  BY <1>6, SameOwners DEF Stop, Clear, fetcherVars, Owners, Owner, Key
<1> QED
  BY <1>2, <1>3, <1>4, <1>5, <1>6 DEF FetcherNext, Proceed, Inside, Quiescent

(* No run is downloaded by two threads at once, and a waiter always waits  *)
(* for a thread that is at work (_ensure's _inflight).                     *)
THEOREM DownloadsOwned == FetcherSpec => []OneOwner
<1>1. FetcherInit => OneOwner
  BY DEF FetcherInit, OneOwner, Owners, Owner
<1>2. FetcherInit => TypeAndSlots
  BY InitTypeAndSlots
<1>3. TypeAndSlots /\ [FetcherNext]_fetcherVars => TypeAndSlots'
  BY NextType, NextSlots DEF TypeAndSlots
<1> QED
  BY <1>1, <1>2, <1>3, NextOwner, PTL DEF FetcherSpec

-----------------------------------------------------------------------------
(* What the threads write, and where: a download stays in the run it       *)
(* registered, and a body in whole blocks leaves nothing but the media.    *)

(* The last block of a span begins inside the media. *)
LEMMA LastBlockInside ==
    ASSUME NEW s \in Nat, NEW e \in Nat, s < e, e <= FileSize
    PROVE  /\ LastBlock(s, e) \in Nat
           /\ LastBlock(s, e) * BLOCK_SIZE < FileSize
<1>1. e - 1 \in Nat /\ e - 1 < FileSize
  BY CacheAssumption
<1>2. ((e - 1) \div BLOCK_SIZE) * BLOCK_SIZE <= e - 1
  BY <1>1, DivisionBounds, CacheAssumption
<1>3. (e - 1) \div BLOCK_SIZE \in Nat
  BY <1>1, CacheAssumption
<1>4. ((e - 1) \div BLOCK_SIZE) * BLOCK_SIZE \in Nat
  BY <1>3, CacheAssumption
<1> QED
  BY <1>1, <1>2, <1>3, <1>4, CacheAssumption DEF LastBlock

-----------------------------------------------------------------------------
(* Where a call is, from its label and its locals.                         *)

Running == {"ensure", "slot", "connect", "stream", "store", "release", "retire",
            "wait", "verify", "recheck"}

Limit(c) == Lesser((c.run_end + 1) * BLOCK_SIZE, FileSize)

InSpan(label, c) ==
    label # "idle" =>
        /\ c.start < c.end
        /\ c.end <= FileSize
        /\ FirstBlock(c.start) <= c.idx

InLimits(label, c) ==
    label \in Running =>
        /\ c.idx <= c.run_end
        /\ c.run_end <= LastBlock(c.start, c.end)
        /\ c.run_end < c.idx + MAX_RUN_BLOCKS

InRun(label, c) ==
    label \in {"connect", "stream", "store"} =>
        /\ c.idx * BLOCK_SIZE <= c.pos
        /\ c.pos < Limit(c)

Placed(label, c) == InSpan(label, c) /\ InLimits(label, c) /\ InRun(label, c)

RunsPlaced == \A t \in Threads : Placed(pc[t], call[t])

(* RunsPlaced says more than InsideRun. *)
LEMMA PlacedInside == RunsPlaced /\ FetcherTypeOK => InsideRun
<1> SUFFICES ASSUME RunsPlaced, FetcherTypeOK, NEW t \in Threads
             PROVE  /\ pc[t] \in {"stream", "store"} =>
                        call[t].pos \in (call[t].idx * BLOCK_SIZE)..(RunLimit(t) - 1)
                    /\ Owner(t) => /\ FirstBlock(call[t].start) <= call[t].idx
                                   /\ call[t].idx <= call[t].run_end
                                   /\ call[t].run_end <= LastOf(t)
                                   /\ call[t].run_end < call[t].idx + MAX_RUN_BLOCKS
  BY DEF InsideRun
<1>1. Placed(pc[t], call[t])
  BY DEF RunsPlaced
<1>2. call[t] \in Calls
  BY DEF FetcherTypeOK
<1>3. /\ call[t].idx * BLOCK_SIZE \in Nat
      /\ RunLimit(t) \in Nat
      /\ RunLimit(t) = Limit(call[t])
  BY <1>2, RunLimitNat, CacheAssumption DEF Calls, RunLimit, Limit
<1>4. pc[t] \in {"stream", "store"} =>
          call[t].pos \in (call[t].idx * BLOCK_SIZE)..(RunLimit(t) - 1)
  BY <1>1, <1>2, <1>3 DEF Placed, InRun, Calls
<1>5. Owner(t) => /\ FirstBlock(call[t].start) <= call[t].idx
                  /\ call[t].idx <= call[t].run_end
                  /\ call[t].run_end <= LastOf(t)
                  /\ call[t].run_end < call[t].idx + MAX_RUN_BLOCKS
  BY <1>1 DEF Placed, InSpan, InLimits, Running, Owner, LastOf
<1> QED
  BY <1>4, <1>5

(* A thread's step is its own: the others' labels and locals stay. *)
LEMMA OthersUntouched ==
    ASSUME FetcherTypeOK, NEW t \in Threads, GetSpan(t) \/ Proceed(t),
           NEW u \in Threads \ {t}
    PROVE  pc'[u] = pc[u] /\ call'[u] = call[u]
<1>1. /\ pc \in [Threads -> Labels]
      /\ call \in [Threads -> Calls]
  BY DEF FetcherTypeOK
<1>2. CASE Fetch(t)
  BY <1>1, <1>2
  DEF Fetch, FetchCancelled, Connect, ReceiveChunk, StoreChunk, FetchError,
      FetchShort, FetchBreak, EndFetch, Goto
<1>3. CASE \/ GetSpan(t) \/ ScanHit(t) \/ ScanMiss(t) \/ Recheck(t) \/ ReadBack(t)
           \/ Return(t) \/ Claim(t) \/ Join(t) \/ AcquireSlot(t) \/ ReleaseSlot(t)
           \/ Retire(t) \/ Wake(t) \/ Verify(t)
  BY <1>1, <1>3
  DEF GetSpan, AskFor, ScanHit, ScanMiss, Recheck, ReadBack, Return, Claim, Join,
      AcquireSlot, ReleaseSlot, Retire, Wake, Verify, GiveUp, Goto
<1> QED
  BY <1>2, <1>3 DEF Proceed, Inside

(* The step itself keeps its thread placed. *)
LEMMA StepPlaced ==
    ASSUME FetcherTypeOK, RunsPlaced, NEW t \in Threads, GetSpan(t) \/ Proceed(t)
    PROVE  Placed(pc'[t], call'[t])
<1>1. /\ pc \in [Threads -> Labels]
      /\ call \in [Threads -> Calls]
      /\ call[t] \in Calls
      /\ Placed(pc[t], call[t])
  BY DEF FetcherTypeOK, RunsPlaced
<1>2. CASE GetSpan(t)
  <2>1. PICK span \in SpansOf(t) :
            call' = [call EXCEPT ![t] = [NoCall EXCEPT
                        !.start = span[1], !.end = span[2],
                        !.idx = FirstBlock(span[1])]]
    BY <1>2 DEF GetSpan, AskFor
  <2>2. span \in Nat \X Nat /\ span[1] < span[2] /\ span[2] <= FileSize
    BY FetcherAssumption DEF SpansOf
  <2>3. /\ call'[t].start = span[1]
        /\ call'[t].end = span[2]
        /\ call'[t].idx = FirstBlock(span[1])
    BY <1>1, <2>1 DEF NoCall
  <2>4. pc'[t] = "scan"
    BY <1>1, <1>2 DEF GetSpan, AskFor, Goto
  <2> QED
    BY <2>2, <2>3, <2>4, FirstBlockNat
    DEF Placed, InSpan, InLimits, InRun, Running
<1>3. CASE ScanHit(t)
  <2>1. pc'[t] = "scan" /\ call'[t] = [call[t] EXCEPT !.idx = @ + 1]
    BY <1>1, <1>3 DEF ScanHit
  <2> QED
    BY <1>1, <1>3, <2>1, FirstBlockNat
    DEF ScanHit, Placed, InSpan, InLimits, InRun, Running, Calls
<1>4. CASE ScanMiss(t)
  <2>1. /\ pc'[t] = "ensure"
        /\ call'[t] = [call[t] EXCEPT !.run_end =
                           Lesser(LastOf(t), call[t].idx + MAX_RUN_BLOCKS - 1)]
    BY <1>1, <1>4 DEF ScanMiss, Goto
  <2>2. LastOf(t) \in Int
    BY <1>1, LastBlockInt DEF LastOf, Calls
  <2> QED
    BY <1>1, <1>4, <2>1, <2>2, FetcherAssumption
    DEF ScanMiss, Placed, InSpan, InLimits, InRun, Running, Calls, Lesser, LastOf
<1>5. CASE Recheck(t) \/ Verify(t)
  <2>1. CASE pc'[t] = "returned" /\ pc[t] # "idle" /\ call'[t] = call[t]
    BY <1>1, <2>1 DEF Placed, InSpan, InLimits, InRun, Running
  <2>2. CASE /\ pc'[t] \in {"recheck", "verify"}
             /\ pc[t] \in {"recheck", "verify"}
             /\ \/ call'[t] = [call[t] EXCEPT !.i = @ + 1]
                \/ call'[t] = [call[t] EXCEPT !.i = call[t].idx]
    BY <1>1, <2>2 DEF Placed, InSpan, InLimits, InRun, Running, Calls
  <2>3. CASE /\ pc'[t] = "scan"
             /\ pc[t] = "recheck"
             /\ call'[t] = [call[t] EXCEPT !.idx = call[t].run_end + 1]
    <3>1. /\ call'[t].start = call[t].start
          /\ call'[t].end = call[t].end
          /\ call'[t].idx = call[t].run_end + 1
      BY <1>1, <2>3 DEF Calls
    <3>2. FirstBlock(call[t].start) \in Nat
      BY <1>1, FirstBlockNat DEF Calls
    <3> QED
      BY <1>1, <2>3, <3>1, <3>2
      DEF Placed, InSpan, InLimits, InRun, Running, Calls
  <2>4. CASE Recheck(t)
    BY <1>1, <2>1, <2>2, <2>3, <2>4 DEF Recheck, GiveUp, Goto
  <2>5. CASE Verify(t)
    BY <1>1, <2>1, <2>2, <2>3, <2>5 DEF Verify, GiveUp, Goto
  <2> QED
    BY <1>5, <2>4, <2>5
<1>6. CASE ReadBack(t) \/ Claim(t) \/ Join(t) \/ ReleaseSlot(t)
  <2>1. call'[t] = call[t]
    BY <1>6 DEF ReadBack, Claim, Join, ReleaseSlot
  <2> QED
    BY <1>1, <1>6, <2>1
    DEF ReadBack, Claim, Join, ReleaseSlot, Goto, Placed, InSpan, InLimits,
        InRun, Running
<1>7. CASE Return(t)
  BY <1>1, <1>7 DEF Return, Goto, Placed, InSpan, InLimits, InRun, Running
<1>8. CASE AcquireSlot(t)
  <2>1. /\ pc'[t] = "connect"
        /\ pc[t] = "slot"
        /\ call'[t] = [call[t] EXCEPT !.pos = call[t].idx * BLOCK_SIZE,
                                      !.attempt = 0]
    BY <1>1, <1>8 DEF AcquireSlot, Goto
  <2>2. /\ call[t].start < call[t].end
        /\ call[t].end <= FileSize
        /\ call[t].idx <= call[t].run_end
        /\ call[t].run_end <= LastBlock(call[t].start, call[t].end)
    BY <1>1, <2>1 DEF Placed, InSpan, InLimits, Running
  <2>3. /\ LastBlock(call[t].start, call[t].end) \in Nat
        /\ LastBlock(call[t].start, call[t].end) * BLOCK_SIZE < FileSize
    BY <1>1, <2>2, LastBlockInside DEF Calls
  <2>4. call[t].idx * BLOCK_SIZE < FileSize
    <3>1. call[t].idx * BLOCK_SIZE
              <= LastBlock(call[t].start, call[t].end) * BLOCK_SIZE
      <4>1. /\ call[t].idx \in Nat
            /\ call[t].idx <= LastBlock(call[t].start, call[t].end)
        BY <1>1, <2>2, <2>3 DEF Calls
      <4> QED
        BY <4>1, <2>3, MultiplesOrdered, CacheAssumption
    <3>2. /\ call[t].idx * BLOCK_SIZE \in Nat
          /\ LastBlock(call[t].start, call[t].end) * BLOCK_SIZE \in Nat
      BY <1>1, <2>3, CacheAssumption DEF Calls
    <3> QED
      BY <3>1, <3>2, <2>3, CacheAssumption
  <2>5. call[t].idx * BLOCK_SIZE < (call[t].run_end + 1) * BLOCK_SIZE
    <3>1. call[t].idx * BLOCK_SIZE <= call[t].run_end * BLOCK_SIZE
      BY <1>1, <2>2, MultiplesOrdered, CacheAssumption DEF Calls
    <3>2. (call[t].run_end + 1) * BLOCK_SIZE = call[t].run_end * BLOCK_SIZE + BLOCK_SIZE
      BY <1>1, CacheAssumption DEF Calls
    <3>3. /\ call[t].idx * BLOCK_SIZE \in Nat
          /\ call[t].run_end * BLOCK_SIZE \in Nat
      BY <1>1, CacheAssumption DEF Calls
    <3> QED
      BY <3>1, <3>2, <3>3, CacheAssumption
  <2>6. InRun(pc'[t], call'[t])
    BY <1>1, <2>1, <2>4, <2>5, CacheAssumption DEF InRun, Limit, Lesser, Calls
  <2> QED
    BY <1>1, <2>1, <2>6 DEF Placed, InSpan, InLimits, Running, Calls
<1>9. CASE Retire(t) \/ Wake(t)
  <2>1. /\ pc'[t] \in {"recheck", "verify", "returned"}
        /\ pc[t] \in {"retire", "wait"}
        /\ \/ call'[t] = call[t]
           \/ call'[t] = [call[t] EXCEPT !.i = call[t].idx]
    BY <1>1, <1>9 DEF Retire, Wake, GiveUp, Goto
  <2> QED
    BY <1>1, <2>1 DEF Placed, InSpan, InLimits, InRun, Running, Calls
<1>10. CASE StoreChunk(t)
  <2>1. PICK m \in ChunkLens :
            /\ call' = [call EXCEPT ![t].pos =
                            @ + Lesser(m, RunLimit(t) - call[t].pos)]
            /\ Goto(t, IF call[t].pos + Lesser(m, RunLimit(t) - call[t].pos)
                          < RunLimit(t) THEN "stream" ELSE "release")
    BY <1>10 DEF StoreChunk
  <2>2. /\ pc[t] = "store"
        /\ call'[t] = [call[t] EXCEPT !.pos =
                           @ + Lesser(m, RunLimit(t) - call[t].pos)]
        /\ pc'[t] = IF call'[t].pos < RunLimit(t) THEN "stream" ELSE "release"
    BY <1>1, <1>10, <2>1 DEF StoreChunk, Goto, Calls
  <2>3. /\ RunLimit(t) \in Nat
        /\ RunLimit(t) = Limit(call[t])
        /\ Limit(call'[t]) = Limit(call[t])
        /\ call[t].idx * BLOCK_SIZE \in Nat
    BY <1>1, <2>2, RunLimitNat, CacheAssumption DEF Calls, RunLimit, Limit
  <2>4. /\ call[t].idx * BLOCK_SIZE <= call[t].pos
        /\ call[t].pos < RunLimit(t)
    BY <1>1, <2>2, <2>3 DEF Placed, InRun
  <2>5. m \in Nat \ {0}
    BY FetcherAssumption, CacheAssumption
  <2>6. /\ call'[t].pos \in Nat
        /\ call[t].pos <= call'[t].pos
    BY <1>1, <2>2, <2>3, <2>4, <2>5 DEF Lesser, Calls
  <2>7. InRun(pc'[t], call'[t])
    BY <1>1, <2>2, <2>3, <2>4, <2>6 DEF InRun, Calls
  <2> QED
    BY <1>1, <2>2, <2>7 DEF Placed, InSpan, InLimits, Running, Calls
<1>11. CASE \/ FetchCancelled(t) \/ Connect(t) \/ ReceiveChunk(t)
            \/ FetchError(t) \/ FetchShort(t) \/ FetchBreak(t)
  <2>1. /\ pc[t] \in {"connect", "stream"}
        /\ pc'[t] \in {"connect", "stream", "store", "release"}
        /\ \/ call'[t] = call[t]
           \/ \E ok \in BOOLEAN : call'[t] = [call[t] EXCEPT !.ok = ok]
           \/ call'[t] = [call[t] EXCEPT !.attempt = @ + 1]
    BY <1>1, <1>11
    DEF FetchCancelled, Connect, ReceiveChunk, FetchError, FetchShort,
        FetchBreak, EndFetch, Goto
  <2> QED
    BY <1>1, <2>1 DEF Placed, InSpan, InLimits, InRun, Running, Calls, Limit
<1> QED
  BY <1>2, <1>3, <1>4, <1>5, <1>6, <1>7, <1>8, <1>9, <1>10, <1>11
  DEF Proceed, Inside, Fetch

LEMMA InitPlaced == FetcherInit => RunsPlaced
BY DEF FetcherInit, RunsPlaced, Placed, InSpan, InLimits, InRun, Running

LEMMA NextPlaced ==
    FetcherTypeOK /\ RunsPlaced /\ [FetcherNext]_fetcherVars => RunsPlaced'
<1> SUFFICES ASSUME FetcherTypeOK, RunsPlaced, [FetcherNext]_fetcherVars,
                    NEW u \in Threads
             PROVE  Placed(pc'[u], call'[u])
  BY DEF RunsPlaced, Placed, InSpan, InLimits, InRun, Limit, FirstBlock,
         LastBlock, Lesser
<1>1. ASSUME NEW t \in Threads, GetSpan(t) \/ Proceed(t)
      PROVE  Placed(pc'[u], call'[u])
  <2>1. CASE u = t
    BY <1>1, <2>1, StepPlaced
  <2>2. CASE u # t
    BY <1>1, <2>2, OthersUntouched DEF RunsPlaced
  <2> QED
    BY <2>1, <2>2
<1>2. CASE Stop \/ Clear \/ UNCHANGED fetcherVars
  BY <1>2 DEF Stop, Clear, fetcherVars, RunsPlaced
<1> QED
  BY <1>1, <1>2 DEF FetcherNext, Quiescent

(* A download writes inside the run its thread registered (iter_range's    *)
(* pos against bstart and bend), whatever faults and retries it meets.     *)
THEOREM DownloadsInside == FetcherSpec => []InsideRun
<1>1. FetcherInit => TypeAndSlots /\ RunsPlaced
  BY InitTypeAndSlots, InitPlaced
<1>2. TypeAndSlots /\ RunsPlaced /\ [FetcherNext]_fetcherVars
          => TypeAndSlots' /\ RunsPlaced'
  BY NextType, NextSlots, NextPlaced DEF TypeAndSlots
<1>3. TypeAndSlots /\ RunsPlaced => InsideRun
  BY PlacedInside DEF TypeAndSlots
<1> QED
  BY <1>1, <1>2, <1>3, PTL DEF FetcherSpec

-----------------------------------------------------------------------------
(* Bodies in whole blocks.                                                 *)

(* A cache of nothing but blocks of the media. *)
MediaCache(c) ==
    /\ c = [blocks |-> c.blocks, lru |-> c.lru,
            pending |-> c.pending, resident |-> c.resident]
    /\ DOMAIN c.pending = {}
    /\ \A i \in DOMAIN c.blocks : c.blocks[i] = FileBlock(i)

(* Block k is as long as BlockLimit asks for, and never longer than a block. *)
LEMMA FileBlockLength ==
    ASSUME NEW k \in Nat, k * BLOCK_SIZE < FileSize
    PROVE  /\ BlockLen(k, FileSize) \in 1..BLOCK_SIZE
           /\ BlockLen(k, FileSize) = BlockLimit(k)
           /\ FileBlock(k) = Cells(k * BLOCK_SIZE, BlockLen(k, FileSize))
           /\ FileBlock(k) \in Seq(Int)
           /\ Len(FileBlock(k)) = BlockLen(k, FileSize)
<1>1. /\ k * BLOCK_SIZE \in Nat
      /\ (k + 1) * BLOCK_SIZE = k * BLOCK_SIZE + BLOCK_SIZE
  BY CacheAssumption
<1>2. BlockLen(k, FileSize) \in 1..BLOCK_SIZE
  BY <1>1, CacheAssumption DEF BlockLen
<1>3. BlockLen(k, FileSize) = BlockLimit(k)
  BY <1>1, CacheAssumption, FetcherAssumption DEF BlockLen, BlockLimit
<1>4. FileBlock(k) = Cells(k * BLOCK_SIZE, BlockLen(k, FileSize))
  BY DEF FileBlock, BlockLen
<1>5. FileBlock(k) \in [1..BlockLen(k, FileSize) -> Int]
  BY <1>1, <1>2, <1>4 DEF Cells
<1> QED
  BY <1>2, <1>3, <1>4, <1>5

(* _evict removes blocks and changes none. *)
LEMMA EvictKeepsMedia ==
    ASSUME NEW c, MediaCache(c)
    PROVE  MediaCache(Evict(c))
<1>1. PICK S, lru, resident :
          Evict(c) = [c EXCEPT !.blocks = Drop(@, S), !.lru = lru, !.resident = resident]
  BY DEF Evict
<1>2. Evict(c) = [blocks |-> Drop(c.blocks, S), lru |-> lru,
                  pending |-> c.pending, resident |-> resident]
  BY <1>1 DEF MediaCache
<1> QED
  BY <1>2 DEF MediaCache, Drop

(* Committing a block of the media leaves a cache of the media. *)
LEMMA CommitKeepsMedia ==
    ASSUME NEW c, MediaCache(c), NEW k
    PROVE  MediaCache(Commit(c, k, FileBlock(k)))
BY DEF MediaCache, Commit, Put, Drop

(* store_bytes with the whole of one block commits it at once. *)
LEMMA StoreWhole ==
    ASSUME NEW c, MediaCache(c), NEW k \in Nat, k * BLOCK_SIZE < FileSize
    PROVE  StoreBytes(c, k * BLOCK_SIZE, FileBlock(k)).cache
               = Evict(Commit(c, k, FileBlock(k)))
<1> DEFINE start == k * BLOCK_SIZE
           data  == FileBlock(k)
           r     == [cache |-> c, committed |-> 0]
<1>1. /\ data \in Seq(Int)
      /\ Len(data) \in 1..BLOCK_SIZE
      /\ Len(data) = BlockLimit(k)
  BY FileBlockLength
<1>2. start % BLOCK_SIZE = 0 /\ FirstBlock(start) = k
  BY MultipleDivided, CacheAssumption DEF FirstBlock
<1>3. ~(Len(data) > BLOCK_SIZE - (start % BLOCK_SIZE))
  BY <1>1, <1>2, CacheAssumption
<1>4. Buffered(c, k, data) = data
  BY <1>1 DEF Buffered, MediaCache
<1>5. FullBlock(data) = data
  BY <1>1, CacheAssumption DEF FullBlock
<1>6. StorePiece(r, start, data).cache = Commit(c, k, data)
  <2> HIDE DEF start, data
  <2>1. Len(data) >= BlockLimit(k)
    BY <1>1
  <2>2. StorePiece(r, start, data)
            = [cache |-> Commit(c, k, data), committed |-> 0 + Len(data)]
    BY <1>2, <1>4, <1>5, <2>1 DEF StorePiece
  <2> QED
    BY <2>2
<1>7. StoreBytes(c, start, data).cache = Evict(StorePiece(r, start, data).cache)
  <2> HIDE DEF start, data
  <2>1. StoreBytes(c, start, data)
            = [StorePiece(r, start, data) EXCEPT !.cache = Evict(@)]
    BY <1>3 DEF StoreBytes
  <2>2. "cache" \in DOMAIN StorePiece(r, start, data)
    BY DEF StorePiece
  <2> QED
    BY <2>1, <2>2
<1> QED
  BY <1>6, <1>7

LEMMA StoreKeepsMedia ==
    ASSUME NEW c, MediaCache(c), NEW k \in Nat, k * BLOCK_SIZE < FileSize
    PROVE  MediaCache(StoreBytes(c, k * BLOCK_SIZE, FileBlock(k)).cache)
BY StoreWhole, CommitKeepsMedia, EvictKeepsMedia

(* read_span changes the recency order only. *)
LEMMA ReadKeepsMedia ==
    ASSUME NEW c, MediaCache(c), NEW s, NEW e
    PROVE  MediaCache(ReadSpan(c, s, e).cache)
<1>1. PICK lru : ReadSpan(c, s, e).cache = [c EXCEPT !.lru = lru]
  BY DEF ReadSpan
<1> QED
  BY <1>1 DEF MediaCache

(* A download that is at work stands at a block boundary. *)
Boundary(label, c) ==
    label \in {"connect", "stream", "store"} =>
        \E k \in Nat : c.pos = k * BLOCK_SIZE

Contents ==
    /\ MediaCache(cache)
    /\ \A t \in Threads : Boundary(pc[t], call[t])

(* The chunk that arrives at a block boundary is the block. *)
LEMMA ChunkIsBlock ==
    ASSUME NEW c \in Calls, NEW k \in Nat, c.pos = k * BLOCK_SIZE,
           c.pos < Limit(c)
    PROVE  /\ k * BLOCK_SIZE < FileSize
           /\ Lesser(BLOCK_SIZE, Limit(c) - c.pos) = BlockLen(k, FileSize)
           /\ c.pos + BlockLen(k, FileSize) < Limit(c) => BlockLen(k, FileSize) = BLOCK_SIZE
<1> DEFINE bound == (c.run_end + 1) * BLOCK_SIZE
<1>1. /\ k * BLOCK_SIZE \in Nat
      /\ (k + 1) * BLOCK_SIZE = k * BLOCK_SIZE + BLOCK_SIZE
      /\ bound \in Nat
      /\ c.run_end + 1 \in Nat
  BY CacheAssumption DEF Calls
<1>2. /\ k * BLOCK_SIZE < bound
      /\ k * BLOCK_SIZE < FileSize
      /\ Limit(c) = IF bound <= FileSize THEN bound ELSE FileSize
  <2> HIDE DEF bound
  <2>1. Limit(c) = IF bound <= FileSize THEN bound ELSE FileSize
    BY DEF Limit, Lesser, bound
  <2> QED
    BY <1>1, <2>1, CacheAssumption
<1>3. k < c.run_end + 1
  <2>1. ASSUME c.run_end + 1 <= k PROVE FALSE
    <3>1. bound <= k * BLOCK_SIZE
      BY <1>1, <2>1, MultiplesOrdered, CacheAssumption
    <3> QED
      BY <1>1, <1>2, <3>1
  <2> QED
    BY <1>1, <2>1
<1>4. (k + 1) * BLOCK_SIZE <= bound
  <2>1. k + 1 <= c.run_end + 1
    BY <1>1, <1>3
  <2> QED
    BY <1>1, <2>1, MultiplesOrdered, CacheAssumption
<1> HIDE DEF bound
<1>5. Lesser(BLOCK_SIZE, Limit(c) - c.pos) = BlockLen(k, FileSize)
  BY <1>1, <1>2, <1>4, CacheAssumption DEF BlockLen, Lesser
<1>6. c.pos + BlockLen(k, FileSize) < Limit(c) => BlockLen(k, FileSize) = BLOCK_SIZE
  BY <1>1, <1>2, <1>4, CacheAssumption DEF BlockLen
<1> QED
  BY <1>2, <1>5, <1>6

LEMMA InitContents == FetcherInit => Contents
BY DEF FetcherInit, CacheInit, EmptyCache, NoEntries, Contents, MediaCache,
       Boundary

(* A step of one thread keeps the cache and that thread's own position. *)
LEMMA StepContents ==
    ASSUME ChunkLens = {BLOCK_SIZE}, FetcherTypeOK, RunsPlaced, Contents,
           NEW t \in Threads, GetSpan(t) \/ Proceed(t)
    PROVE  MediaCache(cache') /\ Boundary(pc'[t], call'[t])
<1>1. /\ pc \in [Threads -> Labels]
      /\ call \in [Threads -> Calls]
      /\ call[t] \in Calls
      /\ Placed(pc[t], call[t])
      /\ Boundary(pc[t], call[t])
      /\ MediaCache(cache)
  BY DEF FetcherTypeOK, RunsPlaced, Contents
<1>2. CASE StoreChunk(t)
  <2>1. /\ pc[t] = "store"
        /\ cache' = StoreBytes(cache, call[t].pos,
                        Cells(call[t].pos,
                              Lesser(BLOCK_SIZE, RunLimit(t) - call[t].pos))).cache
        /\ call'[t] = [call[t] EXCEPT !.pos =
                           @ + Lesser(BLOCK_SIZE, RunLimit(t) - call[t].pos)]
        /\ pc'[t] = IF call[t].pos + Lesser(BLOCK_SIZE, RunLimit(t) - call[t].pos)
                       < RunLimit(t) THEN "stream" ELSE "release"
    BY <1>1, <1>2 DEF StoreChunk, Goto
  <2>2. RunLimit(t) = Limit(call[t])
    BY DEF RunLimit, Limit
  <2>3. PICK k \in Nat : call[t].pos = k * BLOCK_SIZE
    BY <1>1, <2>1 DEF Boundary
  <2>4. call[t].pos < Limit(call[t])
    BY <1>1, <2>1 DEF Placed, InRun
  <2>5. /\ k * BLOCK_SIZE < FileSize
        /\ Lesser(BLOCK_SIZE, RunLimit(t) - call[t].pos) = BlockLen(k, FileSize)
        /\ call[t].pos + BlockLen(k, FileSize) < RunLimit(t) => BlockLen(k, FileSize) = BLOCK_SIZE
    BY <1>1, <2>2, <2>3, <2>4, ChunkIsBlock
  <2>6. cache' = StoreBytes(cache, k * BLOCK_SIZE, FileBlock(k)).cache
    BY <2>1, <2>3, <2>5, FileBlockLength
  <2>7. MediaCache(cache')
    BY <1>1, <2>5, <2>6, StoreKeepsMedia
  <2>8. CASE call[t].pos + BlockLen(k, FileSize) < RunLimit(t)
    <3>1. call'[t].pos = k * BLOCK_SIZE + BLOCK_SIZE
      BY <1>1, <2>1, <2>3, <2>5, <2>8 DEF Calls
    <3>2. k + 1 \in Nat /\ (k + 1) * BLOCK_SIZE = k * BLOCK_SIZE + BLOCK_SIZE
      BY CacheAssumption
    <3> QED
      BY <2>7, <3>1, <3>2 DEF Boundary
  <2>9. CASE ~(call[t].pos + BlockLen(k, FileSize) < RunLimit(t))
    BY <2>1, <2>5, <2>7, <2>9 DEF Boundary
  <2> QED
    BY <2>8, <2>9
<1>3. CASE AcquireSlot(t)
  <2>1. /\ cache' = cache
        /\ call'[t].pos = call[t].idx * BLOCK_SIZE
    BY <1>1, <1>3 DEF AcquireSlot, Calls
  <2> QED
    BY <1>1, <2>1 DEF Boundary, Calls
<1>4. CASE ReadBack(t)
  <2>1. MediaCache(cache')
    BY <1>1, <1>4, ReadKeepsMedia DEF ReadBack
  <2> QED
    BY <1>1, <1>4, <2>1 DEF ReadBack, Goto, Boundary
<1>5. CASE \/ FetchCancelled(t) \/ Connect(t) \/ ReceiveChunk(t)
           \/ FetchError(t) \/ FetchShort(t) \/ FetchBreak(t)
  <2>1. /\ cache' = cache
        /\ pc[t] \in {"connect", "stream"}
        /\ call'[t].pos = call[t].pos
    BY <1>1, <1>5
    DEF FetchCancelled, Connect, ReceiveChunk, FetchError, FetchShort,
        FetchBreak, EndFetch, Goto, Local, Calls
  <2> QED
    BY <1>1, <2>1 DEF Boundary
<1>6. CASE \/ GetSpan(t) \/ ScanHit(t) \/ ScanMiss(t) \/ Recheck(t) \/ Return(t)
           \/ Claim(t) \/ Join(t) \/ ReleaseSlot(t) \/ Retire(t) \/ Wake(t)
           \/ Verify(t)
  <2>1. /\ cache' = cache
        /\ pc'[t] \notin {"connect", "stream", "store"}
    BY <1>1, <1>6
    DEF GetSpan, AskFor, ScanHit, ScanMiss, Recheck, Return, Claim, Join, ReleaseSlot,
        Retire, Wake, Verify, GiveUp, Goto, Local
  <2> QED
    BY <1>1, <2>1 DEF Boundary
<1> QED
  BY <1>2, <1>3, <1>4, <1>5, <1>6 DEF Proceed, Inside, Fetch

LEMMA NextContents ==
    ASSUME ChunkLens = {BLOCK_SIZE}
    PROVE  FetcherTypeOK /\ RunsPlaced /\ Contents /\ [FetcherNext]_fetcherVars
               => Contents'
<1> SUFFICES ASSUME FetcherTypeOK, RunsPlaced, Contents, [FetcherNext]_fetcherVars
             PROVE  Contents'
  OBVIOUS
<1>1. ASSUME NEW t \in Threads, GetSpan(t) \/ Proceed(t)
      PROVE  Contents'
  <2>1. MediaCache(cache') /\ Boundary(pc'[t], call'[t])
    BY <1>1, StepContents
  <2>2. ASSUME NEW u \in Threads \ {t}
        PROVE  Boundary(pc'[u], call'[u])
    <3>1. pc'[u] = pc[u] /\ call'[u] = call[u]
      BY <1>1, OthersUntouched
    <3> QED
      BY <3>1 DEF Contents
  <2> QED
    BY <2>1, <2>2 DEF Contents
<1>2. CASE Clear
  <2>1. MediaCache(EmptyCache)
    BY DEF MediaCache, EmptyCache, NoEntries
  <2> QED
    BY <1>2, <2>1 DEF Clear, Contents
<1>3. CASE Stop \/ UNCHANGED fetcherVars
  BY <1>3 DEF Stop, fetcherVars, Contents
<1> QED
  BY <1>1, <1>2, <1>3 DEF FetcherNext, Quiescent

(* Every resident block is the media's own block (store_bytes under        *)
(* _ensure and iter_range), for any number of threads, overlapping runs,   *)
(* faults, retries and evictions, when bodies come in whole blocks: when   *)
(* the responses have a Content-Length.                                    *)
THEOREM BlocksExact ==
    ASSUME ChunkLens = {BLOCK_SIZE}
    PROVE  FetcherSpec => []CacheHoldsMedia
<1>1. FetcherInit => TypeAndSlots /\ RunsPlaced /\ Contents
  BY InitTypeAndSlots, InitPlaced, InitContents
<1>2. TypeAndSlots /\ RunsPlaced /\ Contents /\ [FetcherNext]_fetcherVars
          => TypeAndSlots' /\ RunsPlaced' /\ Contents'
  BY NextType, NextSlots, NextPlaced, NextContents DEF TypeAndSlots
<1>3. Contents => CacheHoldsMedia
  BY DEF Contents, MediaCache, CacheHoldsMedia
<1> QED
  BY <1>1, <1>2, <1>3, PTL DEF FetcherSpec

-----------------------------------------------------------------------------
(* The cache's accounts, whoever writes.                                   *)

LEMMA BudgetStep ==
    ASSUME FetcherTypeOK, RunsPlaced, Budget(cache), NEW t \in Threads,
           GetSpan(t) \/ Proceed(t)
    PROVE  Budget(cache')
<1>1. /\ call[t] \in Calls
      /\ Placed(pc[t], call[t])
  BY DEF FetcherTypeOK, RunsPlaced
<1>2. CASE StoreChunk(t)
  <2>1. PICK m \in ChunkLens :
           LET n == Lesser(m, RunLimit(t) - call[t].pos)
           IN  cache' = StoreBytes(cache, call[t].pos, Cells(call[t].pos, n)).cache
    BY <1>2 DEF StoreChunk
  <2> DEFINE p == call[t].pos
             n == Lesser(m, RunLimit(t) - p)
             data == Cells(p, n)
  <2>2. /\ p \in Nat /\ RunLimit(t) \in Nat /\ p < RunLimit(t)
        /\ m \in Nat /\ m >= 1
    <3>1. RunLimit(t) = Limit(call[t])
      BY DEF RunLimit, Limit
    <3>2. pc[t] = "store"
      BY <1>2 DEF StoreChunk
    <3>3. p < Limit(call[t])
      BY <1>1, <3>2 DEF Placed, InRun
    <3>4. RunLimit(t) \in Nat
      BY <1>1, RunLimitNat
    <3>5. m \in Nat /\ m >= 1
      BY FetcherAssumption, CacheAssumption
    <3> QED
      BY <1>1, <3>1, <3>3, <3>4, <3>5 DEF Calls
  <2> HIDE DEF p
  <2>3. n \in Nat /\ n >= 1
    BY <2>2 DEF Lesser
  <2> HIDE DEF n
  <2>4. data \in Seq(Nat) /\ Len(data) >= 1
    BY <2>2, <2>3, CellsSeq
  <2> HIDE DEF data
  <2>5. Budget(StoreBytes(cache, p, data).cache)
    BY <2>2, <2>4, StoreBudget
  <2> QED
    BY <2>1, <2>5 DEF data, n, p
<1>3. CASE ReadBack(t)
  <2>1. cache' = ReadSpan(cache, call[t].start, call[t].end).cache
    BY <1>3 DEF ReadBack
  <2>2. call[t].start \in Nat /\ call[t].end \in Nat /\ call[t].start < call[t].end
    BY <1>1, <1>3 DEF ReadBack, Placed, InSpan, Calls
  <2> DEFINE s == call[t].start
             e == call[t].end
  <2>3. s \in Nat /\ e \in Nat /\ s < e
    BY <2>2
  <2> HIDE DEF s, e
  <2>4. Budget(ReadSpan(cache, s, e).cache)
    BY <2>3, ReadBudget
  <2> QED
    BY <2>1, <2>4 DEF s, e
<1>4. CASE \/ FetchCancelled(t) \/ Connect(t) \/ ReceiveChunk(t)
           \/ FetchError(t) \/ FetchShort(t) \/ FetchBreak(t)
           \/ GetSpan(t) \/ ScanHit(t) \/ ScanMiss(t) \/ Recheck(t) \/ Return(t)
           \/ Claim(t) \/ Join(t) \/ AcquireSlot(t) \/ ReleaseSlot(t) \/ Retire(t)
           \/ Wake(t) \/ Verify(t)
  <2>1. cache' = cache
    BY <1>4
    DEF FetchCancelled, Connect, ReceiveChunk, FetchError, FetchShort, FetchBreak, Local,
        GetSpan, AskFor, ScanHit, ScanMiss, Recheck, Return, Claim, Join, AcquireSlot,
        ReleaseSlot, Retire, Wake, Verify
  <2> QED
    BY <2>1
<1> QED
  BY <1>2, <1>3, <1>4 DEF Proceed, Inside, Fetch

LEMMA NextBudget ==
    TypeAndSlots /\ RunsPlaced /\ Budget(cache) /\ [FetcherNext]_fetcherVars
        => Budget(cache)'
<1> SUFFICES ASSUME FetcherTypeOK, RunsPlaced, Budget(cache), [FetcherNext]_fetcherVars
             PROVE  Budget(cache')
  BY DEF TypeAndSlots
<1>1. CASE \E t \in Threads : GetSpan(t) \/ Proceed(t)
  BY <1>1, BudgetStep
<1>2. CASE Clear
  BY <1>2, EmptyBudget DEF Clear
<1>3. CASE Stop \/ Quiescent \/ UNCHANGED fetcherVars
  <2>1. cache' = cache
    BY <1>3 DEF Stop, Quiescent, fetcherVars
  <2> QED
    BY <2>1
<1> QED
  BY <1>1, <1>2, <1>3 DEF FetcherNext

(* However many threads fetch and read at once, and whatever they evict of *)
(* each other: the counter that decides about eviction is what is held,    *)
(* within the capacity, and no buffer is complete. StorePiece and ReadSpan *)
(* are called here with the offsets the downloads really have.             *)
THEOREM AccountsKept == FetcherSpec => [](ResidentExact /\ PendingIncomplete)
<1>1. FetcherInit => TypeAndSlots /\ RunsPlaced /\ Budget(cache)
  BY InitTypeAndSlots, InitPlaced, EmptyBudget DEF FetcherInit, CacheInit
<1>2. TypeAndSlots /\ RunsPlaced /\ [FetcherNext]_fetcherVars
          => TypeAndSlots' /\ RunsPlaced'
  BY NextType, NextSlots, NextPlaced DEF TypeAndSlots
<1> QED
  BY <1>1, <1>2, NextBudget, BudgetExact, PTL DEF FetcherSpec

-----------------------------------------------------------------------------
(* Chunks of any length: which block a cell is in.                         *)

(* OwnCells, of any cache. *)
InBlocks(c) ==
    /\ \A i \in DOMAIN c.blocks : Belongs(i, c.blocks[i]) /\ Len(c.blocks[i]) >= BlockLimit(i)
    /\ \A i \in DOMAIN c.pending : Belongs(i, c.pending[i])

LEMMA CellsBelong ==
    ASSUME NEW p \in Nat, NEW n \in Nat, (p % BLOCK_SIZE) + n <= BLOCK_SIZE
    PROVE  Belongs(FirstBlock(p), Cells(p, n))
<1>1. Len(Cells(p, n)) = n
  BY CellsSeq
<1>2. ASSUME NEW k \in 1..n
      PROVE  FirstBlock(Cells(p, n)[k]) = FirstBlock(p)
  <2> DEFINE m == k - 1
             o == p % BLOCK_SIZE
  <2>1. o \in Nat /\ BLOCK_SIZE \in Nat
    BY Located
  <2>2. m \in Nat /\ o + m < BLOCK_SIZE /\ o + m <= BLOCK_SIZE /\ p + m = p + k - 1
    <3> HIDE DEF o
    <3>1. o + n <= BLOCK_SIZE
      BY DEF o
    <3> QED
      BY <2>1, <3>1
  <2>3. Cells(p, n)[k] = p + m
    BY <2>2 DEF Cells
  <2> HIDE DEF m
  <2>4. FirstBlock(p + m) = FirstBlock(p)
    BY <2>2, Advance DEF o
  <2> QED
    BY <2>3, <2>4
<1> QED
  BY <1>1, <1>2 DEF Belongs

LEMMA JoinBelongs ==
    ASSUME NEW i, NEW a \in Seq(Nat), NEW b \in Seq(Nat), Belongs(i, a), Belongs(i, b)
    PROVE  Belongs(i, a \o b)
<1>1. /\ Len(a) \in Nat /\ Len(b) \in Nat
      /\ Len(a \o b) = Len(a) + Len(b)
      /\ \A k \in 1..Len(a) : (a \o b)[k] = a[k]
      /\ \A k \in 1..Len(b) : (a \o b)[Len(a) + k] = b[k]
  BY Joined
<1>2. ASSUME NEW k \in 1..Len(a \o b)
      PROVE  FirstBlock((a \o b)[k]) = i
  <2>1. CASE k <= Len(a)
    <3>1. k \in 1..Len(a)
      BY <1>1, <2>1
    <3> QED
      BY <1>1, <3>1 DEF Belongs
  <2>2. CASE k > Len(a)
    <3> DEFINE m == k - Len(a)
    <3>1. m \in 1..Len(b) /\ Len(a) + m = k
      BY <1>1, <2>2
    <3> HIDE DEF m
    <3>2. (a \o b)[k] = b[m]
      BY <1>1, <3>1
    <3> QED
      BY <3>1, <3>2 DEF Belongs
  <2> QED
    BY <1>1, <2>1, <2>2
<1> QED
  BY <1>2 DEF Belongs

LEMMA FullBelongs ==
    ASSUME NEW i, NEW buf \in Seq(Nat), Len(buf) >= 1, Belongs(i, buf)
    PROVE  /\ FullBlock(buf) \in Seq(Nat) /\ Len(FullBlock(buf)) \in 1..BLOCK_SIZE
           /\ Belongs(i, FullBlock(buf))
           /\ Len(buf) <= BLOCK_SIZE => Len(FullBlock(buf)) = Len(buf)
           /\ Len(buf) > BLOCK_SIZE => Len(FullBlock(buf)) = BLOCK_SIZE
<1>1. FullBlock(buf) \in Seq(Nat) /\ Len(FullBlock(buf)) \in 1..BLOCK_SIZE
  BY FullBlockLength
<1>2. CASE Len(buf) > BLOCK_SIZE
  <2> DEFINE u == SubSeq(buf, 1, BLOCK_SIZE)
  <2>1. FullBlock(buf) = u
    BY <1>2 DEF FullBlock
  <2>2. /\ Len(u) = BLOCK_SIZE
        /\ \A k \in 1..BLOCK_SIZE : u[k] = buf[k] /\ k \in 1..Len(buf)
    BY <1>2, CacheAssumption
  <2> HIDE DEF u
  <2>3. Belongs(i, u)
    BY <2>2 DEF Belongs
  <2> QED
    BY <1>1, <1>2, <2>1, <2>2, <2>3, CacheAssumption
<1>3. CASE ~(Len(buf) > BLOCK_SIZE)
  BY <1>1, <1>3 DEF FullBlock
<1> QED
  BY <1>2, <1>3

(* A turn of store_bytes with cells that lie in one block. *)
LEMMA PieceInBlocks ==
    ASSUME NEW r, Kept(r), InBlocks(r.cache), NEW p \in Nat, NEW n \in Nat \ {0},
           (p % BLOCK_SIZE) + n <= BLOCK_SIZE
    PROVE  InBlocks(StorePiece(r, p, Cells(p, n)).cache)
<1> DEFINE c     == r.cache
           f     == FirstBlock(p)
           piece == Cells(p, n)
           buf   == Buffered(c, f, piece)
           q     == StorePiece(r, p, piece)
<1>1. f \in Nat
  BY FirstNat
<1>2. piece \in Seq(Nat) /\ Len(piece) >= 1 /\ Belongs(f, piece)
  BY CellsSeq, CellsBelong
<1> HIDE DEF piece
<1>3. buf \in Seq(Nat) /\ Len(buf) >= 1 /\ Belongs(f, buf)
  <2>1. CASE f \in DOMAIN c.pending
    <3> DEFINE before == c.pending[f]
    <3>1. before \in Seq(Nat) /\ buf = before \o piece /\ Belongs(f, before)
      BY <2>1 DEF Kept, Awaiting, Buffered, InBlocks
    <3> HIDE DEF before, buf, f
    <3>2. before \o piece \in Seq(Nat) /\ Len(before \o piece) >= 1
      BY <1>2, <3>1
    <3> QED
      BY <1>2, <3>1, <3>2, JoinBelongs
  <2>2. CASE f \notin DOMAIN c.pending
    <3>1. buf = <<>> \o piece
      BY <2>2 DEF Buffered
    <3> HIDE DEF buf
    <3>2. <<>> \o piece = piece
      BY <1>2
    <3> QED
      BY <1>2, <3>1, <3>2
  <2> QED
    BY <2>1, <2>2
<1> HIDE DEF f, buf
<1>4. CASE Len(buf) >= BlockLimit(f)
  <2> DEFINE block == FullBlock(buf)
             d     == Commit(c, f, block)
  <2>1. q = [cache |-> d, committed |-> r.committed + Len(block)]
    BY <1>4 DEF StorePiece, f, buf
  <2>2. Belongs(f, block) /\ Len(block) >= BlockLimit(f)
    <3>1. /\ Belongs(f, block) /\ Len(block) \in Nat
          /\ Len(buf) <= BLOCK_SIZE => Len(block) = Len(buf)
          /\ Len(buf) > BLOCK_SIZE => Len(block) = BLOCK_SIZE
      BY <1>3, FullBelongs
    <3>2. BlockLimit(f) \in Int /\ BlockLimit(f) <= BLOCK_SIZE
      BY <1>1, LimitInt
    <3> HIDE DEF block
    <3> QED
      BY <1>3, <1>4, <3>1, <3>2, CacheAssumption
  <2> HIDE DEF block
  <2>3. /\ d.blocks \in {c.blocks, Put(c.blocks, f, block)}
        /\ d.pending = Drop(c.pending, {f})
    BY DEF Commit
  <2> HIDE DEF d
  <2>4. InBlocks(d)
    BY <2>2, <2>3 DEF InBlocks, Put, Drop
  <2>5. InBlocks(q.cache)
    BY <2>1, <2>4
  <2> QED
    BY <2>5 DEF piece
<1>5. CASE ~(Len(buf) >= BlockLimit(f))
  <2>1. q = [r EXCEPT !.cache.pending = Put(@, f, buf)]
    BY <1>5 DEF StorePiece, f, buf
  <2> HIDE DEF q
  <2>2. q = [cache |-> [c EXCEPT !.pending = Put(@, f, buf)], committed |-> r.committed]
    BY <2>1 DEF Kept
  <2>3. q.cache.blocks = c.blocks /\ q.cache.pending = Put(c.pending, f, buf)
    BY <2>2 DEF Kept, Accounted
  <2>4. InBlocks(q.cache)
    BY <1>3, <2>3 DEF InBlocks, Put
  <2> QED
    BY <2>4 DEF q, piece
<1> QED
  BY <1>4, <1>5 DEF piece

LEMMA EvictInBlocks ==
    ASSUME NEW c, Accounted(c), InBlocks(c)
    PROVE  InBlocks(Evict(c))
<1>1. PICK n \in 0..Len(c.lru) :
         Evict(c) = [blocks   |-> Drop(c.blocks, Oldest(c, n)),
                     lru      |-> SubSeq(c.lru, n + 1, Len(c.lru)),
                     pending  |-> c.pending,
                     resident |-> ResidentWithout(c, n)]
  BY EvictFront
<1>2. Evict(c).blocks = Drop(c.blocks, Oldest(c, n)) /\ Evict(c).pending = c.pending
  BY <1>1
<1> QED
  BY <1>2 DEF InBlocks, Drop

(* store_bytes splits a chunk where its first block ends. *)
LEMMA StoreInBlocks ==
    ASSUME NEW c, Budget(c), InBlocks(c), NEW p \in Nat, NEW n \in 1..BLOCK_SIZE
    PROVE  InBlocks(StoreBytes(c, p, Cells(p, n)).cache)
<1> DEFINE data == Cells(p, n)
           r == [cache |-> c, committed |-> 0]
           o == p % BLOCK_SIZE
           k == Room(p)
<1>1. /\ n \in Nat \ {0} /\ n <= BLOCK_SIZE /\ BLOCK_SIZE \in Nat
      /\ o \in Nat /\ k \in Nat \ {0} /\ o + k = BLOCK_SIZE
  BY CacheAssumption, RoomBounds DEF Room
<1>2. data \in Seq(Nat) /\ Len(data) = n /\ Len(data) >= 1
  <2>1. n \in Nat /\ n >= 1
    BY <1>1
  <2> QED
    BY <2>1, CellsSeq
<1>3. ASSUME NEW q, Kept(q), InBlocks(q.cache)
      PROVE  InBlocks(Evict(q.cache))
  BY <1>3, EvictInBlocks DEF Kept
<1>4. r.cache = c
  OBVIOUS
<1> HIDE DEF data, o, k, r
<1>5. CASE n <= k
  <2> DEFINE q == StorePiece(r, p, data)
  <2>1. Kept(r) /\ Kept(q) /\ StoreBytes(c, p, data).cache = Evict(q.cache)
    BY <1>2, <1>5, StoreTurns DEF k, r
  <2>2. o + n <= BLOCK_SIZE
    BY <1>1, <1>5
  <2>3. InBlocks(q.cache)
    BY <1>1, <1>4, <2>1, <2>2, PieceInBlocks DEF o, data
  <2> HIDE DEF q
  <2> QED
    BY <1>3, <2>1, <2>3 DEF data
<1>6. CASE n > k
  <2> DEFINE p2 == p + k
             m  == n - k
             q1 == StorePiece(r, p, Cells(p, k))
             q2 == StorePiece(q1, p2, Cells(p2, m))
  <2>1. /\ m \in Nat \ {0} /\ m <= BLOCK_SIZE /\ p2 \in Nat
        /\ k <= n /\ k \in Nat /\ n \in Nat /\ o + k <= BLOCK_SIZE
    BY <1>1, <1>6
  <2>2. Part(data, 1, k) = Cells(p, k) /\ Part(data, k + 1, n) = Cells(p2, m)
    <3>1. /\ Part(Cells(p, n), 1, k) = Cells(p, k)
          /\ Part(Cells(p, n), k + 1, n) = Cells(p + k, n - k)
      BY <2>1, CellsCut
    <3> QED
      BY <3>1 DEF data
  <2>3. /\ Kept(r) /\ Kept(q1) /\ Kept(q2)
        /\ StoreBytes(c, p, data).cache = Evict(q2.cache)
    <3> HIDE DEF m
    <3>1. Len(data) > Room(p)
      BY <1>2, <1>6 DEF k
    <3> QED
      BY <1>2, <2>2, <3>1, StoreTurns DEF k, r
  <2>4. p2 % BLOCK_SIZE = 0
    <3>1. (p % BLOCK_SIZE) + k <= BLOCK_SIZE /\ (p % BLOCK_SIZE) + k = BLOCK_SIZE
      BY <1>1 DEF o
    <3> QED
      BY <2>1, <3>1, Advance
  <2>5. InBlocks(q1.cache)
    BY <1>1, <1>4, <2>1, <2>3, PieceInBlocks DEF o
  <2> HIDE DEF q1, p2, m
  <2>6. (p2 % BLOCK_SIZE) + m <= BLOCK_SIZE
    BY <2>1, <2>4
  <2>7. InBlocks(q2.cache)
    BY <2>1, <2>3, <2>5, <2>6, PieceInBlocks
  <2> HIDE DEF q2
  <2> QED
    BY <1>3, <2>3, <2>7 DEF data
<1> QED
  BY <1>1, <1>5, <1>6

LEMMA InBlocksStep ==
    ASSUME FetcherTypeOK, RunsPlaced, Budget(cache), InBlocks(cache), NEW t \in Threads,
           GetSpan(t) \/ Proceed(t)
    PROVE  InBlocks(cache')
<1>1. call[t] \in Calls /\ Placed(pc[t], call[t])
  BY DEF FetcherTypeOK, RunsPlaced
<1>2. CASE StoreChunk(t)
  <2>1. PICK m \in ChunkLens :
           LET n == Lesser(m, RunLimit(t) - call[t].pos)
           IN  cache' = StoreBytes(cache, call[t].pos, Cells(call[t].pos, n)).cache
    BY <1>2 DEF StoreChunk
  <2> DEFINE p == call[t].pos
             n == Lesser(m, RunLimit(t) - p)
  <2>2. /\ p \in Nat /\ RunLimit(t) \in Nat /\ p < RunLimit(t)
        /\ m \in 1..BLOCK_SIZE
    <3>1. RunLimit(t) = Limit(call[t])
      BY DEF RunLimit, Limit
    <3>2. p < Limit(call[t])
      BY <1>1, <1>2 DEF StoreChunk, Placed, InRun
    <3> QED
      BY <1>1, <3>1, <3>2, RunLimitNat, FetcherAssumption DEF Calls
  <2> HIDE DEF p
  <2>3. n \in 1..BLOCK_SIZE
    BY <2>2, CacheAssumption DEF Lesser
  <2> HIDE DEF n
  <2>4. InBlocks(StoreBytes(cache, p, Cells(p, n)).cache)
    BY <2>2, <2>3, StoreInBlocks
  <2> QED
    BY <2>1, <2>4 DEF n, p
<1>3. CASE ReadBack(t)
  <2>1. cache' = ReadSpan(cache, call[t].start, call[t].end).cache
    BY <1>3 DEF ReadBack
  <2>2. cache'.blocks = cache.blocks /\ cache'.pending = cache.pending
    BY <2>1 DEF ReadSpan, Budget, Accounted
  <2> QED
    BY <2>2 DEF InBlocks
<1>4. CASE \/ FetchCancelled(t) \/ Connect(t) \/ ReceiveChunk(t)
           \/ FetchError(t) \/ FetchShort(t) \/ FetchBreak(t)
           \/ GetSpan(t) \/ ScanHit(t) \/ ScanMiss(t) \/ Recheck(t) \/ Return(t)
           \/ Claim(t) \/ Join(t) \/ AcquireSlot(t) \/ ReleaseSlot(t) \/ Retire(t)
           \/ Wake(t) \/ Verify(t)
  <2>1. cache' = cache
    BY <1>4
    DEF FetchCancelled, Connect, ReceiveChunk, FetchError, FetchShort, FetchBreak, Local,
        GetSpan, AskFor, ScanHit, ScanMiss, Recheck, Return, Claim, Join, AcquireSlot,
        ReleaseSlot, Retire, Wake, Verify
  <2> QED
    BY <2>1
<1> QED
  BY <1>2, <1>3, <1>4 DEF Proceed, Inside, Fetch

LEMMA NextInBlocks ==
    FetcherTypeOK /\ RunsPlaced /\ Budget(cache) /\ InBlocks(cache)
        /\ [FetcherNext]_fetcherVars => InBlocks(cache)'
<1> SUFFICES ASSUME FetcherTypeOK, RunsPlaced, Budget(cache), InBlocks(cache),
                    [FetcherNext]_fetcherVars
             PROVE  InBlocks(cache')
  OBVIOUS
<1>1. CASE \E t \in Threads : GetSpan(t) \/ Proceed(t)
  BY <1>1, InBlocksStep
<1>2. CASE Clear
  BY <1>2 DEF Clear, InBlocks, EmptyCache, NoEntries
<1>3. CASE Stop \/ Quiescent \/ UNCHANGED fetcherVars
  <2>1. cache' = cache
    BY <1>3 DEF Stop, Quiescent, fetcherVars
  <2> QED
    BY <2>1
<1> QED
  BY <1>1, <1>2, <1>3 DEF FetcherNext

LEMMA InitInBlocks == FetcherInit => InBlocks(cache)
BY DEF FetcherInit, CacheInit, InBlocks, EmptyCache, NoEntries

LEMMA CellsInBlocks == FetcherSpec => [](TypeAndSlots /\ RunsPlaced /\ Budget(cache) /\ InBlocks(cache))
<1>1. FetcherInit => TypeAndSlots /\ RunsPlaced /\ Budget(cache) /\ InBlocks(cache)
  BY InitTypeAndSlots, InitPlaced, InitInBlocks, EmptyBudget DEF FetcherInit, CacheInit
<1>2. TypeAndSlots /\ RunsPlaced /\ [FetcherNext]_fetcherVars
          => TypeAndSlots' /\ RunsPlaced'
  BY NextType, NextSlots, NextPlaced DEF TypeAndSlots
<1>3. TypeAndSlots /\ RunsPlaced /\ Budget(cache) /\ InBlocks(cache)
          /\ [FetcherNext]_fetcherVars => InBlocks(cache)'
  BY NextInBlocks DEF TypeAndSlots
<1> QED
  BY <1>1, <1>2, <1>3, NextBudget, PTL DEF FetcherSpec

(* Whatever the threads, the lengths of the chunks, the faults and the     *)
(* overlaps of the downloads: a byte of one block is never gathered in or  *)
(* held as another (store_bytes).                                          *)
THEOREM BytesInPlace == FetcherSpec => []OwnCells
<1>1. InBlocks(cache) => OwnCells
  BY DEF InBlocks, OwnCells
<1> QED
  BY <1>1, CellsInBlocks, PTL

-----------------------------------------------------------------------------
(* Blocks that are as long as they have to be, one after the other.        *)

(* Block first + k - 1 is s[k]; only the last one may be short. *)
Row(s, first, n) ==
    \A k \in 1..n : /\ s[k] \in Seq(Nat)
                    /\ Len(s[k]) \in 1..BLOCK_SIZE
                    /\ k < n => Len(s[k]) = BLOCK_SIZE
                    /\ Belongs(first + k - 1, s[k])

(* The first i of them joined, cell by cell. *)
Chain(s, i) ==
    [k \in 1..((i - 1) * BLOCK_SIZE + Len(s[i])) |->
        s[FirstBlock(k - 1) + 1][((k - 1) % BLOCK_SIZE) + 1]]

(* Cell k of the chain is in which block, and where. *)
LEMMA ChainPlaces ==
    ASSUME NEW n \in Nat, NEW s, NEW first \in Nat, Row(s, first, n),
           NEW i \in 1..n, NEW k \in 1..((i - 1) * BLOCK_SIZE + Len(s[i]))
    PROVE  LET m == FirstBlock(k - 1)
               r == (k - 1) % BLOCK_SIZE
           IN  /\ m \in Nat /\ m + 1 \in 1..i
               /\ r + 1 \in 1..Len(s[m + 1])
               /\ Chain(s, i)[k] = s[m + 1][r + 1]
<1> DEFINE j == k - 1
           m == FirstBlock(j)
           r == j % BLOCK_SIZE
           b == (i - 1) * BLOCK_SIZE
           l == Len(s[i])
<1>1. l \in 1..BLOCK_SIZE /\ l \in Nat /\ b \in Nat /\ i * BLOCK_SIZE = b + BLOCK_SIZE
      /\ BLOCK_SIZE \in Nat /\ i - 1 \in Nat
  BY CacheAssumption DEF Row
<1>2. j \in Nat /\ j < b + l /\ k = j + 1
  <2> HIDE DEF b, l
  <2>1. k \in 1..(b + l)
    BY DEF b, l
  <2> QED
    BY <1>1, <2>1
<1> HIDE DEF j
<1>3. /\ m \in Nat /\ r \in 0..(BLOCK_SIZE - 1) /\ m * BLOCK_SIZE \in Nat
      /\ j = m * BLOCK_SIZE + r
  BY <1>2, Located
<1>4. m + 1 \in 1..i
  <2>1. ASSUME i <= m PROVE FALSE
    <3> HIDE DEF b, l, m, r
    <3>1. i * BLOCK_SIZE <= m * BLOCK_SIZE
      <4>1. i \in Nat /\ m \in Nat /\ BLOCK_SIZE \in Nat
        BY <1>1, <1>3
      <4> QED
        BY <2>1, <4>1, MultiplesOrdered
    <3> QED
      BY <1>1, <1>2, <1>3, <3>1
  <2> HIDE DEF m
  <2> QED
    BY <1>3, <2>1
<1>5. r + 1 \in 1..Len(s[m + 1])
  <2>1. CASE m + 1 = i
    <3>1. m * BLOCK_SIZE = b /\ Len(s[m + 1]) = l
      <4>1. m = i - 1
        BY <1>3, <2>1
      <4> QED
        BY <2>1, <4>1
    <3> HIDE DEF m, r, b, l
    <3> QED
      BY <1>1, <1>2, <1>3, <3>1
  <2>2. CASE m + 1 # i
    <3>1. m + 1 \in 1..n /\ m + 1 < n
      <4> HIDE DEF m
      <4> QED
        BY <1>3, <1>4, <2>2
    <3>2. Len(s[m + 1]) = BLOCK_SIZE
      BY <3>1 DEF Row
    <3> HIDE DEF m, r
    <3> QED
      BY <1>1, <1>3, <3>2
  <2> QED
    BY <2>1, <2>2
<1>6. Chain(s, i)[k] = s[m + 1][r + 1]
  BY <1>2 DEF Chain, j
<1> QED
  BY <1>3, <1>4, <1>5, <1>6 DEF j

LEMMA ChainSeq ==
    ASSUME NEW n \in Nat, NEW s, NEW first \in Nat, Row(s, first, n), NEW i \in 1..n
    PROVE  /\ Chain(s, i) \in Seq(Nat)
           /\ Len(Chain(s, i)) = (i - 1) * BLOCK_SIZE + Len(s[i])
           /\ \A k \in 1..Len(Chain(s, i)) :
                  FirstBlock(Chain(s, i)[k]) = first + FirstBlock(k - 1)
<1> DEFINE l == (i - 1) * BLOCK_SIZE + Len(s[i])
           q == Chain(s, i)
<1>1. l \in Nat
  <2>1. i - 1 \in Nat /\ Len(s[i]) \in Nat
    BY DEF Row
  <2>2. (i - 1) * BLOCK_SIZE \in Nat
    BY <2>1, CacheAssumption
  <2> QED
    BY <2>1, <2>2
<1>2. ASSUME NEW k \in 1..l
      PROVE  q[k] \in Nat /\ FirstBlock(q[k]) = first + FirstBlock(k - 1)
  <2> DEFINE m == FirstBlock(k - 1)
             r == (k - 1) % BLOCK_SIZE
  <2>1. /\ m \in Nat /\ m + 1 \in 1..i
        /\ r + 1 \in 1..Len(s[m + 1])
        /\ q[k] = s[m + 1][r + 1]
    BY ChainPlaces
  <2> HIDE DEF m, r, q
  <2>2. m + 1 \in 1..n /\ first + (m + 1) - 1 = first + m
    BY <2>1
  <2>3. s[m + 1] \in Seq(Nat) /\ Belongs(first + (m + 1) - 1, s[m + 1])
    BY <2>2 DEF Row
  <2>4. s[m + 1][r + 1] \in Nat
    <3> DEFINE v == s[m + 1]
               x == r + 1
    <3>1. v \in Seq(Nat) /\ x \in 1..Len(v)
      BY <2>1, <2>3
    <3> HIDE DEF v, x
    <3>2. v[x] \in Nat
      BY <3>1
    <3> QED
      BY <3>2 DEF v, x
  <2> QED
    BY <2>1, <2>2, <2>3, <2>4 DEF Belongs, m
<1>3. q = [k \in 1..l |-> q[k]]
  BY DEF Chain
<1> HIDE DEF l, q
<1>4. q \in [1..l -> Nat]
  BY <1>2, <1>3
<1>5. q \in Seq(Nat) /\ Len(q) = l
  BY <1>1, <1>4, FunctionSeq
<1> QED
  BY <1>2, <1>5 DEF l, q

(* One block more. *)
LEMMA ChainGrows ==
    ASSUME NEW n \in Nat, NEW s, NEW first \in Nat, Row(s, first, n), NEW i \in 2..n
    PROVE  Chain(s, i - 1) \o s[i] = Chain(s, i)
<1> DEFINE a == Chain(s, i - 1)
           c == Chain(s, i)
           b == (i - 1) * BLOCK_SIZE
           j == a \o s[i]
<1>1. i \in 1..n /\ i - 1 \in 1..n /\ i - 1 < n /\ i - 1 \in Nat
  OBVIOUS
<1>2. s[i] \in Seq(Nat) /\ Len(s[i]) \in 1..BLOCK_SIZE /\ Len(s[i - 1]) = BLOCK_SIZE
  BY <1>1 DEF Row
<1>3. a \in Seq(Nat) /\ Len(a) = b /\ b \in Nat
  <2>1. a \in Seq(Nat) /\ Len(a) = ((i - 1) - 1) * BLOCK_SIZE + Len(s[i - 1])
    BY <1>1, ChainSeq
  <2>2. ((i - 1) - 1) * BLOCK_SIZE + BLOCK_SIZE = b /\ b \in Nat
    BY <1>1, CacheAssumption
  <2> QED
    BY <1>2, <2>1, <2>2
<1>4. c \in Seq(Nat) /\ Len(c) = b + Len(s[i])
  BY <1>1, ChainSeq
<1> HIDE DEF a, c
<1>5. /\ j \in Seq(Nat) /\ Len(j) = b + Len(s[i])
      /\ \A k \in 1..b : j[k] = a[k]
      /\ \A k \in 1..Len(s[i]) : j[b + k] = s[i][k]
  <2> DEFINE v == s[i]
  <2>1. v \in Seq(Nat) /\ a \in Seq(Nat)
    BY <1>2, <1>3
  <2> HIDE DEF v
  <2>2. /\ a \o v \in Seq(Nat) /\ Len(a \o v) = Len(a) + Len(v)
        /\ \A k \in 1..Len(a) : (a \o v)[k] = a[k]
        /\ \A k \in 1..Len(v) : (a \o v)[Len(a) + k] = v[k]
    BY <2>1, Joined
  <2>3. j = a \o v /\ Len(a) = b
    BY <1>3 DEF v
  <2> HIDE DEF b, j
  <2> QED
    BY <2>2, <2>3 DEF v
<1> HIDE DEF j
<1>6. ASSUME NEW k \in 1..Len(j)
      PROVE  j[k] = c[k]
  <2> DEFINE m == FirstBlock(k - 1)
             r == (k - 1) % BLOCK_SIZE
  <2>1. k \in 1..(b + Len(s[i]))
    BY <1>5
  <2>2. c[k] = s[m + 1][r + 1]
    BY <1>1, <2>1, ChainPlaces DEF c
  <2>3. CASE k <= b
    <3>1. k \in 1..b
      BY <1>3, <2>1, <2>3
    <3>2. k \in 1..(((i - 1) - 1) * BLOCK_SIZE + Len(s[i - 1]))
      <4>1. ((i - 1) - 1) * BLOCK_SIZE + BLOCK_SIZE = b
        BY <1>1, CacheAssumption
      <4> QED
        BY <1>2, <3>1, <4>1
    <3>3. a[k] = s[m + 1][r + 1]
      BY <1>1, <3>2, ChainPlaces DEF a
    <3> QED
      BY <1>5, <2>2, <3>1, <3>3
  <2>4. CASE k > b
    <3> DEFINE h == k - b
               g == h - 1
               e == i - 1
    <3>1. h \in 1..Len(s[i]) /\ b + h = k
      <4> HIDE DEF b
      <4> QED
        BY <1>2, <1>3, <2>1, <2>4
    <3>2. g \in Nat /\ g < BLOCK_SIZE /\ g + 1 = h /\ e \in Nat /\ e + 1 = i
      <4> HIDE DEF h
      <4> QED
        BY <1>1, <1>2, <3>1, CacheAssumption
    <3>3. k - 1 = BLOCK_SIZE * e + g
      <4>1. b = BLOCK_SIZE * e
        BY <1>1, CacheAssumption
      <4> HIDE DEF b, e, h
      <4>2. k - 1 = b + h - 1 /\ h \in Nat /\ b \in Nat
        BY <1>2, <1>3, <3>1
      <4> QED
        BY <4>1, <4>2
    <3> HIDE DEF g, e, h
    <3>4. FirstBlock(BLOCK_SIZE * e + g) = e /\ (BLOCK_SIZE * e + g) % BLOCK_SIZE = g
      BY <3>2, PositionIn
    <3>5. m + 1 = i /\ r + 1 = h
      BY <3>2, <3>3, <3>4
    <3>6. j[b + h] = s[i][h]
      BY <1>5, <3>1
    <3> QED
      BY <2>2, <3>1, <3>5, <3>6
  <2> HIDE DEF b
  <2> QED
    BY <1>3, <2>1, <2>3, <2>4
<1>7. j = c
  BY <1>4, <1>5, <1>6, SameSeq
<1> QED
  BY <1>7 DEF j, a, c

LEMMA ChainShape ==
    ASSUME NEW n \in Nat, NEW s, NEW first \in Nat, Row(s, first, n), NEW i \in 1..n
    PROVE  Chain(s, i) \in Seq(Nat) /\ Len(Chain(s, i)) = (i - 1) * BLOCK_SIZE + Len(s[i])
<1> USE ChainSeq
<1>1. Chain(s, i) \in Seq(Nat)
  OBVIOUS
<1>2. Len(Chain(s, i)) = (i - 1) * BLOCK_SIZE + Len(s[i])
  OBVIOUS
<1> QED
  BY <1>1, <1>2

(* FlattenSeq joins them to the chain. *)
LEMMA RowJoined ==
    ASSUME NEW n \in Nat, n >= 1, NEW s, NEW first \in Nat, Row(s, first, n),
           s = [k \in 1..n |-> s[k]]
    PROVE  FlattenSeq(s) = Chain(s, n)
<1> DEFINE Right(f) == f = [i \in 1..n |-> IF i = 1 THEN s[i] ELSE f[i - 1] \o s[i]]
           whole(i) == Chain(s, i)
           g == [i \in 1..n |-> whole(i)]
<1>1. Len(s) = n
  <2>1. \A k \in 1..n : s[k] \in Seq(Nat)
    BY DEF Row
  <2> DEFINE V == Seq(Nat)
  <2>2. s \in [1..n -> V]
    BY <2>1
  <2> HIDE DEF V
  <2> QED
    BY <2>2, FunctionSeq
<1>2. s[1] = whole(1)
  <2>1. 1 \in 1..n
    OBVIOUS
  <2>2. s[1] \in Seq(Nat) /\ Len(s[1]) \in 1..BLOCK_SIZE
    BY <2>1 DEF Row
  <2>3. whole(1) \in Seq(Nat) /\ Len(whole(1)) = Len(s[1])
    <3>1. whole(1) \in Seq(Nat) /\ Len(whole(1)) = (1 - 1) * BLOCK_SIZE + Len(s[1])
      BY <2>1, ChainShape
    <3>2. (1 - 1) * BLOCK_SIZE = 0
      BY CacheAssumption
    <3> HIDE DEF whole
    <3> QED
      BY <2>2, <3>1, <3>2
  <2>4. ASSUME NEW k \in 1..Len(s[1])
        PROVE  s[1][k] = whole(1)[k]
    <3> DEFINE j == k - 1
    <3>1. k \in 1..((1 - 1) * BLOCK_SIZE + Len(s[1]))
      <4>1. (1 - 1) * BLOCK_SIZE = 0
        BY CacheAssumption
      <4> QED
        BY <2>2, <4>1
    <3>2. whole(1)[k] = s[FirstBlock(k - 1) + 1][((k - 1) % BLOCK_SIZE) + 1]
      BY <3>1 DEF Chain
    <3>3. j \in Nat /\ j < BLOCK_SIZE /\ j + 1 = k /\ BLOCK_SIZE * 0 + j = j /\ 0 \in Nat
      BY <2>2, CacheAssumption
    <3> HIDE DEF j
    <3>4. FirstBlock(BLOCK_SIZE * 0 + j) = 0 /\ (BLOCK_SIZE * 0 + j) % BLOCK_SIZE = j
      BY <3>3, PositionIn
    <3>5. FirstBlock(j) + 1 = 1 /\ (j % BLOCK_SIZE) + 1 = k
      BY <3>3, <3>4
    <3> QED
      BY <3>2, <3>5 DEF j
  <2> HIDE DEF whole
  <2> QED
    BY <2>2, <2>3, <2>4, SameSeq
<1>3. \A i \in 2..n : whole(i - 1) \o s[i] = whole(i)
  BY ChainGrows
<1> HIDE DEF whole
<1>4. Right(g)
  <2> DEFINE e(i) == IF i = 1 THEN s[i] ELSE g[i - 1] \o s[i]
  <2>1. ASSUME NEW i \in 1..n PROVE g[i] = e(i)
    <3>1. CASE i = 1
      BY <1>2, <3>1
    <3>2. CASE i # 1
      <4>1. i \in 2..n /\ i - 1 \in 1..n
        BY <3>2
      <4>2. g[i] = whole(i) /\ g[i - 1] = whole(i - 1)
        BY <4>1
      <4> QED
        BY <1>3, <3>2, <4>1, <4>2
    <3> QED
      BY <3>1, <3>2
  <2>2. g = [i \in 1..n |-> g[i]]
    OBVIOUS
  <2> HIDE DEF g, e
  <2>3. g = [i \in 1..n |-> e(i)]
    BY <2>1, <2>2
  <2> QED
    BY <2>3 DEF e
<1> DEFINE f == CHOOSE h : Right(h)
<1>5. Right(f)
  <2> HIDE DEF Right, g
  <2> QED
    BY <1>4
<1>6. FlattenSeq(s) = f[n]
  BY <1>1 DEF FlattenSeq
<1> HIDE DEF f
<1>7. f[1] = s[1] /\ \A i \in 2..n : f[i] = f[i - 1] \o s[i]
  <2> DEFINE e(i) == IF i = 1 THEN s[i] ELSE f[i - 1] \o s[i]
  <2>1. f = [i \in 1..n |-> e(i)]
    BY <1>5
  <2> HIDE DEF e
  <2>2. \A i \in 1..n : f[i] = e(i)
    BY <2>1
  <2>3. 1 \in 1..n /\ \A i \in 2..n : i \in 1..n /\ i # 1
    OBVIOUS
  <2> QED
    BY <2>2, <2>3 DEF e
<1> HIDE DEF Right, g
<1>8. \A i \in Nat : i + 1 <= n => f[i + 1] = whole(i + 1)
  <2> DEFINE X == {i \in Nat : i + 1 <= n => f[i + 1] = whole(i + 1)}
  <2>1. 0 \in X
    BY <1>2, <1>7
  <2>2. ASSUME NEW i \in X PROVE i + 1 \in X
    <3> SUFFICES ASSUME (i + 1) + 1 <= n PROVE f[(i + 1) + 1] = whole((i + 1) + 1)
      OBVIOUS
    <3> DEFINE k == (i + 1) + 1
    <3>1. i \in Nat /\ i + 1 <= n /\ k \in 2..n /\ k - 1 = i + 1
      OBVIOUS
    <3>2. f[i + 1] = whole(i + 1)
      BY <3>1
    <3> HIDE DEF k
    <3>3. f[k] = whole(k)
      BY <1>3, <1>7, <3>1, <3>2
    <3> QED
      BY <3>3 DEF k
  <2> HIDE DEF X
  <2>3. X = Nat
    <3>1. X \subseteq Nat
      BY DEF X
    <3> QED
      BY <2>1, <2>2, <3>1, Induct
  <2> QED
    BY <2>3 DEF X
<1>9. f[n] = whole(n)
  <2> DEFINE m == n - 1
  <2>1. m \in Nat /\ m + 1 = n /\ m + 1 <= n
    OBVIOUS
  <2> HIDE DEF m
  <2>2. f[m + 1] = whole(m + 1)
    BY <1>8, <2>1
  <2> QED
    BY <2>1, <2>2
<1> QED
  BY <1>6, <1>9 DEF whole

(* A span's worth of cells, each from the block it stands in. *)
Fits(d, start, end) ==
    /\ Len(d) = end - start
    /\ \A k \in 1..Len(d) : FirstBlock(d[k]) = FirstBlock(start + k - 1)

(* What SubSeq leaves of a sequence. *)
LEMMA CutFrom ==
    ASSUME NEW s \in Seq(Nat), NEW cut \in Nat, NEW m \in Nat, cut + m <= Len(s)
    PROVE  /\ Len(Part(s, cut + 1, cut + m)) = m
           /\ \A k \in 1..m : /\ Part(s, cut + 1, cut + m)[k] = s[cut + k]
                               /\ cut + k \in 1..Len(s)
<1>1. cut + 1 \in Nat /\ cut + m \in Nat /\ 1 <= cut + 1 /\ cut + 1 <= cut + m + 1
  OBVIOUS
<1>2. \A k \in Int : cut + 1 + k - 1 = cut + k
  OBVIOUS
<1> QED
  BY <1>1, <1>2 DEF Part

LEMMA SpanFits ==
    ASSUME NEW c, Budget(c), InBlocks(c), NEW start \in Nat, NEW end \in Nat,
           start < end, end <= FileSize
    PROVE  LET d == ReadSpan(c, start, end).data IN d = None \/ Fits(d, start, end)
<1> DEFINE first  == FirstBlock(start)
           last   == LastBlock(start, end)
           n      == last - first + 1
           s      == [k \in 1..n |-> c.blocks[first + k - 1]]
           joined == FlattenSeq(s)
           base   == first * BLOCK_SIZE
           cut    == start - base
           size   == (n - 1) * BLOCK_SIZE + Len(s[n])
<1>1. /\ first \in Nat /\ last \in Nat /\ first <= last
      /\ base \in Nat /\ base <= start
      /\ last * BLOCK_SIZE < FileSize
      /\ end <= last * BLOCK_SIZE + BLOCK_SIZE
      /\ last * BLOCK_SIZE \in Nat
  <2>1. end - 1 \in Nat /\ start <= end - 1
    OBVIOUS
  <2>2. first \in Nat /\ last \in Nat /\ first <= last
    BY <2>1, CacheAssumption DEF FirstBlock, LastBlock
  <2>3. (start \div BLOCK_SIZE) * BLOCK_SIZE <= start
    BY DivisionBounds, CacheAssumption
  <2>4. /\ ((end - 1) \div BLOCK_SIZE) * BLOCK_SIZE <= end - 1
        /\ end - 1 < ((end - 1) \div BLOCK_SIZE + 1) * BLOCK_SIZE
    BY <2>1, DivisionBounds, CacheAssumption
  <2>5. base \in Nat /\ last * BLOCK_SIZE \in Nat
    <3> HIDE DEF first, last
    <3> QED
      BY <2>2, CacheAssumption
  <2>6. /\ base <= start
        /\ last * BLOCK_SIZE <= end - 1
        /\ end - 1 < (last + 1) * BLOCK_SIZE
    BY <2>3, <2>4 DEF FirstBlock, LastBlock
  <2> HIDE DEF first, last
  <2>7. (last + 1) * BLOCK_SIZE = last * BLOCK_SIZE + BLOCK_SIZE
    BY <2>2, CacheAssumption
  <2> QED
    BY <2>2, <2>5, <2>6, <2>7, CacheAssumption
<1>2. ReadSpan(c, start, end).data
          = IF {i \in first..last : ~HasBlock(c, i)} # {} THEN None
            ELSE SubSeq(joined, cut + 1, Min({cut + end - start, Len(joined)}))
  BY DEF ReadSpan
<1> HIDE DEF first, last
<1>3. n \in Nat /\ n >= 1 /\ first + n - 1 = last /\ n - 1 = last - first
  BY <1>1
<1>4. CASE {i \in first..last : ~HasBlock(c, i)} # {}
  BY <1>2, <1>4
<1>5. CASE {i \in first..last : ~HasBlock(c, i)} = {}
  <2>1. \A i \in first..last : i \in DOMAIN c.blocks
    BY <1>5 DEF HasBlock
  <2>2. ASSUME NEW i \in first..last
        PROVE  /\ c.blocks[i] \in Seq(Nat) /\ Len(c.blocks[i]) \in 1..BLOCK_SIZE
               /\ Len(c.blocks[i]) >= BlockLimit(i) /\ Belongs(i, c.blocks[i])
    BY <2>1 DEF Budget, Accounted, Blocks, InBlocks
  <2>3. ASSUME NEW i \in first..last, i < last
        PROVE  BlockLimit(i) = BLOCK_SIZE
    <3>1. i \in Nat /\ i + 1 \in Nat /\ i + 1 <= last
      BY <1>1, <2>3
    <3>2. (i + 1) * BLOCK_SIZE <= last * BLOCK_SIZE
      BY <1>1, <3>1, MultiplesOrdered, CacheAssumption
    <3>3. (i + 1) * BLOCK_SIZE = i * BLOCK_SIZE + BLOCK_SIZE /\ i * BLOCK_SIZE \in Nat
      BY <3>1, CacheAssumption
    <3> QED
      BY <1>1, <3>2, <3>3, FetcherAssumption, CacheAssumption DEF BlockLimit
  <2>4. Len(c.blocks[last]) >= BLOCK_SIZE \/ Len(c.blocks[last]) >= FileSize - last * BLOCK_SIZE
    <3>1. last \in first..last
      BY <1>1
    <3>2. BlockLimit(last) \in {BLOCK_SIZE, FileSize - last * BLOCK_SIZE}
      BY FetcherAssumption DEF BlockLimit
    <3> QED
      BY <2>2, <3>1, <3>2
  <2>5. Row(s, first, n)
    <3> SUFFICES ASSUME NEW k \in 1..n
                 PROVE  /\ s[k] \in Seq(Nat) /\ Len(s[k]) \in 1..BLOCK_SIZE
                        /\ k < n => Len(s[k]) = BLOCK_SIZE
                        /\ Belongs(first + k - 1, s[k])
      BY DEF Row
    <3> DEFINE i == first + k - 1
    <3>1. i \in first..last /\ (k < n => i < last)
      BY <1>1, <1>3
    <3>2. s[k] = c.blocks[i]
      OBVIOUS
    <3> HIDE DEF i, s
    <3>3. /\ s[k] \in Seq(Nat) /\ Len(s[k]) \in 1..BLOCK_SIZE
          /\ Len(s[k]) >= BlockLimit(i) /\ Belongs(i, s[k])
      BY <2>2, <3>1, <3>2
    <3>4. k < n => Len(s[k]) = BLOCK_SIZE
      BY <2>3, <3>1, <3>3, CacheAssumption
    <3> QED
      BY <3>3, <3>4 DEF i
  <2>6. s = [k \in 1..n |-> s[k]] /\ s[n] = c.blocks[last]
    BY <1>3
  <2> HIDE DEF n, s
  <2>7. joined = Chain(s, n)
    BY <1>1, <1>3, <2>5, <2>6, RowJoined
  <2>8. /\ joined \in Seq(Nat) /\ Len(joined) = size
        /\ \A k \in 1..size : FirstBlock(joined[k]) = first + FirstBlock(k - 1)
    <3>1. n \in 1..n
      BY <1>3
    <3> QED
      BY <1>1, <1>3, <2>5, <2>7, <3>1, ChainSeq
  <2> HIDE DEF joined
  <2>9. size \in Nat /\ end - base <= size
    <3> DEFINE l == Len(s[n])
    <3>1. l \in 1..BLOCK_SIZE /\ (l >= BLOCK_SIZE \/ l >= FileSize - last * BLOCK_SIZE)
      <4>1. last \in first..last
        BY <1>1
      <4> QED
        BY <2>2, <2>4, <2>6, <4>1
    <3>2. (n - 1) * BLOCK_SIZE = last * BLOCK_SIZE - base
      BY <1>1, <1>3, CacheAssumption
    <3> HIDE DEF l, base
    <3>3. size = last * BLOCK_SIZE - base + l
      BY <3>2 DEF l
    <3>4. base <= last * BLOCK_SIZE
      BY <1>1, MultiplesOrdered, CacheAssumption DEF base
    <3> HIDE DEF size
    <3> QED
      BY <1>1, <3>1, <3>3, <3>4, CacheAssumption
  <2> HIDE DEF size, base
  <2>10. /\ cut \in Nat /\ cut + end - start = end - base /\ cut <= end - base
         /\ end - base \in Nat /\ base + cut = start
    BY <1>1
  <2>11. Min({cut + end - start, Len(joined)}) = end - base
    <3> DEFINE p == cut + end - start
               q == Len(joined)
               S == {p, q}
    <3>1. p \in Nat /\ q \in Nat /\ p <= q /\ p = end - base
      BY <2>8, <2>9, <2>10
    <3> HIDE DEF p, q
    <3>2. S \subseteq Nat /\ S # {}
      BY <3>1
    <3> HIDE DEF S
    <3>3. Min(S) \in S /\ \A x \in S : Min(S) <= x
      BY <3>2, MinIs
    <3>4. Min(S) = p
      BY <3>1, <3>3 DEF S
    <3> QED
      BY <3>1, <3>4 DEF S, p, q
  <2> DEFINE d == ReadSpan(c, start, end).data
             m == end - start
  <2>12. d = Part(joined, cut + 1, end - base)
    BY <1>2, <1>5, <2>11 DEF Part
  <2>13. m \in Nat /\ end - base = cut + m /\ cut + m <= size
    BY <2>9, <2>10
  <2> HIDE DEF d, m, cut
  <2>14. /\ Len(d) = m
         /\ \A k \in 1..m : d[k] = joined[cut + k] /\ cut + k \in 1..size
    <3>1. d = Part(joined, cut + 1, cut + m)
      BY <2>12, <2>13
    <3> QED
      BY <2>8, <2>10, <2>13, <3>1, CutFrom
  <2>15. ASSUME NEW k \in 1..m
         PROVE  FirstBlock(d[k]) = FirstBlock(start + k - 1)
    <3> DEFINE z == cut + k - 1
               e == FirstBlock(z)
               r == z % BLOCK_SIZE
    <3>1. z \in Nat /\ z = (cut + k) - 1 /\ base + z = start + k - 1
      BY <1>1, <2>10, <2>13
    <3>2. FirstBlock(d[k]) = first + e
      <4>1. FirstBlock(joined[cut + k]) = first + FirstBlock((cut + k) - 1)
        BY <2>8, <2>14
      <4> QED
        BY <2>14, <3>1, <4>1
    <3> HIDE DEF z
    <3>3. e \in Nat /\ r \in 0..(BLOCK_SIZE - 1) /\ z = e * BLOCK_SIZE + r
      BY <3>1, Located
    <3> HIDE DEF e, r
    <3>4. first + e \in Nat /\ r \in Nat /\ r < BLOCK_SIZE
      BY <1>1, <3>3, CacheAssumption
    <3>5. base + z = BLOCK_SIZE * (first + e) + r
      BY <1>1, <3>3, CacheAssumption DEF base
    <3>6. FirstBlock(BLOCK_SIZE * (first + e) + r) = first + e
      BY <3>4, PositionIn
    <3> QED
      BY <3>1, <3>2, <3>5, <3>6
  <2>16. Fits(d, start, end)
    BY <2>14, <2>15 DEF Fits, m
  <2> QED
    BY <2>16 DEF d
<1> QED
  BY <1>4, <1>5

FramedAnswer(label, c, a) ==
    a # None => label = "returned" /\ Fits(a, c.start, c.end)

FramedAnswers ==
    /\ answer = [t \in Threads |-> answer[t]]
    /\ \A t \in Threads : FramedAnswer(pc[t], call[t], answer[t])

LEMMA FramedStep ==
    ASSUME FetcherTypeOK, RunsPlaced, Budget(cache), InBlocks(cache), FramedAnswers,
           NEW t \in Threads, GetSpan(t) \/ Proceed(t)
    PROVE  /\ FramedAnswer(pc'[t], call'[t], answer'[t])
           /\ answer' = [answer EXCEPT ![t] = answer'[t]]
<1>1. /\ pc \in [Threads -> Labels]
      /\ call \in [Threads -> Calls]
      /\ call[t] \in Calls
      /\ Placed(pc[t], call[t])
      /\ FramedAnswer(pc[t], call[t], answer[t])
      /\ answer = [u \in Threads |-> answer[u]]
  BY DEF FetcherTypeOK, RunsPlaced, FramedAnswers
<1>2. CASE ReadBack(t)
  <2> DEFINE s == call[t].start
             e == call[t].end
             d == ReadSpan(cache, s, e).data
  <2>1. /\ pc'[t] = "returned" /\ call' = call
        /\ answer' = [answer EXCEPT ![t] = d]
    BY <1>1, <1>2 DEF ReadBack, Goto
  <2>2. s \in Nat /\ e \in Nat /\ s < e /\ e <= FileSize
    BY <1>1, <1>2 DEF ReadBack, Placed, InSpan, Calls
  <2>3. d = None \/ Fits(d, s, e)
    <3> HIDE DEF s, e
    <3> QED
      BY <2>2, SpanFits
  <2> HIDE DEF d
  <2>4. FramedAnswer("returned", call[t], d)
    BY <2>3 DEF FramedAnswer
  <2>5. answer'[t] = d
    BY <1>1, <2>1
  <2> QED
    BY <2>1, <2>4, <2>5
<1>3. CASE Return(t)
  BY <1>1, <1>3 DEF Return, FramedAnswer
<1>4. CASE \/ FetchCancelled(t) \/ Connect(t) \/ ReceiveChunk(t) \/ StoreChunk(t)
           \/ FetchError(t) \/ FetchShort(t) \/ FetchBreak(t)
           \/ GetSpan(t) \/ ScanHit(t) \/ ScanMiss(t) \/ Recheck(t)
           \/ Claim(t) \/ Join(t) \/ AcquireSlot(t) \/ ReleaseSlot(t) \/ Retire(t)
           \/ Wake(t) \/ Verify(t)
  <2>1. answer' = answer /\ pc[t] # "returned"
    BY <1>4
    DEF FetchCancelled, Connect, ReceiveChunk, StoreChunk, FetchError, FetchShort,
        FetchBreak, Local, GetSpan, AskFor, ScanHit, ScanMiss, Recheck, Claim, Join,
        AcquireSlot, ReleaseSlot, Retire, Wake, Verify
  <2>2. answer[t] = None
    BY <1>1, <2>1 DEF FramedAnswer
  <2>3. answer = [answer EXCEPT ![t] = answer[t]]
    BY <1>1
  <2> QED
    BY <2>1, <2>2, <2>3 DEF FramedAnswer
<1> QED
  BY <1>2, <1>3, <1>4 DEF Proceed, Inside, Fetch

LEMMA NextFramed ==
    FetcherTypeOK /\ RunsPlaced /\ Budget(cache) /\ InBlocks(cache) /\ FramedAnswers
        /\ [FetcherNext]_fetcherVars => FramedAnswers'
<1> SUFFICES ASSUME FetcherTypeOK, RunsPlaced, Budget(cache), InBlocks(cache),
                    FramedAnswers, [FetcherNext]_fetcherVars
             PROVE  FramedAnswers'
  OBVIOUS
<1>1. ASSUME NEW t \in Threads, GetSpan(t) \/ Proceed(t)
      PROVE  FramedAnswers'
  <2>1. /\ FramedAnswer(pc'[t], call'[t], answer'[t])
        /\ answer' = [answer EXCEPT ![t] = answer'[t]]
    BY <1>1, FramedStep
  <2>2. /\ answer' = [u \in Threads |-> answer'[u]]
        /\ \A u \in Threads \ {t} : answer'[u] = answer[u]
    BY <2>1 DEF FramedAnswers
  <2>3. ASSUME NEW u \in Threads \ {t}
        PROVE  FramedAnswer(pc'[u], call'[u], answer'[u])
    <3>1. pc'[u] = pc[u] /\ call'[u] = call[u]
      BY <1>1, OthersUntouched
    <3> QED
      BY <2>2, <3>1 DEF FramedAnswers
  <2> QED
    BY <2>1, <2>2, <2>3 DEF FramedAnswers, FramedAnswer
<1>2. CASE Stop \/ Clear \/ UNCHANGED fetcherVars
  BY <1>2 DEF Stop, Clear, fetcherVars, FramedAnswers, FramedAnswer
<1> QED
  BY <1>1, <1>2 DEF FetcherNext, Quiescent

(* Under the same conditions, get_span returns as many bytes as it was     *)
(* asked for and each of them from the block it stands in, or None; so a   *)
(* response never disagrees with its Content-Length (read_span).           *)
THEOREM AnswersFramed == FetcherSpec => []AnswerFramed
<1>1. FetcherInit => FramedAnswers
  BY DEF FetcherInit, FramedAnswers, FramedAnswer
<1>2. TypeAndSlots /\ RunsPlaced /\ Budget(cache) /\ InBlocks(cache) /\ FramedAnswers
          /\ [FetcherNext]_fetcherVars => FramedAnswers'
  BY NextFramed DEF TypeAndSlots
<1>3. FramedAnswers => AnswerFramed
  BY DEF FramedAnswers, FramedAnswer, Fits, AnswerFramed
<1> QED
  BY <1>1, <1>2, <1>3, CellsInBlocks, PTL DEF FetcherSpec

-----------------------------------------------------------------------------
(* What get_span returns.                                                  *)

(* Every resident block is the media's own. *)
OfMedia(c) == \A i \in DOMAIN c.blocks : c.blocks[i] = FileBlock(i)

LEMMA MediaIsOf ==
    ASSUME NEW c, MediaCache(c)
    PROVE  OfMedia(c)
BY DEF MediaCache, OfMedia

(* A cache of the media answers a span with its own cells, or not at all. *)
LEMMA MediaRead ==
    ASSUME NEW c, OfMedia(c), NEW s \in Nat, NEW e \in Nat, s < e, e <= FileSize
    PROVE  ReadSpan(c, s, e).data \in {None, Cells(s, e - s)}
<1>1. CASE \A i \in FirstBlock(s)..LastBlock(s, e) : HasBlock(c, i)
  <2>1. \A i \in FirstBlock(s)..LastBlock(s, e) :
            HasBlock(c, i) /\ c.blocks[i] = BlockOf(i, FileSize)
    BY <1>1, WholeBlock DEF OfMedia, HasBlock
  <2>2. ReadSpan(c, s, e).data = Cells(s, e - s)
    BY <2>1, SpanRead, CacheAssumption
  <2> QED
    BY <2>2
<1>2. CASE ~(\A i \in FirstBlock(s)..LastBlock(s, e) : HasBlock(c, i))
  <2>1. {i \in FirstBlock(s)..LastBlock(s, e) : ~HasBlock(c, i)} # {}
    BY <1>2
  <2>2. ReadSpan(c, s, e).data = None
    BY <2>1 DEF ReadSpan
  <2> QED
    BY <2>2
<1> QED
  BY <1>1, <1>2

(* A call has no answer before it returns, and then its span's or None. *)
Exact(label, c, a) ==
    \/ a = None
    \/ label = "returned" /\ a = Cells(c.start, c.end - c.start)

Answered ==
    /\ answer = [t \in Threads |-> answer[t]]
    /\ \A t \in Threads : Exact(pc[t], call[t], answer[t])

LEMMA AnswerStep ==
    ASSUME FetcherTypeOK, RunsPlaced, OfMedia(cache), Answered, NEW t \in Threads,
           GetSpan(t) \/ Proceed(t)
    PROVE  /\ Exact(pc'[t], call'[t], answer'[t])
           /\ answer' = [answer EXCEPT ![t] = answer'[t]]
<1>1. /\ pc \in [Threads -> Labels]
      /\ call \in [Threads -> Calls]
      /\ call[t] \in Calls
      /\ Placed(pc[t], call[t])
      /\ OfMedia(cache)
      /\ Exact(pc[t], call[t], answer[t])
      /\ answer = [u \in Threads |-> answer[u]]
  BY DEF FetcherTypeOK, RunsPlaced, Answered
<1>2. CASE ReadBack(t)
  <2> DEFINE s == call[t].start
             e == call[t].end
             d == ReadSpan(cache, s, e).data
  <2>1. /\ pc'[t] = "returned" /\ call' = call
        /\ answer' = [answer EXCEPT ![t] = d]
    BY <1>1, <1>2 DEF ReadBack, Goto
  <2>2. s \in Nat /\ e \in Nat /\ s < e /\ e <= FileSize
    BY <1>1, <1>2 DEF ReadBack, Placed, InSpan, Calls
  <2>3. d \in {None, Cells(s, e - s)}
    <3> HIDE DEF s, e
    <3> QED
      BY <1>1, <2>2, MediaRead
  <2>4. Exact("returned", call[t], d)
    BY <2>3 DEF Exact
  <2> HIDE DEF d
  <2>5. answer'[t] = d
    BY <1>1, <2>1
  <2> QED
    BY <2>1, <2>4, <2>5
<1>3. CASE Return(t)
  BY <1>1, <1>3 DEF Return, Exact
<1>4. CASE \/ FetchCancelled(t) \/ Connect(t) \/ ReceiveChunk(t) \/ StoreChunk(t)
           \/ FetchError(t) \/ FetchShort(t) \/ FetchBreak(t)
           \/ GetSpan(t) \/ ScanHit(t) \/ ScanMiss(t) \/ Recheck(t)
           \/ Claim(t) \/ Join(t) \/ AcquireSlot(t) \/ ReleaseSlot(t) \/ Retire(t)
           \/ Wake(t) \/ Verify(t)
  <2>1. answer' = answer /\ pc[t] # "returned"
    BY <1>4
    DEF FetchCancelled, Connect, ReceiveChunk, StoreChunk, FetchError, FetchShort,
        FetchBreak, Local, GetSpan, AskFor, ScanHit, ScanMiss, Recheck, Claim, Join,
        AcquireSlot, ReleaseSlot, Retire, Wake, Verify
  <2>2. answer[t] = None
    BY <1>1, <2>1 DEF Exact
  <2>3. answer = [answer EXCEPT ![t] = answer[t]]
    BY <1>1
  <2>4. answer'[t] = answer[t]
    BY <2>1
  <2> QED
    BY <2>1, <2>2, <2>3, <2>4 DEF Exact
<1> QED
  BY <1>2, <1>3, <1>4 DEF Proceed, Inside, Fetch

LEMMA AnsweredKept ==
    FetcherTypeOK /\ RunsPlaced /\ OfMedia(cache) /\ Answered /\ [FetcherNext]_fetcherVars
        => Answered'
<1> SUFFICES ASSUME FetcherTypeOK, RunsPlaced, OfMedia(cache), Answered,
                    [FetcherNext]_fetcherVars
             PROVE  Answered'
  OBVIOUS
<1>1. ASSUME NEW t \in Threads, GetSpan(t) \/ Proceed(t)
      PROVE  Answered'
  <2>1. /\ Exact(pc'[t], call'[t], answer'[t])
        /\ answer' = [answer EXCEPT ![t] = answer'[t]]
    BY <1>1, AnswerStep
  <2>2. /\ answer' = [u \in Threads |-> answer'[u]]
        /\ \A u \in Threads \ {t} : answer'[u] = answer[u]
    BY <2>1 DEF Answered
  <2>3. ASSUME NEW u \in Threads \ {t}
        PROVE  Exact(pc'[u], call'[u], answer'[u])
    <3>1. pc'[u] = pc[u] /\ call'[u] = call[u]
      BY <1>1, OthersUntouched
    <3> QED
      BY <2>2, <3>1 DEF Answered
  <2> QED
    BY <2>1, <2>2, <2>3 DEF Answered, Exact
<1>2. CASE Stop \/ Clear \/ UNCHANGED fetcherVars
  BY <1>2 DEF Stop, Clear, fetcherVars, Answered, Exact
<1> QED
  BY <1>1, <1>2 DEF FetcherNext, Quiescent

LEMMA NextAnswered ==
    FetcherTypeOK /\ RunsPlaced /\ Contents /\ Answered /\ [FetcherNext]_fetcherVars
        => Answered'
BY AnsweredKept, MediaIsOf DEF Contents

LEMMA InitAnswered == FetcherInit => Answered
BY DEF FetcherInit, Answered, Exact

(* What get_span returns is the whole span it was asked for or None, for   *)
(* any threads, overlapping spans, faults, evictions, stop and cleanup,    *)
(* when bodies come in whole blocks. MCFetcherUnaligned.cfg shows why they *)
(* have to.                                                                *)
THEOREM AnswersExact ==
    ASSUME ChunkLens = {BLOCK_SIZE}
    PROVE  FetcherSpec => []ResultExact
<1>1. FetcherInit => TypeAndSlots /\ RunsPlaced /\ Contents /\ Answered
  BY InitTypeAndSlots, InitPlaced, InitContents, InitAnswered
<1>2. TypeAndSlots /\ RunsPlaced /\ Contents /\ Answered /\ [FetcherNext]_fetcherVars
          => TypeAndSlots' /\ RunsPlaced' /\ Contents' /\ Answered'
  BY NextType, NextSlots, NextPlaced, NextContents, NextAnswered DEF TypeAndSlots
<1>3. Answered => ResultExact
  BY DEF Answered, Exact, ResultExact
<1> QED
  BY <1>1, <1>2, <1>3, PTL DEF FetcherSpec

-----------------------------------------------------------------------------
(* A cache the media fits in.                                              *)

(* Blocks of the media hold no more cells than the media has. *)
LEMMA MediaFits ==
    ASSUME NEW c, MediaCache(c), Accounted(c)
    PROVE  c.resident <= FileSize
<1> DEFINE S == CellsIn(c.blocks)
           T == 1..FileSize
           f == [cell \in S |-> cell[1] * BLOCK_SIZE + cell[2]]
<1>1. ASSUME NEW cell \in S
      PROVE  /\ cell \in Nat \X Nat
             /\ cell[2] \in 1..BLOCK_SIZE
             /\ cell[1] * BLOCK_SIZE \in Nat
             /\ f[cell] \in T
  <2>1. /\ cell \in (DOMAIN c.blocks) \X (1..BLOCK_SIZE)
        /\ cell[2] <= Len(c.blocks[cell[1]])
    BY DEF CellsIn
  <2> DEFINE i == cell[1]
             k == cell[2]
  <2>2. /\ i \in DOMAIN c.blocks /\ i \in Nat /\ k \in 1..BLOCK_SIZE
        /\ k <= Len(c.blocks[i])
        /\ c.blocks[i] = BlockOf(i, FileSize)
        /\ Len(c.blocks[i]) \in 1..BLOCK_SIZE
    BY <2>1, WholeBlock DEF Accounted, Blocks, MediaCache
  <2> HIDE DEF i, k
  <2>3. i * BLOCK_SIZE \in Nat /\ (i + 1) * BLOCK_SIZE = i * BLOCK_SIZE + BLOCK_SIZE
    BY <2>2, CacheAssumption
  <2>4. i * BLOCK_SIZE + k <= FileSize
    <3>1. CASE (i + 1) * BLOCK_SIZE <= FileSize
      BY <2>2, <2>3, <3>1, CacheAssumption
    <3>2. CASE ~((i + 1) * BLOCK_SIZE <= FileSize)
      <4> DEFINE n == FileSize - i * BLOCK_SIZE
      <4>1. c.blocks[i] = Cells(i * BLOCK_SIZE, n) /\ n \in Int
        BY <2>2, <2>3, <3>2, CacheAssumption DEF BlockOf, BlockLen
      <4>2. k <= n
        <5>1. CASE n >= 0
          <6>1. Len(c.blocks[i]) = n
            <7> HIDE DEF n
            <7> QED
              BY <2>3, <4>1, <5>1, CellsSeq
          <6> QED
            BY <2>2, <6>1
        <5>2. CASE n < 0
          <6>1. Cells(i * BLOCK_SIZE, n) = Cells(i * BLOCK_SIZE, 0)
            <7>1. 1..n = 1..0
              BY <4>1, <5>2
            <7> HIDE DEF n
            <7> QED
              BY <7>1 DEF Cells
          <6>2. Len(c.blocks[i]) = 0
            BY <2>3, <4>1, <6>1, CellsSeq
          <6> QED
            BY <2>2, <6>2
        <5> QED
          BY <4>1, <5>1, <5>2
      <4> QED
        BY <2>2, <2>3, <4>1, <4>2, CacheAssumption
    <3> QED
      BY <3>1, <3>2
  <2>5. i * BLOCK_SIZE + k \in T
    BY <2>2, <2>3, <2>4, CacheAssumption
  <2>6. cell \in Nat \X Nat
    BY <2>1, <2>2 DEF i, k
  <2> QED
    BY <2>2, <2>3, <2>5, <2>6 DEF i, k
<1>2. ASSUME NEW x \in S, NEW y \in S, f[x] = f[y]
      PROVE  x = y
  <2> DEFINE i == x[1]
             k == x[2]
             j == y[1]
             l == y[2]
  <2>1. /\ i \in Nat /\ j \in Nat /\ k \in 1..BLOCK_SIZE /\ l \in 1..BLOCK_SIZE
        /\ i * BLOCK_SIZE + k = j * BLOCK_SIZE + l
        /\ x = <<i, k>> /\ y = <<j, l>>
    BY <1>1, <1>2
  <2> HIDE DEF i, j, k, l
  <2> DEFINE q == k - 1
             r == l - 1
  <2>2. /\ BLOCK_SIZE \in Nat \ {0}
        /\ q \in 0..(BLOCK_SIZE - 1) /\ r \in 0..(BLOCK_SIZE - 1)
    BY <2>1, CacheAssumption
  <2> HIDE DEF q, r
  <2>3. i = (i * BLOCK_SIZE + q) \div BLOCK_SIZE
    BY <2>1, <2>2, MultipleAndRest
  <2>4. j = (j * BLOCK_SIZE + r) \div BLOCK_SIZE
    BY <2>1, <2>2, MultipleAndRest
  <2>5. i = j
    <3>1. i * BLOCK_SIZE \in Nat /\ j * BLOCK_SIZE \in Nat
      BY <2>1, CacheAssumption
    <3>2. i * BLOCK_SIZE + q = j * BLOCK_SIZE + r
      BY <2>1, <3>1, CacheAssumption DEF q, r
    <3> QED
      BY <2>3, <2>4, <3>2
  <2>6. k = l
    <3>1. i * BLOCK_SIZE \in Nat
      BY <2>1, CacheAssumption
    <3> QED
      BY <2>1, <2>5, <3>1
  <2> QED
    BY <2>1, <2>5, <2>6
<1>3. IsFiniteSet(T) /\ Cardinality(T) = FileSize
  <2>1. FileSize \in Int /\ 1 \in Int
    BY CacheAssumption
  <2>2. /\ IsFiniteSet(1..FileSize)
        /\ Cardinality(1..FileSize) = IF 1 > FileSize THEN 0 ELSE FileSize - 1 + 1
    BY <2>1, FS_Interval
  <2>3. (IF 1 > FileSize THEN 0 ELSE FileSize - 1 + 1) = FileSize
    BY CacheAssumption
  <2> QED
    BY <2>2, <2>3
<1>4. f \in Injection(S, T)
  <2>1. f \in [S -> T]
    BY <1>1
  <2>2. IsInjective(f)
    BY <1>2 DEF IsInjective
  <2> QED
    BY <2>1, <2>2 DEF Injection
<1> HIDE DEF S, T, f
<1>5. Cardinality(S) <= Cardinality(T)
  BY <1>3, <1>4, FS_Injection
<1>6. c.resident = Cardinality(S)
  BY DEF Accounted, S
<1> QED
  BY <1>3, <1>5, <1>6

(* Nothing is evicted from a cache within its capacity. *)
LEMMA EvictNothing ==
    ASSUME NEW c, Accounted(c), c.resident <= capacity
    PROVE  DOMAIN Evict(c).blocks = DOMAIN c.blocks
<1> DEFINE Right(k) == /\ ResidentWithout(c, k) <= capacity \/ k = Len(c.lru)
                       /\ \A j \in 0..(k - 1) : ResidentWithout(c, j) > capacity
           n == CHOOSE k \in 0..Len(c.lru) : Right(k)
<1>1. Len(c.lru) \in Nat
  BY DEF Accounted
<1>2. ResidentWithout(c, 0) = c.resident
  <2>1. Oldest(c, 0) = {}
    BY DEF Oldest
  <2>2. CellsIn(Restrict(c.blocks, {})) = {}
    BY DEF CellsIn, Restrict
  <2>3. c.resident \in Nat
    BY CellsFinite DEF Accounted, Blocks
  <2> QED
    BY <2>1, <2>2, <2>3, FS_EmptySet DEF ResidentWithout
<1>3. Right(0) /\ 0 \in 0..Len(c.lru)
  BY <1>1, <1>2
<1>4. n \in 0..Len(c.lru) /\ Right(n)
  <2> HIDE DEF Right
  <2> QED
    BY <1>3
<1>5. n = 0
  <2>1. c.resident \in Nat
    BY CellsFinite DEF Accounted, Blocks
  <2> HIDE DEF n
  <2>2. ASSUME n # 0 PROVE FALSE
    <3>1. 0 \in 0..(n - 1)
      BY <1>1, <1>4, <2>2
    <3> QED
      BY <1>2, <1>4, <2>1, <3>1, CapacityNat
  <2> QED
    BY <2>2
<1>6. Evict(c) = [c EXCEPT !.blocks   = Drop(@, Oldest(c, n)),
                           !.lru      = SubSeq(@, n + 1, Len(@)),
                           !.resident = ResidentWithout(c, n)]
  BY DEF Evict
<1> HIDE DEF n
<1>7. Evict(c).blocks = Drop(c.blocks, Oldest(c, n))
  BY <1>6 DEF Accounted
<1>8. Oldest(c, n) = {}
  BY <1>5 DEF Oldest
<1> QED
  BY <1>7, <1>8 DEF Drop

(* So a block that was stored is there, with all that were there before. *)
LEMMA StoreHolds ==
    ASSUME FileSize <= capacity, NEW c, MediaCache(c), Budget(c),
           NEW k \in Nat, k * BLOCK_SIZE < FileSize
    PROVE  DOMAIN StoreBytes(c, k * BLOCK_SIZE, FileBlock(k)).cache.blocks
               = (DOMAIN c.blocks) \cup {k}
<1> DEFINE d == Commit(c, k, FileBlock(k))
<1>1. StoreBytes(c, k * BLOCK_SIZE, FileBlock(k)).cache = Evict(d)
  BY StoreWhole
<1>2. MediaCache(d)
  BY CommitKeepsMedia
<1>3. Accounted(d)
  <2> DEFINE b == FileBlock(k)
  <2>1. b \in Seq(Nat) /\ Len(b) \in 1..BLOCK_SIZE
    BY WholeBlock, FileBlockLen, CacheAssumption
  <2> HIDE DEF b
  <2>2. Accounted(Commit(c, k, b))
    BY <2>1, CommitAccounted DEF Budget
  <2> QED
    BY <2>2 DEF b
<1>4. DOMAIN d.blocks = (DOMAIN c.blocks) \cup {k}
  <2>1. d.blocks \in {c.blocks, Put(c.blocks, k, FileBlock(k))}
    BY DEF Commit
  <2>2. d.blocks = c.blocks => k \in DOMAIN c.blocks
    <3>1. CASE k \in DOMAIN c.blocks
      BY <3>1
    <3>2. CASE k \notin DOMAIN c.blocks
      <4>1. d.blocks = Put(c.blocks, k, FileBlock(k))
        BY <3>2 DEF Commit
      <4>2. k \in DOMAIN d.blocks
        BY <4>1 DEF Put
      <4> QED
        BY <4>2
    <3> QED
      BY <3>1, <3>2
  <2> QED
    BY <2>1, <2>2 DEF Put
<1> HIDE DEF d
<1>5. d.resident <= capacity
  <2>1. d.resident <= FileSize
    BY <1>2, <1>3, MediaFits
  <2>2. d.resident \in Nat
    BY <1>3, CellsFinite DEF Accounted, Blocks
  <2> QED
    BY <2>1, <2>2, CapacityNat, CacheAssumption
<1> QED
  BY <1>1, <1>3, <1>4, <1>5, EvictNothing

-----------------------------------------------------------------------------
(* What a download has brought stays.                                      *)

Held(c, lo, hi) == \A i \in lo..hi : HasBlock(c, i)

(* What a call has at each of its steps: the blocks before idx; of the run *)
(* it downloads, the blocks before pos; of a run that was downloaded, all. *)
Served(label, c, a) ==
    /\ c.ok
    /\ label \notin {"idle", "returned"} => Held(cache, FirstBlock(c.start), c.idx - 1)
    /\ label \in {"connect", "stream", "store"} => Held(cache, c.idx, FirstBlock(c.pos) - 1)
    /\ label = "wait" /\ <<c.idx, c.run_end>> \notin inflight => Held(cache, c.idx, c.run_end)
    /\ label \in {"release", "retire", "verify", "recheck"} => Held(cache, c.idx, c.run_end)
    /\ label \in {"verify", "recheck"} => c.idx <= c.i
    /\ label = "returned" => a # None

Delivered == session = "open" => \A t \in Threads : Served(pc[t], call[t], answer[t])

LEMMA InitDelivered == FetcherInit => Delivered
BY DEF FetcherInit, Delivered, Served, NoCall

(* While the media fits, no step of a thread takes a block away. *)
LEMMA StepHolds ==
    ASSUME FileSize <= capacity, ChunkLens = {BLOCK_SIZE},
           FetcherTypeOK, RunsPlaced, Contents, Budget(cache),
           NEW t \in Threads, GetSpan(t) \/ Proceed(t)
    PROVE  /\ DOMAIN cache.blocks \subseteq DOMAIN cache'.blocks
           /\ StoreChunk(t) =>
                \E k \in Nat :
                    /\ call[t].pos = k * BLOCK_SIZE
                    /\ k * BLOCK_SIZE < FileSize
                    /\ k \in DOMAIN cache'.blocks
                    /\ call'[t] = [call[t] EXCEPT !.pos = @ + BlockLen(k, FileSize)]
                    /\ pc'[t] = IF k * BLOCK_SIZE + BlockLen(k, FileSize) < Limit(call[t])
                                THEN "stream" ELSE "release"
                    /\ k * BLOCK_SIZE + BlockLen(k, FileSize) < Limit(call[t])
                           => BlockLen(k, FileSize) = BLOCK_SIZE
<1>1. /\ pc \in [Threads -> Labels]
      /\ call \in [Threads -> Calls]
      /\ call[t] \in Calls
      /\ Placed(pc[t], call[t])
      /\ Boundary(pc[t], call[t])
      /\ MediaCache(cache)
  BY DEF FetcherTypeOK, RunsPlaced, Contents
<1>2. CASE StoreChunk(t)
  <2> DEFINE n == Lesser(BLOCK_SIZE, Limit(call[t]) - call[t].pos)
  <2>1. /\ pc[t] = "store"
        /\ cache' = StoreBytes(cache, call[t].pos, Cells(call[t].pos, n)).cache
        /\ call'[t] = [call[t] EXCEPT !.pos = @ + n]
        /\ pc'[t] = IF call[t].pos + n < Limit(call[t]) THEN "stream" ELSE "release"
    <3>1. RunLimit(t) = Limit(call[t])
      BY DEF RunLimit, Limit
    <3> QED
      BY <1>1, <1>2, <3>1 DEF StoreChunk, Goto
  <2>2. PICK k \in Nat : call[t].pos = k * BLOCK_SIZE
    BY <1>1, <2>1 DEF Boundary
  <2>3. call[t].pos < Limit(call[t])
    BY <1>1, <2>1 DEF Placed, InRun
  <2>4. /\ k * BLOCK_SIZE < FileSize
        /\ n = BlockLen(k, FileSize)
        /\ call[t].pos + BlockLen(k, FileSize) < Limit(call[t])
               => BlockLen(k, FileSize) = BLOCK_SIZE
    BY <1>1, <2>2, <2>3, ChunkIsBlock
  <2> HIDE DEF n
  <2>5. cache' = StoreBytes(cache, k * BLOCK_SIZE, FileBlock(k)).cache
    BY <2>1, <2>2, <2>4, FileBlockLength
  <2>6. DOMAIN cache'.blocks = (DOMAIN cache.blocks) \cup {k}
    BY <1>1, <2>4, <2>5, StoreHolds
  <2> QED
    BY <2>1, <2>2, <2>4, <2>6
<1>3. CASE ReadBack(t)
  <2>1. PICK lru : cache' = [cache EXCEPT !.lru = lru]
    BY <1>3 DEF ReadBack, ReadSpan
  <2>2. cache'.blocks = cache.blocks
    BY <1>1, <2>1 DEF MediaCache
  <2>3. ~StoreChunk(t)
    BY <1>3 DEF ReadBack, StoreChunk
  <2> QED
    BY <2>2, <2>3
<1>4. CASE \/ FetchCancelled(t) \/ Connect(t) \/ ReceiveChunk(t)
           \/ FetchError(t) \/ FetchShort(t) \/ FetchBreak(t)
           \/ GetSpan(t) \/ ScanHit(t) \/ ScanMiss(t) \/ Recheck(t) \/ Return(t)
           \/ Claim(t) \/ Join(t) \/ AcquireSlot(t) \/ ReleaseSlot(t) \/ Retire(t)
           \/ Wake(t) \/ Verify(t)
  <2>1. cache' = cache /\ pc[t] # "store"
    BY <1>4
    DEF FetchCancelled, Connect, ReceiveChunk, FetchError, FetchShort, FetchBreak, Local,
        GetSpan, AskFor, ScanHit, ScanMiss, Recheck, Return, Claim, Join, AcquireSlot,
        ReleaseSlot, Retire, Wake, Verify
  <2> QED
    BY <2>1 DEF StoreChunk
<1> QED
  BY <1>2, <1>3, <1>4 DEF Proceed, Inside, Fetch

(* A step of a thread keeps what it promises of itself. *)
LEMMA StepServed ==
    ASSUME FileSize <= capacity, ChunkLens = {BLOCK_SIZE}, RemoteFaults = {},
           FetcherTypeOK, RunsPlaced, Contents, Budget(cache),
           session = "open", NEW t \in Threads, Served(pc[t], call[t], answer[t]),
           GetSpan(t) \/ Proceed(t)
    PROVE  Served(pc[t], call[t], answer[t])'
<1>1. /\ pc \in [Threads -> Labels]
      /\ call \in [Threads -> Calls]
      /\ call[t] \in Calls
      /\ DOMAIN answer = Threads
      /\ Placed(pc[t], call[t])
  BY DEF FetcherTypeOK, RunsPlaced
<1>2. \A lo, hi : Held(cache, lo, hi) => Held(cache', lo, hi)
  BY StepHolds DEF Held, HasBlock
<1>3. /\ call[t].start \in Nat /\ call[t].end \in Nat
      /\ call[t].idx \in Nat /\ call[t].run_end \in Nat
      /\ call[t].pos \in Nat /\ call[t].i \in Nat
      /\ FirstBlock(call[t].start) \in Nat
      /\ LastOf(t) \in Int
      /\ LastOf(t) = LastBlock(call[t].start, call[t].end)
  BY <1>1, FirstBlockNat, LastBlockInt DEF Calls, LastOf
<1>4. CASE GetSpan(t)
  <2>1. PICK span \in SpansOf(t) :
            call' = [call EXCEPT ![t] = [NoCall EXCEPT
                        !.start = span[1], !.end = span[2],
                        !.idx = FirstBlock(span[1])]]
    BY <1>4 DEF GetSpan, AskFor
  <2>2. span[1] \in Nat
    BY FetcherAssumption DEF SpansOf
  <2>3. /\ call'[t].start = span[1] /\ call'[t].ok = TRUE
        /\ call'[t].idx = FirstBlock(span[1])
        /\ pc'[t] = "scan"
    BY <1>1, <1>4, <2>1 DEF NoCall, GetSpan, AskFor, Goto
  <2>4. FirstBlock(span[1]) \in Nat
    BY <2>2, FirstBlockNat
  <2> QED
    BY <2>3, <2>4 DEF Served, Held
<1>5. CASE ScanHit(t)
  <2>1. /\ pc'[t] = "scan" /\ call'[t] = [call[t] EXCEPT !.idx = @ + 1]
        /\ pc[t] = "scan" /\ HasBlock(cache, call[t].idx) /\ cache' = cache
    BY <1>1, <1>5 DEF ScanHit, Local
  <2>2. /\ call'[t].start = call[t].start /\ call'[t].idx = call[t].idx + 1
        /\ call'[t].ok = call[t].ok
    BY <1>1, <2>1 DEF Calls
  <2>3. Held(cache, FirstBlock(call[t].start), call[t].idx)
    BY <1>3, <2>1 DEF Served, Held
  <2> QED
    BY <1>2, <1>3, <2>1, <2>2, <2>3 DEF Served
<1>6. CASE ScanMiss(t)
  <2>1. /\ pc'[t] = "ensure" /\ pc[t] = "scan"
        /\ \E n : call'[t] = [call[t] EXCEPT !.run_end = n]
    BY <1>1, <1>6 DEF ScanMiss, Goto
  <2>2. /\ call'[t].start = call[t].start /\ call'[t].idx = call[t].idx
        /\ call'[t].ok = call[t].ok
    BY <1>1, <2>1 DEF Calls
  <2> QED
    BY <1>2, <2>1, <2>2 DEF Served
<1>7. CASE Recheck(t) \/ Verify(t)
  <2>1. /\ pc[t] \in {"recheck", "verify"} /\ cache' = cache /\ answer' = answer
        /\ Held(cache, call[t].idx, call[t].run_end) /\ call[t].idx <= call[t].i
        /\ call[t].i <= call[t].run_end => HasBlock(cache, call[t].i)
    <3>1. pc[t] \in {"recheck", "verify"} /\ cache' = cache /\ answer' = answer
      BY <1>7 DEF Recheck, Verify, Local
    <3>2. Held(cache, call[t].idx, call[t].run_end) /\ call[t].idx <= call[t].i
      BY <3>1 DEF Served
    <3> QED
      BY <1>3, <3>1, <3>2 DEF Held
  <2>2. \/ /\ pc'[t] = pc[t]
           /\ call'[t] = [call[t] EXCEPT !.i = @ + 1]
        \/ /\ pc'[t] = "scan"
           /\ call'[t] = [call[t] EXCEPT !.idx = call[t].run_end + 1]
        \/ /\ pc'[t] = "recheck"
           /\ call'[t] = [call[t] EXCEPT !.i = call[t].idx]
    BY <1>1, <1>7, <2>1 DEF Recheck, Verify, Goto
  <2>3. CASE pc'[t] = pc[t] /\ call'[t] = [call[t] EXCEPT !.i = @ + 1]
    <3>1. /\ call'[t].start = call[t].start /\ call'[t].idx = call[t].idx
          /\ call'[t].ok = call[t].ok /\ call'[t].run_end = call[t].run_end
          /\ call'[t].i = call[t].i + 1
      BY <1>1, <2>3 DEF Calls
    <3> QED
      BY <1>2, <1>3, <2>1, <2>3, <3>1 DEF Served
  <2>4. CASE pc'[t] = "scan" /\ call'[t] = [call[t] EXCEPT !.idx = call[t].run_end + 1]
    <3>1. /\ call'[t].start = call[t].start /\ call'[t].idx = call[t].run_end + 1
          /\ call'[t].ok = call[t].ok
      BY <1>1, <2>4 DEF Calls
    <3>2. Held(cache, FirstBlock(call[t].start), call[t].idx - 1)
      BY <2>1 DEF Served
    <3>3. Held(cache, FirstBlock(call[t].start), call[t].run_end)
      BY <1>3, <2>1, <3>2 DEF Held
    <3>4. call'[t].idx - 1 = call[t].run_end
      BY <1>3, <3>1
    <3>5. Held(cache', FirstBlock(call'[t].start), call'[t].idx - 1)
      BY <1>2, <3>1, <3>3, <3>4
    <3> QED
      BY <2>1, <2>4, <3>1, <3>5 DEF Served
  <2>5. CASE pc'[t] = "recheck" /\ call'[t] = [call[t] EXCEPT !.i = call[t].idx]
    <3>1. /\ call'[t].start = call[t].start /\ call'[t].idx = call[t].idx
          /\ call'[t].ok = call[t].ok /\ call'[t].run_end = call[t].run_end
          /\ call'[t].i = call[t].idx
      BY <1>1, <2>5 DEF Calls
    <3> QED
      BY <1>2, <1>3, <2>1, <2>5, <3>1 DEF Served
  <2> QED
    BY <2>2, <2>3, <2>4, <2>5
<1>8. CASE ReadBack(t)
  <2> DEFINE s == call[t].start
             e == call[t].end
  <2>1. /\ pc[t] = "scan" /\ pc'[t] = "returned" /\ call'[t] = call[t]
        /\ answer'[t] = ReadSpan(cache, s, e).data
        /\ call[t].idx > LastOf(t)
    BY <1>1, <1>8 DEF ReadBack, Goto
  <2>2. s \in Nat /\ e \in Nat /\ s < e /\ e <= FileSize
    BY <1>1, <1>3, <2>1 DEF Placed, InSpan
  <2>3. Held(cache, FirstBlock(s), call[t].idx - 1)
    BY <2>1 DEF Served
  <2>4. \A i \in FirstBlock(s)..LastBlock(s, e) :
            HasBlock(cache, i) /\ cache.blocks[i] = BlockOf(i, FileSize)
    <3> TAKE i \in FirstBlock(s)..LastBlock(s, e)
    <3>1. i \in FirstBlock(s)..(call[t].idx - 1)
      BY <1>3, <2>1
    <3>2. HasBlock(cache, i)
      BY <2>3, <3>1 DEF Held
    <3> QED
      BY <3>2, WholeBlock DEF Contents, MediaCache, HasBlock
  <2> HIDE DEF s, e
  <2>5. ReadSpan(cache, s, e).data = Cells(s, e - s)
    BY <2>2, <2>4, SpanRead, CacheAssumption
  <2>6. Cells(s, e - s) # None
    <3>1. e - s \in Nat
      BY <2>2
    <3> DEFINE n == e - s
    <3> HIDE DEF n
    <3>2. Cells(s, n) \in Seq(Nat)
      BY <2>2, <3>1, CellsSeq DEF n
    <3>3. Cells(s, n) \in Seq(Int)
      BY <3>2
    <3> QED
      BY <3>3, CacheAssumption DEF n
  <2> QED
    BY <2>1, <2>5, <2>6 DEF Served
<1>9. CASE Return(t)
  BY <1>1, <1>9 DEF Return, Goto, NoCall, Served
<1>10. CASE Claim(t) \/ Join(t)
  <2>1. /\ pc[t] = "ensure" /\ call'[t] = call[t]
        /\ pc'[t] \in {"slot", "wait"}
        /\ pc'[t] = "wait" => <<call[t].idx, call[t].run_end>> \in inflight'
    BY <1>1, <1>10 DEF Claim, Join, Goto, Local, Key
  <2> QED
    BY <1>2, <2>1 DEF Served
<1>11. CASE AcquireSlot(t)
  <2>1. /\ pc[t] = "slot" /\ pc'[t] = "connect"
        /\ call'[t] = [call[t] EXCEPT !.pos = call[t].idx * BLOCK_SIZE,
                                      !.attempt = 0]
    BY <1>1, <1>11 DEF AcquireSlot, Goto
  <2>2. /\ call'[t].start = call[t].start /\ call'[t].idx = call[t].idx
        /\ call'[t].ok = call[t].ok /\ call'[t].pos = call[t].idx * BLOCK_SIZE
    BY <1>1, <2>1 DEF Calls
  <2>3. FirstBlock(call[t].idx * BLOCK_SIZE) = call[t].idx
    BY <1>3, MultipleDivided, CacheAssumption DEF FirstBlock
  <2>4. Held(cache', call[t].idx, call[t].idx - 1)
    BY <1>3 DEF Held
  <2> QED
    BY <1>2, <2>1, <2>2, <2>3, <2>4 DEF Served
<1>12. CASE ReleaseSlot(t)
  <2>1. pc[t] = "release" /\ pc'[t] = "retire" /\ call'[t] = call[t]
    BY <1>1, <1>12 DEF ReleaseSlot, Goto
  <2> QED
    BY <1>2, <2>1 DEF Served
<1>13. CASE Retire(t) \/ Wake(t)
  <2>1. /\ pc[t] \in {"retire", "wait"}
        /\ pc[t] = "wait" => <<call[t].idx, call[t].run_end>> \notin inflight
        /\ pc'[t] \in {"recheck", "verify"}
        /\ call'[t] = [call[t] EXCEPT !.i = call[t].idx]
    BY <1>1, <1>13 DEF Retire, Wake, Served, Goto, Key
  <2>2. /\ call'[t].start = call[t].start /\ call'[t].idx = call[t].idx
        /\ call'[t].ok = call[t].ok /\ call'[t].run_end = call[t].run_end
        /\ call'[t].i = call[t].idx
    BY <1>1, <2>1 DEF Calls
  <2>3. Held(cache, call[t].idx, call[t].run_end)
    BY <2>1 DEF Served
  <2> QED
    BY <1>2, <1>3, <2>1, <2>2, <2>3 DEF Served
<1>14. CASE StoreChunk(t)
  <2>1. PICK k \in Nat :
            /\ call[t].pos = k * BLOCK_SIZE
            /\ k * BLOCK_SIZE < FileSize
            /\ k \in DOMAIN cache'.blocks
            /\ call'[t] = [call[t] EXCEPT !.pos = @ + BlockLen(k, FileSize)]
            /\ pc'[t] = IF k * BLOCK_SIZE + BlockLen(k, FileSize) < Limit(call[t])
                        THEN "stream" ELSE "release"
            /\ k * BLOCK_SIZE + BlockLen(k, FileSize) < Limit(call[t])
                   => BlockLen(k, FileSize) = BLOCK_SIZE
    BY <1>14, StepHolds
  <2>2. pc[t] = "store" /\ BlockLen(k, FileSize) \in 1..BLOCK_SIZE
    BY <1>14, <2>1, FileBlockLen, CacheAssumption DEF StoreChunk
  <2>3. /\ call'[t].start = call[t].start /\ call'[t].idx = call[t].idx
        /\ call'[t].ok = call[t].ok /\ call'[t].run_end = call[t].run_end
        /\ call'[t].pos = k * BLOCK_SIZE + BlockLen(k, FileSize)
    BY <1>1, <2>1 DEF Calls
  <2>4. Held(cache', call[t].idx, k)
    <3>1. FirstBlock(call[t].pos) = k
      BY <2>1, MultipleDivided, CacheAssumption DEF FirstBlock
    <3>2. Held(cache', call[t].idx, k - 1)
      BY <1>2, <2>2, <3>1 DEF Served
    <3> QED
      BY <1>3, <2>1, <3>2 DEF Held, HasBlock
  <2>5. CASE pc'[t] = "stream"
    <3>1. call'[t].pos = (k + 1) * BLOCK_SIZE
      <4>1. call'[t].pos = k * BLOCK_SIZE + BLOCK_SIZE
        BY <2>1, <2>3, <2>5
      <4>2. (k + 1) * BLOCK_SIZE = k * BLOCK_SIZE + BLOCK_SIZE
        BY CacheAssumption
      <4> QED
        BY <4>1, <4>2
    <3>2. FirstBlock(call'[t].pos) = k + 1
      <4> DEFINE m == k + 1
      <4>1. m \in Nat
        OBVIOUS
      <4> HIDE DEF m
      <4>2. FirstBlock(m * BLOCK_SIZE) = m
        BY <4>1, MultipleDivided, CacheAssumption DEF FirstBlock
      <4> QED
        BY <3>1, <4>2 DEF m
    <3>3. k + 1 - 1 = k
      OBVIOUS
    <3> QED
      BY <1>2, <2>2, <2>3, <2>4, <2>5, <3>2, <3>3 DEF Served
  <2>6. CASE pc'[t] = "release"
    <3> DEFINE r == call[t].run_end
    <3>1. r * BLOCK_SIZE < Limit(call[t])
      <4>1. r <= LastBlock(call[t].start, call[t].end) /\ r \in Nat
        BY <1>1, <1>3, <2>2 DEF Placed, InLimits, Running
      <4>2. /\ LastBlock(call[t].start, call[t].end) \in Nat
            /\ LastBlock(call[t].start, call[t].end) * BLOCK_SIZE < FileSize
        BY <1>1, <1>3, <2>2, LastBlockInside DEF Placed, InSpan
      <4> HIDE DEF r
      <4>3. r * BLOCK_SIZE <= LastBlock(call[t].start, call[t].end) * BLOCK_SIZE
        BY <4>1, <4>2, MultiplesOrdered, CacheAssumption
      <4>4. /\ r * BLOCK_SIZE \in Nat
            /\ LastBlock(call[t].start, call[t].end) * BLOCK_SIZE \in Nat
            /\ (r + 1) * BLOCK_SIZE = r * BLOCK_SIZE + BLOCK_SIZE
        BY <4>1, <4>2, CacheAssumption
      <4>5. r * BLOCK_SIZE < FileSize
        BY <4>2, <4>3, <4>4, CacheAssumption
      <4>6. Limit(call[t]) = IF (r + 1) * BLOCK_SIZE <= FileSize
                             THEN (r + 1) * BLOCK_SIZE ELSE FileSize
        BY DEF Limit, Lesser, r
      <4> QED
        BY <4>4, <4>5, <4>6, CacheAssumption
    <3>2. Limit(call[t]) \in Nat
      <4>1. RunLimit(t) \in Nat
        BY <1>1, RunLimitNat
      <4> QED
        BY <4>1 DEF RunLimit, Limit
    <3>3. Limit(call[t]) <= k * BLOCK_SIZE + BLOCK_SIZE
      <4>1. /\ ~(k * BLOCK_SIZE + BlockLen(k, FileSize) < Limit(call[t]))
            /\ k * BLOCK_SIZE \in Nat
        BY <2>1, <2>6, CacheAssumption
      <4> QED
        BY <2>2, <3>2, <4>1, CacheAssumption
    <3>4. r <= k
      <4>1. ASSUME k + 1 <= r PROVE FALSE
        <5> HIDE DEF r
        <5>1. r \in Nat
          BY <1>3 DEF r
        <5>2. (k + 1) * BLOCK_SIZE <= r * BLOCK_SIZE
          BY <4>1, <5>1, MultiplesOrdered, CacheAssumption
        <5>3. /\ (k + 1) * BLOCK_SIZE = k * BLOCK_SIZE + BLOCK_SIZE
              /\ k * BLOCK_SIZE \in Nat /\ r * BLOCK_SIZE \in Nat
          BY <5>1, CacheAssumption
        <5> QED
          BY <3>1, <3>2, <3>3, <5>2, <5>3, CacheAssumption DEF r
      <4> QED
        BY <1>3, <4>1
    <3>5. Held(cache', call[t].idx, r)
      BY <1>3, <2>4, <3>4 DEF Held
    <3> QED
      BY <1>2, <2>2, <2>3, <2>6, <3>5 DEF Served
  <2> QED
    BY <2>1, <2>5, <2>6
<1>15. CASE \/ FetchCancelled(t) \/ Connect(t) \/ ReceiveChunk(t)
            \/ FetchError(t) \/ FetchShort(t) \/ FetchBreak(t)
  <2>1. /\ pc[t] \in {"connect", "stream"} /\ call'[t] = call[t]
        /\ pc'[t] \in {"stream", "store"}
    BY <1>1, <1>15
    DEF FetchCancelled, Cancelled, Connect, ReceiveChunk, FetchError, FetchShort,
        FetchBreak, Goto
  <2> QED
    BY <1>2, <2>1 DEF Served
<1> QED
  BY <1>4, <1>5, <1>6, <1>7, <1>8, <1>9, <1>10, <1>11, <1>12, <1>13, <1>14, <1>15
  DEF Proceed, Inside, Fetch

LEMMA NextDelivered ==
    ASSUME FileSize <= capacity, ChunkLens = {BLOCK_SIZE}, RemoteFaults = {}
    PROVE  FetcherTypeOK /\ RunsPlaced /\ Contents /\ Answered /\ Budget(cache)
               /\ Delivered /\ [FetcherNext]_fetcherVars => Delivered'
<1> SUFFICES ASSUME FetcherTypeOK, RunsPlaced, Contents, Answered, Budget(cache),
                    Delivered, [FetcherNext]_fetcherVars, session' = "open",
                    NEW u \in Threads
             PROVE  Served(pc[u], call[u], answer[u])'
  BY DEF Delivered
<1>1. ASSUME NEW t \in Threads, GetSpan(t) \/ Proceed(t)
      PROVE  Served(pc[u], call[u], answer[u])'
  <2>1. session = "open"
    <3>1. session' = session
      BY <1>1
      DEF Proceed, Inside, Fetch, FetchCancelled, Connect, ReceiveChunk, StoreChunk,
          FetchError, FetchShort, FetchBreak, Local, GetSpan, AskFor, ScanHit, ScanMiss,
          Recheck, ReadBack, Return, Claim, Join, AcquireSlot, ReleaseSlot, Retire,
          Wake, Verify
    <3> QED
      BY <3>1
  <2>2. \A v \in Threads : Served(pc[v], call[v], answer[v])
    BY <2>1 DEF Delivered
  <2>3. CASE u = t
    BY <1>1, <2>1, <2>2, <2>3, StepServed
  <2>4. CASE u # t
    <3>1. /\ pc'[u] = pc[u] /\ call'[u] = call[u]
          /\ answer'[u] = answer[u]
      <4>1. u \in Threads \ {t}
        BY <2>4
      <4>2. answer' = [answer EXCEPT ![t] = answer'[t]]
        BY <1>1, AnswerStep, MediaIsOf DEF Contents
      <4>3. pc'[u] = pc[u] /\ call'[u] = call[u]
        BY <1>1, <4>1, OthersUntouched
      <4>4. answer'[u] = answer[u]
        BY <2>4, <4>2 DEF Answered
      <4> QED
        BY <4>3, <4>4
    <3>2. \A lo, hi : Held(cache, lo, hi) => Held(cache', lo, hi)
      BY <1>1, StepHolds DEF Held, HasBlock
    <3>3. <<call[u].idx, call[u].run_end>> \notin inflight'
              /\ <<call[u].idx, call[u].run_end>> \in inflight
              => Held(cache, call[u].idx, call[u].run_end)
      <4> SUFFICES ASSUME <<call[u].idx, call[u].run_end>> \notin inflight',
                          <<call[u].idx, call[u].run_end>> \in inflight
                   PROVE  Held(cache, call[u].idx, call[u].run_end)
        OBVIOUS
      <4>1. Retire(t)
        BY <1>1
        DEF Proceed, Inside, Fetch, FetchCancelled, Connect, ReceiveChunk, StoreChunk,
            FetchError, FetchShort, FetchBreak, Local, GetSpan, AskFor, ScanHit,
            ScanMiss, Recheck, ReadBack, Return, Claim, Join, AcquireSlot, ReleaseSlot,
            Wake, Verify
      <4>2. /\ pc[t] = "retire"
            /\ <<call[u].idx, call[u].run_end>> = <<call[t].idx, call[t].run_end>>
        BY <4>1 DEF Retire, Key
      <4>3. Held(cache, call[t].idx, call[t].run_end)
        BY <2>2, <4>2 DEF Served
      <4> QED
        BY <4>2, <4>3
    <3>4. Served(pc[u], call[u], answer[u])
      BY <2>2
    <3> QED
      BY <3>1, <3>2, <3>3, <3>4 DEF Served
  <2> QED
    BY <2>3, <2>4
<1>2. CASE Stop \/ Clear
  BY <1>2 DEF Stop, Clear
<1>3. CASE UNCHANGED fetcherVars
  BY <1>3 DEF fetcherVars, Delivered, Served, Held
<1> QED
  BY <1>1, <1>2, <1>3 DEF FetcherNext, Quiescent

(* get_span turns nobody away while the session is open, the remote        *)
(* answers and the media fits the cache: neither its owner nor a waiter on *)
(* another thread's download (_ensure) finds a block missing that was      *)
(* brought, whichever of any number of threads brought it. Eviction is the *)
(* one other reason for a None, hence the capacity.                        *)
THEOREM ClientsServed ==
    ASSUME ChunkLens = {BLOCK_SIZE}, FileSize <= capacity
    PROVE  FetcherSpec => []FetchableServed
<1>1. CASE RemoteFaults # {}
  <2>1. FetchableServed
    BY <1>1 DEF FetchableServed
  <2> QED
    BY <2>1, PTL
<1>2. CASE RemoteFaults = {}
  <2>1. FetcherInit => TypeAndSlots /\ RunsPlaced /\ Contents /\ Answered
                         /\ Budget(cache) /\ Delivered
    BY InitTypeAndSlots, InitPlaced, InitContents, InitAnswered, InitDelivered,
       EmptyBudget DEF FetcherInit, CacheInit
  <2>2. TypeAndSlots /\ RunsPlaced /\ [FetcherNext]_fetcherVars
            => TypeAndSlots' /\ RunsPlaced'
    BY NextType, NextSlots, NextPlaced DEF TypeAndSlots
  <2>3. TypeAndSlots /\ RunsPlaced /\ Contents /\ Answered /\ [FetcherNext]_fetcherVars
            => Contents' /\ Answered'
    BY NextContents, NextAnswered DEF TypeAndSlots
  <2>4. TypeAndSlots /\ RunsPlaced /\ Budget(cache) /\ [FetcherNext]_fetcherVars
            => Budget(cache)'
    BY NextBudget
  <2>5. TypeAndSlots /\ RunsPlaced /\ Contents /\ Answered /\ Budget(cache)
          /\ Delivered /\ [FetcherNext]_fetcherVars => Delivered'
    BY <1>2, NextDelivered DEF TypeAndSlots
  <2>6. Delivered => FetchableServed
    BY DEF Delivered, FetchableServed, Served, Threads
  <2> QED
    BY <2>1, <2>2, <2>3, <2>4, <2>5, <2>6, PTL DEF FetcherSpec
<1> QED
  BY <1>1, <1>2

-----------------------------------------------------------------------------
(* get_span implements SpanService.                                        *)

SeenStatus == [t \in Threads |-> StatusAt(pc[t])]
SeenSpan   == [t \in Threads |-> <<call[t].start, call[t].end>>]

LEMMA ServiceStarts == FetcherInit => Service!ServiceInit
<1> SUFFICES ASSUME FetcherInit PROVE Service!ServiceInit
  OBVIOUS
<1>1. \A t \in Threads : pc[t] = "idle" /\ call[t].start = 0 /\ call[t].end = 0
  BY DEF FetcherInit, NoCall
<1>2. answer = [t \in Threads |-> None]
  BY DEF FetcherInit
<1> QED
  BY <1>1, <1>2 DEF Service!ServiceInit, Service!NoRequest, StatusAt

(* A step of one thread changes what the service sees of that thread only. *)
LEMMA SeenStep ==
    ASSUME FetcherTypeOK, NEW t \in Threads, GetSpan(t) \/ Proceed(t)
    PROVE  /\ SeenStatus' = [SeenStatus EXCEPT ![t] = StatusAt(pc'[t])]
           /\ SeenSpan' = [SeenSpan EXCEPT ![t] = <<call'[t].start, call'[t].end>>]
<1>1. \A u \in Threads \ {t} : pc'[u] = pc[u] /\ call'[u] = call[u]
  BY OthersUntouched
<1> QED
  BY <1>1 DEF SeenStatus, SeenSpan

LEMMA MediaOfSpan ==
    ASSUME NEW s \in Nat, NEW e \in Nat
    PROVE  Service!Media(<<s, e>>) = Cells(s, e - s)
BY DEF Service!Media, Cells

LEMMA ServiceStep ==
    ASSUME FetcherTypeOK, RunsPlaced, Contents, Answered, NEW t \in Threads,
           GetSpan(t) \/ Proceed(t)
    PROVE  \/ Service!Ask(t) \/ Service!Answer(t) \/ Service!Leave(t)
           \/ SeenStatus' = SeenStatus /\ SeenSpan' = SeenSpan /\ answer' = answer
<1> DEFINE s == call[t].start
           e == call[t].end
           label == pc'[t]
<1>1. /\ pc \in [Threads -> Labels]
      /\ call \in [Threads -> Calls]
      /\ call[t] \in Calls
      /\ Placed(pc[t], call[t])
      /\ MediaCache(cache)
      /\ Exact(pc[t], call[t], answer[t])
      /\ answer = [u \in Threads |-> answer[u]]
  BY DEF FetcherTypeOK, RunsPlaced, Contents, Answered
<1>2. /\ SeenStatus' = [SeenStatus EXCEPT ![t] = StatusAt(label)]
      /\ SeenSpan' = [SeenSpan EXCEPT ![t] = <<call'[t].start, call'[t].end>>]
      /\ SeenStatus[t] = StatusAt(pc[t]) /\ SeenSpan[t] = <<s, e>>
      /\ SeenStatus = [SeenStatus EXCEPT ![t] = SeenStatus[t]]
      /\ SeenSpan = [SeenSpan EXCEPT ![t] = SeenSpan[t]]
  BY SeenStep DEF SeenStatus, SeenSpan
<1> HIDE DEF label
<1>3. CASE GetSpan(t)
  <2>1. PICK span \in SpansOf(t) : AskFor(t, span)
    BY <1>3 DEF GetSpan
  <2>2. /\ pc[t] = "idle" /\ label = "scan" /\ answer' = answer
        /\ call'[t].start = span[1] /\ call'[t].end = span[2]
    BY <1>1, <2>1 DEF AskFor, Goto, NoCall, label
  <2>3. span = <<span[1], span[2]>>
    BY FetcherAssumption DEF SpansOf
  <2>4. /\ SeenStatus[t] = "idle" /\ SeenStatus' = [SeenStatus EXCEPT ![t] = "asking"]
        /\ SeenSpan' = [SeenSpan EXCEPT ![t] = span]
    BY <1>2, <2>2, <2>3 DEF StatusAt
  <2>5. \E x \in SpansOf(t) : SeenSpan' = [SeenSpan EXCEPT ![t] = x]
    BY <2>4
  <2>6. Service!Ask(t)
    BY <2>2, <2>4, <2>5 DEF Service!Ask, SeenStatus, SeenSpan
  <2> QED
    BY <2>6
<1>4. CASE ReadBack(t)
  <2> DEFINE d == ReadSpan(cache, s, e).data
  <2>1. /\ pc[t] = "scan" /\ label = "returned" /\ call' = call
        /\ answer' = [answer EXCEPT ![t] = d]
    BY <1>1, <1>4 DEF ReadBack, Goto, label
  <2>2. s \in Nat /\ e \in Nat /\ s < e /\ e <= FileSize
    BY <1>1, <2>1 DEF Placed, InSpan, Calls
  <2>3. d \in {None, Service!Media(SeenSpan[t])}
    <3> HIDE DEF s, e
    <3>1. d \in {None, Cells(s, e - s)}
      BY <1>1, <2>2, MediaRead, MediaIsOf
    <3>2. Service!Media(<<s, e>>) = Cells(s, e - s)
      BY <2>2, MediaOfSpan
    <3> QED
      BY <1>2, <3>1, <3>2
  <2> HIDE DEF d
  <2>4. Service!Answer(t)
    BY <1>2, <2>1, <2>3 DEF Service!Answer, SeenStatus, SeenSpan, StatusAt
  <2> QED
    BY <2>4
<1>5. CASE Return(t)
  <2>1. /\ pc[t] = "returned" /\ label = "idle"
        /\ call'[t].start = 0 /\ call'[t].end = 0
        /\ answer' = [answer EXCEPT ![t] = None]
    BY <1>1, <1>5 DEF Return, Goto, NoCall, label
  <2>2. Service!Leave(t)
    BY <1>2, <2>1 DEF Service!Leave, Service!NoRequest, SeenStatus, SeenSpan, StatusAt
  <2> QED
    BY <2>2
<1>6. CASE \/ FetchCancelled(t) \/ Connect(t) \/ ReceiveChunk(t) \/ StoreChunk(t)
           \/ FetchError(t) \/ FetchShort(t) \/ FetchBreak(t)
           \/ ScanHit(t) \/ ScanMiss(t) \/ Recheck(t)
           \/ Claim(t) \/ Join(t) \/ AcquireSlot(t) \/ ReleaseSlot(t) \/ Retire(t)
           \/ Wake(t) \/ Verify(t)
  <2>1. /\ pc[t] \notin {"idle", "returned"} /\ label # "idle"
        /\ answer' = answer
        /\ call'[t].start = s /\ call'[t].end = e
    <3>1. CASE \/ FetchCancelled(t) \/ Connect(t) \/ ReceiveChunk(t) \/ StoreChunk(t)
               \/ FetchError(t) \/ FetchShort(t) \/ FetchBreak(t)
      BY <1>1, <3>1
      DEF FetchCancelled, Connect, ReceiveChunk, StoreChunk, FetchError, FetchShort,
          FetchBreak, EndFetch, Goto, Local, Calls, label
    <3>2. CASE \/ ScanHit(t) \/ ScanMiss(t) \/ Recheck(t) \/ Claim(t) \/ Join(t)
               \/ AcquireSlot(t) \/ ReleaseSlot(t) \/ Retire(t) \/ Wake(t) \/ Verify(t)
      BY <1>1, <3>2
      DEF ScanHit, ScanMiss, Recheck, Claim, Join, AcquireSlot, ReleaseSlot, Retire,
          Wake, Verify, GiveUp, Goto, Local, Calls, label
    <3> QED
      BY <1>6, <3>1, <3>2
  <2>2. SeenSpan' = SeenSpan
    BY <1>2, <2>1
  <2>3. CASE label = "returned"
    <3>1. answer[t] = None
      BY <1>1, <2>1 DEF Exact
    <3>2. answer' = [answer EXCEPT ![t] = None]
      BY <1>1, <2>1, <3>1
    <3>3. Service!Answer(t)
      BY <1>2, <2>1, <2>2, <2>3, <3>2 DEF Service!Answer, SeenStatus, SeenSpan, StatusAt
    <3> QED
      BY <3>3
  <2>4. CASE label # "returned"
    <3>1. SeenStatus' = SeenStatus
      BY <1>2, <2>1, <2>4 DEF StatusAt
    <3> QED
      BY <2>1, <2>2, <3>1
  <2> QED
    BY <2>3, <2>4
<1> QED
  BY <1>3, <1>4, <1>5, <1>6 DEF Proceed, Inside, Fetch

(* Every behaviour of the threads, their overlapping downloads, faults and *)
(* evictions included, is one of the service get_span promises: each call  *)
(* is answered once, with its own span or None (bodies in whole blocks).   *)
THEOREM ServesSpans ==
    ASSUME ChunkLens = {BLOCK_SIZE}
    PROVE  FetcherSpec => ImplementsService
<1>1. FetcherInit => TypeAndSlots /\ RunsPlaced /\ Contents /\ Answered
  BY InitTypeAndSlots, InitPlaced, InitContents, InitAnswered
<1>2. TypeAndSlots /\ RunsPlaced /\ Contents /\ Answered /\ [FetcherNext]_fetcherVars
          => TypeAndSlots' /\ RunsPlaced' /\ Contents' /\ Answered'
  BY NextType, NextSlots, NextPlaced, NextContents, NextAnswered DEF TypeAndSlots
<1>3. TypeAndSlots /\ RunsPlaced /\ Contents /\ Answered /\ [FetcherNext]_fetcherVars
          => [Service!ServiceNext]_(Service!serviceVars)
  <2> SUFFICES ASSUME FetcherTypeOK, RunsPlaced, Contents, Answered,
                      [FetcherNext]_fetcherVars
               PROVE  [Service!ServiceNext]_(Service!serviceVars)
    BY DEF TypeAndSlots
  <2>1. ASSUME NEW t \in Threads, GetSpan(t) \/ Proceed(t)
        PROVE  [Service!ServiceNext]_(Service!serviceVars)
    <3>1. \/ Service!Ask(t) \/ Service!Answer(t) \/ Service!Leave(t)
          \/ SeenStatus' = SeenStatus /\ SeenSpan' = SeenSpan /\ answer' = answer
      BY <2>1, ServiceStep
    <3> QED
      BY <3>1 DEF Service!ServiceNext, Service!serviceVars, SeenStatus, SeenSpan
  <2>2. CASE Stop \/ Clear \/ Quiescent \/ UNCHANGED fetcherVars
    <3>1. pc' = pc /\ call' = call /\ answer' = answer
      BY <2>2 DEF Stop, Clear, Quiescent, fetcherVars
    <3> QED
      BY <3>1 DEF Service!serviceVars
  <2> QED
    BY <2>1, <2>2 DEF FetcherNext
<1> QED
  BY <1>1, <1>2, <1>3, ServiceStarts, PTL
     DEF FetcherSpec, ImplementsService, Service!ServiceSpec
=============================================================================
