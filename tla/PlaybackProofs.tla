----------------------------- MODULE PlaybackProofs -----------------------------
(***************************************************************************)
(* Theorems of Playback: the read-ahead, the handlers and the prefetches   *)
(* are callers of RangeFetcher and nothing more, so what is proved of the  *)
(* fetcher holds while they run; the read-ahead's claims are disjoint and  *)
(* never go back, and a connection is sent a prefix of its range, for any  *)
(* number of workers and any reports.                                      *)
(***************************************************************************)
EXTENDS Playback, RangeFetcherProofs

WorkerStates == [pc : {"idle", "held", "claimed", "asked", "ended"},
                 start : 0..FileSize, end : 0..FileSize]

HandlerStates(S) == [pc : {"idle", "window", "asked", "answered"},
                     start : 0..FileSize, end : 0..FileSize,
                     pos : 0..FileSize, sent : S]

HandlersPlaced == \E S : handler \in [Handlers -> HandlerStates(S)]

(* Where the locals of the callers are; what a handler has sent is of no   *)
(* concern here.                                                           *)
CallersPlaced ==
    /\ cursor \in Nat
    /\ position \in {Unknown} \cup 0..FileSize
    /\ worker \in [Workers -> WorkerStates]
    /\ \A w \in Workers : worker[w].pc = "claimed" => worker[w].start < worker[w].end
    /\ HandlersPlaced

(* The playback position is a number of cells, known or estimated. *)
LEMMA PlayedNat ==
    ASSUME position \in {Unknown} \cup 0..FileSize
    PROVE  PlayedBytes \in Nat
<1> DEFINE Run == {i \in 0..(FileSize \div BLOCK_SIZE) :
                       \A j \in 0..i : HasBlock(cache, j)}
<1>1. FileSize \div BLOCK_SIZE \in Int
  BY CacheAssumption
<1>2. Run \in SUBSET (0..(FileSize \div BLOCK_SIZE))
  OBVIOUS
<1>3. IsFiniteSet(0..(FileSize \div BLOCK_SIZE))
  BY <1>1, FS_Interval
<1>4. IsFiniteSet(Run)
  BY <1>2, <1>3, FS_Subset
<1>5. Cardinality(Run) \in Nat
  BY <1>4, FS_CardinalityType
<1> HIDE DEF Run
<1>6. BLOCK_SIZE * Cardinality(Run) \in Nat
  BY <1>5, CacheAssumption
<1>7. ContiguousBytes \in Nat
  BY <1>6 DEF ContiguousBytes, Run
<1> QED
  BY <1>7, CacheAssumption DEF PlayedBytes, Unknown

LEMMA InitCallers == PlaybackInit => CallersPlaced
<1> SUFFICES ASSUME PlaybackInit PROVE CallersPlaced
  OBVIOUS
<1>1. handler \in [Handlers -> HandlerStates({<<>>})]
  BY CacheAssumption DEF PlaybackInit, NoRequest, HandlerStates
<1> QED
  BY <1>1, CacheAssumption, PlaybackAssumption
  DEF PlaybackInit, CallersPlaced, HandlersPlaced, WorkerStates, Waiting, Lesser

(* A worker's step moves the cursor and that worker. *)
LEMMA WorkerPlaced ==
    ASSUME CallersPlaced, NEW w \in Workers, WorkerStep(w)
    PROVE  /\ CallersPlaced'
           /\ cursor <= cursor'
<1>1. /\ cursor \in Nat
      /\ PlayedBytes \in Nat
      /\ worker \in [Workers -> WorkerStates]
      /\ worker[w] \in WorkerStates
      /\ \A u \in Workers : worker[u].pc = "claimed" => worker[u].start < worker[u].end
  BY PlayedNat DEF CallersPlaced
<1>2. /\ position' \in {Unknown} \cup 0..FileSize
      /\ HandlersPlaced'
  BY DEF WorkerStep, Enter, ClaimChunk, Doze, FetchAhead, Fetched, EndWorker,
         CallersPlaced, HandlersPlaced
<1>3. cursor' \in Nat /\ cursor <= cursor'
  BY <1>1, PlaybackAssumption
  DEF WorkerStep, Enter, ClaimChunk, Doze, FetchAhead, Fetched, EndWorker
<1>4. CASE ClaimChunk(w)
  <2>1. /\ cursor \in 0..FileSize
        /\ Lesser(cursor + CHUNK, FileSize) \in 0..FileSize
        /\ cursor < Lesser(cursor + CHUNK, FileSize)
    BY <1>1, <1>4, PlaybackAssumption, CacheAssumption
    DEF ClaimChunk, MayClaim, Lesser
  <2>2. worker' = [worker EXCEPT ![w] =
                      [pc |-> "claimed", start |-> cursor,
                       end |-> Lesser(cursor + CHUNK, FileSize)]]
    BY <1>4 DEF ClaimChunk
  <2>3. /\ worker' \in [Workers -> WorkerStates]
        /\ \A u \in Workers : worker'[u].pc = "claimed" => worker'[u].start < worker'[u].end
    BY <1>1, <2>1, <2>2 DEF WorkerStates
  <2> QED
    BY <1>2, <1>3, <2>3 DEF CallersPlaced
<1>5. CASE Enter(w) \/ FetchAhead(w)
  <2>1. \E label \in {"held", "asked"} : worker' = [worker EXCEPT ![w].pc = label]
    BY <1>5 DEF Enter, FetchAhead
  <2>2. /\ worker' \in [Workers -> WorkerStates]
        /\ \A u \in Workers : worker'[u].pc = "claimed" => worker'[u].start < worker'[u].end
    BY <1>1, <2>1 DEF WorkerStates
  <2> QED
    BY <1>2, <1>3, <2>2 DEF CallersPlaced
<1>6. CASE Doze(w) \/ Fetched(w) \/ EndWorker(w)
  <2>1. \E label \in {"idle", "ended"} :
            worker' = [worker EXCEPT ![w] = [pc |-> label, start |-> 0, end |-> 0]]
    BY <1>6 DEF Doze, Fetched, EndWorker, Waiting
  <2>2. /\ worker' \in [Workers -> WorkerStates]
        /\ \A u \in Workers : worker'[u].pc = "claimed" => worker'[u].start < worker'[u].end
    BY <1>1, <2>1, CacheAssumption DEF WorkerStates
  <2> QED
    BY <1>2, <1>3, <2>2 DEF CallersPlaced
<1> QED
  BY <1>3, <1>4, <1>5, <1>6 DEF WorkerStep

(* A handler's step, or a new request, moves that handler. *)
LEMMA HandlerPlaced ==
    ASSUME CallersPlaced, NEW h \in Handlers, Request(h) \/ HandlerStep(h)
    PROVE  /\ CallersPlaced'
           /\ cursor' = cursor
<1>1. PICK S : handler \in [Handlers -> HandlerStates(S)]
  BY DEF CallersPlaced, HandlersPlaced
<1>2. /\ cursor' = cursor /\ position' = position /\ worker' = worker
  BY DEF Request, HandlerStep, FetchWindow, Write, CutShort, EndOfRange,
         ClientGone, CloseConnection
<1>3. CASE Request(h)
  <2>1. PICK r \in Requests :
            handler' = [handler EXCEPT ![h] = [NoRequest EXCEPT
                           !.pc = "window", !.start = r[1], !.end = r[2], !.pos = r[1]]]
    BY <1>3 DEF Request
  <2>2. r[1] \in 0..FileSize /\ r[2] \in 0..FileSize
    <3>1. r \in Nat \X Nat /\ r[1] < r[2] /\ r[2] <= FileSize
      BY FetcherAssumption, PlaybackAssumption
    <3> QED
      BY <3>1, CacheAssumption
  <2>3. handler' \in [Handlers -> HandlerStates(S \cup {<<>>})]
    BY <1>1, <2>1, <2>2 DEF HandlerStates, NoRequest
  <2> QED
    BY <1>2, <2>3 DEF CallersPlaced, HandlersPlaced
<1>4. CASE FetchWindow(h) \/ CutShort(h) \/ EndOfRange(h)
  <2>1. \E label \in {"asked", "answered"} :
            handler' = [handler EXCEPT ![h].pc = label]
    BY <1>4 DEF FetchWindow, CutShort, EndOfRange
  <2>2. handler' \in [Handlers -> HandlerStates(S)]
    BY <1>1, <2>1 DEF HandlerStates
  <2> QED
    BY <1>2, <2>2 DEF CallersPlaced, HandlersPlaced
<1>5. CASE Write(h)
  <2> DEFINE grown == handler[h].sent \o answer[h]
  <2>1. WindowEnd(h) \in 0..FileSize
    BY <1>1, PlaybackAssumption, CacheAssumption DEF WindowEnd, Lesser, HandlerStates
  <2>2. handler' = [handler EXCEPT ![h].pc = "window", ![h].sent = grown,
                                   ![h].pos = WindowEnd(h)]
    BY <1>5 DEF Write
  <2> HIDE DEF grown
  <2>3. \A b \in Handlers : handler[b] \in HandlerStates(S \cup {grown})
    BY <1>1 DEF HandlerStates
  <2>4. [handler[h] EXCEPT !.pc = "window", !.sent = grown, !.pos = WindowEnd(h)]
            \in HandlerStates(S \cup {grown})
    BY <2>1, <2>3 DEF HandlerStates
  <2>5. handler' = [handler EXCEPT ![h] =
            [handler[h] EXCEPT !.pc = "window", !.sent = grown, !.pos = WindowEnd(h)]]
    BY <1>1, <2>2
  <2>6. handler' \in [Handlers -> HandlerStates(S \cup {grown})]
    BY <1>1, <2>3, <2>4, <2>5
  <2> QED
    BY <1>2, <2>6 DEF CallersPlaced, HandlersPlaced
<1>6. CASE ClientGone(h) \/ CloseConnection(h)
  <2>1. handler' = [handler EXCEPT ![h] = NoRequest]
    BY <1>6 DEF ClientGone, CloseConnection
  <2>2. NoRequest \in HandlerStates(S \cup {<<>>})
    BY CacheAssumption DEF NoRequest, HandlerStates
  <2>3. handler' \in [Handlers -> HandlerStates(S \cup {<<>>})]
    BY <1>1, <2>1, <2>2 DEF HandlerStates
  <2> QED
    BY <1>2, <2>3 DEF CallersPlaced, HandlersPlaced
<1> QED
  BY <1>2, <1>3, <1>4, <1>5, <1>6 DEF HandlerStep

(* Nothing else moves the read-ahead or a handler. *)
LEMMA OtherSteps ==
    ASSUME CallersPlaced,
           \/ \E t \in Threads : Inside(t) /\ Untouched
           \/ \E f \in Prefetchers : PrefetchStep(f)
           \/ \E p \in Reports : Report(p)
           \/ (Stop \/ Clear) /\ Untouched
           \/ AllOver
           \/ UNCHANGED playbackVars
    PROVE  /\ CallersPlaced'
           /\ cursor' = cursor
           /\ worker' = worker
<1>1. cursor' = cursor /\ worker' = worker /\ handler' = handler
  BY DEF Untouched, PrefetchStep, Prefetch, Prefetched, Report, AllOver, playbackVars
<1>2. position' \in {Unknown} \cup 0..FileSize
  <2>1. CASE \E p \in Reports : Report(p)
    BY <2>1, PlaybackAssumption DEF Report
  <2> QED
    BY <2>1 DEF Untouched, PrefetchStep, Prefetch, Prefetched, AllOver,
                playbackVars, CallersPlaced
<1> QED
  BY <1>1, <1>2 DEF CallersPlaced, HandlersPlaced

LEMMA NextCallers ==
    ASSUME CallersPlaced, [PlaybackNext]_playbackVars
    PROVE  /\ CallersPlaced'
           /\ cursor <= cursor'
BY WorkerPlaced, HandlerPlaced, OtherSteps DEF PlaybackNext, CallersPlaced

(* The read-ahead never goes back (ReadAhead._cursor), whatever positions  *)
(* are reported and in whatever order the workers come.                    *)
THEOREM OnlyForward == PlaybackSpec => CursorForward
<1>1. CallersPlaced /\ [PlaybackNext]_playbackVars => CallersPlaced'
  BY NextCallers
<1>2. CallersPlaced /\ [PlaybackNext]_playbackVars => [cursor <= cursor']_playbackVars
  BY NextCallers
<1> QED
  BY InitCallers, <1>1, <1>2, PTL DEF PlaybackSpec, CursorForward

-----------------------------------------------------------------------------
(* The chunks.                                                             *)

LEMMA NextChunks ==
    ASSUME CallersPlaced, ChunksDisjoint, [PlaybackNext]_playbackVars
    PROVE  ChunksDisjoint'
<1>1. /\ cursor \in Nat
      /\ cursor <= cursor'
      /\ worker \in [Workers -> WorkerStates]
  BY NextCallers DEF CallersPlaced
<1>2. ASSUME NEW w \in Workers, ClaimChunk(w)
      PROVE  ChunksDisjoint'
  <2>1. /\ worker' = [worker EXCEPT ![w] =
                         [pc |-> "claimed", start |-> cursor,
                          end |-> Lesser(cursor + CHUNK, FileSize)]]
        /\ cursor' = cursor + CHUNK
    BY <1>2 DEF ClaimChunk
  <2>2. Lesser(cursor + CHUNK, FileSize) <= cursor'
    BY <1>1, <2>1, CacheAssumption, PlaybackAssumption DEF Lesser
  <2>3. ASSUME NEW u \in Workers, u # w, AtWork(u)'
        PROVE  AtWork(u) /\ worker'[u] = worker[u] /\ worker[u].end <= cursor
    BY <1>1, <2>1, <2>3 DEF AtWork, ChunksDisjoint
  <2>4. worker'[w].start = cursor /\ worker'[w].end = Lesser(cursor + CHUNK, FileSize)
    BY <1>1, <2>1
  <2>5. \A u \in Workers : AtWork(u)' => worker'[u].end <= cursor'
    <3> SUFFICES ASSUME NEW u \in Workers, AtWork(u)'
                 PROVE  worker'[u].end <= cursor'
      OBVIOUS
    <3>1. CASE u = w
      BY <2>2, <2>4, <3>1
    <3>2. CASE u # w
      <4>1. worker'[u].end <= cursor /\ worker'[u].end \in Nat
        BY <1>1, <2>3, <3>2, CacheAssumption DEF WorkerStates
      <4> QED
        BY <1>1, <2>1, <4>1, PlaybackAssumption
    <3> QED
      BY <3>1, <3>2
  <2>6. \A u, v \in Workers : AtWork(u)' /\ AtWork(v)' /\ u # v =>
            \/ worker'[u].end <= worker'[v].start
            \/ worker'[v].end <= worker'[u].start
    <3> SUFFICES ASSUME NEW u \in Workers, NEW v \in Workers,
                        AtWork(u)', AtWork(v)', u # v
                 PROVE  \/ worker'[u].end <= worker'[v].start
                        \/ worker'[v].end <= worker'[u].start
      OBVIOUS
    <3>1. CASE u = w
      BY <2>3, <2>4, <3>1
    <3>2. CASE v = w
      BY <2>3, <2>4, <3>2
    <3>3. CASE u # w /\ v # w
      BY <2>3, <3>3 DEF ChunksDisjoint
    <3> QED
      BY <3>1, <3>2, <3>3
  <2> QED
    BY <2>5, <2>6 DEF ChunksDisjoint
<1>3. ASSUME \A w \in Workers : AtWork(w)' => AtWork(w) /\ worker'[w].start = worker[w].start
                                                        /\ worker'[w].end = worker[w].end
      PROVE  ChunksDisjoint'
  <2>1. \A w \in Workers : worker[w].end \in Nat
    BY <1>1, CacheAssumption DEF WorkerStates
  <2>2. cursor' \in Nat
    BY NextCallers DEF CallersPlaced
  <2> QED
    BY <1>1, <1>3, <2>1, <2>2 DEF ChunksDisjoint
<1>4. ASSUME NEW w \in Workers, WorkerStep(w), ~ClaimChunk(w)
      PROVE  ChunksDisjoint'
  <2>1. \/ /\ Enter(w)
           /\ worker' = [worker EXCEPT ![w].pc = "held"]
        \/ /\ worker[w].pc = "claimed"
           /\ worker' = [worker EXCEPT ![w].pc = "asked"]
        \/ \E label \in {"idle", "ended"} :
               worker' = [worker EXCEPT ![w] = [pc |-> label, start |-> 0, end |-> 0]]
    BY <1>4 DEF WorkerStep, Enter, FetchAhead, Doze, Fetched, EndWorker, Waiting
  <2>2. \A u \in Workers : AtWork(u)' => AtWork(u) /\ worker'[u].start = worker[u].start
                                                   /\ worker'[u].end = worker[u].end
    BY <1>1, <2>1 DEF AtWork, WorkerStates
  <2> QED
    BY <1>3, <2>2
<1>5. CASE worker' = worker
  BY <1>3, <1>5 DEF AtWork
<1>6. CASE ~\E w \in Workers : WorkerStep(w)
  <2>1. worker' = worker
    BY <1>6, HandlerPlaced, OtherSteps
    DEF PlaybackNext, Request, HandlerStep, FetchWindow, Write, CutShort,
        EndOfRange, ClientGone, CloseConnection
  <2> QED
    BY <1>5, <2>1
<1> QED
  BY <1>2, <1>4, <1>6

(* No two workers ever claim a cell in common (ReadAhead._worker): with    *)
(* any number of workers, jumps and reports, "non-overlapping chunks".     *)
THEOREM ChunksApart == PlaybackSpec => []ChunksDisjoint
<1>1. PlaybackInit => ChunksDisjoint
  BY DEF PlaybackInit, ChunksDisjoint, AtWork, Waiting
<1>2. CallersPlaced /\ [PlaybackNext]_playbackVars => CallersPlaced'
  BY NextCallers
<1>3. CallersPlaced /\ ChunksDisjoint /\ [PlaybackNext]_playbackVars => ChunksDisjoint'
  BY NextChunks
<1> QED
  BY InitCallers, <1>1, <1>2, <1>3, PTL DEF PlaybackSpec

-----------------------------------------------------------------------------
(* The callers of the fetcher.                                             *)

(* Whoever asks, asks for a span the fetcher serves.                       *)
LEMMA NextFetcher ==
    ASSUME CallersPlaced, [PlaybackNext]_playbackVars
    PROVE  [FetcherNext]_fetcherVars
<1>1. ASSUME NEW t \in Threads, Proceed(t)
      PROVE  FetcherNext
  BY <1>1 DEF FetcherNext
<1>2. ASSUME NEW t \in Threads, NEW span \in SpansOf(t), AskFor(t, span)
      PROVE  FetcherNext
  BY <1>2 DEF FetcherNext, GetSpan
<1>3. ASSUME NEW w \in Workers, WorkerStep(w)
      PROVE  [FetcherNext]_fetcherVars
  <2>1. w \in Threads
    BY DEF Threads
  <2>2. CASE FetchAhead(w)
    <3>1. /\ worker[w].start \in 0..FileSize
          /\ worker[w].end \in 0..FileSize
          /\ worker[w].start < worker[w].end
      BY <2>2 DEF CallersPlaced, WorkerStates, FetchAhead
    <3>2. <<worker[w].start, worker[w].end>> \in SpansOf(w)
      BY <3>1, PlaybackAssumption DEF SpansOf
    <3> QED
      BY <1>2, <2>1, <2>2, <3>2 DEF FetchAhead
  <2>3. CASE Fetched(w)
    BY <1>1, <2>1, <2>3 DEF Fetched, Proceed
  <2> QED
    BY <1>3, <2>2, <2>3 DEF WorkerStep, Enter, ClaimChunk, Doze, EndWorker
<1>4. ASSUME NEW h \in Handlers, HandlerStep(h) \/ Request(h)
      PROVE  [FetcherNext]_fetcherVars
  <2>1. h \in Threads /\ h \notin Workers
    BY PlaybackAssumption, FetcherAssumption DEF Threads
  <2>2. CASE FetchWindow(h)
    <3>1. PICK S : handler \in [Handlers -> HandlerStates(S)]
      BY DEF CallersPlaced, HandlersPlaced
    <3>2. /\ handler[h].pos \in 0..FileSize
          /\ WindowEnd(h) \in 0..FileSize
          /\ handler[h].pos < WindowEnd(h)
      BY <2>2, <3>1, PlaybackAssumption, CacheAssumption, SMTT(30)
      DEF HandlerStates, FetchWindow, WindowEnd, Lesser
    <3>3. <<handler[h].pos, WindowEnd(h)>> \in SpansOf(h)
      BY <2>1, <3>2, PlaybackAssumption DEF SpansOf
    <3> QED
      BY <1>2, <2>1, <2>2, <3>3 DEF FetchWindow
  <2>3. CASE Write(h) \/ CutShort(h) \/ ClientGone(h)
    BY <1>1, <2>1, <2>3 DEF Write, CutShort, ClientGone, Proceed
  <2> QED
    BY <1>4, <2>2, <2>3 DEF HandlerStep, Request, EndOfRange, CloseConnection
<1>5. ASSUME NEW f \in Prefetchers, PrefetchStep(f)
      PROVE  [FetcherNext]_fetcherVars
  <2>1. f \in Threads /\ f \notin Workers
    BY PlaybackAssumption, FetcherAssumption DEF Threads
  <2>2. CASE Prefetch(f)
    BY <1>2, <2>1, <2>2, PlaybackAssumption DEF Prefetch, SpansOf
  <2>3. CASE Prefetched(f)
    BY <1>1, <2>1, <2>3 DEF Prefetched, Proceed
  <2> QED
    BY <1>5, <2>2, <2>3 DEF PrefetchStep
<1>6. ASSUME NEW t \in Threads, Inside(t)
      PROVE  FetcherNext
  BY <1>1, <1>6 DEF Proceed
<1>7. CASE (Stop \/ Clear) \/ AllOver \/ (\E p \in Reports : Report(p))
           \/ UNCHANGED playbackVars
  BY <1>7 DEF FetcherNext, AllOver, Report, playbackVars
<1> QED
  BY <1>3, <1>4, <1>5, <1>6, <1>7 DEF PlaybackNext

(* The read-ahead, the handlers and the prefetches use the fetcher as its  *)
(* specification allows: Playback implements RangeFetcher.                 *)
THEOREM UsesFetcher == PlaybackSpec => FetcherSpec
<1>1. PlaybackInit => FetcherInit
  BY DEF PlaybackInit
<1>2. CallersPlaced /\ [PlaybackNext]_playbackVars => CallersPlaced'
  BY NextCallers
<1>3. CallersPlaced /\ [PlaybackNext]_playbackVars => [FetcherNext]_fetcherVars
  BY NextFetcher
<1> QED
  BY InitCallers, <1>1, <1>2, <1>3, PTL DEF PlaybackSpec, FetcherSpec

(* So while a media plays no permit of a connection is lost, no run is     *)
(* downloaded twice at once, and no download leaves its run.               *)
THEOREM FetcherSound == PlaybackSpec => [](SlotsExact /\ OneOwner /\ InsideRun)
BY UsesFetcher, PermitsKept, DownloadsOwned, DownloadsInside, PTL

(* And with bodies that come in whole blocks, what the player is sent is   *)
(* read from blocks that are the media's own.                              *)
THEOREM PlayedExact ==
    ASSUME ChunkLens = {BLOCK_SIZE}
    PROVE  PlaybackSpec => []CacheHoldsMedia
BY UsesFetcher, BlocksExact, PTL

-----------------------------------------------------------------------------
(* What the fetcher promises its callers, it promises the playback.        *)

(* The cache's accounts balance and no buffer is a whole block, whatever   *)
(* the read-ahead, the handlers and the prefetches do to the cache.        *)
THEOREM PlayedAccounts == PlaybackSpec => [](ResidentExact /\ PendingIncomplete)
BY UsesFetcher, AccountsKept, PTL

(* Every call of theirs is answered once, with its own span or None.       *)
THEOREM PlayedServed ==
    ASSUME ChunkLens = {BLOCK_SIZE}
    PROVE  PlaybackSpec => ImplementsService
BY UsesFetcher, ServesSpans, PTL

(* And with its span, while the session is open, the remote answers and    *)
(* the media fits the cache: read-ahead, prefetches and handlers never     *)
(* turn a client away between them.                                        *)
THEOREM PlayedClients ==
    ASSUME ChunkLens = {BLOCK_SIZE}, FileSize <= capacity
    PROVE  PlaybackSpec => []FetchableServed
BY UsesFetcher, ClientsServed, PTL

-----------------------------------------------------------------------------
(* What a connection has been sent.                                        *)

WindowOf(r) == Lesser(r.pos + SERVE_CHUNK, r.end)

(* The locals r of a handler against those of its call of get_span, c: it  *)
(* has sent its range up to pos, and asks for the window from pos on.      *)
Serving(r, c) ==
    /\ r.pc = "idle" => r = NoRequest
    /\ r.pc # "idle" =>
           /\ r.start < r.end /\ r.start <= r.pos /\ r.pos <= r.end
           /\ r.sent = Cells(r.start, r.pos - r.start)
    /\ r.pc = "asked" => r.pos < r.end /\ c.start = r.pos /\ c.end = WindowOf(r)

AllServing == \A h \in Handlers : Serving(handler[h], call[h])

(* The record of a handler, without what it has sent. *)
LEMMA HandlerFields ==
    ASSUME CallersPlaced, NEW h \in Handlers
    PROVE  /\ handler = [g \in Handlers |-> handler[g]]
           /\ handler[h].start \in Nat /\ handler[h].end \in Nat /\ handler[h].pos \in Nat
           /\ handler[h].end <= FileSize
           /\ handler[h].pc \in {"idle", "window", "asked", "answered"}
           /\ handler[h] = [pc |-> handler[h].pc, start |-> handler[h].start,
                            end |-> handler[h].end, pos |-> handler[h].pos,
                            sent |-> handler[h].sent]
<1>1. PICK S : handler \in [Handlers -> HandlerStates(S)]
  BY DEF CallersPlaced, HandlersPlaced
<1> QED
  BY <1>1, CacheAssumption DEF HandlerStates

(* A call keeps its span until it returns. *)
LEMMA SpanKept ==
    ASSUME FetcherTypeOK, NEW t \in Threads, Inside(t)
    PROVE  call'[t].start = call[t].start /\ call'[t].end = call[t].end
<1>1. call \in [Threads -> Calls] /\ call[t] \in Calls
  BY DEF FetcherTypeOK
<1>2. CASE Fetch(t)
  BY <1>1, <1>2
  DEF Fetch, FetchCancelled, Connect, ReceiveChunk, StoreChunk, FetchError, FetchShort,
      FetchBreak, EndFetch, Local, Calls
<1>3. CASE \/ ScanHit(t) \/ ScanMiss(t) \/ Recheck(t) \/ ReadBack(t) \/ Claim(t)
           \/ Join(t) \/ AcquireSlot(t) \/ ReleaseSlot(t) \/ Retire(t) \/ Wake(t)
           \/ Verify(t)
  BY <1>1, <1>3
  DEF ScanHit, ScanMiss, Recheck, ReadBack, Claim, Join, AcquireSlot, ReleaseSlot,
      Retire, Wake, Verify, GiveUp, Local, Calls
<1> QED
  BY <1>2, <1>3 DEF Inside

(* What a step of a handler, or a new request, does to that handler, and   *)
(* to what MediaResponse sees of it.                                       *)
SeenRange == [h \in Handlers |-> <<handler[h].start, handler[h].end>>]
SeenSent  == [h \in Handlers |-> handler[h].sent]
SeenOpen  == [h \in Handlers |-> handler[h].pc \in {"window", "asked"}]

LEMMA HandlerOnly ==
    ASSUME CallersPlaced, NEW h \in Handlers, Request(h) \/ HandlerStep(h)
    PROVE  handler' = [handler EXCEPT ![h] = handler'[h]]
<1>1. handler = [g \in Handlers |-> handler[g]]
  BY HandlerFields
<1>2. PICK r : handler' = [handler EXCEPT ![h] = r]
  BY DEF Request, HandlerStep, FetchWindow, Write, CutShort, EndOfRange, ClientGone,
         CloseConnection
<1> QED
  BY <1>1, <1>2

LEMMA SeenHandler ==
    ASSUME CallersPlaced, NEW h \in Handlers, Request(h) \/ HandlerStep(h)
    PROVE  /\ SeenRange' = [SeenRange EXCEPT ![h] = <<handler'[h].start, handler'[h].end>>]
           /\ SeenSent' = [SeenSent EXCEPT ![h] = handler'[h].sent]
           /\ SeenOpen' = [SeenOpen EXCEPT ![h] = handler'[h].pc \in {"window", "asked"}]
<1>1. \A g \in Handlers \ {h} : handler'[g] = handler[g]
  BY HandlerOnly, HandlerFields
<1> QED
  BY <1>1 DEF SeenRange, SeenSent, SeenOpen

LEMMA HandlerServes ==
    ASSUME CallersPlaced, FetcherTypeOK, Answered, AllServing, NEW h \in Handlers,
           Request(h) \/ HandlerStep(h)
    PROVE  /\ Serving(handler'[h], call'[h])
           /\ \/ Response!Accept(h) \/ Response!Send(h) \/ Response!Finish(h)
              \/ Response!Leave(h)
              \/ SeenRange' = SeenRange /\ SeenSent' = SeenSent /\ SeenOpen' = SeenOpen
<1> DEFINE r == handler[h]
           n == WindowOf(r) - r.pos
<1>1. /\ Serving(r, call[h])
      /\ r.start \in Nat /\ r.end \in Nat /\ r.pos \in Nat
      /\ r.pc \in {"idle", "window", "asked", "answered"}
      /\ r = [pc |-> r.pc, start |-> r.start, end |-> r.end, pos |-> r.pos, sent |-> r.sent]
      /\ handler = [g \in Handlers |-> handler[g]]
      /\ h \in Threads
      /\ call = [t \in Threads |-> call[t]]
      /\ call[h] \in Calls
  BY HandlerFields, PlaybackAssumption DEF AllServing, Threads, FetcherTypeOK
<1>2. /\ SeenRange[h] = <<r.start, r.end>>
      /\ SeenSent[h] = r.sent
      /\ SeenOpen[h] = (r.pc \in {"window", "asked"})
      /\ SeenRange = [SeenRange EXCEPT ![h] = SeenRange[h]]
      /\ SeenSent = [SeenSent EXCEPT ![h] = SeenSent[h]]
      /\ SeenOpen = [SeenOpen EXCEPT ![h] = SeenOpen[h]]
  BY DEF SeenRange, SeenSent, SeenOpen
<1>3. /\ SeenRange' = [SeenRange EXCEPT ![h] = <<handler'[h].start, handler'[h].end>>]
      /\ SeenSent' = [SeenSent EXCEPT ![h] = handler'[h].sent]
      /\ SeenOpen' = [SeenOpen EXCEPT ![h] = handler'[h].pc \in {"window", "asked"}]
  BY SeenHandler
<1> HIDE DEF r
<1>4. CASE Request(h)
  <2>1. PICK q \in Requests :
            handler' = [handler EXCEPT ![h] = [NoRequest EXCEPT
                           !.pc = "window", !.start = q[1], !.end = q[2], !.pos = q[1]]]
    BY <1>4 DEF Request
  <2>2. q \in Nat \X Nat /\ q[1] < q[2]
    BY FetcherAssumption, PlaybackAssumption
  <2>3. q = <<q[1], q[2]>> /\ q[1] \in Nat /\ q[2] \in Nat
    BY <2>2
  <2>4. handler'[h] = [pc |-> "window", start |-> q[1], end |-> q[2], pos |-> q[1],
                       sent |-> <<>>]
    BY <1>1, <2>1 DEF NoRequest
  <2>5. q[1] - q[1] = 0 /\ Cells(q[1], 0) = <<>>
    BY <2>3 DEF Cells
  <2>6. Serving(handler'[h], call'[h])
    BY <2>2, <2>3, <2>4, <2>5 DEF Serving
  <2>7. r.pc = "idle"
    BY <1>4 DEF Request, r
  <2>8. /\ SeenRange[h] = Response!NoRange
        /\ SeenSent' = SeenSent
        /\ SeenRange' = [SeenRange EXCEPT ![h] = q]
    <3>1. r.start = 0 /\ r.end = 0 /\ r.sent = <<>>
      BY <1>1, <2>7 DEF Serving, NoRequest
    <3>2. handler'[h].start = q[1] /\ handler'[h].end = q[2] /\ handler'[h].sent = <<>>
      BY <2>4
    <3>3. SeenRange[h] = <<0, 0>> /\ SeenSent[h] = <<>>
      BY <1>2, <3>1
    <3>4. SeenSent' = [SeenSent EXCEPT ![h] = <<>>]
      BY <1>3, <3>2
    <3>5. SeenSent' = SeenSent
      BY <1>2, <3>3, <3>4
    <3>6. SeenRange' = [SeenRange EXCEPT ![h] = <<q[1], q[2]>>]
      BY <1>3, <3>2
    <3> QED
      BY <2>3, <3>3, <3>5, <3>6 DEF Response!NoRange
  <2>9. SeenOpen' = [SeenOpen EXCEPT ![h] = TRUE]
    <3>1. (handler'[h].pc \in {"window", "asked"}) = TRUE
      BY <2>4
    <3> QED
      BY <1>3, <3>1
  <2>10. Response!Accept(h)
    BY <2>8, <2>9 DEF Response!Accept, SeenRange, SeenSent, SeenOpen
  <2> QED
    BY <2>6, <2>10
<1>5. CASE FetchWindow(h)
  <2>1. /\ r.pc = "window" /\ r.pos < r.end
        /\ handler'[h] = [r EXCEPT !.pc = "asked"]
        /\ call'[h].start = r.pos /\ call'[h].end = WindowOf(r)
    BY <1>1, <1>5 DEF FetchWindow, AskFor, WindowEnd, WindowOf, NoCall, r
  <2>2. /\ handler'[h].pc = "asked" /\ handler'[h].start = r.start
        /\ handler'[h].end = r.end /\ handler'[h].pos = r.pos
        /\ handler'[h].sent = r.sent
    BY <1>1, <2>1
  <2>3. WindowOf(handler'[h]) = WindowOf(r)
    BY <2>2 DEF WindowOf
  <2>4. Serving(handler'[h], call'[h])
    BY <1>1, <2>1, <2>2, <2>3 DEF Serving
  <2>5. SeenRange' = SeenRange /\ SeenSent' = SeenSent /\ SeenOpen' = SeenOpen
    BY <1>2, <1>3, <2>1, <2>2
  <2> QED
    BY <2>4, <2>5
<1>6. CASE Write(h)
  <2>1. /\ r.pc = "asked" /\ pc[h] = "returned" /\ answer[h] # None
        /\ handler' = [handler EXCEPT ![h].pc = "window", ![h].sent = @ \o answer[h],
                                      ![h].pos = WindowEnd(h)]
    BY <1>6 DEF Write, Return, r
  <2>2. /\ r.start < r.end /\ r.start <= r.pos /\ r.pos < r.end
        /\ r.sent = Cells(r.start, r.pos - r.start)
        /\ call[h].start = r.pos /\ call[h].end = WindowOf(r)
    BY <1>1, <2>1 DEF Serving
  <2>3. /\ WindowOf(r) \in Nat /\ r.pos < WindowOf(r) /\ WindowOf(r) <= r.end
        /\ n \in Nat /\ n >= 1
    BY <1>1, <2>2, PlaybackAssumption DEF WindowOf, Lesser
  <2>4. answer[h] = Cells(r.pos, n)
    BY <1>1, <2>1, <2>2 DEF Answered, Exact
  <2>5. handler'[h] = [pc |-> "window", start |-> r.start, end |-> r.end,
                       pos |-> WindowOf(r), sent |-> r.sent \o Cells(r.pos, n)]
    BY <1>1, <2>1, <2>4 DEF WindowEnd, WindowOf, r
  <2> DEFINE k == r.pos - r.start
  <2>6. k \in Nat /\ r.start + k = r.pos /\ k + n = WindowOf(r) - r.start
    BY <1>1, <2>2, <2>3
  <2>7. r.sent = Cells(r.start, k)
    BY <2>2
  <2> HIDE DEF k, n
  <2>8. /\ Cells(r.start, k) \o Cells(r.start + k, n) = Cells(r.start, k + n)
        /\ Len(Cells(r.start, k)) = k
    BY <1>1, <2>3, <2>6, CellsJoin, CellsSeq
  <2>9. handler'[h].sent = Cells(r.start, WindowOf(r) - r.start)
    BY <2>5, <2>6, <2>7, <2>8
  <2>10. Serving(handler'[h], call'[h])
    BY <1>1, <2>2, <2>3, <2>5, <2>9 DEF Serving
  <2>11. /\ Response!MediaFrom(r.start + k, n) = Cells(r.pos, n)
         /\ n \in 1..(r.end - r.start - k)
    BY <1>1, <2>2, <2>3, <2>6 DEF Response!MediaFrom, Cells, n
  <2>12. SeenOpen[h] /\ SeenOpen' = SeenOpen
    <3>1. /\ (handler'[h].pc \in {"window", "asked"}) = TRUE
          /\ (r.pc \in {"window", "asked"}) = TRUE
      BY <2>1, <2>5
    <3> QED
      BY <1>2, <1>3, <3>1
  <2>13. /\ SeenRange' = SeenRange
         /\ SeenSent' = [SeenSent EXCEPT ![h] =
                            SeenSent[h] \o Response!MediaFrom(r.start + k, n)]
         /\ Len(SeenSent[h]) = k
         /\ SeenRange[h][1] = r.start /\ SeenRange[h][2] = r.end
    <3>1. /\ handler'[h].start = r.start /\ handler'[h].end = r.end
          /\ handler'[h].sent = r.sent \o Cells(r.pos, n)
      <4> DEFINE grown == r.sent \o Cells(r.pos, n)
      <4>1. handler'[h] = [pc |-> "window", start |-> r.start, end |-> r.end,
                           pos |-> WindowOf(r), sent |-> grown]
        BY <2>5
      <4> HIDE DEF grown
      <4>2. /\ handler'[h].start = r.start /\ handler'[h].end = r.end
            /\ handler'[h].sent = grown
        BY <4>1
      <4> QED
        BY <4>2 DEF grown
    <3>2. SeenRange' = SeenRange
      BY <1>2, <1>3, <3>1
    <3>3. SeenSent' = [SeenSent EXCEPT ![h] = r.sent \o Cells(r.pos, n)]
      BY <1>3, <3>1
    <3>4. SeenSent[h] \o Response!MediaFrom(r.start + k, n) = r.sent \o Cells(r.pos, n)
      BY <1>2, <2>11
    <3>5. Len(SeenSent[h]) = k
      BY <1>2, <2>7, <2>8
    <3>6. SeenRange[h][1] = r.start /\ SeenRange[h][2] = r.end
      BY <1>2
    <3> QED
      BY <3>2, <3>3, <3>4, <3>5, <3>6
  <2>14. Response!Send(h)
    <3>1. SeenOpen[h] = TRUE
      BY <2>12
    <3>2. n \in 1..(SeenRange[h][2] - SeenRange[h][1] - Len(SeenSent[h]))
      BY <2>11, <2>13
    <3>3. SeenSent' = [SeenSent EXCEPT ![h] =
                          @ \o Response!MediaFrom(SeenRange[h][1] + Len(@), n)]
      BY <2>13
    <3>4. /\ SeenOpen[h]
          /\ \E l \in 1..(SeenRange[h][2] - SeenRange[h][1] - Len(SeenSent[h])) :
                SeenSent' = [SeenSent EXCEPT ![h] =
                                @ \o Response!MediaFrom(SeenRange[h][1] + Len(@), l)]
          /\ UNCHANGED <<SeenRange, SeenOpen>>
      BY <2>12, <2>13, <3>1, <3>2, <3>3
    <3> QED
      BY <3>4, Zenon DEF Response!Send, SeenRange, SeenSent, SeenOpen
  <2> QED
    BY <2>10, <2>14
<1>7. CASE CutShort(h) \/ EndOfRange(h)
  <2>1. r.pc \in {"asked", "window"} /\ handler'[h] = [r EXCEPT !.pc = "answered"]
    BY <1>1, <1>7 DEF CutShort, EndOfRange, r
  <2>2. /\ handler'[h].pc = "answered" /\ handler'[h].start = r.start
        /\ handler'[h].end = r.end /\ handler'[h].pos = r.pos
        /\ handler'[h].sent = r.sent
    BY <1>1, <2>1
  <2>3. Serving(handler'[h], call'[h])
    BY <1>1, <2>1, <2>2 DEF Serving
  <2>4. SeenRange' = SeenRange /\ SeenSent' = SeenSent
    BY <1>2, <1>3, <2>2
  <2>5. SeenOpen[h] /\ SeenOpen' = [SeenOpen EXCEPT ![h] = FALSE]
    <3>1. /\ (handler'[h].pc \in {"window", "asked"}) = FALSE
          /\ (r.pc \in {"window", "asked"}) = TRUE
      BY <2>1, <2>2
    <3> QED
      BY <1>2, <1>3, <3>1
  <2>6. Response!Finish(h)
    BY <2>4, <2>5 DEF Response!Finish, SeenRange, SeenSent, SeenOpen
  <2> QED
    BY <2>3, <2>6
<1>8. CASE ClientGone(h) \/ CloseConnection(h)
  <2>1. r.pc \in {"asked", "answered"} /\ handler'[h] = NoRequest
    BY <1>1, <1>8 DEF ClientGone, CloseConnection, r
  <2>2. Serving(handler'[h], call'[h])
    BY <2>1 DEF Serving, NoRequest
  <2>3. /\ SeenRange[h] # Response!NoRange
        /\ SeenRange' = [SeenRange EXCEPT ![h] = Response!NoRange]
        /\ SeenSent' = [SeenSent EXCEPT ![h] = <<>>]
    <3>1. r.start < r.end
      BY <1>1, <2>1 DEF Serving
    <3>2. r.start # 0 \/ r.end # 0
      BY <1>1, <3>1
    <3>3. <<r.start, r.end>> # <<0, 0>>
      BY <3>2
    <3> QED
      BY <1>2, <1>3, <2>1, <3>3 DEF Response!NoRange, NoRequest
  <2>4. SeenOpen' = [SeenOpen EXCEPT ![h] = FALSE]
    <3>1. (handler'[h].pc \in {"window", "asked"}) = FALSE
      BY <2>1 DEF NoRequest
    <3> QED
      BY <1>3, <3>1
  <2>5. Response!Leave(h)
    BY <2>3, <2>4 DEF Response!Leave, SeenRange, SeenSent, SeenOpen
  <2> QED
    BY <2>2, <2>5
<1> QED
  BY <1>4, <1>5, <1>6, <1>7, <1>8 DEF HandlerStep

(* The calls and the locals of the other handlers are left alone. *)
LEMMA OthersServing ==
    ASSUME FetcherTypeOK, AllServing, NEW g \in Handlers, handler'[g] = handler[g],
           \/ call'[g] = call[g]
           \/ call'[g].start = call[g].start /\ call'[g].end = call[g].end
    PROVE  Serving(handler'[g], call'[g])
BY DEF AllServing, Serving

LEMMA CallsApart ==
    ASSUME FetcherTypeOK, NEW t \in Threads, NEW u \in Threads \ {t},
           \/ \E span : AskFor(t, span)
           \/ Return(t)
           \/ UNCHANGED fetcherVars
    PROVE  call'[u] = call[u]
<1>1. call = [v \in Threads |-> call[v]]
  BY DEF FetcherTypeOK
<1> QED
  BY <1>1 DEF AskFor, Return, fetcherVars

LEMMA NextServing ==
    ASSUME CallersPlaced, FetcherTypeOK, Answered, AllServing,
           [PlaybackNext]_playbackVars
    PROVE  /\ AllServing'
           /\ [Response!ResponseNext]_(Response!responseVars)
<1>1. /\ Handlers \subseteq Threads /\ Workers \subseteq Threads
      /\ Prefetchers \subseteq Threads
      /\ Handlers \cap Workers = {} /\ Handlers \cap Prefetchers = {}
  BY PlaybackAssumption, FetcherAssumption DEF Threads
<1>2. ASSUME handler' = handler,
             \A h \in Handlers : \/ call'[h] = call[h]
                                 \/ /\ call'[h].start = call[h].start
                                    /\ call'[h].end = call[h].end
      PROVE  /\ AllServing'
             /\ [Response!ResponseNext]_(Response!responseVars)
  <2>1. AllServing'
    BY <1>2, OthersServing DEF AllServing
  <2>2. UNCHANGED Response!responseVars
    BY <1>2 DEF Response!responseVars
  <2> QED
    BY <2>1, <2>2
<1>3. ASSUME NEW h \in Handlers, Request(h) \/ HandlerStep(h)
      PROVE  /\ AllServing'
             /\ [Response!ResponseNext]_(Response!responseVars)
  <2>1. /\ Serving(handler'[h], call'[h])
        /\ \/ Response!Accept(h) \/ Response!Send(h) \/ Response!Finish(h)
           \/ Response!Leave(h)
           \/ SeenRange' = SeenRange /\ SeenSent' = SeenSent /\ SeenOpen' = SeenOpen
    BY <1>3, HandlerServes
  <2>2. \A g \in Handlers \ {h} : handler'[g] = handler[g]
    BY <1>3, HandlerOnly, HandlerFields
  <2>3. \A g \in Handlers \ {h} : call'[g] = call[g]
    <3>1. \/ \E span : AskFor(h, span)
          \/ Return(h)
          \/ UNCHANGED fetcherVars
      BY <1>3 DEF Request, HandlerStep, FetchWindow, Write, CutShort, EndOfRange,
                  ClientGone, CloseConnection
    <3> QED
      BY <1>1, <3>1, CallsApart
  <2>4. AllServing'
    BY <2>1, <2>2, <2>3, OthersServing DEF AllServing
  <2>5. [Response!ResponseNext]_(Response!responseVars)
    BY <2>1 DEF Response!ResponseNext, Response!responseVars, SeenRange, SeenSent,
                SeenOpen
  <2> QED
    BY <2>4, <2>5
<1>4. ASSUME NEW t \in Threads, Inside(t), Untouched
      PROVE  /\ AllServing'
             /\ [Response!ResponseNext]_(Response!responseVars)
  <2>1. handler' = handler
    BY <1>4 DEF Untouched
  <2>2. call'[t].start = call[t].start /\ call'[t].end = call[t].end
    BY <1>4, SpanKept
  <2>3. \A h \in Threads \ {t} : call'[h] = call[h]
    BY <1>4, OthersUntouched DEF Proceed
  <2> QED
    BY <1>1, <1>2, <2>1, <2>2, <2>3
<1>5. ASSUME NEW t \in Threads \ Handlers,
             \/ t \in Workers /\ WorkerStep(t)
             \/ t \in Prefetchers /\ PrefetchStep(t)
      PROVE  /\ AllServing'
             /\ [Response!ResponseNext]_(Response!responseVars)
  <2>1. /\ handler' = handler
        /\ \/ \E span : AskFor(t, span)
           \/ Return(t)
           \/ UNCHANGED fetcherVars
    BY <1>5 DEF WorkerStep, Enter, ClaimChunk, Doze, FetchAhead, Fetched, EndWorker,
                PrefetchStep, Prefetch, Prefetched
  <2>2. \A h \in Handlers : call'[h] = call[h]
    BY <1>1, <2>1, CallsApart
  <2> QED
    BY <1>2, <2>1, <2>2
<1>6. CASE \/ \E p \in Reports : Report(p)
           \/ (Stop \/ Clear) /\ Untouched
           \/ AllOver
           \/ UNCHANGED playbackVars
  <2>1. handler' = handler /\ call' = call
    BY <1>6 DEF Report, Stop, Clear, Untouched, AllOver, playbackVars, fetcherVars
  <2> QED
    BY <1>2, <2>1
<1> QED
  BY <1>1, <1>3, <1>4, <1>5, <1>6 DEF PlaybackNext

LEMMA InitServing == PlaybackInit => AllServing /\ Response!ResponseInit
<1> SUFFICES ASSUME PlaybackInit PROVE AllServing /\ Response!ResponseInit
  OBVIOUS
<1>1. \A h \in Handlers : /\ handler[h] = NoRequest
                          /\ handler[h].start = 0 /\ handler[h].end = 0
                          /\ handler[h].sent = <<>> /\ handler[h].pc = "idle"
  BY DEF PlaybackInit, NoRequest
<1>2. AllServing
  BY <1>1 DEF AllServing, Serving
<1>3. \A h \in Handlers : (handler[h].pc \in {"window", "asked"}) = FALSE
  BY <1>1
<1> QED
  BY <1>1, <1>2, <1>3 DEF Response!ResponseInit, Response!NoRange

(* The whole invariant: the callers', the fetcher's and the cache's. *)
PlaybackInv ==
    /\ CallersPlaced /\ AllServing
    /\ TypeAndSlots /\ RunsPlaced /\ Contents /\ Answered

LEMMA PlaybackInvariant ==
    ASSUME ChunkLens = {BLOCK_SIZE}
    PROVE  /\ PlaybackInit => PlaybackInv
           /\ PlaybackInv /\ [PlaybackNext]_playbackVars => PlaybackInv'
<1>1. PlaybackInit => PlaybackInv
  BY InitCallers, InitServing, InitTypeAndSlots, InitPlaced, InitContents, InitAnswered
  DEF PlaybackInit, PlaybackInv
<1>2. ASSUME PlaybackInv, [PlaybackNext]_playbackVars
      PROVE  PlaybackInv'
  <2>1. [FetcherNext]_fetcherVars /\ CallersPlaced'
    BY <1>2, NextFetcher, NextCallers DEF PlaybackInv
  <2>2. TypeAndSlots' /\ RunsPlaced' /\ Contents' /\ Answered'
    BY <1>2, <2>1, NextType, NextSlots, NextPlaced, NextContents, NextAnswered
    DEF PlaybackInv, TypeAndSlots
  <2>3. AllServing'
    BY <1>2, NextServing DEF PlaybackInv, TypeAndSlots
  <2> QED
    BY <2>1, <2>2, <2>3 DEF PlaybackInv
<1> QED
  BY <1>1, <1>2

(* Each connection gets a prefix of the range it asked for, with no byte   *)
(* skipped, repeated or misplaced (_serve_range_progressively), whichever  *)
(* threads brought its windows, whatever was evicted, stopped or cleared   *)
(* meanwhile: Playback implements MediaResponse (bodies in whole blocks).  *)
THEOREM AnswersRanges ==
    ASSUME ChunkLens = {BLOCK_SIZE}
    PROVE  PlaybackSpec => ImplementsResponse
<1>1. PlaybackInit => Response!ResponseInit
  BY InitServing
<1>2. PlaybackInv /\ [PlaybackNext]_playbackVars
          => [Response!ResponseNext]_(Response!responseVars)
  BY NextServing DEF PlaybackInv, TypeAndSlots
<1> QED
  BY PlaybackInvariant, <1>1, <1>2, PTL
  DEF PlaybackSpec, ImplementsResponse, Response!ResponseSpec

(* The types of the read-ahead, the handlers and the position; what a      *)
(* handler has sent is a sequence because of what AllServing says of it.   *)
THEOREM PlaybackTypes ==
    ASSUME ChunkLens = {BLOCK_SIZE}
    PROVE  PlaybackSpec => []PlaybackTypeOK
<1> DEFINE Rest == /\ prefetch \in [Prefetchers -> {"new", "asked", "done"}]
                   /\ requests \in 0..MaxRequests
<1>1. PlaybackInit => Rest
  BY PlaybackAssumption DEF PlaybackInit
<1>2. Rest /\ [PlaybackNext]_playbackVars => Rest'
  <2> SUFFICES ASSUME Rest, [PlaybackNext]_playbackVars PROVE Rest'
    OBVIOUS
  <2>1. \/ \E h \in Handlers : Request(h)
        \/ \E f \in Prefetchers : PrefetchStep(f)
        \/ UNCHANGED <<prefetch, requests>>
    BY DEF PlaybackNext, Untouched, WorkerStep, Enter, ClaimChunk, Doze, FetchAhead,
           Fetched, EndWorker, HandlerStep, FetchWindow, Write, CutShort, EndOfRange,
           ClientGone, CloseConnection, Report, AllOver, playbackVars
  <2>2. CASE \E h \in Handlers : Request(h)
    BY <2>2, PlaybackAssumption DEF Request
  <2>3. CASE \E f \in Prefetchers : PrefetchStep(f)
    BY <2>3 DEF PrefetchStep, Prefetch, Prefetched
  <2> QED
    BY <2>1, <2>2, <2>3
<1>3. PlaybackInv /\ Rest => PlaybackTypeOK
  <2> SUFFICES ASSUME CallersPlaced, AllServing, Rest PROVE PlaybackTypeOK
    BY DEF PlaybackInv
  <2>1. \A h \in Handlers : handler[h].sent \in Seq(Nat)
    <3> TAKE h \in Handlers
    <3>1. CASE handler[h].pc = "idle"
      <4>1. handler[h].sent = <<>>
        BY <3>1 DEF AllServing, Serving, NoRequest
      <4> QED
        BY <4>1
    <3>2. CASE handler[h].pc # "idle"
      <4> DEFINE a == handler[h].start
                 n == handler[h].pos - handler[h].start
      <4>1. /\ handler[h].start <= handler[h].pos
            /\ handler[h].sent = Cells(a, n)
        BY <3>2 DEF AllServing, Serving
      <4>2. handler[h].start \in Nat /\ handler[h].pos \in Nat
        BY HandlerFields
      <4>3. a \in Nat /\ n \in Nat
        BY <4>1, <4>2
      <4> HIDE DEF a, n
      <4> QED
        BY <4>1, <4>3, CellsSeq
    <3> QED
      BY <3>1, <3>2
  <2>2. PICK S : handler \in [Handlers -> HandlerStates(S)]
    BY DEF CallersPlaced, HandlersPlaced
  <2>3. \A h \in Handlers : handler[h] \in HandlerStates(Seq(Nat))
    BY <2>1, <2>2 DEF HandlerStates
  <2>4. handler \in [Handlers -> HandlerStates(Seq(Nat))]
    BY <2>2, <2>3
  <2> QED
    BY <2>4 DEF PlaybackTypeOK, CallersPlaced, WorkerStates, HandlerStates
<1> QED
  BY PlaybackInvariant, <1>1, <1>2, <1>3, PTL DEF PlaybackSpec
=============================================================================
