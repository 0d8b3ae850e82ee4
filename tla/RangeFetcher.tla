----------------------------- MODULE RangeFetcher -----------------------------
(***************************************************************************)
(* core/fetcher.py RangeFetcher over core/remote.py iter_range: threads    *)
(* ask for spans of the media; each span is brought into the shared cache  *)
(* in runs of blocks, one download per run at a time, and then read back.  *)
(*                                                                         *)
(* A step is the code between two acquisitions of a lock: of the cache     *)
(* (has_block, store_bytes, read_span), of RangeFetcher._lock, of the slot *)
(* semaphore, or one event of the connection.  Ranges are half open here:  *)
(* the code's inclusive (bstart, bend) is the pair of block numbers        *)
(* <<idx, run_end>> both are computed from.                                *)
(***************************************************************************)
EXTENDS BlockCache

CONSTANTS
    Workers,        \* read-ahead workers: cancelled by the session's stop
    Clients,        \* proxy handlers and prefetches: never cancelled in a call
    WorkerSpans,    \* the spans <<start, end>> a worker asks for
    ClientSpans,    \* the spans a client asks for
    MAX_RUN_BLOCKS, \* blocks per remote request
    MAX_CONCURRENT, \* simultaneous remote connections
    Retries,        \* connection attempts of one iter_range
    ChunkLens,      \* lengths iter_content yields; {BLOCK_SIZE} when the body
                    \* has a Content-Length, any when it is transfer-encoded
    RemoteFaults,   \* what the remote may do, of "break", "error", "short"
    MaxCalls        \* bound: calls of get_span in a behaviour

Threads == Workers \cup Clients

Faults  == {"break", "error", "short"}

ASSUME FetcherAssumption ==
    /\ IsFiniteSet(Threads)
    /\ Workers \cap Clients = {}
    /\ \A span \in WorkerSpans \cup ClientSpans :
           span \in Nat \X Nat /\ span[1] < span[2] /\ span[2] <= FileSize
    /\ MAX_RUN_BLOCKS \in Nat \ {0}
    /\ MAX_CONCURRENT \in Nat \ {0}
    /\ Retries \in Nat \ {0}
    /\ ChunkLens \subseteq 1..BLOCK_SIZE
    /\ RemoteFaults \subseteq Faults
    /\ MaxCalls \in Nat
    /\ TotalBytes = FileSize    \* range mode is chosen for a known length only

VARIABLES
    session,    \* "open", then "stopped" (LocalProxy.close), then "cleared"
    inflight,   \* the keys of RangeFetcher._inflight
    slots,      \* free permits of RangeFetcher._slots
    pc,         \* where each thread is
    call,       \* its local variables
    answer,     \* what its get_span returns
    calls       \* calls of get_span so far

fetcherVars == <<cache, session, inflight, slots, pc, call, answer, calls>>

-----------------------------------------------------------------------------
(* Local state.                                                            *)

NoCall == [start |-> 0, end |-> 0, idx |-> 0, run_end |-> 0, pos |-> 0,
           attempt |-> 0, i |-> 0, ok |-> TRUE]

SpansOf(t) == IF t \in Workers THEN WorkerSpans ELSE ClientSpans

LastOf(t) == LastBlock(call[t].start, call[t].end)

Key(t) == <<call[t].idx, call[t].run_end>>

Lesser(a, b) == IF a <= b THEN a ELSE b

(* The cell the run of t ends before. *)
RunLimit(t) == Lesser((call[t].run_end + 1) * BLOCK_SIZE, FileSize)

(* ReadAhead passes its stop event; a handler passes the event only its    *)
(* own thread sets, and never inside the call; prefetch passes False.      *)
Cancelled(t) == t \in Workers /\ session # "open"

FetcherInit ==
    /\ CacheInit
    /\ session = "open"
    /\ inflight = {}
    /\ slots = MAX_CONCURRENT
    /\ pc = [t \in Threads |-> "idle"]
    /\ call = [t \in Threads |-> NoCall]
    /\ answer = [t \in Threads |-> None]
    /\ calls = 0

Goto(t, label) == pc' = [pc EXCEPT ![t] = label]

Local == UNCHANGED <<cache, session, inflight, slots, answer, calls>>

-----------------------------------------------------------------------------
(* get_span.                                                               *)

(* A call of get_span for a span. *)
AskFor(t, span) ==
    /\ pc[t] = "idle"
    /\ calls < MaxCalls
    /\ t \in Workers => session = "open"
    /\ call' = [call EXCEPT ![t] = [NoCall EXCEPT
                   !.start = span[1], !.end = span[2],
                   !.idx = FirstBlock(span[1])]]
    /\ calls' = calls + 1
    /\ Goto(t, "scan")
    /\ UNCHANGED <<cache, session, inflight, slots, answer>>

GetSpan(t) == \E span \in SpansOf(t) : AskFor(t, span)

(* has_block takes the cache's lock for one block at a time. *)
ScanHit(t) ==
    /\ pc[t] = "scan"
    /\ call[t].idx <= LastOf(t)
    /\ HasBlock(cache, call[t].idx)
    /\ call' = [call EXCEPT ![t].idx = @ + 1]
    /\ UNCHANGED pc
    /\ Local

ScanMiss(t) ==
    /\ pc[t] = "scan"
    /\ call[t].idx <= LastOf(t)
    /\ ~HasBlock(cache, call[t].idx)
    /\ call' = [call EXCEPT ![t].run_end =
                    Lesser(LastOf(t), call[t].idx + MAX_RUN_BLOCKS - 1)]
    /\ Goto(t, "ensure")
    /\ Local

(* None is what the answer is until there is one. *)
GiveUp(t) == Goto(t, "returned") /\ UNCHANGED call

(* The has_block loop get_span runs over the blocks of an ensured run. *)
Recheck(t) ==
    /\ pc[t] = "recheck"
    /\ \/ /\ call[t].i <= call[t].run_end
          /\ HasBlock(cache, call[t].i)
          /\ call' = [call EXCEPT ![t].i = @ + 1]
          /\ UNCHANGED pc
       \/ /\ call[t].i <= call[t].run_end
          /\ ~HasBlock(cache, call[t].i)
          /\ GiveUp(t)
       \/ /\ call[t].i > call[t].run_end
          /\ call' = [call EXCEPT ![t].idx = call[t].run_end + 1]
          /\ Goto(t, "scan")
    /\ Local

(* Mutant: the read starts where the first run did. *)
ReadBackRun(t) ==
    /\ pc[t] = "scan"
    /\ call[t].idx > LastOf(t)
    /\ LET r == ReadSpan(cache, FirstBlock(call[t].start) * BLOCK_SIZE, call[t].end)
       IN  /\ cache' = r.cache
           /\ answer' = [answer EXCEPT ![t] = r.data]
    /\ Goto(t, "returned")
    /\ UNCHANGED <<session, inflight, slots, call, calls>>

ReadBack(t) ==
    /\ pc[t] = "scan"
    /\ call[t].idx > LastOf(t)
    /\ LET r == ReadSpan(cache, call[t].start, call[t].end)
       IN  /\ cache' = r.cache
           /\ answer' = [answer EXCEPT ![t] = r.data]
    /\ Goto(t, "returned")
    /\ UNCHANGED <<session, inflight, slots, call, calls>>

Return(t) ==
    /\ pc[t] = "returned"
    /\ Goto(t, "idle")
    /\ call' = [call EXCEPT ![t] = NoCall]
    /\ answer' = [answer EXCEPT ![t] = None]
    /\ UNCHANGED <<cache, session, inflight, slots, calls>>

-----------------------------------------------------------------------------
(* _ensure.                                                                *)

Claim(t) ==
    /\ pc[t] = "ensure"
    /\ Key(t) \notin inflight
    /\ inflight' = inflight \cup {Key(t)}
    /\ Goto(t, "slot")
    /\ UNCHANGED <<cache, session, slots, call, answer, calls>>

Join(t) ==
    /\ pc[t] = "ensure"
    /\ Key(t) \in inflight
    /\ Goto(t, "wait")
    /\ UNCHANGED call
    /\ Local

(* Mutant: the semaphore does not block. *)
AcquireSlotUnbounded(t) ==
    /\ pc[t] = "slot"
    /\ slots' = slots - 1
    /\ call' = [call EXCEPT ![t].pos = call[t].idx * BLOCK_SIZE,
                            ![t].attempt = 0]
    /\ Goto(t, "connect")
    /\ UNCHANGED <<cache, session, inflight, answer, calls>>

AcquireSlot(t) ==
    /\ pc[t] = "slot"
    /\ slots > 0
    /\ slots' = slots - 1
    /\ call' = [call EXCEPT ![t].pos = call[t].idx * BLOCK_SIZE,
                            ![t].attempt = 0]
    /\ Goto(t, "connect")
    /\ UNCHANGED <<cache, session, inflight, answer, calls>>

(* Mutant: the slot is not given back. *)
ReleaseSlotForgotten(t) ==
    /\ pc[t] = "release"
    /\ Goto(t, "retire")
    /\ UNCHANGED <<cache, session, inflight, slots, call, answer, calls>>

(* The slot goes back first, whatever the outcome ... *)
ReleaseSlot(t) ==
    /\ pc[t] = "release"
    /\ slots' = slots + 1
    /\ Goto(t, "retire")
    /\ UNCHANGED <<cache, session, inflight, call, answer, calls>>

(* Mutant: the registry is emptied, not rid of the one key. *)
RetireAll(t) ==
    /\ pc[t] = "retire"
    /\ inflight' = {}
    /\ \/ /\ call[t].ok
          /\ Goto(t, "recheck")
          /\ call' = [call EXCEPT ![t].i = call[t].idx]
       \/ /\ ~call[t].ok
          /\ GiveUp(t)
    /\ UNCHANGED <<cache, session, slots, answer, calls>>

(* ... then the key, with the waiters notified. *)
Retire(t) ==
    /\ pc[t] = "retire"
    /\ inflight' = inflight \ {Key(t)}
    /\ \/ /\ call[t].ok
          /\ Goto(t, "recheck")
          /\ call' = [call EXCEPT ![t].i = call[t].idx]
       \/ /\ ~call[t].ok
          /\ GiveUp(t)
    /\ UNCHANGED <<cache, session, slots, answer, calls>>

(* Mutant: the wait is not in a loop. *)
WakeOnce(t) ==
    /\ pc[t] = "wait"
    /\ Goto(t, "verify")
    /\ call' = [call EXCEPT ![t].i = call[t].idx]
    /\ Local

(* cond.wait polls the registry, by notification or after a second. *)
Wake(t) ==
    /\ pc[t] = "wait"
    /\ Key(t) \notin inflight
    /\ Goto(t, "verify")
    /\ call' = [call EXCEPT ![t].i = call[t].idx]
    /\ Local

(* The has_block loop a waiter runs: a miss is a failure, not a download. *)
Verify(t) ==
    /\ pc[t] = "verify"
    /\ \/ /\ call[t].i <= call[t].run_end
          /\ HasBlock(cache, call[t].i)
          /\ call' = [call EXCEPT ![t].i = @ + 1]
          /\ UNCHANGED pc
       \/ /\ call[t].i <= call[t].run_end
          /\ ~HasBlock(cache, call[t].i)
          /\ GiveUp(t)
       \/ /\ call[t].i > call[t].run_end
          /\ call' = [call EXCEPT ![t].i = call[t].idx]
          /\ Goto(t, "recheck")
    /\ Local

-----------------------------------------------------------------------------
(* iter_range, pulled by _ensure.                                          *)

(* Mutant: the permit of a failed download is not returned. *)
EndFetchKeepingSlot(t, ok) ==
    /\ Goto(t, IF ok THEN "release" ELSE "retire")
    /\ call' = [call EXCEPT ![t].ok = ok]

(* The generator ends: by exhaustion (ok) or by an exception. *)
EndFetch(t, ok) ==
    /\ Goto(t, "release")
    /\ call' = [call EXCEPT ![t].ok = ok]

FetchCancelled(t) ==
    /\ pc[t] \in {"connect", "stream"}
    /\ Cancelled(t)
    /\ EndFetch(t, TRUE)
    /\ Local

Connect(t) ==
    /\ pc[t] = "connect"
    /\ ~Cancelled(t)
    /\ Goto(t, "stream")
    /\ UNCHANGED call
    /\ Local

(* A chunk arrives, and the call has not been cancelled meanwhile. *)
ReceiveChunk(t) ==
    /\ pc[t] = "stream"
    /\ ~Cancelled(t)
    /\ Goto(t, "store")
    /\ UNCHANGED call
    /\ Local

(* Mutant: pos is advanced before the chunk is stored. *)
StoreChunkAdvanced(t) ==
    /\ pc[t] = "store"
    /\ \E n \in {Lesser(m, RunLimit(t) - call[t].pos) : m \in ChunkLens} :
           /\ cache' = StoreBytes(cache, call[t].pos + n, Cells(call[t].pos, n)).cache
           /\ call' = [call EXCEPT ![t].pos = @ + n]
           /\ Goto(t, IF call[t].pos + n < RunLimit(t) THEN "stream" ELSE "release")
    /\ UNCHANGED <<session, inflight, slots, answer, calls>>

(* Mutant: the download goes on at the end of its range. *)
StoreChunkPastEnd(t) ==
    /\ pc[t] = "store"
    /\ \E n \in {Lesser(m, RunLimit(t) - call[t].pos) : m \in ChunkLens} :
           /\ cache' = StoreBytes(cache, call[t].pos, Cells(call[t].pos, n)).cache
           /\ call' = [call EXCEPT ![t].pos = @ + n]
           /\ Goto(t, IF call[t].pos + n <= RunLimit(t) THEN "stream" ELSE "release")
    /\ UNCHANGED <<session, inflight, slots, answer, calls>>

StoreChunk(t) ==
    /\ pc[t] = "store"
    /\ \E n \in {Lesser(m, RunLimit(t) - call[t].pos) : m \in ChunkLens} :
           /\ cache' = StoreBytes(cache, call[t].pos, Cells(call[t].pos, n)).cache
           /\ call' = [call EXCEPT ![t].pos = @ + n]
           /\ Goto(t, IF call[t].pos + n < RunLimit(t) THEN "stream" ELSE "release")
    /\ UNCHANGED <<session, inflight, slots, answer, calls>>

(* A bad status, a 200 in the middle of the media: nothing is retried. *)
FetchError(t) ==
    /\ "error" \in RemoteFaults
    /\ pc[t] = "connect"
    /\ EndFetch(t, FALSE)
    /\ Local

(* The body ends early without an error: the generator just returns. *)
FetchShort(t) ==
    /\ "short" \in RemoteFaults
    /\ pc[t] = "stream"
    /\ EndFetch(t, TRUE)
    /\ Local

(* The connection breaks or times out: a new attempt resumes at pos. *)
FetchBreak(t) ==
    /\ "break" \in RemoteFaults
    /\ pc[t] \in {"connect", "stream"}
    /\ IF call[t].attempt + 1 < Retries /\ ~Cancelled(t)
       THEN /\ call' = [call EXCEPT ![t].attempt = @ + 1]
            /\ Goto(t, "connect")
       ELSE EndFetch(t, FALSE)
    /\ Local

-----------------------------------------------------------------------------
(* The session.                                                            *)

(* LocalProxy.close stops the read-ahead; handlers run on. *)
Stop ==
    /\ session = "open"
    /\ session' = "stopped"
    /\ UNCHANGED <<cache, inflight, slots, pc, call, answer, calls>>

(* _Session._cleanup then empties the cache, whoever still uses it. *)
Clear ==
    /\ session = "stopped"
    /\ session' = "cleared"
    /\ cache' = EmptyCache
    /\ UNCHANGED <<inflight, slots, pc, call, answer, calls>>

(* Everybody is idle and the bound on calls is used up. *)
Quiescent ==
    /\ calls = MaxCalls
    /\ \A t \in Threads : pc[t] = "idle"
    /\ UNCHANGED fetcherVars

Fetch(t) ==
    \/ FetchCancelled(t) \/ Connect(t) \/ ReceiveChunk(t) \/ StoreChunk(t)
    \/ FetchError(t) \/ FetchShort(t) \/ FetchBreak(t)

(* What t does inside a call, up to its return. *)
Inside(t) ==
    \/ ScanHit(t) \/ ScanMiss(t) \/ Recheck(t) \/ ReadBack(t)
    \/ Claim(t) \/ Join(t) \/ AcquireSlot(t) \/ ReleaseSlot(t) \/ Retire(t)
    \/ Wake(t) \/ Verify(t) \/ Fetch(t)

Proceed(t) == Inside(t) \/ Return(t)

FetcherNext ==
    \/ \E t \in Threads : GetSpan(t) \/ Proceed(t)
    \/ Stop \/ Clear \/ Quiescent

FetcherSpec == FetcherInit /\ [][FetcherNext]_fetcherVars

(* Every thread is scheduled, and every request has a timeout. *)
FairFetcherSpec == FetcherSpec /\ \A t \in Threads : WF_fetcherVars(Proceed(t))

-----------------------------------------------------------------------------
(* Properties.                                                             *)

Labels == {"idle", "scan", "ensure", "slot", "connect", "stream", "store",
           "release", "retire", "wait", "verify", "recheck", "returned"}

(* The threads that registered a run and have not retired it, and among    *)
(* them those that hold a connection slot.                                 *)
Owner(t)  == pc[t] \in {"slot", "connect", "stream", "store", "release", "retire"}
Holder(t) == pc[t] \in {"connect", "stream", "store", "release"}
Owners    == {t \in Threads : Owner(t)}
Holders   == {t \in Threads : Holder(t)}

Calls == [start : Nat, end : Nat, idx : Nat, run_end : Nat, pos : Nat,
          attempt : Nat, i : Nat, ok : BOOLEAN]

(* Type invariant of the fetcher and of its threads' locals (RangeFetcher, *)
(* get_span, _ensure, iter_range).                                         *)
FetcherTypeOK ==
    /\ session \in {"open", "stopped", "cleared"}
    /\ inflight \subseteq Nat \X Nat
    /\ slots \in 0..MAX_CONCURRENT
    /\ pc \in [Threads -> Labels]
    /\ call \in [Threads -> Calls]
    /\ DOMAIN answer = Threads
    /\ calls \in 0..MaxCalls

(* Permits are neither lost nor made up (_slots): on every path out of a   *)
(* download - done, cut short, cancelled, failed - exactly the permit that *)
(* was taken goes back.                                                    *)
SlotsExact ==
    slots = MAX_CONCURRENT - Cardinality(Holders)

(* Deduplication (_ensure): no run is downloaded by two threads at once,   *)
(* and a key is registered exactly while a thread works on it, so a waiter *)
(* never waits for a download nobody makes.                                *)
OneOwner ==
    /\ \A t, u \in Owners : Key(t) = Key(u) => t = u
    /\ inflight = {Key(t) : t \in Owners}

(* A download writes inside the run it registered, from its first block on *)
(* (iter_range's pos against bstart and bend).                             *)
InsideRun ==
    \A t \in Threads :
        /\ pc[t] \in {"stream", "store"} =>
               call[t].pos \in (call[t].idx * BLOCK_SIZE)..(RunLimit(t) - 1)
        /\ Owner(t) => /\ FirstBlock(call[t].start) <= call[t].idx
                       /\ call[t].idx <= call[t].run_end
                       /\ call[t].run_end <= LastOf(t)
                       /\ call[t].run_end < call[t].idx + MAX_RUN_BLOCKS

(* Every resident block is the media's own block, whichever threads wrote  *)
(* it, with connections that break, resume, end early or are given up, and *)
(* with overlapping runs written by several threads (store_bytes).         *)
CacheHoldsMedia ==
    \A i \in DOMAIN cache.blocks : cache.blocks[i] = FileBlock(i)

(* A byte never leaves its block: whatever is gathered of block i or held  *)
(* as block i came from block i of the media, and a block is held only     *)
(* when it is as long as it has to be (store_bytes) - with chunks of any   *)
(* length, downloads of overlapping runs that write the same buffers, and  *)
(* downloads given up in the middle of a block, which leave their pieces.  *)
Belongs(i, seq) == \A k \in 1..Len(seq) : FirstBlock(seq[k]) = i

OwnCells ==
    /\ \A i \in DOMAIN cache.blocks :
           Belongs(i, cache.blocks[i]) /\ Len(cache.blocks[i]) >= BlockLimit(i)
    /\ \A i \in DOMAIN cache.pending : Belongs(i, cache.pending[i])

(* So what get_span returns under the same conditions fills the span it    *)
(* was asked for to the byte, and is out of place by less than a block: a  *)
(* response is never longer or shorter than its Content-Length.            *)
AnswerFramed ==
    \A t \in Threads :
        pc[t] = "returned" /\ answer[t] # None =>
            /\ Len(answer[t]) = call[t].end - call[t].start
            /\ \A k \in 1..Len(answer[t]) :
                   FirstBlock(answer[t][k]) = FirstBlock(call[t].start + k - 1)

(* callers must guarantee a given byte range is never written by two       *)
(* threads at once (store_bytes): the runs of the downloads at work share  *)
(* no block.  Only equal keys are kept apart (_ensure).                    *)
WrittenByOne ==
    \A t, u \in Holders :
        t # u => \/ call[t].run_end < call[u].idx
                 \/ call[u].run_end < call[t].idx

(* What get_span returns is the whole span and nothing else, or None.      *)
ResultExact ==
    \A t \in Threads :
        pc[t] = "returned" =>
            \/ answer[t] = None
            \/ answer[t] = Cells(call[t].start, call[t].end - call[t].start)

(* "or None if they could not be fetched": while the session is open and   *)
(* the remote answers, a client gets its span, whether its thread or       *)
(* another one brought it (a waiter downloads nothing itself), as long as  *)
(* the cache holds what the threads ask for.                               *)
FetchableServed ==
    \A t \in Clients :
        pc[t] = "returned" /\ RemoteFaults = {} /\ session = "open" =>
            answer[t] # None

(* get_span returns, with data or with None: no caller waits for ever for  *)
(* a slot, for another thread's download or for the remote.                *)
EveryCallReturns ==
    \A t \in Threads : pc[t] # "idle" ~> pc[t] = "idle"

(* get_span against its abstract description: every call is one request    *)
(* with one answer, however many threads, downloads and blocks it took.    *)
StatusAt(label) == IF label = "idle" THEN "idle"
                   ELSE IF label = "returned" THEN "answered"
                   ELSE "asking"

Service == INSTANCE SpanService WITH
    status  <- [t \in Threads |-> StatusAt(pc[t])],
    request <- [t \in Threads |-> <<call[t].start, call[t].end>>],
    answer  <- answer

ImplementsService == Service!ServiceSpec
=============================================================================
