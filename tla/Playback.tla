-------------------------------- MODULE Playback --------------------------------
(***************************************************************************)
(* A media with ranges while it plays: the read-ahead of core/fetcher.py,  *)
(* the handlers of core/proxy.py (_serve_range_progressively) and the two  *)
(* prefetch threads all call get_span of one RangeFetcher, over one cache. *)
(* The page or the player reports the playback position, which paces the   *)
(* read-ahead and, after a jump, moves it.                                 *)
(***************************************************************************)
EXTENDS RangeFetcher

CONSTANTS
    Handlers,           \* connections of the player
    Prefetchers,        \* the prefetch threads: the head and the moov box
    Requests,           \* the ranges <<start, end>> the player asks for
    PrefetchSpans,      \* what the prefetch threads ask for
    SERVE_CHUNK,        \* cells a handler sends at a time
    CHUNK,              \* cells a read-ahead worker claims
    RESET_THRESHOLD,    \* a jump further than this moves the cursor
    READ_AHEAD_START,   \* where the read-ahead begins
    keep_ahead,         \* how far it runs ahead of the playback
    Reports,            \* the positions that are reported, in cells
    SeekBack,           \* whether the position may also go back
    MaxRequests         \* bound: connections in a behaviour

Unknown == -1           \* no position: the duration is not known yet

ASSUME PlaybackAssumption ==
    /\ Clients = Handlers \cup Prefetchers
    /\ Handlers \cap Prefetchers = {}
    /\ \A a, b \in 0..FileSize : a < b => <<a, b>> \in WorkerSpans \cap ClientSpans
    /\ Requests \cup PrefetchSpans \subseteq ClientSpans
    /\ SERVE_CHUNK \in Nat \ {0}
    /\ CHUNK \in Nat \ {0}
    /\ RESET_THRESHOLD = CHUNK
    /\ READ_AHEAD_START \in Nat
    /\ keep_ahead \in Nat
    /\ keep_ahead >= CHUNK + CHUNK
    /\ Reports \subseteq 0..FileSize
    /\ SeekBack \in BOOLEAN
    /\ MaxRequests \in Nat

VARIABLES
    cursor,     \* ReadAhead._cursor
    position,   \* the position of the StatsCollector, as a cell
    worker,     \* per read-ahead worker [pc, start, end]
    handler,    \* per connection [pc, start, end, pos, sent]
    prefetch,   \* per prefetch thread: "new", "asked" or "done"
    requests    \* connections so far

playbackVars == <<fetcherVars, cursor, position, worker, handler, prefetch, requests>>

Waiting == [pc |-> "idle", start |-> 0, end |-> 0]

NoRequest == [pc |-> "idle", start |-> 0, end |-> 0, pos |-> 0, sent |-> <<>>]

PlaybackInit ==
    /\ FetcherInit
    /\ cursor = Lesser(READ_AHEAD_START, FileSize)
    /\ position = Unknown
    /\ worker = [w \in Workers |-> Waiting]
    /\ handler = [h \in Handlers |-> NoRequest]
    /\ prefetch = [f \in Prefetchers |-> "new"]
    /\ requests = 0

-----------------------------------------------------------------------------
(* The playback position.                                                  *)

(* set_position keeps a duration once it is known. *)
Report(p) ==
    /\ p # position
    /\ SeekBack \/ p > position
    /\ position' = p
    /\ UNCHANGED <<fetcherVars, cursor, worker, handler, prefetch, requests>>

(* contiguous_bytes: the blocks from the first one on, without a gap. *)
ContiguousBytes ==
    BLOCK_SIZE * Cardinality({i \in 0..(FileSize \div BLOCK_SIZE) :
                                  \A j \in 0..i : HasBlock(cache, j)})

PlayedBytes == IF position = Unknown THEN ContiguousBytes ELSE position

-----------------------------------------------------------------------------
(* The read-ahead workers.                                                 *)

(* The worker holds _cond from Enter to Claim or Idle. *)
Inactive(w) == worker[w].pc # "held"

(* Mutant: a jump back moves the cursor as well. *)
EnterEither(w) ==
    /\ worker[w].pc = "idle"
    /\ session = "open"
    /\ \A u \in Workers : Inactive(u)
    /\ cursor' = IF \/ PlayedBytes > cursor + RESET_THRESHOLD
                    \/ PlayedBytes + RESET_THRESHOLD < cursor
                 THEN PlayedBytes ELSE cursor
    /\ worker' = [worker EXCEPT ![w].pc = "held"]
    /\ UNCHANGED <<fetcherVars, position, handler, prefetch, requests>>

(* _maybe_reset_cursor: after a jump ahead reading goes on from there. *)
Enter(w) ==
    /\ worker[w].pc = "idle"
    /\ session = "open"
    /\ \A u \in Workers : Inactive(u)
    /\ cursor' = IF PlayedBytes > cursor + RESET_THRESHOLD THEN PlayedBytes ELSE cursor
    /\ worker' = [worker EXCEPT ![w].pc = "held"]
    /\ UNCHANGED <<fetcherVars, position, handler, prefetch, requests>>

(* The position is read again for the distance: it may have moved. *)
MayClaim == cursor < FileSize /\ cursor - PlayedBytes < keep_ahead

(* Mutant: the last chunk is not cut at the end of the media. *)
ClaimUncut(w) ==
    /\ worker[w].pc = "held"
    /\ MayClaim
    /\ cursor' = cursor + CHUNK
    /\ worker' = [worker EXCEPT ![w] =
                     [pc |-> "claimed", start |-> cursor, end |-> cursor + CHUNK]]
    /\ UNCHANGED <<fetcherVars, position, handler, prefetch, requests>>

ClaimChunk(w) ==
    /\ worker[w].pc = "held"
    /\ MayClaim
    /\ cursor' = cursor + CHUNK
    /\ worker' = [worker EXCEPT ![w] =
                     [pc |-> "claimed", start |-> cursor,
                      end |-> Lesser(cursor + CHUNK, FileSize)]]
    /\ UNCHANGED <<fetcherVars, position, handler, prefetch, requests>>

(* At the end, or far enough ahead: half a second of sleep. *)
Doze(w) ==
    /\ worker[w].pc = "held"
    /\ ~MayClaim
    /\ worker' = [worker EXCEPT ![w] = Waiting]
    /\ UNCHANGED <<fetcherVars, cursor, position, handler, prefetch, requests>>

FetchAhead(w) ==
    /\ worker[w].pc = "claimed"
    /\ AskFor(w, <<worker[w].start, worker[w].end>>)
    /\ worker' = [worker EXCEPT ![w].pc = "asked"]
    /\ UNCHANGED <<cursor, position, handler, prefetch, requests>>

(* Mutant: a worker ends with the first chunk that it could not fetch. *)
FetchedOrEnded(w) ==
    /\ worker[w].pc = "asked"
    /\ Return(w)
    /\ worker' = [worker EXCEPT ![w] =
                     [Waiting EXCEPT !.pc = IF answer[w] = None THEN "ended" ELSE "idle"]]
    /\ UNCHANGED <<cursor, position, handler, prefetch, requests>>

(* Data or None, it goes on with the next chunk. *)
Fetched(w) ==
    /\ worker[w].pc = "asked"
    /\ Return(w)
    /\ worker' = [worker EXCEPT ![w] = Waiting]
    /\ UNCHANGED <<cursor, position, handler, prefetch, requests>>

(* Mutant: the test of the stop is gone from the loop. *)
EndWorkerNever(w) ==
    /\ worker[w].pc = "claimed"
    /\ session # "open"
    /\ worker' = [worker EXCEPT ![w] = [Waiting EXCEPT !.pc = "ended"]]
    /\ UNCHANGED <<fetcherVars, cursor, position, handler, prefetch, requests>>

(* The stop is tested at the top of the loop and again after the claim. *)
EndWorker(w) ==
    /\ worker[w].pc \in {"idle", "claimed"}
    /\ session # "open"
    /\ worker' = [worker EXCEPT ![w] = [Waiting EXCEPT !.pc = "ended"]]
    /\ UNCHANGED <<fetcherVars, cursor, position, handler, prefetch, requests>>

WorkerStep(w) ==
    \/ Enter(w) \/ ClaimChunk(w) \/ Doze(w) \/ FetchAhead(w) \/ Fetched(w)
    \/ EndWorker(w)

-----------------------------------------------------------------------------
(* The handlers: _serve with a range, then _serve_range_progressively.     *)

Request(h) ==
    /\ handler[h].pc = "idle"
    /\ requests < MaxRequests
    /\ requests' = requests + 1
    /\ \E r \in Requests :
           handler' = [handler EXCEPT ![h] = [NoRequest EXCEPT
                          !.pc = "window", !.start = r[1], !.end = r[2], !.pos = r[1]]]
    /\ UNCHANGED <<fetcherVars, cursor, position, worker, prefetch>>

WindowEnd(h) == Lesser(handler[h].pos + SERVE_CHUNK, handler[h].end)

FetchWindow(h) ==
    /\ handler[h].pc = "window"
    /\ handler[h].pos < handler[h].end
    /\ AskFor(h, <<handler[h].pos, WindowEnd(h)>>)
    /\ handler' = [handler EXCEPT ![h].pc = "asked"]
    /\ UNCHANGED <<cursor, position, worker, prefetch, requests>>

(* Mutant: a window that could not be fetched is skipped. *)
WriteSkipping(h) ==
    /\ handler[h].pc = "asked"
    /\ Return(h)
    /\ handler' = [handler EXCEPT ![h].pc = "window",
                                  ![h].sent = IF answer[h] = None THEN @ ELSE @ \o answer[h],
                                  ![h].pos = WindowEnd(h)]
    /\ UNCHANGED <<cursor, position, worker, prefetch, requests>>

Write(h) ==
    /\ handler[h].pc = "asked"
    /\ answer[h] # None
    /\ Return(h)
    /\ handler' = [handler EXCEPT ![h].pc = "window",
                                  ![h].sent = @ \o answer[h],
                                  ![h].pos = WindowEnd(h)]
    /\ UNCHANGED <<cursor, position, worker, prefetch, requests>>

(* No data: the rest of the range is not sent. *)
CutShort(h) ==
    /\ handler[h].pc = "asked"
    /\ answer[h] = None
    /\ Return(h)
    /\ handler' = [handler EXCEPT ![h].pc = "answered"]
    /\ UNCHANGED <<cursor, position, worker, prefetch, requests>>

EndOfRange(h) ==
    /\ handler[h].pc = "window"
    /\ handler[h].pos >= handler[h].end
    /\ handler' = [handler EXCEPT ![h].pc = "answered"]
    /\ UNCHANGED <<fetcherVars, cursor, position, worker, prefetch, requests>>

(* The player goes away: the write fails and the handler ends. *)
ClientGone(h) ==
    /\ handler[h].pc = "asked"
    /\ answer[h] # None
    /\ Return(h)
    /\ handler' = [handler EXCEPT ![h] = NoRequest]
    /\ UNCHANGED <<cursor, position, worker, prefetch, requests>>

CloseConnection(h) ==
    /\ handler[h].pc = "answered"
    /\ handler' = [handler EXCEPT ![h] = NoRequest]
    /\ UNCHANGED <<fetcherVars, cursor, position, worker, prefetch, requests>>

HandlerStep(h) ==
    \/ FetchWindow(h) \/ Write(h) \/ CutShort(h) \/ EndOfRange(h)
    \/ ClientGone(h) \/ CloseConnection(h)

-----------------------------------------------------------------------------
(* The prefetch threads make one call each and ignore what it returns.     *)

Prefetch(f) ==
    /\ prefetch[f] = "new"
    /\ \E span \in PrefetchSpans : AskFor(f, span)
    /\ prefetch' = [prefetch EXCEPT ![f] = "asked"]
    /\ UNCHANGED <<cursor, position, worker, handler, requests>>

Prefetched(f) ==
    /\ prefetch[f] = "asked"
    /\ Return(f)
    /\ prefetch' = [prefetch EXCEPT ![f] = "done"]
    /\ UNCHANGED <<cursor, position, worker, handler, requests>>

PrefetchStep(f) == Prefetch(f) \/ Prefetched(f)

-----------------------------------------------------------------------------
Untouched == UNCHANGED <<cursor, position, worker, handler, prefetch, requests>>

(* All requests are answered and the session is over. *)
AllOver ==
    /\ requests = MaxRequests
    /\ session = "cleared"
    /\ \A t \in Threads : pc[t] = "idle"
    /\ UNCHANGED playbackVars

PlaybackNext ==
    \/ \E t \in Threads : Inside(t) /\ Untouched
    \/ \E w \in Workers : WorkerStep(w)
    \/ \E h \in Handlers : Request(h) \/ HandlerStep(h)
    \/ \E f \in Prefetchers : PrefetchStep(f)
    \/ \E p \in Reports : Report(p)
    \/ (Stop \/ Clear) /\ Untouched
    \/ AllOver

PlaybackSpec == PlaybackInit /\ [][PlaybackNext]_playbackVars

(* Every thread is scheduled; the player and the page need not do anything. *)
FairPlaybackSpec ==
    /\ PlaybackSpec
    /\ \A t \in Threads : WF_playbackVars(Inside(t) /\ Untouched)
    /\ \A w \in Workers : WF_playbackVars(WorkerStep(w))
    /\ \A h \in Handlers : WF_playbackVars(HandlerStep(h))
    /\ \A f \in Prefetchers : WF_playbackVars(PrefetchStep(f))

-----------------------------------------------------------------------------
(* Properties.                                                             *)

(* Type invariant of the read-ahead, the handlers and the position. *)
PlaybackTypeOK ==
    /\ cursor \in Nat
    /\ position \in {Unknown} \cup 0..FileSize
    /\ worker \in [Workers -> [pc : {"idle", "held", "claimed", "asked", "ended"},
                               start : 0..FileSize, end : 0..FileSize]]
    /\ handler \in [Handlers -> [pc : {"idle", "window", "asked", "answered"},
                                 start : 0..FileSize, end : 0..FileSize,
                                 pos : 0..FileSize, sent : Seq(Nat)]]
    /\ prefetch \in [Prefetchers -> {"new", "asked", "done"}]
    /\ requests \in 0..MaxRequests

(* The chunks of the read-ahead: "A set of worker threads fetch            *)
(* non-overlapping chunks" (class ReadAhead), whatever jumps of the        *)
(* position move the cursor in between, and the next claim is behind all.  *)
AtWork(w) == worker[w].pc \in {"claimed", "asked"}

ChunksDisjoint ==
    /\ \A w \in Workers : AtWork(w) => worker[w].end <= cursor
    /\ \A w, u \in Workers :
           AtWork(w) /\ AtWork(u) /\ w # u =>
               worker[w].end <= worker[u].start \/ worker[u].end <= worker[w].start

(* The read-ahead never goes back: a chunk is claimed once at most, and    *)
(* what was skipped by a jump or lost by a fault is left to the handlers.  *)
CursorForward == [][cursor <= cursor']_playbackVars

(* Each connection gets a prefix of the range it asked for, with no byte   *)
(* skipped, repeated or misplaced (_serve_range_progressively), however    *)
(* its windows were brought: by its own thread, by another or from before. *)
Response == INSTANCE MediaResponse WITH
    Connections <- Handlers,
    Ranges <- Requests,
    asked <- [h \in Handlers |-> <<handler[h].start, handler[h].end>>],
    sent <- [h \in Handlers |-> handler[h].sent],
    open <- [h \in Handlers |-> handler[h].pc \in {"window", "asked"}]

ImplementsResponse == Response!ResponseSpec

(* No fault and no jump ends the read-ahead: whatever chunks were lost to   *)
(* the remote, evicted or skipped, it is again and again as far ahead of    *)
(* the position as it may be or at the end, unless the session is stopped.  *)
AheadAgain ==
    []<>( \/ cursor >= FileSize
          \/ cursor - PlayedBytes >= keep_ahead
          \/ session # "open" )

(* "It never runs more than keep_ahead bytes ahead of the actual playback   *)
(* position": a chunk that is claimed ends within that distance of the      *)
(* position it was claimed for.                                             *)
NeverFurther ==
    [][\A w \in Workers :
           worker[w].pc = "held" /\ worker'[w].pc = "claimed" =>
               worker'[w].end - PlayedBytes <= keep_ahead]_playbackVars

(* A stop ends the read-ahead, wherever its workers are at that time, and  *)
(* every connection is answered or cut short: nobody waits for a slot, a   *)
(* download or a position for ever.                                        *)
ThreadsEnd ==
    /\ \A w \in Workers : session = "stopped" ~> worker[w].pc = "ended"
    /\ \A h \in Handlers : handler[h].pc # "idle" ~> handler[h].pc = "idle"
=============================================================================
