--------------------------- MODULE SequentialFeeder ---------------------------
(***************************************************************************)
(* A media whose server has no ranges: core/fetcher.py SequentialFeeder    *)
(* over core/remote.py iter_stream writes the cache from the front, and    *)
(* the handlers of core/proxy.py (_serve_sequentially) read it back for    *)
(* the player, always from byte 0.  The feeder is paced by how far the     *)
(* furthest handler has come.                                              *)
(***************************************************************************)
EXTENDS BlockCache

CONSTANTS
    Handlers,       \* connections of the player
    SERVE_CHUNK,    \* cells a handler sends at a time
    keep_ahead,     \* how far the feeder runs ahead
    Retries,        \* connection attempts of iter_stream
    ChunkLens,      \* lengths iter_content yields
    StreamFaults,   \* what the remote may do, of Faults
    MaxRequests     \* bound: requests in a behaviour

(* The connection fails before the first byte, breaks after one, gives a   *)
(* bad status, or ends early without an error.                             *)
Faults == {"refuse", "break", "error", "short"}

ASSUME FeederAssumption ==
    /\ FileSize > 0
    /\ SERVE_CHUNK \in Nat \ {0}
    /\ keep_ahead \in Nat
    /\ keep_ahead >= SERVE_CHUNK        \* at least 4 MiB, against 256 KiB
    /\ Retries \in Nat \ {0}
    /\ ChunkLens \subseteq 1..BLOCK_SIZE
    /\ StreamFaults \subseteq Faults
    /\ MaxRequests \in Nat
    /\ TotalBytes # 0   \* of an encoded body: not the length of the media

VARIABLES
    session,    \* "open", then "stopped" (stop), then "cleared" (_cleanup)
    feeder,     \* the thread: [pc, position, served, attempt, committed]
    stored,     \* _stored
    consumed,   \* _consumed
    done,       \* _done
    handler,    \* per connection [pc, pos, avail, data, sent]
    requests    \* requests so far

feederVars == <<cache, session, feeder, stored, consumed, done, handler, requests>>

Idle == [pc |-> "idle", pos |-> 0, avail |-> 0, data |-> <<>>, sent |-> <<>>]

FeederInit ==
    /\ CacheInit
    /\ session = "open"
    /\ feeder = [pc |-> "connect", position |-> 0, served |-> 0,
                 attempt |-> 0, committed |-> 0]
    /\ stored = 0
    /\ consumed = 0
    /\ done = FALSE
    /\ handler = [h \in Handlers |-> Idle]
    /\ requests = 0

stop_event == session # "open"

Lesser(a, b)  == IF a <= b THEN a ELSE b
Greater(a, b) == IF a >= b THEN a ELSE b

-----------------------------------------------------------------------------
(* The feeder thread.                                                      *)

FeederGoto(label) ==
    /\ feeder' = [feeder EXCEPT !.pc = label]
    /\ UNCHANGED <<cache, session, stored, consumed, done, handler, requests>>

(* A new connection is served from the start of the media. *)
Connect ==
    /\ feeder.pc = "connect"
    /\ feeder' = [feeder EXCEPT !.pc = "stream", !.served = 0]
    /\ UNCHANGED <<cache, session, stored, consumed, done, handler, requests>>

Receive ==
    /\ feeder.pc = "stream"
    /\ feeder.served < FileSize
    /\ FeederGoto(IF stop_event THEN "flush" ELSE "store")

EndOfStream ==
    /\ feeder.pc = "stream"
    /\ feeder.served = FileSize \/ "short" \in StreamFaults
    /\ FeederGoto("flush")

Store ==
    /\ feeder.pc = "store"
    /\ \E n \in {Lesser(m, FileSize - feeder.served) : m \in ChunkLens} :
           LET r == StoreBytes(cache, feeder.position, Cells(feeder.served, n))
           IN  /\ cache' = r.cache
               /\ feeder' = [feeder EXCEPT !.pc = "count",
                                           !.committed = r.committed,
                                           !.position = @ + n,
                                           !.served = @ + n]
    /\ UNCHANGED <<session, stored, consumed, done, handler, requests>>

Count ==
    /\ feeder.pc = "count"
    /\ stored' = stored + feeder.committed
    /\ feeder' = [feeder EXCEPT !.pc = "pace"]
    /\ UNCHANGED <<cache, session, consumed, done, handler, requests>>

(* Mutant: the pacing loop is gone. *)
PaceUnpaced ==
    /\ feeder.pc = "pace"
    /\ FeederGoto("stream")

(* The pacing loop, left when the player has caught up. *)
Pace ==
    /\ feeder.pc = "pace"
    /\ stored - consumed <= keep_ahead \/ stop_event
    /\ FeederGoto("stream")

(* Mutant: the tail is committed but not counted. *)
FlushUncounted ==
    /\ feeder.pc = "flush"
    /\ cache' = FlushPending(cache).cache
    /\ feeder' = [feeder EXCEPT !.pc = "finish"]
    /\ UNCHANGED <<session, stored, consumed, done, handler, requests>>

(* The tail that fills no block is committed and counted ... *)
Flush ==
    /\ feeder.pc = "flush"
    /\ LET r == FlushPending(cache)
       IN  /\ cache' = r.cache
           /\ stored' = stored + r.committed
    /\ feeder' = [feeder EXCEPT !.pc = "finish"]
    /\ UNCHANGED <<session, consumed, done, handler, requests>>

(* ... and only then the feeder is done, with or without an error. *)
Finish ==
    /\ feeder.pc \in {"finish", "fail"}
    /\ done' = TRUE
    /\ feeder' = [feeder EXCEPT !.pc = "ended"]
    /\ UNCHANGED <<cache, session, stored, consumed, handler, requests>>

(* iter_stream starts over, from the server's byte 0. *)
Break ==
    /\ \/ feeder.pc = "connect" /\ "refuse" \in StreamFaults
       \/ feeder.pc = "stream"  /\ "break"  \in StreamFaults
    /\ feeder' = IF feeder.attempt + 1 < Retries /\ ~stop_event
                 THEN [feeder EXCEPT !.pc = "connect", !.attempt = @ + 1]
                 ELSE [feeder EXCEPT !.pc = "fail"]
    /\ UNCHANGED <<cache, session, stored, consumed, done, handler, requests>>

BadStatus ==
    /\ feeder.pc = "connect"
    /\ "error" \in StreamFaults
    /\ FeederGoto("fail")

FeederStep ==
    \/ Connect \/ Receive \/ EndOfStream \/ Store \/ Count \/ Pace
    \/ Flush \/ Finish \/ Break \/ BadStatus

-----------------------------------------------------------------------------
(* A handler.                                                              *)

(* The player opens a connection: without ranges the answer starts at 0.   *)
Request(h) ==
    /\ handler[h].pc = "idle"
    /\ requests < MaxRequests
    /\ requests' = requests + 1
    /\ handler' = [handler EXCEPT ![h].pc = "wait"]
    /\ UNCHANGED <<cache, session, feeder, stored, consumed, done>>

(* The end of the answer, where the length was announced. *)
AtEnd(pos) == TotalBytes # None /\ pos >= TotalBytes

Want(pos) ==
    IF TotalBytes = None THEN pos + SERVE_CHUNK
                         ELSE Lesser(pos + SERVE_CHUNK, TotalBytes)

HandlerOnly == UNCHANGED <<cache, session, feeder, stored, consumed, done, requests>>

(* Mutant: a done feeder is taken to have stored all that was wanted. *)
WaitUntilWanted(h) ==
    LET pos == handler[h].pos
    IN  /\ handler[h].pc = "wait"
        /\ stored >= Want(pos) \/ done \/ stop_event
        /\ IF stored > pos
           THEN handler' = [handler EXCEPT ![h].pc = "read", ![h].avail = Want(pos)]
           ELSE done /\ handler' = [handler EXCEPT ![h].pc = "answered"]
        /\ HandlerOnly

(* wait_until returns what is stored; nothing new and a feeder that is     *)
(* done end the answer.                                                    *)
WaitUntil(h) ==
    LET pos   == handler[h].pos
        avail == Lesser(stored, Want(pos))
    IN  /\ handler[h].pc = "wait"
        /\ stored >= Want(pos) \/ done \/ stop_event
        /\ IF avail > pos
           THEN handler' = [handler EXCEPT ![h].pc = "read", ![h].avail = avail]
           ELSE done /\ handler' = [handler EXCEPT ![h].pc = "answered"]
        /\ HandlerOnly

(* A span that is not all in the cache is asked for again, for ever.       *)
Read(h) ==
    /\ handler[h].pc = "read"
    /\ LET r == ReadSpan(cache, handler[h].pos, handler[h].avail)
       IN  /\ cache' = r.cache
           /\ handler' = [handler EXCEPT
                  ![h] = IF r.data = None THEN [@ EXCEPT !.pc = "wait"]
                         ELSE [@ EXCEPT !.pc = "write", !.data = r.data]]
    /\ UNCHANGED <<session, feeder, stored, consumed, done, requests>>

(* Mutant: pos is not moved. *)
WriteInPlace(h) ==
    /\ handler[h].pc = "write"
    /\ handler' = [handler EXCEPT ![h].pc = "report",
                                  ![h].sent = @ \o handler[h].data,
                                  ![h].data = <<>>]
    /\ HandlerOnly

Write(h) ==
    /\ handler[h].pc = "write"
    /\ handler' = [handler EXCEPT ![h].pc = "report",
                                  ![h].sent = @ \o handler[h].data,
                                  ![h].data = <<>>,
                                  ![h].pos = handler[h].avail]
    /\ HandlerOnly

(* Mutant: the comparison is turned round. *)
ReportLeast(h) ==
    /\ handler[h].pc = "report"
    /\ consumed' = Lesser(consumed, handler[h].pos)
    /\ handler' = [handler EXCEPT ![h].pc = "next"]
    /\ UNCHANGED <<cache, session, feeder, stored, done, requests>>

(* set_consumed keeps the furthest position any handler reported. *)
Report(h) ==
    /\ handler[h].pc = "report"
    /\ consumed' = Greater(consumed, handler[h].pos)
    /\ handler' = [handler EXCEPT ![h].pc = "next"]
    /\ UNCHANGED <<cache, session, feeder, stored, done, requests>>

Continue(h) ==
    /\ handler[h].pc = "next"
    /\ handler' = [handler EXCEPT ![h].pc =
           IF AtEnd(handler[h].pos) \/ (done /\ handler[h].pos >= stored)
           THEN "answered" ELSE "wait"]
    /\ HandlerOnly

Close(h) ==
    /\ handler[h].pc = "answered"
    /\ handler' = [handler EXCEPT ![h] = Idle]
    /\ HandlerOnly

(* The player goes away: the write fails and the handler ends. *)
ClientGone(h) ==
    /\ handler[h].pc = "write"
    /\ handler' = [handler EXCEPT ![h] = Idle]
    /\ HandlerOnly

HandlerStep(h) ==
    \/ WaitUntil(h) \/ Read(h) \/ Write(h) \/ Report(h) \/ Continue(h)
    \/ Close(h) \/ ClientGone(h)

-----------------------------------------------------------------------------
(* The session.                                                            *)

Stop ==
    /\ session = "open"
    /\ session' = "stopped"
    /\ done' = TRUE
    /\ UNCHANGED <<cache, feeder, stored, consumed, handler, requests>>

Clear ==
    /\ session = "stopped"
    /\ session' = "cleared"
    /\ cache' = EmptyCache
    /\ UNCHANGED <<feeder, stored, consumed, done, handler, requests>>

(* All requests are answered; the feeder has ended or is paused. *)
Quiescent ==
    /\ requests = MaxRequests
    /\ \A h \in Handlers : handler[h].pc = "idle"
    /\ feeder.pc \in {"pace", "ended"}
    /\ UNCHANGED feederVars

FeederNext ==
    \/ FeederStep
    \/ \E h \in Handlers : Request(h) \/ HandlerStep(h)
    \/ Stop \/ Clear \/ Quiescent

FeederSpec == FeederInit /\ [][FeederNext]_feederVars

(* The feeder and the handlers are scheduled, and the remote's timeouts    *)
(* turn silence into a fault.                                              *)
FairFeederSpec ==
    /\ FeederSpec
    /\ WF_feederVars(FeederStep)
    /\ \A h \in Handlers : WF_feederVars(HandlerStep(h))

-----------------------------------------------------------------------------
(* Properties.                                                             *)

FeederRecords ==
    [pc : {"connect", "stream", "store", "count", "pace", "flush", "finish",
           "fail", "ended"},
     position : Nat, served : 0..FileSize, attempt : 0..(Retries - 1),
     committed : Nat]

HandlerSteps == {"idle", "wait", "read", "write", "report", "next", "answered"}

(* Type invariant of the feeder, its counters and the handlers' locals;    *)
(* what a handler has sent is SentPrefix's matter.                         *)
FeederTypeOK ==
    /\ session \in {"open", "stopped", "cleared"}
    /\ feeder \in FeederRecords
    /\ stored \in Nat
    /\ consumed \in Nat
    /\ done \in BOOLEAN
    /\ \A h \in Handlers : /\ handler[h].pc \in HandlerSteps
                          /\ handler[h].pos \in Nat
                          /\ handler[h].avail \in Nat
    /\ requests \in 0..MaxRequests

(* Pacing (run, "deliberately paced so it never runs far ahead"): what has *)
(* been downloaded and not yet played is keep_ahead at most, and the chunk *)
(* and the unfinished block on top of it, however slow the player is.      *)
PacedAhead ==
    /\ stored <= feeder.position
    /\ feeder.position - consumed < keep_ahead + 2 * BLOCK_SIZE

(* Nobody waits for the other: when the pacing holds the feeder back, no   *)
(* handler is waiting for bytes that are still to come (the counters are   *)
(* compared by run without the lock that guards them).                     *)
NoMutualWait ==
    \A h \in Handlers :
        /\ feeder.pc = "pace"
        /\ stored - consumed > keep_ahead
        /\ handler[h].pc = "wait"
        => stored >= Want(handler[h].pos)

(* consumed never passes what was counted as stored, although both are     *)
(* read and written by different threads under different locks.            *)
ConsumedStored == consumed <= stored

(* The answer is the media from its first byte on: no byte is skipped,     *)
(* repeated or misplaced.                                                  *)
SentPrefix ==
    session # "cleared" =>
        \A h \in Handlers : handler[h].sent = Cells(0, Len(handler[h].sent))

(* What there is to send: the media, cut where its length was announced.   *)
(* The length of an encoded body is that of the encoded one, and iter_     *)
(* content yields the decoded media.                                       *)
Announced == IF TotalBytes = None THEN FileSize ELSE Lesser(TotalBytes, FileSize)

(* An answer that ends is all there is to send and no more, and the only   *)
(* excuse for less is that the feeder has ended without receiving all of   *)
(* the media.  Where the length is unknown, the flush before _done makes   *)
(* the tail count in time.                                                 *)
AnswerComplete ==
    \A h \in Handlers :
        handler[h].pc = "answered" /\ session = "open" =>
            \/ Len(handler[h].sent) = Announced
            \/ /\ feeder.pc = "ended" /\ feeder.served < FileSize
               /\ Len(handler[h].sent) < Announced

(* What the feeder stored and the player has not read yet is still there:  *)
(* "the proxy reads them back for the player" - until it connects again,   *)
(* from byte 0, and so makes the oldest blocks the newest.                 *)
UnreadResident ==
    requests <= 1 /\ session = "open" =>
        \A i \in BlockIds :
            consumed < (i + 1) * BLOCK_SIZE /\ (i + 1) * BLOCK_SIZE <= stored
                => HasBlock(cache, i)

(* A request is answered: the handler does not wait for ever, unless the   *)
(* session is stopped (wait_until, "Block until at least want bytes are    *)
(* available (or the feeder ends)").                                       *)
RequestsAnswered ==
    \A h \in Handlers :
        handler[h].pc = "wait" ~> handler[h].pc = "idle" \/ session # "open"

(* The bytes h is to send next are counted as available, and a block of    *)
(* them has left the cache.                                                *)
Evicted(h) ==
    LET pos   == handler[h].pos
        avail == Lesser(stored, Want(pos))
    IN  /\ pos < avail
        /\ \E i \in FirstBlock(pos)..LastBlock(pos, avail) : ~HasBlock(cache, i)

(* Eviction is all that can keep a request from its end: of several        *)
(* connections, each from byte 0 of a media longer than the cache, one     *)
(* that waits is answered or comes to bytes that were stored, counted and  *)
(* evicted again.                                                          *)
StalledOnlyByEviction ==
    \A h \in Handlers :
        handler[h].pc = "wait" ~>
            handler[h].pc = "idle" \/ session # "open" \/ Evicted(h)

(* The handlers end once the session is stopped: none is left spinning.    *)
HandlersEnd ==
    \A h \in Handlers : session = "stopped" ~> handler[h].pc = "idle"
=============================================================================
