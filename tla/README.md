# Verification of the video live player

TLA+ models of the player's streaming core, the TLC runs that check them, and
TLAPS proofs of what matters most about them.  The reference is the Python and
JavaScript source under `src/`; every definition that models code is listed with
its lines in `PROJECT.json` under `map`.

## 1. The system

The program plays a remote video while it downloads it.  A loopback HTTP server
stands between the player (VLC, or a `<video>` element in a WebView) and the
remote server; every byte goes through a cache of fixed-size blocks in RAM.

| Component | Source | State | Operations | Correct when |
|---|---|---|---|---|
| Block cache | `core/cache.py` | resident blocks in LRU order, pending buffers of unfinished blocks, byte counter | `store_bytes`, `flush_pending`, `read_span`, `has_block`, `contiguous_bytes`, `clear` | the counter is exact and bounded; blocks and spans are the media's bytes; the oldest goes first |
| Range fetcher | `core/fetcher.py` | registry of runs in flight, 8 connection permits | `get_span`, `_ensure` | one download per run, no permit lost, every caller answered with the exact span or None |
| Sequential feeder | `core/fetcher.py` | position, stored and consumed counters, done | `run`, `wait_until`, `set_consumed`, `stop` | in order, paced, never deadlocked with the handlers, complete at the end |
| Read-ahead | `core/fetcher.py` | cursor, stop event | `_worker`, `_maybe_reset_cursor`, `stop` | chunks disjoint, bounded distance to the playback position |
| Remote stream | `core/remote.py` | HTTP session, media info | `probe`, `iter_range`, `iter_stream` | retries resume without gap or repetition; range mode only for a known length |
| Local proxy | `core/proxy.py` | token, current proxy (a class attribute), one thread per connection | `_serve`, `_serve_range_progressively`, `_serve_sequentially`, `prefetch`, `prefetch_mp4_moov`, `close` | a response is a prefix of the range asked for; threads end after close |
| Controller, session | `core/controller.py` | current session; per session status, stop/ready/done events, cache, proxy, player | `start`, `stop`, `_run`, `_monitor`, `start_vlc_fallback`, `_cleanup` | one session at a time, all of its resources released, status final |
| Player | `core/player.py` | libvlc instance and player | `play`, `stop`, `release`, getters | released once, no call after release |
| Statistics | `core/datatypes.py` | counters, position | `add_fetched`, `set_position`, `snapshot` | monotone counters |
| Event bus, bridge | `core/events.py`, `ui/bridge.py` | subscribers; log queue of 1000 | `emit`; `play`, `stop`, `play_with_vlc`, `report_status`, `snapshot`, `drain_logs`, window calls | answers belong to the URL asked for; no log line lost below the bound |
| Page | `ui/web/app.js` | active, playback mode, the video, polled status | `play`, `stop`, `pollStats`, video events | a running session can be stopped; the page follows a session that ends |
| Window controls | `ui/win_controls.py` | maximised, fullscreen, two saved rectangles, drag | toggles, drag, hit test | the window never gets an empty rectangle; VLC mirrors fullscreen; every edge has its zone |

How they meet: the session builds cache, remote and proxy; the proxy starts the
feeder (no ranges) or the range fetcher with the read-ahead (ranges).  Handler
threads, prefetch threads and read-ahead workers call `get_span` concurrently
and share the cache, the registry and the permits; handlers and the feeder share
the cache and two counters.  `_Session._cleanup` closes the proxy, which stops
read-ahead and feeder, and clears the cache, without waiting for the threads
that use it.

What is hard: several threads over one cache whose contents may be evicted
between a check and a use; downloads that break, resume, end early or are given
up; waiting in both directions between feeder and player; a stop that does not wait;
and a page whose calls each run on a thread of their own, with answers, polls
and statuses that arrive in any order.  `PROJECT.json` lists each hazard at its line.

## 2. Modules

| Module | Models |
|---|---|
| `BlockCache` | the cache as operators from a cache value to a cache value (each method holds one lock throughout, so each is one atomic step wherever it is used), and a specification of the cache alone |
| `SpanService` | what `get_span` promises: one question, one answer, which is exactly the span or None |
| `RangeFetcher` | threads in `get_span`, `_ensure` and `iter_range` over the shared cache; refines `SpanService` |
| `SequentialFeeder` | the feeder thread over `iter_stream`, and the handlers that read behind it |
| `Session` | the controller's current session, every session's thread from probe to cleanup, the bridge's threads in `play`, `stop` and `play_with_vlc`, the players they make, and the proxy all handlers share |
| `MediaResponse` | what a connection of the player promises: a prefix of the range it asked for |
| `Playback` | extends `RangeFetcher` with the threads that call it: the read-ahead workers, the handlers of `_serve_range_progressively` and the two prefetches, paced by the reported position; refines `MediaResponse`, and `RangeFetcher`'s own specification |
| `Opening` | `RemoteStream.probe` over every kind of server, the Range header and the headers answered, HEAD, and the search of the moov box |
| `Window` | `WindowControls` step by step under concurrent calls of the bridge, and the hit test |
| `Page` | the page's event loop, the bridge calls it makes and their answers, and the statuses of the session they are about |
| `MCBlockCache`, `MCRangeFetcher`, `MCSequentialFeeder`, `MCSession`, `MCPlayback`, `MCOpening`, `MCWindow` | instances for TLC (`Page` needs none) |
| `CacheProofs` | theorems of `BlockCache`, and the lemmas about its operators that the fetcher's and the feeder's proofs rest on |
| `RangeFetcherProofs`, `FeederProofs` | theorems of `RangeFetcher` and `SequentialFeeder`; both extend `CacheProofs` |
| `PlaybackProofs` | theorems of `Playback`; extends `RangeFetcherProofs` |
| `OpeningProofs`, `WindowProofs`, `SessionProofs` | theorems of those modules |

### Abstraction

* **Cells.**  The unit of length is a cell, a run of bytes no chunk boundary
  splits.  Cell `i` of the media has the content `i`, so a sequence of cells says
  which part of the media it is, and a wrong, repeated, missing or misplaced byte
  is visible.  `BLOCK_SIZE` is a number of cells.
* **Steps.**  A step is the code between two acquisitions of a lock or one event
  of the connection.  `has_block` takes the lock block by block, so the scans of
  `get_span` and of a waiter are one step per block.
* **Ranges** are half open; the key of `_inflight` is the pair of block numbers
  the code's byte pair is computed from.
* **Chunks.**  `iter_content` asks for 64 KiB, the block size.  With a
  Content-Length every chunk but the last is full, so `ChunkLens = {BLOCK_SIZE}`;
  a transfer-encoded response yields chunks of any length, `ChunkLens = {1, 2}`.
* **The announced length** (`TotalBytes`) is the media's in range mode.  In
  sequential mode it is unknown, or the Content-Length, which for a content-encoded
  body is the encoded one (`core/remote.py:144`): any length but 0.  `iter_content`
  yields decoded bytes; whether in chunks that fill blocks depends on the HTTP library's
  buffering, so both were checked (`MCFeederEncoded.cfg`, `MCFeederCut.cfg`).
* **The remote** may break the connection at any point (`break`, `refuse`), give
  a bad status (`error`) or end a body early without an error (`short`).  The
  status 416 and a 200 in the middle of the media are errors like a bad status;
  a 200 at the start of the media is read like a 206 up to the end of the run.
* **The locals of a thread** are a record per thread; `answer` is what its call
  returns.  The early returns of `get_span` for empty spans are not modelled: its
  callers (handlers, read-ahead, both prefetches) never pass one.
* **Stop and cleanup.**  `Stop` is `LocalProxy.close` reaching the component,
  `Clear` the later `cache.clear()`.  A read-ahead worker is cancelled by the
  stop; a handler passes an event only its own thread sets outside the call, and
  the prefetches pass `False`, so those are never cancelled inside a call.
* **Sequential mode** always answers from byte 0: without range mode `_serve`
  ignores the Range header.
* Two things are left out of `iter_range`: the wait before a retry, and the end
  of a run for a server that answers 200, with a transfer-encoded body, to a
  range request at byte 0: the last chunk may then run past the run by less than
  a chunk and leave a piece in the next block's buffer, a leftover like those of
  `MCFetcherUnaligned.cfg`.
* **Sessions.**  `session[s]` is the attributes of a `_Session` and the step of
  its thread; a step ends where another thread can see a change or the thread
  reads what another one changes.  The media, the cache and the feeder are not in
  this module: a proxy is none, open or closed, a player none, silent, playing or
  released.  `handlerProxy` is the class attribute `_ProxyHandler.proxy`.
* **Waits that expire.**  `stop` waits 3 s for `_done`, `play` 25 s for `_ready`.
  They expire only while the session's thread is in one of `SlowSteps`: a step
  that waits for the network or for libvlc.  The other steps take no time next to
  three seconds.  This assumption carries `ProxyOwn`: a session that could sit for
  three seconds between its test of the stop and its proxy would take the
  handlers over from the next one.
* **Callers.**  pywebview runs every call of the page on a thread of its own.
  `PlayCallers` are the threads in `play`, `UserCallers` those in `stop` and
  `play_with_vlc`.  The status is for display and comes with the page; pause,
  seek, volume and fullscreen are calls passed on to libvlc.  `Player.play` may
  raise after it has stopped what played: the session then fails, the fallback
  ends with an error.
* The set of the stop event and of `_done` in `SequentialFeeder.stop` are one
  step: no reader distinguishes them.
* **Playback.**  A read-ahead worker holds `_cond` from the reset of the cursor to
  the claim; the position is read twice in between and may move.  A position is
  the cell that `total * position_ms / length_ms` falls in, and before a duration
  is known the playable frontier (`contiguous_bytes`).  `get_span` is the real one:
  a thread that has asked runs `RangeFetcher`'s actions (`Inside`) until it returns.
  `keep_ahead` is at least two chunks (the controller's least is 8 MiB, `CHUNK` is
  4 MiB), and `RESET_THRESHOLD` one chunk, as in the code.
* **Opening.**  A server is its answers to the two questions of `probe`; `Size` is
  what its Content-Length counts, which for a content-encoded media is the encoded
  length.  A Range header is the form the regular expression sees and its numbers.
  A box is its type, its size and the size of its header, 0 for one that says
  "to the end of the file" or is otherwise unreadable.
* **Window.**  A rectangle that was never saved is `RECT()`, which is empty.  Each
  read or write of an attribute shared between threads, and each move of the
  window, is a step; `GetWindowRect` followed by the assignment is two.  `WORD`
  stands for 2^16.  `vlc` is what `set_fullscreen` finds of the current session: no
  VLC (no session, another mode, or no player yet), one that no toggle has told, or
  one told to be windowed or fullscreen.  It may start and end at any moment.
* **Page.**  A call is sent, served on a thread of its own and answered later; the
  page acts on the answer when it arrives.  Of the statuses the page acts on
  "stopped" alone, so every other one is "going".  A player's state sets either at any
  moment of the monitor and, but for "Ended", stops nothing.  The inner steps of `start`,
  `_run` and the fallback are `Session`'s matter; here a `play` waits for the
  session it stopped until it has ended (the cut at 3 s is left to `Session`), and
  one play at a time is on its way through the bridge, though the page may be
  pressed again before its answer is delivered.

## 3. Runs

Every bound is a constant of a module: `MaxCalls` (calls of `get_span`, of the
bridge or of the page), `MaxRequests` (connections of the player) and `Sessions` or
`MaxSessions` end a behaviour; the rest are the code's own parameters at small sizes.
In `Session`, two sessions and three bridge calls leave room for a play, a second play or a
rejected one, and a stop or a fallback, in every order.  Media of three blocks with a short last
one have a first, a middle and a last block; `MAX_RUN_BLOCKS = 2` makes a span
two runs; a capacity of two blocks makes every third block evict one.

| Run | Shows |
|---|---|
| `cache` | accounting, recency, pending buffers and slicing over every order of legal stores, reads, flushes and clears |
| `fetcher` | a worker and a client, one permit, all faults, eviction, stop and cleanup: types, permits, one owner per run, run bounds, contents, and the refinement of `SpanService` |
| `fetcher_chunked` | chunks that do not fill blocks, two connections, spans that are equal or overlap, downloads that a stop cancels inside a block, nothing evicted: a byte never leaves its block, an answer fills its span to the byte, the client is served until the stop, every call returns |
| `feeder` | two handlers, unknown length, refused connections, bad statuses, short bodies: pacing, no mutual wait, `consumed <= stored`, answers that are a prefix of the media and all of it unless the body was cut |
| `feeder_evicting` | two handlers, two requests from byte 0, media longer than the cache: nothing unread is evicted until the second request; a waiting handler is answered, or has come to bytes that were evicted, and nothing else keeps it |
| `session` | one thread in `play`, one in `stop` and `play_with_vlc`, two sessions, rejected URLs, failing probes, ports and players, waits that expire: the current session's proxy answers the handlers; an ended session leaves nothing behind; an ok answer of `play` is about the session it started; a stop ends its session |
| `read_ahead` | two workers and a prefetch over the fetcher, positions that jump ahead and back: claimed chunks never overlap |
| `playback` | a worker and a handler that evict each other's blocks, downloads that break: `MediaResponse` is implemented, the read-ahead goes on after a chunk that failed, a stop ends every thread |
| `opening` | all servers that name a total, all Range headers around the size, all layouts of up to three boxes: range mode only with the media's length, exact replies, the moov box found |
| `window` | two threads in fullscreen, maximise and drag, a VLC that comes and goes: no empty rectangle, VLC that was told follows, equal zones on opposite sides |
| `page` | two sessions, four calls of the page, polls at any time: a stop or a new play ends what was current, the page does not stay active over an ended session |
| `feeder_restart` | expected to fail: see the disagreements below |

In `Playback` the block is one cell, the window and a run two; the chunk is one cell
in `playback` and two in `read_ahead`, with `keep_ahead` twice that.  The media has
a first, a middle and a last chunk, and a jump of the position passes
`RESET_THRESHOLD`.  `Opening`'s file of four cells is longer than the
three that are searched.  `Window`'s monitor is 6 by 5, its window reaches to
negative coordinates, and `WORD = 16` wraps within reach of it.  `MaxCalls = 3` is a
toggle each way beside a call of the other thread, or a drag from its start to its end.

`feeder_evicting` uses the smallest capacity that works with bodies in whole
blocks: with less than `2 * keep_ahead` plus one block TLC finds unread blocks evicted,
because what the player has read stays in the cache as the most recently used,
and then the handler waits for the block and the feeder for the handler, for
ever.  The defaults are large enough; `--cache` and `--keep-ahead` allow less.  With
a second connection no capacity below the media's length is enough (`MCFeederStalled.cfg`).

### Disagreements with what the code says of itself

`feeder_restart` is a run expected to fail, with its finding in `PROJECT.json`: a
break in the middle of the sequential body restarts the body at byte 0
(`core/remote.py:244`), the position goes on, and the player gets the start of the
media as its continuation.

The others are configurations kept beside the runs (`tlc -config <cfg> <module>`).
TLC finds each of these properties violated:

| Configuration | Module, property | What happens |
|---|---|---|
| `MCFeederStalled.cfg` | `MCSequentialFeeder`, `RequestsAnswered` | a second connection from byte 0 (VLC reconnects, `core/player.py:62`), after the first blocks were evicted: `wait_until` still counts them, "Block until at least ``want`` bytes are available" (`core/fetcher.py:198`), the cache has them no more, and the handler polls for ever (`core/proxy.py:194`) |
| `MCFeederCut.cfg` | `MCSequentialFeeder`, `SentPrefix` | behind the announced length of an encoded body every piece is committed as its block at once (`core/cache.py:87`), against "only then committed" (`core/cache.py:58`); a later piece replaces it, and the answer has a gap |
| `MCFeederSpin.cfg` | `MCSequentialFeeder`, `HandlersEnd` | a handler with stored bytes left to send polls the cleared cache for ever (`core/proxy.py:195`) |
| `MCFetcherOverlap.cfg` | `MCRangeFetcher`, `WrittenByOne` | only equal pairs of ends are deduplicated (`core/fetcher.py:84`): runs that overlap are downloaded at once into the same buffers, against "never written by two threads at once" (`core/cache.py:63`) |
| `MCFetcherUnaligned.cfg` | `MCRangeFetcher`, `ResultExact` | a given-up download leaves part of a block in `_pending` (`core/fetcher.py:108`); the next download of that block appends behind it, and wrong bytes are committed and returned |
| `MCSessionOrphan.cfg` | `MCSession`, `Superseded` | two plays at once (`ui/web/app.js:1067`): both stop the old session, both install a new one, and the first of them runs on out of reach, against "Only one session runs at a time" (`core/controller.py:34`) |
| `MCSessionAnswer.cfg` | `MCSession`, `AnswerOwn` | `play` of a URL that `start` rejects answers ok with the stream of the session before (`ui/bridge.py:145`) |
| `MCSessionStray.cfg` | `MCSession`, `NoStrayPlayer` | a stop while the fallback makes its player (`core/controller.py:300`): the cleanup finds none to release, and the one made afterwards stays |
| `MCReadAheadFurther.cfg` | `MCPlayback`, `NeverFurther` | a whole chunk is claimed as soon as the cursor is within `keep_ahead` (`core/fetcher.py:293`), and ends further ahead than "never runs more than ``keep_ahead`` bytes ahead" (`core/fetcher.py:229`) allows |
| `MCOpeningLength.cfg` | `MCOpening`, `LengthTrue` | a 206 that leaves the total open has a Content-Length of 1, which `core/remote.py:132` takes for the media's |
| `MCWindowStart.cfg` | `MCWindow`, `MirroredFromStart` | VLC starts, or is handed the stream, while the window is fullscreen: only toggles are mirrored (`core/controller.py:353`) |
| `MCPageStranded.cfg` | `Page`, `Stoppable` | a session runs while the page shows no Stop button: a play answered with an error after 25 s goes on; a stale "stopped", or a Stop, arrives while a play is pending; VLC's own "Stopped" state (`core/controller.py:270`) or a "stopped" reported for the video before resets the page |

And these hold beside what fails:

| Configuration | Module, property | What it shows |
|---|---|---|
| `MCFetcherBroken.cfg` | `MCRangeFetcher`, `OwnCells`, `AnswerFramed` | `fetcher_chunked`'s two contents properties under breaks, failures and short bodies |
| `MCFeederEncoded.cfg` | `MCSequentialFeeder`, `SentPrefix`, `AnswerComplete` | an announced length shorter than the media, bodies in whole blocks: answers are a prefix of the media and end exactly there |
| `MCSessionTwoPlays.cfg` | `MCSession`, `CallsReturn` | with two threads in `play` every call of the bridge returns |

Two properties hold only up to a stated exception:

* `PageFollows` excepts a session whose status was set after its cleanup had set
  STOPPED (`late`): a "paused" of the video, or a fallback, then replaces it, and the
  page is never reset.
* `Mirrored` excepts toggles of fullscreen that overlap, or that come before the window
  is bound (`clashed`): two can compute the same target, and both enter.

Seen in the source and in no model: maximising inside fullscreen overwrites the rectangle
`restore` goes back to; a bridge exception during `play` leaves the page active
(`ui/web/app.js:781`); `drain_logs` loses an entry appended between its two lines.

### Fairness

`FairFetcherSpec` gives each thread weak fairness: the operating system schedules
it, and every request has a timeout, so a silent remote becomes a fault.  A
semaphore permit is taken in no guaranteed order; weak fairness suffices because
the number of calls is bounded and each holder returns its permit.
`FairFeederSpec` is the same for the feeder and each handler; a write to the
player ends because the player reads or goes away.
`FairSessionSpec` gives weak fairness to every session's thread and every call:
requests have timeouts and libvlc returns.  The end of the media is not fair: a
player may play for ever.
`FairPlaybackSpec` gives weak fairness to every thread of `Playback`; reports of the
position, requests, the stop and the cleanup are not fair.
`FairPageSpec` gives it to the session's thread, to the bridge's threads, to the
delivery of answers and to the poll timer (`setInterval`); buttons, the video's events and the
end of the media are not fair.

## 4. Proofs

`CacheProofs` proves, for every block size, capacity, media and announced length,
under `CacheAssumption`:

* `AccountsExact`, `BuffersIncomplete` : `ResidentExact` and `PendingIncomplete`,
  from `Budget`: the recency list names each resident block once (`Distinct`), the
  counter is the number of cells the blocks hold, every buffer is shorter than its
  block's limit, and the counter is within the capacity.  The first two are needed
  inside a store too, where the last does not hold yet (`PieceAccounted`,
  `CommitAccounted`); `EvictAccounted` restores it.
* `OldestEvicted` : `EvictsOldest`.  A touch keeps the order of the other blocks
  (`TouchOrder`), so before it evicts a store has moved only the last two blocks
  (`StoreOrder`), a flush only those whose buffers it commits (`FlushTurns`), and
  what goes is a front part of the list (`EvictFront`).
* `ReadsExact` : `ReadExact`.  `BlocksJoined` says what the blocks of a span are
  when they are put together, and `SpanRead` that cutting that at the span's offset
  leaves the span.

`Touch`, `FlushPending` and the joining of blocks are recursive functions.  What
they compute is proved by induction on a set of numbers (`Induct`), each time for
that function: that it exists, what its values are, and what they keep.

`RangeFetcherProofs` proves, for every number of threads, spans, block size,
capacity, retries and faults, under `CacheAssumption` and `FetcherAssumption`:

* `TypeCorrect`, `PermitsKept` : `FetcherTypeOK` and `SlotsExact`.  Neither is
  inductive without the other: a permit count in `0..MAX_CONCURRENT` needs the
  number of holders, and the number of holders needs the labels' types.  Each
  action either moves a thread into `Holders` with a permit taken, out of it
  with a permit given, or leaves both alone; the cardinality lemmas count it.
* `DownloadsOwned` : `OneOwner`.  It needs that an owner's key does not change
  while it owns (`SameOwners` and the cases of `NextOwner`) and that a claim
  finds its key free.
* `DownloadsInside` : `InsideRun`, from the strengthening `RunsPlaced`, which
  says for every label where the locals are: the span inside the media, the run
  inside the span, the position inside the run.  The run's end is below the
  media's end because the last block of a span begins inside it
  (`LastBlockInside`).
* `BlocksExact` : `CacheHoldsMedia` when `ChunkLens = {BLOCK_SIZE}`.  The
  strengthening `Contents` adds that nothing is pending and that a download at
  work stands at a block boundary; then every chunk is exactly one block
  (`ChunkIsBlock`), `store_bytes` commits it at once (`StoreKeepsMedia`), and
  eviction and reading change no block.  The hypothesis is needed:
  `MCFetcherUnaligned.cfg` refutes the conclusion without it.
* `AccountsKept` : `ResidentExact` and `PendingIncomplete` for chunks of any
  length and any threads: each step of a thread is a method of the cache, which
  keeps `Budget`.
* `AnswersExact` : `ResultExact`, and `ServesSpans` : the refinement of
  `SpanService`, both when `ChunkLens = {BLOCK_SIZE}`.  `Answered` says that the
  answer of a thread about to return is its own span or None; the bytes come from `SpanRead`
  over blocks that are the media's (`BlocksExact`).  A step that moves a
  thread to `returned` is the service's answer, one that leaves `idle` its
  question, every other one a stutter.
* `BytesInPlace` : `OwnCells`, and `AnswersFramed` : `AnswerFramed`, for any number of
  connections, spans that overlap, chunks of any length and every fault, where
  `AnswersExact` does not hold.  `InBlocks` says that every block and every buffer holds
  cells of its own block; it survives a chunk of any length because `StorePiece` cuts
  at block boundaries, and an append, an overwrite or a leftover stays within the block.
  A block is only committed at its limit, so the blocks of a span have the right
  lengths, and the cut of `read_span` the right length whatever is in them.
* `ClientsServed` : `FetchableServed`, when moreover `FileSize <= capacity`.
  `Delivered` says for each step of a call which blocks of its span are resident:
  those its scan has passed, those of the runs it has done, and, for a waiter, those
  of the run it waits for as soon as its key is free.  A media that fits is never evicted
  (`MediaFits`, `EvictNothing`).  The capacity is needed: with less, what a call
  has brought may be gone when it reads.

`FeederProofs` proves, under `CacheAssumption` and `FeederAssumption`, for every
media, announced length, capacity, number of handlers and fault of the remote:

* `FeederTypes`, `CountersOrdered`, `NobodyWaits` : `FeederTypeOK`,
  `ConsumedStored`, `NoMutualWait`, from `Counters`.  It says what each handler's
  position is worth at each of its steps (`HandlerBehind`) and that what the
  feeder has counted, is about to count and has buffered was received
  (`ReceivedCovers`).  The buffered part is the number of cells in `Gathered`, and
  the lemmas on `Commit` and `StorePiece` count what each takes out and puts in.
  `NobodyWaits` uses `SERVE_CHUNK <= keep_ahead`.
* `PacedWithin` : `PacedAhead`.  `TailBuffered` says that while the session is open
  the received and uncounted part is the one buffer being filled, less than a
  block; `LeftOver` describes it by position, also past the announced end, where
  pieces are committed as they come.  `StoreLeaves` carries it over a chunk cut in two.
* `PrefixSent`, `AnswersWhole` : `SentPrefix` and `AnswerComplete`, when the stream
  does not break (`"break" \notin StreamFaults`; connections may be refused,
  statuses bad and bodies short) and, where less is announced than the media has, chunks
  fill blocks (`BlocksWhole`).  `Fronted` says that the cache holds nothing but the
  first cells of the media and one buffer that ends where the feeder stands,
  `Filling` that this buffer is right at each step of the feeder, `Sends` that a
  handler's chunk is the piece behind what it has sent, and `Ending` that an answer ends
  only when the counted part is sent and the feeder is done, or at the announced
  length.  Both hypotheses are needed: after a break the body begins again
  (`feeder_restart`), and behind the announced length a block is committed
  with every piece (`MCFeederCut.cfg`).
* `FeederAccounts` : `ResidentExact` for what the feeder stores and the handlers
  read, from `Balanced` (`Budget` for the cache the two threads share).
* `UnreadStays` : `UnreadResident`, under any fault of the remote, for one connection
  that reads the media once (`Handlers = {h}`, `MaxRequests = 1`) and a capacity of at
  least `2 * keep_ahead + 8 * BLOCK_SIZE`.  `Retained` says that whatever is stored and
  not read is resident or, for the last block, buffered (`Holds`), and that of two
  blocks the older in the recency list lies less than `keep_ahead` and three blocks
  behind the newer, or after it (`Near`).  It holds because a block gets newer only
  by being stored, at the feeder's position, or read, at the handler's, and
  `PacedWithin` bounds the distance of the two.  So all that is newer than an unread block is in
  its `Vicinity`, which fits in the capacity with the block itself (`VicinityFits`), and the
  fewest blocks that bring the cache within its capacity leave it
  (`EvictKeeps`).  One connection is needed because a second one, reading from byte 0, makes
  old blocks the newest, and `consumed` is the maximum of what both have read.  The
  defaults satisfy the capacity (256 MiB of cache, 64 MiB of `keep_ahead`); the
  controller's minimums (32 MiB and 8 MiB) do too, but it does not relate the two
  settings: a large `keep_ahead` with a small cache is outside the theorem.  The run
  `feeder_evicting` shows `2 * keep_ahead + BLOCK_SIZE` to be enough on its instance.

`PlaybackProofs` proves, under `PlaybackAssumption` and the above, for any number of
handlers, prefetch threads and workers and any positions reported:

* `UsesFetcher` : every behaviour of `Playback` is one of `FetcherSpec`.  Its
  strengthening `CallersPlaced` says where the callers are: what a worker or a
  handler is about to ask for is a span of the media that is not empty.  So every
  theorem of the fetcher carries over: `FetcherSound`, and `PlayedExact` for bodies in
  whole blocks.
* `OnlyForward` : the cursor never goes back, since a reset needs a position
  beyond it.  `ChunksApart` : `ChunksDisjoint`, which is inductive together with
  `CallersPlaced`: every chunk in work ends at the cursor or before it, and a claim
  begins at it.
* `PlayedAccounts`, `PlayedServed`, `PlayedClients` carry `AccountsKept`, `ServesSpans`
  and `ClientsServed` over to the real callers.
* `AnswersRanges` : the refinement of `MediaResponse`, and `PlaybackTypes` :
  `PlaybackTypeOK`, for bodies in whole blocks.  `AllServing` says that what a handler
  has sent is the media from its start to its position, and that the window it has
  asked for begins there; `AnswersExact` makes the next piece the right one.

`OpeningProofs` proves, for any size of the media and any servers, headers and layouts:

* `RepliesExact` : `ReplyExact`, from `Probed` (what the probe can have handed to
  the proxy) and `Replied` (the last reply is right for its request).
* `ProbeExact` : `RangeModeExact` for servers that name a total.  `ProbeKnows` says at
  each step of `probe` what its locals mean.  `LengthTrue`'s counterexample shows
  why the total has to be named.
* `MoovExact` : `MoovPrefetched`, for the same servers and any number of boxes of any
  sizes.  `BoxStarts` and `StartsOrdered` say where the boxes begin, `MoovFound`
  that the walk stops at the first box it halts at, so that the first box of the
  media data decides what is fetched; the span is then what lies behind it within
  the limits of the search (`Prefetched`).

`WindowProofs` proves, for any number of threads, any monitor and any places:

* `AlwaysVisible` : `NeverVanishes`.  `Kept` says that a thread about to restore has
  found a saved rectangle with a size, or will read one: the flags are set only
  after the rectangle was saved, and no thread ever erases one.
* `VlcFollows` : `Mirrored`.  `OneToggle` says that, unless two toggles have
  overlapped, the one under way knows at each of its steps what fullscreen is and what
  a VLC that was told before is; a VLC that starts later is told nothing until the next toggle.
* `ZonesOpposite` : `OppositeZones`, for every rectangle with room for both margins and
  every point of it within the 16 bits of a packed coordinate: the sign survives
  the packing, and the two ends of each axis are told apart by the same margin.

`SessionProofs` proves, for any number of sessions and callers, under
`SessionAssumption`:

* `SessionTypes` : `SessionTypeOK`.  It needs that a call that works on a session
  has one in hand (`InHand`), and that a session about to play has a player
  (`PlayerThere`).
* `HandlersOwn` : `ProxyOwn`, when one thread is in `play` (`PlayCallers = {p}`) and
  `build` is not a slow step.  It follows from `OneStarter`: the
  thread in `play` knows at each of its steps what it has done to the current
  session (`StartPlaced`); when its wait is over that session has been told to
  stop and is not about to build a proxy, so it never will, and only the current
  session ever builds one (`CurrentBuilds`).  Both hypotheses are needed: nothing in the
  code keeps two plays apart, and with two the session left out of reach
  (`MCSessionOrphan.cfg`) builds its proxy too; with `build` among the
  `SlowSteps` (a stop's wait may expire while the pipeline is being built) TLC
  finds `ProxyOwn` violated.  So these two theorems are about plays that do not overlap.
* `EndsWithNothing` : `LeavesNothing`, for any callers, from `EndsClean`: what a
  session holds at each step of its thread is what the rest of its cleanup releases,
  and nothing is made for it after that, unless it was handed over to VLC.
* `AnswersSound` : `AnswerSound`, also with one thread in `play`, from `OwnInHand`: the
  current session is the one this play started until it has taken hold of it, and its
  proxy closes only after a stop or an error.

Checked by TLC only:

* liveness (`EveryCallReturns`, `StalledOnlyByEviction`, `AheadAgain`, `ThreadsEnd`,
  `StopEnds`, `CallsHeeded`, `PageFollows`), which needs fairness and ENABLED; of `Page`
  there is nothing else.

## 5. Not modelled

Wording of log messages, HTTP header text, timing of back-off, byte and speed
statistics, the log queue, icons, packaging, markup and styles, Win32, libvlc and
pywebview themselves; seek, volume and pause, which are passed on to libvlc; the
token in the proxy's URLs; minimise, close and the window's frame; the launcher.
A handler reads the proxy's class attribute once in `Session`, twice in the code
(`core/proxy.py:105` and `:159`): the instructions between are not an interleaving
point of the model.

## 6. What could follow

1. `Page` over `Session` itself instead of its summary, with the 3 s cut of the stop.
2. Several media in one model, for requests that outlive their session.
