--------------------------------- MODULE Opening ---------------------------------
(***************************************************************************)
(* Opening a media: RemoteStream.probe of core/remote.py learns from one   *)
(* HEAD and one GET what the server offers, LocalProxy of core/proxy.py    *)
(* answers the player's HTTP requests by what the probe found, and the     *)
(* moov box of an MP4 is searched in its first bytes and prefetched.       *)
(* The bytes themselves are sent by Playback and SequentialFeeder.         *)
(***************************************************************************)
EXTENDS Integers, Sequences, FiniteSets

CONSTANTS
    Servers,        \* what the remote server is like
    FileSize,       \* cells of the media
    EncodedSize,    \* cells of its content-encoded form
    Requests,       \* the Range headers of the player
    Layouts,        \* the box layouts of a file of this size
    HEAD_CELLS      \* how much of the file is searched for boxes

NoLength == -1      \* no Content-Length, or a total that is not known

(* The answers to HEAD and to a GET of the first cell: head_length and     *)
(* get_length tell whether they carry a Content-Length, head_ranges        *)
(* whether Accept-Ranges says bytes, total whether the Content-Range of a  *)
(* part ends in the total; encoded tells whether they say Content-Encoding.*)
ServerKind ==
    [head : {"refused", "ok"}, head_length : BOOLEAN, head_ranges : BOOLEAN,
     get : {"refused", "whole", "part"}, get_length : BOOLEAN,
     total : BOOLEAN, encoded : BOOLEAN]

ASSUME OpeningAssumption ==
    /\ FileSize \in Nat \ {0}
    /\ EncodedSize \in 1..(FileSize - 1)
    /\ HEAD_CELLS \in Nat \ {0}
    /\ Servers \subseteq ServerKind
    /\ \A r \in Requests :
          /\ r.form \in {"absent", "malformed", "empty", "last", "from", "between"}
          /\ r.a \in Nat /\ r.b \in Nat
    /\ \A l \in Layouts : l \in Seq([type : STRING, size : Nat, header : Nat])

VARIABLES
    server,     \* the server of the session's URL
    step,       \* "head", "range", "conclude", "open" or "failed"
    probe,      \* the locals of probe()
    proxy,      \* what LocalProxy was created with
    searched,   \* whether the moov box was searched
    last        \* what was done last: a reply to the player, or that search

openingVars == <<server, step, probe, proxy, searched, last>>

Lesser(a, b) == IF a < b THEN a ELSE b

Nothing == [status |-> 0, length |-> NoLength, range |-> <<>>, body |-> <<0, 0>>]

NotYet == [request |-> [form |-> "none", a |-> 0, b |-> 0], reply |-> Nothing,
           layout |-> <<>>, span |-> <<0, 0>>]

OpeningInit ==
    /\ server \in Servers
    /\ step = "head"
    /\ probe = [ok |-> FALSE, length |-> NoLength, accepts |-> FALSE, encoding |-> FALSE]
    /\ proxy = [total |-> NoLength, range_mode |-> FALSE]
    /\ searched = FALSE
    /\ last = NotYet

-----------------------------------------------------------------------------
(* The probe.                                                              *)

Size(s) == IF s.encoded THEN EncodedSize ELSE FileSize

HeadLength(s) == IF s.head_length THEN Size(s) ELSE NoLength

(* The total of the Content-Range; a part may leave it open ("0-0/*"). *)
PartTotal(s) == IF s.get = "part" /\ s.total THEN Size(s) ELSE NoLength

(* _parse_length: the Content-Length first, which of a part is its own. *)
GetLength(s) ==
    CASE s.get_length /\ s.get = "part"  -> 1
      [] s.get_length /\ s.get = "whole" -> Size(s)
      [] OTHER -> PartTotal(s)

ProbeHead ==
    /\ step = "head"
    /\ step' = "range"
    /\ \/ /\ server.head = "ok"
          /\ probe' = [ok |-> TRUE, length |-> HeadLength(server),
                       accepts |-> server.head_ranges, encoding |-> server.encoded]
       \/ UNCHANGED probe      \* refused, or the connection failed
    /\ UNCHANGED <<server, proxy, searched, last>>

Satisfied == probe.ok /\ probe.length # NoLength /\ probe.accepts

SkipRange ==
    /\ step = "range"
    /\ Satisfied
    /\ step' = "conclude"
    /\ UNCHANGED <<server, probe, proxy, searched, last>>

(* Mutant: the Content-Length of the part is taken for that of the media. *)
ProbeRangeParsed ==
    /\ step = "range"
    /\ ~Satisfied
    /\ step' = "conclude"
    /\ \/ /\ server.get # "refused"
          /\ probe' = [ok |-> TRUE,
                       length |-> IF probe.length # NoLength THEN probe.length
                                  ELSE GetLength(server),
                       accepts |-> probe.accepts \/ server.get = "part",
                       encoding |-> server.encoded]
       \/ /\ server.get = "refused"
          /\ UNCHANGED probe
       \/ probe' = [probe EXCEPT !.ok = FALSE]
    /\ UNCHANGED <<server, proxy, searched, last>>

ProbeRange ==
    /\ step = "range"
    /\ ~Satisfied
    /\ step' = "conclude"
    /\ \/ /\ server.get # "refused"
          /\ probe' = [ok |-> TRUE,
                       length |-> CASE PartTotal(server) # NoLength -> PartTotal(server)
                                    [] probe.length # NoLength -> probe.length
                                    [] OTHER -> GetLength(server),
                       accepts |-> probe.accepts \/ server.get = "part",
                       encoding |-> server.encoded]
       \/ /\ server.get = "refused"
          /\ UNCHANGED probe
       \/ probe' = [probe EXCEPT !.ok = FALSE]      \* the connection failed
    /\ UNCHANGED <<server, proxy, searched, last>>

(* RemoteStreamError: the session ends with ERROR. *)
ProbeFails ==
    /\ step = "conclude"
    /\ ~probe.ok
    /\ step' = "failed"
    /\ UNCHANGED <<server, probe, proxy, searched, last>>

(* Mutant: a content encoding does not rule the ranges out. *)
OpenEncoded ==
    /\ step = "conclude"
    /\ probe.ok
    /\ step' = "open"
    /\ proxy' = [total |-> probe.length,
                 range_mode |-> probe.length # NoLength /\ probe.accepts]
    /\ UNCHANGED <<server, probe, searched, last>>

Open ==
    /\ step = "conclude"
    /\ probe.ok
    /\ step' = "open"
    /\ proxy' = [total |-> probe.length,
                 range_mode |-> /\ probe.length # NoLength
                                /\ probe.accepts
                                /\ ~probe.encoding]
    /\ UNCHANGED <<server, probe, searched, last>>

-----------------------------------------------------------------------------
(* The replies to the player: do_GET, _serve, _send_headers and do_HEAD.   *)

Reply(r, p) ==
    /\ step = "open"
    /\ last' = [NotYet EXCEPT !.request = r, !.reply = p]
    /\ UNCHANGED <<server, step, probe, proxy, searched>>

(* Without a total no length is announced and the media is sent to its end. *)
ServeUnknown(r) ==
    /\ proxy.total = NoLength
    /\ Reply(r, [Nothing EXCEPT !.status = 200, !.body = <<0, FileSize>>])

Whole == [Nothing EXCEPT !.status = 200, !.length = proxy.total, !.body = <<0, proxy.total>>]

ServeWhole(r) ==
    /\ proxy.total # NoLength
    /\ ~proxy.range_mode \/ r.form \in {"absent", "malformed"}
    /\ Reply(r, Whole)

First(r) ==
    CASE r.form = "empty" -> 0
      [] r.form = "last"  -> IF r.a > proxy.total THEN 0 ELSE proxy.total - r.a
      [] OTHER            -> r.a

(* Mutant: the total is taken for the last cell. *)
LastBeyond(r) ==
    IF r.form = "between" THEN Lesser(r.b, proxy.total) ELSE proxy.total - 1

Last(r) ==
    IF r.form = "between" THEN Lesser(r.b, proxy.total - 1) ELSE proxy.total - 1

Ranged(r) ==
    /\ proxy.total # NoLength
    /\ proxy.range_mode
    /\ r.form \notin {"absent", "malformed"}

Unsatisfiable(r) == First(r) >= proxy.total \/ First(r) > Last(r)

RefuseRange(r) ==
    /\ Ranged(r)
    /\ Unsatisfiable(r)
    /\ Reply(r, [Nothing EXCEPT !.status = 416])

ServePart(r) ==
    /\ Ranged(r)
    /\ ~Unsatisfiable(r)
    /\ Reply(r, [status |-> 206, length |-> Last(r) - First(r) + 1,
                 range |-> <<First(r), Last(r), proxy.total>>,
                 body |-> <<First(r), Last(r) + 1>>])

HeadRequest == [form |-> "head", a |-> 0, b |-> 0]

AnswerHead ==
    Reply(HeadRequest,
          IF proxy.total = NoLength THEN [Nothing EXCEPT !.status = 400]
          ELSE [Whole EXCEPT !.body = <<0, 0>>])

Answer ==
    \/ \E r \in Requests : ServeUnknown(r) \/ ServeWhole(r) \/ RefuseRange(r) \/ ServePart(r)
    \/ AnswerHead

-----------------------------------------------------------------------------
(* prefetch_mp4_moov: a layout is the sequence of the boxes of the file,   *)
(* [type, size, header] in cells; a header of 0 is a size the walk gives   *)
(* up at ("to the end of the file", or smaller than the header).           *)

BoxStart(l, i) == LET start[k \in 1..i] == IF k = 1 THEN 0 ELSE start[k - 1] + l[k - 1].size
                  IN  start[i]

Skipped(box) == box.type = "ftyp"      \* and free, skip, wide

NotFound == -1

(* Mutant: the offset of the mdat box itself is returned. *)
MoovStartAtMdat(l, head) ==
    LET from[i \in 1..(Len(l) + 1)] ==
            IF i > Len(l) \/ l[i].header = 0 \/ BoxStart(l, i) + l[i].header > head
            THEN NotFound
            ELSE CASE Skipped(l[i])       -> from[i + 1]
                   [] l[i].type = "mdat" -> BoxStart(l, i)
                   [] OTHER              -> NotFound
    IN  from[1]

(* _locate_moov_after_mdat: what follows the first mdat behind boxes that  *)
(* are skipped; NotFound at a moov, a fragment, or the end of the head.    *)
MoovStart(l, head) ==
    LET from[i \in 1..(Len(l) + 1)] ==
            IF i > Len(l) \/ l[i].header = 0 \/ BoxStart(l, i) + l[i].header > head
            THEN NotFound
            ELSE CASE Skipped(l[i])       -> from[i + 1]
                   [] l[i].type = "mdat" -> BoxStart(l, i) + l[i].size
                   [] OTHER              -> NotFound
    IN  from[1]

PrefetchMoov ==
    /\ step = "open"
    /\ ~searched
    /\ searched' = TRUE
    /\ proxy.range_mode
    /\ \E l \in Layouts :
           LET start == MoovStart(l, Lesser(HEAD_CELLS, proxy.total))
           IN  last' = [NotYet EXCEPT !.layout = l,
                            !.span = IF start = NotFound \/ start >= proxy.total
                                     THEN <<0, 0>> ELSE <<start, proxy.total>>]
    /\ UNCHANGED <<server, step, probe, proxy>>

-----------------------------------------------------------------------------
(* The session has failed: nothing is left to do. *)
Failed == step = "failed" /\ UNCHANGED openingVars

OpeningNext ==
    \/ ProbeHead \/ SkipRange \/ ProbeRange \/ ProbeFails \/ Open
    \/ Answer
    \/ PrefetchMoov
    \/ Failed

OpeningSpec == OpeningInit /\ [][OpeningNext]_openingVars

-----------------------------------------------------------------------------
(* Properties.                                                             *)

(* Servers whose headers are true: ranges are only announced by a server   *)
(* that serves them, and what is refused tells nothing.                    *)
Truthful(s) ==
    /\ s.head_ranges => s.get = "part"
    /\ s.head = "refused" => ~s.head_length /\ ~s.head_ranges
    /\ s.get # "part" => ~s.total
    /\ s.get = "refused" => ~s.get_length

(* Servers whose parts name the total size of the media. *)
NamesTotal(s) == s.get = "part" => s.total

(* With truthful servers that name the total the probe tells random access *)
(* from sequential reading: ranges are used exactly with a server that     *)
(* serves them and does not encode the media, whichever of the two         *)
(* questions was answered, and then the total is the size of the media     *)
(* (remote.py: "Random access needs a known length and no transfer/content *)
(* encoding").                                                             *)
RangeModeExact ==
    step = "open" =>
        /\ proxy.range_mode <=> server.get = "part" /\ ~server.encoded
        /\ proxy.range_mode => proxy.total = FileSize

(* What probe() reports as the length is the length of the media           *)
(* ("Inspect headers to learn length"), or that it is unknown.             *)
LengthTrue == step = "open" => proxy.total \in {NoLength, FileSize}

(* The cells of the media that a request asks for, as a set. *)
CellsAsked(r) ==
    {i \in 0..(proxy.total - 1) :
        /\ r.form = "last" => i >= proxy.total - r.a
        /\ r.form \in {"from", "between"} => i >= r.a
        /\ r.form = "between" => i <= r.b}

(* The headers and the body of a part agree with each other and with the   *)
(* cells asked for (_serve): 416 exactly when there are none, a whole      *)
(* answer when ranges are not served, and HEAD announces what a GET of the *)
(* whole media does.                                                       *)
ReplyExact ==
    LET r == last.request
        p == last.reply
    IN  /\ p.status = 206 =>
               /\ CellsAsked(r) = {i \in 0..(proxy.total - 1) : p.body[1] <= i /\ i < p.body[2]}
               /\ 0 <= p.body[1] /\ p.body[1] < p.body[2] /\ p.body[2] <= proxy.total
               /\ p.length = p.body[2] - p.body[1]
               /\ p.range = <<p.body[1], p.body[2] - 1, proxy.total>>
        /\ p.status = 416 => CellsAsked(r) = {}
        /\ p.status = 200 /\ p.length # NoLength => p.length = proxy.total
        /\ p.status = 200 /\ r.form # "head" =>
               p.body[1] = 0 /\ p.length \in {NoLength, p.body[2]}

(* The prefetch of the moov box takes what the player needs and not the    *)
(* media data (prefetch_mp4_moov: "preloads exactly that tail region"): it *)
(* holds no cell of the first mdat, every moov behind it, and nothing when *)
(* the moov comes first.                                                   *)
MoovPrefetched ==
    LET l == last.layout
        Span == last.span[1]..(last.span[2] - 1)
        Cells(i) == BoxStart(l, i)..(BoxStart(l, i) + l[i].size - 1)
        Leading == {i \in 1..Len(l) : ~Skipped(l[i]) /\ \A j \in 1..(i - 1) : Skipped(l[j])}
        Readable(i) == \A j \in 1..i :
            l[j].header > 0 /\ BoxStart(l, j) + l[j].header <= Lesser(HEAD_CELLS, FileSize)
    IN  /\ Leading = {} => Span = {}
        /\ \A i \in Leading :
               /\ l[i].type # "mdat" => Span = {}
               /\ Span \cap Cells(i) = {}
               /\ l[i].type = "mdat" /\ Readable(i) =>
                      \A k \in (i + 1)..Len(l) : l[k].type = "moov" =>
                          Cells(k) \cap 0..(FileSize - 1) \subseteq Span
=============================================================================
