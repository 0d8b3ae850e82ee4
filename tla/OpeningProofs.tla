------------------------------ MODULE OpeningProofs ------------------------------
(***************************************************************************)
(* Proofs about Opening, for every size of the media, every set of servers,*)
(* every Range header and every layout of boxes.                           *)
(***************************************************************************)
EXTENDS Opening, WellFoundedInduction, TLAPS

(* The lengths the probe can come to. *)
Lengths == {NoLength, 1, FileSize, EncodedSize}

(* What the probe knows, and that nobody is answered before it is over. *)
Probed ==
    /\ server \in Servers
    /\ probe \in [ok : BOOLEAN, length : Lengths, accepts : BOOLEAN, encoding : BOOLEAN]
    /\ proxy \in [total : Lengths, range_mode : BOOLEAN]
    /\ step # "open" => last = NotYet

LEMMA LengthsNumbers == Lengths \subseteq Int /\ \A n \in Lengths : n # NoLength => n >= 1
  BY OpeningAssumption DEF Lengths, NoLength

(* The last reply is one of those Answer gives, and the request one of the *)
(* player's; or the moov box was searched for last.                        *)
Replied ==
    \/ last.reply = Nothing
    \/ last.request = HeadRequest /\ last.reply.status = 400
    \/ last.request = HeadRequest /\ proxy.total # NoLength
          /\ last.reply = [Whole EXCEPT !.body = <<0, 0>>]
    \/ last.request \in Requests
          /\ last.reply = [Nothing EXCEPT !.status = 200, !.body = <<0, FileSize>>]
    \/ last.request \in Requests /\ proxy.total # NoLength /\ last.reply = Whole
    \/ /\ last.request \in Requests
       /\ Ranged(last.request)
       /\ Unsatisfiable(last.request)
       /\ last.reply = [Nothing EXCEPT !.status = 416]
    \/ /\ last.request \in Requests
       /\ Ranged(last.request)
       /\ ~Unsatisfiable(last.request)
       /\ last.reply =
              [status |-> 206, length |-> Last(last.request) - First(last.request) + 1,
               range |-> <<First(last.request), Last(last.request), proxy.total>>,
               body |-> <<First(last.request), Last(last.request) + 1>>]

(* First and Last bound exactly the cells asked for. *)
LEMMA CellsBetween ==
  ASSUME NEW r \in Requests, proxy.total \in Nat \ {0}, Ranged(r)
  PROVE  /\ First(r) \in Nat /\ Last(r) \in Int /\ Last(r) < proxy.total
         /\ CellsAsked(r) = {i \in 0..(proxy.total - 1) : First(r) <= i /\ i < Last(r) + 1}
<1>1. r.a \in Nat /\ r.b \in Nat
  BY OpeningAssumption
<1>2. r.form \in {"empty", "last", "from", "between"}
  BY OpeningAssumption DEF Ranged
<1>3. CASE r.form = "empty"
  BY <1>1, <1>3 DEF First, Last, CellsAsked
<1>4. CASE r.form = "last"
  BY <1>1, <1>4 DEF First, Last, CellsAsked
<1>5. CASE r.form = "from"
  BY <1>1, <1>5 DEF First, Last, CellsAsked
<1>6. CASE r.form = "between"
  BY <1>1, <1>6 DEF First, Last, CellsAsked, Lesser
<1> QED
  BY <1>2, <1>3, <1>4, <1>5, <1>6

(* What Answer replies is exact. *)
LEMMA RepliedExact ==
  ASSUME Probed, Replied
  PROVE  ReplyExact
<1> DEFINE r == last.request
           p == last.reply
<1>1. proxy.total \in Int /\ (proxy.total # NoLength => proxy.total \in Nat \ {0})
  <2>1. proxy.total \in Lengths
    BY DEF Probed
  <2>2. proxy.total \in Int /\ (proxy.total # NoLength => proxy.total >= 1)
    BY <2>1, LengthsNumbers
  <2> QED
    BY <2>2
<1>2. CASE p = Nothing
  BY <1>2 DEF ReplyExact, Nothing
<1>3. CASE r = HeadRequest /\ p.status = 400
  BY <1>3 DEF ReplyExact
<1>4. CASE r = HeadRequest /\ p = [Whole EXCEPT !.body = <<0, 0>>]
  BY <1>4 DEF ReplyExact, Whole, Nothing, HeadRequest
<1>5. CASE p = [Nothing EXCEPT !.status = 200, !.body = <<0, FileSize>>]
  BY <1>5 DEF ReplyExact, Nothing
<1>6. CASE p = Whole
  BY <1>6 DEF ReplyExact, Whole, Nothing
<1>7. ASSUME r \in Requests, Ranged(r), Unsatisfiable(r),
             p = [Nothing EXCEPT !.status = 416]
      PROVE  ReplyExact
  <2>1. CellsAsked(r) = {}
    BY <1>1, <1>7, CellsBetween DEF Ranged, Unsatisfiable
  <2>2. p.status = 416
    BY <1>7 DEF Nothing
  <2> QED
    BY <2>1, <2>2 DEF ReplyExact
<1>8. ASSUME r \in Requests, Ranged(r), ~Unsatisfiable(r),
             p = [status |-> 206, length |-> Last(r) - First(r) + 1,
                  range |-> <<First(r), Last(r), proxy.total>>,
                  body |-> <<First(r), Last(r) + 1>>]
      PROVE  ReplyExact
  <2>1. /\ First(r) \in Nat /\ Last(r) \in Int /\ Last(r) < proxy.total
        /\ CellsAsked(r) = {i \in 0..(proxy.total - 1) : First(r) <= i /\ i < Last(r) + 1}
    BY <1>1, <1>8, CellsBetween DEF Ranged
  <2>2. First(r) <= Last(r)
    BY <1>1, <1>8, <2>1 DEF Unsatisfiable
  <2>3. /\ p.status = 206 /\ p.length = Last(r) - First(r) + 1
        /\ p.range = <<First(r), Last(r), proxy.total>>
        /\ p.body[1] = First(r) /\ p.body[2] = Last(r) + 1
    BY <1>8
  <2>4. p.length = p.body[2] - p.body[1] /\ p.range = <<p.body[1], p.body[2] - 1, proxy.total>>
    BY <2>1, <2>3
  <2> QED
    BY <1>1, <2>1, <2>2, <2>3, <2>4 DEF ReplyExact
<1> QED
  BY <1>2, <1>3, <1>4, <1>5, <1>6, <1>7, <1>8 DEF Replied

LEMMA OpeningStarts ==
  ASSUME OpeningInit
  PROVE  Probed /\ Replied
  BY OpeningAssumption DEF OpeningInit, Probed, Replied, Lengths, NotYet

LEMMA GetLengths ==
  ASSUME NEW s \in Servers
  PROVE  HeadLength(s) \in Lengths /\ PartTotal(s) \in Lengths /\ GetLength(s) \in Lengths
  BY DEF HeadLength, PartTotal, GetLength, Size, Lengths

LEMMA ServersKnown == \A s \in Servers : s \in ServerKind
  BY OpeningAssumption

(* The probe's steps and the answers keep both. *)
LEMMA OpeningStep ==
  ASSUME Probed, Replied, [OpeningNext]_openingVars
  PROVE  Probed' /\ Replied'
<1>1. CASE ProbeHead
  <2>1. probe' \in [ok : BOOLEAN, length : Lengths, accepts : BOOLEAN, encoding : BOOLEAN]
    <3>1. /\ server.encoded \in BOOLEAN /\ server.head_ranges \in BOOLEAN
          /\ HeadLength(server) \in Lengths
      BY GetLengths, ServersKnown DEF Probed, ServerKind
    <3>2. CASE probe' = [ok |-> TRUE, length |-> HeadLength(server),
                         accepts |-> server.head_ranges, encoding |-> server.encoded]
      BY <3>1, <3>2
    <3>3. CASE UNCHANGED probe
      BY <3>3 DEF Probed
    <3> QED
      BY <1>1, <3>2, <3>3 DEF ProbeHead
  <2> QED
    BY <1>1, <2>1 DEF ProbeHead, Probed, Replied, NotYet
<1>2. CASE SkipRange
  BY <1>2 DEF SkipRange, Probed, Replied, NotYet
<1>3. CASE ProbeRange
  <2>1. probe' \in [ok : BOOLEAN, length : Lengths, accepts : BOOLEAN, encoding : BOOLEAN]
    <3>1. /\ server.encoded \in BOOLEAN /\ PartTotal(server) \in Lengths
          /\ GetLength(server) \in Lengths
      BY GetLengths, ServersKnown DEF Probed, ServerKind
    <3> DEFINE length == CASE PartTotal(server) # NoLength -> PartTotal(server)
                           [] probe.length # NoLength -> probe.length
                           [] OTHER -> GetLength(server)
    <3>2. length \in Lengths
      BY <3>1 DEF Probed
    <3>3. CASE probe' = [ok |-> TRUE, length |-> length,
                         accepts |-> probe.accepts \/ server.get = "part",
                         encoding |-> server.encoded]
      BY <3>1, <3>2, <3>3 DEF Probed
    <3>4. CASE UNCHANGED probe \/ probe' = [probe EXCEPT !.ok = FALSE]
      BY <3>4 DEF Probed
    <3> QED
      BY <1>3, <3>3, <3>4 DEF ProbeRange
  <2> QED
    BY <1>3, <2>1 DEF ProbeRange, Probed, Replied, NotYet
<1>4. CASE ProbeFails
  BY <1>4 DEF ProbeFails, Probed, Replied, NotYet
<1>5. CASE Open
  BY <1>5 DEF Open, Probed, Replied, NotYet
<1>6. CASE Answer
  <2>1. Probed'
    BY <1>6 DEF Answer, ServeUnknown, ServeWhole, RefuseRange, ServePart, AnswerHead, Reply, Probed
  <2>2. ASSUME NEW q, NEW a, Reply(q, a)
        PROVE  last'.request = q /\ last'.reply = a /\ UNCHANGED proxy
    BY <2>2 DEF Reply, NotYet
  <2>3. ASSUME NEW r \in Requests, ServeUnknown(r) PROVE Replied'
    BY <2>2, <2>3 DEF ServeUnknown, Replied
  <2>4. ASSUME NEW r \in Requests, ServeWhole(r) PROVE Replied'
    BY <2>4 DEF ServeWhole, Reply, NotYet, Whole, Nothing, Replied
  <2>5. ASSUME NEW r \in Requests, RefuseRange(r) PROVE Replied'
    BY <2>2, <2>5 DEF RefuseRange, Ranged, Unsatisfiable, First, Last, Replied
  <2>6. ASSUME NEW r \in Requests, ServePart(r) PROVE Replied'
    BY <2>2, <2>6 DEF ServePart, Ranged, Unsatisfiable, First, Last, Replied
  <2>7. ASSUME AnswerHead PROVE Replied'
    <3>1. CASE proxy.total = NoLength
      BY <2>7, <3>1 DEF AnswerHead, Reply, NotYet, Nothing, HeadRequest, Replied
    <3>2. CASE proxy.total # NoLength
      BY <2>7, <3>2 DEF AnswerHead, Reply, NotYet, Nothing, Whole, HeadRequest, Replied
    <3> QED
      BY <3>1, <3>2
  <2> QED
    BY <1>6, <2>1, <2>3, <2>4, <2>5, <2>6, <2>7 DEF Answer
<1>7. CASE PrefetchMoov
  <2>1. last'.reply = Nothing
    BY <1>7 DEF PrefetchMoov, NotYet
  <2> QED
    BY <1>7, <2>1 DEF PrefetchMoov, Probed, Replied
<1>8. CASE Failed \/ UNCHANGED openingVars
  <2>1. last' = last /\ proxy' = proxy /\ server' = server /\ step' = step /\ probe' = probe
    BY <1>8 DEF Failed, openingVars
  <2>2. Probed'
    BY <2>1 DEF Probed
  <2>3. Replied' = Replied
    BY <2>1 DEF Replied, Ranged, Unsatisfiable, First, Last, Whole
  <2> QED
    BY <2>2, <2>3
<1> QED
  BY <1>1, <1>2, <1>3, <1>4, <1>5, <1>6, <1>7, <1>8 DEF OpeningNext

(* Every reply to the player, for every total the probe comes to and every *)
(* Range header: the numbers in its headers and the cells in its body are  *)
(* those asked for (LocalProxy's _serve and do_HEAD).                      *)
THEOREM RepliesExact == OpeningSpec => []ReplyExact
<1>1. OpeningInit => Probed /\ Replied
  BY OpeningStarts
<1>2. Probed /\ Replied /\ [OpeningNext]_openingVars => (Probed /\ Replied)'
  BY OpeningStep
<1>3. Probed /\ Replied => ReplyExact
  BY RepliedExact
<1> QED
  BY <1>1, <1>2, <1>3, PTL DEF OpeningSpec

-----------------------------------------------------------------------------
(* What the probe knows about the server, after each of its questions. *)
ProbeKnows ==
    /\ step = "head" =>
          ~probe.ok /\ ~probe.accepts /\ probe.length = NoLength
    /\ step \in {"range", "conclude"} =>
          /\ probe.accepts => server.get = "part"
          /\ probe.ok => probe.encoding = server.encoded
          /\ probe.length \in {NoLength, Size(server)}
          /\ ~probe.ok /\ step = "range" => probe.length = NoLength /\ ~probe.accepts
    /\ step = "conclude" /\ probe.ok /\ server.get = "part" =>
          probe.accepts /\ probe.length = Size(server)
    /\ RangeModeExact

(* Ranges are used exactly when they work, for every set of truthful       *)
(* servers whose parts name the total (RemoteStream.probe).                *)
THEOREM ProbeExact ==
  ASSUME \A s \in Servers : Truthful(s) /\ NamesTotal(s)
  PROVE  OpeningSpec => []RangeModeExact
<1>1. OpeningInit => ProbeKnows
  BY DEF OpeningInit, ProbeKnows, RangeModeExact
<1>2. ASSUME Probed, ProbeKnows, [OpeningNext]_openingVars
      PROVE  ProbeKnows'
  <2> USE <1>2
  <2>1. /\ server \in ServerKind /\ Truthful(server) /\ NamesTotal(server)
        /\ Size(server) \in Nat /\ Size(server) # NoLength
        /\ (~server.encoded => Size(server) = FileSize)
    BY ServersKnown, OpeningAssumption DEF Probed, Size, NoLength
  <2>2. CASE ProbeHead
    <3>1. step' = "range" /\ server' = server
      BY <2>2 DEF ProbeHead
    <3>2. CASE /\ server.head = "ok"
               /\ probe' = [ok |-> TRUE, length |-> HeadLength(server),
                            accepts |-> server.head_ranges, encoding |-> server.encoded]
      BY <2>1, <3>1, <3>2 DEF ProbeKnows, RangeModeExact, HeadLength, Truthful, Size
    <3>3. CASE UNCHANGED probe
      BY <2>1, <2>2, <3>1, <3>3 DEF ProbeHead, ProbeKnows, RangeModeExact, Size
    <3> QED
      BY <2>2, <3>2, <3>3 DEF ProbeHead
  <2>3. CASE SkipRange
    BY <2>1, <2>3 DEF SkipRange, Satisfied, ProbeKnows, RangeModeExact, Probed
  <2>4. CASE ProbeRange
    BY <2>1, <2>4 DEF ProbeRange, ProbeKnows, RangeModeExact, Probed, PartTotal, GetLength,
                      Truthful, NamesTotal, ServerKind
  <2>5. CASE ProbeFails
    BY <2>5 DEF ProbeFails, ProbeKnows, RangeModeExact
  <2>6. CASE Open
    BY <2>1, <2>6 DEF Open, ProbeKnows, RangeModeExact, Probed, Truthful, ServerKind
  <2>7. CASE Answer \/ PrefetchMoov \/ Failed \/ UNCHANGED openingVars
    <3>1. step' = step /\ server' = server /\ probe' = probe /\ proxy' = proxy
      BY <2>7 DEF Answer, ServeUnknown, ServeWhole, RefuseRange, ServePart, AnswerHead, Reply,
                  PrefetchMoov, Failed, openingVars
    <3> QED
      BY <3>1 DEF ProbeKnows, RangeModeExact, Size
  <2> QED
    BY <2>2, <2>3, <2>4, <2>5, <2>6, <2>7 DEF OpeningNext
<1>3. OpeningSpec => [](Probed /\ Replied)
  BY OpeningStarts, OpeningStep, PTL DEF OpeningSpec
<1>4. ProbeKnows => RangeModeExact
  BY DEF ProbeKnows
<1> QED
  BY <1>1, <1>2, <1>3, <1>4, PTL DEF OpeningSpec

-----------------------------------------------------------------------------
(* Where the boxes of a file start.                                        *)

LEMMA Least ==
    ASSUME NEW S, S \subseteq Nat, S # {}
    PROVE  \E m \in S : \A n \in S : m <= n
<1> DEFINE R == OpToRel(<, Nat)
<1>1. IsWellFoundedOn(R, Nat)
  BY NatLessThanWellFounded
<1>2. \A x, y \in Nat : x < y => <<x, y>> \in R
  BY DEF OpToRel
<1> HIDE DEF R
<1>3. PICK m \in S : \A y \in S : ~ (<<y, m>> \in R)
  <2>1. \E x \in S : \A y \in S : ~ (<<y, x>> \in R)
    BY <1>1, WFMin
  <2> QED
    BY <2>1
<1>4. ASSUME NEW n \in S PROVE m <= n
  <2>1. m \in Nat /\ n \in Nat
    OBVIOUS
  <2>2. ~ (n < m)
    BY <1>2, <1>3, <2>1
  <2> QED
    BY <2>1, <2>2
<1> QED
  BY <1>4

(* Induction on a set, as an operator cannot be a lemma's parameter here. *)
LEMMA Induct ==
    ASSUME NEW S, S \subseteq Nat, 0 \in S, \A n \in S : n + 1 \in S
    PROVE  S = Nat
<1> SUFFICES ASSUME Nat \ S # {} PROVE FALSE
  OBVIOUS
<1>1. PICK m \in Nat \ S : \A n \in Nat \ S : m <= n
  BY Least
<1>2. m # 0 /\ m - 1 \in Nat
  BY <1>1
<1>3. m - 1 \in S
  BY <1>1, <1>2
<1> QED
  BY <1>1, <1>2, <1>3

Box == [type : STRING, size : Nat, header : Nat]

(* g gives the starts of the first n boxes of l (BoxStart's own function). *)
Starts(g, l, n) == g = [k \in 1..n |-> IF k = 1 THEN 0 ELSE g[k - 1] + l[k - 1].size]

LEMMA StartValues ==
    ASSUME NEW g, NEW l, NEW n \in Nat, Starts(g, l, n)
    PROVE  /\ n >= 1 => g[1] = 0
           /\ \A k \in 2..n : g[k] = g[k - 1] + l[k - 1].size
<1> DEFINE e(k) == IF k = 1 THEN 0 ELSE g[k - 1] + l[k - 1].size
<1>1. g = [k \in 1..n |-> e(k)]
  BY DEF Starts
<1> HIDE DEF e
<1>2. \A k \in 1..n : g[k] = e(k)
  BY <1>1
<1>3. /\ n >= 1 => g[1] = e(1)
      /\ \A k \in 2..n : g[k] = e(k) /\ k # 1
  BY <1>2
<1> QED
  BY <1>3 DEF e

LEMMA StartsExist ==
    ASSUME NEW l, NEW n \in Nat
    PROVE  \E g : Starts(g, l, n)
<1> DEFINE X == {j \in Nat : \E g : Starts(g, l, j)}
<1>1. 0 \in X
  <2> DEFINE g == [k \in 1..0 |-> 0]
  <2>1. Starts(g, l, 0)
    BY DEF Starts
  <2> QED
    BY <2>1
<1>2. ASSUME NEW j \in X PROVE j + 1 \in X
  <2>1. PICK g : Starts(g, l, j)
    OBVIOUS
  <2> DEFINE final == IF j = 0 THEN 0 ELSE g[j] + l[j].size
             h    == [k \in 1..(j + 1) |-> IF k <= j THEN g[k] ELSE final]
             e(k) == IF k = 1 THEN 0 ELSE h[k - 1] + l[k - 1].size
  <2>2. j \in Nat /\ j + 1 \in Nat
    OBVIOUS
  <2>3. ASSUME NEW k \in 1..(j + 1) PROVE h[k] = e(k)
    <3>1. CASE k <= j
      <4>1. h[k] = g[k] /\ k \in 1..j
        BY <2>2, <3>1
      <4>2. CASE k = 1
        <5>1. g[1] = 0
          BY <2>1, <2>2, <4>1, <4>2, StartValues
        <5> QED
          BY <4>1, <4>2, <5>1
      <4>3. CASE k # 1
        <5>1. k \in 2..j /\ k - 1 \in 1..(j + 1) /\ k - 1 <= j
          BY <2>2, <4>1, <4>3
        <5>2. h[k - 1] = g[k - 1]
          BY <5>1
        <5>3. g[k] = g[k - 1] + l[k - 1].size
          BY <2>1, <2>2, <5>1, StartValues
        <5> QED
          BY <4>1, <4>3, <5>2, <5>3
      <4> QED
        BY <4>2, <4>3
    <3>2. CASE k = j + 1
      <4>1. h[k] = final
        BY <2>2, <3>2
      <4>2. CASE j = 0
        BY <3>2, <4>1, <4>2
      <4>3. CASE j # 0
        <5>1. k # 1 /\ k - 1 = j /\ j \in 1..(j + 1)
          BY <2>2, <3>2, <4>3
        <5>2. h[j] = g[j]
          BY <5>1
        <5> QED
          BY <4>1, <4>3, <5>1, <5>2
      <4> QED
        BY <4>2, <4>3
    <3> QED
      BY <2>2, <3>1, <3>2
  <2>4. h = [k \in 1..(j + 1) |-> e(k)]
    <3> HIDE DEF final, e
    <3>1. h = [k \in 1..(j + 1) |-> h[k]]
      OBVIOUS
    <3> HIDE DEF h
    <3> QED
      BY <2>3, <3>1
  <2> HIDE DEF h
  <2>5. Starts(h, l, j + 1)
    BY <2>4 DEF Starts
  <2> QED
    BY <2>2, <2>5
<1> HIDE DEF X
<1>3. X = Nat
  <2>1. X \subseteq Nat
    BY DEF X
  <2> QED
    BY <1>1, <1>2, <2>1, Induct
<1> QED
  BY <1>3 DEF X

(* There is one such function, whatever its length. *)
LEMMA StartsSame ==
    ASSUME NEW l, NEW m \in Nat, NEW n \in Nat, m <= n,
           NEW g, Starts(g, l, m), NEW h, Starts(h, l, n)
    PROVE  \A k \in 1..m : g[k] = h[k]
<1> DEFINE X == {k \in 1..m : g[k] # h[k]}
<1> SUFFICES ASSUME X # {} PROVE FALSE
  OBVIOUS
<1>1. PICK k \in X : \A j \in X : k <= j
  <2>1. X \subseteq Nat
    OBVIOUS
  <2> HIDE DEF X
  <2> QED
    BY <2>1, Least
<1>2. k # 1
  BY StartValues
<1>3. k - 1 \in 1..m /\ k - 1 \notin X /\ k \in 2..m /\ k \in 2..n
  BY <1>1, <1>2
<1>4. g[k - 1] = h[k - 1]
  BY <1>3
<1>5. /\ g[k] = g[k - 1] + l[k - 1].size
      /\ h[k] = h[k - 1] + l[k - 1].size
  BY <1>3, StartValues
<1> QED
  BY <1>4, <1>5

(* A box starts where the one before it ends. *)
LEMMA BoxStarts ==
    ASSUME NEW l, NEW i \in Nat, i >= 1
    PROVE  /\ BoxStart(l, 1) = 0
           /\ BoxStart(l, i + 1) = BoxStart(l, i) + l[i].size
<1>1. ASSUME NEW n \in Nat PROVE \E g : Starts(g, l, n) /\ BoxStart(l, n) = g[n]
  <2> DEFINE g == CHOOSE g : Starts(g, l, n)
  <2>1. Starts(g, l, n)
    BY StartsExist
  <2>2. BoxStart(l, n) = g[n]
    BY DEF BoxStart, Starts
  <2> QED
    BY <2>1, <2>2
<1>2. PICK f : Starts(f, l, 1) /\ BoxStart(l, 1) = f[1]
  BY <1>1
<1>3. PICK g : Starts(g, l, i) /\ BoxStart(l, i) = g[i]
  BY <1>1
<1>4. PICK h : Starts(h, l, i + 1) /\ BoxStart(l, i + 1) = h[i + 1]
  <2>1. i + 1 \in Nat
    OBVIOUS
  <2> QED
    BY <1>1, <2>1
<1>5. f[1] = 0
  BY <1>2, StartValues
<1>6. h[i + 1] = h[i] + l[i].size
  <2>1. i + 1 \in Nat /\ i + 1 \in 2..(i + 1) /\ i + 1 - 1 = i
    OBVIOUS
  <2>2. h[i + 1] = h[i + 1 - 1] + l[i + 1 - 1].size
    BY <1>4, <2>1, StartValues
  <2> QED
    BY <2>1, <2>2
<1>7. g[i] = h[i]
  <2>1. i + 1 \in Nat /\ i <= i + 1 /\ i \in 1..i
    OBVIOUS
  <2> QED
    BY <1>3, <1>4, <2>1, StartsSame
<1> QED
  BY <1>2, <1>3, <1>4, <1>5, <1>6, <1>7

LEMMA StartsOrdered ==
    ASSUME NEW l \in Seq(Box)
    PROVE  /\ \A i \in 1..Len(l) : BoxStart(l, i) \in Nat
           /\ \A i, k \in 1..Len(l) :
                  i < k => BoxStart(l, i) + l[i].size <= BoxStart(l, k)
<1>1. ASSUME NEW i \in 1..Len(l)
      PROVE  l[i].size \in Nat /\ i \in Nat /\ i >= 1
  <2>1. l[i] \in Box
    OBVIOUS
  <2> QED
    BY <2>1 DEF Box
<1>2. ASSUME NEW i \in 1..Len(l) PROVE BoxStart(l, i) \in Nat
  <2> DEFINE X == {k \in 1..Len(l) : BoxStart(l, k) \notin Nat}
  <2> SUFFICES ASSUME X # {} PROVE FALSE
    OBVIOUS
  <2>1. PICK k \in X : \A j \in X : k <= j
    <3>1. X \subseteq Nat
      OBVIOUS
    <3> HIDE DEF X
    <3> QED
      BY <3>1, Least
  <2>2. k # 1
    <3>1. BoxStart(l, 1) = 0
      BY <1>1, BoxStarts
    <3> QED
      BY <2>1, <3>1
  <2>3. k - 1 \in 1..Len(l) /\ k - 1 \notin X /\ k - 1 + 1 = k
    BY <2>1, <2>2
  <2>4. BoxStart(l, k - 1) \in Nat
    BY <2>3
  <2>5. BoxStart(l, k - 1 + 1) = BoxStart(l, k - 1) + l[k - 1].size
    <3> DEFINE j == k - 1
    <3>1. j \in Nat /\ j >= 1
      BY <2>3
    <3> HIDE DEF j
    <3>2. BoxStart(l, j + 1) = BoxStart(l, j) + l[j].size
      BY <3>1, BoxStarts
    <3> QED
      BY <3>2 DEF j
  <2> QED
    BY <1>1, <2>1, <2>3, <2>4, <2>5
<1>3. ASSUME NEW i \in 1..Len(l), NEW k \in 1..Len(l), i < k
      PROVE  BoxStart(l, i) + l[i].size <= BoxStart(l, k)
  <2> DEFINE X == {m \in (i + 1)..Len(l) :
                      ~(BoxStart(l, i) + l[i].size <= BoxStart(l, m))}
  <2> SUFFICES ASSUME X # {} PROVE FALSE
    BY <1>3
  <2>1. PICK m \in X : \A j \in X : m <= j
    <3>1. X \subseteq Nat
      OBVIOUS
    <3> HIDE DEF X
    <3> QED
      BY <3>1, Least
  <2>2. BoxStart(l, i) \in Nat /\ l[i].size \in Nat
    BY <1>1, <1>2
  <2>3. m # i + 1
    <3>1. BoxStart(l, i + 1) = BoxStart(l, i) + l[i].size
      BY <1>1, BoxStarts
    <3> QED
      BY <2>1, <2>2, <3>1
  <2> DEFINE j == m - 1
  <2>4. j \in (i + 1)..Len(l) /\ j \notin X /\ j + 1 = m /\ j \in 1..Len(l)
    BY <2>1, <2>3
  <2>5. BoxStart(l, i) + l[i].size <= BoxStart(l, j)
    BY <2>4
  <2>6. m \in X /\ m \in 1..Len(l)
    BY <2>1
  <2> HIDE DEF j
  <2>7. /\ BoxStart(l, j) \in Nat /\ l[j].size \in Nat /\ BoxStart(l, m) \in Nat
        /\ BoxStart(l, j + 1) = BoxStart(l, j) + l[j].size
    BY <1>1, <1>2, <2>4, <2>6, BoxStarts
  <2>8. BoxStart(l, m) = BoxStart(l, j) + l[j].size
    BY <2>4, <2>7
  <2>9. BoxStart(l, i) + l[i].size <= BoxStart(l, m)
    <3> DEFINE a == BoxStart(l, i)
               b == l[i].size
               c == BoxStart(l, j)
               d == l[j].size
               e == BoxStart(l, m)
    <3>1. a \in Nat /\ b \in Nat /\ c \in Nat /\ d \in Nat /\ e = c + d /\ a + b <= c
      BY <2>2, <2>5, <2>7, <2>8
    <3> HIDE DEF a, b, c, d, e
    <3>2. a + b <= e
      BY <3>1
    <3> QED
      BY <3>2 DEF a, b, e
  <2> QED
    BY <2>6, <2>9
<1> QED
  BY <1>2, <1>3

-----------------------------------------------------------------------------
(* Where the walk over the boxes ends.                                     *)

Unread(l, i, head) == l[i].header = 0 \/ BoxStart(l, i) + l[i].header > head

Halts(l, i, head) == Unread(l, i, head) \/ ~Skipped(l[i])

(* What the walk finds at the box it halts at. *)
Found(l, i, head) == IF ~Unread(l, i, head) /\ l[i].type = "mdat"
                     THEN BoxStart(l, i) + l[i].size ELSE NotFound

(* f is the function of MoovStart. *)
Walk(f, l, head) ==
    f = [i \in 1..(Len(l) + 1) |->
            IF i > Len(l) \/ l[i].header = 0 \/ BoxStart(l, i) + l[i].header > head
            THEN NotFound
            ELSE CASE Skipped(l[i])       -> f[i + 1]
                   [] l[i].type = "mdat" -> BoxStart(l, i) + l[i].size
                   [] OTHER              -> NotFound]

WalkAt(l, i, head, next) ==
    IF i > Len(l) THEN NotFound
    ELSE IF Halts(l, i, head) THEN Found(l, i, head) ELSE next

LEMMA WalkMeans ==
    ASSUME NEW l \in Seq(Box), NEW head, NEW i \in 1..(Len(l) + 1), NEW next
    PROVE  (IF i > Len(l) \/ l[i].header = 0 \/ BoxStart(l, i) + l[i].header > head
            THEN NotFound
            ELSE CASE Skipped(l[i])       -> next
                   [] l[i].type = "mdat" -> BoxStart(l, i) + l[i].size
                   [] OTHER              -> NotFound) = WalkAt(l, i, head, next)
<1> DEFINE start == BoxStart(l, i) + l[i].size
           late  == BoxStart(l, i) + l[i].header > head
<1>1. CASE i > Len(l)
  BY <1>1 DEF WalkAt
<1>2. CASE ~(i > Len(l))
  <2>1. Skipped(l[i]) => l[i].type # "mdat"
    BY DEF Skipped
  <2>2. Unread(l, i, head) = (l[i].header = 0 \/ late)
    BY DEF Unread
  <2>3. Found(l, i, head) = IF ~Unread(l, i, head) /\ l[i].type = "mdat"
                            THEN start ELSE NotFound
    BY DEF Found
  <2>4. WalkAt(l, i, head, next) =
            IF Unread(l, i, head) \/ ~Skipped(l[i]) THEN Found(l, i, head) ELSE next
    BY <1>2 DEF WalkAt, Halts
  <2> HIDE DEF start, late
  <2>5. CASE Unread(l, i, head)
    <3>1. l[i].header = 0 \/ late
      BY <2>2, <2>5
    <3> QED
      BY <2>3, <2>4, <2>5, <3>1 DEF late
  <2>6. CASE ~Unread(l, i, head) /\ Skipped(l[i])
    <3>1. ~(i > Len(l) \/ l[i].header = 0 \/ late)
      BY <1>2, <2>2, <2>6
    <3> QED
      BY <2>1, <2>4, <2>6, <3>1 DEF late
  <2>7. CASE ~Unread(l, i, head) /\ ~Skipped(l[i]) /\ l[i].type = "mdat"
    <3>1. ~(i > Len(l) \/ l[i].header = 0 \/ late)
      BY <1>2, <2>2, <2>7
    <3> QED
      BY <2>3, <2>4, <2>7, <3>1 DEF late, start
  <2>8. CASE ~Unread(l, i, head) /\ ~Skipped(l[i]) /\ l[i].type # "mdat"
    <3>1. ~(i > Len(l) \/ l[i].header = 0 \/ late)
      BY <1>2, <2>2, <2>8
    <3> QED
      BY <2>3, <2>4, <2>8, <3>1 DEF late
  <2> QED
    BY <2>5, <2>6, <2>7, <2>8
<1> QED
  BY <1>1, <1>2

LEMMA WalkValues ==
    ASSUME NEW l \in Seq(Box), NEW head
    PROVE  \A f : Walk(f, l, head) <=>
               f = [i \in 1..(Len(l) + 1) |-> WalkAt(l, i, head, f[i + 1])]
<1> TAKE f
<1> DEFINE e(i) == IF i > Len(l) \/ l[i].header = 0 \/ BoxStart(l, i) + l[i].header > head
                   THEN NotFound
                   ELSE CASE Skipped(l[i])       -> f[i + 1]
                          [] l[i].type = "mdat" -> BoxStart(l, i) + l[i].size
                          [] OTHER              -> NotFound
           w(i) == WalkAt(l, i, head, f[i + 1])
<1>1. \A i \in 1..(Len(l) + 1) : e(i) = w(i)
  BY WalkMeans
<1>2. Walk(f, l, head) <=> f = [i \in 1..(Len(l) + 1) |-> e(i)]
  BY DEF Walk
<1> HIDE DEF e, w
<1>3. [i \in 1..(Len(l) + 1) |-> e(i)] = [i \in 1..(Len(l) + 1) |-> w(i)]
  BY <1>1
<1> QED
  BY <1>2, <1>3 DEF w

(* The function there is says of each box where the walk from it ends. *)
LEMMA WalkExists ==
    ASSUME NEW l \in Seq(Box), NEW head
    PROVE  \E f : Walk(f, l, head)
<1> DEFINE n == Len(l)
           S(i) == {j \in i..n : Halts(l, j, head)}
           u(T) == IF T = {} THEN NotFound
                   ELSE Found(l, CHOOSE m \in T : \A j \in T : m <= j, head)
           v(i) == u(S(i))
           f == [i \in 1..(n + 1) |-> v(i)]
<1>1. n \in Nat
  OBVIOUS
<1>2. ASSUME NEW i \in 1..(n + 1) PROVE f[i] = WalkAt(l, i, head, f[i + 1])
  <2>1. f[i] = v(i)
    BY <1>2
  <2>2. CASE i = n + 1
    <3>1. S(i) = {}
      BY <1>1, <2>2
    <3>2. v(i) = NotFound
      BY <3>1
    <3>3. i > Len(l)
      BY <1>1, <2>2
    <3> QED
      BY <2>1, <3>2, <3>3 DEF WalkAt
  <2>3. CASE i # n + 1 /\ Halts(l, i, head)
    <3> DEFINE m == CHOOSE m \in S(i) : \A j \in S(i) : m <= j
    <3>1. i \in S(i) /\ \A j \in S(i) : i <= j
      BY <1>1, <1>2, <2>3
    <3>2. m \in S(i) /\ \A j \in S(i) : m <= j
      BY <3>1
    <3> HIDE DEF m
    <3>3. m = i
      <4>1. m \in Int /\ i \in Int /\ m <= i /\ i <= m
        BY <1>1, <3>1, <3>2
      <4> QED
        BY <4>1
    <3>4. v(i) = Found(l, m, head)
      BY <3>1 DEF m
    <3>5. ~(i > Len(l))
      BY <1>1, <1>2, <2>3
    <3> QED
      BY <2>1, <2>3, <3>3, <3>4, <3>5 DEF WalkAt
  <2>4. CASE i # n + 1 /\ ~Halts(l, i, head)
    <3>1. S(i) = S(i + 1)
      BY <1>1, <1>2, <2>4
    <3>2. v(i) = v(i + 1)
      <4> HIDE DEF S, u
      <4> QED
        BY <3>1
    <3>3. f[i + 1] = v(i + 1)
      <4>1. i + 1 \in 1..(n + 1)
        BY <1>1, <1>2, <2>4
      <4> QED
        BY <4>1
    <3>4. ~(i > Len(l))
      BY <1>1, <1>2, <2>4
    <3> HIDE DEF v, f
    <3> QED
      BY <2>1, <2>4, <3>2, <3>3, <3>4 DEF WalkAt
  <2> QED
    BY <2>2, <2>3, <2>4
<1>3. f = [i \in 1..(Len(l) + 1) |-> WalkAt(l, i, head, f[i + 1])]
  <2> HIDE DEF v
  <2>1. f = [i \in 1..(Len(l) + 1) |-> f[i]]
    OBVIOUS
  <2> HIDE DEF f
  <2> QED
    BY <1>2, <2>1
<1> HIDE DEF f
<1> QED
  BY <1>3, WalkValues

(* The walk ends at the first box it halts at (_locate_moov_after_mdat).   *)
LEMMA MoovFound ==
    ASSUME NEW l \in Seq(Box), NEW head
    PROVE  \/ /\ \A j \in 1..Len(l) : ~Halts(l, j, head)
              /\ MoovStart(l, head) = NotFound
           \/ \E m \in 1..Len(l) :
                 /\ Halts(l, m, head) /\ \A j \in 1..(m - 1) : ~Halts(l, j, head)
                 /\ MoovStart(l, head) = Found(l, m, head)
<1> DEFINE f == CHOOSE f : Walk(f, l, head)
           n == Len(l)
<1>1. Walk(f, l, head)
  BY WalkExists
<1>2. MoovStart(l, head) = f[1]
  BY DEF MoovStart, Walk
<1> HIDE DEF f
<1>3. n \in Nat
  OBVIOUS
<1>4. ASSUME NEW i \in 1..(n + 1) PROVE f[i] = WalkAt(l, i, head, f[i + 1])
  <2> DEFINE w(k) == WalkAt(l, k, head, f[k + 1])
  <2>1. f = [k \in 1..(n + 1) |-> w(k)]
    BY <1>1, WalkValues
  <2> HIDE DEF w
  <2>2. f[i] = w(i)
    BY <2>1
  <2> QED
    BY <2>2 DEF w
<1>5. ASSUME NEW m \in 1..(n + 1), \A j \in 1..(m - 1) : ~Halts(l, j, head)
      PROVE  f[1] = f[m]
  <2> DEFINE X == {k \in 1..m : f[k] # f[1]}
  <2> SUFFICES ASSUME X # {} PROVE FALSE
    BY <1>3
  <2>1. PICK k \in X : \A j \in X : k <= j
    <3>1. X \subseteq Nat
      BY <1>3
    <3> HIDE DEF X
    <3> QED
      BY <3>1, Least
  <2>2. k # 1
    OBVIOUS
  <2>3. k - 1 \in 1..(m - 1) /\ k - 1 \notin X /\ k - 1 + 1 = k /\ k - 1 \in 1..n
    BY <1>3, <2>1, <2>2
  <2> DEFINE q == k - 1
  <2>4. q \in 1..(n + 1) /\ ~(q > n) /\ ~Halts(l, q, head) /\ f[q] = f[1] /\ q + 1 = k
    BY <1>3, <1>5, <2>1, <2>3
  <2> HIDE DEF q
  <2>5. f[q] = f[q + 1]
    BY <1>4, <2>4 DEF WalkAt
  <2> QED
    BY <2>1, <2>4, <2>5
<1>6. CASE \A j \in 1..n : ~Halts(l, j, head)
  <2>1. n + 1 \in 1..(n + 1) /\ n + 1 > n /\ n + 1 - 1 = n
    BY <1>3
  <2>2. f[1] = f[n + 1]
    BY <1>5, <1>6, <2>1
  <2>3. f[n + 1] = NotFound
    BY <1>4, <2>1 DEF WalkAt
  <2> QED
    BY <1>2, <1>6, <2>2, <2>3
<1>7. CASE ~(\A j \in 1..n : ~Halts(l, j, head))
  <2> DEFINE S == {j \in 1..n : Halts(l, j, head)}
  <2>1. PICK m \in S : \A j \in S : m <= j
    <3>1. S \subseteq Nat /\ S # {}
      BY <1>3, <1>7
    <3> HIDE DEF S
    <3> QED
      BY <3>1, Least
  <2>2. m \in 1..n /\ m \in 1..(n + 1) /\ ~(m > n) /\ Halts(l, m, head)
    BY <1>3, <2>1
  <2>3. \A j \in 1..(m - 1) : ~Halts(l, j, head)
    <3> TAKE j \in 1..(m - 1)
    <3>1. j \in 1..n /\ ~(m <= j)
      BY <1>3, <2>2
    <3> QED
      BY <2>1, <3>1
  <2>4. f[1] = f[m]
    BY <1>5, <2>2, <2>3
  <2>5. f[m] = Found(l, m, head)
    BY <1>4, <2>2 DEF WalkAt
  <2> QED
    BY <1>2, <2>2, <2>3, <2>4, <2>5
<1> QED
  BY <1>6, <1>7

-----------------------------------------------------------------------------
(* What was prefetched last.                                               *)

SpanOf(l, total) ==
    LET start == MoovStart(l, Lesser(HEAD_CELLS, total))
    IN  IF start = NotFound \/ start >= total THEN <<0, 0>> ELSE <<start, total>>

Prefetched ==
    \/ last.layout = <<>> /\ last.span = <<0, 0>>
    \/ /\ last.layout \in Layouts
       /\ step = "open" /\ proxy.range_mode
       /\ last.span = SpanOf(last.layout, proxy.total)

LEMMA PrefetchedStep ==
    ASSUME Prefetched, [OpeningNext]_openingVars
    PROVE  Prefetched'
<1>1. CASE ProbeHead \/ SkipRange \/ ProbeRange \/ ProbeFails \/ Open
  <2>1. step # "open" /\ last' = last
    BY <1>1 DEF ProbeHead, SkipRange, ProbeRange, ProbeFails, Open
  <2> QED
    BY <2>1 DEF Prefetched
<1>2. CASE Answer
  <2>1. \E r, p : Reply(r, p)
    BY <1>2 DEF Answer, ServeUnknown, ServeWhole, RefuseRange, ServePart, AnswerHead
  <2> QED
    BY <2>1 DEF Reply, NotYet, Prefetched
<1>3. CASE PrefetchMoov
  <2>1. PICK l \in Layouts :
            last' = [NotYet EXCEPT !.layout = l, !.span = SpanOf(l, proxy.total)]
    BY <1>3 DEF PrefetchMoov, SpanOf
  <2>2. last'.layout = l /\ last'.span = SpanOf(l, proxy.total)
    BY <2>1 DEF NotYet
  <2>3. step' = "open" /\ proxy' = proxy /\ proxy.range_mode
    BY <1>3 DEF PrefetchMoov
  <2> QED
    BY <2>2, <2>3 DEF Prefetched
<1>4. CASE Failed \/ UNCHANGED openingVars
  <2>1. last' = last /\ proxy' = proxy /\ step' = step
    BY <1>4 DEF Failed, openingVars
  <2> QED
    BY <2>1 DEF Prefetched
<1> QED
  BY <1>1, <1>2, <1>3, <1>4 DEF OpeningNext

(* What is prefetched of a layout, in terms of its boxes. *)
LEMMA SpanRight ==
    ASSUME NEW l \in Seq(Box), last.layout = l, last.span = SpanOf(l, FileSize)
    PROVE  MoovPrefetched
<1> DEFINE head == Lesser(HEAD_CELLS, FileSize)
           start == MoovStart(l, head)
           Span == last.span[1]..(last.span[2] - 1)
           Cells(i) == BoxStart(l, i)..(BoxStart(l, i) + l[i].size - 1)
           Leading == {i \in 1..Len(l) : ~Skipped(l[i]) /\ \A j \in 1..(i - 1) : Skipped(l[j])}
           Readable(i) == \A j \in 1..i : l[j].header > 0 /\ BoxStart(l, j) + l[j].header <= head
<1>1. /\ FileSize \in Nat /\ Len(l) \in Nat /\ head \in Nat
      /\ \A i \in 1..Len(l) : /\ BoxStart(l, i) \in Nat
                              /\ l[i].size \in Nat /\ l[i].header \in Nat
  <2>1. \A i \in 1..Len(l) : l[i] \in Box
    OBVIOUS
  <2>2. head \in Nat
    BY OpeningAssumption DEF Lesser
  <2> QED
    BY <2>1, <2>2, StartsOrdered, OpeningAssumption DEF Box
<1>2. start = NotFound => Span = {}
  <2> SUFFICES ASSUME start = NotFound PROVE Span = {}
    OBVIOUS
  <2>1. last.span = <<0, 0>>
    BY DEF SpanOf
  <2> QED
    BY <2>1
<1>3. ASSUME NEW i \in Leading
      PROVE  /\ start \in {NotFound, BoxStart(l, i) + l[i].size}
             /\ l[i].type # "mdat" => start = NotFound
             /\ l[i].type = "mdat" /\ Readable(i) => start = BoxStart(l, i) + l[i].size
  <2>1. PICK m \in 1..Len(l) :
            /\ Halts(l, m, head) /\ \A j \in 1..(m - 1) : ~Halts(l, j, head)
            /\ start = Found(l, m, head)
    <3>1. Halts(l, i, head) /\ i \in 1..Len(l)
      BY DEF Halts
    <3> QED
      BY <3>1, MoovFound
  <2>2. m <= i
    <3>1. CASE i < m
      <4>1. i \in 1..(m - 1)
        BY <1>1, <3>1
      <4> QED
        BY <2>1, <4>1 DEF Halts
    <3> QED
      BY <1>1, <3>1
  <2>3. CASE m = i
    <3>1. Readable(i) => ~Unread(l, i, head)
      <4> SUFFICES ASSUME Readable(i) PROVE ~Unread(l, i, head)
        OBVIOUS
      <4>1. /\ i \in 1..i /\ i \in 1..Len(l)
            /\ head \in Nat /\ BoxStart(l, i) \in Nat /\ l[i].header \in Nat
        BY <1>1
      <4>2. l[i].header > 0 /\ BoxStart(l, i) + l[i].header <= head
        BY <4>1
      <4> HIDE DEF head
      <4> QED
        BY <4>1, <4>2 DEF Unread
    <3> HIDE DEF start, head, Readable
    <3> QED
      BY <2>1, <2>3, <3>1 DEF Found
  <2>4. CASE m < i
    <3>1. m \in 1..(i - 1)
      BY <1>1, <2>4
    <3>2. Skipped(l[m])
      BY <3>1
    <3>3. Unread(l, m, head)
      BY <2>1, <3>2 DEF Halts
    <3>4. start = NotFound
      BY <2>1, <3>3 DEF Found
    <3>5. ~Readable(i)
      <4>1. /\ m \in 1..i /\ m \in 1..Len(l)
            /\ head \in Nat /\ BoxStart(l, m) \in Nat /\ l[m].header \in Nat
        BY <1>1, <3>1
      <4>2. ~(l[m].header > 0 /\ BoxStart(l, m) + l[m].header <= head)
        <5> HIDE DEF head
        <5> QED
          BY <3>3, <4>1 DEF Unread
      <4> QED
        BY <4>1, <4>2
    <3> HIDE DEF start, Readable
    <3> QED
      BY <3>4, <3>5
  <2> QED
    BY <1>1, <2>2, <2>3, <2>4
<1>4. Leading = {} => start = NotFound
  <2> SUFFICES ASSUME Leading = {} PROVE start = NotFound
    OBVIOUS
  <2>1. \A i \in 1..Len(l) : Skipped(l[i])
    <3> DEFINE X == {i \in 1..Len(l) : ~Skipped(l[i])}
    <3> SUFFICES ASSUME X # {} PROVE FALSE
      OBVIOUS
    <3>1. PICK i \in X : \A j \in X : i <= j
      <4>1. X \subseteq Nat
        BY <1>1
      <4> HIDE DEF X
      <4> QED
        BY <4>1, Least
    <3>2. i \in Leading
      <4>1. ASSUME NEW j \in 1..(i - 1) PROVE Skipped(l[j])
        <5>1. j \in 1..Len(l) /\ ~(i <= j)
          BY <1>1, <3>1
        <5> QED
          BY <3>1, <5>1
      <4> QED
        BY <3>1, <4>1
    <3> QED
      BY <3>2
  <2>2. CASE \A j \in 1..Len(l) : ~Halts(l, j, head)
    <3>1. ~\E m \in 1..Len(l) : Halts(l, m, head)
      BY <2>2
    <3> HIDE DEF head
    <3> QED
      BY <3>1, MoovFound
  <2>3. ASSUME NEW m \in 1..Len(l), Halts(l, m, head), start = Found(l, m, head)
        PROVE  start = NotFound
    <3>1. Unread(l, m, head)
      BY <2>1, <2>3 DEF Halts
    <3> QED
      BY <2>3, <3>1 DEF Found
  <2> HIDE DEF head
  <2> QED
    BY <2>2, <2>3, MoovFound
<1>5. ASSUME NEW i \in Leading, start = BoxStart(l, i) + l[i].size
      PROVE  /\ Span \cap Cells(i) = {}
             /\ \A k \in (i + 1)..Len(l) : Cells(k) \cap 0..(FileSize - 1) \subseteq Span
  <2> DEFINE a == BoxStart(l, i)
             b == l[i].size
  <2>1. /\ a \in Nat /\ b \in Nat /\ start = a + b /\ start # NotFound
        /\ i \in 1..Len(l)
    BY <1>1, <1>5 DEF NotFound
  <2>2. Span = IF start >= FileSize THEN 0..(0 - 1) ELSE start..(FileSize - 1)
    <3>1. last.span = IF start >= FileSize THEN <<0, 0>> ELSE <<start, FileSize>>
      BY <2>1 DEF SpanOf
    <3> HIDE DEF start
    <3> QED
      BY <3>1
  <2>3. Cells(i) = a..(a + b - 1)
    OBVIOUS
  <2>4. ASSUME NEW k \in (i + 1)..Len(l)
        PROVE  Cells(k) \cap 0..(FileSize - 1) \subseteq Span
    <3> DEFINE c == BoxStart(l, k)
               d == l[k].size
    <3>1. c \in Nat /\ d \in Nat /\ a + b <= c
      <4>1. k \in 1..Len(l) /\ i < k
        BY <1>1, <2>1
      <4> QED
        BY <1>1, <2>1, <4>1, StartsOrdered
    <3>2. Cells(k) = c..(c + d - 1)
      OBVIOUS
    <3> HIDE DEF a, b, c, d, Span, start, Cells
    <3> SUFFICES ASSUME NEW x \in Cells(k) \cap 0..(FileSize - 1)
                 PROVE  x \in Span
      OBVIOUS
    <3>3. x \in Nat /\ x <= FileSize - 1 /\ start <= x
      BY <2>1, <3>1, <3>2
    <3>4. FileSize \in Nat
      BY <1>1
    <3> QED
      BY <2>1, <2>2, <3>3, <3>4
  <2>5. Span \cap Cells(i) = {}
    <3> HIDE DEF a, b, Span, start, Cells
    <3> QED
      BY <1>1, <2>1, <2>2, <2>3
  <2> QED
    BY <2>4, <2>5
<1>6. ASSUME NEW i \in Leading
      PROVE  /\ l[i].type # "mdat" => Span = {}
             /\ Span \cap Cells(i) = {}
             /\ l[i].type = "mdat" /\ Readable(i) =>
                    \A k \in (i + 1)..Len(l) : l[k].type = "moov" =>
                        Cells(k) \cap 0..(FileSize - 1) \subseteq Span
  <2> HIDE DEF Span, Cells, Leading, start
  <2>1. start = NotFound => Span \cap Cells(i) = {}
    BY <1>2
  <2>2. start \in {NotFound, BoxStart(l, i) + l[i].size}
    BY <1>3
  <2>3. l[i].type # "mdat" => Span = {}
    BY <1>2, <1>3
  <2>4. Span \cap Cells(i) = {}
    BY <1>5, <2>1, <2>2
  <2>5. l[i].type = "mdat" /\ Readable(i) => start = BoxStart(l, i) + l[i].size
    BY <1>3
  <2> QED
    BY <1>5, <2>3, <2>4, <2>5
<1>7. Leading = {} => Span = {}
  BY <1>2, <1>4
<1> QED
  BY <1>6, <1>7 DEF MoovPrefetched

(* The prefetch of the moov box (prefetch_mp4_moov): no cell of the first  *)
(* mdat, every moov behind it, nothing when the moov comes first, for      *)
(* every layout of boxes of any length and truthful servers that name the  *)
(* total, as in ProbeExact.                                                *)
THEOREM MoovExact ==
  ASSUME \A s \in Servers : Truthful(s) /\ NamesTotal(s)
  PROVE  OpeningSpec => []MoovPrefetched
<1>1. OpeningInit => Prefetched
  BY DEF OpeningInit, NotYet, Prefetched
<1>2. Prefetched /\ [OpeningNext]_openingVars => Prefetched'
  BY PrefetchedStep
<1>3. Prefetched /\ RangeModeExact => MoovPrefetched
  <2> SUFFICES ASSUME Prefetched, RangeModeExact PROVE MoovPrefetched
    OBVIOUS
  <2>1. CASE last.layout = <<>> /\ last.span = <<0, 0>>
    <3>1. /\ last.span[1]..(last.span[2] - 1) = {}
          /\ 1..Len(last.layout) = {}
      BY <2>1
    <3> QED
      BY <3>1 DEF MoovPrefetched
  <2>2. CASE /\ last.layout \in Layouts
             /\ step = "open" /\ proxy.range_mode
             /\ last.span = SpanOf(last.layout, proxy.total)
    <3>1. proxy.total = FileSize
      BY <2>2 DEF RangeModeExact
    <3>2. last.layout \in Seq(Box)
      BY <2>2, OpeningAssumption DEF Box
    <3> QED
      BY <2>2, <3>1, <3>2, SpanRight
  <2> QED
    BY <2>1, <2>2 DEF Prefetched
<1>4. OpeningSpec => []RangeModeExact
  BY ProbeExact
<1> QED
  BY <1>1, <1>2, <1>3, <1>4, PTL DEF OpeningSpec
=============================================================================
