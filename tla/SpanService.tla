------------------------------ MODULE SpanService ------------------------------
(***************************************************************************)
(* What RangeFetcher.get_span promises its callers, whatever it does       *)
(* inside: a caller asks for a span of the media and is answered once,     *)
(* with exactly those cells or with None.                                  *)
(***************************************************************************)
EXTENDS Naturals, Sequences

CONSTANTS
    Threads,    \* the callers
    SpansOf(_), \* the spans <<start, end>> a caller asks for
    None        \* "could not be fetched"

VARIABLES
    status,     \* "idle", "asking" or "answered", for each caller
    request,    \* the span asked for
    answer      \* what the caller got

serviceVars == <<status, request, answer>>

NoRequest == <<0, 0>>

Media(span) == [k \in 1..(span[2] - span[1]) |-> span[1] + k - 1]

ServiceInit ==
    /\ status = [t \in Threads |-> "idle"]
    /\ request = [t \in Threads |-> NoRequest]
    /\ answer = [t \in Threads |-> None]

Ask(t) ==
    /\ status[t] = "idle"
    /\ status' = [status EXCEPT ![t] = "asking"]
    /\ \E span \in SpansOf(t) : request' = [request EXCEPT ![t] = span]
    /\ UNCHANGED answer

Answer(t) ==
    /\ status[t] = "asking"
    /\ status' = [status EXCEPT ![t] = "answered"]
    /\ \E a \in {Media(request[t]), None} : answer' = [answer EXCEPT ![t] = a]
    /\ UNCHANGED request

Leave(t) ==
    /\ status[t] = "answered"
    /\ status' = [status EXCEPT ![t] = "idle"]
    /\ request' = [request EXCEPT ![t] = NoRequest]
    /\ answer' = [answer EXCEPT ![t] = None]

ServiceNext == \E t \in Threads : Ask(t) \/ Answer(t) \/ Leave(t)

ServiceSpec == ServiceInit /\ [][ServiceNext]_serviceVars
=============================================================================
