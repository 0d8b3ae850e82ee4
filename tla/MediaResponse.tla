----------------------------- MODULE MediaResponse -----------------------------
(***************************************************************************)
(* What a connection of the player is promised, whichever way the bytes    *)
(* come: it asks for a range of the media and receives a prefix of that    *)
(* range, piece after piece; the proxy may end it early (a download failed *)
(* or the session was stopped) and the player may leave at any time.       *)
(***************************************************************************)
EXTENDS Naturals, Sequences

CONSTANTS
    Connections,    \* connections of the player
    Ranges          \* the ranges <<start, end>> it may ask for, half open

VARIABLES
    asked,      \* the range of each connection, or NoRange
    sent,       \* the cells sent on each connection
    open        \* whether the answer may still grow

responseVars == <<asked, sent, open>>

NoRange == <<0, 0>>

MediaFrom(a, n) == [k \in 1..n |-> a + k - 1]

ResponseInit ==
    /\ asked = [c \in Connections |-> NoRange]
    /\ sent = [c \in Connections |-> <<>>]
    /\ open = [c \in Connections |-> FALSE]

Accept(c) ==
    /\ asked[c] = NoRange
    /\ \E r \in Ranges : asked' = [asked EXCEPT ![c] = r]
    /\ open' = [open EXCEPT ![c] = TRUE]
    /\ UNCHANGED sent

Send(c) ==
    /\ open[c]
    /\ \E n \in 1..(asked[c][2] - asked[c][1] - Len(sent[c])) :
           sent' = [sent EXCEPT ![c] = @ \o MediaFrom(asked[c][1] + Len(@), n)]
    /\ UNCHANGED <<asked, open>>

Finish(c) ==
    /\ open[c]
    /\ open' = [open EXCEPT ![c] = FALSE]
    /\ UNCHANGED <<asked, sent>>

Leave(c) ==
    /\ asked[c] # NoRange
    /\ asked' = [asked EXCEPT ![c] = NoRange]
    /\ sent' = [sent EXCEPT ![c] = <<>>]
    /\ open' = [open EXCEPT ![c] = FALSE]

ResponseNext ==
    \E c \in Connections : Accept(c) \/ Send(c) \/ Finish(c) \/ Leave(c)

ResponseSpec == ResponseInit /\ [][ResponseNext]_responseVars
=============================================================================
