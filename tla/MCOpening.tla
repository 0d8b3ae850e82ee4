-------------------------------- MODULE MCOpening --------------------------------
(***************************************************************************)
(* Instances of Opening for TLC.                                           *)
(***************************************************************************)
EXTENDS Opening

NamingTotal == {s \in ServerKind : Truthful(s) /\ NamesTotal(s)}

(* Servers that send the media as it is, but may leave the total open. *)
Identity == {s \in ServerKind : Truthful(s) /\ ~s.encoded}

AnyRange ==
    [form : {"absent", "malformed", "empty"}, a : {0}, b : {0}]
    \cup [form : {"last", "from"}, a : 0..(FileSize + 1), b : {0}]
    \cup [form : {"between"}, a : 0..(FileSize + 1), b : 0..(FileSize + 1)]

NoRanges == [form : {"absent"}, a : {0}, b : {0}]

(* Box layouts that fill the file; the last box may claim to go beyond it. *)
Boxes == [type : {"ftyp", "moov", "moof"}, size : 1..2, header : {1}]
         \cup [type : {"mdat"}, size : 1..2, header : 0..2]

BoxLayouts ==
    {l \in UNION {[1..n -> Boxes] : n \in 1..3} :
        /\ \A i \in 1..(Len(l) - 1) : l[i].header > 0
        /\ \A i \in 1..Len(l) : l[i].header <= l[i].size
        /\ BoxStart(l, Len(l)) \in (FileSize - l[Len(l)].size)..(FileSize - 1)}

NoLayouts == {}
=============================================================================
