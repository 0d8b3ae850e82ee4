---------------------------- MODULE MCRangeFetcher ----------------------------
(***************************************************************************)
(* Instances of RangeFetcher for TLC.  A media of three blocks, the last   *)
(* one short; read-ahead asks for all of it, the player for parts that     *)
(* overlap each other and cut blocks in the middle.                        *)
(***************************************************************************)
EXTENDS RangeFetcher

ReadAheadSpans == {<<0, 5>>}
PlayerSpans    == {<<1, 4>>, <<3, 5>>}
HeadSpan       == {<<0, 2>>}
OddSpans       == {<<1, 5>>, <<2, 4>>}
=============================================================================
