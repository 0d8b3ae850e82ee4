------------------------------- MODULE MCPlayback -------------------------------
(***************************************************************************)
(* Instances of Playback for TLC.                                          *)
(***************************************************************************)
EXTENDS Playback

AnySpan  == {<<a, b>> \in (0..FileSize) \X (0..FileSize) : a < b}
WholeAndTail == {<<0, FileSize>>, <<FileSize - 1, FileSize>>}
HeadSpans == {<<0, 1>>}
WorkerSymmetry == Permutations(Workers)
=============================================================================
