-------------------------- MODULE MCSequentialFeeder --------------------------
(***************************************************************************)
(* Instances of SequentialFeeder for TLC.                                  *)
(***************************************************************************)
EXTENDS SequentialFeeder

HandlerSymmetry == Permutations(Handlers)
=============================================================================
