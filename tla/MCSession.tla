------------------------------- MODULE MCSession -------------------------------
(***************************************************************************)
(* Instances of Session for TLC.                                           *)
(***************************************************************************)
EXTENDS Session

(* The steps that wait for the network or for libvlc. *)
MCSlowSteps == {"probe", "player", "play", "close", "release"}
=============================================================================
