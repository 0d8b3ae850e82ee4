-------------------------------- MODULE MCWindow --------------------------------
(***************************************************************************)
(* An instance of Window for TLC: a monitor of 6 by 5 with a taskbar of 1. *)
(***************************************************************************)
EXTENDS Window, TLC

Monitor  == [left |-> 0, top |-> 0, width |-> 6, height |-> 5]
WorkArea == [left |-> 0, top |-> 0, width |-> 6, height |-> 4]
Places   == {WorkArea, [left |-> -1, top |-> -1, width |-> 5, height |-> 5]}
MousePoints == {<<1, 0>>, <<2, 1>>}
CallerSymmetry == Permutations(Callers)
=============================================================================
