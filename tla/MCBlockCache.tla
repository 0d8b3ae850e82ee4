---------------------------- MODULE MCBlockCache ----------------------------
(* BlockCache alone: four blocks, the last one short, room for two.         *)
EXTENDS BlockCache
=============================================================================
