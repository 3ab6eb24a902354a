-------------------------- MODULE MCRegionStorage --------------------------
(***************************************************************************)
(* Model values for RegionStorage: two chunks of one or two sectors, and   *)
(* room for a chunk to move, for the hole it leaves to be reused and for   *)
(* the file to grow.                                                       *)
(***************************************************************************)
EXTENDS RegionStorage, TLC

CONSTANTS c1, c2

MCChunks == {c1, c2}

Symmetry == Permutations(MCChunks)
=============================================================================
