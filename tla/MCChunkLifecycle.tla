-------------------------- MODULE MCChunkLifecycle --------------------------
(***************************************************************************)
(* Model values for ChunkLifecycle.  A second holder identity is enough to *)
(* follow a position whose old holder is not gone yet.                     *)
(***************************************************************************)
EXTENDS ChunkLifecycle, TLC

CONSTANTS p1, h1, h2

MCPositions == {p1}
MCHolders == {h1, h2}

Symmetry == Permutations(MCHolders)
=============================================================================
