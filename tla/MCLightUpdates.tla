--------------------------- MODULE MCLightUpdates ---------------------------
(***************************************************************************)
(* Two chunks of one light window.                                         *)
(***************************************************************************)
EXTENDS LightUpdates, TLC

CONSTANTS p1, p2

MCPositions == {p1, p2}

Symmetry == Permutations(MCPositions)
=============================================================================
