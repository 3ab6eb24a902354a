-------------------------- MODULE MCFullReadiness --------------------------
EXTENDS FullReadiness, TLC

CONSTANTS p1, p2

MCChunks == {p1, p2}

\* Two neighbouring chunks: the inner square holds the chunk alone, the outer
\* one both.
MCNear(r, p) == IF r = 1 THEN {p} ELSE MCChunks

Symmetry == Permutations(MCChunks)
=============================================================================
