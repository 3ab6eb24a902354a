--------------------------- MODULE MCTicketLevels ---------------------------
EXTENDS TicketLevels, TLC

CONSTANTS h1, h2

MCHandles == {h1, h2}

MCPositions == {<<0, 0>>, <<4, 2>>, <<5, 0>>}

MCRequestPositions == {P \in SUBSET MCPositions : Cardinality(P) = 2}

Symmetry == Permutations(MCHandles)
=============================================================================
