------------------------- MODULE MCChunkScheduling -------------------------
(***************************************************************************)
(* Two neighbouring positions and one full ticket: a ticket gives its own  *)
(* position level 0 and the other one level 1, so that both positions can  *)
(* hold, share and lose a level, and a commit changes one or both.         *)
(***************************************************************************)
EXTENDS ChunkScheduling

CONSTANTS a, b, full

MCPropagate(held) ==
  LET sources == {p \in Positions : held[p][full] > 0}
  IN  [p \in Positions |-> CASE p \in sources  -> 0
                             [] sources = {}   -> NoLevel
                             [] OTHER          -> 1]
============================================================================
