--------------------------- MODULE MCChunkSending ---------------------------
(* Two players, two worlds, two positions. *)
EXTENDS ChunkSending
CONSTANTS p1, p2, u, v
MCUnsettled == {<<u, 1>>}
MCViews == {{1}, {2}}
MCWiderViews == {{1}, {1, 2}}
=============================================================================
