------------------------ MODULE MCPacketProcessor ------------------------
(***************************************************************************)
(* Two sessions, two packet workers and one world.                         *)
(***************************************************************************)
EXTENDS PacketProcessor, TLC

CONSTANTS k1, k2, w1, w2, d1

MCLanes == {k1, k2}
MCWorkers == {w1, w2}
MCWorlds == {d1}
=============================================================================
