-------------------------- MODULE MCPlayerSessions --------------------------
(* Two connections of one player and two domains.                          *)
EXTENDS PlayerSessions, TLC

CONSTANTS s1, s2, a, b

MCSessions == {s1, s2}
MCDomains == {a, b}
=============================================================================
