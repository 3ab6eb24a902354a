--------------------------- MODULE DurableChunks ---------------------------
(***************************************************************************)
(* What the chunk map promises its users about content: every position     *)
(* has one content, a version number counted from 0 (never generated).     *)
(* Content is written only while the position is resident, and loading,    *)
(* saving, unloading and reviving a chunk never change it.  The one loss   *)
(* is that of a position which is not resident, and whose stored payload   *)
(* cannot be decoded.                                                      *)
(***************************************************************************)
EXTENDS Naturals

CONSTANT Positions

VARIABLES
  content,  \* version of the content of each position
  resident  \* positions whose content some holder has in memory

Init ==
  /\ content = [p \in Positions |-> 0]
  /\ resident = {}

Load(p) ==
  /\ p \notin resident
  /\ resident' = resident \cup {p}
  /\ UNCHANGED content

\* The first persistent generation step brings a position into memory with its first content.
Generate(p) ==
  /\ p \notin resident
  /\ content[p] = 0
  /\ resident' = resident \cup {p}
  /\ content' = [content EXCEPT ![p] = 1]

Write(p) ==
  /\ p \in resident
  /\ content' = [content EXCEPT ![p] = @ + 1]
  /\ UNCHANGED resident

Evict(p) ==
  /\ p \in resident
  /\ resident' = resident \ {p}
  /\ UNCHANGED content

\* What is stored is corrupt, and discarded.
Discard(p) ==
  /\ p \notin resident
  /\ content' = [content EXCEPT ![p] = 0]
  /\ UNCHANGED resident

Next == \E p \in Positions : Load(p) \/ Generate(p) \/ Write(p) \/ Evict(p) \/ Discard(p)

Spec == Init /\ [][Next]_<<content, resident>>
=============================================================================
