------------------------- MODULE ChunkSendingProofs -------------------------
(***************************************************************************)
(* Proofs about chunk sending, for all players, worlds, positions, views   *)
(* and bounds: the acknowledgement window of a sender never shuts for      *)
(* good, the client's copies are the chunks its sender counts as sent, and *)
(* every change a holder records is in those copies or on its way.         *)
(***************************************************************************)
EXTENDS ChunkSending, TLAPS

-----------------------------------------------------------------------------
(* The acknowledgement window.                                             *)

\* Counters and the loop's place, as far as the window depends on them.
WindowTypes ==
  /\ unack \in [Players -> Nat]
  /\ window \in [Players -> 1..MaxUnacknowledged]
  /\ inflight \in [Players -> Nat]
  /\ epoch \in [Players -> Nat]
  /\ stamp \in Nat
  /\ playersLeft \subseteq Players
  /\ player \in Players \union {NoPlayer}

\* A batch that may still be committed was prepared by the present sender, whose
\* window was open then; only the loop counts a batch, so it is open still.
BatchFits ==
  batch # Empty =>
    /\ player \in Players
    /\ stamp <= epoch[player]
    /\ epoch[player] = stamp => unack[player] < window[player]

WindowInv == WindowTypes /\ WindowReopens /\ BatchFits

\* A session starts with an open window.
LEMMA WindowInit == Init => WindowInv
BY SendingAssumption DEF Init, WindowInv, WindowTypes, WindowReopens, BatchFits

\* A sender is replaced: another epoch, nothing unacknowledged, the smallest window.
LEMMA WindowFresh ==
  ASSUME WindowInv, NEW p \in Players,
         epoch' = [epoch EXCEPT ![p] = @ + 1],
         unack' = [unack EXCEPT ![p] = 0],
         window' = [window EXCEPT ![p] = 1],
         UNCHANGED <<inflight, loop>>
  PROVE  WindowInv'
BY SendingAssumption DEF WindowInv, WindowTypes, WindowReopens, BatchFits, loop

\* The window and the loop are left alone.
LEMMA WindowKept ==
  ASSUME WindowInv, UNCHANGED <<unack, window, inflight, epoch, stamp, playersLeft, player, batch>>
  PROVE  WindowInv'
BY Zenon DEF WindowInv, WindowTypes, WindowReopens, BatchFits

\* An acknowledgement takes exactly one batch off the count.
LEMMA WindowAcknowledge ==
  ASSUME WindowInv, NEW p \in Players, Acknowledge(p)
  PROVE  WindowInv'
BY SendingAssumption
DEF Acknowledge, gameOnly, loop, WindowInv, WindowTypes, WindowReopens, BatchFits

\* A batch that is sent is counted, and the window was open for it.
LEMMA WindowCommit ==
  ASSUME WindowInv, Commit
  PROVE  WindowInv'
<1>1. player \in Players /\ batch' = Empty /\ player' = NoPlayer /\ stamp' = 0
  BY Zenon DEF Commit, WindowInv, BatchFits
<1>2. UNCHANGED <<window, epoch, playersLeft>>
  BY Zenon DEF Commit
<1> DEFINE valid == IF MayCommit(player) THEN Valid(player) ELSE {}
<1>3. /\ unack' = [unack EXCEPT ![player] = IF valid = {} THEN @ ELSE @ + 1]
      /\ inflight' = [inflight EXCEPT ![player] = IF valid = {} THEN @ ELSE @ + 1]
  BY Zenon DEF Commit
<1>4. valid # {} => unack[player] < window[player]
  BY Zenon DEF MayCommit, WindowInv, BatchFits, Commit
<1> HIDE DEF valid
<1>5. QED
  BY <1>1, <1>2, <1>3, <1>4, SendingAssumption
  DEF WindowInv, WindowTypes, WindowReopens, BatchFits

\* Preparing a batch leaves the window alone.
LEMMA WindowPrepare ==
  ASSUME WindowInv, Prepare
  PROVE  WindowInv'
BY SendingAssumption
DEF Prepare, MayPrepare, players, clients, WindowInv, WindowTypes, WindowReopens, BatchFits

\* Every step keeps the invariant of the window.
LEMMA WindowStep == WindowInv /\ [Next]_vars => WindowInv'
<1> SUFFICES ASSUME WindowInv, [Next]_vars PROVE WindowInv'
  BY Zenon
<1> USE DEF players, clients, loop, gameOnly, chunkOnly, loopOnly
<1>1. CASE NextWorld
  BY Zenon, <1>1 DEF NextWorld, PlayersOf, WindowInv, WindowTypes, WindowReopens, BatchFits
<1>2. CASE NextPlayer
  <2>1. batch = Empty
    BY Zenon, <1>2, SendingAssumption DEF NextPlayer, WindowInv, BatchFits
  <2>2. QED
    BY Zenon, <1>2, <2>1 DEF NextPlayer, PlayersOf, WindowInv, WindowTypes, WindowReopens, BatchFits
<1>3. CASE Prepare
  BY Zenon, <1>3, WindowPrepare
<1>4. ASSUME NEW c \in Pos, StartEncoding(c) \/ FinishEncoding(c) PROVE WindowInv'
  BY Zenon, <1>4, WindowKept DEF StartEncoding, FinishEncoding
<1>5. CASE Commit
  BY <1>5, WindowCommit
<1>6. ASSUME NEW p \in Players, NEW w \in Worlds, NEW V \in Views, Enter(p, w, V)
      PROVE  WindowInv'
  <2>1. CASE w = at[p]
    BY Zenon, <1>6, <2>1, WindowFresh DEF Enter, StartAfresh
  <2>2. CASE w # at[p]
    BY Zenon, <1>6, <2>2, WindowKept DEF Enter, UpdateStatus
  <2>3. QED
    BY Zenon, <2>1, <2>2
<1>7. ASSUME NEW p \in Players, NEW V \in Views, Look(p, V) PROVE WindowInv'
  BY Zenon, <1>7, WindowKept DEF Look, UpdateStatus
<1>8. ASSUME NEW p \in Players, NEW V \in Views, Respawn(p, V) PROVE WindowInv'
  BY Zenon, <1>8, WindowFresh DEF Respawn, StartAfresh
<1>9. ASSUME NEW p \in Players, Die(p) \/ Leave(p) PROVE WindowInv'
  BY Zenon, <1>9, WindowFresh DEF Die, Leave, RemovePlayer
<1>10. ASSUME NEW p \in Players, Acknowledge(p) PROVE WindowInv'
  BY Zenon, <1>10, WindowAcknowledge
<1>11. ASSUME NEW w \in Worlds, NEW c \in Pos,
              WriteBlock(w, c) \/ BlockChanged(w, c) \/ FlipReadiness(w, c) \/ TakeChanges(w, c)
       PROVE  WindowInv'
  BY Zenon, <1>11, WindowKept DEF WriteBlock, BlockChanged, FlipReadiness, TakeChanges
<1>12. CASE SendChanges
  BY Zenon, <1>12, WindowKept DEF SendChanges
<1>13. CASE UNCHANGED vars
  BY Zenon, <1>13, WindowKept DEF vars
<1>14. QED
  BY Zenon, <1>1, <1>2, <1>3, <1>4, <1>5, <1>6, <1>7, <1>8, <1>9, <1>10, <1>11, <1>12, <1>13
  DEF Next, Loop

\* For any number of players and any limit on unacknowledged batches: a sender never counts a
\* batch its client will not answer, and never more than its window, so sending resumes once all
\* are answered (prepare_batch, commit_batch, on_chunk_batch_received_by_client).
THEOREM SendingResumes == Spec => []WindowReopens
<1>1. WindowInv => WindowReopens
  BY Zenon DEF WindowInv
<1>2. QED
  BY WindowInit, WindowStep, <1>1, PTL DEF Spec

-----------------------------------------------------------------------------
(* The client's copies.                                                    *)

Copies == Worlds \X Nat \X Nat

\* Players, their views and the versions copies are made of.
CopyTypes ==
  /\ phase \in [Players -> {"in", "dead", "out"}]
  /\ at \in [Players -> Worlds]
  /\ member \in [Players -> Worlds \union {NoWorld}]
  /\ view \in [Players -> SUBSET Pos]
  /\ pending \in [Players -> SUBSET Pos]
  /\ sent \in [Players -> SUBSET Pos]
  /\ client \in [Players -> [Pos -> Copies \union {Nothing}]]
  /\ content \in [Worlds -> [Pos -> Nat]]
  /\ life \in [Worlds -> [Pos -> Nat]]
  /\ broadcast # NoBroadcast => broadcast.on \in Worlds

\* A packet the loop holds was made from the world the loop is in.
OfWorld(e) == e = NoPacket \/ (e.world = world /\ e.version \in Nat)

\* The loop serves players of a world only, and packets do not outlive their batch.
LoopInv ==
  /\ world \in Worlds \union {NoWorld}
  /\ playersLeft \subseteq Players
  /\ player \in Players \union {NoPlayer}
  /\ playersLeft # {} \/ player # NoPlayer => world \in Worlds
  /\ batch # Empty => player # NoPlayer
  /\ DOMAIN encoding \subseteq DOMAIN batch
  /\ DOMAIN encoded \subseteq DOMAIN batch
  /\ DOMAIN encoding \intersect DOMAIN encoded = {}
  /\ \A c \in DOMAIN encoding : OfWorld(encoding[c])
  /\ \A c \in DOMAIN encoded : OfWorld(encoded[c])
  /\ \A c \in DOMAIN cache : OfWorld(cache[c])

\* Pending and sent chunks make up the view in every phase, and nothing is sent to a player
\* that is in no world.
ViewInv ==
  \A p \in Players :
    /\ pending[p] \intersect sent[p] = {}
    /\ pending[p] \union sent[p] = view[p]
    /\ phase[p] = "out" => sent[p] = {} /\ member[p] = NoWorld
    /\ phase[p] # "out" => member[p] = at[p]

CopyInv == CopyTypes /\ LoopInv /\ ViewInv /\ ClientHoldsSent

\* No client holds a chunk when the server starts.
LEMMA CopyInit == Init => CopyInv
BY SendingAssumption
DEF Init, CopyInv, CopyTypes, LoopInv, ViewInv, ClientHoldsSent, Copies, Nothing, Empty, OfWorld

\* The loop is left alone.
LEMMA LoopKept ==
  ASSUME LoopInv, UNCHANGED loop
  PROVE  LoopInv'
BY Zenon DEF LoopInv, OfWorld, loop

\* The players and their copies are left alone.
LEMMA CopiesKept ==
  ASSUME ViewInv, ClientHoldsSent, UNCHANGED <<players, client>>
  PROVE  ViewInv' /\ ClientHoldsSent'
BY Zenon DEF ViewInv, ClientHoldsSent, players

\* Every copy is a triple of a world, a version and an incarnation.
LEMMA CopyIsSomething == \A x \in Copies : x # Nothing
<1>1. \A x \in Copies : x = <<x[1], x[2], x[3]>>
  BY DEF Copies
<1>2. ASSUME NEW a, NEW b, NEW c PROVE <<a, b, c>> # <<>>
  BY Zenon
<1>3. QED
  BY Zenon, <1>1, <1>2 DEF Nothing

\* A broadcast block changes the version of a copy and nothing else.
LEMMA CopyUpdated ==
  ASSUME NEW x \in Copies, NEW v \in Nat
  PROVE  [x EXCEPT ![2] = v] \in Copies /\ [x EXCEPT ![2] = v][1] = x[1]
BY DEF Copies

\* A new view, with the client's copies before it in `had`.
LEMMA CopiesUpdateStatus ==
  ASSUME CopyTypes, ViewInv,
         NEW p \in Players, NEW w \in Worlds, NEW V \in Views,
         NEW had \in [Pos -> Copies \union {Nothing}],
         UpdateStatus(p, w, V, had),
         phase' \in [Players -> {"in", "dead", "out"}],
         \A q \in Players \ {p} : phase'[q] = phase[q] /\ member'[q] = member[q]
                                   /\ at'[q] = at[q],
         phase'[p] = "out" => sent[p] = {} /\ member'[p] = NoWorld,
         phase'[p] # "out" => member'[p] = at'[p],
         phase'[p] = "in" => /\ {c \in Pos : had[c] # Nothing} = sent[p]
                             /\ \A c \in sent[p] : had[c][1] = member'[p],
         ClientHoldsSent
  PROVE  /\ view' \in [Players -> SUBSET Pos]
         /\ pending' \in [Players -> SUBSET Pos]
         /\ sent' \in [Players -> SUBSET Pos]
         /\ client' \in [Players -> [Pos -> Copies \union {Nothing}]]
         /\ ViewInv' /\ ClientHoldsSent'
<1> DEFINE added == V \ view[p]
           removed == view[p] \ V
<1>1. V \subseteq Pos
  BY Zenon, SendingAssumption
<1>2. /\ view' = [view EXCEPT ![p] = V]
      /\ pending' = [pending EXCEPT ![p] = (pending[p] \union added) \ removed]
      /\ sent' = [sent EXCEPT ![p] = sent[p] \ (added \union removed)]
      /\ client' = [client EXCEPT ![p] = [c \in Pos |->
           IF c \in removed \intersect sent[p] THEN Nothing ELSE had[c]]]
  BY Zenon DEF UpdateStatus
<1>3. /\ view' \in [Players -> SUBSET Pos]
      /\ pending' \in [Players -> SUBSET Pos]
      /\ sent' \in [Players -> SUBSET Pos]
      /\ client' \in [Players -> [Pos -> Copies \union {Nothing}]]
  BY Zenon, <1>1, <1>2 DEF CopyTypes
<1>4. ASSUME NEW q \in Players, q # p
      PROVE  /\ view'[q] = view[q] /\ pending'[q] = pending[q] /\ sent'[q] = sent[q]
             /\ client'[q] = client[q]
  BY Zenon, <1>2, <1>4 DEF CopyTypes
<1>5. /\ view'[p] = V
      /\ pending'[p] = (pending[p] \union added) \ removed
      /\ sent'[p] = sent[p] \ (added \union removed)
      /\ \A c \in Pos : client'[p][c] = IF c \in removed \intersect sent[p] THEN Nothing
                                       ELSE had[c]
  BY Zenon, <1>2 DEF CopyTypes
<1>6. ViewInv'
  <2> SUFFICES ASSUME NEW q \in Players
               PROVE  /\ pending'[q] \intersect sent'[q] = {}
                      /\ pending'[q] \union sent'[q] = view'[q]
                      /\ phase'[q] = "out" => sent'[q] = {} /\ member'[q] = NoWorld
                      /\ phase'[q] # "out" => member'[q] = at'[q]
    BY Zenon DEF ViewInv
  <2>1. CASE q # p
    BY <1>4, <2>1 DEF ViewInv
  <2>2. CASE q = p
    BY Zenon, <1>5, <2>2 DEF ViewInv
  <2>3. QED
    BY Zenon, <2>1, <2>2
<1>7. ClientHoldsSent'
  <2> SUFFICES ASSUME NEW q \in Players, phase'[q] = "in"
               PROVE  /\ {c \in Pos : client'[q][c] # Nothing} = sent'[q]
                      /\ \A c \in sent'[q] : client'[q][c][1] = member'[q]
                      /\ pending'[q] \intersect sent'[q] = {}
                      /\ pending'[q] \union sent'[q] = view'[q]
    BY Zenon DEF ClientHoldsSent, Nothing
  <2>1. CASE q # p
    BY SMTT(30), <1>4, <2>1 DEF ClientHoldsSent
  <2>2. CASE q = p
    <3>1. sent[p] \subseteq view[p] /\ sent[p] \subseteq Pos
      BY Zenon DEF ViewInv, CopyTypes
    <3>2. sent'[p] = sent[p] \ removed
      BY Zenon, <1>5, <3>1
    <3>3. \A c \in sent'[p] : client'[p][c] = had[c]
      BY Zenon, <1>5, <3>1, <3>2
    <3>4. {c \in Pos : client'[p][c] # Nothing} = sent'[p]
      BY SMTT(30), <1>5, <2>2, <3>1, <3>2
    <3>5. QED
      BY SMTT(30), <1>6, <2>2, <3>2, <3>3, <3>4 DEF ViewInv
  <2>3. QED
    BY Zenon, <2>1, <2>2
<1>8. QED
  BY Zenon, <1>3, <1>6, <1>7

\* A fresh sender with the view V, of which nothing is sent yet.
LEMMA CopiesFresh ==
  ASSUME CopyTypes, ViewInv, ClientHoldsSent,
         NEW p \in Players, NEW V \in SUBSET Pos,
         phase' \in [Players -> {"in", "dead", "out"}],
         \A q \in Players \ {p} : phase'[q] = phase[q] /\ member'[q] = member[q]
                                   /\ at'[q] = at[q],
         phase'[p] = "out" => member'[p] = NoWorld,
         phase'[p] # "out" => member'[p] = at'[p],
         view' = [view EXCEPT ![p] = V],
         pending' = [pending EXCEPT ![p] = V],
         sent' = [sent EXCEPT ![p] = {}],
         \/ phase'[p] # "in" /\ client' = client
         \/ client' = [client EXCEPT ![p] = [c \in Pos |-> Nothing]]
  PROVE  /\ view' \in [Players -> SUBSET Pos]
         /\ pending' \in [Players -> SUBSET Pos]
         /\ sent' \in [Players -> SUBSET Pos]
         /\ client' \in [Players -> [Pos -> Copies \union {Nothing}]]
         /\ ViewInv' /\ ClientHoldsSent'
<1>1. /\ view' \in [Players -> SUBSET Pos]
      /\ pending' \in [Players -> SUBSET Pos]
      /\ sent' \in [Players -> SUBSET Pos]
      /\ client' \in [Players -> [Pos -> Copies \union {Nothing}]]
  <2>1. [c \in Pos |-> Nothing] \in [Pos -> Copies \union {Nothing}]
    BY Zenon
  <2>2. client' \in [Players -> [Pos -> Copies \union {Nothing}]]
    BY Zenon, <2>1 DEF CopyTypes
  <2>3. QED
    BY Zenon, <2>2 DEF CopyTypes
<1>2. ViewInv'
  <2> SUFFICES ASSUME NEW q \in Players
               PROVE  /\ pending'[q] \intersect sent'[q] = {}
                      /\ pending'[q] \union sent'[q] = view'[q]
                      /\ phase'[q] = "out" => sent'[q] = {} /\ member'[q] = NoWorld
                      /\ phase'[q] # "out" => member'[q] = at'[q]
    BY Zenon DEF ViewInv
  <2>1. CASE q # p
    <3>1. pending'[q] = pending[q] /\ sent'[q] = sent[q] /\ view'[q] = view[q]
      BY Zenon, <2>1 DEF CopyTypes
    <3>2. QED
      BY Zenon, <2>1, <3>1 DEF ViewInv
  <2>2. CASE q = p
    BY Zenon, <2>2 DEF CopyTypes
  <2>3. QED
    BY Zenon, <2>1, <2>2
<1>3. ASSUME NEW q \in Players, phase'[q] = "in"
      PROVE  /\ {c \in Pos : client'[q][c] # Nothing} = sent'[q]
             /\ \A c \in sent'[q] : client'[q][c][1] = member'[q]
  <2>1. CASE q # p
    <3>1. /\ client'[q] = client[q] /\ sent'[q] = sent[q] /\ phase[q] = "in"
          /\ member'[q] = member[q]
      BY Zenon, <1>3, <2>1 DEF CopyTypes
    <3>2. QED
      BY SMTT(30), <3>1 DEF ClientHoldsSent
  <2>2. CASE q = p
    <3>1. sent'[p] = {} /\ client'[p] = [c \in Pos |-> Nothing]
      BY Zenon, <1>3, <2>2 DEF CopyTypes
    <3>2. QED
      BY Zenon, <2>2, <3>1
  <2>3. QED
    BY Zenon, <2>1, <2>2
<1>4. ClientHoldsSent'
  BY Zenon, <1>2, <1>3 DEF ClientHoldsSent, ViewInv, Nothing
<1>5. QED
  BY Zenon, <1>1, <1>2, <1>4

\* The batch is sent: what counts as sent is what the client gets, in the player's world.
LEMMA CopyCommit ==
  ASSUME CopyInv, Commit
  PROVE  CopyInv'
<1> DEFINE valid == IF MayCommit(player) THEN Valid(player) ELSE {}
<1>1. player \in Players /\ world \in Worlds
  BY Zenon DEF Commit, CopyInv, LoopInv
<1>2. /\ pending' = [pending EXCEPT ![player] = pending[player] \ valid]
      /\ sent' = [sent EXCEPT ![player] = sent[player] \union valid]
      /\ client' = [client EXCEPT ![player] = [c \in Pos |->
           IF c \in valid THEN <<encoded[c].world, encoded[c].version, life[world][c]>>
           ELSE client[player][c]]]
  BY Zenon DEF Commit
<1>3. UNCHANGED <<phase, at, member, view, content, life, broadcast>>
  BY Zenon DEF Commit, loopOnly, chunks
<1>4. /\ valid \subseteq pending[player]
      /\ \A c \in valid : encoded[c].world = world /\ encoded[c].version \in Nat
      /\ valid # {} => member[player] = world
  BY Zenon DEF MayCommit, Valid, CopyInv, LoopInv, OfWorld
<1>5. valid \subseteq Pos
  BY Zenon, <1>1, <1>4 DEF CopyInv, CopyTypes
<1> HIDE DEF valid
<1>6. /\ pending'[player] = pending[player] \ valid
      /\ sent'[player] = sent[player] \union valid
      /\ \A q \in Players : q # player =>
           pending'[q] = pending[q] /\ sent'[q] = sent[q] /\ client'[q] = client[q]
  BY Zenon, <1>1, <1>2 DEF CopyInv, CopyTypes
<1>7. \A c \in valid : <<encoded[c].world, encoded[c].version, life[world][c]>> \in Copies
  BY Zenon, <1>1, <1>4, <1>5 DEF CopyInv, CopyTypes, Copies
<1>8. client'[player] = [c \in Pos |->
        IF c \in valid THEN <<encoded[c].world, encoded[c].version, life[world][c]>>
        ELSE client[player][c]]
  BY Zenon, <1>1, <1>2 DEF CopyInv, CopyTypes
<1>9. \A c \in Pos : client'[player][c] =
        IF c \in valid THEN <<encoded[c].world, encoded[c].version, life[world][c]>>
        ELSE client[player][c]
  BY Zenon, <1>8
<1>10. client'[player] \in [Pos -> Copies \union {Nothing}]
  BY SMTT(30), <1>1, <1>7, <1>8 DEF CopyInv, CopyTypes
<1>11. CopyTypes'
  <2>1. client' \in [Players -> [Pos -> Copies \union {Nothing}]]
    BY Zenon, <1>1, <1>2, <1>8, <1>10 DEF CopyInv, CopyTypes
  <2>2. pending' \in [Players -> SUBSET Pos] /\ sent' \in [Players -> SUBSET Pos]
    BY Zenon, <1>1, <1>2, <1>5 DEF CopyInv, CopyTypes
  <2>3. QED
    BY Zenon, <1>3, <2>1, <2>2 DEF CopyInv, CopyTypes, NoBroadcast
<1>12. LoopInv'
  <2>1. /\ player' = NoPlayer /\ batch' = Empty /\ encoded' = Empty
        /\ UNCHANGED <<world, playersLeft, encoding>>
    BY Zenon DEF Commit
  <2>2. DOMAIN encoding = {}
    BY Zenon DEF Commit, CopyInv, LoopInv
  <2>3. \A c \in DOMAIN cache' : OfWorld(cache'[c])
    <3> DEFINE made == {c \in DOMAIN encoded : encoded[c] # NoPacket}
    <3>1. cache' = [c \in DOMAIN cache \union made |->
                      IF c \in made THEN encoded[c] ELSE cache[c]]
      BY Zenon DEF Commit
    <3>2. QED
      BY Zenon, <3>1 DEF CopyInv, LoopInv
  <2>4. DOMAIN Empty = {}
    BY Zenon DEF Empty
  <2>5. QED
    BY Zenon, <2>1, <2>2, <2>3, <2>4 DEF CopyInv, LoopInv, OfWorld
<1>13. ViewInv'
  <2> SUFFICES ASSUME NEW q \in Players
               PROVE  /\ pending'[q] \intersect sent'[q] = {}
                      /\ pending'[q] \union sent'[q] = view'[q]
                      /\ phase'[q] = "out" => sent'[q] = {} /\ member'[q] = NoWorld
                      /\ phase'[q] # "out" => member'[q] = at'[q]
    BY Zenon DEF ViewInv
  <2>1. CASE q # player
    BY Zenon, <1>3, <1>6, <2>1 DEF CopyInv, ViewInv
  <2>2. CASE q = player
    BY Zenon, <1>1, <1>3, <1>4, <1>6, <2>2, SendingAssumption DEF CopyInv, ViewInv
  <2>3. QED
    BY Zenon, <2>1, <2>2
<1>14. ASSUME NEW q \in Players, phase'[q] = "in"
       PROVE  /\ {c \in Pos : client'[q][c] # Nothing} = sent'[q]
              /\ \A c \in sent'[q] : client'[q][c][1] = member'[q]
  <2>1. CASE q # player
    BY SMTT(30), <1>3, <1>6, <1>14, <2>1 DEF CopyInv, ClientHoldsSent
  <2>2. CASE q = player
    <3>1. /\ {c \in Pos : client[player][c] # Nothing} = sent[player]
          /\ \A c \in sent[player] : client[player][c][1] = member[player]
      BY Zenon, <1>1, <1>3, <1>14, <2>2 DEF CopyInv, ClientHoldsSent
    <3>2. {c \in Pos : client'[player][c] # Nothing} = sent'[player]
      <4>1. \A c \in valid : client'[player][c] # Nothing
        BY Zenon, <1>5, <1>7, <1>9, CopyIsSomething
      <4>2. \A c \in Pos \ valid : client'[player][c] = client[player][c]
        BY Zenon, <1>9
      <4>3. QED
        BY Zenon, <1>5, <1>6, <3>1, <4>1, <4>2
    <3>3. ASSUME NEW c \in sent'[player] PROVE client'[player][c][1] = member[player]
      <4>1. CASE c \in valid
        <5>1. client'[player][c] = <<encoded[c].world, encoded[c].version, life[world][c]>>
          BY Zenon, <1>5, <1>9, <4>1
        <5>2. client'[player][c][1] = encoded[c].world
          BY <5>1
        <5>3. QED
          BY Zenon, <1>4, <4>1, <5>2
      <4>2. CASE c \notin valid
        BY Zenon, <1>6, <1>9, <3>1, <4>2
      <4>3. QED
        BY Zenon, <4>1, <4>2
    <3>4. QED
      BY Zenon, <1>3, <2>2, <3>2, <3>3
  <2>3. QED
    BY Zenon, <2>1, <2>2
<1>15. ClientHoldsSent'
  BY Zenon, <1>13, <1>14 DEF ClientHoldsSent, ViewInv, Nothing
<1>16. QED
  BY Zenon, <1>11, <1>12, <1>13, <1>15 DEF CopyInv

\* A broadcast changes versions only.
LEMMA CopySendChanges ==
  ASSUME CopyInv, SendChanges
  PROVE  CopyInv'
<1>1. UNCHANGED <<players, loop, content, life>>
  BY Zenon DEF SendChanges, chunkOnly
<1>2. ASSUME NEW p \in Players, NEW c \in Pos
      PROVE  /\ client'[p][c] \in Copies \union {Nothing}
             /\ client'[p][c] = Nothing <=> client[p][c] = Nothing
             /\ client[p][c] # Nothing => client'[p][c][1] = client[p][c][1]
  <2>1. client'[p][c] =
          IF p \in broadcast.to /\ c \in broadcast.pos /\ client[p][c] # Nothing
          THEN [client[p][c] EXCEPT ![2] = content[broadcast.on][c]] ELSE client[p][c]
    BY Zenon DEF SendChanges
  <2>2. content[broadcast.on][c] \in Nat /\ client[p][c] \in Copies \union {Nothing}
    BY Zenon DEF SendChanges, CopyInv, CopyTypes
  <2>3. QED
    BY SMTT(30), <2>1, <2>2, CopyUpdated, CopyIsSomething
<1>3. client' \in [Players -> [Pos -> Copies \union {Nothing}]]
  <2>1. client' = [p \in Players |-> [c \in Pos |-> client'[p][c]]]
    BY Zenon DEF SendChanges
  <2>2. QED
    BY Zenon, <1>2, <2>1
<1>4. CopyTypes'
  BY Zenon, <1>1, <1>3 DEF CopyInv, CopyTypes, SendChanges, players, NoBroadcast
<1>5. LoopInv'
  BY Zenon, <1>1, LoopKept DEF CopyInv
<1>6. ViewInv'
  BY Zenon, <1>1 DEF CopyInv, ViewInv, players
<1>7. ASSUME NEW p \in Players, phase'[p] = "in"
      PROVE  /\ {c \in Pos : client'[p][c] # Nothing} = sent'[p]
             /\ \A c \in sent'[p] : client'[p][c][1] = member'[p]
  <2>1. phase[p] = "in" /\ sent'[p] = sent[p] /\ member'[p] = member[p]
    BY Zenon, <1>1, <1>7 DEF players
  <2>2. {c \in Pos : client[p][c] # Nothing} = sent[p]
        /\ \A c \in sent[p] : client[p][c][1] = member[p]
    BY Zenon, <2>1 DEF CopyInv, ClientHoldsSent
  <2>3. QED
    BY Zenon, <1>2, <2>1, <2>2
<1>8. ClientHoldsSent'
  BY <1>6, <1>7 DEF ClientHoldsSent, ViewInv, Nothing
<1>9. QED
  BY <1>4, <1>5, <1>6, <1>8 DEF CopyInv

\* The loop walks, prepares and encodes.
LEMMA CopyLoop ==
  ASSUME CopyInv,
         \/ NextWorld \/ NextPlayer \/ Prepare
         \/ \E c \in Pos : StartEncoding(c) \/ FinishEncoding(c)
  PROVE  CopyInv'
<1>1. UNCHANGED <<players, client, content, life, broadcast>>
  BY Zenon DEF NextWorld, NextPlayer, Prepare, StartEncoding, FinishEncoding, clients,
     loopOnly, chunks
<1>2. CopyTypes' /\ ViewInv' /\ ClientHoldsSent'
  BY Zenon, <1>1, CopiesKept DEF CopyInv, CopyTypes, players, NoBroadcast
<1>3. DOMAIN Empty = {}
  BY Zenon DEF Empty
<1>4. CASE NextWorld
  <2>1. DOMAIN batch = {}
    BY Zenon, <1>3, <1>4 DEF NextWorld, CopyInv, LoopInv
  <2>2. /\ world' \in Worlds /\ playersLeft' \subseteq Players /\ cache' = Empty
        /\ UNCHANGED <<player, batch, encoding, encoded>>
    BY Zenon, <1>4 DEF NextWorld, PlayersOf
  <2>3. LoopInv'
    BY Zenon, <1>3, <2>1, <2>2 DEF CopyInv, LoopInv, OfWorld
  <2>4. QED
    BY Zenon, <1>2, <2>3 DEF CopyInv
<1>5. CASE NextPlayer
  <2>1. LoopInv'
    BY Zenon, <1>5 DEF NextPlayer, PlayersOf, CopyInv, LoopInv, OfWorld
  <2>2. QED
    BY <1>2, <2>1 DEF CopyInv
<1>6. CASE Prepare
  <2>1. DOMAIN encoding = {} /\ DOMAIN encoded = {} /\ player # NoPlayer /\ batch = Empty
    BY Zenon, <1>3, <1>6 DEF Prepare, CopyInv, LoopInv
  <2>2. /\ UNCHANGED <<world, playersLeft, encoding, encoded, cache>>
        /\ \/ player' = player
           \/ player' = NoPlayer /\ batch' = batch
    BY Zenon, <1>6 DEF Prepare
  <2>3. LoopInv'
    BY Zenon, <2>1, <2>2 DEF CopyInv, LoopInv, OfWorld
  <2>4. QED
    BY <1>2, <2>3 DEF CopyInv
<1>7. ASSUME NEW c \in Pos, StartEncoding(c) PROVE CopyInv'
  <2>1. UNCHANGED <<world, playersLeft, player, batch, cache>>
    BY Zenon, <1>7 DEF StartEncoding
  <2>2. ASSUME NEW e, OfWorld(e), Encoded(c, e), UNCHANGED encoding,
               c \in DOMAIN batch \ (DOMAIN encoding \union DOMAIN encoded)
        PROVE  LoopInv'
    <3>1. DOMAIN encoded' = DOMAIN encoded \union {c}
      BY Zenon, <2>2 DEF Encoded
    <3>2. \A d \in DOMAIN encoded' : encoded'[d] = IF d = c THEN e ELSE encoded[d]
      BY Zenon, <2>2 DEF Encoded
    <3>3. QED
      BY ZenonT(30), <2>1, <2>2, <3>1, <3>2 DEF CopyInv, LoopInv, OfWorld
  <2>3. CASE /\ c \in DOMAIN cache
             /\ Encoded(c, cache[c]) /\ UNCHANGED encoding
    BY SMTT(30), <1>2, <1>7, <2>2, <2>3 DEF StartEncoding, CopyInv, LoopInv
  <2>4. CASE Encoded(c, NoPacket) /\ UNCHANGED encoding
    BY <1>2, <1>7, <2>2, <2>4 DEF StartEncoding, CopyInv, OfWorld
  <2>5. CASE /\ UNCHANGED encoded
             /\ encoding' = [d \in DOMAIN encoding \union {c} |->
                  IF d = c THEN [life |-> batch[c], revision |-> revision[world][c],
                                 world |-> world, version |-> content[world][c]]
                           ELSE encoding[d]]
    <3>1. c \in DOMAIN batch \ (DOMAIN encoding \union DOMAIN encoded)
      BY Zenon, <1>7 DEF StartEncoding
    <3>2. batch # Empty
      BY Zenon, <1>3, <3>1
    <3>3. content[world][c] \in Nat
      BY SMTT(30), <3>2 DEF CopyInv, CopyTypes, LoopInv
    <3>4. LoopInv'
      BY Zenon, <2>1, <2>5, <3>1, <3>3 DEF CopyInv, LoopInv, OfWorld
    <3>5. QED
      BY Zenon, <1>2, <3>4 DEF CopyInv
  <2>6. QED
    BY Zenon, <1>7, <2>3, <2>4, <2>5 DEF StartEncoding
<1>8. ASSUME NEW c \in Pos, FinishEncoding(c) PROVE CopyInv'
  <2>1. UNCHANGED <<world, playersLeft, player, batch, cache>>
    BY Zenon, <1>8 DEF FinishEncoding
  <2>2. PICK e : Encoded(c, e) /\ (e = NoPacket \/ e = encoding[c])
    BY Zenon, <1>8 DEF FinishEncoding
  <2>3. /\ DOMAIN encoded' = DOMAIN encoded \union {c}
        /\ \A d \in DOMAIN encoded' : encoded'[d] = IF d = c THEN e ELSE encoded[d]
    BY Zenon, <2>2 DEF Encoded
  <2>4. /\ c \in DOMAIN encoding
        /\ DOMAIN encoding' = DOMAIN encoding \ {c}
        /\ \A d \in DOMAIN encoding' : encoding'[d] = encoding[d]
    BY Zenon, <1>8 DEF FinishEncoding
  <2>5. OfWorld(e)
    BY Zenon, <2>2, <2>4 DEF CopyInv, LoopInv, OfWorld
  <2>6. LoopInv'
    BY <2>1, <2>3, <2>4, <2>5 DEF CopyInv, LoopInv, OfWorld
  <2>7. QED
    BY <1>2, <2>6 DEF CopyInv
<1>9. QED
  BY Zenon, <1>4, <1>5, <1>6, <1>7, <1>8

\* A player enters a world, looks around, dies, respawns or leaves.
LEMMA CopyPlayer ==
  ASSUME CopyInv, NEW p \in Players,
         \/ \E V \in Views : (\E w \in Worlds : Enter(p, w, V)) \/ Look(p, V) \/ Respawn(p, V)
         \/ Die(p) \/ Leave(p)
  PROVE  CopyInv'
<1>1. UNCHANGED <<loop, content, life, broadcast>>
  BY Zenon DEF Enter, Look, Respawn, Die, Leave, gameOnly, chunks
<1>2. LoopInv'
  BY Zenon, <1>1, LoopKept DEF CopyInv
<1>3. ASSUME /\ phase' \in [Players -> {"in", "dead", "out"}]
             /\ at' \in [Players -> Worlds]
             /\ member' \in [Players -> Worlds \union {NoWorld}]
             /\ view' \in [Players -> SUBSET Pos]
             /\ pending' \in [Players -> SUBSET Pos]
             /\ sent' \in [Players -> SUBSET Pos]
             /\ client' \in [Players -> [Pos -> Copies \union {Nothing}]]
             /\ ViewInv' /\ ClientHoldsSent'
      PROVE  CopyInv'
  BY Zenon, <1>1, <1>2, <1>3 DEF CopyInv, CopyTypes, NoBroadcast
<1>4. \A V \in Views : V \in SUBSET Pos
  BY Zenon, SendingAssumption
<1>5. ASSUME NEW V \in Views, NEW w \in Worlds, Enter(p, w, V) PROVE CopyInv'
  <2>1. /\ phase' = [phase EXCEPT ![p] = "in"] /\ at' = [at EXCEPT ![p] = w]
        /\ member' = [member EXCEPT ![p] = w] /\ phase[p] = "out"
    BY Zenon, <1>5 DEF Enter
  <2>2. /\ phase' \in [Players -> {"in", "dead", "out"}]
        /\ at' \in [Players -> Worlds]
        /\ member' \in [Players -> Worlds \union {NoWorld}]
        /\ phase'[p] = "in" /\ member'[p] = at'[p]
        /\ \A q \in Players \ {p} : phase'[q] = phase[q] /\ member'[q] = member[q]
                                     /\ at'[q] = at[q]
    BY Zenon, <2>1 DEF CopyInv, CopyTypes
  <2>3. CASE w = at[p]
    BY Zenon, <1>3, <1>4, <1>5, <2>2, <2>3, CopiesFresh DEF Enter, StartAfresh, CopyInv
  <2>4. CASE w # at[p]
    <3> DEFINE had == [c \in Pos |-> Nothing]
    <3>1. UpdateStatus(p, w, V, had)
      BY Zenon, <1>5, <2>4 DEF Enter
    <3>2. had \in [Pos -> Copies \union {Nothing}] /\ {c \in Pos : had[c] # Nothing} = {}
      BY Zenon
    <3>3. sent[p] = {}
      BY Zenon, <2>1 DEF CopyInv, ViewInv
    <3> HIDE DEF had
    <3>4. QED
      BY Zenon, <1>3, <2>2, <3>1, <3>2, <3>3, CopiesUpdateStatus DEF CopyInv
  <2>5. QED
    BY Zenon, <2>3, <2>4
<1>6. ASSUME NEW V \in Views, Look(p, V) PROVE CopyInv'
  <2>1. UpdateStatus(p, at[p], V, client[p]) /\ UNCHANGED <<phase, at, member>>
    BY Zenon, <1>6 DEF Look
  <2>2. at[p] \in Worlds /\ client[p] \in [Pos -> Copies \union {Nothing}]
    BY Zenon DEF CopyInv, CopyTypes
  <2>3. /\ phase[p] = "out" => sent[p] = {} /\ member[p] = NoWorld
        /\ phase[p] # "out" => member[p] = at[p]
        /\ phase[p] = "in" => /\ {c \in Pos : client[p][c] # Nothing} = sent[p]
                              /\ \A c \in sent[p] : client[p][c][1] = member[p]
    BY Zenon DEF CopyInv, ViewInv, ClientHoldsSent
  <2>4. phase \in [Players -> {"in", "dead", "out"}] /\ at \in [Players -> Worlds]
        /\ member \in [Players -> Worlds \union {NoWorld}]
    BY Zenon DEF CopyInv, CopyTypes
  <2>5. QED
    BY Zenon, <1>3, <2>1, <2>2, <2>3, <2>4, CopiesUpdateStatus DEF CopyInv
<1>7. ASSUME NEW V \in Views, Respawn(p, V) PROVE CopyInv'
  <2>1. phase' = [phase EXCEPT ![p] = "in"] /\ phase[p] = "dead" /\ UNCHANGED <<at, member>>
    BY Zenon, <1>7 DEF Respawn
  <2>2. /\ phase' \in [Players -> {"in", "dead", "out"}]
        /\ at' \in [Players -> Worlds]
        /\ member' \in [Players -> Worlds \union {NoWorld}]
        /\ phase'[p] = "in" /\ member'[p] = at'[p]
        /\ \A q \in Players \ {p} : phase'[q] = phase[q] /\ member'[q] = member[q]
                                     /\ at'[q] = at[q]
    BY Zenon, <2>1 DEF CopyInv, CopyTypes, ViewInv
  <2>3. QED
    BY Zenon, <1>3, <1>4, <1>7, <2>2, CopiesFresh DEF Respawn, StartAfresh, CopyInv
<1>8. CASE Die(p)
  <2>1. phase' = [phase EXCEPT ![p] = "dead"] /\ phase[p] = "in"
        /\ UNCHANGED <<at, member, client>>
    BY Zenon, <1>8 DEF Die, clients
  <2>2. /\ phase' \in [Players -> {"in", "dead", "out"}]
        /\ at' \in [Players -> Worlds]
        /\ member' \in [Players -> Worlds \union {NoWorld}]
        /\ phase'[p] = "dead" /\ member'[p] = at'[p]
        /\ \A q \in Players \ {p} : phase'[q] = phase[q] /\ member'[q] = member[q]
                                     /\ at'[q] = at[q]
    BY Zenon, <2>1 DEF CopyInv, CopyTypes, ViewInv
  <2>3. /\ view' = [view EXCEPT ![p] = {}] /\ pending' = [pending EXCEPT ![p] = {}]
        /\ sent' = [sent EXCEPT ![p] = {}] /\ {} \in SUBSET Pos
    BY Zenon, <1>8 DEF Die, RemovePlayer
  <2>4. QED
    BY Zenon, <1>3, <2>1, <2>2, <2>3, CopiesFresh DEF CopyInv
<1>9. CASE Leave(p)
  <2>1. phase' = [phase EXCEPT ![p] = "out"] /\ member' = [member EXCEPT ![p] = NoWorld]
        /\ UNCHANGED <<at, client>>
    BY Zenon, <1>9 DEF Leave, clients
  <2>2. /\ phase' \in [Players -> {"in", "dead", "out"}]
        /\ at' \in [Players -> Worlds]
        /\ member' \in [Players -> Worlds \union {NoWorld}]
        /\ phase'[p] = "out" /\ member'[p] = NoWorld
        /\ \A q \in Players \ {p} : phase'[q] = phase[q] /\ member'[q] = member[q]
                                     /\ at'[q] = at[q]
    BY Zenon, <2>1 DEF CopyInv, CopyTypes
  <2>3. /\ view' = [view EXCEPT ![p] = {}] /\ pending' = [pending EXCEPT ![p] = {}]
        /\ sent' = [sent EXCEPT ![p] = {}] /\ {} \in SUBSET Pos
    BY Zenon, <1>9 DEF Leave, RemovePlayer
  <2>4. QED
    BY Zenon, <1>3, <2>1, <2>2, <2>3, CopiesFresh DEF CopyInv
<1>10. QED
  BY Zenon, <1>5, <1>6, <1>7, <1>8, <1>9

\* Block changes and readiness touch no player.
LEMMA CopyChunks ==
  ASSUME CopyInv, NEW w \in Worlds, NEW c \in Pos,
         WriteBlock(w, c) \/ BlockChanged(w, c) \/ FlipReadiness(w, c) \/ TakeChanges(w, c)
  PROVE  CopyInv'
<1>1. UNCHANGED <<players, client, loop>>
  BY Zenon DEF WriteBlock, BlockChanged, FlipReadiness, TakeChanges, chunkOnly, clients
<1>2. LoopInv' /\ ViewInv' /\ ClientHoldsSent'
  BY Zenon, <1>1, LoopKept, CopiesKept DEF CopyInv
<1>3. content' \in [Worlds -> [Pos -> Nat]] /\ life' \in [Worlds -> [Pos -> Nat]]
  <2>1. /\ content' = content \/ content' = [content EXCEPT ![w][c] = @ + 1]
        /\ life' = life \/ life' = [life EXCEPT ![w][c] = @ + 1]
    <3>1. CASE WriteBlock(w, c)
      BY Zenon, <3>1 DEF WriteBlock
    <3>2. CASE BlockChanged(w, c)
      BY Zenon, <3>2 DEF BlockChanged
    <3>3. CASE FlipReadiness(w, c)
      BY Zenon, <3>3 DEF FlipReadiness
    <3>4. CASE TakeChanges(w, c)
      BY Zenon, <3>4 DEF TakeChanges
    <3>5. QED
      BY Zenon, <3>1, <3>2, <3>3, <3>4
  <2>2. content \in [Worlds -> [Pos -> Nat]] /\ life \in [Worlds -> [Pos -> Nat]]
    BY Zenon DEF CopyInv, CopyTypes
  <2>3. ASSUME NEW f \in [Worlds -> [Pos -> Nat]]
        PROVE  [f EXCEPT ![w][c] = @ + 1] \in [Worlds -> [Pos -> Nat]]
    OBVIOUS
  <2>4. QED
    BY ZenonT(90), <2>1, <2>2, <2>3
<1>4. broadcast' = broadcast \/ broadcast'.on \in Worlds
  BY SMTT(30) DEF WriteBlock, BlockChanged, FlipReadiness, TakeChanges
<1>5. CopyTypes'
  BY Zenon, <1>1, <1>3, <1>4 DEF CopyInv, CopyTypes, players, NoBroadcast
<1>6. QED
  BY Zenon, <1>2, <1>5 DEF CopyInv

\* Every step keeps the invariant of the copies.
LEMMA CopyStep == CopyInv /\ [Next]_vars => CopyInv'
<1> SUFFICES ASSUME CopyInv, [Next]_vars PROVE CopyInv'
  OBVIOUS
<1>1. ASSUME UNCHANGED <<players, client, loop, content, life, broadcast>> PROVE CopyInv'
  BY Zenon, <1>1, LoopKept, CopiesKept DEF CopyInv, CopyTypes, players, NoBroadcast
<1>2. ASSUME NEW p \in Players, Acknowledge(p) PROVE CopyInv'
  <2>1. UNCHANGED <<phase, at, member, view, pending, sent, client, loop, content, life,
                    broadcast>>
    BY Zenon, <1>2 DEF Acknowledge, gameOnly, chunks
  <2>2. LoopInv'
    BY Zenon, <2>1, LoopKept DEF CopyInv
  <2>3. QED
    BY Zenon, <2>1, <2>2 DEF CopyInv, CopyTypes, ViewInv, ClientHoldsSent, NoBroadcast
<1>3. CASE UNCHANGED vars
  BY Zenon, <1>1, <1>3 DEF vars, clients, chunks
<1>4. CASE Loop
  BY Zenon, <1>4, CopyLoop, CopyCommit DEF Loop
<1>5. CASE SendChanges
  BY <1>5, CopySendChanges
<1>6. QED
  BY Zenon, <1>2, <1>3, <1>4, <1>5, CopyPlayer, CopyChunks DEF Next

\* For any players, worlds, positions and views: in a world the client holds exactly the chunks
\* its sender counts as sent, all of that world, and with the pending ones they are the tracking
\* view, whatever batches were under way when the player moved, died or changed worlds
\* (send_chunks_for_player, commit_batch, update_player_status).
THEOREM ClientIsInStep == Spec => []ClientHoldsSent
<1>1. CopyInv => ClientHoldsSent
  BY Zenon DEF CopyInv
<1>2. QED
  BY CopyInit, CopyStep, <1>1, PTL DEF Spec

-----------------------------------------------------------------------------
(* Block changes and the copies.                                           *)

\* Versions, readiness and the queues of changes.
ChunkTypes ==
  /\ announced \in [Worlds -> [Pos -> Nat]]
  /\ revision \in [Worlds -> [Pos -> Nat]]
  /\ changed \in [Worlds -> SUBSET Pos]
  /\ \A w \in Worlds : \A c \in Pos : announced[w][c] <= content[w][c]

\* The area map has every player of a world for its whole view, and nobody else has a view.
AreaInv ==
  /\ area \in [Worlds -> SUBSET (Players \X Pos)]
  /\ \A p \in Players :
       /\ phase[p] = "out" => view[p] = {}
       /\ phase[p] # "out" => {p} \X view[p] \subseteq area[at[p]]

\* A packet is of no later incarnation and revision than the holder, and has what the holder
\* had recorded if it is of the present ones.
PacketInv(e, c) ==
  e # NoPacket =>
    /\ e.life \in Nat /\ e.revision \in Nat /\ e.version \in Nat
    /\ e.life <= life[world][c] /\ e.revision <= revision[world][c]
    /\ e.life = life[world][c] /\ e.revision = revision[world][c] =>
         e.version >= announced[world][c]

PacketsInv ==
  /\ DOMAIN batch \subseteq Pos /\ DOMAIN cache \subseteq Pos
  /\ DOMAIN cache # {} => world \in Worlds
  /\ \A c \in DOMAIN batch : batch[c] \in Nat /\ batch[c] <= life[world][c]
  /\ \A c \in DOMAIN encoding : PacketInv(encoding[c], c)
  /\ \A c \in DOMAIN encoded : PacketInv(encoded[c], c)
  /\ \A c \in DOMAIN cache : PacketInv(cache[c], c)

\* The player's copy of a chunk is of an earlier incarnation, or has what was recorded.
UpToDate(p, c) ==
  client[p][c][3] = life[member[p]][c] => client[p][c][2] >= announced[member[p]][c]

\* A copy is up to date or the change is owed; the broadcast under way goes to everyone whose
\* copy is not, and the world it is in does not change meanwhile.
OwedInv ==
  /\ \A p \in Players : phase[p] = "in" => \A c \in sent[p] :
       /\ client[p][c][3] <= life[member[p]][c]
       /\ UpToDate(p, c) \/ Owed(member[p], c)
  /\ broadcast # NoBroadcast =>
       /\ broadcast.on \in Worlds /\ broadcast.pos \subseteq Pos
       /\ writing[broadcast.on] = {}
       /\ \A p \in Players : p \in broadcast.to => member[p] = broadcast.on
       /\ \A p \in Players \ broadcast.to : phase[p] = "in" /\ member[p] = broadcast.on =>
            \A c \in broadcast.pos \intersect sent[p] : UpToDate(p, c)

SeenInv == ChunkTypes /\ AreaInv /\ PacketsInv /\ OwedInv

\* No packet, no copy and no change is there when the server starts.
LEMMA SeenInit == Init => SeenInv
<1> SUFFICES ASSUME Init PROVE SeenInv
  OBVIOUS
<1>1. ChunkTypes
  BY DEF Init, ChunkTypes
<1>2. AreaInv
  BY DEF Init, AreaInv
<1>3. PacketsInv
  <2>1. DOMAIN Empty = {}
    BY Zenon DEF Empty
  <2>2. QED
    BY Zenon, <2>1 DEF Init, PacketsInv
<1>4. OwedInv
  BY DEF Init, OwedInv
<1>5. QED
  BY Zenon, <1>1, <1>2, <1>3, <1>4 DEF SeenInv

\* The area map and the views are left alone.
LEMMA AreaKept ==
  ASSUME AreaInv, UNCHANGED <<phase, at, view, area>>
  PROVE  AreaInv'
BY Zenon DEF AreaInv

\* The loop and what its packets are compared with are left alone.
LEMMA PacketsKept ==
  ASSUME PacketsInv, UNCHANGED loop, UNCHANGED <<life, revision, announced>>
  PROVE  PacketsInv'
<1>1. UNCHANGED <<world, batch, encoding, encoded, cache, life, revision, announced>>
  BY Zenon DEF loop
<1>2. QED
  BY ZenonT(90), <1>1 DEF PacketsInv, PacketInv, NoPacket

\* The copies and the changes are left alone.
LEMMA OwedKept ==
  ASSUME OwedInv, UNCHANGED <<phase, member, sent, client>>, UNCHANGED chunks
  PROVE  OwedInv'
<1>1. UNCHANGED <<phase, member, sent, client, life, announced, changed, broadcast, writing>>
  BY Zenon DEF chunks
<1>2. \A p \in Players : phase'[p] = "in" => \A c \in sent'[p] :
        /\ client'[p][c][3] <= life'[member'[p]][c]
        /\ UpToDate(p, c)' \/ Owed(member[p], c)'
  BY Zenon, <1>1 DEF OwedInv, UpToDate, Owed
<1>3. \A p, c : UpToDate(p, c) => UpToDate(p, c)'
  BY Zenon, <1>1 DEF UpToDate
<1>4. broadcast' # NoBroadcast =>
        /\ broadcast'.on \in Worlds /\ broadcast'.pos \subseteq Pos
        /\ writing'[broadcast'.on] = {}
        /\ \A p \in Players : p \in broadcast'.to => member'[p] = broadcast'.on
        /\ \A p \in Players \ broadcast'.to : phase'[p] = "in" /\ member'[p] = broadcast'.on =>
             \A c \in broadcast'.pos \intersect sent'[p] : UpToDate(p, c)'
  BY Zenon, <1>1, <1>3 DEF OwedInv
<1>5. QED
  BY Zenon, <1>2, <1>4 DEF OwedInv, NoBroadcast

\* The chunks are left alone.
LEMMA ChunksKept ==
  ASSUME ChunkTypes, UNCHANGED chunks
  PROVE  ChunkTypes'
<1>1. UNCHANGED <<content, announced, revision, changed>>
  BY Zenon DEF chunks
<1>2. QED
  BY Zenon, <1>1 DEF ChunkTypes

\* Two packets of the same chunk agree with the same holder.
LEMMA PacketKept ==
  ASSUME UNCHANGED <<world, life, revision, announced>>, NEW e, NEW c, PacketInv(e, c)
  PROVE  PacketInv(e, c)'
BY Zenon DEF PacketInv, NoPacket

\* The loop walks, prepares and encodes: what it extracts under no lock has what was recorded
\* when it read the revision.
LEMMA SeenLoop ==
  ASSUME CopyInv, SeenInv,
         \/ NextWorld \/ NextPlayer \/ Prepare
         \/ \E c \in Pos : StartEncoding(c) \/ FinishEncoding(c)
  PROVE  SeenInv'
<1>1. UNCHANGED <<players, client, area>> /\ UNCHANGED chunks
  BY Zenon DEF NextWorld, NextPlayer, Prepare, StartEncoding, FinishEncoding, clients, loopOnly
<1>2. /\ UNCHANGED <<phase, at, view, area>> /\ UNCHANGED <<phase, member, sent, client>>
      /\ life' = life /\ revision' = revision /\ announced' = announced
  BY Zenon, <1>1 DEF players, chunks
<1>3. ChunkTypes /\ AreaInv /\ PacketsInv /\ OwedInv /\ LoopInv /\ CopyTypes
  BY Zenon DEF SeenInv, CopyInv
<1>4. ChunkTypes' /\ AreaInv' /\ OwedInv'
  BY Zenon, <1>1, <1>2, <1>3, ChunksKept, AreaKept, OwedKept
<1>5. DOMAIN Empty = {}
  BY Zenon DEF Empty
<1>6. CASE NextWorld
  <2>1. DOMAIN batch = {}
    BY Zenon, <1>3, <1>5, <1>6 DEF NextWorld, LoopInv
  <2>2. DOMAIN encoding = {} /\ DOMAIN encoded = {}
    BY Zenon, <1>3, <2>1 DEF LoopInv
  <2>3. cache' = Empty /\ batch' = batch /\ encoding' = encoding /\ encoded' = encoded
    BY Zenon, <1>6 DEF NextWorld
  <2>4. PacketsInv'
    BY Zenon, <1>5, <2>1, <2>2, <2>3 DEF PacketsInv
  <2>5. QED
    BY Zenon, <1>4, <2>4 DEF SeenInv
<1>7. CASE NextPlayer
  <2>1. UNCHANGED <<world, batch, encoding, encoded, cache>>
    BY Zenon, <1>7 DEF NextPlayer
  <2>2. PacketsInv'
    BY Zenon, <1>2, <1>3, <2>1 DEF PacketsInv, PacketInv, NoPacket
  <2>3. QED
    BY Zenon, <1>4, <2>2 DEF SeenInv
<1>8. CASE Prepare
  <2>1. DOMAIN encoding = {} /\ DOMAIN encoded = {} /\ player # NoPlayer /\ batch = Empty
    BY Zenon, <1>3, <1>5, <1>8 DEF Prepare, LoopInv
  <2>2. UNCHANGED <<world, encoding, encoded, cache>>
    BY Zenon, <1>8 DEF Prepare
  <2>3. player \in Players /\ world \in Worlds
    BY Zenon, <1>3, <2>1 DEF LoopInv
  <2>4. /\ DOMAIN batch' \subseteq Pos
        /\ \A c \in DOMAIN batch' : batch'[c] \in Nat /\ batch'[c] <= life'[world'][c]
    <3>1. CASE batch' = batch
      BY Zenon, <1>5, <2>1, <3>1
    <3>2. CASE batch' # batch
      <4>1. PICK chosen \in SUBSET Candidates(player) : batch' = [c \in chosen |-> life[world][c]]
        BY Zenon, <1>8, <3>2 DEF Prepare
      <4>2. chosen \subseteq Pos
        BY Zenon, <1>3, <2>3 DEF Candidates, CopyTypes
      <4>3. \A c \in Pos : life[world][c] \in Nat
        BY Zenon, <1>3, <2>3 DEF CopyTypes
      <4>4. DOMAIN batch' = chosen /\ \A c \in chosen : batch'[c] = life[world][c]
        BY Zenon, <4>1
      <4>5. \A n \in Nat : n <= n
        OBVIOUS
      <4>6. QED
        BY Zenon, <1>2, <2>2, <4>2, <4>3, <4>4, <4>5
    <3>3. QED
      BY Zenon, <3>1, <3>2
  <2>5. \A c \in DOMAIN cache' : PacketInv(cache[c], c)'
    BY Zenon, <1>2, <1>3, <2>2, PacketKept DEF PacketsInv
  <2>6. PacketsInv'
    BY Zenon, <1>3, <2>1, <2>2, <2>4, <2>5 DEF PacketsInv
  <2>7. QED
    BY Zenon, <1>4, <2>6 DEF SeenInv
<1>9. ASSUME NEW c \in Pos, StartEncoding(c) \/ FinishEncoding(c) PROVE SeenInv'
  <2>1. UNCHANGED <<world, batch, cache>>
    BY Zenon, <1>9 DEF StartEncoding, FinishEncoding
  <2>2. c \in DOMAIN batch
    BY Zenon, <1>3, <1>9 DEF StartEncoding, FinishEncoding, LoopInv
  <2>3. batch # Empty /\ world \in Worlds
    BY Zenon, <1>3, <1>5, <2>2 DEF LoopInv
  <2>4. \A e, d : PacketInv(e, d) => PacketInv(e, d)'
    BY Zenon, <1>2, <2>1, PacketKept
  <2>5. \A d \in DOMAIN encoding' :
          \/ d \in DOMAIN encoding /\ encoding'[d] = encoding[d]
          \/ /\ d = c /\ StillReady(c)
             /\ encoding'[d] = [life |-> batch[c], revision |-> revision[world][c],
                                world |-> world, version |-> content[world][c]]
    <3>1. CASE StartEncoding(c)
      BY Zenon, <3>1 DEF StartEncoding
    <3>2. CASE FinishEncoding(c)
      BY Zenon, <3>2 DEF FinishEncoding
    <3>3. QED
      BY Zenon, <1>9, <3>1, <3>2
  <2>6. \A d \in DOMAIN encoded' :
          \/ d \in DOMAIN encoded /\ encoded'[d] = encoded[d]
          \/ d \in DOMAIN cache /\ encoded'[d] = cache[d]
          \/ d \in DOMAIN encoding /\ encoded'[d] = encoding[d]
          \/ encoded'[d] = NoPacket
    <3>1. \/ encoded' = encoded
          \/ \E e : /\ Encoded(c, e)
                    /\ \/ c \in DOMAIN cache /\ e = cache[c]
                       \/ c \in DOMAIN encoding /\ e = encoding[c]
                       \/ e = NoPacket
      <4>1. CASE StartEncoding(c)
        BY Zenon, <4>1 DEF StartEncoding
      <4>2. CASE FinishEncoding(c)
        BY Zenon, <4>2 DEF FinishEncoding
      <4>3. QED
        BY Zenon, <1>9, <4>1, <4>2
    <3>2. CASE encoded' = encoded
      BY Zenon, <3>2
    <3>3. CASE encoded' # encoded
      <4>1. PICK e : /\ Encoded(c, e)
                     /\ \/ c \in DOMAIN cache /\ e = cache[c]
                        \/ c \in DOMAIN encoding /\ e = encoding[c]
                        \/ e = NoPacket
        BY Zenon, <3>1, <3>3
      <4>2. \A d \in DOMAIN encoded' :
              d \in DOMAIN encoded \union {c} /\ encoded'[d] = IF d = c THEN e ELSE encoded[d]
        BY Zenon, <4>1 DEF Encoded
      <4>3. QED
        BY Zenon, <4>1, <4>2
    <3>4. QED
      BY Zenon, <3>2, <3>3
  <2>7. StillReady(c) =>
          PacketInv([life |-> batch[c], revision |-> revision[world][c],
                     world |-> world, version |-> content[world][c]], c)
    <3>1. /\ life[world][c] \in Nat /\ revision[world][c] \in Nat /\ content[world][c] \in Nat
          /\ announced[world][c] \in Nat /\ announced[world][c] <= content[world][c]
      BY <1>3, <2>3 DEF CopyTypes, ChunkTypes
    <3>2. QED
      BY <3>1 DEF PacketInv, StillReady
  <2>8. \A d : PacketInv(NoPacket, d)
    BY Zenon DEF PacketInv
  <2>9. \A d \in DOMAIN encoding' : PacketInv(encoding'[d], d)
    BY Zenon, <1>3, <2>5, <2>7 DEF PacketsInv
  <2>10. \A d \in DOMAIN encoded' : PacketInv(encoded'[d], d)
    BY Zenon, <1>3, <2>6, <2>8 DEF PacketsInv
  <2>11. \A d \in DOMAIN cache : PacketInv(cache[d], d)
    BY Zenon, <1>3 DEF PacketsInv
  <2>12. PacketsInv'
    <3>1. (\A d \in DOMAIN encoding : PacketInv(encoding[d], d))'
      BY Zenon, <1>2, <2>1, <2>9 DEF PacketInv, NoPacket
    <3>2. (\A d \in DOMAIN encoded : PacketInv(encoded[d], d))'
      BY Zenon, <1>2, <2>1, <2>10 DEF PacketInv, NoPacket
    <3>3. (\A d \in DOMAIN cache : PacketInv(cache[d], d))'
      BY Zenon, <1>2, <2>1, <2>11 DEF PacketInv, NoPacket
    <3>4. QED
      BY Zenon, <1>2, <1>3, <2>1, <3>1, <3>2, <3>3 DEF PacketsInv
  <2>13. QED
    BY Zenon, <1>4, <2>12 DEF SeenInv
<1>10. QED
  BY Zenon, <1>6, <1>7, <1>8, <1>9

\* The batch is sent: a chunk counts as sent only with a packet of the holder's present
\* incarnation and revision (commit_batch).
LEMMA SeenCommit ==
  ASSUME CopyInv, SeenInv, Commit
  PROVE  SeenInv'
<1> DEFINE valid == IF MayCommit(player) THEN Valid(player) ELSE {}
<1>1. ChunkTypes /\ AreaInv /\ PacketsInv /\ OwedInv /\ LoopInv /\ CopyTypes
  BY Zenon DEF SeenInv, CopyInv
<1>2. UNCHANGED <<phase, at, member, view, area>> /\ UNCHANGED chunks
  BY Zenon DEF Commit, loopOnly
<1>3. UNCHANGED <<life, revision, announced, changed, broadcast, writing>>
  BY Zenon, <1>2 DEF chunks
<1>4. player \in Players /\ world \in Worlds /\ world' = world
  BY Zenon, <1>1 DEF Commit, LoopInv
<1>5. /\ sent' = [sent EXCEPT ![player] = sent[player] \union valid]
      /\ client' = [client EXCEPT ![player] = [c \in Pos |->
           IF c \in valid THEN <<encoded[c].world, encoded[c].version, life[world][c]>>
           ELSE client[player][c]]]
  BY Zenon DEF Commit
<1>6. /\ valid # {} => member[player] = world
      /\ \A c \in valid : c \in DOMAIN encoded /\ c \in Pos /\ encoded[c] # NoPacket
                          /\ encoded[c].life = life[world][c]
                          /\ encoded[c].revision = revision[world][c]
  <2>1. pending[player] \subseteq Pos
    BY Zenon, <1>1, <1>4 DEF CopyTypes
  <2>2. QED
    BY Zenon, <2>1 DEF MayCommit, Valid, IsCurrentFor, StillReady
<1>7. \A c \in valid : encoded[c].version >= announced[world][c]
  BY Zenon, <1>1, <1>6 DEF PacketsInv, PacketInv
<1> HIDE DEF valid
<1>8. /\ sent'[player] = sent[player] \union valid
      /\ \A c \in Pos \ valid : client'[player][c] = client[player][c]
      /\ \A q \in Players \ {player} : sent'[q] = sent[q] /\ client'[q] = client[q]
  BY Zenon, <1>1, <1>4, <1>5 DEF CopyTypes
<1>9. \A c \in valid : client'[player][c] = <<encoded[c].world, encoded[c].version, life[world][c]>>
  BY Zenon, <1>1, <1>4, <1>5, <1>6 DEF CopyTypes
<1>10. \A c \in valid : /\ client'[player][c][3] = life[member[player]][c]
                        /\ client'[player][c][2] >= announced[member[player]][c]
  <2> SUFFICES ASSUME NEW c \in valid
               PROVE  /\ client'[player][c][3] = life[member[player]][c]
                      /\ client'[player][c][2] >= announced[member[player]][c]
    BY Zenon
  <2>1. client'[player][c] = <<encoded[c].world, encoded[c].version, life[world][c]>>
    BY Zenon, <1>9
  <2>2. client'[player][c][3] = life[world][c] /\ client'[player][c][2] = encoded[c].version
    BY <2>1
  <2>3. member[player] = world
    BY Zenon, <1>6
  <2>4. QED
    BY Zenon, <1>7, <2>2, <2>3
<1>11. \A q \in Players : \A c \in sent'[q] :
         \/ c \in sent[q] /\ client'[q][c] = client[q][c]
         \/ /\ client'[q][c][3] <= life[member[q]][c]
            /\ client'[q][c][2] >= announced[member[q]][c]
  <2> SUFFICES ASSUME NEW q \in Players, NEW c \in sent'[q]
               PROVE  \/ c \in sent[q] /\ client'[q][c] = client[q][c]
                      \/ /\ client'[q][c][3] <= life[member[q]][c]
                         /\ client'[q][c][2] >= announced[member[q]][c]
    BY Zenon
  <2>1. CASE q # player
    BY Zenon, <1>8, <2>1
  <2>2. CASE q = player /\ c \in valid
    <3>1. /\ client'[q][c][3] = life[member[q]][c]
          /\ client'[q][c][2] >= announced[member[q]][c]
      BY Zenon, <1>10, <2>2
    <3>2. life[member[q]][c] \in Nat
      <4>1. member[q] \in Worlds /\ c \in Pos
        BY Zenon, <1>4, <1>6, <2>2
      <4>2. QED
        BY Zenon, <1>1, <4>1 DEF CopyTypes
    <3>3. life[member[q]][c] <= life[member[q]][c]
      BY <3>2
    <3>4. QED
      BY Zenon, <3>1, <3>3
  <2>3. CASE q = player /\ c \notin valid
    <3>1. c \in sent[player] /\ sent[player] \subseteq Pos
      BY Zenon, <1>1, <1>4, <1>8, <2>3 DEF CopyTypes
    <3>2. QED
      BY Zenon, <1>8, <2>3, <3>1
  <2>4. QED
    BY Zenon, <2>1, <2>2, <2>3
<1>12. OwedInv'
  <2>1. \A q \in Players : phase'[q] = "in" => \A c \in sent'[q] :
          /\ client'[q][c][3] <= life'[member'[q]][c]
          /\ UpToDate(q, c)' \/ Owed(member[q], c)'
    BY ZenonT(40), <1>1, <1>2, <1>3, <1>11 DEF OwedInv, UpToDate, Owed
  <2>2. broadcast' # NoBroadcast =>
          \A q \in Players \ broadcast'.to : phase'[q] = "in" /\ member'[q] = broadcast'.on =>
            \A c \in broadcast'.pos \intersect sent'[q] : UpToDate(q, c)'
    <3> SUFFICES ASSUME broadcast # NoBroadcast, NEW q \in Players, q \notin broadcast.to,
                        phase[q] = "in", member[q] = broadcast.on,
                        NEW c \in broadcast.pos, c \in sent'[q]
                 PROVE  UpToDate(q, c)'
      BY Zenon, <1>2, <1>3
    <3>1. CASE c \in sent[q] /\ client'[q][c] = client[q][c]
      <4>1. UpToDate(q, c)
        BY Zenon, <1>1, <3>1 DEF OwedInv
      <4>2. QED
        BY Zenon, <1>2, <1>3, <3>1, <4>1 DEF UpToDate
    <3>2. CASE client'[q][c][2] >= announced[member[q]][c]
      BY Zenon, <1>2, <1>3, <3>2 DEF UpToDate
    <3>3. QED
      BY Zenon, <1>11, <3>1, <3>2
  <2>3. QED
    BY Zenon, <1>1, <1>2, <1>3, <2>1, <2>2 DEF OwedInv, NoBroadcast
<1>13. PacketsInv'
  <2>1. batch' = Empty /\ encoded' = Empty /\ encoding' = encoding /\ DOMAIN Empty = {}
    BY Zenon DEF Commit, Empty
  <2>2. DOMAIN encoding = {} /\ DOMAIN encoded \subseteq Pos
    BY Zenon, <1>1 DEF Commit, LoopInv, PacketsInv
  <2>3. \A c \in DOMAIN cache' : \/ c \in DOMAIN cache /\ cache'[c] = cache[c]
                                 \/ c \in DOMAIN encoded /\ cache'[c] = encoded[c]
    BY Zenon DEF Commit
  <2>4. \A c \in DOMAIN cache' : PacketInv(cache'[c], c) /\ c \in Pos
    BY Zenon, <1>1, <2>2, <2>3 DEF PacketsInv
  <2>5. (\A c \in DOMAIN cache : PacketInv(cache[c], c))'
    BY Zenon, <1>3, <1>4, <2>4 DEF PacketInv, NoPacket
  <2>6. QED
    BY Zenon, <1>4, <2>1, <2>2, <2>4, <2>5 DEF PacketsInv
<1>14. QED
  BY Zenon, <1>1, <1>2, <1>12, <1>13, ChunksKept, AreaKept DEF SeenInv

\* A player step between broadcasts: the other players keep their copies, and what the player
\* itself still counts as sent it had before.
LEMMA OwedPlayer ==
  ASSUME OwedInv, NEW p \in Players, broadcast = NoBroadcast, UNCHANGED chunks,
         \A q \in Players \ {p} : /\ phase'[q] = phase[q] /\ member'[q] = member[q]
                                  /\ sent'[q] = sent[q] /\ client'[q] = client[q],
         phase'[p] = "in" => \A c \in sent'[p] :
           c \in sent[p] /\ phase[p] = "in" /\ member'[p] = member[p] /\ client'[p][c] = client[p][c]
  PROVE  OwedInv'
<1>1. UNCHANGED <<life, announced, changed, broadcast>> /\ broadcast' = NoBroadcast
  BY Zenon DEF chunks
<1>2. \A q \in Players : phase'[q] = "in" => \A c \in sent'[q] :
        c \in sent[q] /\ phase[q] = "in" /\ member'[q] = member[q] /\ client'[q][c] = client[q][c]
  BY Zenon
<1>3. \A q \in Players : phase'[q] = "in" => \A c \in sent'[q] :
        /\ client'[q][c][3] <= life'[member'[q]][c]
        /\ UpToDate(q, c)' \/ Owed(member[q], c)'
  <2> SUFFICES ASSUME NEW q \in Players, phase'[q] = "in", NEW c \in sent'[q]
               PROVE  /\ client'[q][c][3] <= life'[member'[q]][c]
                      /\ UpToDate(q, c)' \/ Owed(member[q], c)'
    BY Zenon
  <2>1. c \in sent[q] /\ phase[q] = "in" /\ member'[q] = member[q] /\ client'[q][c] = client[q][c]
    BY Zenon, <1>2
  <2>2. /\ client[q][c][3] <= life[member[q]][c]
        /\ UpToDate(q, c) \/ Owed(member[q], c)
    BY Zenon, <2>1 DEF OwedInv
  <2>3. QED
    BY Zenon, <1>1, <2>1, <2>2 DEF UpToDate, Owed
<1>4. QED
  BY Zenon, <1>1, <1>3 DEF OwedInv, NoBroadcast

\* A player step changes its own pairs of the area map only.
LEMMA AreaPlayer ==
  ASSUME AreaInv, at \in [Players -> Worlds],
         NEW p \in Players, NEW w \in Worlds, NEW out, NEW into \in SUBSET Pos,
         area' = [area EXCEPT ![w] = (@ \ ({p} \X out)) \union ({p} \X into)],
         \A q \in Players \ {p} : phase'[q] = phase[q] /\ view'[q] = view[q] /\ at'[q] = at[q],
         phase'[p] = "out" => view'[p] = {},
         phase'[p] # "out" => {p} \X view'[p] \subseteq area'[at'[p]]
  PROVE  AreaInv'
<1>0. area' \in [Worlds -> SUBSET (Players \X Pos)] /\ area \in [Worlds -> SUBSET (Players \X Pos)]
  <2>1. area \in [Worlds -> SUBSET (Players \X Pos)] /\ {p} \X into \subseteq Players \X Pos
    BY DEF AreaInv
  <2>2. (area[w] \ ({p} \X out)) \union ({p} \X into) \in SUBSET (Players \X Pos)
    BY Zenon, <2>1
  <2>3. QED
    BY Zenon, <2>1, <2>2
<1> SUFFICES ASSUME NEW q \in Players
             PROVE  /\ phase'[q] = "out" => view'[q] = {}
                    /\ phase'[q] # "out" => {q} \X view'[q] \subseteq area'[at'[q]]
  BY Zenon, <1>0 DEF AreaInv
<1>1. CASE q = p
  BY Zenon, <1>1
<1>2. CASE q # p
  <2>1. phase'[q] = phase[q] /\ view'[q] = view[q] /\ at'[q] = at[q] /\ at[q] \in Worlds
    BY Zenon, <1>2
  <2>2. \A c : <<q, c>> \in area[at[q]] => <<q, c>> \in area'[at[q]]
    <3>1. \A c : <<q, c>> \notin {p} \X out
      BY <1>2
    <3>2. CASE at[q] = w
      <4>1. area'[w] = (area[w] \ ({p} \X out)) \union ({p} \X into)
        BY Zenon, <1>0
      <4>2. QED
        BY Zenon, <3>1, <3>2, <4>1
    <3>3. CASE at[q] # w
      BY Zenon, <1>0, <2>1, <3>3
    <3>4. QED
      BY Zenon, <3>2, <3>3
  <2>3. QED
    BY <2>1, <2>2 DEF AreaInv
<1>3. QED
  BY Zenon, <1>1, <1>2

\* The area map of a world after a step of p that takes its pairs for `out` away and adds those
\* for `into`.
LEMMA AreaAfter ==
  ASSUME AreaInv, NEW p \in Players, NEW w \in Worlds, NEW out, NEW into,
         area' = [area EXCEPT ![w] = (@ \ ({p} \X out)) \union ({p} \X into)]
  PROVE  /\ {p} \X into \subseteq area'[w]
         /\ \A c : <<p, c>> \in area[w] /\ c \notin out => <<p, c>> \in area'[w]
<1>1. area'[w] = (area[w] \ ({p} \X out)) \union ({p} \X into)
  BY Zenon DEF AreaInv
<1>2. \A c : c \notin out => <<p, c>> \notin {p} \X out
  OBVIOUS
<1>3. QED
  BY Zenon, <1>1, <1>2

\* A player enters a world, looks around, dies, respawns or leaves; no client changes its view
\* distance while it is in no world.
LEMMA SeenPlayer ==
  ASSUME CopyInv, SeenInv, ~SettingsWhileAway, NEW p \in Players,
         \/ \E V \in Views : (\E w \in Worlds : Enter(p, w, V)) \/ Look(p, V) \/ Respawn(p, V)
         \/ Die(p) \/ Leave(p)
  PROVE  SeenInv'
<1>1. ChunkTypes /\ AreaInv /\ PacketsInv /\ OwedInv /\ ViewInv /\ CopyTypes
  BY Zenon DEF SeenInv, CopyInv
<1>2. UNCHANGED loop /\ UNCHANGED chunks /\ broadcast = NoBroadcast
  BY Zenon DEF Enter, Look, Respawn, Die, Leave, gameOnly, Between
<1>3. ChunkTypes' /\ PacketsInv'
  <2>1. life' = life /\ revision' = revision /\ announced' = announced
    BY Zenon, <1>2 DEF chunks
  <2>2. QED
    BY Zenon, <1>1, <1>2, <2>1, ChunksKept, PacketsKept
<1>4. /\ phase \in [Players -> {"in", "dead", "out"}] /\ at \in [Players -> Worlds]
      /\ member \in [Players -> Worlds \union {NoWorld}] /\ view \in [Players -> SUBSET Pos]
      /\ sent \in [Players -> SUBSET Pos] /\ client \in [Players -> [Pos -> Copies \union {Nothing}]]
      /\ area \in [Worlds -> SUBSET (Players \X Pos)] /\ at[p] \in Worlds
  BY Zenon, <1>1 DEF CopyTypes, AreaInv
<1>5. \A V \in Views : V \in SUBSET Pos
  BY Zenon, SendingAssumption
<1>6. {p} \X {} = {} /\ {} \in SUBSET Pos
  OBVIOUS
<1>7. ASSUME AreaInv', OwedInv' PROVE SeenInv'
  BY Zenon, <1>3, <1>7 DEF SeenInv
<1>8. ASSUME NEW V \in Views, NEW w \in Worlds, Enter(p, w, V) PROVE SeenInv'
  <2>1. /\ phase' = [phase EXCEPT ![p] = "in"] /\ at' = [at EXCEPT ![p] = w]
        /\ member' = [member EXCEPT ![p] = w] /\ phase[p] = "out"
    BY Zenon, <1>8 DEF Enter
  <2>2. view[p] = {} /\ sent[p] = {}
    BY Zenon, <1>1, <2>1 DEF AreaInv, ViewInv
  <2>3. /\ view' = [view EXCEPT ![p] = V] /\ sent'[p] = {}
        /\ \A q \in Players \ {p} : sent'[q] = sent[q] /\ client'[q] = client[q]
        /\ area' = [area EXCEPT ![w] = (@ \ ({p} \X {})) \union ({p} \X V)]
    <3>1. CASE w = at[p]
      <4>1. /\ view' = [view EXCEPT ![p] = V] /\ sent' = [sent EXCEPT ![p] = {}]
            /\ client' = [client EXCEPT ![p] = [c \in Pos |-> Nothing]]
            /\ area' = [area EXCEPT ![w] = area[w] \union ({p} \X V)]
        BY Zenon, <1>8, <3>1 DEF Enter, StartAfresh
      <4>2. area[w] \union ({p} \X V) = (area[w] \ ({p} \X {})) \union ({p} \X V)
        BY Zenon, <1>6
      <4>3. QED
        BY Zenon, <1>4, <4>1, <4>2
    <3>2. CASE w # at[p]
      <4>1. UpdateStatus(p, w, V, [c \in Pos |-> Nothing])
        BY Zenon, <1>8, <3>2 DEF Enter
      <4>2. V \ view[p] = V /\ view[p] \ V = {} /\ sent[p] \ (V \union {}) = {}
        BY Zenon, <2>2
      <4>3. /\ view' = [view EXCEPT ![p] = V] /\ sent' = [sent EXCEPT ![p] = sent[p] \ (V \union {})]
            /\ area' = [area EXCEPT ![w] = (area[w] \ ({p} \X {})) \union ({p} \X V)]
        BY Zenon, <4>1, <4>2 DEF UpdateStatus
      <4>4. \A q \in Players \ {p} : client'[q] = client[q]
        BY Zenon, <1>4, <4>1 DEF UpdateStatus
      <4>5. QED
        BY Zenon, <1>4, <4>2, <4>3, <4>4
    <3>3. QED
      BY Zenon, <3>1, <3>2
  <2>4. \A q \in Players \ {p} : /\ phase'[q] = phase[q] /\ member'[q] = member[q]
                                 /\ at'[q] = at[q] /\ view'[q] = view[q]
    BY Zenon, <1>4, <2>1, <2>3
  <2>5. phase'[p] = "in" /\ at'[p] = w /\ view'[p] = V
    BY Zenon, <1>4, <2>1, <2>3
  <2>6. phase'[p] # "out" /\ {p} \X view'[p] \subseteq area'[at'[p]]
    <3>1. {p} \X V \subseteq area'[w]
      BY Zenon, <1>1, <2>3, AreaAfter
    <3>2. phase'[p] # "out"
      BY <2>5
    <3>3. QED
      BY Zenon, <2>5, <3>1, <3>2
  <2>7. AreaInv'
    BY Zenon, <1>1, <1>4, <1>5, <2>3, <2>4, <2>6, AreaPlayer
  <2>8. OwedInv'
    BY Zenon, <1>1, <1>2, <2>3, <2>4, OwedPlayer
  <2>9. QED
    BY Zenon, <1>7, <2>7, <2>8
<1>9. ASSUME NEW V \in Views, Look(p, V) PROVE SeenInv'
  <2>1. UpdateStatus(p, at[p], V, client[p]) /\ UNCHANGED <<phase, at, member>> /\ phase[p] # "out"
    BY <1>9 DEF Look
  <2>2. /\ view' = [view EXCEPT ![p] = V]
        /\ sent' = [sent EXCEPT ![p] = sent[p] \ ((V \ view[p]) \union (view[p] \ V))]
        /\ client' = [client EXCEPT ![p] = [c \in Pos |->
             IF c \in (view[p] \ V) \intersect sent[p] THEN Nothing ELSE client[p][c]]]
        /\ area' = [area EXCEPT ![at[p]] =
             (@ \ ({p} \X (view[p] \ V))) \union ({p} \X (V \ view[p]))]
    BY Zenon, <2>1 DEF UpdateStatus
  <2>3. \A q \in Players \ {p} :
          /\ phase'[q] = phase[q] /\ member'[q] = member[q] /\ at'[q] = at[q] /\ view'[q] = view[q]
          /\ sent'[q] = sent[q] /\ client'[q] = client[q]
    BY Zenon, <1>4, <2>1, <2>2
  <2>4. /\ view'[p] = V /\ at'[p] = at[p] /\ phase'[p] = phase[p] /\ member'[p] = member[p]
        /\ \A c \in sent'[p] : c \in sent[p] /\ c \notin view[p] \ V /\ c \in Pos
    BY Zenon, <1>4, <2>1, <2>2
  <2>5. \A c \in sent'[p] : client'[p][c] = client[p][c]
    BY Zenon, <1>4, <2>2, <2>4
  <2>6. {p} \X view'[p] \subseteq area'[at'[p]]
    <3>1. /\ {p} \X (V \ view[p]) \subseteq area'[at[p]]
          /\ \A c : <<p, c>> \in area[at[p]] /\ c \notin view[p] \ V => <<p, c>> \in area'[at[p]]
      BY ZenonT(90), <1>1, <1>4, <2>2, AreaAfter
    <3>2. {p} \X view[p] \subseteq area[at[p]]
      BY Zenon, <1>1, <2>1 DEF AreaInv
    <3>3. \A c \in V : <<p, c>> \in area'[at[p]]
      <4> SUFFICES ASSUME NEW c \in V PROVE <<p, c>> \in area'[at[p]]
        BY Zenon
      <4>1. CASE c \in view[p]
        BY <3>1, <3>2, <4>1
      <4>2. CASE c \notin view[p]
        BY <3>1, <4>2
      <4>3. QED
        BY Zenon, <4>1, <4>2
    <3>4. QED
      BY <2>4, <3>3
  <2>7. V \ view[p] \in SUBSET Pos
    BY Zenon, <1>5
  <2>8. AreaInv'
    BY Zenon, <1>1, <1>4, <2>1, <2>2, <2>3, <2>4, <2>6, <2>7, AreaPlayer
  <2>9. OwedInv'
    BY Zenon, <1>1, <1>2, <2>3, <2>4, <2>5, OwedPlayer
  <2>10. QED
    BY Zenon, <1>7, <2>8, <2>9
<1>10. ASSUME NEW V \in Views, Respawn(p, V) PROVE SeenInv'
  <2>1. /\ phase' = [phase EXCEPT ![p] = "in"] /\ UNCHANGED <<at, member>>
        /\ view' = [view EXCEPT ![p] = V] /\ sent' = [sent EXCEPT ![p] = {}]
        /\ client' = [client EXCEPT ![p] = [c \in Pos |-> Nothing]]
        /\ area' = [area EXCEPT ![at[p]] = (@ \ ({p} \X Pos)) \union ({p} \X V)]
    BY Zenon, <1>10 DEF Respawn, StartAfresh
  <2>2. \A q \in Players \ {p} :
          /\ phase'[q] = phase[q] /\ member'[q] = member[q] /\ at'[q] = at[q] /\ view'[q] = view[q]
          /\ sent'[q] = sent[q] /\ client'[q] = client[q]
    BY Zenon, <1>4, <2>1
  <2>3. view'[p] = V /\ at'[p] = at[p] /\ phase'[p] = "in" /\ sent'[p] = {}
    BY Zenon, <1>4, <2>1
  <2>4. {p} \X V \subseteq area'[at[p]] /\ phase'[p] # "out"
    <3>1. phase'[p] # "out"
      BY <2>3
    <3>2. QED
      BY Zenon, <1>1, <1>4, <2>1, <3>1, AreaAfter
  <2>5. AreaInv'
    BY Zenon, <1>1, <1>4, <1>5, <2>1, <2>2, <2>3, <2>4, AreaPlayer
  <2>6. OwedInv'
    BY Zenon, <1>1, <1>2, <2>2, <2>3, OwedPlayer
  <2>7. QED
    BY Zenon, <1>7, <2>5, <2>6
<1>11. CASE Die(p) \/ Leave(p)
  <2>1. /\ \/ phase' = [phase EXCEPT ![p] = "dead"] /\ member' = member
           \/ phase' = [phase EXCEPT ![p] = "out"] /\ member' = [member EXCEPT ![p] = NoWorld]
        /\ UNCHANGED <<at, client>>
        /\ view' = [view EXCEPT ![p] = {}] /\ sent' = [sent EXCEPT ![p] = {}]
        /\ area' = [area EXCEPT ![at[p]] = area[at[p]] \ ({p} \X Pos)]
    BY Zenon, <1>11 DEF Die, Leave, RemovePlayer, clients
  <2>2. area' = [area EXCEPT ![at[p]] = (@ \ ({p} \X Pos)) \union ({p} \X {})]
    <3>1. area[at[p]] \ ({p} \X Pos) = (area[at[p]] \ ({p} \X Pos)) \union ({p} \X {})
      BY Zenon, <1>6
    <3>2. QED
      BY Zenon, <2>1, <3>1
  <2>3. \A q \in Players \ {p} :
          /\ phase'[q] = phase[q] /\ member'[q] = member[q] /\ at'[q] = at[q] /\ view'[q] = view[q]
          /\ sent'[q] = sent[q] /\ client'[q] = client[q]
    BY Zenon, <1>4, <2>1
  <2>4. view'[p] = {} /\ sent'[p] = {} /\ {p} \X view'[p] \subseteq area'[at'[p]]
    BY Zenon, <1>4, <1>6, <2>1
  <2>5. AreaInv'
    BY ZenonT(90), <1>1, <1>4, <1>6, <2>2, <2>3, <2>4, AreaPlayer
  <2>6. OwedInv'
    BY Zenon, <1>1, <1>2, <2>3, <2>4, OwedPlayer
  <2>7. QED
    BY Zenon, <1>7, <2>5, <2>6
<1>12. QED
  BY Zenon, <1>8, <1>9, <1>10, <1>11

\* What a sent chunk's copy is made of.
LEMMA SentCopy ==
  ASSUME CopyInv, NEW p \in Players, phase[p] = "in", NEW c \in sent[p]
  PROVE  /\ c \in Pos /\ member[p] \in Worlds /\ client[p][c] \in Copies /\ client[p][c] # Nothing
         /\ client[p][c][2] \in Nat /\ client[p][c][3] \in Nat
<1>1. CopyTypes /\ ViewInv /\ ClientHoldsSent
  BY Zenon DEF CopyInv
<1>2. c \in Pos /\ client[p][c] # Nothing
  BY ZenonT(90), <1>1 DEF CopyTypes, ClientHoldsSent
<1>3. client[p][c] \in Copies
  BY Zenon, <1>1, <1>2 DEF CopyTypes
<1>4. member[p] = at[p]
  <2>1. phase[p] # "out"
    OBVIOUS
  <2>2. QED
    BY Zenon, <1>1, <2>1 DEF ViewInv
<1>5. member[p] \in Worlds
  BY Zenon, <1>1, <1>4 DEF CopyTypes
<1>6. client[p][c][2] \in Nat /\ client[p][c][3] \in Nat
  BY <1>3 DEF Copies
<1>7. QED
  BY Zenon, <1>2, <1>3, <1>5, <1>6

\* A block is written: nothing is recorded yet.
LEMMA SeenWrite ==
  ASSUME CopyInv, SeenInv, NEW w \in Worlds, NEW c \in Pos, WriteBlock(w, c)
  PROVE  SeenInv'
<1>1. ChunkTypes /\ AreaInv /\ PacketsInv /\ OwedInv /\ CopyTypes
  BY Zenon DEF SeenInv, CopyInv
<1>2. /\ UNCHANGED <<phase, at, view, area>> /\ UNCHANGED <<member, sent, client>> /\ UNCHANGED loop
      /\ UNCHANGED <<announced, life, revision, changed, broadcast>> /\ broadcast = NoBroadcast
      /\ content' = [content EXCEPT ![w][c] = @ + 1]
  BY Zenon DEF WriteBlock, chunkOnly, players, clients, Between
<1>3. \A v \in Worlds : \A d \in Pos : content'[v][d] \in Nat /\ content[v][d] <= content'[v][d]
  BY <1>1, <1>2 DEF CopyTypes
<1>4. \A v \in Worlds : \A d \in Pos : announced'[v][d] <= content'[v][d]
  BY <1>1, <1>2, <1>3 DEF ChunkTypes, CopyTypes
<1>5. ChunkTypes'
  BY Zenon, <1>1, <1>2, <1>4 DEF ChunkTypes
<1>6. \A p \in Players : phase'[p] = "in" => \A d \in sent'[p] :
        /\ client'[p][d][3] <= life'[member'[p]][d]
        /\ UpToDate(p, d)' \/ Owed(member[p], d)'
  BY Zenon, <1>1, <1>2 DEF OwedInv, UpToDate, Owed
<1>7. OwedInv'
  BY Zenon, <1>2, <1>6 DEF OwedInv, NoBroadcast
<1>8. QED
  BY Zenon, <1>1, <1>2, <1>5, <1>7, AreaKept, PacketsKept DEF SeenInv

\* Revision, incarnation and record of one chunk change: a packet is out of date by then, or it
\* is of another chunk.
LEMMA PacketsAge ==
  ASSUME PacketsInv, LoopInv, NEW w \in Worlds, NEW c \in Pos, UNCHANGED loop,
         life \in [Worlds -> [Pos -> Nat]], revision \in [Worlds -> [Pos -> Nat]],
         life' \in [Worlds -> [Pos -> Nat]], revision' \in [Worlds -> [Pos -> Nat]],
         \A v \in Worlds : \A d \in Pos : v # w \/ d # c =>
           life'[v][d] = life[v][d] /\ revision'[v][d] = revision[v][d]
           /\ announced'[v][d] = announced[v][d],
         \/ life'[w][c] = life[w][c] + 1 /\ revision'[w][c] = revision[w][c]
         \/ life'[w][c] = life[w][c] /\ revision'[w][c] = revision[w][c] + 1
  PROVE  PacketsInv'
<1>1. UNCHANGED <<world, batch, encoding, encoded, cache>>
  BY Zenon DEF loop
<1>2. ASSUME NEW e, NEW d \in Pos, world \in Worlds, PacketInv(e, d)
      PROVE  PacketInv(e, d)'
  <2>1. CASE world = w /\ d = c
    <3>1. /\ life[w][c] \in Nat /\ revision[w][c] \in Nat
          /\ life'[w][c] \in Nat /\ revision'[w][c] \in Nat
      BY ZenonT(40)
    <3>2. QED
      BY <1>1, <1>2, <2>1, <3>1 DEF PacketInv, NoPacket
  <2>2. CASE world # w \/ d # c
    <3>1. /\ life'[world][d] = life[world][d] /\ revision'[world][d] = revision[world][d]
          /\ announced'[world][d] = announced[world][d]
      BY Zenon, <1>2, <2>2
    <3>2. QED
      BY Zenon, <1>1, <1>2, <3>1 DEF PacketInv, NoPacket
  <2>3. QED
    BY Zenon, <2>1, <2>2
<1>3. DOMAIN batch # {} => world \in Worlds
  <2>1. DOMAIN Empty = {}
    BY Zenon DEF Empty
  <2>2. QED
    BY Zenon, <2>1 DEF LoopInv
<1>4. \A d \in DOMAIN batch : batch'[d] \in Nat /\ batch'[d] <= life'[world'][d]
  <2> SUFFICES ASSUME NEW d \in DOMAIN batch PROVE batch[d] \in Nat /\ batch[d] <= life'[world][d]
    BY Zenon, <1>1
  <2>1. d \in Pos /\ world \in Worlds /\ batch[d] \in Nat /\ batch[d] <= life[world][d]
    BY Zenon, <1>3 DEF PacketsInv
  <2>2. life[world][d] \in Nat /\ life'[world][d] \in Nat
    BY Zenon, <2>1
  <2>3. life'[world][d] = life[world][d] \/ life'[world][d] = life[world][d] + 1
    BY Zenon, <2>1
  <2>4. QED
    BY <2>1, <2>2, <2>3
<1>5. /\ DOMAIN encoding \subseteq DOMAIN batch /\ DOMAIN encoded \subseteq DOMAIN batch
      /\ DOMAIN batch \subseteq Pos
  BY Zenon DEF LoopInv, PacketsInv
<1>6. (\A d \in DOMAIN encoding : PacketInv(encoding[d], d))'
  <2>1. \A d \in DOMAIN encoding : d \in Pos /\ world \in Worlds /\ PacketInv(encoding[d], d)
    BY Zenon, <1>3, <1>5 DEF PacketsInv
  <2>2. \A d \in DOMAIN encoding : PacketInv(encoding[d], d)'
    BY Zenon, <1>1, <1>2, <2>1 DEF PacketInv
  <2>3. QED
    BY Zenon, <1>1, <2>2
<1>7. (\A d \in DOMAIN encoded : PacketInv(encoded[d], d))'
  <2>1. \A d \in DOMAIN encoded : d \in Pos /\ world \in Worlds /\ PacketInv(encoded[d], d)
    BY Zenon, <1>3, <1>5 DEF PacketsInv
  <2>2. \A d \in DOMAIN encoded : PacketInv(encoded[d], d)'
    BY Zenon, <1>1, <1>2, <2>1 DEF PacketInv
  <2>3. QED
    BY Zenon, <1>1, <2>2
<1>8. (\A d \in DOMAIN cache : PacketInv(cache[d], d))'
  <2>1. \A d \in DOMAIN cache : d \in Pos /\ world \in Worlds /\ PacketInv(cache[d], d)
    BY Zenon DEF PacketsInv
  <2>2. \A d \in DOMAIN cache : PacketInv(cache[d], d)'
    BY Zenon, <1>1, <1>2, <2>1 DEF PacketInv
  <2>3. QED
    BY Zenon, <1>1, <2>2
<1>9. QED
  BY Zenon, <1>1, <1>4, <1>6, <1>7, <1>8 DEF PacketsInv

\* block_changed records a change, owes its broadcast and spoils the packets under way.
LEMMA SeenChanged ==
  ASSUME CopyInv, SeenInv, NEW w \in Worlds, NEW c \in Pos, BlockChanged(w, c)
  PROVE  SeenInv'
<1>1. ChunkTypes /\ AreaInv /\ PacketsInv /\ OwedInv /\ CopyTypes /\ LoopInv
  BY Zenon DEF SeenInv, CopyInv
<1>2. /\ UNCHANGED <<phase, at, view, area>> /\ UNCHANGED <<member, sent, client>> /\ UNCHANGED loop
      /\ UNCHANGED <<content, life, broadcast>> /\ c \in writing[w]
      /\ writing' = [writing EXCEPT ![w] = @ \ {c}]
  BY Zenon DEF BlockChanged, chunkOnly, players, clients
<1>3. broadcast # NoBroadcast => broadcast.on # w
  BY Zenon, <1>1, <1>2 DEF OwedInv
<1>4. \A v : v # w /\ writing[v] = {} => writing'[v] = {}
  BY <1>2
<1>5. CASE c \notin ticking[w]
  <2>1. UNCHANGED <<announced, revision, changed>>
    BY Zenon, <1>5 DEF BlockChanged
  <2>2. ChunkTypes'
    BY Zenon, <1>1, <1>2, <2>1 DEF ChunkTypes
  <2>3. PacketsInv'
    BY Zenon, <1>1, <1>2, <2>1, PacketsKept
  <2>4. \A p, d : UpToDate(p, d) => UpToDate(p, d)'
    BY Zenon, <1>2, <2>1 DEF UpToDate
  <2>5. \A p \in Players : phase'[p] = "in" => \A d \in sent'[p] :
          /\ client'[p][d][3] <= life'[member'[p]][d]
          /\ UpToDate(p, d)' \/ Owed(member[p], d)'
    BY Zenon, <1>1, <1>2, <2>1 DEF OwedInv, UpToDate, Owed
  <2>6. OwedInv'
    BY Zenon, <1>1, <1>2, <1>3, <1>4, <2>4, <2>5 DEF OwedInv, NoBroadcast
  <2>7. QED
    BY Zenon, <1>1, <1>2, <2>2, <2>3, <2>6, AreaKept DEF SeenInv
<1>6. CASE c \in ticking[w]
  <2>1. /\ changed' = [changed EXCEPT ![w] = changed[w] \union {c}]
        /\ revision' = [revision EXCEPT ![w][c] = revision[w][c] + 1]
        /\ announced' = [announced EXCEPT ![w][c] = content[w][c]]
    BY Zenon, <1>6 DEF BlockChanged
  <2>2. /\ announced' \in [Worlds -> [Pos -> Nat]] /\ revision' \in [Worlds -> [Pos -> Nat]]
        /\ changed' \in [Worlds -> SUBSET Pos]
        /\ announced'[w][c] = content[w][c] /\ revision'[w][c] = revision[w][c] + 1
        /\ \A v \in Worlds : \A d \in Pos : v # w \/ d # c =>
             announced'[v][d] = announced[v][d] /\ revision'[v][d] = revision[v][d]
    BY <1>1, <2>1 DEF ChunkTypes, CopyTypes
  <2>3. c \in changed'[w] /\ \A v \in Worlds : changed[v] \subseteq changed'[v]
    BY Zenon, <1>1, <2>1 DEF ChunkTypes
  <2>4. ChunkTypes'
    <3>1. \A v \in Worlds : \A d \in Pos : announced'[v][d] <= content[v][d]
      <4> SUFFICES ASSUME NEW v \in Worlds, NEW d \in Pos PROVE announced'[v][d] <= content[v][d]
        BY Zenon
      <4>1. CASE v = w /\ d = c
        <5>1. content[w][c] \in Nat
          BY Zenon, <1>1 DEF CopyTypes
        <5>2. QED
          BY <2>2, <4>1, <5>1
      <4>2. CASE v # w \/ d # c
        BY Zenon, <1>1, <2>2, <4>2 DEF ChunkTypes
      <4>3. QED
        BY Zenon, <4>1, <4>2
    <3>2. QED
      BY Zenon, <1>2, <2>2, <3>1 DEF ChunkTypes
  <2>5. PacketsInv'
    <3>1. life \in [Worlds -> [Pos -> Nat]] /\ revision \in [Worlds -> [Pos -> Nat]]
      BY Zenon, <1>1 DEF CopyTypes, ChunkTypes
    <3>2. QED
      BY Zenon, <1>1, <1>2, <2>2, <3>1, PacketsAge
  <2>6. ASSUME NEW p \in Players, phase[p] = "in", NEW d \in sent[p]
        PROVE  /\ client[p][d][3] <= life[member[p]][d]
               /\ UpToDate(p, d)' \/ Owed(member[p], d)'
    <3>1. d \in Pos /\ member[p] \in Worlds
      BY Zenon, <2>6, SentCopy
    <3>2. client[p][d][3] <= life[member[p]][d] /\ (UpToDate(p, d) \/ Owed(member[p], d))
      BY Zenon, <1>1, <2>6 DEF OwedInv
    <3>3. CASE member[p] = w /\ d = c
      BY Zenon, <1>2, <2>3, <3>2, <3>3 DEF Owed
    <3>4. CASE member[p] # w \/ d # c
      <4>1. announced'[member[p]][d] = announced[member[p]][d]
        BY Zenon, <2>2, <3>1, <3>4
      <4>2. UpToDate(p, d) => UpToDate(p, d)'
        BY Zenon, <1>2, <4>1 DEF UpToDate
      <4>3. Owed(member[p], d) => Owed(member[p], d)'
        BY Zenon, <1>2, <2>3, <3>1 DEF Owed
      <4>4. QED
        BY Zenon, <3>2, <4>2, <4>3
    <3>5. QED
      BY Zenon, <3>3, <3>4
  <2>7. ASSUME broadcast # NoBroadcast, NEW p \in Players, p \notin broadcast.to, phase[p] = "in",
               member[p] = broadcast.on, NEW d \in broadcast.pos, d \in sent[p]
        PROVE  UpToDate(p, d)'
    <3>1. UpToDate(p, d) /\ member[p] # w
      BY Zenon, <1>1, <1>3, <2>7 DEF OwedInv
    <3>2. d \in Pos /\ member[p] \in Worlds
      BY Zenon, <2>7, SentCopy
    <3>3. QED
      BY Zenon, <1>2, <2>2, <3>1, <3>2 DEF UpToDate
  <2>8. OwedInv'
    <3>1. \A p \in Players : phase'[p] = "in" => \A d \in sent'[p] :
            /\ client'[p][d][3] <= life'[member'[p]][d]
            /\ UpToDate(p, d)' \/ Owed(member[p], d)'
      BY Zenon, <1>2, <2>6
    <3>2. broadcast' # NoBroadcast =>
            /\ broadcast'.on \in Worlds /\ broadcast'.pos \subseteq Pos
            /\ writing'[broadcast'.on] = {}
            /\ \A p \in Players : p \in broadcast'.to => member'[p] = broadcast'.on
            /\ \A p \in Players \ broadcast'.to : phase'[p] = "in" /\ member'[p] = broadcast'.on =>
                 \A d \in broadcast'.pos \intersect sent'[p] : UpToDate(p, d)'
      BY Zenon, <1>1, <1>2, <1>3, <1>4, <2>7 DEF OwedInv
    <3>3. QED
      BY Zenon, <3>1, <3>2 DEF OwedInv, NoBroadcast
  <2>9. QED
    BY Zenon, <1>1, <1>2, <2>4, <2>5, <2>8, AreaKept DEF SeenInv
<1>7. QED
  BY Zenon, <1>5, <1>6

\* A readiness transition: the copies and packets of the chunk are of an earlier incarnation.
LEMMA SeenFlip ==
  ASSUME CopyInv, SeenInv, NEW w \in Worlds, NEW c \in Pos, FlipReadiness(w, c)
  PROVE  SeenInv'
<1>1. ChunkTypes /\ AreaInv /\ PacketsInv /\ OwedInv /\ CopyTypes /\ LoopInv
  BY Zenon DEF SeenInv, CopyInv
<1>2. /\ UNCHANGED <<phase, at, view, area>> /\ UNCHANGED <<member, sent, client>> /\ UNCHANGED loop
      /\ UNCHANGED <<content, revision, changed, broadcast>> /\ broadcast = NoBroadcast
      /\ life' = [life EXCEPT ![w][c] = @ + 1]
      /\ announced' = [announced EXCEPT ![w][c] = IF c \in ticking[w] THEN @ ELSE content[w][c]]
  BY Zenon DEF FlipReadiness, chunkOnly, players, clients, Between
<1>3. /\ life' \in [Worlds -> [Pos -> Nat]] /\ announced' \in [Worlds -> [Pos -> Nat]]
      /\ life'[w][c] = life[w][c] + 1
      /\ announced'[w][c] = announced[w][c] \/ announced'[w][c] = content[w][c]
      /\ \A v \in Worlds : \A d \in Pos : v # w \/ d # c =>
           life'[v][d] = life[v][d] /\ announced'[v][d] = announced[v][d]
  BY <1>1, <1>2 DEF ChunkTypes, CopyTypes
<1>4. ChunkTypes'
  <2>1. \A v \in Worlds : \A d \in Pos : announced'[v][d] <= content[v][d]
    <3> SUFFICES ASSUME NEW v \in Worlds, NEW d \in Pos PROVE announced'[v][d] <= content[v][d]
      BY Zenon
    <3>1. CASE v = w /\ d = c
      <4>1. content[w][c] \in Nat /\ announced[w][c] <= content[w][c]
        BY Zenon, <1>1 DEF CopyTypes, ChunkTypes
      <4>2. QED
        BY <1>3, <3>1, <4>1
    <3>2. CASE v # w \/ d # c
      BY Zenon, <1>1, <1>3, <3>2 DEF ChunkTypes
    <3>3. QED
      BY Zenon, <3>1, <3>2
  <2>2. QED
    BY Zenon, <1>1, <1>2, <1>3, <2>1 DEF ChunkTypes
<1>5. PacketsInv'
  <2>1. life \in [Worlds -> [Pos -> Nat]] /\ revision \in [Worlds -> [Pos -> Nat]]
    BY Zenon, <1>1 DEF CopyTypes, ChunkTypes
  <2>2. revision' \in [Worlds -> [Pos -> Nat]] /\ revision'[w][c] = revision[w][c]
    BY Zenon, <1>2, <2>1
  <2>3. \A v \in Worlds : \A d \in Pos : v # w \/ d # c =>
          life'[v][d] = life[v][d] /\ revision'[v][d] = revision[v][d]
          /\ announced'[v][d] = announced[v][d]
    BY Zenon, <1>2, <1>3
  <2>4. /\ UNCHANGED loop /\ life' \in [Worlds -> [Pos -> Nat]]
        /\ life'[w][c] = life[w][c] + 1 /\ revision'[w][c] = revision[w][c]
    BY Zenon, <1>2, <1>3, <2>2
  <2>5. QED
    BY Zenon, <1>1, <2>1, <2>2, <2>3, <2>4, PacketsAge
<1>6. ASSUME NEW p \in Players, phase[p] = "in", NEW d \in sent[p]
      PROVE  /\ client[p][d][3] <= life'[member[p]][d]
             /\ UpToDate(p, d)' \/ Owed(member[p], d)'
  <2>1. d \in Pos /\ member[p] \in Worlds /\ client[p][d][3] \in Nat
    BY Zenon, <1>6, SentCopy
  <2>2. client[p][d][3] <= life[member[p]][d] /\ (UpToDate(p, d) \/ Owed(member[p], d))
    BY Zenon, <1>1, <1>6 DEF OwedInv
  <2>3. CASE member[p] = w /\ d = c
    <3>1. life[w][c] \in Nat
      BY Zenon, <1>1 DEF CopyTypes
    <3>2. client[p][d][3] <= life'[w][c] /\ client[p][d][3] # life'[w][c]
      BY <1>3, <2>1, <2>2, <2>3, <3>1
    <3>3. QED
      BY Zenon, <1>2, <2>3, <3>2 DEF UpToDate
  <2>4. CASE member[p] # w \/ d # c
    <3>1. /\ life'[member[p]][d] = life[member[p]][d]
          /\ announced'[member[p]][d] = announced[member[p]][d]
      BY Zenon, <1>3, <2>1, <2>4
    <3>2. UpToDate(p, d) => UpToDate(p, d)'
      BY Zenon, <1>2, <3>1 DEF UpToDate
    <3>3. Owed(member[p], d) => Owed(member[p], d)'
      BY Zenon, <1>2 DEF Owed
    <3>4. QED
      BY Zenon, <2>2, <3>1, <3>2, <3>3
  <2>5. QED
    BY Zenon, <2>3, <2>4
<1>7. OwedInv'
  <2>1. \A p \in Players : phase'[p] = "in" => \A d \in sent'[p] :
          /\ client'[p][d][3] <= life'[member'[p]][d]
          /\ UpToDate(p, d)' \/ Owed(member[p], d)'
    BY Zenon, <1>2, <1>6
  <2>2. QED
    BY Zenon, <1>2, <2>1 DEF OwedInv, NoBroadcast
<1>8. QED
  BY Zenon, <1>1, <1>2, <1>4, <1>5, <1>7, AreaKept DEF SeenInv

\* A broadcast takes a holder's changes: the area map has everyone whose client has the chunk.
LEMMA SeenTake ==
  ASSUME CopyInv, SeenInv, NEW w \in Worlds, NEW c \in Pos, TakeChanges(w, c)
  PROVE  SeenInv'
<1>1. ChunkTypes /\ AreaInv /\ PacketsInv /\ OwedInv /\ CopyTypes /\ ViewInv
  BY Zenon DEF SeenInv, CopyInv
<1>2. /\ UNCHANGED <<phase, at, view, area>> /\ UNCHANGED <<member, sent, client>> /\ UNCHANGED loop
      /\ UNCHANGED <<content, announced, life, revision, writing>> /\ broadcast = NoBroadcast
      /\ writing[w] = {} /\ changed' = [changed EXCEPT ![w] = @ \ {c}]
      /\ broadcast' = [on |-> w, pos |-> {c}, to |-> PacketTrackingPlayers(w, c)]
  BY Zenon DEF TakeChanges, chunkOnly, players, clients, Between
<1>3. broadcast'.on = w /\ broadcast'.pos = {c} /\ broadcast'.to = PacketTrackingPlayers(w, c)
  BY <1>2
<1>4. changed' \in [Worlds -> SUBSET Pos] /\ \A v \in Worlds : \A d : d \in changed[v] =>
        d \in changed'[v] \/ (v = w /\ d = c)
  BY <1>1, <1>2 DEF ChunkTypes
<1>5. \A v \in Worlds : \A d : Owed(v, d) => Owed(v, d)'
  <2> SUFFICES ASSUME NEW v \in Worlds, NEW d, Owed(v, d) PROVE Owed(v, d)'
    BY Zenon
  <2>1. broadcast.on # v
    <3>1. broadcast.on = NoWorld
      BY <1>2 DEF NoBroadcast
    <3>2. QED
      BY ZenonT(90), <3>1, SendingAssumption
  <2>2. d \in changed[v]
    BY Zenon, <2>1 DEF Owed
  <2>3. QED
    BY <1>3, <1>4, <2>2 DEF Owed
<1>6. ASSUME NEW p \in Players, phase[p] = "in", member[p] = w, c \in sent[p]
      PROVE  p \in PacketTrackingPlayers(w, c)
  <2>1. phase[p] # "out"
    BY <1>6
  <2>2. c \in view[p] /\ at[p] = w
    BY Zenon, <1>1, <1>6, <2>1 DEF ViewInv
  <2>3. {p} \X view[p] \subseteq area[w]
    BY Zenon, <1>1, <2>1, <2>2 DEF AreaInv
  <2>4. <<p, c>> \in {p} \X view[p]
    BY <2>2
  <2>5. QED
    BY Zenon, <1>6, <2>3, <2>4 DEF PacketTrackingPlayers
<1>7. ChunkTypes'
  BY Zenon, <1>1, <1>2, <1>4 DEF ChunkTypes
<1>8. OwedInv'
  <2>1. ASSUME NEW p \in Players, phase[p] = "in", NEW d \in sent[p]
        PROVE  /\ client[p][d][3] <= life[member[p]][d]
               /\ UpToDate(p, d)' \/ Owed(member[p], d)'
    <3>1. client[p][d][3] <= life[member[p]][d] /\ (UpToDate(p, d) \/ Owed(member[p], d))
      BY Zenon, <1>1, <2>1 DEF OwedInv
    <3>2. member[p] \in Worlds
      BY Zenon, <2>1, SentCopy
    <3>3. UpToDate(p, d) => UpToDate(p, d)'
      BY Zenon, <1>2 DEF UpToDate
    <3>4. Owed(member[p], d) => Owed(member[p], d)'
      BY Zenon, <1>2, <1>5, <3>2 DEF Owed
    <3>5. QED
      BY Zenon, <3>1, <3>3, <3>4
  <2>2. \A p \in Players : p \in PacketTrackingPlayers(w, c) => member[p] = w
    BY Zenon DEF PacketTrackingPlayers
  <2>3. \A p \in Players \ PacketTrackingPlayers(w, c) : phase[p] = "in" /\ member[p] = w =>
          {c} \intersect sent[p] = {}
    BY Zenon, <1>6
  <2>4. \A p \in Players : phase'[p] = "in" => \A d \in sent'[p] :
          /\ client'[p][d][3] <= life'[member'[p]][d]
          /\ UpToDate(p, d)' \/ Owed(member[p], d)'
    BY Zenon, <1>2, <2>1
  <2>5. \A p \in Players \ broadcast'.to : phase'[p] = "in" /\ member'[p] = broadcast'.on =>
          \A d \in broadcast'.pos \intersect sent'[p] : UpToDate(p, d)'
    BY Zenon, <1>2, <1>3, <2>3
  <2>6. /\ broadcast'.on \in Worlds /\ broadcast'.pos \subseteq Pos
        /\ writing'[broadcast'.on] = {}
        /\ \A p \in Players : p \in broadcast'.to => member'[p] = broadcast'.on
    BY Zenon, <1>2, <1>3, <2>2
  <2>7. QED
    BY Zenon, <2>4, <2>5, <2>6 DEF OwedInv, NoBroadcast
<1>9. QED
  BY Zenon, <1>1, <1>2, <1>7, <1>8, AreaKept, PacketsKept DEF SeenInv

\* The broadcast sends the blocks as they are now, which is what was recorded or later.
LEMMA SeenSend ==
  ASSUME CopyInv, SeenInv, SendChanges
  PROVE  SeenInv'
<1>1. ChunkTypes /\ AreaInv /\ PacketsInv /\ OwedInv /\ CopyTypes
  BY Zenon DEF SeenInv, CopyInv
<1>2. /\ UNCHANGED <<phase, at, view, area>> /\ UNCHANGED <<member, sent>> /\ UNCHANGED loop
      /\ UNCHANGED <<content, announced, life, revision, changed>>
      /\ broadcast # NoBroadcast /\ broadcast' = NoBroadcast
  BY Zenon DEF SendChanges, chunkOnly, players
<1>3. ASSUME NEW p \in Players, phase[p] = "in", NEW d \in sent[p]
      PROVE  /\ client'[p][d][3] <= life[member[p]][d]
             /\ UpToDate(p, d)' \/ Owed(member[p], d)'
  <2>1. /\ d \in Pos /\ member[p] \in Worlds /\ client[p][d] \in Copies /\ client[p][d] # Nothing
        /\ client[p][d][2] \in Nat /\ client[p][d][3] \in Nat
    BY Zenon, <1>3, SentCopy
  <2>2. client[p][d][3] <= life[member[p]][d] /\ (UpToDate(p, d) \/ Owed(member[p], d))
    BY Zenon, <1>1, <1>3 DEF OwedInv
  <2>3. CASE p \in broadcast.to /\ d \in broadcast.pos
    <3>1. member[p] = broadcast.on
      BY Zenon, <1>1, <1>2, <2>3 DEF OwedInv
    <3>2. client'[p][d] = [client[p][d] EXCEPT ![2] = content[member[p]][d]]
      BY Zenon, <2>1, <2>3, <3>1 DEF SendChanges
    <3>3. client'[p][d][2] = content[member[p]][d] /\ client'[p][d][3] = client[p][d][3]
      BY <2>1, <3>2 DEF Copies
    <3>4. announced[member[p]][d] <= content[member[p]][d]
      BY Zenon, <1>1, <2>1 DEF ChunkTypes
    <3>5. announced[member[p]][d] \in Nat /\ content[member[p]][d] \in Nat
      BY Zenon, <1>1, <2>1 DEF ChunkTypes, CopyTypes
    <3>6. content[member[p]][d] >= announced[member[p]][d]
      BY <3>4, <3>5
    <3>7. UpToDate(p, d)'
      BY Zenon, <1>2, <3>3, <3>6 DEF UpToDate
    <3>8. QED
      BY Zenon, <2>2, <3>3, <3>7
  <2>4. CASE ~(p \in broadcast.to /\ d \in broadcast.pos)
    <3>1. client'[p][d] = client[p][d]
      BY Zenon, <2>1, <2>4 DEF SendChanges
    <3>2. UpToDate(p, d) => UpToDate(p, d)'
      BY Zenon, <1>2, <3>1 DEF UpToDate
    <3>3. CASE d \in changed[member[p]]
      BY Zenon, <1>2, <2>2, <3>1, <3>3 DEF Owed
    <3>4. CASE broadcast.on = member[p] /\ d \in broadcast.pos
      <4>1. UpToDate(p, d)
        BY Zenon, <1>1, <1>2, <1>3, <2>4, <3>4 DEF OwedInv
      <4>2. QED
        BY Zenon, <2>2, <3>1, <3>2, <4>1
    <3>5. QED
      BY Zenon, <2>2, <3>1, <3>2, <3>3, <3>4 DEF Owed
  <2>5. QED
    BY Zenon, <2>3, <2>4
<1>4. OwedInv'
  <2>1. \A p \in Players : phase'[p] = "in" => \A d \in sent'[p] :
          /\ client'[p][d][3] <= life'[member'[p]][d]
          /\ UpToDate(p, d)' \/ Owed(member[p], d)'
    BY Zenon, <1>2, <1>3
  <2>2. QED
    BY Zenon, <1>2, <2>1 DEF OwedInv, NoBroadcast
<1>5. ChunkTypes'
  BY Zenon, <1>1, <1>2 DEF ChunkTypes
<1>6. QED
  BY Zenon, <1>1, <1>2, <1>4, <1>5, AreaKept, PacketsKept DEF SeenInv

\* Every step keeps the invariant, for clients that leave their settings alone between worlds.
LEMMA SeenStep == CopyInv /\ SeenInv /\ ~SettingsWhileAway /\ [Next]_vars => SeenInv'
<1> SUFFICES ASSUME CopyInv, SeenInv, ~SettingsWhileAway, [Next]_vars PROVE SeenInv'
  OBVIOUS
<1>1. ASSUME UNCHANGED <<phase, at, view, area>>, UNCHANGED <<phase, member, sent, client>>,
             UNCHANGED loop, UNCHANGED chunks
      PROVE  SeenInv'
  <2>1. UNCHANGED <<life, revision, announced>>
    BY Zenon, <1>1 DEF chunks
  <2>2. QED
    BY Zenon, <1>1, <2>1, AreaKept, PacketsKept, OwedKept, ChunksKept DEF SeenInv
<1>2. ASSUME NEW p \in Players, Acknowledge(p) PROVE SeenInv'
  BY Zenon, <1>1, <1>2 DEF Acknowledge, gameOnly
<1>3. CASE UNCHANGED vars
  BY Zenon, <1>1, <1>3 DEF vars, players, clients
<1>4. CASE Loop
  BY Zenon, <1>4, SeenLoop, SeenCommit DEF Loop
<1>5. ASSUME NEW p \in Players,
             \/ \E V \in Views : (\E w \in Worlds : Enter(p, w, V)) \/ Look(p, V) \/ Respawn(p, V)
             \/ Die(p) \/ Leave(p)
      PROVE  SeenInv'
  BY Zenon, <1>5, SeenPlayer
<1>6. ASSUME NEW w \in Worlds, NEW c \in Pos,
             WriteBlock(w, c) \/ BlockChanged(w, c) \/ FlipReadiness(w, c) \/ TakeChanges(w, c)
      PROVE  SeenInv'
  BY Zenon, <1>6, SeenWrite, SeenChanged, SeenFlip, SeenTake
<1>7. CASE SendChanges
  BY Zenon, <1>7, SeenSend
<1>8. QED
  BY Zenon, <1>2, <1>3, <1>4, <1>5, <1>6, <1>7 DEF Next

\* For any players, worlds, positions and views: a client's copy of a chunk has every change the
\* holder recorded in this incarnation, or its broadcast is still to come; no change falls between
\* encode_batch and commit_batch, nor between get_packet_tracking_players and the send.  It holds
\* of clients that do not change their view distance while they are in no world: one that does
\* is missing from the area map of the world it joins.
THEOREM ChangesReachClients == ~SettingsWhileAway /\ Spec => []AnnouncedIsSeen
<1>1. CopyInv /\ SeenInv => AnnouncedIsSeen
  <2> SUFFICES ASSUME CopyInv, SeenInv, NEW p \in Players, phase[p] = "in", NEW c \in sent[p],
                      client[p][c][3] = life[member[p]][c],
                      client[p][c][2] < announced[member[p]][c]
               PROVE  Owed(member[p], c)
    BY Zenon DEF AnnouncedIsSeen
  <2>1. c \in Pos /\ member[p] \in Worlds /\ client[p][c][2] \in Nat
    BY Zenon, SentCopy
  <2>2. announced[member[p]][c] \in Nat
    BY Zenon, <2>1 DEF SeenInv, ChunkTypes
  <2>3. ~(client[p][c][2] >= announced[member[p]][c])
    BY <2>1, <2>2
  <2>4. QED
    BY Zenon, <2>3 DEF SeenInv, OwedInv, UpToDate
<1>2. ASSUME ~SettingsWhileAway PROVE CopyInv /\ SeenInv /\ [Next]_vars => SeenInv'
  BY Zenon, <1>2, SeenStep
<1>3. CASE SettingsWhileAway
  BY Zenon, <1>3
<1>4. CASE ~SettingsWhileAway
  BY CopyInit, CopyStep, SeenInit, <1>1, <1>2, <1>4, PTL DEF Spec
<1>5. QED
  BY Zenon, <1>3, <1>4

\* For any players, worlds, positions and views: the area map has every player of a world for its
\* whole tracking view, of clients that do not change their view distance while they are in no
\* world (PlayerAreaMap, update_player_status).
THEOREM AreaMapFollows == ~SettingsWhileAway /\ Spec => []AreaFollowsView
<1>1. CopyInv /\ SeenInv => AreaFollowsView
  <2> SUFFICES ASSUME CopyInv, SeenInv, NEW p \in Players, phase[p] = "in"
               PROVE  {p} \X view[p] \subseteq area[member[p]]
    BY Zenon DEF AreaFollowsView
  <2>1. phase[p] # "out"
    OBVIOUS
  <2>2. member[p] = at[p]
    BY Zenon, <2>1 DEF CopyInv, ViewInv
  <2>3. QED
    BY Zenon, <2>1, <2>2 DEF SeenInv, AreaInv
<1>2. ASSUME ~SettingsWhileAway PROVE CopyInv /\ SeenInv /\ [Next]_vars => SeenInv'
  BY Zenon, <1>2, SeenStep
<1>3. CASE SettingsWhileAway
  BY Zenon, <1>3
<1>4. CASE ~SettingsWhileAway
  BY CopyInit, CopyStep, SeenInit, <1>1, <1>2, <1>4, PTL DEF Spec
<1>5. QED
  BY Zenon, <1>3, <1>4
=============================================================================
