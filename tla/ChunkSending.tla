---------------------------- MODULE ChunkSending ----------------------------
(***************************************************************************)
(* How chunks reach the clients.  Each player has a `ChunkSender` with the *)
(* chunks of the tracking view that are still pending and the ones already *)
(* sent.  A loop of its own (`tick_chunk_sending`) serves every player of  *)
(* every world in three phases: it picks ready pending chunks under the    *)
(* sender's lock, encodes them under no lock at all, and commits the batch *)
(* under the view and sender locks if it is still good.  Meanwhile the     *)
(* game moves players, takes them out of worlds, changes blocks and        *)
(* broadcasts the changes to the players whose client has the chunk.       *)
(*                                                                         *)
(* Packet handlers and world ticks exclude each other (PacketProcessor),   *)
(* so no player moves and no block changes while a world broadcasts; the   *)
(* sending loop runs beside all of them.                                   *)
(*                                                                         *)
(* A chunk's content is a version number.  An incarnation number stands    *)
(* for the pair of the holder's identity and its readiness generation.     *)
(* The float quota of a batch is abstracted to its effect: a batch is some *)
(* non-empty set of ready pending chunks.  Light packets and the entity    *)
(* tracker are left out.                                                   *)
(***************************************************************************)
EXTENDS Naturals, FiniteSets

CONSTANTS Players, Worlds, Pos, NoWorld, NoPlayer,
          DefaultWorld,       \* the world a new player points at
          Views,              \* the tracking views a position may give
          MaxUnacknowledged,  \* MAX_UNACKNOWLEDGED_BATCHES
          SettingsWhileAway,  \* may a client change its view distance while in no world
          Movers,             \* bound: the others join the default world and stay
          Unsettled,          \* bound: the chunks <<world, position>> that change
          MaxMoves,           \* bound: view changes and departures
          MaxWrites,          \* bound: block changes
          MaxFlips            \* bound: readiness transitions

ASSUME SendingAssumption ==
  /\ MaxUnacknowledged \in Nat \ {0}
  /\ DefaultWorld \in Worlds /\ NoWorld \notin Worlds /\ NoPlayer \notin Players
  /\ Views \subseteq SUBSET Pos

VARIABLES
  \* per player
  phase,      \* "in" a world | "dead" in it | "out" of every world
  at,         \* get_world(): the world the player was last put in
  member,     \* the world whose `players` holds the player
  view,       \* last_tracking_view: a set of positions, {} when None
  pending,    \* ChunkSender::pending_chunks
  sent,       \* ChunkSender::sent_chunks
  unack,      \* ChunkSender::unacknowledged_batches
  window,     \* ChunkSender::max_unacknowledged_batches
  epoch,      \* chunk_send_epoch
  client,     \* the client's copies: position -> <<world, version, incarnation
              \* it was sent in>> or Nothing
  inflight,   \* batches the client has not acknowledged
  \* per world
  area,       \* PlayerAreaMap: pairs <<player, position>>
  content,    \* version of the chunk's blocks
  announced,  \* version at the last change the holder recorded, or at the
              \* start of its block ticking
  ticking,    \* the positions whose holder is block ticking
  life,       \* incarnation of the holder
  revision,   \* packet_content_revision
  writing,    \* blocks written, `block_changed` not yet called
  changed,    \* holders queued for broadcast
  broadcast,  \* the broadcast under way
  \* the sending loop
  worldsLeft, playersLeft, world, player, batch, stamp, encoding, encoded, cache,
  \* bounds
  moves, writes, flips

players == <<phase, at, member, view, pending, sent, unack, window, epoch>>
clients == <<client, inflight>>
chunks == <<content, announced, ticking, life, revision, writing, changed, broadcast>>
loop == <<worldsLeft, playersLeft, world, player, batch, stamp, encoding, encoded, cache>>
bounds == <<moves, writes, flips>>
vars == <<players, clients, area, chunks, loop, bounds>>

Nothing == <<>>
NoBroadcast == [on |-> NoWorld, pos |-> {}, to |-> {}]
Empty == [c \in {} |-> 0]

Init ==
  /\ phase = [p \in Players |-> "out"]
  /\ at = [p \in Players |-> DefaultWorld]
  /\ member = [p \in Players |-> NoWorld]
  /\ view = [p \in Players |-> {}]
  /\ pending = [p \in Players |-> {}]
  /\ sent = [p \in Players |-> {}]
  /\ unack = [p \in Players |-> 0]
  /\ window = [p \in Players |-> 1]
  /\ epoch = [p \in Players |-> 0]
  /\ client = [p \in Players |-> [c \in Pos |-> Nothing]]
  /\ inflight = [p \in Players |-> 0]
  /\ area = [w \in Worlds |-> {}]
  /\ content = [w \in Worlds |-> [c \in Pos |-> 0]]
  /\ announced = content
  /\ ticking = [w \in Worlds |-> Pos]
  /\ life = content
  /\ revision = content
  /\ writing = [w \in Worlds |-> {}]
  /\ changed = [w \in Worlds |-> {}]
  /\ broadcast = NoBroadcast
  /\ worldsLeft = {} /\ playersLeft = {} /\ world = NoWorld /\ player = NoPlayer
  /\ batch = Empty /\ stamp = 0 /\ encoding = Empty /\ encoded = Empty /\ cache = Empty
  /\ moves = 0 /\ writes = 0 /\ flips = 0

-----------------------------------------------------------------------------
(* Players and their views, on the game thread and the packet workers.     *)

\* No world is broadcasting: packet handlers and the game thread's jobs may run.
Between == broadcast = NoBroadcast

Move(p) == p \in Movers /\ moves < MaxMoves /\ moves' = moves + 1 /\ UNCHANGED <<writes, flips>>

gameOnly == UNCHANGED <<chunks, loop>>

\* `ChunkMap::remove_player`: a new epoch, a fresh sender and no view, under the
\* view and sender locks.  (The ticket goes with the view.)
RemovePlayer(p) ==
  /\ epoch' = [epoch EXCEPT ![p] = @ + 1]
  /\ view' = [view EXCEPT ![p] = {}]
  /\ pending' = [pending EXCEPT ![p] = {}]
  /\ sent' = [sent EXCEPT ![p] = {}]
  /\ unack' = [unack EXCEPT ![p] = 0]
  /\ window' = [window EXCEPT ![p] = 1]

\* `update_player_status` in the world w, for a client that has the chunks of
\* `had`: the first view is pending as a whole and joins the area map; a later
\* one is applied as a difference to the sender, the client and the area map.
UpdateStatus(p, w, V, had) ==
  LET added   == V \ view[p]
      removed == view[p] \ V
  IN /\ view' = [view EXCEPT ![p] = V]
     /\ pending' = [pending EXCEPT ![p] = (@ \union added) \ removed]
     /\ sent' = [sent EXCEPT ![p] = @ \ (added \union removed)]
     /\ client' = [client EXCEPT ![p] = [c \in Pos |->
          IF c \in removed \intersect sent[p] THEN Nothing ELSE had[c]]]
     /\ area' = [area EXCEPT ![w] = (@ \ ({p} \X removed)) \union ({p} \X added)]
     /\ UNCHANGED <<unack, window, epoch, inflight>>

\* `remove_player` (a fresh sender), CRespawn or CLogin (the client drops every
\* chunk) and a first view.  The loop finds no view until the last of these, so
\* it cannot tell them apart.
StartAfresh(p, V) ==
  /\ epoch' = [epoch EXCEPT ![p] = @ + 1]
  /\ view' = [view EXCEPT ![p] = V]
  /\ pending' = [pending EXCEPT ![p] = V]
  /\ sent' = [sent EXCEPT ![p] = {}]
  /\ unack' = [unack EXCEPT ![p] = 0]
  /\ window' = [window EXCEPT ![p] = 1]
  /\ client' = [client EXCEPT ![p] = [c \in Pos |-> Nothing]]
  /\ UNCHANGED inflight

\* The player is put in a world: `reset_inner_after` and `add_player`.  Only a
\* player that joins the world it points at is taken out of chunk tracking
\* first; any other was when it left.
Enter(p, w, V) ==
  /\ Between /\ phase[p] = "out" /\ (p \in Movers \/ w = DefaultWorld)
  /\ phase' = [phase EXCEPT ![p] = "in"]
  /\ at' = [at EXCEPT ![p] = w]
  /\ member' = [member EXCEPT ![p] = w]
  /\ IF w = at[p]
       THEN /\ StartAfresh(p, V)
            /\ area' = [area EXCEPT ![w] = @ \union ({p} \X V)]
       ELSE UpdateStatus(p, w, V, [c \in Pos |-> Nothing])
  /\ UNCHANGED bounds /\ gameOnly

\* An accepted movement or a new view distance.  The view distance is not
\* guarded: a dead player may change it, and so may one that is in no world
\* (before joining, or during the End credits).
Look(p, V) ==
  /\ Between /\ view[p] # V
  /\ \/ phase[p] \in {"in", "dead"}
     \/ phase[p] = "out" /\ SettingsWhileAway
  /\ Move(p)
  /\ UpdateStatus(p, at[p], V, client[p])
  /\ UNCHANGED <<phase, at, member>> /\ gameOnly

\* `tick_death`: the body is removed, the player stays in the world's list.
Die(p) ==
  /\ Between /\ phase[p] = "in"
  /\ Move(p)
  /\ RemovePlayer(p)
  /\ phase' = [phase EXCEPT ![p] = "dead"]
  /\ area' = [area EXCEPT ![at[p]] = @ \ ({p} \X Pos)]
  /\ UNCHANGED <<at, member, clients>> /\ gameOnly

\* A respawn in the same world: out of chunk tracking, CRespawn, out of the
\* area map, and in again with a first view.
Respawn(p, V) ==
  /\ Between /\ phase[p] = "dead"
  /\ phase' = [phase EXCEPT ![p] = "in"]
  /\ StartAfresh(p, V)
  /\ area' = [area EXCEPT ![at[p]] = (@ \ ({p} \X Pos)) \union ({p} \X V)]
  /\ UNCHANGED <<at, member, bounds>> /\ gameOnly

\* Out of the world: `take_player_for_removal` (chunk tracking first, then the
\* world's list) and `on_player_leave` of the area map.
Leave(p) ==
  /\ Between /\ phase[p] \in {"in", "dead"}
  /\ Move(p)
  /\ RemovePlayer(p)
  /\ phase' = [phase EXCEPT ![p] = "out"]
  /\ member' = [member EXCEPT ![p] = NoWorld]
  /\ area' = [area EXCEPT ![at[p]] = @ \ ({p} \X Pos)]
  /\ UNCHANGED <<at, clients>> /\ gameOnly

\* The client acknowledges a batch, `on_chunk_batch_received_by_client`.  A late
\* acknowledgement may belong to a sender that is gone.
Acknowledge(p) ==
  /\ inflight[p] > 0
  /\ inflight' = [inflight EXCEPT ![p] = @ - 1]
  /\ unack' = [unack EXCEPT ![p] = IF @ = 0 THEN 0 ELSE @ - 1]
  /\ window' = [window EXCEPT ![p] = IF unack[p] = 0 THEN @ ELSE MaxUnacknowledged]
  /\ UNCHANGED <<phase, at, member, view, pending, sent, epoch, client, area, bounds>>
  /\ gameOnly

-----------------------------------------------------------------------------
(* Block changes and their broadcast.                                      *)

chunkOnly == UNCHANGED <<players, area, loop>>

\* `set_block` has stored the new state; the holder is told next.
WriteBlock(w, c) ==
  /\ Between /\ <<w, c>> \in Unsettled /\ c \notin writing[w]
  /\ writes < MaxWrites /\ writes' = writes + 1
  /\ content' = [content EXCEPT ![w][c] = @ + 1]
  /\ writing' = [writing EXCEPT ![w] = @ \union {c}]
  /\ UNCHANGED <<announced, ticking, life, revision, changed, broadcast, clients,
                 moves, flips>>
  /\ chunkOnly

\* `block_changed`: a holder that is not block ticking records nothing.
BlockChanged(w, c) ==
  /\ c \in writing[w]
  /\ writing' = [writing EXCEPT ![w] = @ \ {c}]
  /\ IF c \in ticking[w]
       THEN /\ changed' = [changed EXCEPT ![w] = @ \union {c}]
            /\ revision' = [revision EXCEPT ![w][c] = @ + 1]
            /\ announced' = [announced EXCEPT ![w][c] = content[w][c]]
       ELSE UNCHANGED <<changed, revision, announced>>
  /\ UNCHANGED <<content, ticking, life, broadcast, clients, bounds>>
  /\ chunkOnly

\* A committed epoch starts or stops the block ticking of a chunk: another
\* readiness generation, or another holder.
FlipReadiness(w, c) ==
  /\ Between /\ <<w, c>> \in Unsettled
  /\ flips < MaxFlips /\ flips' = flips + 1
  /\ life' = [life EXCEPT ![w][c] = @ + 1]
  /\ ticking' = [ticking EXCEPT ![w] =
       IF c \in @ THEN @ \ {c} ELSE @ \union {c}]
  /\ announced' = [announced EXCEPT ![w][c] =
       IF c \in ticking[w] THEN @ ELSE content[w][c]]
  /\ UNCHANGED <<content, revision, writing, changed, broadcast, clients,
                 moves, writes>>
  /\ chunkOnly

\* `get_packet_tracking_players`.
PacketTrackingPlayers(w, c) ==
  {p \in Players : <<p, c>> \in area[w] /\ member[p] = w /\ c \in sent[p]}

\* `broadcast_changed_chunks` takes the changes of one holder and looks for the
\* players that have the chunk.
TakeChanges(w, c) ==
  /\ Between /\ writing[w] = {} /\ c \in changed[w]
  /\ changed' = [changed EXCEPT ![w] = @ \ {c}]
  /\ broadcast' = [on |-> w, pos |-> {c}, to |-> PacketTrackingPlayers(w, c)]
  /\ UNCHANGED <<content, announced, ticking, life, revision, writing, clients, bounds>>
  /\ chunkOnly

\* ... and sends each of them the block as it is now.
SendChanges ==
  /\ broadcast # NoBroadcast
  /\ client' = [p \in Players |-> [c \in Pos |->
       IF p \in broadcast.to /\ c \in broadcast.pos /\ client[p][c] # Nothing
         THEN [client[p][c] EXCEPT ![2] = content[broadcast.on][c]]
         ELSE client[p][c]]]
  /\ broadcast' = NoBroadcast
  /\ UNCHANGED <<content, announced, ticking, life, revision, writing, changed,
                 inflight, bounds>>
  /\ chunkOnly

-----------------------------------------------------------------------------
(* The chunk-sending loop.                                                 *)

loopOnly == UNCHANGED <<area, chunks, bounds>>

PlayersOf(w) == {p \in Players : member[p] = w}

\* `tick_chunk_sending`: every world in turn, each with a fresh encode cache
\* and the players it lists at that moment.  (One without players is done.)
NextWorld ==
  /\ player = NoPlayer /\ playersLeft \intersect PlayersOf(world) = {}
  /\ LET occupied == {w \in Worlds : PlayersOf(w) # {}}
         left     == IF worldsLeft \intersect occupied = {} THEN occupied
                     ELSE worldsLeft \intersect occupied
     IN \E w \in left :
          /\ worldsLeft' = left \ {w}
          /\ world' = w
          /\ playersLeft' = PlayersOf(w)
  /\ cache' = Empty
  /\ UNCHANGED <<player, batch, stamp, encoding, encoded, players, clients>>
  /\ loopOnly

\* `iter_players` looks the next player up; one that has left is skipped.
NextPlayer ==
  /\ player = NoPlayer
  /\ \E p \in playersLeft \intersect PlayersOf(world) :
       playersLeft' = playersLeft \ {p} /\ player' = p
  /\ UNCHANGED <<worldsLeft, world, batch, stamp, encoding, encoded, cache, players,
                 clients>>
  /\ loopOnly

\* `collect_candidates`: pending chunks this world has, full and block ticking.
Candidates(p) == pending[p] \intersect ticking[world]

\* `prepare_batch`.
MayPrepare(p) == unack[p] < window[p] /\ Candidates(p) # {}

Prepare ==
  /\ player # NoPlayer /\ batch = Empty
  /\ IF MayPrepare(player)
       THEN /\ \E chosen \in SUBSET Candidates(player) \ {{}} :
                 batch' = [c \in chosen |-> life[world][c]]
            /\ stamp' = epoch[player]
            /\ UNCHANGED player
       ELSE player' = NoPlayer /\ UNCHANGED <<batch, stamp>>
  /\ UNCHANGED <<worldsLeft, playersLeft, world, encoding, encoded, cache, players,
                 clients>>
  /\ loopOnly

\* The readiness the chunk was prepared with is still the holder's.
StillReady(c) == c \in ticking[world] /\ life[world][c] = batch[c]

\* Mutant: the content revision is not compared.
IsCurrentForReadiness(e, c) == e.life = batch[c] /\ StillReady(c)

\* `EncodedChunk::is_current_for`.
IsCurrentFor(e, c) ==
  /\ e.life = batch[c]
  /\ StillReady(c)
  /\ revision[world][c] = e.revision

\* The encoding of one chunk ends with no packet.
NoPacket == [life |-> 0, revision |-> 0, world |-> NoWorld, version |-> 0]

Encoded(c, e) == encoded' = [d \in DOMAIN encoded \union {c} |->
                               IF d = c THEN e ELSE encoded[d]]

\* `encode_batch` for one chunk: from the cache if that is current, not at all
\* if the readiness has changed, else the revision is read and the data extracted.
\* (A change announced between these two makes FinishEncoding refuse the packet,
\* one not yet announced is as if it came before both.)
StartEncoding(c) ==
  /\ c \in DOMAIN batch \ (DOMAIN encoding \union DOMAIN encoded)
  /\ \/ /\ c \in DOMAIN cache /\ IsCurrentFor(cache[c], c)
        /\ Encoded(c, cache[c]) /\ UNCHANGED encoding
     \/ /\ ~(c \in DOMAIN cache /\ IsCurrentFor(cache[c], c)) /\ ~StillReady(c)
        /\ Encoded(c, NoPacket) /\ UNCHANGED encoding
     \/ /\ ~(c \in DOMAIN cache /\ IsCurrentFor(cache[c], c)) /\ StillReady(c)
        /\ encoding' = [d \in DOMAIN encoding \union {c} |->
             IF d = c THEN [life |-> batch[c], revision |-> revision[world][c],
                           world |-> world, version |-> content[world][c]]
                      ELSE encoding[d]]
        /\ UNCHANGED encoded
  /\ UNCHANGED <<worldsLeft, playersLeft, world, player, batch, stamp, cache, players,
                 clients>>
  /\ loopOnly

\* The packet counts only if revision and readiness are what they were.
FinishEncoding(c) ==
  /\ c \in DOMAIN encoding
  /\ encoding' = [d \in DOMAIN encoding \ {c} |-> encoding[d]]
  /\ Encoded(c, IF revision[world][c] = encoding[c].revision /\ StillReady(c)
                  THEN encoding[c] ELSE NoPacket)
  /\ UNCHANGED <<worldsLeft, playersLeft, world, player, batch, stamp, cache, players,
                 clients>>
  /\ loopOnly

\* Mutant: the player's membership of the world is not checked again.
MayCommitAnywhere(p) == view[p] # {} /\ epoch[p] = stamp

\* `contains_player`, under the view lock, and the epoch.
MayCommit(p) == view[p] # {} /\ member[p] = world /\ epoch[p] = stamp

\* `commit_batch`: the encoded chunks that are still pending and current.
Valid(p) ==
  {c \in DOMAIN encoded : /\ encoded[c] # NoPacket
                          /\ c \in pending[p]
                          /\ IsCurrentFor(encoded[c], c)}

\* Mutant: a batch counts as unacknowledged before its chunks are checked.
CommitCountsEveryBatch ==
  /\ batch # Empty /\ DOMAIN encoded = DOMAIN batch
  /\ LET p     == player
         valid == IF MayCommit(p) THEN Valid(p) ELSE {}
     IN /\ pending' = [pending EXCEPT ![p] = @ \ valid]
        /\ sent' = [sent EXCEPT ![p] = @ \union valid]
        /\ unack' = [unack EXCEPT ![p] = IF MayCommit(p) THEN @ + 1 ELSE @]
        /\ inflight' = [inflight EXCEPT ![p] = IF valid = {} THEN @ ELSE @ + 1]
        /\ client' = [client EXCEPT ![p] = [c \in Pos |->
             IF c \in valid
               THEN <<encoded[c].world, encoded[c].version, life[world][c]>>
               ELSE @[c]]]
  /\ cache' = cache
  /\ player' = NoPlayer /\ batch' = Empty /\ encoded' = Empty /\ stamp' = 0
  /\ UNCHANGED <<worldsLeft, playersLeft, world, encoding, phase, at, member, view,
                 window, epoch>>
  /\ loopOnly

\* Every chunk is encoded: the cache is filled, and the batch is sent or dropped.
Commit ==
  /\ batch # Empty /\ DOMAIN encoded = DOMAIN batch
  /\ LET p     == player
         valid == IF MayCommit(p) THEN Valid(p) ELSE {}
     IN /\ pending' = [pending EXCEPT ![p] = @ \ valid]
        /\ sent' = [sent EXCEPT ![p] = @ \union valid]
        /\ unack' = [unack EXCEPT ![p] = IF valid = {} THEN @ ELSE @ + 1]
        /\ inflight' = [inflight EXCEPT ![p] = IF valid = {} THEN @ ELSE @ + 1]
        /\ client' = [client EXCEPT ![p] = [c \in Pos |->
             IF c \in valid
               THEN <<encoded[c].world, encoded[c].version, life[world][c]>>
               ELSE @[c]]]
  /\ LET made == {c \in DOMAIN encoded : encoded[c] # NoPacket}
     IN cache' = [c \in DOMAIN cache \union made |->
                    IF c \in made THEN encoded[c] ELSE cache[c]]
  /\ player' = NoPlayer /\ batch' = Empty /\ encoded' = Empty /\ stamp' = 0
  /\ UNCHANGED <<worldsLeft, playersLeft, world, encoding, phase, at, member, view,
                 window, epoch>>
  /\ loopOnly

-----------------------------------------------------------------------------
Loop ==
  \/ NextWorld
  \/ NextPlayer
  \/ Prepare
  \/ \E c \in Pos : StartEncoding(c) \/ FinishEncoding(c)
  \/ Commit

Next ==
  \/ Loop
  \/ \E p \in Players :
       \/ \E V \in Views : (\E w \in Worlds : Enter(p, w, V)) \/ Look(p, V) \/ Respawn(p, V)
       \/ Die(p) \/ Leave(p) \/ Acknowledge(p)
  \/ \E w \in Worlds, c \in Pos :
       WriteBlock(w, c) \/ BlockChanged(w, c) \/ FlipReadiness(w, c) \/ TakeChanges(w, c)
  \/ SendChanges

Spec == Init /\ [][Next]_vars

-----------------------------------------------------------------------------
\* A change of w's chunk c that the holder recorded has still to be broadcast.
Owed(w, c) == c \in changed[w] \/ (broadcast.on = w /\ c \in broadcast.pos)

(***************************************************************************)
(* A client's copy of a chunk is never behind what the holder recorded,    *)
(* unless the broadcast that brings it up to date is still to come: no     *)
(* change falls between the encoding of a chunk packet (`encode_batch`)    *)
(* and the moment the sender counts the chunk as sent (`commit_batch`).    *)
(***************************************************************************)
AnnouncedIsSeen ==
  \A p \in Players : phase[p] = "in" =>
    \A c \in sent[p] :
      LET w == member[p]
      IN /\ client[p][c][3] = life[w][c]
         /\ client[p][c][2] < announced[w][c]
         => Owed(w, c)

(***************************************************************************)
(* In a world, the client holds exactly the chunks its sender counts as    *)
(* sent, all of that world; with the pending ones they make up the         *)
(* tracking view.  A batch that was prepared before a move, a respawn or a *)
(* world change leaves nothing behind (`send_chunks_for_player`).          *)
(***************************************************************************)
ClientHoldsSent ==
  \A p \in Players : phase[p] = "in" =>
    /\ {c \in Pos : client[p][c] # Nothing} = sent[p]
    /\ \A c \in sent[p] : client[p][c][1] = member[p]
    /\ pending[p] \intersect sent[p] = {}
    /\ pending[p] \union sent[p] = view[p]

(***************************************************************************)
(* Every batch a sender counts as unacknowledged is one its client has     *)
(* still to answer, and once all are answered the window is open: a        *)
(* dropped batch, a detached sender or a late acknowledgement never stops  *)
(* the sending of chunks for good (`prepare_batch`,                        *)
(* `on_chunk_batch_received_by_client`).                                   *)
(***************************************************************************)
WindowReopens ==
  \A p \in Players : unack[p] <= inflight[p] /\ unack[p] <= window[p] /\ window[p] > 0

(***************************************************************************)
(* What PlayerAreaMap says of itself: a chunk maps to the players whose    *)
(* tracking area includes it.                                              *)
(***************************************************************************)
AreaFollowsView ==
  \A p \in Players : phase[p] = "in" => {p} \X view[p] \subseteq area[member[p]]
=============================================================================
