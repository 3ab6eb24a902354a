---------------------------- MODULE TicketLevels ----------------------------
(***************************************************************************)
(* The chunk ticket manager and the owners of its tickets                  *)
(* (chunk/chunk_ticket_manager.rs): a player's view, chunk requests and    *)
(* the timed portal and ender pearl tickets.  Owners queue additions and   *)
(* removals; the scheduling worker applies them one by one and propagates  *)
(* levels source by source; the boundary hands the list of changed levels  *)
(* to the chunk holders.                                                   *)
(*                                                                         *)
(* Lower levels are stronger.  A level lost with distance is NoLevel.  An  *)
(* operation stands for the operations of one ticket at several positions, *)
(* which owners queue in one batch and which commute.                      *)
(***************************************************************************)
EXTENDS Integers, Sequences, FiniteSets

CONSTANTS
    Positions,        \* chunk positions, pairs <<x, z>>
    EntityTicking,    \* MAX_SUPPORTED_VIEW_DISTANCE, the entity ticking level
    GenerationRadius, \* RADIUS_AROUND_FULL_CHUNK
    ViewDistances,    \* view distances the player may choose
    SimulationDistance,
    Handles,          \* chunk request handles
    RequestPositions, \* sets of positions a request may ask for
    RequestLevels,    \* levels of chunk requests, FullChunk and weaker
    PortalRadius, PearlRadius,
    PortalTimeout, PearlTimeout,
    NoLevel, NoView, NoRequest,
    MaxOperations     \* bound on the steps of ticket owners, ticks aside

BlockTicking == EntityTicking + 1

FullChunk == EntityTicking + 2

MaxLevel == FullChunk + GenerationRadius

Levels == 0 .. MaxLevel

TrackingViews == [center : Positions, distance : ViewDistances]

Requests == [positions : RequestPositions, level : RequestLevels]

ASSUME DistanceAssumption ==
    /\ Positions \subseteq Int \X Int
    /\ EntityTicking \in Nat /\ GenerationRadius \in Nat
    /\ ViewDistances \subseteq 0 .. EntityTicking /\ SimulationDistance \in Nat
    /\ RequestLevels \subseteq FullChunk .. MaxLevel
    /\ RequestPositions \subseteq SUBSET Positions
    /\ PortalRadius \in Nat /\ PearlRadius \in Nat
    /\ PortalTimeout \in Nat /\ PearlTimeout \in Nat
    /\ IsFiniteSet(Handles)

ASSUME NoneAssumption ==
    NoLevel \notin Nat /\ NoView \notin TrackingViews /\ NoRequest \notin Requests

VARIABLES
    tickets,       \* tickets[p][t]: how often the manager holds ticket t at p
    levels,        \* propagated load levels
    simulation,    \* propagated simulation levels
    dirty,         \* tickets changed since the last propagation
    changes,       \* LevelChanges of the last propagation, not yet committed
    step,          \* of the epoch: "idle", "apply", "spread", "ready"
    sources,       \* ticket sources run_all_updates has not spread yet
    oldLevels,     \* old_levels and old_simulation_levels of run_all_updates
    oldSimulation,
    queue,         \* ticket operations not yet applied
    taken,         \* how many of them the worker has taken
    timed,         \* TimedChunkTickets: ticks left, or Expired
    trackingView,  \* the player's last_tracking_view
    requests,      \* what each chunk request handle holds tickets for
    held,          \* load and simulation level stored in each active chunk holder
    unloading,     \* positions with a holder in unloading_chunks
    revivals,      \* deferred_revivals, as changes
    saved,         \* the persistent tickets file
    operations     \* steps taken by ticket owners

updates == <<levels, simulation, sources, oldLevels, oldSimulation>>
manager == <<tickets, dirty, changes, step, updates>>
chunkMap == <<held, unloading, revivals>>
ticketVars == <<manager, queue, taken, timed, trackingView, requests, chunkMap,
                saved, operations>>

-----------------------------------------------------------------------------
(* Tickets.                                                                *)

Monus(a, b) == IF a > b THEN a - b ELSE 0

Loading(level) == [load |-> level, simulation |-> NoLevel]

ForFullChunkRadius(radius) == Monus(FullChunk, radius)

ForEntityTickingRadius(radius) == Monus(EntityTicking, radius)

SimulatedFullChunks(radius) ==
    [load |-> ForFullChunkRadius(radius),
     simulation |-> ForFullChunkRadius(radius)]

PlayerTicket(viewDistance) ==
    LET radius == IF SimulationDistance > viewDistance
                  THEN viewDistance ELSE SimulationDistance
    IN  [load |-> ForEntityTickingRadius(viewDistance),
         simulation |-> ForEntityTickingRadius(radius)]

TimedKinds == {"portal", "pearl"}

TimedTicket(kind) ==
    SimulatedFullChunks(IF kind = "portal" THEN PortalRadius ELSE PearlRadius)

Timeout(kind) == IF kind = "portal" THEN PortalTimeout ELSE PearlTimeout

\* ticks_left of a ticket that is no longer in the list.
Expired == -1

\* The tickets owners use.
Tickets ==
    {PlayerTicket(d) : d \in ViewDistances}
    \cup {TimedTicket(k) : k \in TimedKinds}
    \cup {Loading(l) : l \in RequestLevels}

AddOp(P, t) == [kind |-> "add", positions |-> P, ticket |-> t]

RemoveOp(P, t) == [kind |-> "remove", positions |-> P, ticket |-> t]

-----------------------------------------------------------------------------
(* The manager.                                                            *)

AddTicket(n) == n + 1

\* remove_ticket: one matching ticket, if there is one.
RemoveTicket(n) == Monus(n, 1)

\* The tickets after an operation, from the tickets T.
ApplyOperation(T, op) ==
    [p \in Positions |-> [t \in Tickets |->
        IF p \in op.positions /\ t = op.ticket
        THEN IF op.kind = "add" THEN AddTicket(T[p][t]) ELSE RemoveTicket(T[p][t])
        ELSE T[p][t]]]

NoTickets == [p \in Positions |-> [t \in Tickets |-> 0]]

NoLevels == [p \in Positions |-> NoLevel]

\* The strongest of a set of levels.
Strongest(L) ==
    IF L \ {NoLevel} = {} THEN NoLevel
    ELSE CHOOSE l \in L \ {NoLevel} : \A m \in L \ {NoLevel} : l <= m

Distance(p, q) ==
    LET Gap(i) == Monus(p[i], q[i]) + Monus(q[i], p[i])
    IN  IF Gap(1) > Gap(2) THEN Gap(1) ELSE Gap(2)

WithDistance(level, distance) ==
    IF level + distance <= MaxLevel THEN level + distance ELSE NoLevel

\* The tickets stored for a source.
TicketsAt(s) == {t \in Tickets : tickets[s][t] > 0}

LoadLevel(s) == Strongest({t.load : t \in TicketsAt(s)})

SimulationLevel(s) == Strongest({t.simulation : t \in TicketsAt(s)})

\* Mutant: the outermost ring is left out.
SpreadShort(acc, s, level, reach) ==
    [p \in Positions |->
        IF Distance(s, p) < reach
        THEN Strongest({acc[p], WithDistance(level, Distance(s, p))})
        ELSE acc[p]]

\* What source s gives to the positions within reach.
Spread(acc, s, level, reach) ==
    [p \in Positions |->
        IF Distance(s, p) <= reach
        THEN Strongest({acc[p], WithDistance(level, Distance(s, p))})
        ELSE acc[p]]

Change(p, level, sim) == [pos |-> p, level |-> level, simulation |-> sim]

\* Mutant: a lost simulation level is not reported.
SimulationOnlyChangesAdded ==
    {Change(p, levels[p], simulation[p]) :
        p \in {q \in Positions : /\ oldLevels[q] = levels[q]
                                 /\ simulation[q] # NoLevel
                                 /\ oldSimulation[q] # simulation[q]}}

SimulationOnlyChanges ==
    {Change(p, levels[p], simulation[p]) :
        p \in {q \in Positions : /\ oldLevels[q] = levels[q]
                                 /\ oldSimulation[q] # simulation[q]}}

LevelChanges ==
    {Change(p, levels[p], IF levels[p] = NoLevel THEN NoLevel ELSE simulation[p]) :
        p \in {q \in Positions : oldLevels[q] # levels[q]}}
    \cup SimulationOnlyChanges

\* An epoch starts: the worker takes the queued operations.
TakeOperations ==
    /\ step = "idle"
    /\ step' = "apply"
    /\ taken' = Len(queue)
    /\ UNCHANGED <<tickets, dirty, changes, updates, queue, timed, trackingView,
                   requests, chunkMap, saved, operations>>

\* The loop of apply_pending_ticket_operations.
ApplyNext ==
    /\ step = "apply" /\ taken > 0
    /\ tickets' = ApplyOperation(tickets, Head(queue))
    /\ dirty' = (dirty \/ tickets' # tickets)
    /\ queue' = Tail(queue)
    /\ taken' = taken - 1
    /\ UNCHANGED <<changes, step, updates, timed, trackingView, requests, chunkMap,
                   saved, operations>>

\* process_unloads finalizes some of the unloading holders, never one that
\* the epoch's changes or a deferred revival want back.
ProcessUnloads(list) ==
    LET staged == {c.pos : c \in {d \in list \cup revivals : d.level # NoLevel}}
    IN  \E finalized \in SUBSET (unloading \ staged) : unloading' = unloading \ finalized

\* run_all_updates up to its loop over the sources; without changed tickets
\* the epoch is prepared.
BeginUpdates ==
    /\ step = "apply" /\ taken = 0
    /\ dirty' = FALSE
    /\ \/ /\ ~dirty
          /\ step' = "ready"
          /\ ProcessUnloads({})
          /\ UNCHANGED updates
       \/ /\ dirty
          /\ step' = "spread"
          /\ oldLevels' = levels /\ oldSimulation' = simulation
          /\ levels' = NoLevels /\ simulation' = NoLevels
          /\ sources' = {s \in Positions : TicketsAt(s) # {}}
          /\ UNCHANGED unloading
    /\ UNCHANGED <<tickets, changes, queue, taken, timed, trackingView, requests,
                   held, revivals, saved, operations>>

\* One source of that loop.
SpreadSource(s) ==
    LET load == LoadLevel(s)
        sim == SimulationLevel(s)
    IN  /\ step = "spread" /\ s \in sources
        /\ sources' = sources \ {s}
        /\ levels' = Spread(levels, s, load, MaxLevel - load)
        /\ simulation' = IF sim = NoLevel THEN simulation
                         ELSE Spread(simulation, s, sim, Monus(BlockTicking, sim))
        /\ UNCHANGED <<tickets, dirty, changes, step, oldLevels, oldSimulation,
                       queue, taken, timed, trackingView, requests, chunkMap, saved,
                       operations>>

\* The end of run_all_updates: the list of changes.
RecordChanges ==
    /\ step = "spread" /\ sources = {}
    /\ changes' = LevelChanges
    /\ ProcessUnloads(LevelChanges)
    /\ oldLevels' = NoLevels /\ oldSimulation' = NoLevels
    /\ step' = "ready"
    /\ UNCHANGED <<tickets, dirty, levels, simulation, sources, queue, taken,
                   timed, trackingView, requests, held, revivals, saved, operations>>

\* Mutant: the deferred revivals are drained but not merged.
MergeRevivalsDropped(list, waiting) == list

\* merge_deferred_revivals: a change replaces the revival of its position.
MergeRevivals(list, waiting) ==
    list \cup {r \in waiting : \A c \in list : c.pos # r.pos}

\* The boundary: every change reaches its holder (update_chunk_level), but a
\* holder whose save is being prepared cannot be taken back from
\* unloading_chunks; its revival is recorded for the next boundary.  Which
\* saves those are is left open.
CommitChanges ==
    LET list == MergeRevivals(changes, revivals)
        returning == {c \in list : /\ held[c.pos][1] = NoLevel /\ c.level # NoLevel
                                   /\ c.pos \in unloading}
        demoted == {c \in list : held[c.pos][1] # NoLevel /\ c.level = NoLevel}
    IN  /\ step = "ready"
        /\ \E refused \in SUBSET returning :
              /\ held' = [p \in Positions |->
                            IF \E c \in list \ refused : c.pos = p
                            THEN LET c == CHOOSE c \in list \ refused : c.pos = p
                                 IN  <<c.level, c.simulation>>
                            ELSE held[p]]
              /\ revivals' = refused
              /\ unloading' = (unloading \ {c.pos : c \in returning \ refused})
                               \cup {c.pos : c \in demoted}
        /\ changes' = {}
        /\ step' = "idle"
        /\ UNCHANGED <<tickets, dirty, updates, queue, taken, timed, trackingView,
                       requests, saved, operations>>

-----------------------------------------------------------------------------
(* The owners.                                                             *)

OwnerStep ==
    /\ operations < MaxOperations
    /\ operations' = operations + 1

Queue(ops) == queue' = queue \o ops

ViewTicket == PlayerTicket(trackingView.distance)

\* update_player_status with a new centre or view distance.
UpdatePlayerStatus(new) ==
    /\ OwnerStep
    /\ trackingView # new
    /\ Queue((IF trackingView = NoView THEN <<>>
              ELSE <<RemoveOp({trackingView.center}, ViewTicket)>>)
             \o <<AddOp({new.center}, PlayerTicket(new.distance))>>)
    /\ trackingView' = new
    /\ UNCHANGED <<manager, taken, timed, requests, chunkMap, saved>>

\* remove_player.
RemoveView ==
    /\ OwnerStep
    /\ trackingView # NoView
    /\ Queue(<<RemoveOp({trackingView.center}, ViewTicket)>>)
    /\ trackingView' = NoView
    /\ UNCHANGED <<manager, taken, timed, requests, chunkMap, saved>>

\* ChunkRequestHandle::new_with_ticket.
Request(h, r) ==
    /\ OwnerStep
    /\ requests[h] = NoRequest
    /\ requests' = [requests EXCEPT ![h] = r]
    /\ Queue(<<AddOp(r.positions, Loading(r.level))>>)
    /\ UNCHANGED <<manager, taken, timed, trackingView, chunkMap, saved>>

\* ChunkRequestHandle::release_tickets, on cancel and on drop.
ReleaseRequest(h) ==
    /\ OwnerStep
    /\ requests[h] # NoRequest
    /\ requests' = [requests EXCEPT ![h] = NoRequest]
    /\ Queue(<<RemoveOp(requests[h].positions, Loading(requests[h].level))>>)
    /\ UNCHANGED <<manager, taken, timed, trackingView, chunkMap, saved>>

\* Mutant: a refreshed ticket is added again.
PlaceTimedAgain(kind, p) ==
    /\ OwnerStep
    /\ Queue(<<AddOp({p}, TimedTicket(kind))>>)
    /\ timed' = [timed EXCEPT ![kind][p] = Timeout(kind)]
    /\ UNCHANGED <<manager, taken, trackingView, requests, chunkMap, saved>>

\* place_portal_ticket and place_ender_pearl_ticket, under the timed lock.
PlaceTimed(kind, p) ==
    /\ OwnerStep
    /\ Queue(IF timed[kind][p] = Expired
             THEN <<AddOp({p}, TimedTicket(kind))>> ELSE <<>>)
    /\ timed' = [timed EXCEPT ![kind][p] = Timeout(kind)]
    /\ UNCHANGED <<manager, taken, trackingView, requests, chunkMap, saved>>

\* tick_timed_tickets.  A ticket does not age while its holder exists and
\* is not ready for saving; which holders those are is left open.
TickTimed(busy) ==
    LET Due(kind) == {p \in Positions \ busy : timed[kind][p] = 0}
        Removals(kind) == IF Due(kind) = {} THEN <<>>
                          ELSE <<RemoveOp(Due(kind), TimedTicket(kind))>>
    IN  /\ \A p \in busy : held[p][1] # NoLevel
        /\ timed' = [kind \in TimedKinds |-> [p \in Positions |->
                        IF p \in busy \/ timed[kind][p] = Expired
                        THEN timed[kind][p] ELSE timed[kind][p] - 1]]
        /\ Queue(Removals("portal") \o Removals("pearl"))
        /\ UNCHANGED <<manager, taken, trackingView, requests, chunkMap, saved,
                       operations>>

\* to_persistent: only portal tickets are written.
ToPersistent == timed["portal"]

NothingTimed == [p \in Positions |-> Expired]

\* A new chunk map from the persistent tickets: from_persistent, activate_all.
Boot(file) ==
    /\ timed' = [kind \in TimedKinds |->
                    IF kind = "portal" THEN file ELSE NothingTimed]
    /\ tickets' = [p \in Positions |-> [t \in Tickets |->
                    IF t = TimedTicket("portal") /\ file[p] # Expired
                    THEN 1 ELSE 0]]
    /\ dirty' = (\E p \in Positions : file[p] # Expired)
    /\ levels' = NoLevels /\ simulation' = NoLevels /\ changes' = {}
    /\ step' = "idle" /\ sources' = {}
    /\ oldLevels' = NoLevels /\ oldSimulation' = NoLevels
    /\ queue' = <<>> /\ taken' = 0
    /\ trackingView' = NoView
    /\ requests' = [h \in Handles |-> NoRequest]
    /\ held' = [p \in Positions |-> <<NoLevel, NoLevel>>]
    /\ unloading' = {} /\ revivals' = {}

\* World::cleanup writes the file; the server starts again.
StopAndStart ==
    /\ OwnerStep
    /\ saved' = ToPersistent
    /\ Boot(ToPersistent)

RestartFromFile ==
    /\ OwnerStep
    /\ saved' = saved
    /\ Boot(saved)

-----------------------------------------------------------------------------
TicketInit ==
    /\ tickets = NoTickets /\ dirty = FALSE
    /\ levels = NoLevels /\ simulation = NoLevels /\ changes = {}
    /\ step = "idle" /\ sources = {}
    /\ oldLevels = NoLevels /\ oldSimulation = NoLevels
    /\ queue = <<>> /\ taken = 0
    /\ timed = [kind \in TimedKinds |-> NothingTimed]
    /\ trackingView = NoView
    /\ requests = [h \in Handles |-> NoRequest]
    /\ held = [p \in Positions |-> <<NoLevel, NoLevel>>]
    /\ unloading = {} /\ revivals = {}
    /\ saved = NothingTimed
    /\ operations = 0

TicketNext ==
    \/ TakeOperations
    \/ ApplyNext
    \/ BeginUpdates
    \/ \E s \in Positions : SpreadSource(s)
    \/ RecordChanges
    \/ CommitChanges
    \/ \E new \in TrackingViews : UpdatePlayerStatus(new)
    \/ RemoveView
    \/ \E h \in Handles, r \in Requests : Request(h, r)
    \/ \E h \in Handles : ReleaseRequest(h)
    \/ \E kind \in TimedKinds, p \in Positions : PlaceTimed(kind, p)
    \/ \E busy \in SUBSET Positions : TickTimed(busy)
    \/ StopAndStart
    \/ RestartFromFile

TicketSpec == TicketInit /\ [][TicketNext]_ticketVars

-----------------------------------------------------------------------------
(* Properties.                                                             *)

\* The variables keep their types; a level is never out of range.
TicketTypes ==
    /\ tickets \in [Positions -> [Tickets -> Nat]]
    /\ levels \in [Positions -> Levels \cup {NoLevel}]
    /\ simulation \in [Positions -> (0 .. FullChunk) \cup {NoLevel}]
    /\ dirty \in BOOLEAN
    /\ changes \subseteq [pos : Positions, level : Levels \cup {NoLevel},
                          simulation : Levels \cup {NoLevel}]
    /\ step \in {"idle", "apply", "spread", "ready"} /\ sources \subseteq Positions
    /\ queue \in Seq([kind : {"add", "remove"}, positions : SUBSET Positions,
                      ticket : Tickets])
    /\ taken \in 0 .. Len(queue)
    /\ \A kind \in TimedKinds, p \in Positions :
          timed[kind][p] \in Expired .. Timeout(kind)
    /\ trackingView \in TrackingViews \cup {NoView}
    /\ requests \in [Handles -> Requests \cup {NoRequest}]
    /\ held \in [Positions -> (Levels \cup {NoLevel}) \X (Levels \cup {NoLevel})]
    /\ unloading \subseteq Positions
    /\ revivals \subseteq [pos : Positions, level : Levels, simulation : Levels \cup {NoLevel}]
    /\ saved \in [Positions -> Expired .. PortalTimeout]

\* run_all_updates takes the strongest ticket of each source and spreads it
\* square by square, in whatever order the sources come; the result is the
\* strongest level any single ticket gives, for loading up to MAX and for
\* simulation up to BLOCK_TICKING.
StrongestTicketWins ==
    LET Reached(p, field, limit) ==
            UNION {{t[field] + Distance(s, p) : t \in
                       {k \in TicketsAt(s) :
                           /\ k[field] # NoLevel
                           /\ Distance(s, p) <= Monus(limit, k[field])}} :
                   s \in Positions}
    IN  (~dirty /\ step # "spread") =>
            \A p \in Positions :
                /\ levels[p] = Strongest(Reached(p, "load", MaxLevel))
                /\ simulation[p] = Strongest(Reached(p, "simulation", BlockTicking))

\* The holder of p has these levels or, where a boundary could not take it
\* back, is still in unloading_chunks with a revival that carries them.
Follows(p, load, sim) ==
    IF \E r \in revivals : r.pos = p
    THEN /\ held[p] = <<NoLevel, NoLevel>> /\ p \in unloading
         /\ \A r \in revivals : r.pos = p => r = Change(p, load, sim)
    ELSE held[p] = <<load, sim>>

\* The change list of a propagation is complete: once it is committed every
\* holder has exactly the manager's load and simulation level, also where
\* only the simulation level changed, except where the holder could not be
\* taken back from unloading_chunks.  Such a holder is still there and its
\* revival carries the manager's current levels, not those of an earlier
\* boundary that deferred it.  The list has at most one entry for a position,
\* so the order in which update_chunk_level sees them is irrelevant.
\* Simulation is never stronger than loading and never reaches beyond it, so
\* a simulation-only change never carries the missing load level that
\* update_chunk_level reads as an unload.
HoldersFollowManager ==
    /\ TicketTypes
    /\ step \in {"idle", "apply"} =>
          \A p \in Positions : Follows(p, levels[p], simulation[p])
    /\ \A c, d \in changes : c.pos = d.pos => c = d
    /\ \A p \in Positions :
          simulation[p] # NoLevel => levels[p] # NoLevel /\ levels[p] <= simulation[p]

One(condition) == IF condition THEN 1 ELSE 0

\* How often its owners still want ticket t at p: the view, the timed tickets
\* and the requests.
OwedCount(p, t) ==
    One(trackingView # NoView /\ trackingView.center = p /\ ViewTicket = t)
    + One(timed["portal"][p] # Expired /\ TimedTicket("portal") = t)
    + One(timed["pearl"][p] # Expired /\ TimedTicket("pearl") = t)
    + Cardinality({h \in Handles : /\ requests[h] # NoRequest
                                   /\ p \in requests[h].positions
                                   /\ Loading(requests[h].level) = t})

\* Once the queue is applied the manager holds exactly the tickets of its
\* owners: moves of a player, refreshed, expired and restored timed tickets
\* and dropped requests neither leak a ticket nor take another owner's.
TicketsBalance ==
    queue = <<>> => \A p \in Positions, t \in Tickets : tickets[p][t] = OwedCount(p, t)

\* p is loaded at the level or a stronger one, or its holder waits in
\* unloading_chunks and the next boundary tries to give it such a level.
LoadedAt(p, level) ==
    \/ held[p][1] # NoLevel /\ held[p][1] <= level
    \/ p \in unloading /\ \E r \in revivals : r.pos = p /\ r.level <= level

\* A player's ticket gives Vanilla's moat: with everything committed, chunks
\* tick entities through the view distance, blocks one chunk farther, and
\* are full one chunk beyond that.  Only a chunk that is being saved for
\* unloading may be missing, and then its revival at that level is pending.
PlayerAreaLoaded ==
    (trackingView # NoView /\ queue = <<>> /\ ~dirty /\ step = "idle") =>
        \A p \in Positions :
            LET d == Distance(trackingView.center, p)
                distance == trackingView.distance
            IN  /\ d <= distance => LoadedAt(p, EntityTicking)
                /\ d <= distance + 1 => LoadedAt(p, BlockTicking)
                /\ d <= distance + 2 => LoadedAt(p, FullChunk)
=============================================================================
