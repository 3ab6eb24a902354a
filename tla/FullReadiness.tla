--------------------------- MODULE FullReadiness ---------------------------
(***************************************************************************)
(* Ticking readiness: which Full chunks may tick blocks and entities       *)
(* (chunk/full_chunk_readiness.rs, chunk_map/generation_readiness.rs).     *)
(* A chunk is ready when every chunk of a square around it is Full.  The   *)
(* map counts Full contributors per centre, updates the counts at every    *)
(* boundary from level changes and from the publications that generation   *)
(* threads queue, and keeps a snapshot of the chunks that tick.            *)
(*                                                                         *)
(* Positions outside Chunks are Full for the whole behaviour, so the       *)
(* counts only range over the modelled part of each square.                *)
(***************************************************************************)
EXTENDS Integers, FiniteSets

CONSTANTS
    Chunks,
    Near(_, _),  \* Near(r, p): positions of the square of radius r around p
    MaxHolders   \* bound on the holders created for one position

ASSUME NearAssumption ==
    \A p, q \in Chunks, r \in {1, 2} :
        /\ p \in Near(r, p) /\ Near(r, p) \subseteq Chunks
        /\ IsFiniteSet(Near(r, p)) /\ Near(1, p) \subseteq Near(2, p)
        /\ p \in Near(r, q) <=> q \in Near(r, p)

ASSUME BoundAssumption == MaxHolders \in Nat \ {0}

(* Load levels by what they permit: none, a dependency of generation, a    *)
(* full chunk, block ticking, entity ticking.  Simulation levels likewise. *)
Unloaded == 0
Loaded == 1
Full == 2
BlockTicking == 3
EntityTicking == 4

LoadLevels == Unloaded .. EntityTicking

SimulationLevels == {Unloaded, BlockTicking, EntityTicking}

\* What the ticket manager may ask for a position: simulation never exceeds
\* loading (HoldersFollowManager of TicketLevels).
Wants == {w \in [load : LoadLevels, sim : SimulationLevels] : w.sim <= w.load}

\* Readiness, ordered.
Unready == 0
BlockReady == 1
EntityReady == 2

\* How far a holder's Full chunk has been announced by the thread that made
\* it: not Full, status published, initialized, publication queued.
Unmade == 0
Published == 1
Initialized == 2
Announced == 3

VARIABLES
    wanted,       \* level and simulation level of the ticket manager
    holder,       \* the holder in `chunks` or `unloading_chunks`
    contributors, \* FullNeighborhoodIndex: the holder counted per position
    counts,       \* counts[r][p]: contributors within radius r of p
    dirtyCenters,
    pendingReadiness, \* holder whose save is held back until it is ready
    publications, \* FullPublicationQueue
    snapshot,     \* ticking_chunks
    deferred,     \* deferred_revivals
    phase,        \* step of commit_scheduling_epoch, or "idle"
    changed,      \* changed_positions of the commit
    todo,         \* positions the current loop of the commit has left
    drained,      \* publications taken by this commit
    rebuild,      \* rebuild_ticking_snapshot
    failed        \* a FullNeighborhoodError was returned

index == <<contributors, counts, dirtyCenters>>
commit == <<phase, changed, todo, drained, rebuild>>
readinessVars == <<wanted, holder, index, pendingReadiness, publications,
                   snapshot, deferred, commit, failed>>

NoHolder == [id |-> 0, place |-> "none", load |-> Unloaded, sim |-> Unloaded,
             made |-> Unmade, ready |-> Unready, live |-> FALSE]

Active(p) == holder[p].place = "active"

-----------------------------------------------------------------------------
(* FullNeighborhoodIndex, as a record with its error.                      *)

Index == [contributors |-> contributors, counts |-> counts,
          dirty |-> dirtyCenters, failed |-> failed]

\* adjust_counts for both radii, after validate_increment/_decrement.
Adjusted(x, p, id, by) ==
    LET Counts(r) == [q \in Chunks |->
                        IF q \in Near(r, p) THEN x.counts[r][q] + by ELSE x.counts[r][q]]
    IN  IF \E r \in {1, 2} : \E q \in Near(r, p) :
              Counts(r)[q] \notin 0 .. Cardinality(Near(r, q))
        THEN [x EXCEPT !.failed = TRUE]
        ELSE [contributors |-> [x.contributors EXCEPT ![p] = id],
              counts |-> [r \in {1, 2} |-> Counts(r)],
              dirty |-> x.dirty \cup Near(1, p) \cup Near(2, p),
              failed |-> x.failed]

AddContributor(x, p, id) == Adjusted(x, p, id, 1)

RemoveContributor(x, p) == Adjusted(x, p, 0, -1)

\* Mutant: a replaced contributor is not subtracted.
ReconcileContributorAdds(x, p, id) ==
    IF id = 0 THEN x ELSE AddContributor(x, p, id)

ReconcileContributor(x, p, id) ==
    IF x.contributors[p] = id THEN x
    ELSE LET cleared == IF x.contributors[p] # 0 THEN RemoveContributor(x, p) ELSE x
         IN  IF id = 0 THEN cleared ELSE AddContributor(cleared, p, id)

RemoveContributorIfMatches(x, p, id) ==
    IF x.contributors[p] = 0 THEN x
    ELSE IF x.contributors[p] = id THEN RemoveContributor(x, p)
    ELSE [x EXCEPT !.failed = TRUE]

SetIndex(x) ==
    /\ contributors' = x.contributors
    /\ counts' = x.counts
    /\ dirtyCenters' = x.dirty
    /\ failed' = x.failed

-----------------------------------------------------------------------------
(* Readiness of a holder.                                                  *)

Lower(a, b) == IF a <= b THEN a ELSE b

DesiredReadiness(load) ==
    IF load = EntityTicking THEN EntityReady
    ELSE IF load = BlockTicking THEN BlockReady
    ELSE Unready

\* Mutant: the square of the block radius is enough for entities.
TargetReadinessNear(x, h, load, p) ==
    IF h.made < Initialized THEN Unready
    ELSE IF load >= EntityTicking /\ x.counts[1][p] = Cardinality(Near(1, p))
    THEN EntityReady
    ELSE IF load >= BlockTicking /\ x.counts[1][p] = Cardinality(Near(1, p))
    THEN BlockReady
    ELSE Unready

TargetReadiness(x, h, load, p) ==
    IF h.made < Initialized THEN Unready
    ELSE IF load >= EntityTicking /\ x.counts[2][p] = Cardinality(Near(2, p))
    THEN EntityReady
    ELSE IF load >= BlockTicking /\ x.counts[1][p] = Cardinality(Near(1, p))
    THEN BlockReady
    ELSE Unready

SnapshotMembership(ready, sim) ==
    [block |-> sim >= BlockTicking /\ ready # Unready,
     random |-> sim >= EntityTicking /\ ready # Unready,
     entity |-> sim >= EntityTicking /\ ready = EntityReady]

\* current_full_contributor: the active holder if it counts as Full.
CurrentFullContributor(p) ==
    IF Active(p) /\ holder[p].load >= Full /\ holder[p].made >= Initialized
    THEN holder[p].id ELSE 0

\* rebuild_ticking_chunk_snapshot.
RebuiltSnapshot(H) ==
    {[pos |-> p, id |-> H[p].id, member |-> SnapshotMembership(H[p].ready, H[p].sim)] :
        p \in {q \in Chunks : /\ H[q].place = "active"
                              /\ SnapshotMembership(H[q].ready, H[q].sim).block}}

\* update_pending_readiness for the candidates C with their load levels.
PendingAfter(H, C, load) ==
    [p \in Chunks |->
        IF p \notin C THEN pendingReadiness[p]
        ELSE IF H[p].ready < DesiredReadiness(load[p]) THEN H[p].id ELSE 0]

\* Mutant: only a changed readiness asks for a rebuild.
SimulationChangesSnapshotNever(changes, new) == FALSE

\* simulation_changes_ticking_snapshot, before the levels change.
SimulationChangesSnapshot(changes, new) ==
    \E p \in changes :
        /\ Active(p)
        /\ SnapshotMembership(holder[p].ready, holder[p].sim)
             # SnapshotMembership(holder[p].ready, new[p].sim)

ReadinessChangesSnapshot(H, C) ==
    \E p \in C : SnapshotMembership(holder[p].ready, holder[p].sim)
                    # SnapshotMembership(H[p].ready, holder[p].sim)

-----------------------------------------------------------------------------
(* The boundary: commit_scheduling_epoch on the game thread.  Each loop    *)
(* over positions takes one step per position.                             *)

\* A prepared epoch arrives with the manager's new levels:
\* merge_deferred_revivals and simulation_changes_ticking_snapshot.  The
\* active changes that lose their full level are left to remove.
Begin(new) ==
    LET changes == {p \in Chunks : new[p] # wanted[p]} \cup deferred
    IN  /\ phase = "idle"
        /\ changes # {} \/ publications # {}
        /\ wanted' = new
        /\ deferred' = {}
        /\ changed' = changes
        /\ todo' = {p \in changes : Active(p) /\ new[p].load < Full}
        /\ rebuild' = SimulationChangesSnapshot(changes, new)
        /\ phase' = "demote"
        /\ UNCHANGED <<holder, index, pendingReadiness, publications, snapshot,
                       drained, failed>>

\* The loop of prepare_ticking_readiness_demotions over those changes.
RemoveLost(p) ==
    /\ phase = "demote"
    /\ p \in todo
    /\ todo' = todo \ {p}
    /\ SetIndex(RemoveContributorIfMatches(Index, p, holder[p].id))
    /\ UNCHANGED <<wanted, holder, pendingReadiness, publications, snapshot,
                   deferred, phase, changed, drained, rebuild>>

\* The rest of it: readiness_candidates for the new levels,
\* apply_readiness_demotions and update_pending_readiness, before any level
\* is changed.
Demote ==
    LET dirty == dirtyCenters \cup changed
        candidates == {p \in dirty : changed # {} /\ Active(p)}
        load == [p \in Chunks |->
                    IF p \in changed THEN wanted[p].load ELSE holder[p].load]
        demoted == [p \in Chunks |->
                    IF p \in candidates
                    THEN [holder[p] EXCEPT !.ready =
                            Lower(@, TargetReadiness(Index, holder[p], load[p], p))]
                    ELSE holder[p]]
    IN  /\ phase = "demote" /\ todo = {}
        /\ dirtyCenters' = dirty
        /\ holder' = demoted
        /\ pendingReadiness' = PendingAfter(demoted, candidates, load)
        /\ rebuild' = (rebuild \/ ReadinessChangesSnapshot(demoted, candidates))
        /\ phase' = "levels" /\ todo' = changed
        /\ UNCHANGED <<wanted, contributors, counts, publications, snapshot,
                       deferred, changed, drained, failed>>

\* The publication of update_chunk_level for an already Full holder.
Republishes(h, old) ==
    h.load >= Full /\ old < Full /\ h.made >= Initialized

\* update_chunk_level for one change.  A refused revival is deferred.
UpdateChunkLevel(p) ==
    LET w == wanted[p]
        h == holder[p]
        Raise(g) == [g EXCEPT !.place = "active", !.load = w.load, !.sim = w.sim]
        Publishes(g, old) ==
            publications' = IF Republishes(g, old)
                            THEN publications \cup {<<p, g.id>>} ELSE publications
    IN  /\ phase = "levels"
        /\ p \in todo
        /\ todo' = todo \ {p}
        /\ \/ /\ w.load = Unloaded /\ h.place = "active"
              /\ holder' = [holder EXCEPT ![p].place = "unloading", ![p].load = Unloaded,
                                          ![p].sim = Unloaded, ![p].live = FALSE]
              /\ UNCHANGED <<publications, deferred>>
           \/ /\ w.load = Unloaded /\ h.place # "active"
              /\ UNCHANGED <<holder, publications, deferred>>
           \/ /\ w.load # Unloaded /\ h.place \in {"active", "unloading"}
              /\ holder' = [holder EXCEPT ![p] = Raise(h)]
              /\ Publishes(Raise(h), h.load)
              /\ UNCHANGED deferred
           \/ /\ w.load # Unloaded /\ h.place = "unloading"
              /\ deferred' = deferred \cup {p}
              /\ UNCHANGED <<holder, publications>>
           \/ /\ w.load # Unloaded /\ h.place = "none"
              /\ holder' = [holder EXCEPT ![p] = Raise([NoHolder EXCEPT !.id = h.id + 1])]
              /\ UNCHANGED <<publications, deferred>>
        /\ UNCHANGED <<wanted, index, pendingReadiness, snapshot, phase, changed,
                       drained, rebuild, failed>>

\* reconcile_ticking_readiness drains the publications.
Drain ==
    /\ phase = "levels" /\ todo = {}
    /\ drained' = publications
    /\ publications' = {}
    /\ phase' = "contribute"
    /\ todo' = changed \cup {d[1] : d \in publications}
    /\ UNCHANGED <<wanted, holder, index, pendingReadiness, snapshot, deferred,
                   changed, rebuild, failed>>

\* Mutant: a publication is taken at its word.
ValidPublicationUnchecked(p, id) == Active(p)

\* validate_full_publication.
ValidPublication(p, id) == CurrentFullContributor(p) = id

\* The contributor of one changed or published position is reconciled and the
\* block entities of a published holder are activated.
Reconcile(p) ==
    LET valid == \E d \in drained : d[1] = p /\ ValidPublication(p, d[2])
        owner == IF valid THEN holder[p].id ELSE CurrentFullContributor(p)
    IN  /\ phase = "contribute"
        /\ p \in todo
        /\ todo' = todo \ {p}
        /\ IF p \in changed \/ valid
           THEN SetIndex(ReconcileContributor(Index, p, owner))
           ELSE UNCHANGED <<index, failed>>
        /\ holder' = [holder EXCEPT ![p].live = @ \/ valid]
        /\ UNCHANGED <<wanted, pendingReadiness, publications, snapshot, deferred,
                       phase, changed, drained, rebuild>>

\* Mutant: only the changed positions are brought up to date.
CandidatesChanged == {p \in changed : Active(p)}

\* readiness_candidates of the centres take_dirty_counts returns.
Candidates == {p \in dirtyCenters \cup changed : Active(p)}

\* take_dirty_counts and apply_final_readiness, then the snapshot if anything
\* asks for it.
ApplyFinalReadiness ==
    LET load == [p \in Chunks |-> holder[p].load]
        final == [p \in Chunks |->
                    IF p \in Candidates
                    THEN [holder[p] EXCEPT !.ready =
                            TargetReadiness(Index, holder[p], load[p], p)]
                    ELSE holder[p]]
    IN  /\ phase = "contribute" /\ todo = {}
        /\ dirtyCenters' = {}
        /\ holder' = final
        /\ pendingReadiness' = PendingAfter(final, Candidates, load)
        /\ snapshot' = IF rebuild \/ ReadinessChangesSnapshot(final, Candidates)
                       THEN RebuiltSnapshot(final) ELSE snapshot
        /\ phase' = "idle"
        /\ changed' = {} /\ drained' = {} /\ rebuild' = FALSE
        /\ UNCHANGED <<wanted, contributors, counts, publications, deferred, todo,
                       failed>>

-----------------------------------------------------------------------------
(* Other threads.                                                          *)

\* The thread that makes the chunk Full publishes the status, then
\* publish_full sets full_status_initialized and queues the publication.
\* A chunk stored as Full gets there at any level.
MakeFull(p) ==
    /\ holder[p].place # "none"
    /\ holder[p].made < Announced
    /\ holder' = [holder EXCEPT ![p].made = @ + 1]
    /\ publications' = IF holder[p].made = Initialized
                       THEN publications \cup {<<p, holder[p].id>>} ELSE publications
    /\ UNCHANGED <<wanted, index, pendingReadiness, snapshot, deferred, commit, failed>>

\* Arc::strong_count == 1: no snapshot, pending readiness or producer.
Unreferenced(p) ==
    /\ pendingReadiness[p] = 0
    /\ \A t \in snapshot : t.pos # p
    /\ holder[p].made \notin {Published, Initialized}

\* process_unloads of the scheduling worker, which runs between boundaries,
\* drops a clean holder nobody else refers to.
DropHolder(p) ==
    /\ phase = "idle"
    /\ holder[p].place = "unloading"
    /\ p \notin deferred
    /\ Unreferenced(p)
    /\ holder[p].id < MaxHolders
    /\ holder' = [holder EXCEPT ![p] = [NoHolder EXCEPT !.id = holder[p].id]]
    /\ UNCHANGED <<wanted, index, pendingReadiness, publications, snapshot,
                   deferred, commit, failed>>

-----------------------------------------------------------------------------
ReadinessInit ==
    /\ wanted = [p \in Chunks |-> [load |-> Unloaded, sim |-> Unloaded]]
    /\ holder = [p \in Chunks |-> NoHolder]
    /\ contributors = [p \in Chunks |-> 0]
    /\ counts = [r \in {1, 2} |-> [p \in Chunks |-> 0]]
    /\ dirtyCenters = {}
    /\ pendingReadiness = [p \in Chunks |-> 0]
    /\ publications = {} /\ snapshot = {} /\ deferred = {}
    /\ phase = "idle" /\ changed = {} /\ todo = {} /\ drained = {}
    /\ rebuild = FALSE /\ failed = FALSE

ReadinessNext ==
    \/ \E new \in [Chunks -> Wants] : Begin(new)
    \/ \E p \in Chunks : RemoveLost(p)
    \/ Demote
    \/ \E p \in Chunks : UpdateChunkLevel(p)
    \/ Drain
    \/ \E p \in Chunks : Reconcile(p)
    \/ ApplyFinalReadiness
    \/ \E p \in Chunks : MakeFull(p)
    \/ \E p \in Chunks : DropHolder(p)

ReadinessSpec == ReadinessInit /\ [][ReadinessNext]_readinessVars

-----------------------------------------------------------------------------
(* Properties.                                                             *)

\* The variables keep their types and the counters their range.
ReadinessTypes ==
    /\ wanted \in [Chunks -> Wants]
    /\ holder \in [Chunks ->
            [id : 0 .. MaxHolders, place : {"none", "active", "unloading"},
             load : LoadLevels, sim : SimulationLevels, made : Unmade .. Announced,
             ready : Unready .. EntityReady, live : BOOLEAN]]
    /\ contributors \in [Chunks -> 0 .. MaxHolders]
    /\ \A r \in {1, 2}, p \in Chunks : counts[r][p] \in 0 .. Cardinality(Near(r, p))
    /\ dirtyCenters \subseteq Chunks /\ deferred \subseteq Chunks
    /\ pendingReadiness \in [Chunks -> 0 .. MaxHolders]
    /\ publications \subseteq Chunks \X (1 .. MaxHolders)
    /\ phase \in {"idle", "demote", "levels", "contribute"}
    /\ rebuild \in BOOLEAN /\ failed \in BOOLEAN

\* The incremental index never meets an overflow, an underflow or a foreign
\* contributor, so recover_ticking_readiness_index is never needed.
IndexIsConsistent == ReadinessTypes /\ ~failed

\* At every moment, also in the middle of a commit, a chunk that is ready to
\* tick has an active, Full neighbour holding a full level everywhere in the
\* square its readiness is about: block callbacks find their neighbours.
ReadyMeansFull ==
    \A p \in Chunks, r \in {1, 2} :
        (holder[p].ready >= r) =>
            \A q \in Near(r, p) :
                /\ Active(q) /\ holder[q].made >= Initialized
                /\ holder[q].load >= Full

\* Between boundaries, with every publication handled, a chunk is as ready as
\* its level and the Full chunks around it permit: no wake-up was lost.  The
\* block entities of each active Full chunk with a full level have been
\* activated, whatever the order in which its status, its level and its
\* revival came.
ReadinessIsCurrent ==
    LET settled == /\ phase = "idle" /\ publications = {}
                   /\ \A p \in Chunks : holder[p].made # Initialized
        FullAround(r, p) == \A q \in Near(r, p) : CurrentFullContributor(q) # 0
    IN  /\ settled =>
              \A p \in Chunks : Active(p) =>
                  holder[p].ready =
                      IF holder[p].load = EntityTicking /\ FullAround(2, p)
                      THEN EntityReady
                      ELSE IF holder[p].load >= BlockTicking /\ FullAround(1, p)
                      THEN BlockReady
                      ELSE Unready
        /\ (phase = "idle" /\ publications = {}) =>
              \A p \in Chunks :
                  (Active(p) /\ holder[p].made = Announced /\ holder[p].load >= Full)
                      => holder[p].live

\* Between boundaries, the two structures that own holders are what a rebuild
\* from scratch would give: the snapshot gameplay ticks from, although it is
\* rebuilt only when a flag asks for it, and the save dependencies of exactly
\* the chunks that wait for readiness.  So no holder that left the active map
\* is kept from process_unloads.
OwnersAreCurrent ==
    phase = "idle" =>
        /\ snapshot = RebuiltSnapshot(holder)
        /\ \A p \in Chunks :
              pendingReadiness[p] =
                  IF Active(p) /\ holder[p].ready < DesiredReadiness(holder[p].load)
                  THEN holder[p].id ELSE 0
=============================================================================
