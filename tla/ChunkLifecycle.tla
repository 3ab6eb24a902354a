--------------------------- MODULE ChunkLifecycle ---------------------------
(***************************************************************************)
(* The life of a chunk holder: created or revived and demoted at commits,  *)
(* filled by the producer of an Empty step or of a generation step, saved  *)
(* by a background task and finally dropped by process_unloads             *)
(* (steel-core/src/chunk/chunk_map/persistence.rs,                         *)
(* chunk_map/generation_readiness.rs, chunk_holder.rs).                    *)
(*                                                                         *)
(* Three kinds of thread interleave.  The world thread commits level       *)
(* changes one by one and, between two commits, lets gameplay write active *)
(* Full chunks.  The epoch worker prepares the next changes and visits the *)
(* unloading holders.  Producers and save tasks run on their own and own a *)
(* strong reference to the holder they work on.                            *)
(*                                                                         *)
(* Statuses are abstracted to the four that the code here distinguishes    *)
(* and content to a version number.  A level is abstracted to whether      *)
(* there is one.  References this module does not follow (light worksets,  *)
(* neighbour caches, light updates touching the chunk) let process_unloads *)
(* keep any holder; entities waiting to be saved let it save any holder.   *)
(***************************************************************************)
EXTENDS Naturals, FiniteSets

CONSTANTS
  Positions,   \* chunk positions
  Holders,     \* identities of ChunkHolder allocations; a freed one is reused
  NoHolder,    \* Option::None of a holder
  NoPos,       \* the position of an identity that is not allocated
  MaxVersion,  \* bound: content versions of a position
  MaxReleases  \* bound: release tasks of a position that have not run

ASSUME HolderAssumption == NoHolder \notin Holders /\ NoPos \notin Positions
ASSUME BoundAssumption == MaxVersion \in Nat /\ MaxReleases \in Nat \ {0}

\* Published statuses: nothing, Empty, at least StructureStarts (the first one saved), Full.
Unpublished == 0
Empty == 1
Saved == 2
Full == 3
Statuses == Unpublished..Full

Saveable(status) == status >= Saved

\* A chunk payload: on disk, read by a load, or captured by a save.
Payloads == [status : Statuses, version : 0..MaxVersion]
NoPayload == [status |-> Unpublished, version |-> 0]

VARIABLES
  phase,      \* world thread and epoch: "Idle", "Running", "Unloading", "Ready", "Committing", StoppedPhases
  ticket,     \* positions with a load level in the ticket manager
  changes,    \* LevelChanges of the epoch: [change position -> BOOLEAN], a level or none
  staged,     \* staged_revivals of process_unloads
  visiting,   \* entries of unloading_chunks retain_sync has not visited yet
  dropped,    \* holders retain_sync removed, not finalized yet
  finalized,  \* holders of ChunkMap.finalized_block_entity_unloads
  chunks,     \* ChunkMap.chunks
  unloading,  \* ChunkMap.unloading_chunks
  deferred,   \* keys of ChunkMap.deferred_revivals
  holder,     \* every ChunkHolder
  disk,       \* the stored payload of each position
  handles,    \* storage handles acquired and not released, per position
  releases,   \* release_chunk tasks spawned and not run yet, per position
  ticks,      \* positions whose tick containers are registered
  entities    \* positions in the entity manager's chunk_visibility

epoch == <<ticket, changes, staged, visiting, dropped, finalized>>
maps == <<chunks, unloading, deferred>>
storage == <<disk, handles, releases>>
world == <<ticks, entities>>
vars == <<phase, epoch, maps, holder, storage, world>>

----------------------------------------------------------------------------
\* After save_all_chunks, without and with a failed save.
StoppedPhases == {"Stopped", "StoppedUnsaved"}

NoChanges == [p \in {} |-> FALSE]

FreeHolder ==
  [pos |-> NoPos, life |-> "Active", allowed |-> FALSE, status |-> Unpublished, version |-> 0,
   dirty |-> FALSE, producer |-> "None", loaded |-> NoPayload, saver |-> "None",
   save |-> NoPayload]

\* Holders of a position that process_unloads has not finalized.
Retained(p) == {h \in Holders \ finalized : holder[h].pos = p}

\* Mutant: the strong count is not looked at.
UnsharedAlways(h) == TRUE

\* Arc::strong_count of an unloading holder is one: no task owns it.
Unshared(h) == holder[h].producer = "None" /\ holder[h].saver = "None"

NeedsSave(h) == Saveable(holder[h].status) /\ holder[h].dirty

Init ==
  /\ phase = "Idle"
  /\ ticket = {}
  /\ changes = NoChanges
  /\ staged = {}
  /\ visiting = {}
  /\ dropped = {}
  /\ finalized = {}
  /\ chunks = [p \in Positions |-> NoHolder]
  /\ unloading = [p \in Positions |-> NoHolder]
  /\ deferred = {}
  /\ holder = [h \in Holders |-> FreeHolder]
  /\ disk = [p \in Positions |-> NoPayload]
  /\ handles = [p \in Positions |-> 0]
  /\ releases = [p \in Positions |-> 0]
  /\ ticks = {}
  /\ entities = {}

----------------------------------------------------------------------------
\* The epoch worker: prepare_scheduling_epoch and process_unloads.

StartEpoch ==
  /\ phase = "Idle"
  /\ phase' = "Running"
  /\ UNCHANGED <<epoch, maps, holder, storage, world>>

\* Ticket updates give levels to `wanted`; `touched` are changes that neither give nor take a
\* level.  A holder that is about to be revived is staged so that the pass below keeps it.
PrepareEpoch(wanted, touched) ==
  /\ phase = "Running"
  /\ phase' = "Unloading"
  /\ ticket' = wanted
  /\ changes' = [p \in touched \cup (wanted \ ticket) \cup (ticket \ wanted) |-> p \in wanted]
  /\ staged' = {p \in wanted \cap DOMAIN changes' : unloading[p] # NoHolder} \cup deferred
  /\ visiting' = {p \in Positions : unloading[p] # NoHolder}
  /\ UNCHANGED <<dropped, finalized, maps, holder, storage, world>>

\* retain_sync keeps an entry.
KeepUnloading(p) ==
  /\ phase = "Unloading"
  /\ p \in visiting
  /\ visiting' = visiting \ {p}
  /\ UNCHANGED <<phase, ticket, changes, staged, dropped, finalized, maps, holder, storage,
                 world>>

\* retain_sync keeps an entry and spawns a save task, which owns the holder from then on: the
\* chunk is dirty, or entities of the loaded chunk wait to be saved.
SaveUnloading(p) ==
  LET h == unloading[p]
  IN  /\ phase = "Unloading"
      /\ p \in visiting \ staged
      /\ Unshared(h)
      /\ NeedsSave(h) \/ holder[h].status >= Empty
      /\ visiting' = visiting \ {p}
      /\ holder' = [holder EXCEPT ![h].saver = "Queued"]
      /\ UNCHANGED <<phase, ticket, changes, staged, dropped, finalized, maps, storage, world>>

\* retain_sync removes a clean entry.
DropUnloading(p) ==
  LET h == unloading[p]
  IN  /\ phase = "Unloading"
      /\ p \in visiting \ staged
      /\ Unshared(h)
      /\ ~NeedsSave(h)
      /\ visiting' = visiting \ {p}
      /\ unloading' = [unloading EXCEPT ![p] = NoHolder]
      /\ dropped' = dropped \cup {h}
      /\ UNCHANGED <<phase, ticket, changes, staged, finalized, chunks, deferred, holder,
                     storage, world>>

\* Mutant: the tick containers of a finalized chunk stay registered.
FinalizeKeepsTicks(h) ==
  LET p == holder[h].pos
  IN  /\ phase = "Unloading"
      /\ visiting = {}
      /\ h \in dropped
      /\ releases[p] < MaxReleases
      /\ dropped' = dropped \ {h}
      /\ finalized' = finalized \cup {h}
      /\ releases' = IF holder[h].status >= Empty THEN [releases EXCEPT ![p] = @ + 1]
                                                  ELSE releases
      /\ UNCHANGED <<phase, ticket, changes, staged, visiting, maps, holder, disk, handles,
                     world>>

\* The second loop of process_unloads.  finalize_chunk_unload leaves chunk_visibility alone.
FinalizeDropped(h) ==
  LET p == holder[h].pos
  IN  /\ phase = "Unloading"
      /\ visiting = {}
      /\ h \in dropped
      /\ releases[p] < MaxReleases
      /\ dropped' = dropped \ {h}
      /\ finalized' = finalized \cup {h}
      /\ ticks' = ticks \ {p}
      /\ releases' = IF holder[h].status >= Empty THEN [releases EXCEPT ![p] = @ + 1]
                                                  ELSE releases
      /\ UNCHANGED <<phase, ticket, changes, staged, visiting, maps, holder, disk, handles,
                     entities>>

FinishEpoch ==
  /\ phase = "Unloading"
  /\ visiting = {}
  /\ dropped = {}
  /\ phase' = "Ready"
  /\ UNCHANGED <<epoch, maps, holder, storage, world>>

\* A spawned release_chunk task runs.
Release(p) ==
  /\ releases[p] > 0
  /\ releases' = [releases EXCEPT ![p] = @ - 1]
  /\ handles' = [handles EXCEPT ![p] = @ - 1]
  /\ UNCHANGED <<phase, epoch, maps, holder, disk, world>>

----------------------------------------------------------------------------
\* The world thread: commit_scheduling_epoch, one update_chunk_level after the other.

\* The changes still to commit once p is done.
Rest(p) == [q \in DOMAIN changes \ {p} |-> changes[q]]

\* Mutant: the deferred revivals are drained but not merged.
CommitStartUnmerged ==
  /\ phase = "Ready"
  /\ phase' = "Committing"
  /\ deferred' = {}
  /\ finalized' = {}
  /\ holder' = [h \in Holders |-> IF h \in finalized THEN FreeHolder ELSE holder[h]]
  /\ UNCHANGED <<ticket, changes, staged, visiting, dropped, chunks, unloading, storage, world>>

\* merge_deferred_revivals, then finish_block_entity_unloads drops the finalized holders.
CommitStart ==
  /\ phase = "Ready"
  /\ phase' = "Committing"
  /\ changes' = [p \in DOMAIN changes \cup deferred |-> p \in DOMAIN changes => changes[p]]
  /\ deferred' = {}
  /\ finalized' = {}
  /\ holder' = [h \in Holders |-> IF h \in finalized THEN FreeHolder ELSE holder[h]]
  /\ UNCHANGED <<ticket, staged, visiting, dropped, chunks, unloading, storage, world>>

\* No level any more: the holder moves to unloading_chunks.
Demote(p) ==
  LET h == chunks[p]
  IN  /\ phase = "Committing"
      /\ p \in DOMAIN changes
      /\ ~changes[p]
      /\ h # NoHolder
      /\ changes' = Rest(p)
      /\ holder' = [holder EXCEPT ![h].life = "Unloading", ![h].allowed = FALSE]
      /\ chunks' = [chunks EXCEPT ![p] = NoHolder]
      /\ unloading' = [unloading EXCEPT ![p] = h]
      /\ deferred' = deferred \ {p}
      /\ entities' = entities \ {p}
      /\ UNCHANGED <<phase, ticket, staged, visiting, dropped, finalized, storage, ticks>>

\* No level and no active holder: nothing but the deferred revival goes.
Ignore(p) ==
  /\ phase = "Committing"
  /\ p \in DOMAIN changes
  /\ ~changes[p]
  /\ chunks[p] = NoHolder
  /\ changes' = Rest(p)
  /\ deferred' = deferred \ {p}
  /\ UNCHANGED <<phase, ticket, staged, visiting, dropped, finalized, chunks, unloading,
                 holder, storage, world>>

\* The tail of update_chunk_level for a level: allow statuses, tell the entity manager.
RaiseLevel(h, p, life) ==
  /\ holder' = [holder EXCEPT ![h].life = life, ![h].allowed = TRUE]
  /\ entities' = IF holder[h].status >= Empty THEN entities \cup {p} ELSE entities
  /\ UNCHANGED <<phase, ticket, staged, visiting, dropped, finalized, deferred, storage,
                 ticks>>

Keep(p) ==
  /\ phase = "Committing"
  /\ p \in DOMAIN changes
  /\ changes[p]
  /\ chunks[p] # NoHolder
  /\ changes' = Rest(p)
  /\ RaiseLevel(chunks[p], p, holder[chunks[p]].life)
  /\ UNCHANGED <<chunks, unloading>>

\* Mutant: the holder is reactivated whatever its save is doing.
ReviveUnchecked(p) ==
  /\ phase = "Committing"
  /\ p \in DOMAIN changes
  /\ changes[p]
  /\ chunks[p] = NoHolder
  /\ unloading[p] # NoHolder
  /\ changes' = Rest(p)
  /\ unloading' = [unloading EXCEPT ![p] = NoHolder]
  /\ chunks' = [chunks EXCEPT ![p] = unloading[p]]
  /\ RaiseLevel(unloading[p], p, "Active")

\* try_revive_from_unloading succeeds.
Revive(p) ==
  /\ phase = "Committing"
  /\ p \in DOMAIN changes
  /\ changes[p]
  /\ chunks[p] = NoHolder
  /\ unloading[p] # NoHolder
  /\ holder[unloading[p]].life = "Unloading"
  /\ changes' = Rest(p)
  /\ unloading' = [unloading EXCEPT ![p] = NoHolder]
  /\ chunks' = [chunks EXCEPT ![p] = unloading[p]]
  /\ RaiseLevel(unloading[p], p, "Active")

\* Its save is being prepared: the revival waits for a later boundary.
Defer(p) ==
  /\ phase = "Committing"
  /\ p \in DOMAIN changes
  /\ changes[p]
  /\ chunks[p] = NoHolder
  /\ unloading[p] # NoHolder
  /\ holder[unloading[p]].life # "Unloading"
  /\ changes' = Rest(p)
  /\ deferred' = deferred \cup {p}
  /\ UNCHANGED <<phase, ticket, staged, visiting, dropped, finalized, chunks, unloading,
                 holder, storage, world>>

\* A new holder.
Create(p, h) ==
  /\ phase = "Committing"
  /\ p \in DOMAIN changes
  /\ changes[p]
  /\ chunks[p] = NoHolder
  /\ unloading[p] = NoHolder
  /\ holder[h].pos = NoPos
  /\ changes' = Rest(p)
  /\ chunks' = [chunks EXCEPT ![p] = h]
  /\ holder' = [holder EXCEPT ![h] = [FreeHolder EXCEPT !.pos = p, !.allowed = TRUE]]
  /\ UNCHANGED <<phase, ticket, staged, visiting, dropped, finalized, unloading, deferred,
                 storage, world>>

\* publish_committed_revision and the next worker.
CommitEnd ==
  /\ phase = "Committing"
  /\ DOMAIN changes = {}
  /\ phase' = "Running"
  /\ UNCHANGED <<epoch, maps, holder, storage, world>>

\* Gameplay writes an active Full chunk and marks it dirty, on the world thread.
GameplayWrite(p) ==
  LET h == chunks[p]
  IN  /\ phase \notin StoppedPhases \cup {"Committing"}
      /\ h # NoHolder
      /\ holder[h].status = Full
      /\ holder[h].version < MaxVersion
      /\ holder' = [holder EXCEPT ![h].version = @ + 1, ![h].dirty = TRUE]
      /\ UNCHANGED <<phase, epoch, maps, storage, world>>

----------------------------------------------------------------------------
\* Producers: the task of an Empty step (apply_empty_step, apply_existing_empty_step) and of a
\* generation step (apply_generated_step).  A demotion takes the permission away at any point.

\* The producer of h moves on without touching anything but its holder.
ProducerStep(h, from, to) ==
  /\ holder[h].producer = from
  /\ holder' = [holder EXCEPT ![h].producer = to]
  /\ UNCHANGED <<phase, epoch, maps, storage, world>>

\* apply_step claims the Empty status of a holder nothing was published for.
StartEmpty(h) ==
  /\ phase \notin StoppedPhases
  /\ holder[h].allowed
  /\ holder[h].status = Unpublished
  /\ ProducerStep(h, "None", "Acquiring")

\* acquire_chunk, which also says whether the chunk is stored.
Acquire(h) ==
  LET p == holder[h].pos
  IN  /\ holder[h].producer = "Acquiring"
      /\ holder' = [holder EXCEPT ![h].producer =
                      IF disk[p].status = Unpublished THEN "Missing" ELSE "Existing"]
      /\ handles' = [handles EXCEPT ![p] = @ + 1]
      /\ UNCHANGED <<phase, epoch, maps, disk, releases, world>>

AcquireFails(h) == ProducerStep(h, "Acquiring", "None")

\* The task gives up and releases its storage handle.
ReleaseOwn(h) ==
  /\ holder' = [holder EXCEPT ![h].producer = "None", ![h].loaded = NoPayload]
  /\ handles' = [handles EXCEPT ![holder[h].pos] = @ - 1]
  /\ UNCHANGED <<phase, epoch, maps, disk, releases, world>>

\* Mutant: a cancelled load keeps its handle.
CancelLoadLeaks(h) ==
  /\ holder[h].producer \in {"Existing", "Loaded", "Missing"}
  /\ ~holder[h].allowed
  /\ holder' = [holder EXCEPT ![h].producer = "None", ![h].loaded = NoPayload]
  /\ UNCHANGED <<phase, epoch, maps, storage, world>>

\* is_status_disallowed holds at one of the three checks.
CancelLoad(h) ==
  /\ holder[h].producer \in {"Existing", "Loaded", "Missing"}
  /\ ~holder[h].allowed
  /\ ReleaseOwn(h)

\* It does not hold there.
ContinueLoad(h) ==
  /\ holder[h].allowed
  /\ \/ ProducerStep(h, "Existing", "Reading")
     \/ ProducerStep(h, "Loaded", "Storing")
     \/ ProducerStep(h, "Missing", "Creating")

\* load_chunk.
Load(h) ==
  LET p == holder[h].pos
  IN  /\ holder[h].producer = "Reading"
      /\ holder' = [holder EXCEPT ![h].producer = "Loaded", ![h].loaded = disk[p]]
      /\ UNCHANGED <<phase, epoch, maps, storage, world>>

\* load_chunk cannot decode the payload, clears its entry and returns None: the chunk is
\* generated again.
LoadCorrupt(h) ==
  /\ holder[h].producer = "Reading" /\ disk[holder[h].pos] # NoPayload
  /\ holder' = [holder EXCEPT ![h].producer = "Missing"]
  /\ disk' = [disk EXCEPT ![holder[h].pos] = NoPayload]
  /\ UNCHANGED <<phase, epoch, maps, handles, releases, world>>

LoadFails(h) ==
  /\ holder[h].producer = "Reading"
  /\ ReleaseOwn(h)

\* store_and_publish_chunk_status: a loaded chunk is clean.
Store(h) ==
  LET loaded == holder[h].loaded
  IN  /\ holder[h].producer = "Storing"
      /\ holder' = [holder EXCEPT ![h].producer = "Notifying", ![h].loaded = NoPayload,
                                  ![h].status = loaded.status, ![h].version = loaded.version]
      /\ ticks' = IF loaded.status = Full THEN ticks \cup {holder[h].pos} ELSE ticks
      /\ UNCHANGED <<phase, epoch, maps, storage, entities>>

\* The Empty task runs and finish_generation_status publishes it; a new chunk is dirty.
CreateEmpty(h) ==
  /\ holder[h].producer = "Creating"
  /\ holder' = [holder EXCEPT ![h].producer = "Notifying", ![h].status = Empty,
                              ![h].dirty = TRUE]
  /\ UNCHANGED <<phase, epoch, maps, storage, world>>

\* on_entity_chunk_loaded, with no further check of the permission.
NotifyEntities(h) ==
  /\ holder[h].producer = "Notifying"
  /\ holder' = [holder EXCEPT ![h].producer = "None"]
  /\ entities' = entities \cup {holder[h].pos}
  /\ UNCHANGED <<phase, epoch, maps, storage, ticks>>

StartStep(h) ==
  /\ phase \notin StoppedPhases
  /\ holder[h].allowed
  /\ holder[h].status \in {Empty, Saved}
  /\ holder[h].version < MaxVersion
  /\ ProducerStep(h, "None", "Stepping")

\* The step's task changes the chunk.
RunStep(h) ==
  /\ holder[h].producer = "Stepping"
  /\ holder' = [holder EXCEPT ![h].producer = "Written", ![h].version = @ + 1]
  /\ UNCHANGED <<phase, epoch, maps, storage, world>>

\* finish_generation_status marks the chunk dirty before it publishes the status.
FinishStep(h) ==
  /\ holder[h].producer = "Written"
  /\ holder' = [holder EXCEPT ![h].producer = "Finished", ![h].dirty = TRUE]
  /\ UNCHANGED <<phase, epoch, maps, storage, world>>

\* It registers the ticks, publishes the status and, for Full, refreshes entity visibility.
PublishStep(h) ==
  LET p == holder[h].pos
      status == holder[h].status + 1
  IN  /\ holder[h].producer = "Finished"
      /\ holder' = [holder EXCEPT ![h].producer = "None", ![h].status = status]
      /\ ticks' = IF status = Full THEN ticks \cup {p} ELSE ticks
      /\ entities' = IF status = Full THEN entities \cup {p} ELSE entities
      /\ UNCHANGED <<phase, epoch, maps, storage>>

----------------------------------------------------------------------------
\* A save task: save_chunk and prepare_chunk_save_on_pool.

\* The save task of h moves on without touching anything but its holder.
SaverStep(h, from, to, life) ==
  /\ holder[h].saver = from
  /\ holder' = [holder EXCEPT ![h].saver = to, ![h].life = life]
  /\ UNCHANGED <<phase, epoch, maps, storage, world>>

\* try_begin_save_preparation.
BeginSave(h) ==
  IF holder[h].life = "Unloading"
    THEN SaverStep(h, "Queued", "Claimed", "Preparing")
    ELSE SaverStep(h, "Queued", "None", holder[h].life)

\* The status the save will record is read first.
ReadStatus(h) ==
  /\ holder[h].saver = "Claimed"
  /\ holder' = IF Saveable(holder[h].status)
                 THEN [holder EXCEPT ![h].saver = "Reading", ![h].save.status = holder[h].status]
                 ELSE [holder EXCEPT ![h].saver = "None", ![h].life = "Unloading"]
  /\ UNCHANGED <<phase, epoch, maps, storage, world>>

\* take_dirty; a clean chunk is captured only for entities that wait to be saved.
TakeDirty(h) ==
  /\ holder[h].saver = "Reading"
  /\ \/ holder' = [holder EXCEPT ![h].saver = IF holder[h].dirty THEN "Taken" ELSE "Forced",
                                 ![h].dirty = FALSE]
     \/ /\ ~holder[h].dirty
        /\ holder' = [holder EXCEPT ![h].saver = "None", ![h].life = "Unloading",
                                    ![h].save = NoPayload]
  /\ UNCHANGED <<phase, epoch, maps, storage, world>>

\* prepare_chunk_save copies the chunk; the guard is dropped, so a revival may now succeed.
Capture(h) ==
  /\ holder[h].saver \in {"Taken", "Forced"}
  /\ holder' = [holder EXCEPT ![h].saver = "Writing", ![h].life = "Unloading",
                              ![h].save.version = holder[h].version]
  /\ UNCHANGED <<phase, epoch, maps, storage, world>>

\* prepare_chunk_save yields nothing: the flag it took goes back.
CaptureFails(h) ==
  /\ holder[h].saver \in {"Taken", "Forced"}
  /\ holder' = [holder EXCEPT ![h].saver = "None", ![h].life = "Unloading", ![h].save = NoPayload,
                              ![h].dirty = @ \/ holder[h].saver = "Taken"]
  /\ UNCHANGED <<phase, epoch, maps, storage, world>>

\* save_chunk_data succeeds.
WriteSave(h) ==
  /\ holder[h].saver = "Writing"
  /\ disk' = [disk EXCEPT ![holder[h].pos] = holder[h].save]
  /\ holder' = [holder EXCEPT ![h].saver = "None", ![h].save = NoPayload]
  /\ UNCHANGED <<phase, epoch, maps, handles, releases, world>>

\* It fails or finds nothing to write to: mark_chunk_dirty_for_save_retry.
WriteFails(h) ==
  /\ holder[h].saver = "Writing"
  /\ holder' = [holder EXCEPT ![h].saver = "None", ![h].dirty = TRUE, ![h].save = NoPayload]
  /\ UNCHANGED <<phase, epoch, maps, storage, world>>

----------------------------------------------------------------------------
\* Shutdown: the tick loop has ended and the task tracker has waited for every task.

\* The payload save_all_chunks writes for a holder.
Payload(h) == [status |-> holder[h].status, version |-> holder[h].version]

\* Mutant: chunks that are pending unload count as saved.
SaveAllActive(failing) ==
  LET due == {h \in Holders : NeedsSave(h) /\ holder[h].pos \notin failing}
      active == {h \in due : chunks[holder[h].pos] = h}
  IN  /\ phase \in {"Idle", "Ready"}
      /\ \A h \in Holders : Unshared(h)
      /\ \A p \in Positions : releases[p] = 0
      /\ phase' = IF failing = {} THEN "Stopped" ELSE "StoppedUnsaved"
      /\ disk' = [p \in Positions |-> IF chunks[p] \in active THEN Payload(chunks[p]) ELSE disk[p]]
      /\ holder' = [h \in Holders |-> [holder[h] EXCEPT !.dirty = @ /\ h \notin due]]
      /\ UNCHANGED <<epoch, maps, handles, releases, world>>

\* save_all_chunks: every holder of both maps that needs it is saved, or keeps its flag when
\* the save of its position fails.
SaveAll(failing) ==
  LET due == {h \in Holders : NeedsSave(h) /\ holder[h].pos \notin failing}
  IN  /\ phase \in {"Idle", "Ready"}
      /\ \A h \in Holders : Unshared(h)
      /\ \A p \in Positions : releases[p] = 0
      /\ phase' = IF failing = {} THEN "Stopped" ELSE "StoppedUnsaved"
      /\ disk' = [p \in Positions |-> IF chunks[p] \in due THEN Payload(chunks[p])
                                      ELSE IF unloading[p] \in due THEN Payload(unloading[p])
                                      ELSE disk[p]]
      /\ holder' = [h \in Holders |-> [holder[h] EXCEPT !.dirty = @ /\ h \notin due]]
      /\ UNCHANGED <<epoch, maps, handles, releases, world>>

\* The process has ended.
Stopped ==
  /\ phase \in StoppedPhases
  /\ UNCHANGED vars

----------------------------------------------------------------------------
Worker ==
  \/ \E wanted, touched \in SUBSET Positions : PrepareEpoch(wanted, touched)
  \/ \E p \in Positions : KeepUnloading(p) \/ SaveUnloading(p) \/ DropUnloading(p)
  \/ \E h \in Holders : FinalizeDropped(h)
  \/ FinishEpoch

Boundary ==
  \/ StartEpoch \/ CommitStart \/ CommitEnd
  \/ \E p \in Positions : Demote(p) \/ Ignore(p) \/ Keep(p) \/ Revive(p) \/ Defer(p)
  \/ \E p \in Positions, h \in Holders : Create(p, h)

Producer(h) ==
  \/ Acquire(h) \/ AcquireFails(h) \/ CancelLoad(h) \/ ContinueLoad(h)
  \/ Load(h) \/ LoadCorrupt(h) \/ LoadFails(h) \/ Store(h) \/ CreateEmpty(h) \/ NotifyEntities(h)
  \/ RunStep(h) \/ FinishStep(h) \/ PublishStep(h)

Saver(h) ==
  \/ BeginSave(h) \/ ReadStatus(h) \/ TakeDirty(h) \/ Capture(h) \/ CaptureFails(h)
  \/ WriteSave(h) \/ WriteFails(h)

Next ==
  \/ Worker \/ Boundary
  \/ \E h \in Holders : Producer(h) \/ Saver(h) \/ StartEmpty(h) \/ StartStep(h)
  \/ \E p \in Positions : GameplayWrite(p) \/ Release(p)
  \/ \E failing \in SUBSET Positions : SaveAll(failing)
  \/ Stopped

Spec == Init /\ [][Next]_vars

\* The world thread reaches a boundary every tick, and tasks of the chunk runtime and of the
\* encoding pool run to their end.
Fairness ==
  /\ WF_vars(Worker) /\ WF_vars(Boundary)
  /\ \A h \in Holders : WF_vars(Saver(h))

FairSpec == Spec /\ Fairness

----------------------------------------------------------------------------
HolderType ==
  [pos : Positions \cup {NoPos}, life : {"Active", "Unloading", "Preparing"},
   allowed : BOOLEAN, status : Statuses, version : 0..MaxVersion, dirty : BOOLEAN,
   producer : {"None", "Acquiring", "Existing", "Missing", "Reading", "Loaded", "Storing",
               "Creating", "Notifying", "Stepping", "Written", "Finished"},
   loaded : Payloads,
   saver : {"None", "Queued", "Claimed", "Reading", "Taken", "Forced", "Writing"},
   save : Payloads]

\* Types of the maps, the holders and the storage; a handle is never released twice
\* (release_chunk).
TypeOK ==
  /\ phase \in {"Idle", "Running", "Unloading", "Ready", "Committing"} \cup StoppedPhases
  /\ ticket \in SUBSET Positions
  /\ changes \in UNION {[S -> BOOLEAN] : S \in SUBSET Positions}
  /\ staged \in SUBSET Positions
  /\ visiting \in SUBSET Positions
  /\ dropped \in SUBSET Holders
  /\ finalized \in SUBSET Holders
  /\ chunks \in [Positions -> Holders \cup {NoHolder}]
  /\ unloading \in [Positions -> Holders \cup {NoHolder}]
  /\ deferred \in SUBSET Positions
  /\ holder \in [Holders -> HolderType]
  /\ disk \in [Positions -> Payloads]
  /\ handles \in [Positions -> Nat]
  /\ releases \in [Positions -> Nat]
  /\ ticks \in SUBSET Positions
  /\ entities \in SUBSET Positions

\* A position has at most one holder; one in chunks is in the ACTIVE lifecycle and one in
\* unloading_chunks is not; PREPARING belongs to exactly the save task that set it.  These are
\* what begin_unloading and the preparation guard assert, whatever saves and revivals race.
\* And a position has a level in the ticket manager exactly when it has an active holder or a
\* deferred revival, unless a change for it waits to be committed: no revival is forgotten
\* while its holder is being saved and none survives the loss of its level.
OneOwner ==
  /\ TypeOK
  /\ \A p \in Positions :
       /\ Cardinality(Retained(p)) <= 1
       /\ chunks[p] # NoHolder => holder[chunks[p]].life = "Active"
       /\ unloading[p] # NoHolder => holder[unloading[p]].life # "Active"
  /\ \A h \in Holders :
       holder[h].life = "Preparing" <=> holder[h].saver \in {"Claimed", "Reading", "Taken", "Forced"}
  /\ \A p \in Positions \ DOMAIN changes :
       p \in ticket <=> chunks[p] # NoHolder \/ p \in deferred

\* save_all_chunks "ensures all modified chunks are persisted": after a shutdown in which no save
\* failed, the content of every holder, active or pending unload, is on disk.
ShutdownSaves ==
  phase = "Stopped" =>
    \A h \in Holders \ finalized :
      Saveable(holder[h].status) => disk[holder[h].pos].version = holder[h].version

\* Every acquired storage handle is owned: by a holder with data, by a load in progress or by a
\* release task.  A chunk that can be saved therefore always finds its region open.
HandlesBalance ==
  \A p \in Positions :
    handles[p] =
      Cardinality({h \in Retained(p) : holder[h].status >= Empty})
      + Cardinality({h \in Retained(p) : holder[h].producer \in
                       {"Existing", "Missing", "Reading", "Loaded", "Storing", "Creating"}})
      + releases[p]

\* What is registered by position follows the holders: tick containers exactly for the
\* positions with a published Full chunk, so that a new holder never meets one an old holder
\* left behind; a new holder becomes active only after the block entities of the old one have
\* left; and the entity manager knows every active chunk that has data, through demotions and
\* revivals, from the moment its load has told it.
HandoverInOrder ==
  /\ ticks = {p \in Positions : \E h \in Retained(p) : holder[h].status = Full}
  /\ \A h \in finalized : chunks[holder[h].pos] = NoHolder
  /\ \A p \in Positions :
       /\ chunks[p] # NoHolder
       /\ holder[chunks[p]].status >= Empty /\ holder[chunks[p]].producer # "Notifying"
       => p \in entities

\* The content a position has for its users.
Owner(p) == CHOOSE h \in Retained(p) : Saveable(holder[h].status)
Resident == {p \in Positions : \E h \in Retained(p) : Saveable(holder[h].status)}
Content == [p \in Positions |-> IF p \in Resident THEN holder[Owner(p)].version
                                                  ELSE disk[p].version]

Durable == INSTANCE DurableChunks WITH content <- Content, resident <- Resident

\* Whatever loads, saves, failures, unloads and revivals race, the map is a durable map: only a
\* payload that cannot be decoded is lost, while the chunk is loaded.
ContentIsDurable == Durable!Spec

\* A position whose ticket stays gets an active holder, even if a save is being prepared when
\* its holder is wanted back.
TicketServed ==
  \A p \in Positions : p \in ticket ~> (p \notin ticket \/ chunks[p] # NoHolder
                                        \/ phase \in StoppedPhases)
=============================================================================
