---------------------------- MODULE LightUpdates ----------------------------
(***************************************************************************)
(* Queued light updates and the save and unload of the chunks they touch   *)
(* (steel-core/src/chunk/chunk_map/light_updates.rs,                       *)
(* light_update_state.rs, chunk/light/work_gate.rs).                       *)
(*                                                                         *)
(* Block changes queue updates by centre chunk.  The world thread, the     *)
(* epoch worker and every save task drain them; each update reserves its   *)
(* window at the gate, collects the holders around the centre, writes      *)
(* light into them and then, chunk by chunk, looks each one up again to    *)
(* mark it dirty.  Meanwhile commits move holders between the maps of      *)
(* active and unloading chunks, in two steps, and process_unloads drops    *)
(* clean chunks that no update touches.                                    *)
(*                                                                         *)
(* All positions are within one window, so that any two updates exclude    *)
(* each other.  Light is abstracted to a version, an update to its centre. *)
(* Chunks have all reached Light.                                          *)
(***************************************************************************)
EXTENDS Naturals, FiniteSets

CONSTANTS
  Positions,      \* chunks of one light window
  World,          \* the world thread
  Worker,         \* the epoch worker
  Lighter,        \* a generation step to ChunkStatus::Light
  Nobody,         \* no agent
  NoPos,          \* no chunk
  MaxChanges      \* bound: queued changes

ASSUME AgentAssumption ==
  /\ World # Worker /\ Lighter # Nobody /\ {World, Worker} \cap {Lighter, Nobody} = {}
  /\ {World, Worker, Lighter, Nobody} \cap Positions = {}
  /\ NoPos \notin Positions
ASSUME WindowAssumption == IsFiniteSet(Positions)
ASSUME BoundAssumption == MaxChanges \in Nat

\* A save task is named by the chunk it saves.
Agents == {World, Worker} \cup Positions

\* A save task: none; at the head of its flush loop; has seen nothing pending; waits for what is
\* in flight; has flushed; has begun its preparation; has taken the dirty flag; has captured.
Flushing == {"Flush", "Looked", "Wait"}
SaveStages == {"None", "Flushed", "Begun", "Prepare", "Write"} \cup Flushing

VARIABLES
  place,     \* "Active", "Leaving", "Unloading", "Returning" or "Gone"
  light,     \* light data of each chunk
  dirty,     \* Chunk.dirty
  disk,      \* stored light data
  pending,   \* PendingLightUpdates: centres with a queued update
  inflight,  \* LightUpdateState.in_flight_centers
  gate,      \* who holds the window
  agent,     \* every drainer of updates
  saver,     \* save task of each chunk, one of SaveStages
  snapshot,  \* light data captured by a save
  changes,   \* changes queued so far
  owed,      \* history: centres with a change that is not applied yet
  missed     \* history: chunks a light update did not find while a commit moved them

chunk == <<place, light, dirty, disk>>
saves == <<saver, snapshot>>
history == <<changes, owed, missed>>
vars == <<chunk, pending, inflight, gate, agent, saves, history>>

----------------------------------------------------------------------------
\* A drainer: the centres its InFlightLightUpdates guard tracks, the updates left to do, those
\* the gate refused, the one it works on, the holders of its workset, the chunks left to mark and
\* one that was not found active.
IdleAgent ==
  [pc |-> "Idle", guard |-> {}, tasks |-> {}, blocked |-> {}, center |-> NoPos, refs |-> {},
   marks |-> {}, second |-> NoPos]

Found(p) == place[p] \in {"Active", "Unloading"}
Moving(p) == place[p] \in {"Leaving", "Returning"}

\* LightUpdateState.touches_chunk and has_in_flight_update_touching_chunk: every window covers
\* every position.
InFlight == \E c \in Positions : inflight[c] > 0

\* Mutant: only queued updates keep a chunk.
TouchedPending == pending # {}

Touched == pending # {} \/ InFlight

\* Strong references of updates and of the chunk's save task.
Referenced(p) == saver[p] # "None" \/ \E a \in Agents : p \in agent[a].refs

Track(centers) == [c \in Positions |-> IF c \in centers THEN inflight[c] + 1 ELSE inflight[c]]
Untrack(centers) == [c \in Positions |-> IF c \in centers THEN inflight[c] - 1 ELSE inflight[c]]

Init ==
  /\ place = [p \in Positions |-> "Active"]
  /\ light = [p \in Positions |-> 0]
  /\ dirty = [p \in Positions |-> FALSE]
  /\ disk = [p \in Positions |-> 0]
  /\ pending = {}
  /\ inflight = [p \in Positions |-> 0]
  /\ gate = Nobody
  /\ agent = [a \in Agents |-> IdleAgent]
  /\ saver = [p \in Positions |-> "None"]
  /\ snapshot = [p \in Positions |-> 0]
  /\ changes = 0
  /\ owed = {}
  /\ missed = {}

----------------------------------------------------------------------------
\* The world thread: gameplay and commits.

\* A block of an active chunk changes, which makes the chunk dirty, and the light change is queued
\* (queue_light_change).
QueueLightChange(c) ==
  /\ agent[World].pc = "Idle"
  /\ \A p \in Positions : ~Moving(p)
  /\ changes < MaxChanges
  /\ place[c] = "Active"
  /\ dirty' = [dirty EXCEPT ![c] = TRUE]
  /\ pending' = pending \cup {c}
  /\ changes' = changes + 1
  /\ owed' = owed \cup {c}
  /\ UNCHANGED <<place, light, disk, inflight, gate, agent, saves, missed>>

\* A commit moves one holder at a time, between two passes of the epoch worker.
CanCommit ==
  /\ agent[World].pc = "Idle"
  /\ agent[Worker].pc = "Idle"
  /\ \A p \in Positions : ~Moving(p)

\* update_chunk_level without a level removes the holder from chunks...
RemoveActive(p) ==
  /\ CanCommit
  /\ place[p] = "Active"
  /\ place' = [place EXCEPT ![p] = "Leaving"]
  /\ UNCHANGED <<light, dirty, disk, pending, inflight, gate, agent, saves, history>>

\* ... and inserts it into unloading_chunks.
InsertUnloading(p) ==
  /\ place[p] = "Leaving"
  /\ place' = [place EXCEPT ![p] = "Unloading"]
  /\ UNCHANGED <<light, dirty, disk, pending, inflight, gate, agent, saves, history>>

\* update_chunk_level with a level removes the holder from unloading_chunks...
RemoveUnloading(p) ==
  /\ CanCommit
  /\ place[p] = "Unloading"
  /\ place' = [place EXCEPT ![p] = "Returning"]
  /\ UNCHANGED <<light, dirty, disk, pending, inflight, gate, agent, saves, history>>

\* ... and inserts it into chunks, or back while its save is being prepared.
InsertActive(p) ==
  /\ place[p] = "Returning"
  /\ place' = [place EXCEPT ![p] = IF saver[p] \in {"Begun", "Prepare"} THEN "Unloading"
                                                                      ELSE "Active"]
  /\ UNCHANGED <<light, dirty, disk, pending, inflight, gate, agent, saves, history>>

\* A dropped chunk is loaded again.
Reload(p) ==
  /\ CanCommit
  /\ place[p] = "Gone"
  /\ place' = [place EXCEPT ![p] = "Active"]
  /\ light' = [light EXCEPT ![p] = disk[p]]
  /\ UNCHANGED <<dirty, disk, pending, inflight, gate, agent, saves, history>>

----------------------------------------------------------------------------
\* Draining: propagate_queued_light_changes by the world thread (broadcast) and by the worker
\* (process_unloads); flush_queued_light_changes_touching_chunk_for_save by save tasks.

\* drain_pending_light_updates.  The worker runs between commits.
Drain(a) ==
  /\ a \in {World, Worker}
  /\ agent[a].pc = "Idle"
  /\ \A p \in Positions : ~Moving(p)
  /\ pending # {}
  /\ agent' = [agent EXCEPT ![a] = [IdleAgent EXCEPT !.pc = "Loop", !.guard = pending, !.tasks = pending]]
  /\ inflight' = Track(pending)
  /\ pending' = {}
  /\ UNCHANGED <<chunk, gate, saves, history>>

\* try_reserve_centered succeeds.
Reserve(a, c) ==
  /\ a \in {World, Worker}
  /\ agent[a].pc = "Loop"
  /\ c \in agent[a].tasks
  /\ gate = Nobody
  /\ gate' = a
  /\ agent' = [agent EXCEPT ![a].pc = "Setup", ![a].tasks = @ \ {c}, ![a].center = c]
  /\ UNCHANGED <<chunk, pending, inflight, saves, history>>

\* try_reserve_centered fails.
Block(a, c) ==
  /\ a \in {World, Worker}
  /\ agent[a].pc = "Loop"
  /\ c \in agent[a].tasks
  /\ gate # Nobody
  /\ agent' = [agent EXCEPT ![a].tasks = @ \ {c}, ![a].blocked = @ \cup {c}]
  /\ UNCHANGED <<chunk, pending, inflight, gate, saves, history>>

\* Mutant: the in-flight guard is dropped before the blocked updates are queued again.
PrependLate(a) ==
  /\ a \in {World, Worker}
  /\ agent[a].pc = "Loop"
  /\ agent[a].tasks = {}
  /\ IF agent[a].guard # {}
     THEN /\ inflight' = Untrack(agent[a].guard)
          /\ agent' = [agent EXCEPT ![a].guard = {}]
          /\ UNCHANGED pending
     ELSE /\ pending' = pending \cup agent[a].blocked
          /\ agent' = [agent EXCEPT ![a].pc = "Finish"]
          /\ UNCHANGED inflight
  /\ UNCHANGED <<chunk, gate, saves, history>>

\* prepend_drained.
Prepend(a) ==
  /\ a \in {World, Worker}
  /\ agent[a].pc = "Loop"
  /\ agent[a].tasks = {}
  /\ pending' = pending \cup agent[a].blocked
  /\ agent' = [agent EXCEPT ![a].pc = "Finish"]
  /\ UNCHANGED <<chunk, inflight, gate, saves, history>>

\* The in-flight guard of the whole drain is dropped, after the blocked updates are queued
\* again.
FinishDrain(a) ==
  /\ a \in {World, Worker}
  /\ agent[a].pc = "Finish"
  /\ inflight' = Untrack(agent[a].guard)
  /\ agent' = [agent EXCEPT ![a] = IdleAgent]
  /\ UNCHANGED <<chunk, pending, gate, saves, history>>

\* A save task waits for the window of the next pending centre.
AwaitWindow(p, c) ==
  /\ saver[p] = "Flush"
  /\ agent[p].pc = "Idle"
  /\ c \in pending
  /\ agent' = [agent EXCEPT ![p].pc = "Await", ![p].center = c]
  /\ UNCHANGED <<chunk, pending, inflight, gate, saves, history>>

\* reserve_centered returns.
ReserveAwaited(p) ==
  /\ agent[p].pc = "Await"
  /\ gate = Nobody
  /\ gate' = p
  /\ agent' = [agent EXCEPT ![p].pc = "Drain"]
  /\ UNCHANGED <<chunk, pending, inflight, saves, history>>

\* drain_pending_light_update_for_center; somebody else may have drained it.
DrainCenter(p) ==
  /\ agent[p].pc = "Drain"
  /\ IF agent[p].center \in pending
     THEN /\ pending' = pending \ {agent[p].center}
          /\ inflight' = Track({agent[p].center})
          /\ agent' = [agent EXCEPT ![p].pc = "Setup", ![p].guard = {agent[p].center}]
          /\ UNCHANGED gate
     ELSE /\ gate' = Nobody
          /\ agent' = [agent EXCEPT ![p] = IdleAgent]
          /\ UNCHANGED <<pending, inflight>>
  /\ UNCHANGED <<chunk, saves, history>>

\* light_workset_for_change: the holders around the centre that are in one of the maps.  The
\* setup is relaxed: a chunk that is not found is left out.
Setup(a) ==
  /\ agent[a].pc = "Setup"
  /\ agent' = [agent EXCEPT ![a].pc = "Apply", ![a].refs = {p \in Positions : Found(p)}]
  /\ missed' = missed \cup {p \in Positions : Moving(p)}
  /\ UNCHANGED <<chunk, pending, inflight, gate, saves, changes, owed>>

\* Propagation writes light into chunks of the workset.
Apply(a, updated) ==
  /\ agent[a].pc = "Apply"
  /\ updated \subseteq agent[a].refs
  /\ light' = [p \in Positions |-> IF p \in updated THEN light[p] + 1 ELSE light[p]]
  /\ agent' = [agent EXCEPT ![a].pc = "Mark", ![a].marks = updated]
  /\ owed' = owed \ ({agent[a].center} \ pending)
  /\ UNCHANGED <<place, dirty, disk, pending, inflight, gate, saves, changes, missed>>

\* light_changed finds the chunk among the active ones.
MarkActive(a, p) ==
  /\ agent[a].pc = "Mark"
  /\ agent[a].second = NoPos
  /\ p \in agent[a].marks
  /\ place[p] = "Active"
  /\ dirty' = [dirty EXCEPT ![p] = TRUE]
  /\ agent' = [agent EXCEPT ![a].marks = @ \ {p}]
  /\ UNCHANGED <<place, light, disk, pending, inflight, gate, saves, history>>

\* light_changed does not find it there and goes on to the unloading ones.
LookFurther(a, p) ==
  /\ agent[a].pc = "Mark"
  /\ agent[a].second = NoPos
  /\ p \in agent[a].marks
  /\ place[p] # "Active"
  /\ agent' = [agent EXCEPT ![a].marks = @ \ {p}, ![a].second = p]
  /\ UNCHANGED <<chunk, pending, inflight, gate, saves, history>>

\* Mutant: only active chunks are marked.
MarkUnloadingNever(a) ==
  /\ agent[a].pc = "Mark"
  /\ agent[a].second # NoPos
  /\ agent' = [agent EXCEPT ![a].second = NoPos]
  /\ UNCHANGED <<chunk, pending, inflight, gate, saves, history>>

MarkUnloading(a) ==
  LET p == agent[a].second IN
  /\ agent[a].pc = "Mark"
  /\ p # NoPos
  /\ IF place[p] = "Unloading"
     THEN dirty' = [dirty EXCEPT ![p] = TRUE] /\ UNCHANGED missed
     ELSE missed' = missed \cup {p} /\ UNCHANGED dirty
  /\ agent' = [agent EXCEPT ![a].second = NoPos]
  /\ UNCHANGED <<place, light, disk, pending, inflight, gate, saves, changes, owed>>

\* propagate_queued_light_change returns and the window is released.
Finished(a) ==
  /\ agent[a].pc = "Mark"
  /\ agent[a].marks = {}
  /\ agent[a].second = NoPos

Leave(a) ==
  /\ a \in {World, Worker}
  /\ Finished(a)
  /\ gate' = Nobody
  /\ agent' = [agent EXCEPT ![a] = [IdleAgent EXCEPT !.pc = "Loop", !.guard = agent[a].guard,
                                   !.tasks = agent[a].tasks, !.blocked = agent[a].blocked]]
  /\ UNCHANGED <<chunk, pending, inflight, saves, history>>

\* Mutant: a save task that is done with an update keeps its in-flight guard.
LeaveFlushTracked(p) ==
  /\ Finished(p)
  /\ gate' = Nobody
  /\ agent' = [agent EXCEPT ![p] = IdleAgent]
  /\ UNCHANGED <<chunk, pending, inflight, saves, history>>

\* A save task drops its in-flight guard as well and looks for the next update.
LeaveFlush(p) ==
  /\ Finished(p)
  /\ gate' = Nobody
  /\ inflight' = Untrack(agent[p].guard)
  /\ agent' = [agent EXCEPT ![p] = IdleAgent]
  /\ UNCHANGED <<chunk, pending, saves, history>>

----------------------------------------------------------------------------
\* Generation of the Light status holds a window, too.
BeginLightStep ==
  /\ gate = Nobody
  /\ gate' = Lighter
  /\ UNCHANGED <<chunk, pending, inflight, agent, saves, history>>

EndLightStep ==
  /\ gate = Lighter
  /\ gate' = Nobody
  /\ UNCHANGED <<chunk, pending, inflight, agent, saves, history>>

----------------------------------------------------------------------------
\* process_unloads visits an unloading chunk, under the lock of the light updates.
Unloadable(p) ==
  /\ agent[Worker].pc = "Idle"
  /\ \A q \in Positions : ~Moving(q)
  /\ place[p] = "Unloading"
  /\ ~Touched
  /\ ~Referenced(p)

SpawnSave(p) ==
  /\ Unloadable(p)
  /\ dirty[p]
  /\ saver' = [saver EXCEPT ![p] = "Flush"]
  /\ UNCHANGED <<chunk, pending, inflight, gate, agent, snapshot, history>>

Drop(p) ==
  /\ Unloadable(p)
  /\ ~dirty[p]
  /\ place' = [place EXCEPT ![p] = "Gone"]
  /\ UNCHANGED <<light, dirty, disk, pending, inflight, gate, agent, saves, history>>

\* flush_queued_light_changes_touching_chunk_for_save finds no pending update, and looks under
\* another lock for one in flight.
LookPending(p) ==
  /\ saver[p] = "Flush"
  /\ agent[p].pc = "Idle"
  /\ pending = {}
  /\ saver' = [saver EXCEPT ![p] = "Looked"]
  /\ UNCHANGED <<chunk, pending, inflight, gate, agent, snapshot, history>>

LookInFlight(p) ==
  /\ saver[p] = "Looked"
  /\ saver' = [saver EXCEPT ![p] = IF InFlight THEN "Wait" ELSE "Flushed"]
  /\ UNCHANGED <<chunk, pending, inflight, gate, agent, snapshot, history>>

\* wait_for_in_flight_light_update_touching_chunk returns; the flush starts over.
AwaitInFlight(p) ==
  /\ saver[p] = "Wait"
  /\ ~InFlight
  /\ saver' = [saver EXCEPT ![p] = "Flush"]
  /\ UNCHANGED <<chunk, pending, inflight, gate, agent, snapshot, history>>

\* On the encoding pool: try_begin_save_preparation, which fails if the chunk has been revived.
BeginPreparation(p) ==
  /\ saver[p] = "Flushed"
  /\ saver' = [saver EXCEPT ![p] = IF place[p] = "Active" THEN "None" ELSE "Begun"]
  /\ UNCHANGED <<chunk, pending, inflight, gate, agent, snapshot, history>>

TakeDirty(p) ==
  /\ saver[p] = "Begun"
  /\ saver' = [saver EXCEPT ![p] = "Prepare"]
  /\ dirty' = [dirty EXCEPT ![p] = FALSE]
  /\ UNCHANGED <<place, light, disk, pending, inflight, gate, agent, snapshot, history>>

Capture(p) ==
  /\ saver[p] = "Prepare"
  /\ saver' = [saver EXCEPT ![p] = "Write"]
  /\ snapshot' = [snapshot EXCEPT ![p] = light[p]]
  /\ UNCHANGED <<chunk, pending, inflight, gate, agent, history>>

WriteSave(p) ==
  /\ saver[p] = "Write"
  /\ saver' = [saver EXCEPT ![p] = "None"]
  /\ snapshot' = [snapshot EXCEPT ![p] = 0]
  /\ disk' = [disk EXCEPT ![p] = snapshot[p]]
  /\ UNCHANGED <<place, light, dirty, pending, inflight, gate, agent, history>>

WriteFails(p) ==
  /\ saver[p] = "Write"
  /\ saver' = [saver EXCEPT ![p] = "None"]
  /\ snapshot' = [snapshot EXCEPT ![p] = 0]
  /\ dirty' = [dirty EXCEPT ![p] = TRUE]
  /\ UNCHANGED <<place, light, disk, pending, inflight, gate, agent, history>>

----------------------------------------------------------------------------
Move(p) == InsertUnloading(p) \/ InsertActive(p)

Propagation(a) ==
  \/ Setup(a)
  \/ \E updated \in SUBSET Positions : Apply(a, updated)
  \/ \E p \in Positions : MarkActive(a, p) \/ LookFurther(a, p)
  \/ MarkUnloading(a)

Drainer(a) ==
  \/ \E c \in Positions : Reserve(a, c) \/ Block(a, c)
  \/ Prepend(a)
  \/ FinishDrain(a)
  \/ Leave(a)

Flush(p) ==
  \/ \E c \in Positions : AwaitWindow(p, c)
  \/ ReserveAwaited(p)
  \/ DrainCenter(p)
  \/ LeaveFlush(p)

Save(p) ==
  \/ LookPending(p) \/ LookInFlight(p) \/ AwaitInFlight(p)
  \/ BeginPreparation(p) \/ TakeDirty(p) \/ Capture(p)
  \/ WriteSave(p) \/ WriteFails(p)

Next ==
  \/ \E p \in Positions :
       \/ QueueLightChange(p) \/ RemoveActive(p) \/ RemoveUnloading(p) \/ Reload(p)
       \/ Move(p) \/ Flush(p) \/ Save(p) \/ SpawnSave(p) \/ Drop(p)
  \/ \E a \in {World, Worker} : Drain(a) \/ Drainer(a)
  \/ \E a \in Agents : Propagation(a)
  \/ BeginLightStep
  \/ EndLightStep

Spec == Init /\ [][Next]_vars

\* Every thread that has begun something goes on: the world thread with its commits and drains,
\* the worker and the save tasks.  The world thread broadcasts every tick,
\* however many commits and ticks there are, so its draining is strongly fair.
Fairness ==
  /\ WF_vars((\E p \in Positions : Move(p)) \/ Drainer(World) \/ Propagation(World))
  /\ SF_vars(Drain(World))
  /\ WF_vars(Drainer(Worker) \/ Propagation(Worker))
  /\ \A p \in Positions : WF_vars(Flush(p) \/ Save(p) \/ Propagation(p))

FairSpec == Spec /\ Fairness

----------------------------------------------------------------------------
AgentType ==
  [pc : {"Idle", "Loop", "Finish", "Await", "Drain", "Setup", "Apply", "Mark"},
   guard : SUBSET Positions, tasks : SUBSET Positions, blocked : SUBSET Positions,
   center : Positions \cup {NoPos}, refs : SUBSET Positions, marks : SUBSET Positions,
   second : Positions \cup {NoPos}]

\* The type of the state.  In particular no in-flight counter underflows
\* (light_update_state.rs, finish_in_flight) or counts one drainer twice.
TypeOK ==
  /\ place \in [Positions -> {"Active", "Leaving", "Unloading", "Returning", "Gone"}]
  /\ light \in [Positions -> Nat]
  /\ dirty \in [Positions -> BOOLEAN]
  /\ disk \in [Positions -> Nat]
  /\ pending \subseteq Positions
  /\ inflight \in [Positions -> 0..Cardinality(Agents)]
  /\ gate \in Agents \cup {Lighter, Nobody}
  /\ agent \in [Agents -> AgentType]
  /\ saver \in [Positions -> SaveStages]
  /\ snapshot \in [Positions -> Nat]
  /\ changes \in 0..MaxChanges
  /\ owed \subseteq Positions
  /\ missed \subseteq Positions

\* A change that is queued and not propagated yet is visible to touches_chunk at every moment,
\* through the drain, the gate's refusal and the return to the queue: otherwise process_unloads
\* could drop, and a save could store, a chunk the change still has to reach.
OwedIsTracked ==
  /\ TypeOK
  /\ \A c \in owed : c \in pending \/ inflight[c] > 0

\* Light written into a chunk is stored, or the chunk is dirty, or being saved or about to be
\* marked; so a chunk that is dropped as clean loses no light (process_unloads, save_chunk).
\* Chunks that an update could not find because a commit had them in neither map are left out.
LightIsSaved ==
  \A p \in Positions \ missed :
    \/ disk[p] = light[p]
    \/ place[p] # "Gone" /\ dirty[p]
    \/ saver[p] = "Prepare"
    \/ saver[p] = "Write" /\ snapshot[p] = light[p]
    \/ \E a \in Agents : p \in agent[a].marks \/ p = agent[a].second

\* A chunk is dropped only when every change around it has been applied and the light of the
\* chunk is stored (process_unloads).  A save does not ensure that: its flush looks for pending
\* updates and for those in flight under two locks, so that a refused drain can put an update
\* back between the two, and the save captures the chunk without a change older than its flush.
DropIsFlushed ==
  [][\A p \in Positions :
       place[p] # "Gone" /\ place'[p] = "Gone" =>
         owed = {} /\ (p \in missed \/ disk[p] = light[p])]_vars

\* A save task's flush ends: it does not wait for ever for a window or for an update in flight,
\* unless the gate, which serves nobody in turn, refuses drains or goes to a generation step again
\* and again.  (A drain that is refused whenever a save task holds the window, and takes the
\* update away from it each time, keeps both from finishing.)
FlushEnds ==
  \A p \in Positions :
    []<>(saver[p] \notin Flushing \/ gate = Lighter \/ \E a \in Agents : agent[a].blocked # {})
=============================================================================
