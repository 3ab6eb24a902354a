-------------------------- MODULE GenerationTasks --------------------------
(***************************************************************************)
(* Generation tasks and status claims: the tasks that drive a chunk to the *)
(* status its level asks for, layer by layer over its neighbours           *)
(* (steel-core/src/chunk/chunk_generation_task.rs), and the holder's       *)
(* started_work / published_status pair that lets several tasks share the  *)
(* work on one chunk (chunk_holder.rs).                                    *)
(*                                                                         *)
(* A commit changes the levels of holders one by one; the epoch worker     *)
(* then schedules tasks for the holders it returned and visits the         *)
(* unloading ones.  Tasks run up to a cap and, for each chunk of a layer,  *)
(* either claim its next status and spawn a producer or wait for the       *)
(* producer that holds the claim.                                          *)
(*                                                                         *)
(* Status 0 is "none"; 1 is Empty, Top is Full.  A level is abstracted to  *)
(* the highest status it allows.  A holder is named by its position: it is *)
(* dropped only when no task and no producer refers to it, so that none of *)
(* them ever sees its successor.  The light work window a Light step waits *)
(* for is left to LightUpdates.                                            *)
(***************************************************************************)
EXTENDS Naturals, FiniteSets

CONSTANTS
  Positions,        \* chunk positions
  Top,              \* the last status
  Layer(_, _, _),   \* Layer(c, t, s): chunks at status s in the pyramid of c at target t
  Tasks,            \* identities of ChunkGenerationTask allocations; an ended one is reused
  NoTask,           \* Option::None of a task
  NoPos,            \* the position of an identity that is not allocated
  MaxRunning,       \* max_running_generation_tasks
  Levels,           \* assignments of levels the ticket manager goes through
  Savers,           \* bound: positions whose unloading holder may need a save
  Faulty,           \* bound: positions whose load or step may fail
  MaxFailures       \* bound: failed loads and panicking steps

\* The pyramid: a layer is a square around the chunk, the chunk alone at its target, and the
\* layers of a task contain the layers each of its chunks needs (accumulated_dependencies).
ASSUME PyramidAssumption ==
  \A c \in Positions, t \in 1..Top :
    /\ Layer(c, t, t) = {c}
    /\ \A s \in 1..t : c \in Layer(c, t, s) /\ Layer(c, t, s) \subseteq Positions
    /\ \A s \in 1..t, r \in 1..t :
         r <= s => \A p \in Layer(c, t, s) : Layer(p, s, r) \subseteq Layer(c, t, r)
\* Level propagation gives every chunk of a pyramid at least the status it is needed at.
ASSUME LevelAssumption ==
  /\ Levels \subseteq [Positions -> 0..Top]
  /\ \A g \in Levels, c \in Positions : g[c] # 0 =>
       \A s \in 1..g[c] : \A p \in Layer(c, g[c], s) : g[p] >= s
ASSUME TaskAssumption == NoTask \notin Tasks /\ Savers \cup Faulty \subseteq Positions
ASSUME BoundAssumption == Top \in Nat \ {0} /\ MaxRunning \in Nat \ {0} /\ MaxFailures \in Nat

Statuses == 0..Top

VARIABLES
  panicked,  \* the epoch worker has panicked
  goal,      \* levels of the ticket manager, as allowed statuses
  todo,      \* positions of the commit's changes not applied yet
  deferred,  \* keys of ChunkMap.deferred_revivals
  active,    \* keys of ChunkMap.chunks
  save,      \* the save task of each holder
  schedule,  \* holders_to_schedule
  allowed,   \* ChunkHolder.highest_allowed_status
  started,   \* ChunkHolder.started_work
  published, \* ChunkHolder.published_status
  current,   \* ChunkHolder.generation_task
  producer,  \* the spawned producer of each holder
  task,      \* every ChunkGenerationTask
  failures   \* failures so far

levels == <<panicked, goal, todo, deferred, active, save, schedule, allowed>>
work == <<started, published, producer>>
vars == <<levels, work, current, task, failures>>

----------------------------------------------------------------------------
NoProducer == [stage |-> "None", status |-> 0, loaded |-> 0, task |-> NoTask, cache |-> {}]

\* `waits` are the futures of the layer: the task's own producer, or a waiter on a claim that
\* is asleep or has been notified.
FreeTask ==
  [stage |-> "Free", pos |-> NoPos, target |-> 0, scheduled |-> 0, left |-> {},
   waits |-> [p \in Positions |-> "None"], failed |-> FALSE, cancelled |-> FALSE]

Disallowed(p, status) == allowed[p] < status

Live == {t \in Tasks : task[t].stage # "Free"}
Running == {t \in Tasks : task[t].stage = "Running"}

\* A cancelled task schedules nothing more and drops its futures; its producers go on.
Cancelled(t) ==
  [task[t] EXCEPT !.cancelled = TRUE, !.left = {}, !.waits = [p \in Positions |-> "None"],
                  !.failed = FALSE]

\* Holders a task's cache keeps alive.
Cache(t) == IF task[t].stage = "Free" THEN {} ELSE Layer(task[t].pos, task[t].target, 1)

\* status_changed.notify_waiters.
Notify(tasks, p) ==
  [t \in Tasks |-> IF tasks[t].waits[p] = "Asleep"
                   THEN [tasks[t] EXCEPT !.waits[p] = "Notified"] ELSE tasks[t]]

\* The join handle of p's producer resolves, with a status or without one.
Resolved(p) ==
  [t \in Tasks |-> IF t = producer[p].task /\ ~task[t].cancelled
                   THEN [task[t] EXCEPT !.waits[p] = "None"] ELSE task[t]]

Broken(p) ==
  [t \in Tasks |-> IF t = producer[p].task /\ ~task[t].cancelled
                   THEN [task[t] EXCEPT !.waits[p] = "None", !.failed = TRUE] ELSE task[t]]

\* A commit applies its changes one by one; the worker of the epoch spawned by the commit then
\* schedules the holders it was given and visits the unloading ones until the next commit.
Scheduling == ~panicked /\ todo = {} /\ schedule # {}
Unloading == ~panicked /\ todo = {} /\ schedule = {}

Init ==
  /\ panicked = FALSE
  /\ goal = [p \in Positions |-> 0]
  /\ todo = {} /\ deferred = {} /\ active = {} /\ schedule = {}
  /\ save = [p \in Positions |-> "None"]
  /\ allowed = [p \in Positions |-> 0]
  /\ started = [p \in Positions |-> 0]
  /\ published = [p \in Positions |-> 0]
  /\ current = [p \in Positions |-> NoTask]
  /\ producer = [p \in Positions |-> NoProducer]
  /\ task = [t \in Tasks |-> FreeTask]
  /\ failures = 0

----------------------------------------------------------------------------
\* Commits.

\* The boundary takes a prepared epoch with new levels, and the revivals deferred by the last.
BeginCommit(g) ==
  /\ Unloading
  /\ goal' = g
  /\ todo' = {p \in Positions : g[p] # goal[p]} \cup deferred
  /\ deferred' = {}
  /\ UNCHANGED <<panicked, active, save, schedule, allowed, work, current, task, failures>>

\* update_chunk_level with a level: an active, a revived or a new holder.
RaiseOrLower(p) ==
  /\ p \in todo
  /\ goal[p] # 0
  /\ p \in active \/ save[p] # "Preparing"
  /\ active' = active \cup {p}
  /\ allowed' = [allowed EXCEPT ![p] = goal[p]]
  /\ schedule' = schedule \cup {p}
  /\ todo' = todo \ {p}
  /\ UNCHANGED <<panicked, goal, deferred, save, work, current, task, failures>>

\* update_chunk_level with a level, while the unloading holder's save is being prepared.
DeferRevival(p) ==
  /\ p \in todo
  /\ goal[p] # 0
  /\ p \notin active
  /\ save[p] = "Preparing"
  /\ deferred' = deferred \cup {p}
  /\ todo' = todo \ {p}
  /\ UNCHANGED <<panicked, goal, active, save, schedule, allowed, work, current, task, failures>>

\* update_chunk_level without a level: cancel the task, disallow every status, wake the
\* watchers, move the holder to unloading_chunks.  A position without an active holder has none
\* of these to change.
Demote(p) ==
  /\ p \in todo
  /\ goal[p] = 0
  /\ todo' = todo \ {p}
  /\ active' = active \ {p}
  /\ allowed' = [allowed EXCEPT ![p] = 0]
  /\ current' = [current EXCEPT ![p] = NoTask]
  /\ task' = Notify([t \in Tasks |-> IF t = current[p] THEN Cancelled(t) ELSE task[t]], p)
  /\ UNCHANGED <<panicked, goal, deferred, save, schedule, work, failures>>

----------------------------------------------------------------------------
\* The epoch worker.

\* schedule_chunk_generation_task_b returns false.
NothingToSchedule(p) ==
  \/ Disallowed(p, goal[p])
  \/ published[p] >= goal[p]
  \/ current[p] # NoTask /\ goal[p] <= task[current[p]].target

SkipSchedule(p) ==
  /\ Scheduling
  /\ p \in schedule
  /\ NothingToSchedule(p)
  /\ schedule' = schedule \ {p}
  /\ UNCHANGED <<panicked, goal, todo, deferred, active, save, allowed, work, current, task,
                 failures>>

\* reschedule_chunk_task_b: a new task, its cache filled from the active holders, replaces and
\* cancels the holder's task.
Schedule(p) ==
  /\ Scheduling
  /\ p \in schedule
  /\ ~NothingToSchedule(p)
  /\ Layer(p, goal[p], 1) \subseteq active
  /\ \E t \in Tasks :
       /\ task[t].stage = "Free"
       /\ current' = [current EXCEPT ![p] = t]
       /\ task' = [u \in Tasks |->
                     IF u = t
                     THEN [FreeTask EXCEPT !.stage = "Queued", !.pos = p, !.target = goal[p]]
                     ELSE IF u = current[p] THEN Cancelled(u) ELSE task[u]]
  /\ schedule' = schedule \ {p}
  /\ UNCHANGED <<panicked, goal, todo, deferred, active, save, allowed, work, failures>>

\* ChunkGenerationTask::new does not find a holder of its cache: the worker panics and never
\* hands the epoch back.
SchedulePanics(p) ==
  /\ Scheduling
  /\ p \in schedule
  /\ ~NothingToSchedule(p)
  /\ ~(Layer(p, goal[p], 1) \subseteq active)
  /\ panicked' = TRUE
  /\ UNCHANGED <<goal, todo, deferred, active, save, schedule, allowed, work, current, task,
                 failures>>

\* An unloading holder with one strong reference: no task or producer refers to it.
Unshared(p) ==
  /\ producer[p] = NoProducer
  /\ \A t \in Tasks : p \notin Cache(t)
  /\ \A q \in Positions : p \notin producer[q].cache

\* process_unloads spawns a save for an unloading holder with a chunk that is dirty or has entities
\* to save.
SpawnSave(p) ==
  /\ Unloading
  /\ p \in Savers \ (active \cup deferred)
  /\ published[p] # 0 /\ save[p] = "None" /\ Unshared(p)
  /\ save' = [save EXCEPT ![p] = "Spawned"]
  /\ UNCHANGED <<panicked, goal, todo, deferred, active, schedule, allowed, work, current, task,
                 failures>>

\* The save reserves the holder, whoever has come to share it since, unless it was revived.
BeginSave(p) ==
  /\ save[p] = "Spawned" /\ p \notin active
  /\ save' = [save EXCEPT ![p] = "Preparing"]
  /\ UNCHANGED <<panicked, goal, todo, deferred, active, schedule, allowed, work, current, task,
                 failures>>

\* The input is assembled, and the holder can be revived while it is written.
EndPreparation(p) ==
  /\ save[p] = "Preparing"
  /\ save' = [save EXCEPT ![p] = "Writing"]
  /\ UNCHANGED <<panicked, goal, todo, deferred, active, schedule, allowed, work, current, task,
                 failures>>

\* The save ends, with its write or because it could not reserve the holder.
EndSave(p) ==
  /\ save[p] = "Writing" \/ (save[p] = "Spawned" /\ p \in active)
  /\ save' = [save EXCEPT ![p] = "None"]
  /\ UNCHANGED <<panicked, goal, todo, deferred, active, schedule, allowed, work, current, task,
                 failures>>

\* Mutant: the strong count is not looked at.
DropReferenced(p) ==
  /\ Unloading
  /\ p \notin active \cup deferred
  /\ started' = [started EXCEPT ![p] = 0]
  /\ published' = [published EXCEPT ![p] = 0]
  /\ UNCHANGED <<levels, producer, current, task, failures>>

\* process_unloads drops an unloading holder with no other strong reference.
Drop(p) ==
  /\ Unloading
  /\ p \notin active \cup deferred
  /\ save[p] = "None" /\ Unshared(p)
  /\ started' = [started EXCEPT ![p] = 0]
  /\ published' = [published EXCEPT ![p] = 0]
  /\ UNCHANGED <<levels, producer, current, task, failures>>

----------------------------------------------------------------------------
\* Generation tasks.

\* run_generation_tasks_b: forget the cancelled tasks, start as many others as the cap allows.
RunGenerationTasks(chosen) ==
  LET queued == {t \in Tasks : task[t].stage = "Queued" /\ ~task[t].cancelled}
      slots == MaxRunning - Cardinality(Running)
  IN
  /\ queued # {} \/ \E t \in Tasks : task[t].stage = "Queued"
  /\ chosen \subseteq queued
  /\ Cardinality(chosen) = IF slots < Cardinality(queued) THEN slots ELSE Cardinality(queued)
  /\ task' = [t \in Tasks |->
                IF t \in chosen THEN [task[t] EXCEPT !.stage = "Running"]
                ELSE IF task[t].stage = "Queued" /\ task[t].cancelled THEN FreeTask
                ELSE task[t]]
  /\ task' # task
  /\ UNCHANGED <<levels, work, current, failures>>

Joined(t) == \A p \in Positions : task[t].waits[p] = "None"

\* schedule_next_layer, up to the loop over its chunks.
ScheduleNextLayer(t) ==
  /\ task[t].stage = "Running"
  /\ ~task[t].cancelled
  /\ task[t].left = {} /\ Joined(t) /\ ~task[t].failed
  /\ task[t].scheduled < task[t].target
  /\ task' = [task EXCEPT ![t].scheduled = @ + 1,
                          ![t].left = Layer(task[t].pos, task[t].target, task[t].scheduled + 1)]
  /\ UNCHANGED <<levels, work, current, failures>>

\* apply_step returns None: the task cancels itself.
RefuseStep(t, p) ==
  /\ task[t].stage = "Running"
  /\ ~task[t].cancelled
  /\ p \in task[t].left
  /\ Disallowed(p, task[t].scheduled)
  /\ task' = [task EXCEPT ![t] = Cancelled(t)]
  /\ UNCHANGED <<levels, work, current, failures>>

\* claim_status_work raises started_work from the parent status and a producer is spawned.
ClaimStep(t, p) ==
  /\ task[t].stage = "Running"
  /\ ~task[t].cancelled
  /\ p \in task[t].left
  /\ ~Disallowed(p, task[t].scheduled)
  /\ started[p] = task[t].scheduled - 1
  /\ started' = [started EXCEPT ![p] = task[t].scheduled]
  /\ producer' = [producer EXCEPT ![p] =
                    [stage |-> "Begin", status |-> task[t].scheduled, loaded |-> 0,
                     task |-> t, cache |-> Cache(t)]]
  /\ task' = [task EXCEPT ![t].left = @ \ {p}, ![t].waits[p] = "Own"]
  /\ UNCHANGED <<levels, published, current, failures>>

\* claim_status_work returns None: wait for the claim's holder, first checking the state.
JoinStep(t, p) ==
  /\ task[t].stage = "Running"
  /\ ~task[t].cancelled
  /\ p \in task[t].left
  /\ ~Disallowed(p, task[t].scheduled)
  /\ started[p] >= task[t].scheduled
  /\ task' = [task EXCEPT ![t].left = @ \ {p}, ![t].waits[p] = "Notified"]
  /\ UNCHANGED <<levels, work, current, failures>>

\* Mutant: a waiter polls on after the claim it waits for was abandoned.
PollClaimSpins(t, p) ==
  /\ task[t].stage = "Running"
  /\ task[t].waits[p] = "Notified"
  /\ task' = [task EXCEPT
       ![t].waits[p] = IF published[p] >= task[t].scheduled \/ Disallowed(p, task[t].scheduled)
                       THEN "None"
                       ELSE IF started[p] < task[t].scheduled THEN "Notified" ELSE "Asleep",
       ![t].failed = @ \/ /\ published[p] < task[t].scheduled
                          /\ Disallowed(p, task[t].scheduled)]
  /\ UNCHANGED <<levels, work, current, failures>>

\* One turn of the loop of await_claimed_chunk_status: the status is there, the level or the
\* claim is gone, or the waiter sleeps until it is notified.
PollClaim(t, p) ==
  /\ task[t].stage = "Running"
  /\ task[t].waits[p] = "Notified"
  /\ \/ /\ published[p] >= task[t].scheduled
        /\ task' = [task EXCEPT ![t].waits[p] = "None"]
     \/ /\ published[p] < task[t].scheduled
        /\ Disallowed(p, task[t].scheduled) \/ started[p] < task[t].scheduled
        /\ task' = [task EXCEPT ![t].waits[p] = "None", ![t].failed = TRUE]
     \/ /\ published[p] < task[t].scheduled
        /\ ~Disallowed(p, task[t].scheduled) /\ started[p] >= task[t].scheduled
        /\ task' = [task EXCEPT ![t].waits[p] = "Asleep"]
  /\ UNCHANGED <<levels, work, current, failures>>

\* run leaves its loop: the task is cancelled (schedule_layer returns and the futures are
\* dropped), a future of the layer failed, or the layer of the target is done.
Ends(t) ==
  \/ task[t].cancelled
  \/ /\ Joined(t) /\ task[t].left = {}
     /\ task[t].failed \/ task[t].scheduled = task[t].target

\* run ends and clears the holder's task if it is still this one.
EndTask(t) ==
  /\ task[t].stage = "Running"
  /\ Ends(t)
  /\ task' = [task EXCEPT ![t] = FreeTask]
  /\ current' = [p \in Positions |->
                   IF p = task[t].pos /\ current[p] = t THEN NoTask ELSE current[p]]
  /\ producer' = [p \in Positions |->
                    IF producer[p].task = t THEN [producer[p] EXCEPT !.task = NoTask]
                    ELSE producer[p]]
  /\ UNCHANGED <<levels, started, published, failures>>

----------------------------------------------------------------------------
\* Producers.

\* apply_empty_step finds the status disallowed, before or after the load.
Abandon(p) ==
  /\ producer[p].stage = "Begin"
  /\ producer[p].status = 1
  /\ Disallowed(p, 1)
  /\ producer' = [producer EXCEPT ![p].stage = "Abandoned"]
  /\ UNCHANGED <<levels, started, published, current, task, failures>>

\* Storage fails, or the step panics.
Fail(p) ==
  /\ producer[p].stage \in {"Begin", "Running"}
  /\ p \in Faulty /\ failures < MaxFailures
  /\ failures' = failures + 1
  /\ producer' = [producer EXCEPT ![p].stage = "Abandoned"]
  /\ UNCHANGED <<levels, started, published, current, task>>

\* The stored chunk is installed: mark_status_work_published precedes the publication.
InstallLoaded(p, status) ==
  /\ producer[p].stage = "Begin"
  /\ producer[p].status = 1
  /\ ~Disallowed(p, 1)
  /\ started' = [started EXCEPT ![p] = IF started[p] < status THEN status ELSE started[p]]
  /\ producer' = [producer EXCEPT ![p].stage = "Installed", ![p].loaded = status]
  /\ UNCHANGED <<levels, published, current, task, failures>>

\* run_step_task hands the step to the generation pool.
RunStep(p) ==
  /\ producer[p].stage = "Begin"
  /\ producer[p].status > 1 \/ ~Disallowed(p, 1)
  /\ producer' = [producer EXCEPT ![p].stage = "Running", ![p].loaded = producer[p].status]
  /\ UNCHANGED <<levels, started, published, current, task, failures>>

\* A loaded status is published, or a step is over and finish_generation_status publishes its
\* status; watchers are notified and the claim that is dropped then is void.
Publish(p) ==
  /\ producer[p].stage \in {"Running", "Installed"}
  /\ published' = [published EXCEPT ![p] =
                     IF published[p] < producer[p].loaded THEN producer[p].loaded
                     ELSE published[p]]
  /\ task' = Notify(Resolved(p), p)
  /\ producer' = [producer EXCEPT ![p] = NoProducer]
  /\ UNCHANGED <<levels, started, current, failures>>

\* Mutant: an abandoned claim is kept.
ReleaseClaimKeeps(p) ==
  /\ producer[p].stage = "Abandoned"
  /\ task' = Notify(Broken(p), p)
  /\ producer' = [producer EXCEPT ![p] = NoProducer]
  /\ UNCHANGED <<levels, started, published, current, failures>>

\* The claim of an abandoned producer is dropped: started_work goes back to what is published.
ReleaseClaim(p) ==
  /\ producer[p].stage = "Abandoned"
  /\ started' = [started EXCEPT ![p] =
                   IF started[p] = producer[p].status THEN published[p] ELSE started[p]]
  /\ task' = Notify(Broken(p), p)
  /\ producer' = [producer EXCEPT ![p] = NoProducer]
  /\ UNCHANGED <<levels, published, current, failures>>

----------------------------------------------------------------------------
\* The epoch never comes back; tasks and producers go on until they have nothing to do.
Halted ==
  /\ panicked
  /\ UNCHANGED vars

Epoch ==
  \E p \in Positions :
    \/ RaiseOrLower(p) \/ DeferRevival(p) \/ Demote(p)
    \/ SkipSchedule(p) \/ Schedule(p) \/ SchedulePanics(p)

Refill == \E chosen \in SUBSET Tasks : RunGenerationTasks(chosen)

TaskStep(t) ==
  \/ ScheduleNextLayer(t)
  \/ \E p \in Positions : RefuseStep(t, p) \/ ClaimStep(t, p) \/ JoinStep(t, p) \/ PollClaim(t, p)
  \/ EndTask(t)

ProducerStep(p) ==
  \/ Abandon(p)
  \/ \E status \in 1..Top : InstallLoaded(p, status)
  \/ RunStep(p)
  \/ Publish(p)
  \/ ReleaseClaim(p)

Next ==
  \/ \E g \in Levels : BeginCommit(g)
  \/ Epoch
  \/ \E p \in Positions : SpawnSave(p) \/ BeginSave(p) \/ EndPreparation(p) \/ EndSave(p)
                         \/ Drop(p)
  \/ Refill
  \/ \E t \in Tasks : TaskStep(t)
  \/ \E p \in Positions : ProducerStep(p) \/ Fail(p)
  \/ Halted

Spec == Init /\ [][Next]_vars

\* As long as some spawned task or producer can go on, one of them is polled; nothing is asked of
\* the commits, the epoch worker and the saves.
Fairness == WF_vars((\E p \in Positions : ProducerStep(p)) \/ (\E t \in Tasks : TaskStep(t)))

FairSpec == Spec /\ Fairness

----------------------------------------------------------------------------
\* Types of the holders' atomics, of the producers and of the tasks.
TypeOK ==
  /\ panicked \in BOOLEAN
  /\ goal \in [Positions -> Statuses]
  /\ {todo, deferred, active, schedule} \subseteq SUBSET Positions
  /\ save \in [Positions -> {"None", "Spawned", "Preparing", "Writing"}]
  /\ allowed \in [Positions -> Statuses]
  /\ started \in [Positions -> Statuses]
  /\ published \in [Positions -> Statuses]
  /\ current \in [Positions -> Tasks \cup {NoTask}]
  /\ producer \in
       [Positions -> [stage : {"None", "Begin", "Running", "Installed", "Abandoned"},
                      status : Statuses, loaded : Statuses, task : Tasks \cup {NoTask},
                      cache : SUBSET Positions]]
  /\ task \in
       [Tasks -> [stage : {"Free", "Queued", "Running"}, pos : Positions \cup {NoPos},
                  target : Statuses, scheduled : Statuses, left : SUBSET Positions,
                  waits : [Positions -> {"None", "Own", "Asleep", "Notified"}],
                  failed : BOOLEAN, cancelled : BOOLEAN]]
  /\ failures \in 0..MaxFailures

\* A claim and its producer come and go together: started_work is above the published status
\* exactly while a producer is at work, so that nobody waits for work that nobody does and a
\* status is never produced twice (claim_status_work, release_status_work_claim).
ClaimHasProducer ==
  /\ TypeOK
  /\ \A p \in Positions :
       IF producer[p] = NoProducer THEN started[p] = published[p]
       ELSE /\ published[p] = producer[p].status - 1
            /\ started[p] >= producer[p].status

\* The panic of claim_status_work and the assertion of apply_generated_step never fire: a live
\* task that is about to claim a status finds its parent published, whatever was cancelled,
\* abandoned, revived or dropped in between.  And a step runs only over neighbours that have
\* what it reads: every chunk of its own pyramid has published the status the step depends on,
\* until the step is over (StaticCache2D keeps the holders of the task's area alive).
DependenciesPublished ==
  /\ \A t \in Running : ~task[t].cancelled =>
       \A p \in task[t].left : published[p] >= task[t].scheduled - 1
  /\ \A p \in Positions : producer[p].stage = "Running" =>
       \A s \in 1..(producer[p].status - 1) : \A q \in Layer(p, producer[p].status, s) :
         published[q] >= s

\* Running tasks end, so that none is running any more, unless a commit changes levels under way:
\* no waiter sleeps through the publication, the demotion or the abandonment that settles it, and
\* no two tasks wait for each other (await_claimed_chunk_status, wake_all_watchers).
TasksEnd == []<>(Running = {} \/ todo # {})

\* ChunkGenerationTask::new finds every holder of its cache among the active ones: "The
\* chunkholder should be created by distance manager before the generation task is scheduled".
HoldersCreated == ~panicked
=============================================================================
