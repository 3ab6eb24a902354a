-------------------- MODULE GenerationTasksProofs --------------------
(***************************************************************************)
(* The inductive invariant of GenerationTasks: how the layers of a task,   *)
(* the claims and published statuses of holders and the stages of their    *)
(* producers go together; the steps of tasks, producers, commits and       *)
(* unloads that keep it; and the theorems it gives, for any positions and  *)
(* tasks.                                                                  *)
(***************************************************************************)
EXTENDS GenerationTasks, TLAPS

TaskRecords ==
  [stage : {"Free", "Queued", "Running"}, pos : Positions \cup {NoPos},
   target : Statuses, scheduled : Statuses, left : SUBSET Positions,
   waits : [Positions -> {"None", "Own", "Asleep", "Notified"}],
   failed : BOOLEAN, cancelled : BOOLEAN]

ProducerRecords ==
  [stage : {"None", "Begin", "Running", "Installed", "Abandoned"},
   status : Statuses, loaded : Statuses, task : Tasks \cup {NoTask}, cache : SUBSET Positions]

\* The chunks a task needs at a status.
Area(t, s) == Layer(task[t].pos, task[t].target, s)

\* Every chunk of an earlier layer has published its status.  A chunk of the present layer has,
\* too, unless the task has not come to it, still waits for it, or has failed.
LayersInv(t) ==
  /\ task[t].left # {} =>
       task[t].scheduled # 0 /\ task[t].left \subseteq Area(t, task[t].scheduled)
  /\ \A q \in task[t].left : task[t].waits[q] = "None"
  /\ \A s \in 1..task[t].scheduled : \A q \in Area(t, s) :
       \/ published[q] >= s
       \/ /\ s = task[t].scheduled
          /\ q \in task[t].left \/ task[t].waits[q] # "None" \/ task[t].failed

TaskInv(t) ==
  /\ task[t].stage # "Free" =>
       /\ task[t].pos \in Positions /\ task[t].target \in 1..Top
       /\ task[t].scheduled <= task[t].target
  /\ task[t].stage = "Queued" => task[t].scheduled = 0 /\ task[t].left = {}
  /\ task[t].stage = "Running" /\ ~task[t].cancelled => LayersInv(t)

\* The neighbours a step reads are in the cache that keeps them alive, and have what it reads.
NeighboursInv(p) ==
  \A s \in 1..(producer[p].status - 1) : \A q \in Layer(p, producer[p].status, s) :
    q \in producer[p].cache /\ published[q] >= s

\* How the claim, the published status and the stage of a producer go together.
ClaimInv(p) ==
  IF producer[p].stage = "None"
  THEN producer[p] = NoProducer /\ started[p] = published[p]
  ELSE /\ producer[p].status \in 1..Top
       /\ published[p] = producer[p].status - 1
       /\ IF producer[p].stage = "Installed"
          THEN /\ producer[p].status = 1
               /\ producer[p].loaded >= 1 /\ started[p] = producer[p].loaded
          ELSE started[p] = producer[p].status
       /\ producer[p].stage = "Running" => producer[p].loaded = producer[p].status
       /\ producer[p].stage \in {"Begin", "Running"} => NeighboursInv(p)

\* The task that spawned a producer is in the layer the producer works for and waits for it,
\* unless it was cancelled.
SpawnedInv(p) ==
  producer[p].task # NoTask =>
    /\ task[producer[p].task].stage = "Running"
    /\ \/ task[producer[p].task].cancelled
       \/ /\ task[producer[p].task].waits[p] = "Own"
          /\ task[producer[p].task].scheduled = producer[p].status

TasksInv == \A t \in Tasks : TaskInv(t)
ProducersInv == \A p \in Positions : ClaimInv(p) /\ SpawnedInv(p)

WorkInv == TypeOK /\ TasksInv /\ ProducersInv

----------------------------------------------------------------------------
\* Facts about layers, records and notifications.

\* The layers of a pyramid shrink towards its target.
LEMMA LayersNest ==
  ASSUME NEW c \in Positions, NEW t \in 1..Top, NEW s \in 1..t, NEW r \in 1..s
  PROVE  Layer(c, t, s) \subseteq Layer(c, t, r) /\ Layer(c, t, s) \subseteq Positions
<1>1. Layer(c, t, s) \subseteq Positions
  BY Zenon, PyramidAssumption
<1>2. s \in 1..Top /\ r \in 1..t /\ r <= s
  BY BoundAssumption
<1>3. ASSUME NEW p \in Layer(c, t, s) PROVE p \in Layer(c, t, r)
  <2>1. p \in Positions
    BY Zenon, <1>1
  <2>2. p \in Layer(p, s, r)
    BY Zenon, <1>2, <2>1, PyramidAssumption
  <2>3. Layer(p, s, r) \subseteq Layer(c, t, r)
    BY Zenon, <1>2, PyramidAssumption
  <2>4. QED
    BY Zenon, <2>2, <2>3
<1>4. QED
  BY Zenon, <1>1, <1>3

\* The pyramid of a chunk of a task's area lies in the area.
LEMMA LayersContain ==
  ASSUME NEW c \in Positions, NEW t \in 1..Top, NEW s \in 1..t, NEW r \in 1..s,
         NEW p \in Layer(c, t, s)
  PROVE  Layer(p, s, r) \subseteq Layer(c, t, r)
<1>1. r \in 1..t /\ r <= s
  BY BoundAssumption
<1>2. QED
  BY Zenon, <1>1, PyramidAssumption

\* What a live task needs is in its cache.
LEMMA AreaIsCached ==
  ASSUME WorkInv, NEW t \in Tasks, task[t].stage # "Free", NEW s \in 1..task[t].target
  PROVE  Area(t, s) \subseteq Cache(t) /\ Cache(t) \subseteq Positions
<1>1. task[t].pos \in Positions /\ task[t].target \in 1..Top
  BY Zenon DEF WorkInv, TasksInv, TaskInv
<1>2. 1 \in 1..s /\ 1 \in 1..task[t].target
  BY <1>1, BoundAssumption
<1>3. Layer(task[t].pos, task[t].target, s) \subseteq Layer(task[t].pos, task[t].target, 1)
  BY Zenon, <1>1, <1>2, LayersNest
<1>4. Layer(task[t].pos, task[t].target, 1) \subseteq Positions
  BY <1>1, <1>2, PyramidAssumption
<1>5. QED
  BY Zenon, <1>3, <1>4 DEF Area, Cache

\* Records of tasks and producers.
LEMMA RecordTypes ==
  ASSUME TypeOK
  PROVE  /\ task \in [Tasks -> TaskRecords] /\ producer \in [Positions -> ProducerRecords]
         /\ started \in [Positions -> Statuses] /\ published \in [Positions -> Statuses]
         /\ current \in [Positions -> Tasks \cup {NoTask}]
         /\ goal \in [Positions -> Statuses] /\ allowed \in [Positions -> Statuses]
BY Zenon DEF TypeOK, TaskRecords, ProducerRecords

\* A free identity and a holder without a producer are records, too.
LEMMA ConstantTypes ==
  /\ FreeTask \in TaskRecords /\ NoProducer \in ProducerRecords /\ NoTask \notin Tasks
  /\ NoProducer.stage = "None" /\ NoProducer.task = NoTask /\ NoProducer.cache = {}
BY BoundAssumption, TaskAssumption
DEF FreeTask, NoProducer, TaskRecords, ProducerRecords, Statuses

\* The record of a task with another layer, with another future of a chunk, and of a new task.
WithLayer(r, n, area) == [r EXCEPT !.scheduled = n, !.left = area]

WithFuture(r, area, p, w) == [r EXCEPT !.left = area, !.waits = [r.waits EXCEPT ![p] = w]]

WithFailure(r, p) == [r EXCEPT !.waits = [r.waits EXCEPT ![p] = "None"], !.failed = TRUE]

NewTask(p, target) == [FreeTask EXCEPT !.stage = "Queued", !.pos = p, !.target = target]

\* Going on to a layer changes the layer and nothing else.
LEMMA LayerRecord ==
  ASSUME NEW r \in TaskRecords, NEW n \in Statuses, NEW area \in SUBSET Positions
  PROVE  /\ WithLayer(r, n, area) \in TaskRecords
         /\ WithLayer(r, n, area).stage = r.stage /\ WithLayer(r, n, area).pos = r.pos
         /\ WithLayer(r, n, area).target = r.target /\ WithLayer(r, n, area).scheduled = n
         /\ WithLayer(r, n, area).left = area /\ WithLayer(r, n, area).waits = r.waits
         /\ WithLayer(r, n, area).failed = r.failed
         /\ WithLayer(r, n, area).cancelled = r.cancelled
BY Zenon DEF TaskRecords, WithLayer

\* A future that begins or is settled belongs to one chunk.
LEMMA FutureRecord ==
  ASSUME NEW r \in TaskRecords, NEW p \in Positions, NEW area \in SUBSET Positions,
         NEW w \in {"None", "Own", "Asleep", "Notified"}
  PROVE  /\ WithFuture(r, area, p, w) \in TaskRecords
         /\ WithFuture(r, area, p, w).stage = r.stage
         /\ WithFuture(r, area, p, w).pos = r.pos
         /\ WithFuture(r, area, p, w).target = r.target
         /\ WithFuture(r, area, p, w).scheduled = r.scheduled
         /\ WithFuture(r, area, p, w).left = area
         /\ WithFuture(r, area, p, w).waits[p] = w
         /\ \A q \in Positions \ {p} : WithFuture(r, area, p, w).waits[q] = r.waits[q]
         /\ WithFuture(r, area, p, w).failed = r.failed
         /\ WithFuture(r, area, p, w).cancelled = r.cancelled
<1>1. [r.waits EXCEPT ![p] = w] \in [Positions -> {"None", "Own", "Asleep", "Notified"}]
  BY Zenon DEF TaskRecords
<1>2. QED
  BY Zenon, <1>1 DEF TaskRecords, WithFuture

\* A future that fails makes the layer fail.
LEMMA FailureRecord ==
  ASSUME NEW r \in TaskRecords, NEW p \in Positions
  PROVE  /\ WithFailure(r, p) \in TaskRecords
         /\ WithFailure(r, p).stage = r.stage /\ WithFailure(r, p).pos = r.pos
         /\ WithFailure(r, p).target = r.target /\ WithFailure(r, p).scheduled = r.scheduled
         /\ WithFailure(r, p).left = r.left /\ WithFailure(r, p).waits[p] = "None"
         /\ \A q \in Positions \ {p} : WithFailure(r, p).waits[q] = r.waits[q]
         /\ WithFailure(r, p).failed
         /\ WithFailure(r, p).cancelled = r.cancelled
<1>1. [r.waits EXCEPT ![p] = "None"] \in [Positions -> {"None", "Own", "Asleep", "Notified"}]
  BY Zenon DEF TaskRecords
<1>2. QED
  BY Zenon, <1>1 DEF TaskRecords, WithFailure

\* A new task waits in the queue with nothing scheduled.
LEMMA NewRecord ==
  ASSUME NEW p \in Positions, NEW target \in Statuses
  PROVE  /\ NewTask(p, target) \in TaskRecords
         /\ NewTask(p, target).stage = "Queued" /\ NewTask(p, target).pos = p
         /\ NewTask(p, target).target = target /\ NewTask(p, target).scheduled = 0
         /\ NewTask(p, target).left = {}
<1>1. FreeTask \in TaskRecords /\ FreeTask.scheduled = 0 /\ FreeTask.left = {}
  BY Zenon, ConstantTypes DEF FreeTask
<1>2. QED
  BY Zenon, <1>1 DEF NewTask, TaskRecords

\* A cancelled task stays where it was, with nothing left to do.
LEMMA CancelledFacts ==
  ASSUME TypeOK, NEW t \in Tasks
  PROVE  /\ Cancelled(t) \in TaskRecords
         /\ Cancelled(t).stage = task[t].stage /\ Cancelled(t).pos = task[t].pos
         /\ Cancelled(t).target = task[t].target /\ Cancelled(t).scheduled = task[t].scheduled
         /\ Cancelled(t).cancelled /\ Cancelled(t).left = {}
<1>1. task[t] \in TaskRecords
  BY Zenon, RecordTypes
<1>2. QED
  BY Zenon, <1>1 DEF Cancelled, TaskRecords

\* A notification only wakes waiters that sleep.
LEMMA NotifyFacts ==
  ASSUME NEW tasks \in [Tasks -> TaskRecords], NEW p \in Positions, NEW t \in Tasks
  PROVE  /\ Notify(tasks, p) \in [Tasks -> TaskRecords]
         /\ Notify(tasks, p)[t].stage = tasks[t].stage /\ Notify(tasks, p)[t].pos = tasks[t].pos
         /\ Notify(tasks, p)[t].target = tasks[t].target
         /\ Notify(tasks, p)[t].scheduled = tasks[t].scheduled
         /\ Notify(tasks, p)[t].left = tasks[t].left
         /\ Notify(tasks, p)[t].failed = tasks[t].failed
         /\ Notify(tasks, p)[t].cancelled = tasks[t].cancelled
         /\ \A q \in Positions :
              /\ Notify(tasks, p)[t].waits[q] = "None" <=> tasks[t].waits[q] = "None"
              /\ Notify(tasks, p)[t].waits[q] = "Own" <=> tasks[t].waits[q] = "Own"
<1>1. ASSUME NEW u \in Tasks PROVE [tasks[u] EXCEPT !.waits[p] = "Notified"] \in TaskRecords
  BY Zenon DEF TaskRecords
<1>2. Notify(tasks, p) \in [Tasks -> TaskRecords]
  BY Zenon, <1>1 DEF Notify
<1>3. tasks[t] \in TaskRecords
  BY Zenon
<1>4. CASE tasks[t].waits[p] = "Asleep"
  <2>1. Notify(tasks, p)[t] = [tasks[t] EXCEPT !.waits[p] = "Notified"]
    BY Zenon, <1>4 DEF Notify
  <2>2. QED
    BY <1>2, <1>3, <1>4, <2>1 DEF TaskRecords
<1>5. CASE tasks[t].waits[p] # "Asleep"
  BY Zenon, <1>2, <1>5 DEF Notify
<1>6. QED
  BY Zenon, <1>4, <1>5

----------------------------------------------------------------------------
\* Steps that leave a task or a producer alone.

LevelTypes ==
  /\ panicked \in BOOLEAN
  /\ goal \in [Positions -> Statuses] /\ allowed \in [Positions -> Statuses]
  /\ {todo, deferred, active, schedule} \subseteq SUBSET Positions
  /\ save \in [Positions -> {"None", "Spawned", "Preparing", "Writing"}]

WorkTypes ==
  /\ task \in [Tasks -> TaskRecords] /\ producer \in [Positions -> ProducerRecords]
  /\ started \in [Positions -> Statuses] /\ published \in [Positions -> Statuses]
  /\ current \in [Positions -> Tasks \cup {NoTask}]
  /\ failures \in 0..MaxFailures

\* A task is left where it is, cancelled or not, and keeps its futures or is cancelled.
TaskKept(t) ==
  /\ task'[t].stage = task[t].stage /\ task'[t].pos = task[t].pos
  /\ task'[t].target = task[t].target /\ task'[t].scheduled = task[t].scheduled
  /\ task'[t].left \subseteq task[t].left
  /\ \/ task'[t].cancelled
     \/ /\ ~task[t].cancelled
        /\ task'[t].left = task[t].left
        /\ task'[t].failed <=> task[t].failed
        /\ \A q \in Positions :
             /\ task'[t].waits[q] = "None" <=> task[t].waits[q] = "None"
             /\ task'[t].waits[q] = "Own" <=> task[t].waits[q] = "Own"

\* A task goes on waiting for its producer on a chunk, or is cancelled.
WaitKept(t, p) ==
  /\ task[t].stage = "Running" => task'[t].stage = "Running"
  /\ \/ task'[t].cancelled
     \/ /\ ~task[t].cancelled
        /\ task'[t].scheduled = task[t].scheduled
        /\ task[t].waits[p] = "Own" => task'[t].waits[p] = "Own"

\* A task that is left alone keeps its layers, if nothing of its cache is dropped.
LEMMA TaskKeeps ==
  ASSUME WorkInv, NEW t \in Tasks, TaskKept(t), WorkTypes',
         \A q \in Cache(t) : published'[q] >= published[q]
  PROVE  TaskInv(t)'
<1>1. TaskInv(t) /\ task[t] \in TaskRecords /\ task'[t] \in TaskRecords
  BY Zenon, RecordTypes DEF WorkInv, TasksInv, WorkTypes
<1>2. /\ task'[t].stage # "Free" =>
           /\ task'[t].pos \in Positions /\ task'[t].target \in 1..Top
           /\ task'[t].scheduled <= task'[t].target
      /\ task'[t].stage = "Queued" => task'[t].scheduled = 0 /\ task'[t].left = {}
  BY Zenon, <1>1 DEF TaskInv, TaskKept
<1>3. ASSUME task'[t].stage = "Running", ~task'[t].cancelled
      PROVE  LayersInv(t)'
  <2>1. /\ task[t].stage = "Running" /\ ~task[t].cancelled
        /\ task'[t].left = task[t].left /\ (task'[t].failed <=> task[t].failed)
        /\ \A q \in Positions : task'[t].waits[q] = "None" <=> task[t].waits[q] = "None"
        /\ task'[t].scheduled = task[t].scheduled
        /\ task'[t].pos = task[t].pos /\ task'[t].target = task[t].target
    BY Zenon, <1>3 DEF TaskKept
  <2>2. LayersInv(t)
    BY Zenon, <1>1, <2>1 DEF TaskInv
  <2>3. ASSUME NEW s \in 1..task'[t].scheduled, NEW q \in Layer(task'[t].pos, task'[t].target, s)
        PROVE  \/ published'[q] >= s
               \/ /\ s = task'[t].scheduled
                  /\ q \in task'[t].left \/ task'[t].waits[q] # "None" \/ task'[t].failed
    <3>1. s \in 1..task[t].target /\ s \in 1..task[t].scheduled /\ s \in Nat
      BY <1>1, <2>1 DEF TaskInv, TaskRecords, Statuses
    <3>2. q \in Area(t, s)
      BY Zenon, <2>1, <2>3 DEF Area
    <3>3. q \in Cache(t) /\ q \in Positions
      BY Zenon, <2>1, <3>1, <3>2, AreaIsCached
    <3>4. published'[q] >= published[q] /\ published[q] \in Nat /\ published'[q] \in Nat
      BY <3>3, RecordTypes DEF WorkInv, WorkTypes, Statuses
    <3>5. \/ published[q] >= s
          \/ /\ s = task[t].scheduled
             /\ q \in task[t].left \/ task[t].waits[q] # "None" \/ task[t].failed
      BY Zenon, <2>2, <3>1, <3>2 DEF LayersInv
    <3>6. CASE published[q] >= s
      BY <3>1, <3>4, <3>6
    <3>7. CASE /\ s = task[t].scheduled
               /\ q \in task[t].left \/ task[t].waits[q] # "None" \/ task[t].failed
      BY Zenon, <2>1, <3>3, <3>7
    <3>8. QED
      BY Zenon, <3>5, <3>6, <3>7
  <2>4. task'[t].left # {} =>
          /\ task'[t].scheduled # 0
          /\ task'[t].left \subseteq Layer(task'[t].pos, task'[t].target, task'[t].scheduled)
    BY Zenon, <2>1, <2>2 DEF LayersInv, Area
  <2>5. \A q \in task'[t].left : task'[t].waits[q] = "None"
    BY Zenon, <1>1, <2>1, <2>2 DEF LayersInv, TaskRecords
  <2>6. QED
    BY Zenon, <2>3, <2>4, <2>5 DEF LayersInv, Area
<1>4. QED
  BY Zenon, <1>2, <1>3 DEF TaskInv

\* A producer that is left alone keeps its claim and its neighbours, if nothing of its cache is
\* dropped and its task goes on waiting.
LEMMA ProducerKeeps ==
  ASSUME WorkInv, NEW p \in Positions, WorkTypes',
         producer'[p] = producer[p], started'[p] = started[p], published'[p] = published[p],
         \A q \in producer[p].cache : published'[q] >= published[q],
         producer[p].task # NoTask => WaitKept(producer[p].task, p)
  PROVE  (ClaimInv(p) /\ SpawnedInv(p))'
<1>1. /\ ClaimInv(p) /\ SpawnedInv(p) /\ producer[p] \in ProducerRecords
      /\ published \in [Positions -> Statuses]
  BY Zenon, RecordTypes DEF WorkInv, ProducersInv
<1>2. ASSUME NeighboursInv(p) PROVE NeighboursInv(p)'
  <2>1. ASSUME NEW s \in 1..(producer[p].status - 1), NEW q \in Layer(p, producer[p].status, s)
        PROVE  q \in producer[p].cache /\ published'[q] >= s
    <3>1. q \in producer[p].cache /\ published[q] >= s
      BY Zenon, <1>2 DEF NeighboursInv
    <3>2. q \in Positions /\ s \in Nat
      BY <1>1, <3>1 DEF ProducerRecords
    <3>3. published'[q] >= published[q] /\ published[q] \in Nat /\ published'[q] \in Nat
      BY <1>1, <3>1, <3>2 DEF WorkTypes, Statuses
    <3>4. QED
      BY <3>1, <3>2, <3>3
  <2>2. QED
    BY Zenon, <2>1 DEF NeighboursInv
<1>3. ClaimInv(p)'
  BY Zenon, <1>1, <1>2 DEF ClaimInv
<1>4. SpawnedInv(p)'
  BY Zenon, <1>1 DEF SpawnedInv, WaitKept
<1>5. QED
  BY Zenon, <1>3, <1>4

\* A step that changes neither tasks nor holders.
LEMMA LevelsChange ==
  ASSUME WorkInv, LevelTypes', UNCHANGED <<work, current, task, failures>>
  PROVE  WorkInv'
<1>1. WorkTypes'
  BY Zenon, RecordTypes DEF WorkInv, WorkTypes, TypeOK, work
<1>3. UNCHANGED <<started, published, producer, task>>
  BY Zenon DEF work
<1>4. TypeOK'
  BY Zenon, <1>1 DEF TypeOK, LevelTypes, WorkTypes, TaskRecords, ProducerRecords
<1>5. QED
  BY <1>3, <1>4 DEF WorkInv, TasksInv, TaskInv, LayersInv, Area, ProducersInv, ClaimInv,
     NeighboursInv, SpawnedInv

\* A task that is left alone goes on waiting for its producers.
LEMMA KeptWaits ==
  ASSUME NEW t, TaskKept(t)
  PROVE  \A p \in Positions : WaitKept(t, p)
BY Zenon DEF TaskKept, WaitKept

\* A task that does not change is left alone.
LEMMA SameIsKept ==
  ASSUME NEW t, task'[t] = task[t]
  PROVE  TaskKept(t)
BY Zenon DEF TaskKept

\* The parts of the invariant make up the invariant.
LEMMA Together ==
  ASSUME LevelTypes', WorkTypes', \A t \in Tasks : TaskInv(t)',
         \A p \in Positions : (ClaimInv(p) /\ SpawnedInv(p))'
  PROVE  WorkInv'
<1>1. TypeOK'
  BY Zenon DEF TypeOK, LevelTypes, WorkTypes, TaskRecords, ProducerRecords
<1>2. QED
  BY Zenon, <1>1 DEF WorkInv, TasksInv, ProducersInv

\* The types of what a step leaves alone.
LEMMA Typed ==
  ASSUME WorkInv
  PROVE  LevelTypes /\ WorkTypes
BY Zenon, RecordTypes DEF WorkInv, TypeOK, LevelTypes, WorkTypes

\* A cache holds positions.
LEMMA CachesArePositions ==
  ASSUME WorkInv, NEW t \in Tasks
  PROVE  Cache(t) \subseteq Positions
<1>1. CASE task[t].stage = "Free"
  BY Zenon, <1>1 DEF Cache
<1>2. CASE task[t].stage # "Free"
  <2>1. 1 \in 1..task[t].target
    BY <1>2, BoundAssumption DEF WorkInv, TasksInv, TaskInv
  <2>2. QED
    BY Zenon, <1>2, <2>1, AreaIsCached
<1>3. QED
  BY Zenon, <1>1, <1>2

\* A step that only cancels or wakes tasks.
LEMMA TasksKeep ==
  ASSUME WorkInv, LevelTypes', WorkTypes', UNCHANGED work, \A t \in Tasks : TaskKept(t)
  PROVE  WorkInv'
<1>1. \A q \in Positions : published'[q] >= published[q]
  BY DEF work, WorkTypes, Statuses
<1>2. ASSUME NEW t \in Tasks PROVE TaskInv(t)'
  <2>1. Cache(t) \subseteq Positions
    BY Zenon, CachesArePositions
  <2>2. QED
    BY Zenon, <1>1, <2>1, TaskKeeps
<1>3. ASSUME NEW p \in Positions PROVE (ClaimInv(p) /\ SpawnedInv(p))'
  <2>1. producer[p] \in ProducerRecords
    BY Zenon, Typed DEF WorkTypes
  <2>2. \A q \in producer[p].cache : published'[q] >= published[q]
    BY Zenon, <1>1, <2>1 DEF ProducerRecords
  <2>3. producer[p].task # NoTask => WaitKept(producer[p].task, p)
    BY Zenon, <2>1, KeptWaits DEF ProducerRecords
  <2>4. QED
    BY Zenon, <2>2, <2>3, ProducerKeeps DEF work
<1>4. QED
  BY Zenon, <1>2, <1>3, Together

----------------------------------------------------------------------------
\* Commits and the epoch worker.

\* The steps of a commit that give levels, and those of the epoch worker that schedule nothing,
\* do not touch tasks and producers.
LEMMA CommitKeeps ==
  ASSUME WorkInv,
         \/ \E g \in Levels : BeginCommit(g)
         \/ \E p \in Positions :
              \/ RaiseOrLower(p) \/ DeferRevival(p) \/ SkipSchedule(p) \/ SchedulePanics(p)
              \/ SpawnSave(p) \/ BeginSave(p) \/ EndPreparation(p) \/ EndSave(p)
  PROVE  WorkInv'
<1>1. LevelTypes
  BY Zenon, Typed
<1>2. LevelTypes' /\ UNCHANGED <<work, current, task, failures>>
  <2>1. CASE \E g \in Levels : BeginCommit(g)
    BY Zenon, <1>1, <2>1, LevelAssumption DEF BeginCommit, LevelTypes, Statuses
  <2>2. ASSUME NEW p \in Positions, RaiseOrLower(p)
        PROVE  LevelTypes' /\ UNCHANGED <<work, current, task, failures>>
    BY Zenon, <1>1, <2>2 DEF RaiseOrLower, LevelTypes
  <2>3. ASSUME NEW p \in Positions,
               DeferRevival(p) \/ SkipSchedule(p) \/ SchedulePanics(p)
        PROVE  LevelTypes' /\ UNCHANGED <<work, current, task, failures>>
    <3>1. CASE DeferRevival(p)
      BY Zenon, <1>1, <3>1 DEF DeferRevival, LevelTypes
    <3>2. CASE SkipSchedule(p)
      BY Zenon, <1>1, <3>2 DEF SkipSchedule, LevelTypes
    <3>3. CASE SchedulePanics(p)
      BY Zenon, <1>1, <3>3 DEF SchedulePanics, LevelTypes
    <3>4. QED
      BY Zenon, <2>3, <3>1, <3>2, <3>3
  <2>4. ASSUME NEW p \in Positions,
               SpawnSave(p) \/ BeginSave(p) \/ EndPreparation(p) \/ EndSave(p)
        PROVE  LevelTypes' /\ UNCHANGED <<work, current, task, failures>>
    <3>1. PICK s \in {"None", "Spawned", "Preparing", "Writing"} : save' = [save EXCEPT ![p] = s]
      BY Zenon, <2>4 DEF SpawnSave, BeginSave, EndPreparation, EndSave
    <3>2. /\ UNCHANGED <<panicked, goal, todo, deferred, active, schedule, allowed>>
          /\ UNCHANGED <<work, current, task, failures>>
      BY Zenon, <2>4 DEF SpawnSave, BeginSave, EndPreparation, EndSave
    <3>3. QED
      BY Zenon, <1>1, <3>1, <3>2 DEF LevelTypes
  <2>5. QED
    BY Zenon, <2>1, <2>2, <2>3, <2>4
<1>3. QED
  BY Zenon, <1>2, LevelsChange

\* A demotion cancels the holder's task and wakes who waits for the holder.
LEMMA DemoteKeeps ==
  ASSUME WorkInv, NEW p \in Positions, Demote(p)
  PROVE  WorkInv'
<1> DEFINE M == [t \in Tasks |-> IF t = current[p] THEN Cancelled(t) ELSE task[t]]
<1>1. LevelTypes /\ WorkTypes /\ TypeOK
  BY Zenon, Typed DEF WorkInv
<1>2. \A t \in Tasks : Cancelled(t) \in TaskRecords
  BY Zenon, <1>1, CancelledFacts
<1>3. M \in [Tasks -> TaskRecords]
  BY Zenon, <1>1, <1>2 DEF WorkTypes
<1>4. task' = Notify(M, p)
  BY Zenon DEF Demote
<1>5. ASSUME NEW t \in Tasks PROVE TaskKept(t)
  <2>1. /\ M[t].stage = task[t].stage /\ M[t].pos = task[t].pos
        /\ M[t].target = task[t].target /\ M[t].scheduled = task[t].scheduled
        /\ M[t] = task[t] \/ (M[t].cancelled /\ M[t].left = {})
    BY Zenon, <1>1, CancelledFacts
  <2> HIDE DEF M
  <2>2. QED
    BY <1>3, <1>4, <2>1, NotifyFacts DEF TaskKept
<1> HIDE DEF M
<1>6. task' \in [Tasks -> TaskRecords]
  <2>1. CASE Tasks = {}
    BY Zenon, <1>3, <1>4, <2>1 DEF Notify
  <2>2. CASE Tasks # {}
    BY Zenon, <1>3, <1>4, <2>2, NotifyFacts
  <2>3. QED
    BY Zenon, <2>1, <2>2
<1>7. LevelTypes' /\ WorkTypes' /\ UNCHANGED work
  BY Zenon, <1>1, <1>6, BoundAssumption DEF Demote, LevelTypes, WorkTypes, Statuses, work
<1>8. QED
  BY Zenon, <1>5, <1>7, TasksKeep

\* A new task replaces and cancels the holder's task.
LEMMA ScheduleKeeps ==
  ASSUME WorkInv, NEW p \in Positions, Schedule(p)
  PROVE  WorkInv'
<1> DEFINE new == NewTask(p, goal[p])
<1>1. LevelTypes /\ WorkTypes /\ TypeOK
  BY Typed DEF WorkInv
<1>2. goal[p] \in 1..Top
  BY <1>1, BoundAssumption DEF Schedule, NothingToSchedule, LevelTypes, WorkTypes, Statuses
<1>3. PICK t \in Tasks :
        /\ task[t].stage = "Free"
        /\ current' = [current EXCEPT ![p] = t]
        /\ task' = [u \in Tasks |-> IF u = t THEN new
                                    ELSE IF u = current[p] THEN Cancelled(u) ELSE task[u]]
  BY Zenon DEF Schedule, NewTask
<1>4. /\ new \in TaskRecords
      /\ new.stage = "Queued" /\ new.pos = p /\ new.target = goal[p] /\ new.scheduled = 0
      /\ new.left = {}
  BY <1>2, NewRecord DEF Statuses
<1> HIDE DEF new
<1>5. \A u \in Tasks : Cancelled(u) \in TaskRecords
  BY Zenon, <1>1, CancelledFacts
<1>6. task' \in [Tasks -> TaskRecords]
  BY Zenon, <1>1, <1>3, <1>4, <1>5 DEF WorkTypes
<1>7. LevelTypes' /\ WorkTypes' /\ UNCHANGED work
  BY <1>1, <1>3, <1>6 DEF Schedule, LevelTypes, WorkTypes, work
<1>8. ASSUME NEW u \in Tasks, u # t PROVE TaskKept(u)
  <2>1. CASE u = current[p]
    <3>1. task'[u] = Cancelled(u)
      BY Zenon, <1>3, <1>8, <2>1
    <3>2. QED
      BY Zenon, <1>1, <3>1, CancelledFacts DEF TaskKept
  <2>2. CASE u # current[p]
    BY Zenon, <1>3, <1>8, <2>2, SameIsKept
  <2>3. QED
    BY Zenon, <2>1, <2>2
<1>9. \A q \in Positions : published'[q] >= published[q]
  BY <1>1, <1>7 DEF work, WorkTypes, Statuses
<1>10. ASSUME NEW u \in Tasks PROVE TaskInv(u)'
  <2>1. CASE u = t
    <3>1. task'[u] = new
      BY Zenon, <1>3, <2>1
    <3>2. QED
      BY <1>2, <1>4, <3>1 DEF TaskInv
  <2>2. CASE u # t
    <3>1. Cache(u) \subseteq Positions
      BY Zenon, CachesArePositions
    <3>2. QED
      BY Zenon, <1>7, <1>8, <1>9, <2>2, <3>1, TaskKeeps
  <2>3. QED
    BY Zenon, <2>1, <2>2
<1>11. ASSUME NEW q \in Positions PROVE (ClaimInv(q) /\ SpawnedInv(q))'
  <2>1. producer[q] \in ProducerRecords /\ SpawnedInv(q)
    BY Zenon, <1>1 DEF WorkTypes, WorkInv, ProducersInv
  <2>2. \A x \in producer[q].cache : published'[x] >= published[x]
    BY Zenon, <1>9, <2>1 DEF ProducerRecords
  <2>3. producer[q].task # t
    BY Zenon, <1>3, <2>1, TaskAssumption DEF SpawnedInv
  <2>4. producer[q].task # NoTask => WaitKept(producer[q].task, q)
    BY Zenon, <1>8, <2>1, <2>3, KeptWaits DEF ProducerRecords
  <2>5. QED
    BY Zenon, <1>7, <2>2, <2>4, ProducerKeeps DEF work
<1>12. QED
  BY Zenon, <1>7, <1>10, <1>11, Together

\* A holder that is dropped is in no cache.
LEMMA DropKeeps ==
  ASSUME WorkInv, NEW p \in Positions, Drop(p)
  PROVE  WorkInv'
<1>1. LevelTypes /\ WorkTypes
  BY Zenon, Typed
<1>2. /\ UNCHANGED <<producer, task>> /\ LevelTypes' /\ WorkTypes'
      /\ started'[p] = 0 /\ published'[p] = 0
      /\ \A q \in Positions \ {p} : started'[q] = started[q] /\ published'[q] = published[q]
  BY <1>1, BoundAssumption DEF Drop, levels, LevelTypes, WorkTypes, Statuses
<1>3. /\ producer[p] = NoProducer
      /\ \A t \in Tasks : p \notin Cache(t)
      /\ \A q \in Positions : p \notin producer[q].cache
  BY Zenon DEF Drop, Unshared
<1>4. \A q \in Positions \ {p} : published'[q] >= published[q]
  BY <1>1, <1>2 DEF WorkTypes, Statuses
<1>5. ASSUME NEW t \in Tasks PROVE TaskInv(t)'
  BY Zenon, <1>2, <1>3, <1>4, CachesArePositions, SameIsKept, TaskKeeps
<1>6. ASSUME NEW q \in Positions, q # p PROVE (ClaimInv(q) /\ SpawnedInv(q))'
  <2>1. producer[q] \in ProducerRecords
    BY Zenon, <1>1 DEF WorkTypes
  <2>2. \A x \in producer[q].cache : published'[x] >= published[x]
    BY Zenon, <1>3, <1>4, <2>1 DEF ProducerRecords
  <2>3. producer[q].task # NoTask => WaitKept(producer[q].task, q)
    BY Zenon, <1>2, SameIsKept, KeptWaits
  <2>4. QED
    BY Zenon, <1>2, <1>6, <2>2, <2>3, ProducerKeeps
<1>7. (ClaimInv(p) /\ SpawnedInv(p))'
  BY Zenon, <1>2, <1>3, ConstantTypes DEF ClaimInv, SpawnedInv
<1>8. QED
  BY Zenon, <1>2, <1>5, <1>6, <1>7, Together

\* Tasks.

\* The producers of a step that only changes tasks, all of which go on waiting.
LEMMA WaitsKeep ==
  ASSUME WorkInv, WorkTypes', UNCHANGED <<started, published, producer>>,
         \A t \in Tasks, p \in Positions : producer[p].task = t => WaitKept(t, p)
  PROVE  \A p \in Positions : (ClaimInv(p) /\ SpawnedInv(p))'
<1> TAKE p \in Positions
<1>1. producer[p] \in ProducerRecords /\ \A q \in Positions : published[q] \in Nat
  BY Typed DEF WorkTypes, Statuses
<1>2. \A q \in producer[p].cache : published'[q] >= published[q]
  BY <1>1 DEF ProducerRecords
<1>3. producer[p].task # NoTask => WaitKept(producer[p].task, p)
  BY Zenon, <1>1 DEF ProducerRecords
<1>4. QED
  BY Zenon, <1>2, <1>3, ProducerKeeps

\* A task that does not change keeps its invariant if no status is taken back.
LEMMA SameTaskKeeps ==
  ASSUME WorkInv, NEW t \in Tasks, task'[t] = task[t], WorkTypes',
         \A q \in Positions : published'[q] >= published[q]
  PROVE  TaskInv(t)'
BY Zenon, CachesArePositions, SameIsKept, TaskKeeps

\* Tasks start with nothing scheduled; cancelled ones are forgotten.
LEMMA RefillKeeps ==
  ASSUME WorkInv, NEW chosen \in SUBSET Tasks, RunGenerationTasks(chosen)
  PROVE  WorkInv'
<1>1. LevelTypes /\ WorkTypes /\ TasksInv
  BY Zenon, Typed DEF WorkInv
<1>2. \A t \in chosen : task[t].stage = "Queued" /\ ~task[t].cancelled
  BY Zenon DEF RunGenerationTasks
<1>3. task' = [t \in Tasks |->
                IF t \in chosen THEN [task[t] EXCEPT !.stage = "Running"]
                ELSE IF task[t].stage = "Queued" /\ task[t].cancelled THEN FreeTask
                ELSE task[t]]
  BY Zenon DEF RunGenerationTasks
<1>4. \A t \in Tasks : [task[t] EXCEPT !.stage = "Running"] \in TaskRecords
  BY <1>1 DEF WorkTypes, TaskRecords
<1>5. task' \in [Tasks -> TaskRecords]
  BY Zenon, <1>1, <1>3, <1>4, ConstantTypes DEF WorkTypes
<1>6. LevelTypes' /\ WorkTypes' /\ UNCHANGED <<started, published, producer>>
  BY Zenon, <1>1, <1>5 DEF RunGenerationTasks, levels, work, LevelTypes, WorkTypes
<1>7. ASSUME NEW t \in Tasks PROVE TaskInv(t)'
  <2>1. CASE t \in chosen
    <3>1. task[t] \in TaskRecords /\ TaskInv(t) /\ task[t].stage = "Queued"
      BY Zenon, <1>1, <1>2, <2>1 DEF WorkTypes, TasksInv
    <3>2. task'[t] = [task[t] EXCEPT !.stage = "Running"]
      BY Zenon, <1>3, <2>1
    <3>3. /\ task'[t].stage = "Running" /\ task'[t].pos = task[t].pos
          /\ task'[t].target = task[t].target /\ task'[t].scheduled = 0 /\ task'[t].left = {}
      BY Zenon, <3>1, <3>2 DEF TaskRecords, TaskInv
    <3>4. LayersInv(t)'
      BY <3>3 DEF LayersInv
    <3>5. QED
      BY Zenon, <3>1, <3>3, <3>4 DEF TaskInv
  <2>2. CASE t \notin chosen /\ task[t].stage = "Queued" /\ task[t].cancelled
    <3>1. task'[t] = FreeTask /\ FreeTask.stage = "Free"
      BY Zenon, <1>3, <2>2 DEF FreeTask
    <3>2. QED
      BY Zenon, <3>1 DEF TaskInv
  <2>3. CASE t \notin chosen /\ ~(task[t].stage = "Queued" /\ task[t].cancelled)
    <3>1. task'[t] = task[t]
      BY Zenon, <1>3, <2>3
    <3>2. \A q \in Positions : published'[q] >= published[q]
      BY <1>1, <1>6 DEF WorkTypes, Statuses
    <3>3. QED
      BY Zenon, <1>6, <3>1, <3>2, SameTaskKeeps
  <2>4. QED
    BY Zenon, <2>1, <2>2, <2>3
<1>8. ASSUME NEW t \in Tasks, NEW p \in Positions, producer[p].task = t PROVE WaitKept(t, p)
  <2>1. task[t].stage = "Running"
    BY Zenon, <1>8, TaskAssumption DEF WorkInv, ProducersInv, SpawnedInv
  <2>2. task'[t] = task[t]
    BY Zenon, <1>2, <1>3, <2>1
  <2>3. QED
    BY Zenon, <2>2, SameIsKept, KeptWaits
<1>9. QED
  BY Zenon, <1>6, <1>7, <1>8, WaitsKeep, Together

\* A task goes on to the next layer when the present one is published.
LEMMA NextLayerKeeps ==
  ASSUME WorkInv, NEW t \in Tasks, ScheduleNextLayer(t)
  PROVE  WorkInv'
<1> DEFINE n == task[t].scheduled
<1>1. /\ LevelTypes /\ WorkTypes /\ TaskInv(t) /\ task[t] \in TaskRecords
      /\ task[t].stage = "Running" /\ ~task[t].cancelled /\ task[t].left = {}
      /\ ~task[t].failed /\ n < task[t].target /\ n \in Nat
      /\ \A p \in Positions : task[t].waits[p] = "None"
  BY Typed DEF WorkInv, TasksInv, WorkTypes, TaskRecords, Statuses, ScheduleNextLayer, Joined
<1>2. task[t].pos \in Positions /\ task[t].target \in 1..Top /\ n + 1 \in 1..task[t].target
  BY <1>1 DEF TaskInv
<1>3. Area(t, n + 1) \subseteq Positions
  BY <1>2, PyramidAssumption DEF Area
<1>4. /\ task'[t] = WithLayer(task[t], n + 1, Area(t, n + 1))
      /\ \A u \in Tasks \ {t} : task'[u] = task[u]
      /\ DOMAIN task' = Tasks /\ task' = [u \in Tasks |-> task'[u]]
  BY Zenon, <1>1 DEF ScheduleNextLayer, Area, WorkTypes, WithLayer
<1>5. /\ task'[t] \in TaskRecords
      /\ task'[t].stage = "Running" /\ task'[t].pos = task[t].pos
      /\ task'[t].target = task[t].target /\ task'[t].scheduled = n + 1
      /\ task'[t].left = Area(t, n + 1) /\ ~task'[t].cancelled
      /\ task'[t].waits = task[t].waits
  <2>1. n + 1 \in Statuses
    BY <1>2, BoundAssumption DEF Statuses
  <2>2. QED
    BY <1>1, <1>3, <1>4, <2>1, LayerRecord
<1>6. task' \in [Tasks -> TaskRecords]
  BY Zenon, <1>1, <1>4, <1>5 DEF WorkTypes
<1>7. LevelTypes' /\ WorkTypes' /\ UNCHANGED <<started, published, producer>>
  BY Zenon, <1>1, <1>6 DEF ScheduleNextLayer, levels, work, LevelTypes, WorkTypes
<1>8. \A q \in Positions : published'[q] >= published[q]
  BY <1>1, <1>7 DEF WorkTypes, Statuses
<1>9. TaskInv(t)'
  <2>1. LayersInv(t)
    BY Zenon, <1>1 DEF TaskInv
  <2>2. ASSUME NEW s \in 1..(n + 1), NEW q \in Area(t, s)
        PROVE  published[q] >= s \/ (s = n + 1 /\ q \in Area(t, n + 1))
    <3>1. CASE s = n + 1
      BY Zenon, <3>1
    <3>2. CASE s # n + 1
      <4>1. s \in 1..n
        BY <1>1, <3>2
      <4>2. s \in 1..task[t].target
        BY <1>2, <4>1
      <4>3. q \in Positions
        BY <1>2, <4>2, PyramidAssumption DEF Area
      <4>4. QED
        BY Zenon, <1>1, <2>1, <4>1, <4>3 DEF LayersInv
    <3>3. QED
      BY Zenon, <3>1, <3>2
  <2> HIDE DEF n
  <2>3. LayersInv(t)'
    BY <1>1, <1>3, <1>5, <1>7, <2>2 DEF LayersInv, Area
  <2>4. QED
    BY <1>2, <1>5, <2>3 DEF TaskInv
<1>10. \A u \in Tasks \ {t} : TaskInv(u)'
  BY Zenon, <1>4, <1>7, <1>8, SameTaskKeeps
<1>11. ASSUME NEW u \in Tasks, NEW p \in Positions, producer[p].task = u PROVE WaitKept(u, p)
  <2>1. u # t
    BY Zenon, <1>1, <1>11, TaskAssumption DEF WorkInv, ProducersInv, SpawnedInv
  <2>2. QED
    BY Zenon, <1>4, <2>1, SameIsKept, KeptWaits
<1>12. QED
  BY Zenon, <1>7, <1>9, <1>10, <1>11, WaitsKeep, Together

\* What a task that comes to a chunk of its layer knows of the chunk and of its neighbours.
LEMMA LeftFacts ==
  ASSUME WorkInv, NEW t \in Tasks, task[t].stage = "Running", ~task[t].cancelled,
         NEW p \in task[t].left
  PROVE  /\ task[t].pos \in Positions /\ task[t].target \in 1..Top
         /\ task[t].scheduled \in 1..task[t].target /\ p \in Positions
         /\ p \in Area(t, task[t].scheduled) /\ task[t].waits[p] = "None"
         /\ published[p] >= task[t].scheduled - 1
         /\ \A s \in 1..(task[t].scheduled - 1) : \A q \in Area(t, s) : published[q] >= s
<1> DEFINE n == task[t].scheduled
<1>1. TaskInv(t) /\ LayersInv(t) /\ task[t] \in TaskRecords /\ WorkTypes
  BY Zenon, Typed DEF WorkInv, TasksInv, TaskInv, WorkTypes
<1>2. /\ task[t].pos \in Positions /\ task[t].target \in 1..Top
      /\ n \in 1..task[t].target /\ n \in Nat /\ p \in Positions /\ p \in Area(t, n)
      /\ task[t].waits[p] = "None"
  BY <1>1 DEF TaskInv, LayersInv, TaskRecords, Statuses
<1>3. \A s \in 1..(n - 1) : \A q \in Area(t, s) : published[q] >= s
  BY <1>1, <1>2 DEF LayersInv
<1>4. published[p] >= n - 1
  <2>1. CASE n = 1
    BY <1>1, <1>2, <2>1 DEF WorkTypes, Statuses
  <2>2. CASE n # 1
    <3>1. n - 1 \in 1..(n - 1) /\ n - 1 \in 1..n
      BY <1>2, <2>2
    <3>2. p \in Area(t, n - 1)
      BY <1>2, <3>1, LayersNest DEF Area
    <3>3. QED
      BY Zenon, <1>3, <3>1, <3>2
  <2>3. QED
    BY Zenon, <2>1, <2>2
<1>5. QED
  BY Zenon, <1>2, <1>3, <1>4

\* The future of a chunk begins, is settled or fails; a task's other chunks are left alone.
ChunkSettled(t, p) ==
  /\ task'[t].stage = task[t].stage /\ task'[t].pos = task[t].pos
  /\ task'[t].target = task[t].target /\ task'[t].scheduled = task[t].scheduled
  /\ task'[t].cancelled <=> task[t].cancelled
  /\ task'[t].left = task[t].left \ {p}
  /\ task[t].failed => task'[t].failed
  /\ \A q \in Positions \ {p} : task'[t].waits[q] = "None" <=> task[t].waits[q] = "None"
  /\ \/ task'[t].waits[p] # "None"
     \/ task'[t].failed
     \/ published'[p] >= task[t].scheduled

\* A task with such a change keeps its layers, if no status is taken back.
LEMMA SettledKeeps ==
  ASSUME WorkInv, NEW t \in Tasks, NEW p \in Positions, ChunkSettled(t, p), WorkTypes',
         \A q \in Positions : published'[q] >= published[q]
  PROVE  TaskInv(t)'
<1>1. TaskInv(t) /\ task[t] \in TaskRecords /\ task'[t] \in TaskRecords /\ WorkTypes
  BY Zenon, Typed DEF WorkInv, TasksInv, WorkTypes
<1>2. /\ task'[t].stage # "Free" =>
           /\ task'[t].pos \in Positions /\ task'[t].target \in 1..Top
           /\ task'[t].scheduled <= task'[t].target
      /\ task'[t].stage = "Queued" => task'[t].scheduled = 0 /\ task'[t].left = {}
  BY Zenon, <1>1 DEF TaskInv, ChunkSettled
<1>3. ASSUME task'[t].stage = "Running", ~task'[t].cancelled
      PROVE  LayersInv(t)'
  <2>1. task[t].stage = "Running" /\ ~task[t].cancelled /\ LayersInv(t)
    BY Zenon, <1>1, <1>3 DEF ChunkSettled, TaskInv
  <2>2. task'[t].left # {} =>
          /\ task'[t].scheduled # 0
          /\ task'[t].left \subseteq Layer(task'[t].pos, task'[t].target, task'[t].scheduled)
    BY Zenon, <2>1 DEF LayersInv, Area, ChunkSettled
  <2>3. ASSUME NEW s \in 1..task'[t].scheduled, NEW q \in Layer(task'[t].pos, task'[t].target, s)
        PROVE  \/ published'[q] >= s
               \/ /\ s = task'[t].scheduled
                  /\ q \in task'[t].left \/ task'[t].waits[q] # "None" \/ task'[t].failed
    <3>1. s \in 1..task[t].target /\ s \in 1..task[t].scheduled /\ s \in Nat
      BY <1>1, <2>1 DEF TaskInv, ChunkSettled, TaskRecords, Statuses
    <3>2. q \in Area(t, s)
      BY Zenon, <2>3 DEF Area, ChunkSettled
    <3>3. q \in Positions
      BY Zenon, <2>1, <3>1, <3>2, AreaIsCached
    <3>4. published'[q] >= published[q] /\ published[q] \in Nat /\ published'[q] \in Nat
      BY <1>1, <3>3 DEF WorkTypes, Statuses
    <3>5. CASE published[q] >= s
      BY <3>1, <3>4, <3>5
    <3>6. CASE ~(published[q] >= s)
      <4>1. /\ s = task[t].scheduled /\ s = task'[t].scheduled
            /\ q \in task[t].left \/ task[t].waits[q] # "None" \/ task[t].failed
        BY Zenon, <2>1, <3>1, <3>2, <3>6 DEF LayersInv, ChunkSettled
      <4>2. QED
        BY Zenon, <3>3, <4>1 DEF ChunkSettled
    <3>7. QED
      BY Zenon, <3>5, <3>6
  <2>4. \A q \in task'[t].left : task'[t].waits[q] = "None"
    BY Zenon, <1>1, <2>1 DEF LayersInv, ChunkSettled, TaskRecords
  <2>5. QED
    BY Zenon, <2>2, <2>3, <2>4 DEF LayersInv, Area
<1>4. QED
  BY Zenon, <1>2, <1>3 DEF TaskInv

\* A disallowed status cancels the task.
LEMMA RefuseKeeps ==
  ASSUME WorkInv, NEW t \in Tasks, NEW p \in Positions, RefuseStep(t, p)
  PROVE  WorkInv'
<1>1. LevelTypes /\ WorkTypes /\ TypeOK
  BY Zenon, Typed DEF WorkInv
<1>2. Cancelled(t) \in TaskRecords
  BY Zenon, <1>1, CancelledFacts
<1>3. /\ task'[t] = Cancelled(t) /\ task' \in [Tasks -> TaskRecords]
      /\ \A u \in Tasks \ {t} : task'[u] = task[u]
  BY Zenon, <1>1, <1>2 DEF RefuseStep, WorkTypes
<1>4. LevelTypes' /\ WorkTypes' /\ UNCHANGED work
  BY Zenon, <1>1, <1>3 DEF RefuseStep, levels, work, LevelTypes, WorkTypes
<1>5. TaskKept(t)
  BY Zenon, <1>1, <1>3, CancelledFacts DEF TaskKept
<1>6. \A u \in Tasks : TaskKept(u)
  BY Zenon, <1>3, <1>5, SameIsKept
<1>7. QED
  BY Zenon, <1>4, <1>6, TasksKeep

\* A task that joins another one's claim waits for it.
LEMMA JoinKeeps ==
  ASSUME WorkInv, NEW t \in Tasks, NEW p \in Positions, JoinStep(t, p)
  PROVE  WorkInv'
<1>1. LevelTypes /\ WorkTypes /\ task[t] \in TaskRecords
  BY Zenon, Typed DEF WorkTypes
<1>2. /\ task'[t] = WithFuture(task[t], task[t].left \ {p}, p, "Notified")
      /\ \A u \in Tasks \ {t} : task'[u] = task[u]
      /\ task' = [u \in Tasks |-> task'[u]]
  BY Zenon, <1>1 DEF JoinStep, WorkTypes, WithFuture
<1>3. /\ task'[t] \in TaskRecords
      /\ task'[t].stage = task[t].stage /\ task'[t].pos = task[t].pos
      /\ task'[t].target = task[t].target /\ task'[t].scheduled = task[t].scheduled
      /\ task'[t].left = task[t].left \ {p}
      /\ task'[t].failed = task[t].failed /\ task'[t].cancelled = task[t].cancelled
      /\ task'[t].waits[p] = "Notified"
      /\ \A q \in Positions \ {p} : task'[t].waits[q] = task[t].waits[q]
  <2>1. task[t].left \ {p} \in SUBSET Positions /\ task[t].failed \in BOOLEAN
    BY Zenon, <1>1 DEF TaskRecords
  <2>2. QED
    BY <1>1, <1>2, <2>1, FutureRecord
<1>4. task' \in [Tasks -> TaskRecords]
  BY Zenon, <1>1, <1>2, <1>3 DEF WorkTypes
<1>5. LevelTypes' /\ WorkTypes' /\ UNCHANGED <<started, published, producer>>
  BY Zenon, <1>1, <1>4 DEF JoinStep, levels, work, LevelTypes, WorkTypes
<1>6. \A q \in Positions : published'[q] >= published[q]
  BY <1>1, <1>5 DEF WorkTypes, Statuses
<1>7. ChunkSettled(t, p)
  BY Zenon, <1>3 DEF ChunkSettled
<1>8. \A u \in Tasks : TaskInv(u)'
  BY Zenon, <1>2, <1>5, <1>6, <1>7, SameTaskKeeps, SettledKeeps
<1>9. ASSUME NEW u \in Tasks, NEW q \in Positions, producer[q].task = u PROVE WaitKept(u, q)
  <2>1. CASE u = t /\ q = p
    <3>1. task[t].waits[p] = "None"
      BY Zenon, LeftFacts DEF JoinStep
    <3>2. QED
      BY Zenon, <1>3, <2>1, <3>1 DEF WaitKept, JoinStep
  <2>2. CASE u = t /\ q # p
    BY Zenon, <1>3, <2>2 DEF WaitKept
  <2>3. CASE u # t
    BY Zenon, <1>2, <2>3, SameIsKept, KeptWaits
  <2>4. QED
    BY Zenon, <2>1, <2>2, <2>3
<1>10. QED
  BY Zenon, <1>5, <1>8, <1>9, WaitsKeep, Together

\* A claim finds no producer and its parent published, and gets a producer of its own.
LEMMA ClaimKeeps ==
  ASSUME WorkInv, NEW t \in Tasks, NEW p \in Positions, ClaimStep(t, p)
  PROVE  WorkInv'
<1> DEFINE n == task[t].scheduled
           new == [stage |-> "Begin", status |-> n, loaded |-> 0, task |-> t, cache |-> Cache(t)]
<1>1. LevelTypes /\ WorkTypes /\ task[t] \in TaskRecords /\ ClaimInv(p)
  BY Zenon, Typed DEF WorkTypes, WorkInv, ProducersInv
<1>2. /\ task[t].stage = "Running" /\ ~task[t].cancelled /\ p \in task[t].left
      /\ started[p] = n - 1
  BY Zenon DEF ClaimStep
<1>3. /\ task[t].pos \in Positions /\ task[t].target \in 1..Top /\ n \in 1..task[t].target
      /\ p \in Area(t, n) /\ published[p] >= n - 1 /\ task[t].waits[p] = "None"
      /\ \A s \in 1..(n - 1) : \A q \in Area(t, s) : published[q] >= s
  BY Zenon, <1>2, LeftFacts
<1>4. n \in 1..Top /\ n \in Nat /\ n \in Statuses
  BY <1>3, BoundAssumption DEF Statuses
<1>5. producer[p].stage = "None" /\ published[p] = n - 1
  <2>1. published[p] \in Nat /\ producer[p] \in ProducerRecords
    BY <1>1 DEF WorkTypes, Statuses
  <2>2. ASSUME producer[p].stage # "None" PROVE FALSE
    <3>1. published[p] = producer[p].status - 1 /\ producer[p].status \in Nat
      BY <1>1, <2>1, <2>2 DEF ClaimInv, ProducerRecords, Statuses
    <3>2. started[p] >= producer[p].status
      BY <1>1, <2>1, <2>2, <3>1 DEF ClaimInv, ProducerRecords, Statuses
    <3>3. QED
      BY <1>2, <1>3, <1>4, <3>1, <3>2
  <2>3. QED
    BY Zenon, <1>1, <1>2, <2>2 DEF ClaimInv
<1>6. Cache(t) \in SUBSET Positions
  BY Zenon, CachesArePositions
<1>7. /\ new \in ProducerRecords /\ new.stage = "Begin" /\ new.status = n /\ new.task = t
      /\ new.cache = Cache(t)
  BY <1>4, <1>6, BoundAssumption DEF ProducerRecords, Statuses
<1>8. producer'[p] = new /\ \A q \in Positions \ {p} : producer'[q] = producer[q]
  BY Zenon, <1>1 DEF ClaimStep, WorkTypes
<1>9. producer' \in [Positions -> ProducerRecords]
  <2>1. producer' = [producer EXCEPT ![p] = new]
    BY Zenon DEF ClaimStep
  <2> HIDE DEF new
  <2>2. QED
    BY Zenon, <1>1, <1>7, <2>1 DEF WorkTypes
<1> HIDE DEF new
<1>10. /\ task'[t] = WithFuture(task[t], task[t].left \ {p}, p, "Own")
       /\ \A u \in Tasks \ {t} : task'[u] = task[u]
       /\ task' = [u \in Tasks |-> task'[u]]
  BY Zenon, <1>1 DEF ClaimStep, WorkTypes, WithFuture
<1>11. /\ task'[t] \in TaskRecords
       /\ task'[t].stage = task[t].stage /\ task'[t].pos = task[t].pos
       /\ task'[t].target = task[t].target /\ task'[t].scheduled = task[t].scheduled
       /\ task'[t].left = task[t].left \ {p}
       /\ task'[t].failed = task[t].failed /\ task'[t].cancelled = task[t].cancelled
       /\ task'[t].waits[p] = "Own"
       /\ \A q \in Positions \ {p} : task'[t].waits[q] = task[t].waits[q]
  <2>1. task[t].left \ {p} \in SUBSET Positions
    BY Zenon, <1>1 DEF TaskRecords
  <2>2. QED
    BY <1>1, <1>10, <2>1, FutureRecord
<1>12. task' \in [Tasks -> TaskRecords]
  BY Zenon, <1>1, <1>10, <1>11 DEF WorkTypes
<1>13. /\ LevelTypes' /\ WorkTypes' /\ UNCHANGED published
       /\ started'[p] = n /\ \A q \in Positions \ {p} : started'[q] = started[q]
  BY Zenon, <1>1, <1>4, <1>9, <1>12 DEF ClaimStep, levels, LevelTypes, WorkTypes
<1> HIDE DEF n
<1>14. \A q \in Positions : published'[q] >= published[q]
  BY <1>1, <1>13 DEF WorkTypes, Statuses
<1>15. ChunkSettled(t, p)
  BY Zenon, <1>11 DEF ChunkSettled
<1>16. \A u \in Tasks : TaskInv(u)'
  BY Zenon, <1>10, <1>13, <1>14, <1>15, SameTaskKeeps, SettledKeeps
<1>17. (ClaimInv(p) /\ SpawnedInv(p))'
  <2>1. ASSUME NEW s \in 1..(n - 1), NEW q \in Layer(p, n, s)
        PROVE  q \in Cache(t) /\ published[q] >= s
    <3>1. s \in 1..n /\ s \in 1..task[t].target
      BY <1>3, <1>4
    <3>2. q \in Area(t, s)
      BY Zenon, <1>3, <3>1, LayersContain DEF Area
    <3>3. QED
      BY Zenon, <1>2, <1>3, <3>1, <3>2, AreaIsCached
  <2>2. NeighboursInv(p)'
    BY Zenon, <1>7, <1>8, <1>13, <2>1 DEF NeighboursInv
  <2>3. ClaimInv(p)'
    BY Zenon, <1>4, <1>5, <1>7, <1>8, <1>13, <2>2 DEF ClaimInv
  <2>4. SpawnedInv(p)'
    BY Zenon, <1>2, <1>7, <1>8, <1>11 DEF SpawnedInv, n
  <2>5. QED
    BY Zenon, <2>3, <2>4
<1>18. ASSUME NEW q \in Positions, q # p PROVE (ClaimInv(q) /\ SpawnedInv(q))'
  <2>1. producer[q] \in ProducerRecords
    BY Zenon, <1>1 DEF WorkTypes
  <2>2. \A x \in producer[q].cache : published'[x] >= published[x]
    BY Zenon, <1>14, <2>1 DEF ProducerRecords
  <2>3. producer[q].task # NoTask => WaitKept(producer[q].task, q)
    <3>1. WaitKept(t, q)
      BY Zenon, <1>2, <1>11, <1>18 DEF WaitKept
    <3>2. \A u \in Tasks \ {t} : WaitKept(u, q)
      BY Zenon, <1>10, SameIsKept, KeptWaits
    <3>3. QED
      BY Zenon, <2>1, <3>1, <3>2 DEF ProducerRecords
  <2>4. QED
    BY Zenon, <1>8, <1>13, <1>18, <2>2, <2>3, ProducerKeeps
<1>19. QED
  BY Zenon, <1>13, <1>16, <1>17, <1>18, Together

\* A waiter whose claim is settled goes on or fails; otherwise it sleeps.
LEMMA PollKeeps ==
  ASSUME WorkInv, NEW t \in Tasks, NEW p \in Positions, PollClaim(t, p)
  PROVE  WorkInv'
<1>1. LevelTypes /\ WorkTypes /\ task[t] \in TaskRecords
  BY Typed DEF WorkTypes
<1>2. task[t].stage = "Running" /\ task[t].waits[p] = "Notified"
  BY Zenon DEF PollClaim
<1>3. \/ task[t].cancelled
      \/ p \notin task[t].left
  BY Zenon, <1>2 DEF WorkInv, TasksInv, TaskInv, LayersInv
<1>4. /\ \A u \in Tasks \ {t} : task'[u] = task[u]
      /\ task' = [u \in Tasks |-> task'[u]]
  BY Zenon, <1>1 DEF PollClaim, WorkTypes
<1>5. /\ task'[t] \in TaskRecords
      /\ task'[t].stage = task[t].stage /\ task'[t].pos = task[t].pos
      /\ task'[t].target = task[t].target /\ task'[t].scheduled = task[t].scheduled
      /\ task'[t].left = task[t].left
      /\ task'[t].cancelled = task[t].cancelled
      /\ task[t].failed => task'[t].failed
      /\ \A q \in Positions \ {p} : task'[t].waits[q] = task[t].waits[q]
      /\ \/ task'[t].waits[p] # "None"
         \/ task'[t].failed
         \/ published[p] >= task[t].scheduled
  <2>1. CASE published[p] >= task[t].scheduled /\ task' = [task EXCEPT ![t].waits[p] = "None"]
    <3>1. task'[t] = WithFuture(task[t], task[t].left, p, "None")
      BY Zenon, <1>1, <2>1 DEF WorkTypes, WithFuture, TaskRecords
    <3>2. task[t].left \in SUBSET Positions
      BY Zenon, <1>1 DEF TaskRecords
    <3>3. QED
      BY <1>1, <2>1, <3>1, <3>2, FutureRecord
  <2>2. CASE task' = [task EXCEPT ![t].waits[p] = "None", ![t].failed = TRUE]
    <3>1. task'[t] = WithFailure(task[t], p)
      BY Zenon, <1>1, <2>2 DEF WorkTypes, WithFailure
    <3>2. QED
      BY <1>1, <3>1, FailureRecord
  <2>3. CASE task' = [task EXCEPT ![t].waits[p] = "Asleep"]
    <3>1. task'[t] = WithFuture(task[t], task[t].left, p, "Asleep")
      BY Zenon, <1>1, <2>3 DEF WorkTypes, WithFuture, TaskRecords
    <3>2. task[t].left \in SUBSET Positions
      BY <1>1 DEF TaskRecords
    <3>3. QED
      BY <1>1, <3>1, <3>2, FutureRecord
  <2>4. QED
    BY Zenon, <2>1, <2>2, <2>3 DEF PollClaim
<1>6. task' \in [Tasks -> TaskRecords]
  BY Zenon, <1>1, <1>4, <1>5 DEF WorkTypes
<1>7. LevelTypes' /\ WorkTypes' /\ UNCHANGED <<started, published, producer>>
  BY Zenon, <1>1, <1>6 DEF PollClaim, levels, work, LevelTypes, WorkTypes
<1>8. \A q \in Positions : published'[q] >= published[q]
  BY <1>1, <1>7 DEF WorkTypes, Statuses
<1>9. TaskInv(t)'
  <2>1. CASE task[t].cancelled
    BY Zenon, <1>2, <1>5, <2>1 DEF TaskInv, WorkInv, TasksInv
  <2>2. CASE ~task[t].cancelled
    <3>1. ChunkSettled(t, p)
      BY Zenon, <1>3, <1>5, <1>7, <2>2 DEF ChunkSettled
    <3>2. QED
      BY Zenon, <1>7, <1>8, <3>1, SettledKeeps
  <2>3. QED
    BY Zenon, <2>1, <2>2
<1>10. \A u \in Tasks : TaskInv(u)'
  BY Zenon, <1>4, <1>7, <1>8, <1>9, SameTaskKeeps
<1>11. ASSUME NEW u \in Tasks, NEW q \in Positions, producer[q].task = u PROVE WaitKept(u, q)
  <2>1. CASE u = t /\ q = p
    BY Zenon, <1>2, <1>5, <2>1 DEF WaitKept
  <2>2. CASE u = t /\ q # p
    BY Zenon, <1>5, <2>2 DEF WaitKept
  <2>3. CASE u # t
    BY Zenon, <1>4, <2>3, SameIsKept, KeptWaits
  <2>4. QED
    BY <2>1, <2>2, <2>3
<1>12. QED
  BY <1>7, <1>10, <1>11, WaitsKeep, Together

\* A task that ends leaves its producers to themselves.
LEMMA EndTaskKeeps ==
  ASSUME WorkInv, NEW t \in Tasks, EndTask(t)
  PROVE  WorkInv'
<1>1. LevelTypes /\ WorkTypes
  BY Zenon, Typed
<1>2. /\ task'[t] = FreeTask /\ \A u \in Tasks \ {t} : task'[u] = task[u]
      /\ task' \in [Tasks -> TaskRecords]
  BY Zenon, <1>1, ConstantTypes DEF EndTask, WorkTypes
<1>3. \A p \in Positions : [producer[p] EXCEPT !.task = NoTask] \in ProducerRecords
  BY SMTT(40), <1>1 DEF WorkTypes, ProducerRecords
<1>4. producer' = [p \in Positions |->
                     IF producer[p].task = t THEN [producer[p] EXCEPT !.task = NoTask]
                     ELSE producer[p]]
  BY Zenon DEF EndTask
<1>5. producer' \in [Positions -> ProducerRecords]
  BY Zenon, <1>1, <1>3, <1>4 DEF WorkTypes
<1>6. LevelTypes' /\ WorkTypes' /\ UNCHANGED <<started, published>>
  BY Zenon, <1>1, <1>2, <1>5 DEF EndTask, levels, LevelTypes, WorkTypes
<1>7. \A q \in Positions : published'[q] >= published[q]
  BY <1>1, <1>6 DEF WorkTypes, Statuses
<1>8. ASSUME NEW u \in Tasks PROVE TaskInv(u)'
  <2>1. CASE u = t
    <3>1. task'[u].stage = "Free"
      BY <1>2, <2>1 DEF FreeTask
    <3>2. QED
      BY Zenon, <3>1 DEF TaskInv
  <2>2. CASE u # t
    BY Zenon, <1>2, <1>6, <1>7, <2>2, SameTaskKeeps
  <2>3. QED
    BY Zenon, <2>1, <2>2
<1>9. ASSUME NEW p \in Positions PROVE (ClaimInv(p) /\ SpawnedInv(p))'
  <2>1. producer[p] \in ProducerRecords /\ ClaimInv(p)
    BY Zenon, <1>1 DEF WorkTypes, WorkInv, ProducersInv
  <2>2. CASE producer[p].task = t
    <3>1. producer'[p] = [producer[p] EXCEPT !.task = NoTask]
      BY Zenon, <1>4, <2>2
    <3>2. /\ producer'[p].stage = producer[p].stage /\ producer'[p].status = producer[p].status
          /\ producer'[p].loaded = producer[p].loaded /\ producer'[p].cache = producer[p].cache
          /\ producer'[p].task = NoTask
      BY Zenon, <2>1, <3>1 DEF ProducerRecords
    <3>3. producer[p].stage # "None"
      BY Zenon, <2>1, <2>2, ConstantTypes DEF ClaimInv
    <3>4. NeighboursInv(p) => NeighboursInv(p)'
      BY Zenon, <1>6, <3>2 DEF NeighboursInv
    <3>5. ClaimInv(p)'
      BY Zenon, <1>6, <2>1, <3>2, <3>3, <3>4 DEF ClaimInv
    <3>6. QED
      BY Zenon, <3>2, <3>5 DEF SpawnedInv
  <2>3. CASE producer[p].task # t
    <3>1. producer'[p] = producer[p]
      BY Zenon, <1>4, <2>3
    <3>2. producer[p].task # NoTask => WaitKept(producer[p].task, p)
      BY Zenon, <1>2, <2>1, <2>3, SameIsKept, KeptWaits DEF ProducerRecords
    <3>3. \A q \in producer[p].cache : published'[q] >= published[q]
      BY Zenon, <1>7, <2>1 DEF ProducerRecords
    <3>4. QED
      BY Zenon, <1>6, <3>1, <3>2, <3>3, ProducerKeeps
  <2>4. QED
    BY Zenon, <2>2, <2>3
<1>10. QED
  BY Zenon, <1>6, <1>8, <1>9, Together

----------------------------------------------------------------------------
\* Producers.

\* The record of a producer that goes on to another stage.
WithStage(r, stage, loaded) == [r EXCEPT !.stage = stage, !.loaded = loaded]

\* A producer goes on to a stage that fits what it has claimed.
LEMMA StageKeeps ==
  ASSUME WorkInv, NEW p \in Positions, producer[p].stage # "None",
         NEW stage \in {"Running", "Installed", "Abandoned"}, NEW loaded \in Statuses,
         producer' = [producer EXCEPT ![p] = WithStage(producer[p], stage, loaded)],
         producer[p].stage \in {"Begin", "Running"},
         stage = "Installed" =>
           producer[p].status = 1 /\ loaded >= 1 /\ started'[p] = loaded,
         stage # "Installed" => started'[p] = started[p],
         stage = "Running" => loaded = producer[p].status,
         started' \in [Positions -> Statuses],
         \A q \in Positions \ {p} : started'[q] = started[q],
         failures' \in 0..MaxFailures,
         UNCHANGED <<levels, published, current, task>>
  PROVE  WorkInv'
<1> DEFINE new == WithStage(producer[p], stage, loaded)
<1>1. LevelTypes /\ WorkTypes /\ producer[p] \in ProducerRecords /\ ClaimInv(p) /\ SpawnedInv(p)
  BY Zenon, Typed DEF WorkTypes, WorkInv, ProducersInv
<1>2. /\ new \in ProducerRecords /\ new.stage = stage /\ new.loaded = loaded
      /\ new.status = producer[p].status /\ new.task = producer[p].task
      /\ new.cache = producer[p].cache
  <2>1. stage \in {"None", "Begin", "Running", "Installed", "Abandoned"} /\ loaded \in Statuses
    BY Zenon
  <2>2. \A r \in ProducerRecords :
          /\ WithStage(r, stage, loaded) \in ProducerRecords
          /\ WithStage(r, stage, loaded).stage = stage
          /\ WithStage(r, stage, loaded).loaded = loaded
          /\ WithStage(r, stage, loaded).status = r.status
          /\ WithStage(r, stage, loaded).task = r.task
          /\ WithStage(r, stage, loaded).cache = r.cache
    BY Zenon, <2>1 DEF ProducerRecords, WithStage
  <2>3. QED
    BY Zenon, <1>1, <2>2
<1>3. /\ producer'[p] = new /\ \A q \in Positions \ {p} : producer'[q] = producer[q]
      /\ producer' \in [Positions -> ProducerRecords]
  <2>1. producer' = [producer EXCEPT ![p] = new]
    BY Zenon
  <2> HIDE DEF new
  <2>2. QED
    BY ZenonT(30), <1>1, <1>2, <2>1 DEF WorkTypes
<1> HIDE DEF new
<1>4. LevelTypes' /\ WorkTypes' /\ UNCHANGED <<published, task>>
  BY Zenon, <1>1, <1>3 DEF levels, LevelTypes, WorkTypes
<1>5. \A q \in Positions : published'[q] >= published[q]
  BY <1>1, <1>4 DEF WorkTypes, Statuses
<1>6. \A t \in Tasks : TaskInv(t)'
  BY Zenon, <1>4, <1>5, SameTaskKeeps
<1>7. (ClaimInv(p) /\ SpawnedInv(p))'
  <2>1. NeighboursInv(p) => NeighboursInv(p)'
    BY <1>2, <1>3, <1>4 DEF NeighboursInv
  <2>2. /\ producer[p].status \in 1..Top /\ published[p] = producer[p].status - 1
        /\ started[p] = producer[p].status /\ NeighboursInv(p)
    BY Zenon, <1>1 DEF ClaimInv
  <2>3. ClaimInv(p)'
    BY Zenon, <1>2, <1>3, <1>4, <2>1, <2>2 DEF ClaimInv
  <2>4. SpawnedInv(p)'
    BY <1>1, <1>2, <1>3, <1>4 DEF SpawnedInv
  <2>5. QED
    BY Zenon, <2>3, <2>4
<1>8. ASSUME NEW q \in Positions, q # p PROVE (ClaimInv(q) /\ SpawnedInv(q))'
  <2>1. producer[q] \in ProducerRecords
    BY Zenon, <1>1 DEF WorkTypes
  <2>2. \A x \in producer[q].cache : published'[x] >= published[x]
    BY Zenon, <1>5, <2>1 DEF ProducerRecords
  <2>3. producer[q].task # NoTask => WaitKept(producer[q].task, q)
    BY Zenon, <1>4, SameIsKept, KeptWaits
  <2>4. QED
    BY Zenon, <1>3, <1>4, <1>8, <2>2, <2>3, ProducerKeeps
<1>9. QED
  BY Zenon, <1>4, <1>6, <1>7, <1>8, Together

\* A producer gives up, installs what it loaded or runs its step.
LEMMA ProducerGoesOn ==
  ASSUME WorkInv, NEW p \in Positions,
         \/ Abandon(p) \/ Fail(p) \/ RunStep(p)
         \/ \E status \in 1..Top : InstallLoaded(p, status)
  PROVE  WorkInv'
<1>1. WorkTypes /\ producer[p] \in ProducerRecords /\ ClaimInv(p)
  BY Zenon, Typed DEF WorkTypes, WorkInv, ProducersInv
<1>2. /\ producer[p].loaded \in Statuses /\ producer[p].status \in Statuses
      /\ started \in [Positions -> Statuses] /\ failures \in 0..MaxFailures
  BY Zenon, <1>1 DEF WorkTypes, ProducerRecords
<1>3. CASE Abandon(p)
  <2>1. producer' = [producer EXCEPT ![p] = WithStage(producer[p], "Abandoned", producer[p].loaded)]
    BY Zenon, <1>1, <1>3 DEF Abandon, WithStage, ProducerRecords, WorkTypes
  <2>2. QED
    BY Zenon, <1>2, <1>3, <2>1, StageKeeps DEF Abandon
<1>4. CASE Fail(p)
  <2>1. producer' = [producer EXCEPT ![p] = WithStage(producer[p], "Abandoned", producer[p].loaded)]
    BY Zenon, <1>1, <1>4 DEF Fail, WithStage, ProducerRecords, WorkTypes
  <2>2. failures' \in 0..MaxFailures
    BY <1>2, <1>4, BoundAssumption DEF Fail
  <2>3. QED
    BY Zenon, <1>2, <1>4, <2>1, <2>2, StageKeeps DEF Fail
<1>5. CASE RunStep(p)
  <2>1. producer' = [producer EXCEPT ![p] = WithStage(producer[p], "Running", producer[p].status)]
    BY Zenon, <1>1, <1>5 DEF RunStep, WithStage, WorkTypes
  <2>2. QED
    BY Zenon, <1>2, <1>5, <2>1, StageKeeps DEF RunStep
<1>6. ASSUME NEW status \in 1..Top, InstallLoaded(p, status) PROVE WorkInv'
  <2>1. producer' = [producer EXCEPT ![p] = WithStage(producer[p], "Installed", status)]
    BY Zenon, <1>1, <1>6 DEF InstallLoaded, WithStage, WorkTypes
  <2>2. status \in Statuses /\ status >= 1
    BY BoundAssumption DEF Statuses
  <2>3. producer[p].stage = "Begin" /\ producer[p].status = 1 /\ started[p] = 1
    BY Zenon, <1>1, <1>6 DEF InstallLoaded, ClaimInv
  <2>4. /\ started'[p] = status /\ started' \in [Positions -> Statuses]
        /\ \A q \in Positions \ {p} : started'[q] = started[q]
    BY <1>2, <1>6, <2>2, <2>3 DEF InstallLoaded, Statuses
  <2>5. UNCHANGED <<levels, published, current, task, failures>>
    BY Zenon, <1>6 DEF InstallLoaded
  <2>6. QED
    BY Zenon, <1>2, <2>1, <2>2, <2>3, <2>4, <2>5, StageKeeps
<1>7. QED
  BY Zenon, <1>3, <1>4, <1>5, <1>6

\* A producer that ends is forgotten together with its claim; its task learns what came of it.
LEMMA ProducerEnds ==
  ASSUME WorkInv, NEW p \in Positions, LevelTypes', WorkTypes',
         producer'[p] = NoProducer, started'[p] = published'[p],
         \A q \in Positions \ {p} :
           /\ producer'[q] = producer[q] /\ started'[q] = started[q]
           /\ published'[q] = published[q],
         \A q \in Positions : published'[q] >= published[q],
         \A t \in Tasks : TaskKept(t) \/ ChunkSettled(t, p),
         \A t \in Tasks, q \in Positions \ {p} : WaitKept(t, q)
  PROVE  WorkInv'
<1>1. ASSUME NEW t \in Tasks PROVE TaskInv(t)'
  BY Zenon, CachesArePositions, TaskKeeps, SettledKeeps
<1>2. (ClaimInv(p) /\ SpawnedInv(p))'
  BY Zenon, ConstantTypes DEF ClaimInv, SpawnedInv
<1>3. ASSUME NEW q \in Positions, q # p PROVE (ClaimInv(q) /\ SpawnedInv(q))'
  <2>1. producer[q] \in ProducerRecords
    BY Zenon, Typed DEF WorkTypes
  <2>2. \A x \in producer[q].cache : published'[x] >= published[x]
    BY Zenon, <2>1 DEF ProducerRecords
  <2>3. producer[q].task # NoTask => WaitKept(producer[q].task, q)
    BY Zenon, <1>3, <2>1 DEF ProducerRecords
  <2>4. QED
    BY Zenon, <1>3, <2>2, <2>3, ProducerKeeps
<1>4. QED
  BY Zenon, <1>1, <1>2, <1>3, Together

\* The task a producer reports to: it awaits this chunk and no longer has it before it.
LEMMA Awaiting ==
  ASSUME WorkInv, NEW p \in Positions, NEW t \in Tasks, t = producer[p].task, ~task[t].cancelled
  PROVE  /\ task[t].stage = "Running" /\ task[t].scheduled = producer[p].status
         /\ task[t].left \ {p} = task[t].left
<1>1. SpawnedInv(p) /\ TaskInv(t) /\ t # NoTask
  BY Zenon, TaskAssumption DEF WorkInv, ProducersInv, TasksInv
<1>2. /\ task[t].stage = "Running" /\ task[t].scheduled = producer[p].status
      /\ task[t].waits[p] = "Own"
  BY Zenon, <1>1 DEF SpawnedInv
<1>3. p \notin task[t].left
  BY Zenon, <1>1, <1>2 DEF TaskInv, LayersInv
<1>4. QED
  BY Zenon, <1>2, <1>3

\* Task t has become m, up to sleeping waiters that were notified.
Follows(t, m) ==
  /\ task'[t].stage = m.stage /\ task'[t].pos = m.pos
  /\ task'[t].target = m.target /\ task'[t].scheduled = m.scheduled
  /\ task'[t].left = m.left
  /\ task'[t].failed <=> m.failed
  /\ task'[t].cancelled <=> m.cancelled
  /\ \A q \in Positions :
       /\ task'[t].waits[q] = "None" <=> m.waits[q] = "None"
       /\ task'[t].waits[q] = "Own" <=> m.waits[q] = "Own"

\* Notifying is all that happens to a task whose record stays.
LEMMA FollowsKept ==
  ASSUME NEW t \in Tasks, Follows(t, task[t])
  PROVE  TaskKept(t)
  BY Zenon DEF Follows, TaskKept

\* The outcome of a chunk is settled for the task that waits for it.
LEMMA FollowsSettled ==
  ASSUME NEW t \in Tasks, NEW p \in Positions, NEW m, Follows(t, m), ~task[t].cancelled,
         m.stage = task[t].stage, m.pos = task[t].pos, m.target = task[t].target,
         m.scheduled = task[t].scheduled, m.left = task[t].left \ {p},
         m.cancelled <=> task[t].cancelled, task[t].failed => m.failed,
         \A q \in Positions \ {p} : m.waits[q] = task[t].waits[q],
         m.failed \/ published'[p] >= task[t].scheduled
  PROVE  ChunkSettled(t, p) /\ \A q \in Positions \ {p} : WaitKept(t, q)
<1>1. ChunkSettled(t, p)
  BY ZenonT(40) DEF Follows, ChunkSettled
<1>2. \A q \in Positions \ {p} : WaitKept(t, q)
  BY Zenon DEF Follows, WaitKept
<1>3. QED
  BY Zenon, <1>1, <1>2

\* How a producer's outcome, followed by a notification, reaches the tasks.
LEMMA OutcomeReaches ==
  ASSUME WorkInv, NEW p \in Positions, NEW M \in [Tasks -> TaskRecords], task' = Notify(M, p),
         \A t \in Tasks :
           IF t = producer[p].task /\ ~task[t].cancelled
           THEN \/ M[t] = WithFailure(task[t], p)
                \/ /\ M[t] = WithFuture(task[t], task[t].left, p, "None")
                   /\ published'[p] >= producer[p].status
           ELSE M[t] = task[t]
  PROVE  /\ task' \in [Tasks -> TaskRecords]
         /\ \A t \in Tasks : TaskKept(t) \/ ChunkSettled(t, p)
         /\ \A t \in Tasks, q \in Positions \ {p} : WaitKept(t, q)
<1>1. WorkTypes
  BY Zenon, Typed
<1>2. task' \in [Tasks -> TaskRecords]
  <2>1. CASE Tasks = {}
    BY Zenon, <2>1 DEF Notify
  <2>2. CASE Tasks # {}
    BY Zenon, <2>2, NotifyFacts
  <2>3. QED
    BY Zenon, <2>1, <2>2
<1>3. ASSUME NEW t \in Tasks
      PROVE  /\ TaskKept(t) \/ ChunkSettled(t, p)
             /\ \A q \in Positions \ {p} : WaitKept(t, q)
  <2>1. task[t] \in TaskRecords /\ task[t].left \in SUBSET Positions
    BY Zenon, <1>1 DEF WorkTypes, TaskRecords
  <2>2. Follows(t, M[t])
    BY SMTT(40), NotifyFacts DEF Follows
  <2>3. CASE t = producer[p].task /\ ~task[t].cancelled
    <3>1. /\ M[t].stage = task[t].stage /\ M[t].pos = task[t].pos
          /\ M[t].target = task[t].target /\ M[t].scheduled = task[t].scheduled
          /\ M[t].left = task[t].left /\ M[t].cancelled = task[t].cancelled
          /\ task[t].failed => M[t].failed
          /\ \A q \in Positions \ {p} : M[t].waits[q] = task[t].waits[q]
          /\ M[t].failed \/ published'[p] >= producer[p].status
      <4>1. CASE M[t] = WithFailure(task[t], p)
        BY <2>1, <4>1, FailureRecord
      <4>2. CASE /\ M[t] = WithFuture(task[t], task[t].left, p, "None")
                 /\ published'[p] >= producer[p].status
        <5>1. "None" \in {"None", "Own", "Asleep", "Notified"}
          BY Zenon
        <5>2. QED
          BY <2>1, <4>2, <5>1, FutureRecord
      <4>3. QED
        BY Zenon, <2>3, <4>1, <4>2
    <3>2. task[t].scheduled = producer[p].status /\ task[t].left \ {p} = task[t].left
      BY Zenon, <2>3, Awaiting
    <3>3. M[t].left = task[t].left \ {p} /\ (M[t].cancelled <=> task[t].cancelled)
      BY Zenon, <3>1, <3>2
    <3>4. M[t].failed \/ published'[p] >= task[t].scheduled
      BY Zenon, <3>1, <3>2
    <3>5. QED
      BY Zenon, <2>2, <2>3, <3>1, <3>3, <3>4, FollowsSettled
  <2>4. CASE ~(t = producer[p].task /\ ~task[t].cancelled)
    <3>1. M[t] = task[t]
      BY Zenon, <2>4
    <3>2. TaskKept(t)
      BY Zenon, <2>2, <3>1, FollowsKept
    <3>3. QED
      BY Zenon, <3>2, KeptWaits
  <2>5. QED
    BY Zenon, <2>3, <2>4
<1>4. QED
  BY Zenon, <1>2, <1>3

\* A publication raises the published status to the claim.
LEMMA PublishKeeps ==
  ASSUME WorkInv, NEW p \in Positions, Publish(p)
  PROVE  WorkInv'
<1>1. LevelTypes /\ WorkTypes /\ producer[p] \in ProducerRecords /\ ClaimInv(p)
  BY Zenon, Typed DEF WorkTypes, WorkInv, ProducersInv
<1>2. /\ producer[p].loaded \in Statuses /\ published \in [Positions -> Statuses]
      /\ producer[p].loaded \in Nat /\ \A q \in Positions : published[q] \in Nat
  BY <1>1 DEF WorkTypes, ProducerRecords, Statuses
<1>3. /\ producer[p].loaded > published[p] /\ started[p] = producer[p].loaded
      /\ producer[p].loaded >= producer[p].status
  BY <1>1, <1>2 DEF Publish, ClaimInv
<1>4. published' = [published EXCEPT ![p] = producer[p].loaded]
  BY Zenon, <1>2, <1>3 DEF Publish
<1>5. /\ published'[p] = producer[p].loaded /\ published' \in [Positions -> Statuses]
      /\ \A q \in Positions \ {p} : published'[q] = published[q]
      /\ \A q \in Positions : published'[q] >= published[q]
  BY <1>2, <1>3, <1>4
<1>6. ASSUME NEW t \in Tasks
      PROVE  /\ WithFuture(task[t], task[t].left, p, "None") \in TaskRecords
             /\ [task[t] EXCEPT !.waits[p] = "None"]
                  = WithFuture(task[t], task[t].left, p, "None")
  <2>1. task[t] \in TaskRecords /\ task[t].left \in SUBSET Positions
    BY Zenon, <1>1 DEF WorkTypes, TaskRecords
  <2>2. [task[t] EXCEPT !.waits[p] = "None"] = WithFuture(task[t], task[t].left, p, "None")
    BY Zenon, <2>1 DEF WithFuture, TaskRecords
  <2>3. QED
    BY <2>1, <2>2, FutureRecord
<1>7. /\ Resolved(p) \in [Tasks -> TaskRecords]
      /\ \A t \in Tasks :
           IF t = producer[p].task /\ ~task[t].cancelled
           THEN Resolved(p)[t] = WithFuture(task[t], task[t].left, p, "None")
           ELSE Resolved(p)[t] = task[t]
  BY <1>1, <1>6 DEF Resolved, WorkTypes
<1>8. /\ task' \in [Tasks -> TaskRecords]
      /\ \A t \in Tasks : TaskKept(t) \/ ChunkSettled(t, p)
      /\ \A t \in Tasks, q \in Positions \ {p} : WaitKept(t, q)
  <2>1. task' = Notify(Resolved(p), p)
    BY Zenon DEF Publish
  <2>2. published'[p] >= producer[p].status
    BY Zenon, <1>3, <1>5
  <2>3. QED
    BY Zenon, <1>7, <2>1, <2>2, OutcomeReaches
<1>9. /\ producer' \in [Positions -> ProducerRecords] /\ producer'[p] = NoProducer
      /\ \A q \in Positions \ {p} : producer'[q] = producer[q]
  BY Zenon, <1>1, ConstantTypes DEF Publish, WorkTypes
<1>10. LevelTypes' /\ WorkTypes' /\ UNCHANGED started
  BY Zenon, <1>1, <1>5, <1>8, <1>9 DEF Publish, levels, LevelTypes, WorkTypes
<1>11. QED
  BY Zenon, <1>3, <1>5, <1>8, <1>9, <1>10, ProducerEnds

\* A claim that is given up falls back to what is published.
LEMMA ReleaseKeeps ==
  ASSUME WorkInv, NEW p \in Positions, ReleaseClaim(p)
  PROVE  WorkInv'
<1>1. LevelTypes /\ WorkTypes /\ ClaimInv(p)
  BY Zenon, Typed DEF WorkInv, ProducersInv
<1>2. /\ started'[p] = published[p] /\ started' \in [Positions -> Statuses]
      /\ \A q \in Positions \ {p} : started'[q] = started[q]
  BY Zenon, <1>1 DEF ReleaseClaim, ClaimInv, WorkTypes
<1>3. ASSUME NEW t \in Tasks
      PROVE  /\ WithFailure(task[t], p) \in TaskRecords
             /\ [task[t] EXCEPT !.waits[p] = "None", !.failed = TRUE] = WithFailure(task[t], p)
  <2>1. task[t] \in TaskRecords
    BY ZenonT(30), <1>1 DEF WorkTypes
  <2>2. QED
    BY Zenon, <2>1, FailureRecord DEF WithFailure
<1>4. /\ Broken(p) \in [Tasks -> TaskRecords]
      /\ \A t \in Tasks :
           IF t = producer[p].task /\ ~task[t].cancelled
           THEN Broken(p)[t] = WithFailure(task[t], p)
           ELSE Broken(p)[t] = task[t]
  BY ZenonT(30), <1>1, <1>3 DEF Broken, WorkTypes
<1>5. /\ task' \in [Tasks -> TaskRecords]
      /\ \A t \in Tasks : TaskKept(t) \/ ChunkSettled(t, p)
      /\ \A t \in Tasks, q \in Positions \ {p} : WaitKept(t, q)
  <2>1. task' = Notify(Broken(p), p)
    BY Zenon DEF ReleaseClaim
  <2>2. QED
    BY Zenon, <1>4, <2>1, OutcomeReaches
<1>6. /\ producer' \in [Positions -> ProducerRecords] /\ producer'[p] = NoProducer
      /\ \A q \in Positions \ {p} : producer'[q] = producer[q]
  BY Zenon, <1>1, ConstantTypes DEF ReleaseClaim, WorkTypes
<1>7. LevelTypes' /\ WorkTypes' /\ UNCHANGED published
  BY Zenon, <1>1, <1>2, <1>5, <1>6 DEF ReleaseClaim, levels, LevelTypes, WorkTypes
<1>8. \A q \in Positions : published'[q] >= published[q]
  BY <1>1, <1>7 DEF WorkTypes, Statuses
<1>9. QED
  BY Zenon, <1>2, <1>5, <1>6, <1>7, <1>8, ProducerEnds

----------------------------------------------------------------------------
\* At first there are no tasks and no producers.
LEMMA WorkInit == Init => WorkInv
<1> SUFFICES ASSUME Init PROVE WorkInv
  BY Zenon
<1>1. TypeOK
  <2>1. FreeTask \in TaskRecords /\ NoProducer \in ProducerRecords
    BY Zenon, ConstantTypes
  <2>2. task \in [Tasks -> TaskRecords] /\ producer \in [Positions -> ProducerRecords]
    BY Zenon, <2>1 DEF Init
  <2>3. LevelTypes
    <3>1. 0 \in Statuses /\ {} \in SUBSET Positions
      BY BoundAssumption DEF Statuses
    <3>2. goal \in [Positions -> Statuses] /\ allowed \in [Positions -> Statuses]
      BY Zenon, <3>1 DEF Init
    <3>3. /\ {todo, deferred, active, schedule} \subseteq SUBSET Positions
          /\ save \in [Positions -> {"None", "Spawned", "Preparing", "Writing"}]
      BY Zenon, <3>1 DEF Init
    <3>4. QED
      BY Zenon, <3>2, <3>3 DEF Init, LevelTypes
  <2>4. WorkTypes
    BY <2>2, BoundAssumption DEF Init, WorkTypes, Statuses
  <2>5. QED
    BY Zenon, <2>3, <2>4 DEF TypeOK, LevelTypes, WorkTypes, TaskRecords, ProducerRecords
<1>2. \A t \in Tasks : TaskInv(t)
  BY Zenon DEF Init, FreeTask, TaskInv
<1>3. \A p \in Positions : ClaimInv(p) /\ SpawnedInv(p)
  BY Zenon, ConstantTypes DEF Init, ClaimInv, SpawnedInv
<1>4. QED
  BY Zenon, <1>1, <1>2, <1>3 DEF WorkInv, TasksInv, ProducersInv

\* Every step keeps the invariant.
LEMMA WorkStep == WorkInv /\ [Next]_vars => WorkInv'
<1> SUFFICES ASSUME WorkInv, [Next]_vars PROVE WorkInv'
  BY Zenon
<1>1. ASSUME NEW g \in Levels, BeginCommit(g) PROVE WorkInv'
  BY Zenon, <1>1, CommitKeeps
<1>2. ASSUME Epoch PROVE WorkInv'
  BY Zenon, <1>2, CommitKeeps, DemoteKeeps, ScheduleKeeps DEF Epoch
<1>3. ASSUME NEW p \in Positions,
             \/ SpawnSave(p) \/ BeginSave(p) \/ EndPreparation(p) \/ EndSave(p)
             \/ Drop(p)
      PROVE  WorkInv'
  BY Zenon, <1>3, CommitKeeps, DropKeeps
<1>4. ASSUME Refill PROVE WorkInv'
  BY Zenon, <1>4, RefillKeeps DEF Refill
<1>5. ASSUME NEW t \in Tasks, TaskStep(t) PROVE WorkInv'
  BY Zenon, <1>5, NextLayerKeeps, RefuseKeeps, ClaimKeeps, JoinKeeps, PollKeeps, EndTaskKeeps
  DEF TaskStep
<1>6. ASSUME NEW p \in Positions, ProducerStep(p) \/ Fail(p) PROVE WorkInv'
  BY Zenon, <1>6, ProducerGoesOn, PublishKeeps, ReleaseKeeps DEF ProducerStep
<1>7. ASSUME UNCHANGED vars PROVE WorkInv'
  <2>1. LevelTypes' /\ UNCHANGED <<work, current, task, failures>>
    BY Zenon, <1>7, Typed DEF vars, levels, LevelTypes
  <2>2. QED
    BY Zenon, <2>1, LevelsChange
<1>8. QED
  BY Zenon, <1>1, <1>2, <1>3, <1>4, <1>5, <1>6, <1>7 DEF Next, Halted

\* A claim has a producer exactly while it is above the published status: started_work and
\* published_status agree when nobody works, whatever tasks are cancelled, claims abandoned,
\* steps failed and holders dropped (claim_status_work, release_status_work_claim).
THEOREM ClaimsHaveProducers == Spec => []ClaimHasProducer
<1>1. WorkInv => ClaimHasProducer
  <2> SUFFICES ASSUME WorkInv, NEW p \in Positions
               PROVE  IF producer[p] = NoProducer THEN started[p] = published[p]
                      ELSE /\ published[p] = producer[p].status - 1
                           /\ started[p] >= producer[p].status
    BY Zenon DEF ClaimHasProducer, WorkInv
  <2>1. ClaimInv(p) /\ producer[p] \in ProducerRecords
    BY Zenon, Typed DEF WorkInv, ProducersInv, WorkTypes
  <2>2. CASE producer[p].stage = "None"
    BY Zenon, <2>1, <2>2 DEF ClaimInv
  <2>3. CASE producer[p].stage # "None"
    <3>1. producer[p] # NoProducer
      BY Zenon, <2>3, ConstantTypes
    <3>2. QED
      BY <2>1, <2>3, <3>1 DEF ClaimInv, ProducerRecords, Statuses
  <2>4. QED
    BY Zenon, <2>2, <2>3
<1>2. QED
  BY <1>1, WorkInit, WorkStep, PTL DEF Spec

\* A task that is about to claim a status finds the parent status published, and a step runs
\* only while every neighbour it reads has published what it depends on (the panic of
\* claim_status_work and the assertion of apply_generated_step never fire).
THEOREM StepsFindDependencies == Spec => []DependenciesPublished
<1>1. WorkInv => DependenciesPublished
  <2> SUFFICES ASSUME WorkInv PROVE DependenciesPublished
    BY Zenon
  <2>1. ASSUME NEW t \in Running, ~task[t].cancelled, NEW p \in task[t].left
        PROVE  published[p] >= task[t].scheduled - 1
    BY Zenon, <2>1, LeftFacts DEF Running
  <2>2. ASSUME NEW p \in Positions, producer[p].stage = "Running",
               NEW s \in 1..(producer[p].status - 1), NEW q \in Layer(p, producer[p].status, s)
        PROVE  published[q] >= s
    BY Zenon, <2>2 DEF WorkInv, ProducersInv, ClaimInv, NeighboursInv
  <2>3. QED
    BY Zenon, <2>1, <2>2 DEF DependenciesPublished
<1>2. QED
  BY <1>1, WorkInit, WorkStep, PTL DEF Spec
=============================================================================
