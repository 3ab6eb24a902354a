# Verification of the concurrent core of SteelMC

This directory holds TLA+ specifications of the concurrent core of the server, the TLC
configurations that check them on small instances, and theorems that TLAPS checks for all
instances. Everything is translated from the Rust sources under `src/`; `PROJECT.json` names, for
each definition, the lines it stands for.

## The system

SteelMC is a Minecraft Java Edition server: 10 crates, about 444 000 lines of Rust. Most of it is
sequential game logic (blocks, items, entities, commands, world generation, registries). What makes
it hard to get right by testing are three places where threads meet: the chunk system in
`steel-core/src/chunk` and `steel-core/src/chunk_saver`, where the world thread, a scheduling
worker, generation tasks, save tasks and storage I/O share chunk holders without a global lock; the
tick boundary in `steel-core/src/server`, which keeps packet handlers and world ticks apart; and
the life of a player between connection tasks, the game thread and storage.

| Part | Source (`steel-core/src` unless named) | Module |
| --- | --- | --- |
| ticket ingress, revisions, epoch handoff | `chunk/chunk_scheduler.rs` | `ChunkScheduling`, `BoundaryProofs` |
| ticket manager, timed tickets, player and request tickets | `chunk/chunk_ticket_manager.rs`, `chunk/chunk_request.rs`, `chunk_map/player_tracking.rs` | `TicketLevels`, `TicketLevelsProofs` |
| holder life cycle, load, save, unload, revival, shutdown | `chunk_map/{mod,persistence,generation_readiness}.rs`, `chunk/chunk_holder.rs` | `ChunkLifecycle`, `DurableChunks`, `ChunkLifecycleProofs` |
| generation tasks and status claims | `chunk/chunk_generation_task.rs`, `chunk/chunk_holder.rs` | `GenerationTasks`, `GenerationTasksProofs` |
| ticking readiness and the ticking snapshot | `chunk/full_chunk_readiness.rs`, `chunk_map/generation_readiness.rs` | `FullReadiness`, `BoundaryProofs` |
| queued light updates and the light window gate | `chunk_map/light_updates.rs`, `chunk_map/light_update_state.rs`, `chunk/light/work_gate.rs` | `LightUpdates`, `StorageLightProofs` |
| region files | `chunk_saver/region_manager.rs`, `chunk_saver/format.rs` | `RegionStorage`, `StorageLightProofs` |
| gameplay packets, tick drain, game loop | `server/packet_processor.rs`, `server/run_loop.rs`, `server/world_tick_workers.rs` | `PacketProcessor`, `PacketProcessorProofs` |
| login, admission, domain switches, disconnects, shutdown | `server/player_admission.rs`, `server/jobs/domain_switch.rs`, `player/lifecycle`, `steel-login` | `PlayerSessions`, `PlayerSessionsProofs` |
| chunk sending, views, block broadcasts | `player/chunk_sender.rs`, `chunk/player_chunk_view.rs`, `chunk_map/player_tracking.rs`, `world/player_index` | `ChunkSending`, `ChunkSendingProofs` |
| scheduled ticks, entity manager and tracker, commands, jobs other than domain switches | see `PROJECT.json` | not modelled or in part |
| light engine, chunk data, encoding, world generation, game rules, commands, protocol, registries | see `PROJECT.json` | not modelled |

How the modelled parts meet:

1. Owners of tickets (players, requests, portals, ender pearls) queue operations. `TicketLevels`
   says what they queue and what levels result; `ChunkScheduling` says when.
2. A worker turns the queue into an *epoch*, a list of level changes. The boundary between two
   ticks commits it: holders are created, revived or demoted (`ChunkLifecycle`), readiness is
   lowered before and raised after (`FullReadiness`), and generation tasks are scheduled
   (`GenerationTasks`).
3. Tasks load or generate chunks over their neighbours. A published Full chunk is announced to
   `FullReadiness`.
4. A demoted holder is saved and dropped by `process_unloads` (`ChunkLifecycle`) once no light
   update touches it (`LightUpdates`), and the save goes to a region file (`RegionStorage`).
5. Between two boundaries packet handlers run (`PacketProcessor`); at a boundary they are drained,
   the epoch is committed and the worlds tick. After the ticks players join, change domains and
   leave (`PlayerSessions`).
6. Ready chunks in a player's view are sent by a loop of their own, and block changes are broadcast
   to whoever has the chunk (`ChunkSending`).

The modules are checked one by one; where one relies on another, the assumption is one of the
other's checked properties. `FullReadiness` only asks for simulation levels within the load level
(part of `HoldersFollowManager` of `TicketLevels`). `RegionStorage` assumes that a chunk is not
saved and loaded at once (`OneOwner` of `ChunkLifecycle`). `ChunkLifecycle` lets `process_unloads`
keep any holder, which covers every reason `LightUpdates` and `GenerationTasks` give it.
`ChunkSending` lets no player move and no block change while a world broadcasts, which is
`TickIsIsolated` of `PacketProcessor`, proved for all instances. `PlayerSessions` and
`ChunkSending` treat what the game thread does in one phase of a tick as one step for the same
reason.

## Modules

**ChunkScheduling.** Variables are the fields of `PendingChunkTicketOperations` and of the
coordinator; `worker` and `committing` are the program counters of the two threads that can own the
ticket manager. A batch is pushed one operation at a time under its lock (`batch`), so that the lock
has something to protect. `Propagate` is a constant operator: nothing here depends on what levels
mean. A commit merges the revivals deferred before with the epoch's changes (`MergeRevivals`) and
may have to defer some of the returning positions again (`UpdateLevels`): which of the unloading
holders have a save in preparation is left open. `CommittedIsVisible` therefore says what is
visible together with what is deferred. `log`, `views` and `shown` are history.

**TicketLevels.** Tickets of a position are a bag, as `add_ticket` and `remove_ticket` treat the
vector. An epoch is `TakeOperations`, one `ApplyNext` per queued operation, `BeginUpdates`, one
`SpreadSource` per ticket source in any order (the code iterates over a hash map), `RecordChanges`
and, at the boundary, `CommitChanges`; owners queue between any two of them. `SpreadSource` takes
the strongest ticket of a source, as `run_all_updates` does, and `StrongestTicketWins` compares the
result with the definition by all tickets of all sources. `CommitChanges` defers revivals as in
`ChunkScheduling`, so a holder has the manager's levels or is unloading with these levels recorded,
and `process_unloads` drops no holder that is wanted back. Revisions and the handoff of the epoch
are in `ChunkScheduling`. A timed ticket does not age while its holder is not ready for saving;
which holders those are is a choice.

**ChunkLifecycle.** One action per critical section of `update_chunk_level`, `process_unloads`, the
Empty step, a generation step, `save_chunk` and `save_all_chunks`. A holder is a record of the
atomics that decide races: lifecycle, allowed status, published status, dirty flag, the stage of its
producer and of its save. `strong_count == 1` is `Unshared`. `ContentIsDurable` maps it to
**DurableChunks**, which says what a user of the map may rely on: a position has one content,
written only while resident, and load, save, eviction and revival never change it. A stored
payload that cannot be decoded is the one loss (`LoadCorrupt`, `Discard`): the position, which is
not resident then, is generated again.

**GenerationTasks.** A task schedules layer after layer (`ScheduleNextLayer`), claims or joins the
work on each chunk (`ClaimStep`, `JoinStep`), is polled (`PollClaim`) and ends (`EndTask`).
Producers abandon, fail, install, run and publish. A save is spawned for an unloading holder that
nobody shares, but reserves it later, when it may be revived, shared and demoted again. The pyramid is the constant `Layer`, with the
properties of `accumulated_dependencies` as an assumption: a layer is a square around the chunk,
and the layers of a task contain those each of its chunks needs. A task always starts with
`needs_generation` set and never clears it, so the path of `schedule_next_layer` through
`can_load_without_generation` is never taken and is left out. The panic of
`ChunkGenerationTask::new` is an outcome (`panicked`).

**FullReadiness.** The index (contributors, counts, dirty centres, pending readiness) is updated by
the functions the code has. Each loop of a commit over positions takes one step per position:
`Begin`, `RemoveLost` for every change that loses its full level, `Demote`, `UpdateChunkLevel` for
every change, `Drain`, `Reconcile` for every changed or published position and
`ApplyFinalReadiness`. Generation threads publish in three steps between any two of them. Positions
around the modelled ones are permanently Full. The recovery after an index error is not modelled:
`IndexIsConsistent` is the check that it is never needed. Failures of `post_process`, entity
visibility and tick unpacking are left out.

**LightUpdates.** Agents are the world thread, the worker and one save task per chunk. An update
reserves its window, collects holders, writes light, and then looks each holder up again to mark it
dirty, in two look-ups, while a commit moves holders between the two maps in two steps. The flush
before a save looks for pending updates (`LookPending`) and for those in flight (`LookInFlight`)
under separate locks, and the save then reserves the holder, takes the dirty flag and captures in
three more steps. Light is a version number.

**RegionStorage.** Sectors, the table on disk, the table of the open handle and the reference
count. Data writes may fail and leave garbage; a header write fails as a whole. A crash loses the
handle. A region begins without a file; creating it may be cut before the table is written, and
the short file is then refused by every `open_region` (`CreateFails`, `OpenFails`). The scan of `find_free_sectors` over the sorted ranges is in closed form: where
`current_sector` stands before a range is the largest end of the ranges sorted before it, and the
scan stops at the first range with enough room in front of it. Over every valid table of up to
three chunks and nine data sectors TLC found no difference from the loop written as a fold.

**PacketProcessor.** One step per hold of the queue's lock, with the notifications sent after it; a
worker that waits on the condition variable and a loop that waits on a `Notify` permit are states,
so a lost wake-up is a state in which nobody runs. A heap is the set of its entries. `loop` is the
program counter of `run_game_tick`. Byte budgets are left out: they are charged and released with
the packet count. Panics of handlers and worlds are modelled as the supervisor treats them, which
only builds that unwind do; the release profile aborts. Any handler that runs may panic: the worker
unwinds, the task that awaits it cancels the server (`WorkerLost`), and no worker takes its place.

**PlayerSessions.** All connections of one UUID. `game` is where the game thread is in its tick,
`stage` how far a connection is in login, configuration and the join pipeline, `job` the state of a
domain switch, `saves` the disconnect saves under way. Player data is a version per domain; a
player's data and statistics files count as one write. `TargetHandshake` exists only inside the
commit of a switch, which is one step. Branches that need a lost residence, a lost lease or a
refused spawn are left out, since `OwnersMatch` shows their conditions never hold. World changes
within a domain, respawning and the End credits are not modelled here. `queue_player_disconnect`
only names earlier what the scan of the tick finds anyway.

**ChunkSending.** A batch is prepared under the sender's lock, encoded under none and committed
under view and sender locks; the loop's place is `world`, `player` and `batch`. A chunk's content
is a version, and an incarnation number stands for the holder and its readiness generation. The
float quota of a batch is abstracted to its effect, a non-empty set of ready pending chunks. The
reading of a chunk's revision and the extraction of its blocks are one step. Light packets, the
entity tracker and block writes that ask for no client update are left out, and so are copies a
client keeps of a chunk that lost its readiness.

## Runs

| Run | Distinct states | Shows |
| --- | --- | --- |
| `chunk_scheduling` | 109 042 | one owner of the manager; a committed revision is exactly what is visible or recorded as a deferred revival; levels change only in commits; every revision commits |
| `ticket_levels` | 1 333 401 | propagation equals its reference; complete, unambiguous change lists with simulation within loading; no leaked or stolen ticket; a player's area is loaded but for deferred revivals |
| `chunk_lifecycle` | 108 807 | one holder per position; balanced storage handles; registrations handed over in order; shutdown saves everything; content is durable; tickets are served |
| `generation_tasks` | 733 980 | claims and producers correspond; steps run on published parents and neighbours; running tasks end unless a commit intervenes |
| `full_readiness` | 3 478 623 | the index is consistent; ready chunks have Full neighbours at every moment; no lost wake-up; snapshot, save dependencies and block entities current |
| `light_updates` | 729 608 | updates stay visible; light is saved; a chunk is dropped only with its light applied and stored; flushes end |
| `region_storage` | 400 037 | a region created completely always opens, and one that was not has lost nothing; reads return the last save and unsaved chunks survive crashes; regions in use stay open |
| `packet_processor` | 1 089 435 | the queue's indexes agree; packets start in order; ticks run alone; no wake-up is lost and the loop always comes round or ends while a worker is left |
| `player_sessions` | 283 308 | every admission has one owner; a session continues from the newest data; who has left is saved; logins, switches and saves end |
| `chunk_sending` | 2 385 858 | an announced block change reaches everyone who has the chunk; client and sender agree on what was sent; the acknowledgement window reopens |

Every property of these runs is violated by at least one mutated definition named in `PROJECT.json`.

Two runs exhibit a disagreement between the code and a sentence of the repository.

- `generation_tasks_cache` (2 positions, no failures): a task is created while the revival of a
  neighbour is deferred, and the `expect` on the missing holder fails.
- `chunk_sending_area`: a client that changes its view distance while it is in no world (before it
  has joined, or during the End credits) gets a view of the world it last pointed at. The world it
  enters next takes that view for its own: the chunks common to both views are pending since the
  first one and get sent, but they are missing in the new world's area map, so the player is never
  told of block changes in them, and the old world keeps its entries. `chunk_sending` excludes this
  with `SettingsWhileAway = FALSE`, and so do the theorems `ChangesReachClients` and
  `AreaMapFollows`; `SendingResumes` and `ClientIsInStep` hold either way.

Further effects that were met while modelling. They are hazards with a note in `PROJECT.json`, or
too small for one; no run is kept for them.

- The Empty step tells the entity manager that a chunk is loaded (`chunk_holder.rs:1042`) after it
  published its status, without looking at the lifecycle again. If the holder was demoted meanwhile,
  the membership the demotion removed comes back, and dropping the holder does not remove it again.
- Demotion removes the points of interest of a chunk (`generation_readiness.rs:184`); revival of the
  same holder does not restore them.
- Lowering a level dooms the current generation task; raising it again schedules nothing because the
  task's target suffices (`chunk_holder.rs:549`); the task then fails, and the chunk keeps its level
  without reaching its status until another change wakes it.
- `save_chunk` reads the status before it takes the dirty flag (`persistence.rs:31`), so a stored
  chunk can have newer content than its status.
- The flush before a save looks for pending updates and then, under another lock, for those in
  flight (`light_updates.rs:235`). A drain that is refused its window and puts its update back
  between the two is seen by neither look, and the save captures the chunk without that light.
  Nothing is lost: `process_unloads` keeps the chunk while an update touches it, and the update
  marks it dirty again (`DropIsFlushed`).
- A server that dies in `create_region` (`region_manager.rs:168`) can leave a file shorter than its
  header and table. `open_region` refuses it for good, so no chunk of the region can be loaded or
  saved until the file is removed by hand.
- When handlers have panicked in every packet worker, a tick drain or an overload wait that is
  under way waits for packets nobody takes, and neither looks at the cancellation token
  (`packet_processor.rs:365` and `:417`). Only builds that unwind can get there.
- `light_changed` can miss a holder that a commit has in neither map (`light_updates.rs:34`), so
  light is written and not marked dirty.
- A block change in a chunk that is not ticking is not recorded for broadcast
  (`chunk_holder.rs:372`); `AnnouncedIsSeen` is about changes that are.
- Aborting a storage task does not stop a file operation that the blocking pool has begun
  (`domain_switch.rs:119`); `PlayerSessions` takes a write as one step.

## Bounds

- `chunk_scheduling`: two positions, one ticket kind, four operations in batches of up to two:
  enough for a batch to be taken, overtaken by another epoch and partly undone.
- `ticket_levels`: three positions at distances chosen so that one ticket's simulation reaches a
  position another one only loads; scaled-down level constants; three owner steps plus any number of
  ticks, propagations and commits.
- `chunk_lifecycle`: one position, since nothing in it depends on a neighbour except through the
  choices above; two holder identities, so that an old holder and its successor coexist; four
  content versions.
- `generation_tasks`: two chunks that need each other at the lower status, both wanted at the last
  one or not at all, so that their tasks wait for each other's claims; two task names that are used
  again when a task is gone; one failing step (`Faulty`) and saves of one chunk (`Savers`). The
  limit of two running tasks is as large as the number of tasks, so the run does not show a task
  held back by the limit while others wait; what they would wait for is a producer, which runs
  outside the limit.
- `full_readiness`: two chunks, each in the other's outer square; two holders per position.
- `light_updates`: two chunks of one window, two changes, any number of Light steps.
- `region_storage`: two chunks, six data sectors, payloads of one or two sectors, four saves, two
  faults, one of which may be the creation of the file.
- `packet_processor`: two sessions, two workers, one world, three packets of any execution class
  with two per session at most; any number of ticks and panics. Three packets are enough for a
  barrier with a packet before and one behind it.
- `player_sessions`: two connections of one player, two domains, one change to the data of each, two
  domain switches and one failure of a load, a save or a spawn preparation.
- `chunk_sending`: two players in two worlds with two positions; one player moves (two moves), the
  other one stays and watches; one chunk changes, with one block write and two readiness
  transitions.

Symmetry is used only in runs without liveness properties. Deadlock is checked except in
`packet_processor` and `player_sessions`, where a server that has shut down has nothing left to do;
that it does not stop earlier is part of `ServerAdvances` and `SessionsEnd`.

## Fairness

Safety is checked without it. For liveness: a blocking task of the chunk runtime and a lock holder
run to their end (weak fairness of worker, producers, generation tasks and save tasks); the
world thread reaches a boundary and broadcasts every tick (weak fairness of the boundary, strong
fairness of its light drain, because commits may make it momentarily impossible). Packet workers
and world workers are threads, and a handler and a world's tick end; the game loop is polled when
its timer or its permit is there (weak fairness of each). In `PlayerSessions` the game thread, the
storage tasks, the chunk system preparing a spawn and a connection's own tasks go on. Nothing has
to *begin*: no fairness on gameplay, on new levels, on packets or logins, on peers closing or on
failures. In `GenerationTasks` it is even enough that the runtime polls *some* task or producer
that can go on, and `TasksEnd` says that then no task is left running unless a commit intervenes.
`FlushEnds` leaves out behaviours in which the gate goes on refusing drains or going to Light
steps: a drain that finds its window taken by a save, and a save that finds its update taken by the
drain, could alternate for ever.

Fairness of the worker means that it reaches `finish_epoch`. `EveryRevisionCommits` and
`TicketServed` rest on it, and the panic that `generation_tasks_cache` exhibits breaks it: the
worker is then gone, the coordinator stays Running and nothing is committed any more. The two
properties are about servers in which that panic does not happen. Likewise `ServerAdvances` asks
for nothing once no packet worker is left.

## Proofs

The theorems hold for all values of the constants under the named assumptions of the modules. Bounds
are constants like the others: a theorem holds for any number of steps, faults, messages and
identities. Every safety property of the passing runs is proved, for every component. A safety
property is seldom inductive; each section names the inductive invariant and why it is needed. TLC
checked every invariant on the instance of the component's run before it was proved (`BalanceInv` of
the ticket levels in its equivalent form as a fold over the queue, since a path is not enumerable).
Two modules of proofs hold two components each: `BoundaryProofs` the two halves of a scheduling
boundary, and `StorageLightProofs` what becomes of a chunk's light and of its saved data.

A loop of the code that would be a fold, and thus beyond the prover (see below), is a step per
element in the models. What the loop computes is then an invariant about the elements that are
left, and holds for every order in which they come.

### Chunk scheduling

`BoundaryProofs` proves four theorems about `ChunkScheduling` for all positions, tickets,
levels, bounds and every propagation rule that maps ticket states to level states and no tickets to
no levels (the named assumptions of `ChunkScheduling`):

- `TypeCorrect`: `Spec => []TypeOK`
- `EpochHandoffSafe`: `Spec => []EpochExclusive`
- `CommittedRevisionIsVisible`: `Spec => []CommittedIsVisible`
- `LevelsChangeInCommits`: `Spec => CommitOnly`

All follow from one inductive invariant, `Inductive`. Even the type of `tickets` needs it: the
bound on copies of a ticket is enforced where operations are queued, so one has to know that the
manager holds the tickets of a prefix of the log. Its parts are

- `HandoffInv`: a Running state has a worker or a commit, any other state has neither, and only an
  applying worker has taken operations;
- `QueueInv`: the log is the applied part, the taken part and the queue, in this order, and the
  manager holds the tickets of the applied part;
- `RevisionInv`: revisions grow along the log, the cut between taken and queued operations splits
  no revision (here the queue's lock is needed: a batch that is being pushed is wholly in the
  queue), and `applied` is the revision of the last applied operation;
- `LevelInv`: levels are propagated unless the manager is dirty, and they are the visible levels
  plus the deferred revivals and the epoch's changes (`Promised`), and a deferred position is
  invisible and still unloading;
- `ShownInv`: what was committed is a prefix that splits no revision, with its revision.

Each action that does more than hand the epoch on has its own lemma.

### Ticket levels

`TicketLevelsProofs`, for any positions, level constants, view and simulation distances, timeouts,
radii, requests and any finite set of handles (`DistanceAssumption`, `NoneAssumption`):

- `StrongestTicket`: `TicketSpec => []StrongestTicketWins`
- `HoldersFollow`: `TicketSpec => []HoldersFollowManager`
- `NoTicketLeaks`: `TicketSpec => []TicketsBalance`
- `AreaLoaded`: `TicketSpec => []PlayerAreaLoaded`

They share `TicketInv` (`TicketInvariant`). `LevelInv` says that, in the loop over the sources, the
levels are the strongest that the sources already treated give (`PropagatedBut`); since the minimum
of a union is the minimum of minima, one more source keeps it, and with no source left it is
`StrongestTicketWins`. `SimulationInv` holds source by source because no ticket simulates more
strongly than it loads. `HolderInv` says what the holders have at each step of the epoch: the
levels, the old levels while new ones are computed, or the levels but for the listed changes, where
a deferred revival stands for its holder.
`BalanceInv` is about the queue: there is a path of ticket counts from what the manager holds to
what is owed, each queued operation taking it one step on. The worker takes the first step off, and
an owner that queues an operation adds one at the end; the lemmas on paths and on what is owed
(`OwedFor`) show that what it adds is exactly the change of what is owed. A removal in the path
always finds its ticket, because the owner still counted it when it queued the removal.

### Ticking readiness

`BoundaryProofs`, for any chunks, any two nested symmetric finite neighbourhoods and any number of
holders (`NearAssumption`, `BoundAssumption` of `FullReadiness`):

- `IndexConsistent`: `ReadinessSpec => []IndexIsConsistent`
- `ReadySurrounded`: `ReadinessSpec => []ReadyMeansFull`
- `WakeUpsArrive`: `ReadinessSpec => []ReadinessIsCurrent`
- `OwnersCurrent`: `ReadinessSpec => []OwnersAreCurrent`

They share `ReadinessInv` (`ReadinessInvariant`), which says for every moment of a commit who still
has to notice a change. `Counted`: each count is the number of contributors in its square, so none
leaves its range. `ContributorShape`: a contributor is an active Full holder with a full level, so
no foreign one is met. `NoLostWakeUp`: the contributor of a position is its current Full holder, or
a publication, a producer about to queue one, or a change of this commit will reconcile it.
`ReadyFresh` and `PendingShape`: a centre that is not dirty has the readiness, and the save
dependency, its contributors permit. `ReadyShape`: a ready chunk is surrounded by contributors, but
for those removed in this commit, and then it is dirty and demoted before any level drops; this is
why readiness has to be lowered before the levels are committed. `BlockEntitiesLive` and
`SnapshotShape` say the same of block entities and of the snapshot. That two radii are used and how
large they are does not matter, only that the neighbourhoods are symmetric and nested.

### Chunk life cycle

For any positions, holder identities, content versions and failures (`HolderAssumption`,
`BoundAssumption`):

- `LifecycleOneOwner`: `Spec => []OneOwner`
- `LifecycleShutdownSaves`: `Spec => []ShutdownSaves`
- `LifecycleHandover`: `Spec => []HandoverInOrder`
- `LifecycleHandles`: `Spec => []HandlesBalance`
- `LifecycleDurable`: `Spec => ContentIsDurable`, the refinement of `DurableChunks`

They share the invariant `LifecycleInv` (`LifecycleInvariant`). `MapsInv` says that a position has
at most one entry in the two maps, of the life cycle the map stands for, and that a dropped holder
is shared with nobody and apart from its successor. `EpochInv` says which changes are still to be
committed in each phase, so that a level exists exactly where a holder or a deferred revival does.
`ContentInv` is the reason for durability: content that could be saved is on disk, or the holder is
dirty, or a save or generation step has it in hand and will write it or mark it again. `StorageInv`
counts handles as owner plus releases. For the refinement, the content of a position is that of its
holder, or what is on disk when no holder has saveable data (`Content`); every action but a write
to a resident chunk and the discarding of a corrupt payload leaves it unchanged (`Steady`), and `ContentInv` is what shows it for eviction,
for a load and for the end of a save.

### Generation tasks

For any pyramid that satisfies `PyramidAssumption`, any chunks, tasks, levels and bounds:

- `ClaimsHaveProducers`: `Spec => []ClaimHasProducer`
- `StepsFindDependencies`: `Spec => []DependenciesPublished`

Neither property is inductive. The invariant `WorkInv` adds why a task may go on: `LayersInv` says
that every chunk of a finished layer has published its status, and that a chunk of the present
layer has, too, unless the task has not come to it, waits for it or has failed. `ClaimInv` says for
each stage of a producer what is claimed and published, and that the neighbours its step reads have
what it reads and are in its cache. `SpawnedInv` says that a producer's task is still in the layer
the producer works for. A published status is taken back only when a holder is dropped; a dropped
holder is in no cache, and a cache holds the whole area of its task and thus, since layers nest,
the pyramid of each chunk in it.

### Light updates

`StorageLightProofs`, for any finite window and any number of changes
(`AgentAssumption`, `WindowAssumption`, `BoundAssumption`):

- `LightOwedIsTracked`: `Spec => []OwedIsTracked`
- `LightIsNeverLost`: `Spec => []LightIsSaved`
- `LightDropIsFlushed`: `Spec => DropIsFlushed`

`LightInv` (`LightInvariant`) consists of `AgentInv` (what a drainer took lies under its own guard,
and it has chunks to mark only after it wrote light), `GuardInv` (the in-flight count of a position
is the number of guards over it, so no release underflows), `OwedInv` (a change not applied yet is
pending or with a drainer) and `StoredInv` (`LightIsSaved` with what a save is about to store told
from what is stored: a save that began before new light was written must not count). As in the run,
chunks that an update did not find because a commit had them in neither map (`missed`) are excepted.

### Region files

`StorageLightProofs`, for any finite set of chunks, any sizes, faults and crashes
(`StorageBounds`):

- `RegionAlwaysOpens`: `StorageSpec => []RegionOpens`
- `RegionReadsSaves`: `StorageSpec => []ReadsLastSave`
- `RegionHeldIsOpen`: `StorageSpec => []HeldIsOpen`
- `RegionKeepsGoodSaves`: `load_chunk`, which decodes what it read after giving up the lock,
  discards as corrupt no chunk whose last save succeeded

`RegionInv` adds `TableInv` (the tables in memory and on disk agree on every chunk not saved since
the last header write, which are all of them if the handle is not dirty) and `LoadsLastSave` (a
load has read the last save); beside it, `CreatedInv` says that a region without a complete file
has no handle and no saved chunk. The heart is the allocator: `FoundIsFree` shows that
`find_free_sectors` returns sectors no entry of the table in memory uses, and `AfterWrite` that a
data write therefore disturbs no other chunk. A crash right after it is harmless because the table
on disk gives the chunks it still describes the same sectors as the one in memory.

### Packet processor

For any sessions, worlds, limits and bounds and any finite set of workers
(`ProcessorAssumption`):

- `TicksAreIsolated`: `Spec => []TickIsIsolated`
- `PacketsStartInOrder`: `Spec => []StartedInOrder`
- `QueueIsConsistent`: `Spec => []IndexesAgree`

The inductive invariant `ProcessorInv` says what each index means: `LaneInv` orders a lane and
counts it, `HeapInv` says pointwise which packets are in the heaps, `HandInv` ties counter and
flags to the workers' packets, `PhaseInv` ties the phase of the queue to the loop. The heart is
`StartableFacts`: an exclusive packet is never started before an earlier packet of another session.
`select_next` does not check this directly; it only compares heads of heaps. But with nothing in
hand every lane is idle, so the earliest ready packet is the earliest of all; it may start, and
`select_next` prefers it. The same argument makes a drain complete (`DrainCompletes`): with nothing
in hand and no ready packet before the cutoff there is no packet before the cutoff.

### Player sessions

For any connections of one player, any domains, switches and failures (`SessionAssumption`):

- `SessionsOwnersMatch`: `Spec => []OwnersMatch`
- `SessionsLatestIsLive`: `Spec => []LatestIsLive`
- `SessionsLeftIsSaved`: `Spec => []LeftIsSaved`

`SessionInv` (`SessionsInvariant`) says in every phase of the tick and of shutdown who owns the
UUID (`AdmissionInv`), that request, token, lease and job of a switch belong together (`SwitchInv`)
and to a session that is online or has just left (`JobInv`), who holds the newest data of a domain
while the disk does not (`DataInv`: the session in the world, the join pipeline, the switch or a
disconnect save), and who will still record the active domain (`ResideInv`). A write that fails
makes what is on disk the newest there is, since the code logs the failure and goes on; the
theorems say that nothing else loses data.

### Chunk sending

For any players, worlds, positions, views and bounds (`SendingAssumption`), whether or not clients
change settings while away:

- `SendingResumes`: `Spec => []WindowReopens`, from `WindowInv`. A batch that may still be committed
  was prepared by the present sender when its window was open, and only the loop counts batches.
- `ClientIsInStep`: `Spec => []ClientHoldsSent`, from `CopyInv`. Its `ViewInv` says that pending
  and sent chunks make up the view in every phase of a player and that nothing is sent to a player
  in no world; its `LoopInv` that the packets the loop and its cache hold were made from the world
  the loop is in. So whatever survives the membership and pending checks of the commit is a copy of
  the right world.

For clients that leave their view distance alone while they are in no world:

- `ChangesReachClients`: `~SettingsWhileAway /\ Spec => []AnnouncedIsSeen`
- `AreaMapFollows`: `~SettingsWhileAway /\ Spec => []AreaFollowsView`

`AreaMapFollows` is the property the run `chunk_sending_area` refutes without the hypothesis. It is
part of `SeenInv`, the invariant of `ChangesReachClients`: a broadcast goes to whoever the area map
names, so the map has to have everyone who has the chunk (`AreaInv`). `PacketsInv` says that an
encoded packet is of no later incarnation and revision than the chunk and, if of the present ones,
has every change recorded so far; the commit compares both. `OwedInv` says that a copy is up to
date or the change is still to be broadcast, and that a broadcast under way goes to everyone whose
copy is not. The two races of the property, a change between encoding and commit and a commit
between the choice of receivers and the delivery, are the lemmas `SeenCommit` and
`SeenTake`/`SeenSend`.

### Only model-checked

- Liveness: `EveryRevisionCommits`, `TicketServed`, `TasksEnd`, `FlushEnds`,
  `ServerAdvances` and `SessionsEnd`. Fairness and `ENABLED` are out of the prover's reach.
- That the closed form of `find_free_sectors` computes what its loop computes. What a fold or a
  recursive definition returns for every input needs induction over data, which the installed
  provers cannot do.

## Not modelled

See the components of `PROJECT.json`. Sequential game logic, codecs, world generation and
registries, by far most of the code, have no protocol of their own to check, and a model of a rule
would be the rule again. Of the parts that touch concurrency these are left out:

- Scheduled ticks (`world/tick_scheduler`): owned by one world's tick thread. Registration of a
  chunk's containers and its order against unloading are in `ChunkLifecycle`.
- Entity sections, ownership of saved entities and the tracker (`entity/manager`, `entity/tracker`).
  Only the chunk membership is modelled, in `ChunkLifecycle`.
- The light engine: sequential propagation inside a reserved window; `LightUpdates` has the windows.
- Points of interest: an index behind one lock.
- Pregeneration and other jobs, commands, tick rate and sprinting, the autosave of command data:
  they run on the game thread or in one task each, on top of interfaces modelled here.
- Packet codecs and encryption of a connection: one task per connection, no shared state.
