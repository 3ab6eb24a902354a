-------------------------- MODULE ChunkScheduling --------------------------
(***************************************************************************)
(* Ticket ingress and the epoch handoff of the chunk scheduler             *)
(* (steel-core/src/chunk/chunk_scheduler.rs, driven by                     *)
(* ChunkMap::advance_scheduling).                                          *)
(*                                                                         *)
(* Three kinds of thread meet here.  Gameplay code queues ticket           *)
(* operations under a short lock and gets a revision back.  A background   *)
(* worker takes the queue, applies it to the ticket manager it owns,       *)
(* propagates levels and prepares a list of level changes: an epoch.  The  *)
(* thread that drives the world commits a prepared epoch between two game  *)
(* ticks, publishes its revision and starts the next worker.               *)
(*                                                                         *)
(* A commit may have to leave a chunk in unloading_chunks that its changes *)
(* want back, because a save of it is just being prepared.  The revival is *)
(* recorded and tried again by the next commit; the revision is published  *)
(* all the same.  Which saves are being prepared when is ChunkLifecycle's  *)
(* business: here a commit finds any of the unloading holders busy.        *)
(*                                                                         *)
(* The manager is moved, never shared: Idle and Ready hold it in the       *)
(* coordinator, Running means a worker (or the committing thread) has it.  *)
(***************************************************************************)
EXTENDS Naturals, Sequences, FiniteSets

CONSTANTS
  Positions,     \* chunk positions
  Tickets,       \* ticket values; two operations match when these are equal
  Levels,        \* load levels a position can get
  NoLevel,       \* Option::None of a level
  Propagate(_),  \* levels of every position, from the tickets held (chunk_ticket_manager.rs)
  MaxOperations, \* bound: operations queued in a behaviour
  MaxBatch       \* bound: operations of one batch

TicketState == [Positions -> [Tickets -> 0..MaxOperations]]
LevelState == [Positions -> Levels \cup {NoLevel}]
NoTickets == [p \in Positions |-> [t \in Tickets |-> 0]]
NoLevels == [p \in Positions |-> NoLevel]

ASSUME NoLevelAssumption == NoLevel \notin Levels
ASSUME BoundsAssumption == MaxOperations \in Nat /\ MaxBatch \in Nat \ {0}
ASSUME PropagateAssumption ==
  /\ \A tickets \in TicketState : Propagate(tickets) \in LevelState
  /\ Propagate(NoTickets) = NoLevels

Operation == [kind : {"Add", "Remove"}, pos : Positions, ticket : Tickets]
Queued == [revision : Nat, operation : Operation]

VARIABLES
  nextRevision,  \* PendingChunkTicketOperations.next_revision
  pending,       \* PendingChunkTicketOperations.operations
  batch,         \* operations its lock holder still has to push; the lock is held iff not empty
  state,         \* ChunkSchedulingState: "Idle", "Running", "Ready"
  worker,        \* background task: "None", "Spawned", "Applying", "Updated"
  committing,    \* the boundary thread is inside commit_scheduling_epoch
  taken,         \* operations the worker took and has not applied yet
  tickets,       \* ChunkTicketManager.tickets
  dirty,         \* ChunkTicketManager.dirty
  levels,        \* ChunkTicketManager.levels
  changes,       \* LevelChange list of the epoch: a function from the changed positions
  applied,       \* applied_revision, which moves with the manager
  committed,     \* committed_revision
  visible,       \* load levels of the active holders, as the last commit left them
  unloading,     \* positions with a holder in unloading_chunks
  revivals       \* deferred_revivals: a function from positions to their load levels

\* History, read by no action of the code: every operation ever queued, the tickets after
\* each prefix of them, and the length of the prefix the last commit made visible.
VARIABLES log, views, shown

manager == <<tickets, dirty, levels, changes, applied>>
chunkMap == <<visible, unloading, revivals>>
history == <<log, views, shown>>
vars == <<nextRevision, pending, batch, state, worker, committing, taken, manager,
          committed, chunkMap, history>>

----------------------------------------------------------------------------
\* Mutant: remove_ticket without its search for a matching ticket.
ApplyOperationUnchecked(held, op) ==
  [held EXCEPT ![op.pos][op.ticket] = IF op.kind = "Add" THEN @ + 1 ELSE @ - 1]

\* add_ticket pushes a copy; remove_ticket removes one copy if there is one.
ApplyOperation(held, op) ==
  IF op.kind = "Add"
    THEN [held EXCEPT ![op.pos][op.ticket] = @ + 1]
    ELSE [held EXCEPT ![op.pos][op.ticket] = IF @ > 0 THEN @ - 1 ELSE @]

\* add_ticket always sets the flag, remove_ticket only when it found the ticket.
MarksDirty(held, op) ==
  op.kind = "Add" \/ held[op.pos][op.ticket] > 0

\* run_all_updates lists the positions whose level is new, different or gone.
LevelChanges(old, new) ==
  [p \in {q \in Positions : old[q] # new[q]} |-> new[p]]

NoChanges == LevelChanges(NoLevels, NoLevels)

\* Mutant: the deferred revivals are drained but not merged.
MergeRevivalsDropped(list, waiting) == list

\* merge_deferred_revivals: a change of the epoch replaces the revival of its position.
MergeRevivals(list, waiting) ==
  [p \in DOMAIN list \cup DOMAIN waiting |-> IF p \in DOMAIN list THEN list[p] ELSE waiting[p]]

\* update_chunk_level for every change of a list.
ApplyChanges(shownLevels, list) ==
  [p \in Positions |-> IF p \in DOMAIN list THEN list[p] ELSE shownLevels[p]]

Init ==
  /\ nextRevision = 0
  /\ pending = <<>>
  /\ batch = <<>>
  /\ state = "Idle"
  /\ worker = "None"
  /\ committing = FALSE
  /\ taken = <<>>
  /\ tickets = NoTickets
  /\ dirty = FALSE
  /\ levels = NoLevels
  /\ changes = NoChanges
  /\ applied = 0
  /\ committed = 0
  /\ visible = NoLevels
  /\ unloading = {}
  /\ revivals = NoChanges
  /\ log = <<>>
  /\ views = <<NoTickets>>
  /\ shown = 0

----------------------------------------------------------------------------
\* Gameplay threads.

\* Appends one operation to the locked queue under the given revision.
Enqueue(op, revision) ==
  LET queued == [revision |-> revision, operation |-> op]
      view == ApplyOperation(views[Len(views)], op)
  IN  /\ Len(log) < MaxOperations
      /\ op.kind = "Add" => views[Len(views)][op.pos][op.ticket] < MaxOperations
      /\ pending' = Append(pending, queued)
      /\ log' = Append(log, queued)
      /\ views' = Append(views, view)

\* push and push_batch: the first operation takes the lock and a new revision.
PushFirst(op, rest) ==
  /\ batch = <<>>
  /\ Len(log) + Len(rest) < MaxOperations
  /\ nextRevision' = nextRevision + 1
  /\ Enqueue(op, nextRevision')
  /\ batch' = rest
  /\ UNCHANGED <<state, worker, committing, taken, manager, committed, chunkMap, shown>>

\* push_batch: the remaining operations, under the same lock and revision.
PushRest ==
  /\ batch # <<>>
  /\ Enqueue(Head(batch), nextRevision)
  /\ batch' = Tail(batch)
  /\ UNCHANGED <<nextRevision, state, worker, committing, taken, manager, committed,
                 chunkMap, shown>>

----------------------------------------------------------------------------
\* The background worker: prepare_scheduling_epoch, then finish_epoch.

\* apply_pending_ticket_operations: take needs the queue's lock.
Take ==
  /\ worker = "Spawned"
  /\ batch = <<>>
  /\ taken' = pending
  /\ pending' = <<>>
  /\ worker' = "Applying"
  /\ UNCHANGED <<nextRevision, batch, state, committing, manager, committed, chunkMap, history>>

\* One turn of its loop.
Apply ==
  /\ worker = "Applying"
  /\ taken # <<>>
  /\ tickets' = ApplyOperation(tickets, Head(taken).operation)
  /\ dirty' = (dirty \/ MarksDirty(tickets, Head(taken).operation))
  /\ applied' = Head(taken).revision
  /\ taken' = Tail(taken)
  /\ UNCHANGED <<nextRevision, pending, batch, state, worker, committing, levels, changes,
                 committed, chunkMap, history>>

\* run_all_updates and take_changes.
Update ==
  /\ worker = "Applying"
  /\ taken = <<>>
  /\ IF dirty
       THEN /\ levels' = Propagate(tickets)
            /\ changes' = LevelChanges(levels, Propagate(tickets))
       ELSE /\ changes' = NoChanges
            /\ UNCHANGED levels
  /\ dirty' = FALSE
  /\ worker' = "Updated"
  /\ UNCHANGED <<nextRevision, pending, batch, state, committing, taken, tickets, applied,
                 committed, chunkMap, history>>

\* process_unloads finalizes some of the unloading holders, never one that a change of the
\* epoch or a deferred revival wants back; then finish_epoch, whose assertion is the property
\* EpochExclusive.
FinishEpoch ==
  LET staged == {p \in DOMAIN changes : changes[p] # NoLevel} \cup DOMAIN revivals
  IN  /\ worker = "Updated"
      /\ \E finalized \in SUBSET (unloading \ staged) : unloading' = unloading \ finalized
      /\ state' = "Ready"
      /\ worker' = "None"
      /\ UNCHANGED <<nextRevision, pending, batch, committing, taken, manager, committed,
                     visible, revivals, history>>

----------------------------------------------------------------------------
\* The thread that drives the world: advance_scheduling.  A boundary that finds Running
\* changes nothing.

\* Mutant: a boundary that finds Running starts another worker.
StartEpochAlways ==
  /\ state # "Ready"
  /\ state' = "Running"
  /\ worker' = "Spawned"
  /\ UNCHANGED <<nextRevision, pending, batch, committing, taken, manager, committed,
                 chunkMap, history>>

StartEpoch ==
  /\ state = "Idle"
  /\ state' = "Running"
  /\ worker' = "Spawned"
  /\ UNCHANGED <<nextRevision, pending, batch, committing, taken, manager, committed,
                 chunkMap, history>>

\* Mutant: the boundary commits what the running epoch has so far.
CommitLevelsEarly ==
  /\ worker # "None"
  /\ visible' = ApplyChanges(visible, changes)
  /\ changes' = NoChanges
  /\ shown' = Len(log) - Len(pending)
  /\ UNCHANGED <<nextRevision, pending, batch, state, worker, committing, taken, tickets,
                 dirty, levels, applied, committed, unloading, revivals, log, views>>

\* Lifecycle commit of a list.  A position without an active holder that gets a level takes its
\* holder back from unloading_chunks, unless try_revive_from_unloading refuses because a save
\* of it is being prepared: then it stays there and its levels are recorded.
UpdateLevels(list) ==
  LET returning == {p \in DOMAIN list \cap unloading : visible[p] = NoLevel /\ list[p] # NoLevel}
      demoted == {p \in DOMAIN list : visible[p] # NoLevel /\ list[p] = NoLevel}
  IN  \E refused \in SUBSET returning :
        /\ visible' = ApplyChanges(visible, [p \in DOMAIN list \ refused |-> list[p]])
        /\ revivals' = [p \in refused |-> list[p]]
        /\ unloading' = (unloading \ (returning \ refused)) \cup demoted

\* take_boundary_step finds Ready; commit_scheduling_epoch applies the epoch's changes and the
\* revivals deferred before.
CommitLevels ==
  /\ state = "Ready"
  /\ state' = "Running"
  /\ committing' = TRUE
  /\ UpdateLevels(MergeRevivals(changes, revivals))
  /\ changes' = NoChanges
  /\ shown' = Len(log) - Len(pending)
  /\ UNCHANGED <<nextRevision, pending, batch, worker, taken, tickets, dirty, levels,
                 applied, committed, log, views>>

\* Mutant: a commit does not fork the next epoch.
PublishWithoutSpawn ==
  /\ committing
  /\ committing' = FALSE
  /\ committed' = applied
  /\ UNCHANGED <<nextRevision, pending, batch, state, worker, taken, manager, chunkMap, history>>

\* publish_committed_revision, then spawn_scheduling_epoch.
PublishCommitted ==
  /\ committing
  /\ committing' = FALSE
  /\ committed' = applied
  /\ worker' = "Spawned"
  /\ UNCHANGED <<nextRevision, pending, batch, state, taken, manager, chunkMap, history>>

Gameplay ==
  \/ \E op \in Operation, rest \in UNION {[1..n -> Operation] : n \in 0..(MaxBatch - 1)} :
        PushFirst(op, rest)
  \/ PushRest

Background == Take \/ Apply \/ Update \/ FinishEpoch

Boundary == StartEpoch \/ CommitLevels \/ PublishCommitted

Next == Gameplay \/ Background \/ Boundary

Spec == Init /\ [][Next]_vars

\* A blocking task of the chunk runtime runs to its end, a lock holder releases its lock, and
\* the world thread reaches a lifecycle boundary every tick.
Fairness == WF_vars(PushRest) /\ WF_vars(Background) /\ WF_vars(Boundary)

FairSpec == Spec /\ Fairness

----------------------------------------------------------------------------
\* Types of the queue, the coordinator and the manager.  In particular the manager never holds
\* a negative number of copies of a ticket (remove_ticket).
TypeOK ==
  /\ nextRevision \in Nat
  /\ pending \in Seq(Queued)
  /\ batch \in Seq(Operation)
  /\ state \in {"Idle", "Running", "Ready"}
  /\ worker \in {"None", "Spawned", "Applying", "Updated"}
  /\ committing \in BOOLEAN
  /\ taken \in Seq(Queued)
  /\ tickets \in TicketState
  /\ dirty \in BOOLEAN
  /\ levels \in LevelState
  /\ changes \in UNION {[S -> Levels \cup {NoLevel}] : S \in SUBSET Positions}
  /\ applied \in Nat
  /\ committed \in Nat
  /\ visible \in LevelState
  /\ unloading \in SUBSET Positions
  /\ revivals \in UNION {[S -> Levels] : S \in SUBSET Positions}
  /\ log \in Seq(Queued)
  /\ views \in Seq(TicketState)
  /\ shown \in Nat

\* The ticket manager has one owner at a time: a worker exists only while the state is Running
\* and nothing is being committed, and never two epochs are prepared at once.  finish_epoch
\* asserts this when the worker hands its epoch back.
EpochExclusive ==
  /\ worker # "None" => state = "Running" /\ ~committing
  /\ committing => state = "Running" /\ worker = "None"

\* The prefix of n operations is exactly the operations of the revisions up to r.
Cut(n, r) ==
  \A i \in 1..Len(log) : log[i].revision <= r <=> i <= n

\* is_revision_committed(r) promises that the chunk map has acted on every operation queued up
\* to r and on no half of a batch: the visible levels and the deferred revivals together are
\* the levels of the tickets after a prefix of the queue that ends exactly at a revision
\* boundary not before `committed`.  A level that is not visible is missing only because its
\* holder waits in unloading_chunks, still there for the next commit to revive.
CommittedIsVisible ==
  /\ ApplyChanges(visible, revivals) = Propagate(views[shown + 1])
  /\ \A p \in DOMAIN revivals : visible[p] = NoLevel /\ p \in unloading
  /\ IF committing THEN Cut(shown, applied) /\ committed <= applied
                   ELSE Cut(shown, committed)

\* No boundary takes a published revision back, and levels change only in a commit: between
\* two boundaries "the previously committed chunk state remains authoritative".
CommitOnly ==
  [][ /\ committed' >= committed
      /\ shown' >= shown
      /\ visible' # visible => state = "Ready" /\ state' = "Running" ]_vars

\* A queued operation is committed in the end: the revision its caller polls for with
\* is_ticket_revision_committed arrives.
EveryRevisionCommits ==
  \A r \in 1..MaxOperations : (nextRevision = r) ~> (committed >= r)
=============================================================================
