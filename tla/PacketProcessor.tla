-------------------------- MODULE PacketProcessor --------------------------
(***************************************************************************)
(* Gameplay packets between game ticks: server/packet_processor.rs, with   *)
(* the game loop of server/run_loop.rs and the world tick workers that it  *)
(* separates from packet handlers.                                         *)
(*                                                                         *)
(* Network tasks submit packets to one lane per session.  Workers take the *)
(* earliest packet whose lane is free and which no barrier holds back.  At *)
(* each boundary the loop drains what was submitted before it, ticks every *)
(* world and opens the queue again.  Workers sleep on a condition variable *)
(* and the loop on two tokio Notify objects, so lost wake-ups show.        *)
(*                                                                         *)
(* A heap is the set of its entries, and a session without an entry in the *)
(* map has an empty lane.  Everything under one hold of the queue's lock   *)
(* is one step, with the notifications sent after the unlock: a worker     *)
(* looks at the state under the lock before it waits.  Payload sizes are   *)
(* left out; their budget is charged and released with the packet count.   *)
(***************************************************************************)
EXTENDS Naturals, Sequences, FiniteSets

CONSTANTS
    Lanes,          \* sessions, by PlayerPacketLaneKey
    Workers,        \* packet worker threads
    Worlds,         \* world tick workers
    PacketLimit,    \* per_player_packets
    MaxPackets,     \* bound on the submissions of a behaviour
    NoWork

VARIABLES
    phase,           \* PacketPhase without the cutoff of Draining
    cutoff,          \* before_sequence of the last drain
    lanes,           \* PacketLane per session
    ready,           \* the three ready heaps
    ordered,         \* the serialized and exclusive heaps
    nextSequence,
    active,
    serializedActive,
    exclusiveActive,
    completed,
    worker,          \* where each packet worker is
    work,            \* the PacketWork each worker holds
    idle,            \* permit of the idle Notify
    progress,        \* permit of the progress Notify
    closed,          \* sessions whose connection is closed
    cancelled,       \* the cancellation token
    loop,            \* where run_game_tick is
    baseline,        \* the completed count an overload wait started from
    ticking,         \* worlds whose worker runs a tick
    running          \* workers in the handler of their packet

heaps == <<ready, ordered>>
flags == <<active, serializedActive, exclusiveActive, completed>>
threads == <<worker, work>>
permits == <<idle, progress>>
tickVars == <<loop, baseline, ticking>>
vars == <<phase, cutoff, lanes, heaps, nextSequence, flags, threads, permits,
          closed, cancelled, tickVars, running>>

WorkerStates == {"next", "handling", "waiting", "stopped", "unwound", "lost"}
Executions == {"PlayerLocal", "Serialized", "Exclusive"}
Packets == [sequence : Nat, key : Lanes, execution : Executions]
EmptyLane == [queued |-> <<>>, active |-> FALSE, packets |-> 0]

ASSUME ProcessorAssumption ==
    /\ IsFiniteSet(Workers)
    /\ PacketLimit \in Nat
    /\ NoWork \notin Packets

Init ==
    /\ phase = "Open"
    /\ cutoff = 0
    /\ lanes = [k \in Lanes |-> EmptyLane]
    /\ ready = {} /\ ordered = {}
    /\ nextSequence = 0
    /\ active = 0 /\ serializedActive = FALSE /\ exclusiveActive = FALSE
    /\ completed = 0
    /\ worker = [w \in Workers |-> "next"]
    /\ work = [w \in Workers |-> NoWork]
    /\ idle = FALSE /\ progress = FALSE
    /\ closed = {}
    /\ cancelled = FALSE
    /\ loop = "top" /\ baseline = 0 /\ ticking = {}
    /\ running = {}

-----------------------------------------------------------------------------
(* The queue                                                               *)

Of(S, e) == {p \in S : p.execution = e}
Earliest(S) == {p \in S : \A q \in S : p.sequence <= q.sequence}
Heads == UNION {Earliest(Of(ready, e)) : e \in Executions}

\* Mutant: an exclusive packet does not wait for the packets in hand.
MayStartBesideActive(p, before) ==
    /\ p.sequence < before
    /\ \A x \in Of(ordered, "Exclusive") : p.sequence <= x.sequence
    /\ p.execution = "Serialized" =>
          ~serializedActive /\ p \in Earliest(Of(ordered, "Serialized"))

\* The conditions select_next puts on the head p of a ready heap.
MayStart(p, before) ==
    /\ p.sequence < before
    /\ \A x \in Of(ordered, "Exclusive") : p.sequence <= x.sequence
    /\ p.execution = "Serialized" =>
          ~serializedActive /\ p \in Earliest(Of(ordered, "Serialized"))
    /\ p.execution = "Exclusive" =>
          active = 0 /\ p \in Earliest(Of(ordered, "Exclusive"))

\* select_next: at most one packet, the earliest that may start now.
SelectNext(before) ==
    IF exclusiveActive THEN {}
    ELSE Earliest({p \in Heads : MayStart(p, before)})

\* What next() may take in this phase; without a cutoff, every sequence.
Startable ==
    CASE phase = "Open"     -> SelectNext(nextSequence)
      [] phase = "Draining" -> SelectNext(cutoff)
      [] OTHER              -> {}

Waiting(ws) == {w \in Workers : ws[w] = "waiting"}

\* Condvar::notify_one and notify_all: the worker states that may follow ws.
NotifyOne(ws) ==
    IF Waiting(ws) = {} THEN {ws}
    ELSE {[ws EXCEPT ![w] = "next"] : w \in Waiting(ws)}
NotifyAll(ws) ==
    {[w \in Workers |-> IF ws[w] = "waiting" THEN "next" ELSE ws[w]]}

-----------------------------------------------------------------------------
(* Network tasks                                                           *)

\* try_submit within the limits.
Submit(k, e) ==
    LET p == [sequence |-> nextSequence, key |-> k, execution |-> e]
        becameReady == ~lanes[k].active /\ lanes[k].queued = <<>>
    IN  /\ k \notin closed
        /\ phase # "Stopped"
        /\ nextSequence < MaxPackets
        /\ lanes[k].packets < PacketLimit
        /\ nextSequence' = nextSequence + 1
        /\ lanes' = [lanes EXCEPT ![k].queued = Append(@, p), ![k].packets = @ + 1]
        /\ ready' = IF becameReady THEN ready \cup {p} ELSE ready
        /\ ordered' = IF e = "PlayerLocal" THEN ordered ELSE ordered \cup {p}
        /\ worker' \in IF becameReady /\ phase = "Open" THEN NotifyOne(worker) ELSE {worker}
        /\ UNCHANGED <<phase, cutoff, flags, work, permits, closed, cancelled, tickVars, running>>

\* A lane whose queue is discarded; it stays in the map while one is in hand.
Discarded(lane) ==
    IF lane.active
    THEN [queued |-> <<>>, active |-> TRUE, packets |-> lane.packets - Len(lane.queued)]
    ELSE EmptyLane

\* Mutant: the discarded packets stay in the serialized and exclusive heaps.
DiscardLaneKeepsOrder(k) ==
    IF lanes[k].queued = <<>> THEN UNCHANGED <<lanes, heaps, worker, permits>>
    ELSE /\ lanes' = [lanes EXCEPT ![k] = Discarded(@)]
         /\ ready' = {p \in ready : p.key # k}
         /\ worker' \in NotifyAll(worker)
         /\ progress' = TRUE
         /\ idle' = (idle \/ active = 0)
         /\ UNCHANGED ordered

\* Mutant: the drain is not told that its last packets were discarded.
DiscardLaneUnnoticed(k) ==
    IF lanes[k].queued = <<>> THEN UNCHANGED <<lanes, heaps, worker, permits>>
    ELSE /\ lanes' = [lanes EXCEPT ![k] = Discarded(@)]
         /\ ready' = {p \in ready : p.key # k}
         /\ ordered' = {p \in ordered : p.key # k}
         /\ worker' \in NotifyAll(worker)
         /\ progress' = TRUE
         /\ UNCHANGED idle

\* discard_lane.
DiscardLane(k) ==
    LET queued == {lanes[k].queued[n] : n \in 1..Len(lanes[k].queued)}
    IN  IF lanes[k].queued = <<>> THEN UNCHANGED <<lanes, heaps, worker, permits>>
        ELSE /\ lanes' = [lanes EXCEPT ![k] = Discarded(@)]
             /\ ready' = {p \in ready : p.key # k}
             /\ ordered' = ordered \ queued
             /\ progress' = TRUE
             /\ worker' \in IF phase \in {"Open", "Draining"} /\ ready' # {}
                            THEN NotifyAll(worker) ELSE {worker}
             /\ idle' = (idle \/ active = 0)

\* schedule when the lane is over a limit: the session is disconnected.  The
\* count limit is exact; the byte limit may be hit with anything outstanding.
Refuse(k) ==
    /\ k \notin closed
    /\ phase # "Stopped"
    /\ lanes[k].packets > 0
    /\ closed' = closed \cup {k}
    /\ DiscardLane(k)
    /\ UNCHANGED <<phase, cutoff, nextSequence, flags, work, cancelled, tickVars, running>>

\* schedule for a packet that arrives on a closed connection.
ScheduleClosed(k) ==
    /\ k \in closed
    /\ lanes[k].queued # <<>>
    /\ DiscardLane(k)
    /\ UNCHANGED <<phase, cutoff, nextSequence, flags, work, closed, cancelled, tickVars, running>>

\* The peer leaves, or the server closes the connection.
Close(k) ==
    /\ k \notin closed
    /\ closed' = closed \cup {k}
    /\ UNCHANGED <<phase, cutoff, lanes, heaps, nextSequence, flags, threads, permits,
                   cancelled, tickVars, running>>

-----------------------------------------------------------------------------
(* Packet workers                                                          *)

\* next() with a packet to start: start_next.
StartNext(w) ==
    /\ worker[w] = "next"
    /\ \E p \in Startable :
          /\ ready' = ready \ {p}
          /\ ordered' = ordered \ {p}
          /\ lanes' = [lanes EXCEPT ![p.key].queued = Tail(@), ![p.key].active = TRUE]
          /\ serializedActive' = (serializedActive \/ p.execution = "Serialized")
          /\ exclusiveActive' = (exclusiveActive \/ p.execution = "Exclusive")
          /\ work' = [work EXCEPT ![w] = p]
    /\ active' = active + 1
    /\ worker' = [worker EXCEPT ![w] = "handling"]
    /\ UNCHANGED <<phase, cutoff, nextSequence, completed, permits, closed, cancelled,
                   tickVars, running>>

\* next() with nothing to start: wait on the condition variable, or end.
Wait(w) ==
    /\ worker[w] = "next"
    /\ Startable = {}
    /\ worker' = [worker EXCEPT ![w] = IF phase = "Stopped" THEN "stopped" ELSE "waiting"]
    /\ UNCHANGED <<phase, cutoff, lanes, heaps, nextSequence, flags, work, permits, closed,
                   cancelled, tickVars, running>>

\* A lane whose packet in hand is done; an empty one leaves the map.
Finished(lane) ==
    IF lane.queued = <<>> THEN EmptyLane
    ELSE [queued |-> lane.queued, active |-> FALSE, packets |-> lane.packets - 1]

\* finish_one: the packet of worker w, which is at `then` afterwards.
FinishOne(w, then) ==
    LET p == work[w]
        lane == lanes[p.key]
        done == [worker EXCEPT ![w] = then]
        wake == phase \in {"Open", "Draining"} /\ ready' # {}
    IN  /\ active' = active - 1
        /\ completed' = completed + 1
        /\ serializedActive' = (serializedActive /\ p.execution # "Serialized")
        /\ exclusiveActive' = (exclusiveActive /\ p.execution # "Exclusive")
        /\ lanes' = [lanes EXCEPT ![p.key] = Finished(@)]
        /\ ready' = IF lane.queued = <<>> THEN ready ELSE ready \cup {Head(lane.queued)}
        /\ work' = [work EXCEPT ![w] = NoWork]
        /\ running' = running \ {w}
        /\ progress' = TRUE
        /\ worker' \in IF ~wake THEN {done}
                       ELSE IF p.execution = "Exclusive" THEN NotifyAll(done)
                       ELSE NotifyOne(done)
        /\ idle' = (idle \/ active = 1)
        /\ UNCHANGED <<phase, cutoff, ordered, nextSequence, closed, tickVars>>

\* run: packet_is_runnable lets the packet through, and its handler starts.
Run(w) ==
    /\ worker[w] = "handling" /\ w \notin running
    /\ ~cancelled /\ work[w].key \notin closed
    /\ running' = running \cup {w}
    /\ UNCHANGED <<phase, cutoff, lanes, heaps, nextSequence, flags, threads, permits, closed,
                   cancelled, tickVars>>

\* The handler returns, or there is none because the session is closed, the
\* server cancelled or the packet gated; either way the work is dropped.
Handle(w) ==
    /\ worker[w] = "handling"
    /\ FinishOne(w, "next")
    /\ UNCHANGED cancelled

\* A handler running in a build that unwinds: the work is dropped on the way.
HandlerPanics(w) ==
    /\ worker[w] = "handling" /\ w \in running
    /\ FinishOne(w, "unwound")
    /\ UNCHANGED cancelled

\* The task that waits for the worker cancels the server.  No worker replaces
\* the lost one.
WorkerLost(w) ==
    /\ worker[w] = "unwound"
    /\ worker' = [worker EXCEPT ![w] = "lost"]
    /\ cancelled' = TRUE
    /\ UNCHANGED <<phase, cutoff, lanes, heaps, nextSequence, flags, work, permits, closed,
                   tickVars, running>>

-----------------------------------------------------------------------------
(* The game loop                                                           *)

loopOnly == <<phase, cutoff, lanes, heaps, nextSequence, flags, threads, closed>>

Cancel ==
    /\ ~cancelled
    /\ cancelled' = TRUE
    /\ UNCHANGED <<loopOnly, permits, tickVars, running>>

\* drain_for_tick up to the first look at the queue: begin_tick_drain.
BeginTickDrain ==
    /\ loop = "top" /\ ~cancelled
    /\ loop' = "draining"
    /\ phase' = "Draining"
    /\ cutoff' = nextSequence
    /\ worker' \in IF SelectNext(nextSequence) # {} THEN NotifyAll(worker) ELSE {worker}
    /\ UNCHANGED <<lanes, heaps, nextSequence, flags, work, permits, closed, cancelled,
                   baseline, ticking, running>>

\* Mutant: a drain ends when nothing is ready, whatever is in hand.
TickDrainCompleteWhileActive ==
    phase = "Stopped" \/ \A p \in ready : p.sequence >= cutoff

TickDrainComplete ==
    phase = "Stopped" \/ (active = 0 /\ \A p \in ready : p.sequence >= cutoff)

\* One round of drain_for_tick's loop: leave it, or wait for the idle permit.
CheckTickDrain ==
    /\ loop = "draining"
    /\ loop' = IF TickDrainComplete THEN "drained" ELSE "awaitIdle"
    /\ UNCHANGED <<loopOnly, permits, cancelled, baseline, ticking, running>>

IdleNotified ==
    /\ loop = "awaitIdle" /\ idle
    /\ idle' = FALSE
    /\ loop' = "draining"
    /\ UNCHANGED <<loopOnly, progress, cancelled, baseline, ticking, running>>

FinishTickDrain ==
    /\ loop = "drained"
    /\ loop' = "boundary"
    /\ phase' = IF phase = "Draining" THEN "Closed" ELSE phase
    /\ UNCHANGED <<cutoff, lanes, heaps, nextSequence, flags, threads, permits, closed,
                   cancelled, baseline, ticking, running>>

\* Chunk scheduling, disconnects and commands of the boundary, then tick_all
\* sends every world worker its request.
TickAll ==
    /\ loop = "boundary"
    /\ loop' = "worlds"
    /\ ticking' = Worlds
    /\ UNCHANGED <<loopOnly, permits, cancelled, baseline, running>>

WorldTicked(d) ==
    /\ d \in ticking
    /\ ticking' = ticking \ {d}
    /\ UNCHANGED <<loopOnly, permits, cancelled, loop, baseline, running>>

\* A world's tick running: its response is missing, tick_all fails and the
\* loop leaves while other worlds may still be ticking.
WorldPanics(d) ==
    /\ d \in ticking /\ loop = "worlds"
    /\ ticking' = ticking \ {d}
    /\ loop' = "shutdown"
    /\ cancelled' = TRUE
    /\ UNCHANGED <<loopOnly, permits, baseline, running>>

\* All worlds answered: jobs, joins, world changes and domain switches run,
\* then open() starts the packet phase.
Open ==
    /\ loop = "worlds" /\ ticking = {}
    /\ loop' = "opened"
    /\ phase' = "Open"
    /\ worker' \in IF SelectNext(nextSequence) # {} THEN NotifyAll(worker) ELSE {worker}
    /\ UNCHANGED <<cutoff, lanes, heaps, nextSequence, flags, work, permits, closed,
                   cancelled, baseline, ticking, running>>

HasWork == active # 0 \/ \E k \in Lanes : lanes[k].queued # <<>>

\* The tick was in time, or progress_baseline finds nothing to wait for.
NotOverloaded ==
    /\ loop = "opened"
    /\ loop' = "top"
    /\ UNCHANGED <<loopOnly, permits, cancelled, baseline, ticking, running>>

Overloaded ==
    /\ loop = "opened" /\ HasWork
    /\ loop' = "overload"
    /\ baseline' = completed
    /\ UNCHANGED <<loopOnly, permits, cancelled, ticking, running>>

HasProgress == completed # baseline \/ ~HasWork \/ phase = "Stopped"

\* One round of wait_for_progress_since.
CheckProgress ==
    /\ loop = "overload"
    /\ loop' = IF HasProgress THEN "top" ELSE "awaitProgress"
    /\ UNCHANGED <<loopOnly, permits, cancelled, baseline, ticking, running>>

ProgressNotified ==
    /\ loop = "awaitProgress" /\ progress
    /\ progress' = FALSE
    /\ loop' = "overload"
    /\ UNCHANGED <<loopOnly, idle, cancelled, baseline, ticking, running>>

LeaveLoop ==
    /\ loop = "top" /\ cancelled
    /\ loop' = "shutdown"
    /\ UNCHANGED <<loopOnly, permits, cancelled, baseline, ticking, running>>

\* stop(), from the end of run_game_tick and again from its task guard.
Stop ==
    /\ loop = "shutdown"
    /\ loop' = "ended"
    /\ phase' = "Stopped"
    /\ ready' = {} /\ ordered' = {}
    /\ lanes' = [k \in Lanes |-> Discarded(lanes[k])]
    /\ worker' \in NotifyAll(worker)
    /\ idle' = (idle \/ active = 0)
    /\ UNCHANGED <<cutoff, nextSequence, flags, work, progress, closed, cancelled,
                   baseline, ticking, running>>

-----------------------------------------------------------------------------

GameLoop ==
    \/ BeginTickDrain \/ CheckTickDrain \/ IdleNotified \/ FinishTickDrain
    \/ TickAll \/ Open \/ NotOverloaded \/ Overloaded \/ CheckProgress
    \/ ProgressNotified \/ LeaveLoop \/ Stop

Next ==
    \/ \E k \in Lanes :
          \/ \E e \in Executions : Submit(k, e)
          \/ Refuse(k) \/ ScheduleClosed(k) \/ Close(k)
    \/ \E w \in Workers :
          \/ StartNext(w) \/ Wait(w) \/ Run(w) \/ Handle(w)
          \/ HandlerPanics(w) \/ WorkerLost(w)
    \/ \E d \in Worlds : WorldTicked(d) \/ WorldPanics(d)
    \/ GameLoop
    \/ Cancel

Spec == Init /\ [][Next]_vars

\* Every worker thread runs, handlers and world ticks end, and the loop task
\* is polled when its sleep ends or its permit arrives.
Fairness ==
    /\ \A w \in Workers : WF_vars(StartNext(w) \/ Wait(w) \/ Handle(w) \/ WorkerLost(w))
    /\ \A d \in Worlds : WF_vars(WorldTicked(d))
    /\ WF_vars(GameLoop)

FairSpec == Spec /\ Fairness

-----------------------------------------------------------------------------
(* Properties                                                              *)

Queued(k) == {lanes[k].queued[n] : n \in 1..Len(lanes[k].queued)}
AllQueued == UNION {Queued(k) : k \in Lanes}
Handling == {work[w] : w \in {v \in Workers : worker[v] = "handling"}}

\* The asserts of start_next and finish_one, as one invariant of the queue:
\* the ready heaps hold exactly the fronts of idle lanes, the ordered heaps
\* exactly the queued serialized and exclusive packets, lanes are in
\* submission order, and the counters agree with the packets in hand.
IndexesAgree ==
    /\ phase \in {"Open", "Draining", "Closed", "Stopped"}
    /\ ready = {Head(lanes[k].queued) :
                   k \in {j \in Lanes : ~lanes[j].active /\ lanes[j].queued # <<>>}}
    /\ ordered = {p \in AllQueued : p.execution # "PlayerLocal"}
    /\ \A k \in Lanes :
          /\ \A m, n \in 1..Len(lanes[k].queued) :
                m < n => lanes[k].queued[m].sequence < lanes[k].queued[n].sequence
          /\ lanes[k].active <=> \E w \in Workers : work[w] # NoWork /\ work[w].key = k
          /\ lanes[k].packets = Len(lanes[k].queued) + IF lanes[k].active THEN 1 ELSE 0
          /\ lanes[k].packets <= PacketLimit
    /\ \A p \in AllQueued \cup Handling : p \in Packets /\ p.sequence < nextSequence
    /\ serializedActive <=> Of(Handling, "Serialized") # {}
    /\ exclusiveActive <=> Of(Handling, "Exclusive") # {}

\* A packet that has started has no unfinished predecessor it must wait for:
\* not one of its own session, not a serialized one if it is serialized, not
\* an exclusive one, and none at all if it is itself exclusive.
StartedInOrder ==
    \A p \in Handling : \A q \in AllQueued \cup Handling :
        q.sequence < p.sequence =>
            /\ q.key # p.key
            /\ q.execution # "Exclusive" /\ p.execution # "Exclusive"
            /\ ~(q.execution = "Serialized" /\ p.execution = "Serialized")

\* The tick boundary: from the end of the drain until the queue opens, and
\* as long as any world ticks, no packet is being handled and none submitted
\* before the boundary is left.
TickIsIsolated ==
    (loop \in {"drained", "boundary", "worlds"} \/ ticking # {}) =>
        /\ Handling = {}
        /\ \A p \in AllQueued : p.sequence >= cutoff

\* A packet that may start has a worker that is awake.
WorkIsNoticed ==
    Startable # {} => \E w \in Workers : worker[w] \in {"next", "handling"}

\* No packet worker is left: all have been lost to handlers that panicked.
NoWorker == \A w \in Workers : worker[w] \in {"unwound", "lost"}

\* No wake-up is lost.  The loop completes one drain after the other, so with
\* TickIsIsolated every submitted packet is handled or discarded and no drain,
\* world tick or overload wait hangs; a cancelled server stops its loop and
\* its workers.  Only the loss of the last worker can stop the loop: a drain
\* or an overload wait then waits for packets nobody takes, and neither looks
\* at the cancellation token.
ServerAdvances ==
    /\ [](NoWorker \/ WorkIsNoticed)
    /\ []<>(NoWorker \/ loop \in {"drained", "ended"})
    /\ []<>(NoWorker \/ (cancelled => /\ loop = "ended"
                                      /\ \A w \in Workers : worker[w] \in {"stopped", "lost"}))
=============================================================================
