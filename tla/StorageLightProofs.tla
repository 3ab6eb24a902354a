------------------------ MODULE StorageLightProofs -------------------------
(***************************************************************************)
(* Proofs about what is kept of a chunk.  Light updates, for any window of *)
(* chunks and any number of changes: an owed light change is always        *)
(* visible, light is never lost by an unload, and a chunk is dropped only  *)
(* when no change is owed.  A region file, for any chunks, file sizes,     *)
(* payload sizes, saves and faults: once the file is created, its table    *)
(* always validates, every chunk reads back as it was last saved, and a    *)
(* region in use stays open.                                               *)
(***************************************************************************)
EXTENDS LightUpdates, RegionStorage, FiniteSetTheorems, WellFoundedInduction, TLAPS

-----------------------------------------------------------------------------
(* Light updates: the inductive invariant.                                 *)

\* Stages in which the updates of a drain count: it works them off, or has one in its window.
Working == {"Loop", "Setup", "Apply", "Mark"}

\* The record of a drainer: what it marks belongs to the update it works on, and everything it
\* has taken and still has to do is under its in-flight guard.
AgentInv(a) ==
  /\ agent[a].pc # "Mark" => agent[a].marks = {} /\ agent[a].second = NoPos
  /\ agent[a].tasks \cup agent[a].blocked \subseteq agent[a].guard
  /\ agent[a].pc \in {"Setup", "Apply", "Mark"} => agent[a].center \in agent[a].guard
  /\ agent[a].pc \in {"Await", "Drain"} => agent[a].center \in Positions
  /\ agent[a].pc \in {"Idle", "Await", "Drain"} => agent[a].guard = {}
  /\ a \in Positions => agent[a].tasks \cup agent[a].blocked = {}

\* LightUpdateState.in_flight_centers counts the guards.
Guards(c) == {a \in Agents : c \in agent[a].guard}
GuardInv == \A c \in Positions : inflight[c] = Cardinality(Guards(c))

\* Drainer a still has to apply the change of centre c.
Holds(a, c) ==
  \/ agent[a].pc \in Working /\ c \in agent[a].tasks \cup agent[a].blocked
  \/ agent[a].pc \in {"Setup", "Apply"} /\ c = agent[a].center

OwedInv == \A c \in owed : c \in pending \/ \E a \in Agents : Holds(a, c)

\* Some drainer is about to mark chunk p.
Marked(p) == \E a \in Agents : p \in agent[a].marks \/ p = agent[a].second

\* LightIsSaved, with what a save in progress is about to store told from what is stored.
Stored(p) ==
  \/ saver[p] # "Write" /\ disk[p] = light[p]
  \/ saver[p] = "Write" /\ snapshot[p] = light[p]
  \/ place[p] # "Gone" /\ dirty[p]
  \/ saver[p] = "Prepare"
  \/ Marked(p)

StoredInv ==
  /\ \A p \in Positions \ missed : Stored(p)
  /\ \A p \in Positions : saver[p] # "None" => place[p] # "Gone"

\* The inductive invariant.
LightInv ==
  TypeOK /\ (\A a \in Agents : AgentInv(a)) /\ GuardInv /\ OwedInv /\ StoredInv

----------------------------------------------------------------------------
\* Counting guards.

\* There are finitely many drainers.
LEMMA FiniteAgents == IsFiniteSet(Agents)
<1>1. IsFiniteSet(Positions \cup {Worker})
  BY WindowAssumption, FS_AddElement
<1>2. IsFiniteSet((Positions \cup {Worker}) \cup {World})
  BY <1>1, FS_AddElement
<1>3. Agents = (Positions \cup {Worker}) \cup {World}
  BY DEF Agents
<1>4. QED
  BY Zenon, <1>2, <1>3

\* A counter that counts guards is in range.
LEMMA CountType ==
  ASSUME NEW c
  PROVE  IsFiniteSet(Guards(c)) /\ Cardinality(Guards(c)) \in 0..Cardinality(Agents)
<1>1. Guards(c) \subseteq Agents
  BY Zenon DEF Guards
<1>2. IsFiniteSet(Guards(c)) /\ Cardinality(Guards(c)) <= Cardinality(Agents)
  BY Zenon, <1>1, FiniteAgents, FS_Subset
<1>3. Cardinality(Guards(c)) \in Nat /\ Cardinality(Agents) \in Nat
  BY Zenon, <1>2, FiniteAgents, FS_CardinalityType
<1>4. QED
  BY <1>2, <1>3

\* A step that changes the record of drainer a only.
AgentStep(a) ==
  /\ agent' \in [Agents -> AgentType]
  /\ \A b \in Agents \ {a} : agent'[b] = agent[b]

\* A step that keeps the guards and the counters.
LEMMA GuardsKept ==
  ASSUME TypeOK, GuardInv, NEW a \in Agents, AgentStep(a), inflight' = inflight,
         agent'[a].guard = agent[a].guard
  PROVE  GuardInv' /\ inflight' \in [Positions -> 0..Cardinality(Agents)]
<1>1. \A b \in Agents : agent'[b].guard = agent[b].guard
  BY Zenon DEF AgentStep
<1>2. \A c : Guards(c)' = Guards(c)
  BY Zenon, <1>1 DEF Guards
<1>3. QED
  BY Zenon, <1>2 DEF GuardInv, TypeOK

\* track_in_flight: the drainer had no guard and gets one for S.
LEMMA GuardTaken ==
  ASSUME TypeOK, GuardInv, NEW a \in Agents, AgentStep(a), NEW S \in SUBSET Positions,
         inflight' = Track(S), agent[a].guard = {}, agent'[a].guard = S
  PROVE  GuardInv' /\ inflight' \in [Positions -> 0..Cardinality(Agents)]
<1>1. ASSUME NEW c \in Positions PROVE inflight'[c] = Cardinality(Guards(c)')
  <2>1. inflight'[c] = (IF c \in S THEN inflight[c] + 1 ELSE inflight[c])
    BY Zenon DEF Track
  <2>2. inflight[c] = Cardinality(Guards(c)) /\ IsFiniteSet(Guards(c))
    BY Zenon, CountType DEF GuardInv
  <2>3. CASE c \in S
    <3>1. Guards(c)' = Guards(c) \cup {a} /\ a \notin Guards(c)
      BY Zenon, <2>3 DEF Guards, AgentStep
    <3>2. Cardinality(Guards(c) \cup {a}) = Cardinality(Guards(c)) + 1
      BY Zenon, <2>2, <3>1, FS_AddElement
    <3>3. QED
      BY Zenon, <2>1, <2>2, <2>3, <3>1, <3>2
  <2>4. CASE c \notin S
    <3>1. Guards(c)' = Guards(c)
      BY Zenon, <2>4 DEF Guards, AgentStep
    <3>2. QED
      BY Zenon, <2>1, <2>2, <2>4, <3>1
  <2>5. QED
    BY Zenon, <2>3, <2>4
<1>2. GuardInv'
  BY Zenon, <1>1 DEF GuardInv
<1>3. inflight' \in [Positions -> 0..Cardinality(Agents)]
  <2>1. ASSUME NEW c \in Positions PROVE inflight'[c] \in 0..Cardinality(Agents)
    <3>1. Guards(c)' \subseteq Agents
      BY Zenon DEF Guards
    <3>2. Cardinality(Guards(c)') <= Cardinality(Agents) /\ IsFiniteSet(Guards(c)')
      BY Zenon, <3>1, FiniteAgents, FS_Subset
    <3>3. Cardinality(Guards(c)') \in Nat /\ Cardinality(Agents) \in Nat
      BY Zenon, <3>2, FiniteAgents, FS_CardinalityType
    <3>4. QED
      BY <1>1, <3>2, <3>3
  <2>2. QED
    BY <2>1 DEF Track
<1>4. QED
  BY Zenon, <1>2, <1>3

\* InFlightLightUpdates is dropped: no counter of its centres is zero.
LEMMA GuardDropped ==
  ASSUME TypeOK, GuardInv, NEW a \in Agents, AgentStep(a),
         inflight' = Untrack(agent[a].guard), agent'[a].guard = {}
  PROVE  GuardInv' /\ inflight' \in [Positions -> 0..Cardinality(Agents)]
<1>1. ASSUME NEW c \in Positions
      PROVE  inflight'[c] = Cardinality(Guards(c)') /\ inflight'[c] \in 0..Cardinality(Agents)
  <2>1. inflight'[c] = (IF c \in agent[a].guard THEN inflight[c] - 1 ELSE inflight[c])
    BY Zenon DEF Untrack
  <2>2. /\ inflight[c] = Cardinality(Guards(c)) /\ IsFiniteSet(Guards(c))
        /\ inflight[c] \in 0..Cardinality(Agents) /\ Cardinality(Agents) \in Nat
    BY Zenon, CountType, FiniteAgents, FS_CardinalityType DEF GuardInv
  <2>3. CASE c \in agent[a].guard
    <3>1. Guards(c)' = Guards(c) \ {a} /\ a \in Guards(c)
      BY Zenon, <2>3 DEF Guards, AgentStep
    <3>2. Cardinality(Guards(c) \ {a}) = Cardinality(Guards(c)) - 1 /\ IsFiniteSet(Guards(c) \ {a})
      BY Zenon, <2>2, <3>1, FS_RemoveElement
    <3>3. Cardinality(Guards(c) \ {a}) \in Nat
      BY Zenon, <3>2, FS_CardinalityType
    <3>4. inflight'[c] = inflight[c] - 1 /\ inflight'[c] = Cardinality(Guards(c)')
      BY Zenon, <2>1, <2>2, <2>3, <3>1, <3>2
    <3>5. inflight[c] - 1 \in Nat
      BY Zenon, <2>2, <3>2, <3>3
    <3>6. inflight[c] - 1 \in 0..Cardinality(Agents)
      BY <2>2, <3>5
    <3>7. QED
      BY Zenon, <3>4, <3>6
  <2>4. CASE c \notin agent[a].guard
    <3>1. Guards(c)' = Guards(c)
      BY Zenon, <2>4 DEF Guards, AgentStep
    <3>2. QED
      BY Zenon, <2>1, <2>2, <2>4, <3>1
  <2>5. QED
    BY Zenon, <2>3, <2>4
<1>2. GuardInv'
  BY Zenon, <1>1 DEF GuardInv
<1>3. inflight' \in [Positions -> 0..Cardinality(Agents)]
  BY <1>1 DEF Untrack
<1>4. QED
  BY Zenon, <1>2, <1>3

----------------------------------------------------------------------------
\* Steps of one drainer that leave chunks and saves alone.

\* Such a step keeps the invariant if the drainer forgets neither a change nor a mark.
LEMMA AgentMove ==
  ASSUME LightInv, NEW a \in Agents, AgentStep(a), AgentInv(a)', GuardInv',
         inflight' \in [Positions -> 0..Cardinality(Agents)],
         UNCHANGED <<chunk, saves>>, UNCHANGED <<changes, owed>>,
         pending' \subseteq Positions, gate' \in Agents \cup {Lighter, Nobody},
         missed \subseteq missed', missed' \subseteq Positions,
         \A c \in owed : c \in pending \/ Holds(a, c) => c \in pending' \/ Holds(a, c)',
         \A p \in Positions \ missed' :
           p \in agent[a].marks \/ p = agent[a].second => p \in agent'[a].marks \/ p = agent'[a].second
  PROVE  LightInv'
<1>1. TypeOK /\ (\A b \in Agents : AgentInv(b)) /\ OwedInv /\ StoredInv
  BY Zenon DEF LightInv
<1>2. UNCHANGED <<place, light, dirty, disk, saver, snapshot>> /\ UNCHANGED <<changes, owed>>
  BY Zenon DEF chunk, saves
<1>3. TypeOK'
  BY Zenon, <1>1, <1>2 DEF TypeOK, AgentStep
<1>4. ASSUME NEW b \in Agents PROVE AgentInv(b)'
  <2>1. CASE b = a
    BY Zenon, <2>1
  <2>2. CASE b # a
    <3>1. AgentInv(b) /\ agent'[b] = agent[b]
      BY Zenon, <1>1, <2>2 DEF AgentStep
    <3>2. QED
      BY Zenon, <3>1 DEF AgentInv
  <2>3. QED
    BY Zenon, <2>1, <2>2
<1>5. \A b \in Agents \ {a} : \A c : Holds(b, c)' <=> Holds(b, c)
  BY Zenon DEF Holds, AgentStep
<1>6. OwedInv'
  BY Zenon, <1>1, <1>2, <1>5 DEF OwedInv
<1>7. ASSUME NEW p \in Positions \ missed', Marked(p) PROVE Marked(p)'
  BY Zenon, <1>7 DEF Marked, AgentStep
<1>8. ASSUME NEW p \in Positions \ missed' PROVE Stored(p)'
  <2>1. Stored(p)
    BY Zenon, <1>1 DEF StoredInv
  <2>2. QED
    BY Zenon, <1>2, <1>7, <2>1 DEF Stored
<1>9. StoredInv'
  BY Zenon, <1>1, <1>2, <1>8 DEF StoredInv
<1>10. QED
  BY Zenon, <1>3, <1>4, <1>6, <1>9 DEF LightInv

\* A drainer at rest is well typed.
LEMMA IdleType ==
  /\ IdleAgent \in AgentType /\ IdleAgent.pc = "Idle" /\ IdleAgent.guard = {}
  /\ IdleAgent.tasks = {} /\ IdleAgent.blocked = {} /\ IdleAgent.marks = {}
  /\ IdleAgent.second = NoPos
<1>1. NoPos \in Positions \cup {NoPos} /\ {} \in SUBSET Positions
  OBVIOUS
<1>2. QED
  BY <1>1 DEF IdleAgent, AgentType

\* drain_pending_light_updates.
LEMMA DrainKeeps ==
  ASSUME LightInv, NEW a \in Agents, Drain(a)
  PROVE  LightInv'
<1> DEFINE r == [IdleAgent EXCEPT !.pc = "Loop", !.guard = pending, !.tasks = pending]
<1>1. /\ agent[a].pc = "Idle" /\ agent' = [agent EXCEPT ![a] = r]
      /\ inflight' = Track(pending) /\ pending' = {}
      /\ UNCHANGED <<chunk, saves>> /\ UNCHANGED <<changes, owed>>
      /\ gate' = gate /\ missed' = missed
  BY Zenon DEF Drain, history
<1>2. TypeOK /\ AgentInv(a) /\ GuardInv /\ pending \in SUBSET Positions
  BY Zenon DEF LightInv, TypeOK
<1>3. /\ r \in AgentType /\ r.pc = "Loop" /\ r.guard = pending /\ r.tasks = pending
      /\ r.blocked = {} /\ r.marks = {} /\ r.second = NoPos
  BY Zenon, <1>2, IdleType DEF AgentType
<1> HIDE DEF r
<1>4. AgentStep(a) /\ agent'[a] = r
  BY <1>1, <1>2, <1>3 DEF TypeOK, AgentStep
<1>5. AgentInv(a)'
  <2>1. a \notin Positions
    BY AgentAssumption DEF Drain
  <2>2. QED
    BY <1>3, <1>4, <2>1 DEF AgentInv
<1>6. agent[a].guard = {} /\ agent[a].marks = {} /\ agent[a].second = NoPos
  BY <1>1, <1>2 DEF AgentInv
<1>7. GuardInv' /\ inflight' \in [Positions -> 0..Cardinality(Agents)]
  BY Zenon, <1>1, <1>2, <1>3, <1>4, <1>6, GuardTaken
<1>8. ASSUME NEW c, c \in pending \/ Holds(a, c) PROVE Holds(a, c)'
  BY <1>1, <1>3, <1>4, <1>8 DEF Holds, Working
<1>9. \A p \in Positions : ~(p \in agent[a].marks \/ p = agent[a].second)
  BY Zenon, <1>6, AgentAssumption
<1>10. /\ pending' \subseteq Positions /\ gate' \in Agents \cup {Lighter, Nobody}
       /\ missed \subseteq missed' /\ missed' \subseteq Positions
  BY <1>1, <1>2 DEF TypeOK
<1>11. QED
  BY Zenon, <1>1, <1>4, <1>5, <1>7, <1>8, <1>9, <1>10, AgentMove

\* A step of a drainer that keeps its guard and the counters.
LEMMA KeepsGuard ==
  ASSUME LightInv, NEW a \in Agents, AgentStep(a), AgentInv(a)',
         agent'[a].guard = agent[a].guard, inflight' = inflight,
         UNCHANGED <<chunk, saves>>, UNCHANGED <<changes, owed>>,
         pending' \subseteq Positions, gate' \in Agents \cup {Lighter, Nobody},
         missed \subseteq missed', missed' \subseteq Positions,
         \A c \in owed : c \in pending \/ Holds(a, c) => c \in pending' \/ Holds(a, c)',
         \A p \in Positions \ missed' :
           p \in agent[a].marks \/ p = agent[a].second => p \in agent'[a].marks \/ p = agent'[a].second
  PROVE  LightInv'
<1>1. TypeOK /\ GuardInv
  BY Zenon DEF LightInv
<1>2. GuardInv' /\ inflight' \in [Positions -> 0..Cardinality(Agents)]
  BY Zenon, <1>1, GuardsKept
<1>3. QED
  BY Zenon, <1>2, AgentMove

\* The gate grants a window to the drain or refuses it.
LEMMA ReserveBlockKeeps ==
  ASSUME LightInv, NEW a \in Agents, NEW c \in Positions, Reserve(a, c) \/ Block(a, c)
  PROVE  LightInv'
<1>1. TypeOK /\ AgentInv(a) /\ agent[a] \in AgentType
  BY Zenon DEF LightInv, TypeOK
<1>2. /\ agent[a].pc = "Loop" /\ c \in agent[a].tasks /\ inflight' = inflight
      /\ UNCHANGED <<chunk, saves>> /\ UNCHANGED <<changes, owed>>
      /\ pending' = pending /\ missed' = missed
  BY Zenon DEF Reserve, Block, history
<1>3. /\ pending' \subseteq Positions /\ gate' \in Agents \cup {Lighter, Nobody}
      /\ missed \subseteq missed' /\ missed' \subseteq Positions
  BY <1>1, <1>2 DEF TypeOK, Reserve, Block
<1>4. /\ AgentStep(a) /\ agent'[a].guard = agent[a].guard
      /\ agent'[a].marks = agent[a].marks /\ agent'[a].second = agent[a].second
      /\ \/ /\ agent'[a].pc = "Setup" /\ agent'[a].tasks = agent[a].tasks \ {c}
            /\ agent'[a].center = c /\ agent'[a].blocked = agent[a].blocked
         \/ /\ agent'[a].pc = "Loop" /\ agent'[a].tasks = agent[a].tasks \ {c}
            /\ agent'[a].blocked = agent[a].blocked \cup {c}
  <2>1. CASE Reserve(a, c)
    <3>1. agent' = [agent EXCEPT ![a].pc = "Setup", ![a].tasks = @ \ {c}, ![a].center = c]
      BY Zenon, <2>1 DEF Reserve
    <3>2. QED
      BY Zenon, <1>1, <3>1 DEF TypeOK, AgentStep, AgentType
  <2>2. CASE Block(a, c)
    <3>1. agent' = [agent EXCEPT ![a].tasks = @ \ {c}, ![a].blocked = @ \cup {c}]
      BY Zenon, <2>2 DEF Block
    <3>2. QED
      BY Zenon, <1>1, <1>2, <3>1 DEF TypeOK, AgentStep, AgentType
  <2>3. QED
    BY Zenon, <2>1, <2>2
<1>5. AgentInv(a)'
  BY <1>1, <1>2, <1>4 DEF AgentInv
<1>6. \A d : Holds(a, d) => Holds(a, d)'
  BY <1>2, <1>4 DEF Holds, Working
<1>7. QED
  BY Zenon, <1>2, <1>3, <1>4, <1>5, <1>6, KeepsGuard

\* prepend_drained queues the refused updates again.
LEMMA PrependKeeps ==
  ASSUME LightInv, NEW a \in Agents, Prepend(a)
  PROVE  LightInv'
<1>1. TypeOK /\ AgentInv(a) /\ agent[a] \in AgentType
  BY Zenon DEF LightInv, TypeOK
<1>2. /\ agent[a].pc = "Loop" /\ agent[a].tasks = {} /\ inflight' = inflight
      /\ UNCHANGED <<chunk, saves>> /\ UNCHANGED <<changes, owed>>
      /\ pending' = pending \cup agent[a].blocked /\ missed' = missed /\ gate' = gate
      /\ agent' = [agent EXCEPT ![a].pc = "Finish"]
  BY Zenon DEF Prepend, history
<1>3. /\ pending' \subseteq Positions /\ gate' \in Agents \cup {Lighter, Nobody}
      /\ missed \subseteq missed' /\ missed' \subseteq Positions
  BY <1>1, <1>2 DEF TypeOK, AgentType
<1>4. /\ AgentStep(a) /\ agent'[a].guard = agent[a].guard
      /\ agent'[a].marks = agent[a].marks /\ agent'[a].second = agent[a].second
      /\ agent'[a].pc = "Finish" /\ agent'[a].tasks = agent[a].tasks
      /\ agent'[a].blocked = agent[a].blocked
  BY Zenon, <1>1, <1>2 DEF TypeOK, AgentStep, AgentType
<1>5. AgentInv(a)'
  BY <1>1, <1>2, <1>4 DEF AgentInv
<1>6. \A d : Holds(a, d) => d \in pending'
  BY <1>2 DEF Holds
<1>7. \A d \in pending : d \in pending'
  BY Zenon, <1>2
<1>8. QED
  BY Zenon, <1>2, <1>3, <1>4, <1>5, <1>6, <1>7, KeepsGuard

\* A drainer that drops its guard has nothing left to do.
LEMMA DropsGuard ==
  ASSUME LightInv, NEW a \in Agents, agent' = [agent EXCEPT ![a] = IdleAgent],
         inflight' = Untrack(agent[a].guard),
         UNCHANGED <<chunk, saves>>, UNCHANGED <<changes, owed>>,
         pending' = pending, gate' \in Agents \cup {Lighter, Nobody}, missed' = missed,
         \A c : ~Holds(a, c), agent[a].marks = {}, agent[a].second = NoPos
  PROVE  LightInv'
<1>1. TypeOK /\ GuardInv
  BY Zenon DEF LightInv
<1>2. AgentStep(a) /\ agent'[a] = IdleAgent
  BY <1>1, IdleType DEF TypeOK, AgentStep
<1>3. AgentInv(a)'
  BY <1>2, IdleType DEF AgentInv
<1>4. GuardInv' /\ inflight' \in [Positions -> 0..Cardinality(Agents)]
  BY Zenon, <1>1, <1>2, IdleType, GuardDropped
<1>5. \A p \in Positions : ~(p \in agent[a].marks \/ p = agent[a].second)
  BY Zenon, AgentAssumption
<1>6. pending' \subseteq Positions /\ missed \subseteq missed' /\ missed' \subseteq Positions
  BY <1>1 DEF TypeOK
<1>7. QED
  BY Zenon, <1>2, <1>3, <1>4, <1>5, <1>6, AgentMove

\* The drain ends.
LEMMA FinishDrainKeeps ==
  ASSUME LightInv, NEW a \in Agents, FinishDrain(a)
  PROVE  LightInv'
<1>1. TypeOK /\ AgentInv(a)
  BY Zenon DEF LightInv
<1>2. /\ agent[a].pc = "Finish" /\ agent' = [agent EXCEPT ![a] = IdleAgent]
      /\ inflight' = Untrack(agent[a].guard)
      /\ UNCHANGED <<chunk, saves>> /\ UNCHANGED <<changes, owed>>
      /\ pending' = pending /\ gate' = gate /\ missed' = missed
  BY Zenon DEF FinishDrain, history
<1>3. /\ gate' \in Agents \cup {Lighter, Nobody} /\ agent[a].marks = {} /\ agent[a].second = NoPos
  BY <1>1, <1>2 DEF TypeOK, AgentInv
<1>4. \A c : ~Holds(a, c)
  BY <1>2 DEF Holds, Working
<1>5. QED
  BY Zenon, <1>2, <1>3, <1>4, DropsGuard

\* The flush of a save task is done with an update.
LEMMA LeaveFlushKeeps ==
  ASSUME LightInv, NEW p \in Positions, LeaveFlush(p)
  PROVE  LightInv'
<1>1. TypeOK /\ p \in Agents
  BY Zenon DEF LightInv, Agents
<1>2. AgentInv(p)
  BY Zenon, <1>1 DEF LightInv
<1>3. /\ agent[p].pc = "Mark" /\ agent' = [agent EXCEPT ![p] = IdleAgent]
      /\ inflight' = Untrack(agent[p].guard)
      /\ UNCHANGED <<chunk, saves>> /\ UNCHANGED <<changes, owed>>
      /\ pending' = pending /\ gate' = Nobody /\ missed' = missed
      /\ agent[p].marks = {} /\ agent[p].second = NoPos
  BY Zenon DEF LeaveFlush, Finished, history
<1>4. \A c : ~Holds(p, c)
  BY <1>2, <1>3 DEF Holds, AgentInv
<1>5. QED
  BY Zenon, <1>1, <1>3, <1>4, DropsGuard

\* The world thread and the worker release the window and go on with the drain.
LEMMA LeaveKeeps ==
  ASSUME LightInv, NEW a \in Agents, Leave(a)
  PROVE  LightInv'
<1> DEFINE r == [IdleAgent EXCEPT !.pc = "Loop", !.guard = agent[a].guard,
                                  !.tasks = agent[a].tasks, !.blocked = agent[a].blocked]
<1>1. TypeOK /\ AgentInv(a) /\ agent[a] \in AgentType
  BY Zenon DEF LightInv, TypeOK
<1>2. /\ agent[a].pc = "Mark" /\ agent[a].marks = {} /\ agent[a].second = NoPos
      /\ agent' = [agent EXCEPT ![a] = r] /\ gate' = Nobody
      /\ inflight' = inflight /\ pending' = pending /\ missed' = missed
      /\ UNCHANGED <<chunk, saves>> /\ UNCHANGED <<changes, owed>>
  BY Zenon DEF Leave, Finished, history
<1>3. /\ r \in AgentType /\ r.pc = "Loop" /\ r.guard = agent[a].guard /\ r.tasks = agent[a].tasks
      /\ r.blocked = agent[a].blocked /\ r.marks = {} /\ r.second = NoPos
  BY Zenon, <1>1, IdleType DEF AgentType
<1> HIDE DEF r
<1>4. AgentStep(a) /\ agent'[a] = r
  BY <1>1, <1>2, <1>3 DEF TypeOK, AgentStep
<1>5. AgentInv(a)'
  BY <1>1, <1>3, <1>4 DEF AgentInv
<1>6. \A d : Holds(a, d) => Holds(a, d)'
  BY <1>2, <1>3, <1>4 DEF Holds, Working
<1>7. \A p \in Positions : ~(p \in agent[a].marks \/ p = agent[a].second)
  BY Zenon, <1>2, AgentAssumption
<1>8. /\ pending' \subseteq Positions /\ gate' \in Agents \cup {Lighter, Nobody}
      /\ missed \subseteq missed' /\ missed' \subseteq Positions
  BY <1>1, <1>2 DEF TypeOK
<1>9. agent'[a].guard = agent[a].guard
  BY Zenon, <1>3, <1>4
<1>10. QED
  BY Zenon, <1>2, <1>4, <1>5, <1>6, <1>7, <1>8, <1>9, KeepsGuard

\* A save task waits for a window and gets it.
LEMMA AwaitKeeps ==
  ASSUME LightInv, NEW p \in Positions,
         ReserveAwaited(p) \/ \E c \in Positions : AwaitWindow(p, c)
  PROVE  LightInv'
<1>1. TypeOK /\ p \in Agents
  BY Zenon DEF LightInv, Agents
<1>2. AgentInv(p) /\ agent[p] \in AgentType
  BY Zenon, <1>1 DEF LightInv, TypeOK
<1>3. /\ agent[p].pc \in {"Idle", "Await"}
      /\ inflight' = inflight /\ pending' = pending /\ missed' = missed
      /\ UNCHANGED <<chunk, saves>> /\ UNCHANGED <<changes, owed>>
  BY Zenon DEF ReserveAwaited, AwaitWindow, history
<1>4. /\ pending' \subseteq Positions /\ gate' \in Agents \cup {Lighter, Nobody}
      /\ missed \subseteq missed' /\ missed' \subseteq Positions
  BY <1>1, <1>3 DEF TypeOK, ReserveAwaited, AwaitWindow
<1>5. /\ AgentStep(p) /\ agent'[p].guard = agent[p].guard
      /\ agent'[p].marks = agent[p].marks /\ agent'[p].second = agent[p].second
      /\ agent'[p].tasks = agent[p].tasks /\ agent'[p].blocked = agent[p].blocked
      /\ agent'[p].pc \in {"Await", "Drain"} /\ agent'[p].center \in Positions
  <2>1. CASE ReserveAwaited(p)
    <3>1. agent' = [agent EXCEPT ![p].pc = "Drain"] /\ agent[p].pc = "Await"
      BY Zenon, <2>1 DEF ReserveAwaited
    <3>2. QED
      BY Zenon, <1>1, <1>2, <3>1 DEF TypeOK, AgentStep, AgentType, AgentInv
  <2>2. ASSUME NEW c \in Positions, AwaitWindow(p, c)
        PROVE  /\ AgentStep(p) /\ agent'[p].guard = agent[p].guard
               /\ agent'[p].marks = agent[p].marks /\ agent'[p].second = agent[p].second
               /\ agent'[p].tasks = agent[p].tasks /\ agent'[p].blocked = agent[p].blocked
               /\ agent'[p].pc \in {"Await", "Drain"} /\ agent'[p].center \in Positions
    <3>1. agent' = [agent EXCEPT ![p].pc = "Await", ![p].center = c]
      BY Zenon, <2>2 DEF AwaitWindow
    <3>2. QED
      BY Zenon, <1>1, <1>2, <3>1 DEF TypeOK, AgentStep, AgentType
  <2>3. QED
    BY Zenon, <2>1, <2>2
<1>6. AgentInv(p)'
  BY <1>2, <1>3, <1>5 DEF AgentInv
<1>7. \A d : ~Holds(p, d)
  BY <1>3 DEF Holds, Working
<1>8. QED
  BY Zenon, <1>1, <1>3, <1>4, <1>5, <1>6, <1>7, KeepsGuard

\* drain_pending_light_update_for_center.
LEMMA DrainCenterKeeps ==
  ASSUME LightInv, NEW p \in Positions, DrainCenter(p)
  PROVE  LightInv'
<1>1. TypeOK /\ GuardInv /\ p \in Agents
  BY Zenon DEF LightInv, Agents
<1>2. AgentInv(p) /\ agent[p] \in AgentType
  BY Zenon, <1>1 DEF LightInv, TypeOK
<1>3. /\ agent[p].pc = "Drain" /\ missed' = missed
      /\ UNCHANGED <<chunk, saves>> /\ UNCHANGED <<changes, owed>>
  BY Zenon DEF DrainCenter, history
<1>4. /\ agent[p].guard = {} /\ agent[p].marks = {} /\ agent[p].second = NoPos
      /\ agent[p].tasks \cup agent[p].blocked = {} /\ agent[p].center \in Positions
  BY <1>2, <1>3 DEF AgentInv
<1>5. \A d : ~Holds(p, d)
  BY <1>3 DEF Holds, Working
<1>6. CASE agent[p].center \in pending
  <2>1. PICK c \in Positions : agent[p].center = c
    BY Zenon, <1>4
  <2>2. /\ pending' = pending \ {c} /\ inflight' = Track({c}) /\ gate' = gate
        /\ agent' = [agent EXCEPT ![p].pc = "Setup", ![p].guard = {c}]
    BY Zenon, <1>6, <2>1 DEF DrainCenter
  <2>3. /\ AgentStep(p) /\ agent'[p].guard = {c} /\ agent'[p].pc = "Setup"
        /\ agent'[p].marks = {} /\ agent'[p].second = NoPos /\ agent'[p].center = c
        /\ agent'[p].tasks \cup agent'[p].blocked = {}
    <3>1. /\ agent'[p] = [agent[p] EXCEPT !.pc = "Setup", !.guard = {c}]
          /\ agent' \in [Agents -> AgentType] /\ \A b \in Agents \ {p} : agent'[b] = agent[b]
      BY Zenon, <1>1, <1>2, <2>2 DEF TypeOK, AgentType
    <3>2. QED
      BY <1>2, <1>4, <2>1, <3>1 DEF AgentStep, AgentType
  <2>4. AgentInv(p)'
    BY <2>3 DEF AgentInv
  <2>5. {c} \in SUBSET Positions
    BY Zenon
  <2>6. GuardInv' /\ inflight' \in [Positions -> 0..Cardinality(Agents)]
    BY Zenon, <1>1, <1>4, <2>2, <2>3, <2>5, GuardTaken
  <2>7. ASSUME NEW d, d \in pending PROVE d \in pending' \/ Holds(p, d)'
    BY Zenon, <2>2, <2>3, <2>7 DEF Holds
  <2>8. \A q \in Positions : ~(q \in agent[p].marks \/ q = agent[p].second)
    BY Zenon, <1>4, AgentAssumption
  <2>9. /\ pending' \subseteq Positions /\ gate' \in Agents \cup {Lighter, Nobody}
        /\ missed \subseteq missed' /\ missed' \subseteq Positions
    BY <1>1, <1>3, <2>2 DEF TypeOK
  <2>10. QED
    BY Zenon, <1>1, <1>3, <1>5, <2>3, <2>4, <2>6, <2>7, <2>8, <2>9, AgentMove
<1>7. CASE agent[p].center \notin pending
  <2>1. /\ pending' = pending /\ inflight' = inflight /\ gate' = Nobody
        /\ agent' = [agent EXCEPT ![p] = IdleAgent]
    BY Zenon, <1>7 DEF DrainCenter
  <2>2. inflight' = Untrack(agent[p].guard)
    <3>1. inflight = [c \in Positions |-> inflight[c]]
      BY <1>1 DEF TypeOK
    <3>2. Untrack({}) = [c \in Positions |-> inflight[c]]
      BY DEF Untrack
    <3>3. QED
      BY Zenon, <1>4, <2>1, <3>1, <3>2
  <2>3. gate' \in Agents \cup {Lighter, Nobody}
    BY <2>1
  <2>4. QED
    BY Zenon, <1>1, <1>3, <1>4, <1>5, <2>1, <2>2, <2>3, DropsGuard
<1>8. QED
  BY Zenon, <1>6, <1>7

\* light_workset_for_change collects the holders it finds.
LEMMA SetupKeeps ==
  ASSUME LightInv, NEW a \in Agents, Setup(a)
  PROVE  LightInv'
<1>1. TypeOK /\ AgentInv(a) /\ agent[a] \in AgentType
  BY Zenon DEF LightInv, TypeOK
<1>2. PICK S \in SUBSET Positions :
        /\ agent[a].pc = "Setup" /\ agent' = [agent EXCEPT ![a].pc = "Apply", ![a].refs = S]
        /\ missed' = missed \cup {p \in Positions : Moving(p)}
        /\ inflight' = inflight /\ pending' = pending /\ gate' = gate
        /\ UNCHANGED <<chunk, saves>> /\ UNCHANGED <<changes, owed>>
  <2>1. {p \in Positions : Found(p)} \in SUBSET Positions
    BY Zenon
  <2>2. QED
    BY Zenon, <2>1 DEF Setup
<1>3. /\ pending' \subseteq Positions /\ gate' \in Agents \cup {Lighter, Nobody}
      /\ missed \subseteq missed' /\ missed' \subseteq Positions
  BY <1>1, <1>2 DEF TypeOK
<1>4. /\ AgentStep(a) /\ agent'[a].guard = agent[a].guard
      /\ agent'[a].marks = agent[a].marks /\ agent'[a].second = agent[a].second
      /\ agent'[a].tasks = agent[a].tasks /\ agent'[a].blocked = agent[a].blocked
      /\ agent'[a].pc = "Apply" /\ agent'[a].center = agent[a].center
  BY Zenon, <1>1, <1>2 DEF TypeOK, AgentStep, AgentType
<1>5. AgentInv(a)'
  BY Zenon, <1>1, <1>2, <1>4 DEF AgentInv
<1>6. \A d : Holds(a, d) => Holds(a, d)'
  BY <1>2, <1>4 DEF Holds, Working
<1>7. QED
  BY Zenon, <1>2, <1>3, <1>4, <1>5, <1>6, KeepsGuard

\* light_changed goes on to the unloading chunks.
LEMMA LookFurtherKeeps ==
  ASSUME LightInv, NEW a \in Agents, NEW p \in Positions, LookFurther(a, p)
  PROVE  LightInv'
<1>1. TypeOK /\ AgentInv(a) /\ agent[a] \in AgentType
  BY Zenon DEF LightInv, TypeOK
<1>2. /\ agent[a].pc = "Mark" /\ agent[a].second = NoPos /\ p \in agent[a].marks
      /\ agent' = [agent EXCEPT ![a].marks = @ \ {p}, ![a].second = p]
      /\ missed' = missed /\ inflight' = inflight /\ pending' = pending /\ gate' = gate
      /\ UNCHANGED <<chunk, saves>> /\ UNCHANGED <<changes, owed>>
  BY Zenon DEF LookFurther, history
<1>3. /\ pending' \subseteq Positions /\ gate' \in Agents \cup {Lighter, Nobody}
      /\ missed \subseteq missed' /\ missed' \subseteq Positions
  BY <1>1, <1>2 DEF TypeOK
<1>4. /\ AgentStep(a) /\ agent'[a].guard = agent[a].guard
      /\ agent'[a].marks = agent[a].marks \ {p} /\ agent'[a].second = p
      /\ agent'[a].tasks = agent[a].tasks /\ agent'[a].blocked = agent[a].blocked
      /\ agent'[a].pc = "Mark" /\ agent'[a].center = agent[a].center
  BY Zenon, <1>1, <1>2 DEF TypeOK, AgentStep, AgentType
<1>5. AgentInv(a)'
  BY Zenon, <1>1, <1>2, <1>4 DEF AgentInv
<1>6. \A d : Holds(a, d) => Holds(a, d)'
  BY <1>2, <1>4 DEF Holds, Working
<1>7. \A q \in Positions : q \in agent[a].marks \/ q = agent[a].second =>
                             q \in agent'[a].marks \/ q = agent'[a].second
  BY Zenon, <1>2, <1>4, AgentAssumption
<1>8. QED
  BY Zenon, <1>2, <1>3, <1>4, <1>5, <1>6, <1>7, KeepsGuard

----------------------------------------------------------------------------
\* Steps of one drainer that write light or mark chunks.

\* They keep the guards, and the changes they have not applied.
LEMMA PropagationMove ==
  ASSUME LightInv, NEW a \in Agents, AgentStep(a), AgentInv(a)',
         agent'[a].guard = agent[a].guard, inflight' = inflight, pending' = pending,
         TypeOK', StoredInv', owed' \subseteq owed,
         \A c \in owed' : Holds(a, c) => c \in pending \/ Holds(a, c)'
  PROVE  LightInv'
<1>1. TypeOK /\ GuardInv /\ OwedInv /\ (\A b \in Agents : AgentInv(b))
  BY Zenon DEF LightInv
<1>2. GuardInv'
  BY Zenon, <1>1, GuardsKept
<1>3. ASSUME NEW b \in Agents PROVE AgentInv(b)'
  <2>1. CASE b = a
    BY Zenon, <2>1
  <2>2. CASE b # a
    <3>1. AgentInv(b) /\ agent'[b] = agent[b]
      BY Zenon, <1>1, <2>2 DEF AgentStep
    <3>2. QED
      BY Zenon, <3>1 DEF AgentInv
  <2>3. QED
    BY Zenon, <2>1, <2>2
<1>4. \A b \in Agents \ {a} : \A c : Holds(b, c)' <=> Holds(b, c)
  BY Zenon DEF Holds, AgentStep
<1>5. OwedInv'
  BY Zenon, <1>1, <1>4 DEF OwedInv
<1>6. QED
  BY Zenon, <1>2, <1>3, <1>5 DEF LightInv

\* Propagation writes light into chunks that it then has to mark.
LEMMA ApplyKeeps ==
  ASSUME LightInv, NEW a \in Agents, NEW updated \in SUBSET Positions, Apply(a, updated)
  PROVE  LightInv'
<1>1. TypeOK /\ AgentInv(a) /\ StoredInv /\ agent[a] \in AgentType
  BY Zenon DEF LightInv, TypeOK
<1>2. /\ agent[a].pc = "Apply"
      /\ light' = [p \in Positions |-> IF p \in updated THEN light[p] + 1 ELSE light[p]]
      /\ agent' = [agent EXCEPT ![a].pc = "Mark", ![a].marks = updated]
      /\ owed' = owed \ ({agent[a].center} \ pending)
      /\ UNCHANGED <<place, dirty, disk, pending, inflight, gate, changes, missed>>
      /\ UNCHANGED <<saver, snapshot>>
  BY Zenon DEF Apply, saves
<1>3. agent[a].marks = {} /\ agent[a].second = NoPos
  BY <1>1, <1>2 DEF AgentInv
<1>4. /\ AgentStep(a) /\ agent'[a].guard = agent[a].guard
      /\ agent'[a].marks = updated /\ agent'[a].second = NoPos
      /\ agent'[a].tasks = agent[a].tasks /\ agent'[a].blocked = agent[a].blocked
      /\ agent'[a].pc = "Mark" /\ agent'[a].center = agent[a].center
  BY Zenon, <1>1, <1>2, <1>3 DEF TypeOK, AgentStep, AgentType
<1>5. AgentInv(a)'
  BY Zenon, <1>1, <1>2, <1>4 DEF AgentInv
<1>6. light' \in [Positions -> Nat]
  BY <1>1, <1>2 DEF TypeOK
<1>7. owed' \subseteq owed /\ owed' \subseteq Positions
  BY <1>1, <1>2 DEF TypeOK
<1>8. TypeOK'
  BY Zenon, <1>1, <1>2, <1>4, <1>6, <1>7 DEF TypeOK, AgentStep
<1>9. ASSUME NEW c \in owed', Holds(a, c) PROVE c \in pending \/ Holds(a, c)'
  BY <1>2, <1>4, <1>9 DEF Holds, Working
<1>10. ASSUME NEW p \in Positions \ missed' PROVE Stored(p)'
  <2>1. CASE p \in updated
    BY Zenon, <1>4, <2>1 DEF Stored, Marked
  <2>2. CASE p \notin updated
    <3>1. light'[p] = light[p]
      BY Zenon, <1>2, <2>2
    <3>2. Marked(p) => Marked(p)'
      BY Zenon, <1>3, <1>4, AgentAssumption DEF Marked, AgentStep
    <3>3. Stored(p)
      BY Zenon, <1>1, <1>2 DEF StoredInv
    <3>4. QED
      BY Zenon, <1>2, <3>1, <3>2, <3>3 DEF Stored
  <2>3. QED
    BY Zenon, <2>1, <2>2
<1>11. StoredInv'
  BY Zenon, <1>1, <1>2, <1>10 DEF StoredInv
<1>12. QED
  BY Zenon, <1>2, <1>4, <1>5, <1>7, <1>8, <1>9, <1>11, PropagationMove

\* light_changed marks a chunk, or gives it up.
LEMMA MarkKeeps ==
  ASSUME LightInv, NEW a \in Agents,
         MarkUnloading(a) \/ \E p \in Positions : MarkActive(a, p)
  PROVE  LightInv'
<1>1. TypeOK /\ AgentInv(a) /\ StoredInv /\ agent[a] \in AgentType
  BY Zenon DEF LightInv, TypeOK
<1>2. /\ agent[a].pc = "Mark"
      /\ UNCHANGED <<place, light, disk, pending, inflight, gate, changes, owed>>
      /\ UNCHANGED <<saver, snapshot>>
  BY Zenon DEF MarkUnloading, MarkActive, saves, history
<1>3. PICK p \in Positions :
        /\ \/ agent' = [agent EXCEPT ![a].second = NoPos] /\ p = agent[a].second
           \/ agent' = [agent EXCEPT ![a].marks = @ \ {p}]
        /\ \/ place[p] # "Gone" /\ dirty' = [dirty EXCEPT ![p] = TRUE] /\ missed' = missed
           \/ dirty' = dirty /\ missed' = missed \cup {p}
  <2>1. CASE MarkUnloading(a)
    <3>1. agent[a].second \in Positions
      BY <1>1, <2>1 DEF MarkUnloading, AgentType
    <3>2. agent' = [agent EXCEPT ![a].second = NoPos]
      BY Zenon, <2>1 DEF MarkUnloading
    <3>3. \/ place[agent[a].second] # "Gone" /\ dirty' = [dirty EXCEPT ![agent[a].second] = TRUE] /\ missed' = missed
          \/ dirty' = dirty /\ missed' = missed \cup {agent[a].second}
      BY <2>1 DEF MarkUnloading
    <3>4. QED
      BY Zenon, <3>1, <3>2, <3>3
  <2>2. ASSUME NEW p \in Positions, MarkActive(a, p)
        PROVE  /\ agent' = [agent EXCEPT ![a].marks = @ \ {p}]
               /\ place[p] # "Gone" /\ dirty' = [dirty EXCEPT ![p] = TRUE] /\ missed' = missed
    BY <2>2 DEF MarkActive, history
  <2>3. QED
    BY Zenon, <2>1, <2>2
<1>4. /\ AgentStep(a) /\ agent'[a].guard = agent[a].guard
      /\ agent'[a].tasks = agent[a].tasks /\ agent'[a].blocked = agent[a].blocked
      /\ agent'[a].pc = agent[a].pc /\ agent'[a].center = agent[a].center
      /\ \A q \in Positions \ {p} : q \in agent[a].marks \/ q = agent[a].second =>
                                     q \in agent'[a].marks \/ q = agent'[a].second
  <2>1. CASE agent' = [agent EXCEPT ![a].second = NoPos] /\ p = agent[a].second
    BY Zenon, <1>1, <2>1 DEF TypeOK, AgentStep, AgentType
  <2>2. CASE agent' = [agent EXCEPT ![a].marks = @ \ {p}]
    BY Zenon, <1>1, <2>2 DEF TypeOK, AgentStep, AgentType
  <2>3. QED
    BY Zenon, <1>3, <2>1, <2>2
<1>5. AgentInv(a)'
  BY <1>1, <1>2, <1>4 DEF AgentInv
<1>6. /\ dirty' \in [Positions -> BOOLEAN] /\ missed \subseteq missed' /\ missed' \subseteq Positions
      /\ \A q \in Positions : dirty[q] => dirty'[q]
      /\ p \notin missed' => place[p] # "Gone" /\ dirty'[p]
  BY Zenon, <1>1, <1>3 DEF TypeOK
<1>7. TypeOK'
  BY Zenon, <1>1, <1>2, <1>4, <1>6 DEF TypeOK, AgentStep
<1>8. \A c : Holds(a, c) => Holds(a, c)'
  BY Zenon, <1>4 DEF Holds
<1>9. ASSUME NEW q \in Positions \ missed' PROVE Stored(q)'
  <2>1. CASE q = p
    BY Zenon, <1>2, <1>6, <2>1 DEF Stored
  <2>2. CASE q # p
    <3>1. Stored(q)
      BY Zenon, <1>1, <1>6 DEF StoredInv
    <3>2. Marked(q) => Marked(q)'
      BY Zenon, <1>4, <2>2 DEF Marked, AgentStep
    <3>3. QED
      BY Zenon, <1>2, <1>6, <3>1, <3>2 DEF Stored
  <2>3. QED
    BY Zenon, <2>1, <2>2
<1>10. StoredInv'
  BY Zenon, <1>1, <1>2, <1>9 DEF StoredInv
<1>11. owed' \subseteq owed
  BY Zenon, <1>2
<1>12. QED
  BY Zenon, <1>2, <1>4, <1>5, <1>7, <1>8, <1>10, <1>11, PropagationMove

----------------------------------------------------------------------------
\* Steps that leave the drainers alone.

\* Such a step keeps what is said of the drainers; a change may become pending.
LEMMA StillAgents ==
  ASSUME LightInv, agent' = agent, inflight' = inflight, pending \subseteq pending',
         owed' \subseteq owed \cup pending', TypeOK',
         (\A p \in Positions : Marked(p)' <=> Marked(p)) => StoredInv'
  PROVE  LightInv'
<1>1. GuardInv /\ OwedInv /\ \A a \in Agents : AgentInv(a)
  BY Zenon DEF LightInv
<1>2. \A a \in Agents : AgentInv(a)'
  BY Zenon, <1>1 DEF AgentInv
<1>3. \A c : Guards(c)' = Guards(c)
  BY Zenon DEF Guards
<1>4. GuardInv'
  BY Zenon, <1>1, <1>3 DEF GuardInv
<1>5. \A a, c : Holds(a, c)' <=> Holds(a, c)
  BY Zenon DEF Holds
<1>6. OwedInv'
  BY Zenon, <1>1, <1>5 DEF OwedInv
<1>7. \A p \in Positions : Marked(p)' <=> Marked(p)
  BY Zenon DEF Marked
<1>8. QED
  BY Zenon, <1>2, <1>4, <1>6, <1>7 DEF LightInv

\* A holder moves between the maps; it is still there.
LEMMA PlaceKeeps ==
  ASSUME LightInv, NEW p \in Positions,
         RemoveActive(p) \/ InsertUnloading(p) \/ RemoveUnloading(p) \/ InsertActive(p)
  PROVE  LightInv'
<1>1. TypeOK /\ StoredInv
  BY Zenon DEF LightInv
<1>2. PICK x \in {"Active", "Leaving", "Unloading", "Returning"} :
        /\ place' = [place EXCEPT ![p] = x] /\ place[p] # "Gone"
        /\ UNCHANGED <<light, dirty, disk, pending, inflight, gate, agent>>
        /\ UNCHANGED <<saver, snapshot, changes, owed, missed>>
  BY DEF RemoveActive, InsertUnloading, RemoveUnloading, InsertActive, saves, history
<1>3. /\ place' \in [Positions -> {"Active", "Leaving", "Unloading", "Returning", "Gone"}]
      /\ \A q \in Positions : place'[q] = "Gone" <=> place[q] = "Gone"
  BY <1>1, <1>2 DEF TypeOK
<1>4. TypeOK'
  BY Zenon, <1>1, <1>2, <1>3 DEF TypeOK
<1>5. ASSUME \A q \in Positions : Marked(q)' <=> Marked(q) PROVE StoredInv'
  BY Zenon, <1>1, <1>2, <1>3, <1>5 DEF StoredInv, Stored
<1>6. pending \subseteq pending' /\ owed' \subseteq owed \cup pending'
  BY Zenon, <1>2
<1>7. QED
  BY Zenon, <1>2, <1>4, <1>5, <1>6, StillAgents

\* The lock of the window goes to a generation step and back.
LEMMA LightStepKeeps ==
  ASSUME LightInv, BeginLightStep \/ EndLightStep
  PROVE  LightInv'
<1>1. TypeOK /\ StoredInv
  BY Zenon DEF LightInv
<1>2. /\ UNCHANGED <<place, light, dirty, disk, pending, inflight, agent>>
      /\ UNCHANGED <<saver, snapshot, changes, owed, missed>>
  BY Zenon DEF BeginLightStep, EndLightStep, chunk, saves, history
<1>3. gate' \in Agents \cup {Lighter, Nobody}
  <2>1. CASE BeginLightStep
    BY <1>1, <2>1 DEF TypeOK, BeginLightStep
  <2>2. CASE EndLightStep
    BY <1>1, <2>2 DEF TypeOK, EndLightStep
  <2>3. QED
    BY Zenon, <2>1, <2>2
<1>4. TypeOK'
  BY Zenon, <1>1, <1>2, <1>3 DEF TypeOK
<1>5. ASSUME \A q \in Positions : Marked(q)' <=> Marked(q) PROVE StoredInv'
  BY Zenon, <1>1, <1>2, <1>5 DEF StoredInv, Stored
<1>6. pending \subseteq pending' /\ owed' \subseteq owed \cup pending'
  BY Zenon, <1>2
<1>7. QED
  BY Zenon, <1>2, <1>4, <1>5, <1>6, StillAgents

\* queue_light_change.
LEMMA QueueKeeps ==
  ASSUME LightInv, NEW c \in Positions, QueueLightChange(c)
  PROVE  LightInv'
<1>1. TypeOK /\ StoredInv
  BY Zenon DEF LightInv
<1>2. /\ UNCHANGED <<place, light, disk, inflight, gate, agent, saver, snapshot, missed>>
      /\ dirty' = [dirty EXCEPT ![c] = TRUE] /\ pending' = pending \cup {c}
      /\ changes < MaxChanges /\ changes' = changes + 1 /\ owed' = owed \cup {c}
  BY Zenon DEF QueueLightChange, saves
<1>3. /\ dirty' \in [Positions -> BOOLEAN] /\ \A q \in Positions : dirty[q] => dirty'[q]
      /\ pending' \subseteq Positions /\ owed' \subseteq Positions /\ changes' \in 0..MaxChanges
  BY <1>1, <1>2, BoundAssumption DEF TypeOK
<1>4. TypeOK'
  BY Zenon, <1>1, <1>2, <1>3 DEF TypeOK
<1>5. ASSUME \A q \in Positions : Marked(q)' <=> Marked(q) PROVE StoredInv'
  BY Zenon, <1>1, <1>2, <1>3, <1>5 DEF StoredInv, Stored
<1>6. pending \subseteq pending' /\ owed' \subseteq owed \cup pending'
  BY Zenon, <1>2
<1>7. QED
  BY Zenon, <1>2, <1>4, <1>5, <1>6, StillAgents

\* A chunk is dropped, or loaded again with the stored light.
LEMMA DropReloadKeeps ==
  ASSUME LightInv, NEW p \in Positions, Drop(p) \/ Reload(p)
  PROVE  LightInv'
<1>1. TypeOK /\ StoredInv
  BY Zenon DEF LightInv
<1>2. /\ UNCHANGED <<dirty, disk, pending, inflight, gate, agent>>
      /\ UNCHANGED <<saver, snapshot, changes, owed, missed>>
  BY Zenon DEF Drop, Reload, saves, history
<1>3. /\ place' \in [Positions -> {"Active", "Leaving", "Unloading", "Returning", "Gone"}]
      /\ light' \in [Positions -> Nat]
      /\ \A q \in Positions \ {p} : place'[q] = place[q] /\ light'[q] = light[q]
  BY <1>1 DEF TypeOK, Drop, Reload
<1>4. TypeOK'
  BY Zenon, <1>1, <1>2, <1>3 DEF TypeOK
<1>5. ASSUME \A q \in Positions : Marked(q)' <=> Marked(q) PROVE StoredInv'
  <2>1. CASE Drop(p)
    <3>1. saver[p] = "None" /\ ~dirty[p] /\ light' = light
      BY Zenon, <2>1 DEF Drop, Unloadable, Referenced
    <3>2. ASSUME NEW q \in Positions \ missed' PROVE Stored(q)'
      BY Zenon, <1>1, <1>2, <1>3, <1>5, <3>1 DEF StoredInv, Stored
    <3>3. QED
      BY Zenon, <1>1, <1>2, <1>3, <3>1, <3>2 DEF StoredInv
  <2>2. CASE Reload(p)
    <3>1. place[p] = "Gone" /\ light'[p] = disk[p] /\ place'[p] = "Active"
      BY <1>1, <2>2 DEF Reload, TypeOK
    <3>2. saver[p] = "None"
      BY Zenon, <1>1, <3>1 DEF StoredInv
    <3>3. saver'[p] # "Write" /\ disk'[p] = light'[p] /\ place'[p] # "Gone"
      BY <1>2, <3>1, <3>2
    <3>4. ASSUME NEW q \in Positions \ missed' PROVE Stored(q)'
      BY Zenon, <1>1, <1>2, <1>3, <1>5, <3>3 DEF StoredInv, Stored
    <3>5. QED
      BY Zenon, <1>1, <1>2, <1>3, <3>3, <3>4 DEF StoredInv
  <2>3. QED
    BY Zenon, <2>1, <2>2
<1>6. pending \subseteq pending' /\ owed' \subseteq owed \cup pending'
  BY Zenon, <1>2
<1>7. QED
  BY Zenon, <1>2, <1>4, <1>5, <1>6, StillAgents

\* A save task looks for updates, waits for them and begins its preparation: it goes on to a
\* stage in which nothing is taken from the chunk.
Goes(p) == LookPending(p) \/ LookInFlight(p) \/ AwaitInFlight(p) \/ BeginPreparation(p)

\* What such a step changes.
LEMMA GoesOn ==
  ASSUME TypeOK, NEW p \in Positions, Goes(p)
  PROVE  \E x \in SaveStages \ {"Prepare", "Write"} :
           /\ saver' = [saver EXCEPT ![p] = x] /\ saver[p] \notin {"None", "Prepare", "Write"}
           /\ UNCHANGED <<chunk, pending, inflight, gate, agent, snapshot, history>>
<1>1. CASE LookPending(p)
  BY <1>1 DEF LookPending, SaveStages, Flushing
<1>2. CASE LookInFlight(p)
  BY <1>2 DEF LookInFlight, SaveStages, Flushing
<1>3. CASE AwaitInFlight(p)
  BY <1>3 DEF AwaitInFlight, SaveStages, Flushing
<1>4. CASE BeginPreparation(p)
  BY <1>4 DEF BeginPreparation, SaveStages, Flushing
<1>5. QED
  BY Zenon, <1>1, <1>2, <1>3, <1>4 DEF Goes

\* The save of a chunk: spawned, flushed, prepared, captured, written, or failed.
LEMMA SaveKeeps ==
  ASSUME LightInv, NEW p \in Positions, SpawnSave(p) \/ Save(p)
  PROVE  LightInv'
<1>1. TypeOK /\ StoredInv
  BY Zenon DEF LightInv
<1>2. /\ UNCHANGED <<place, light, pending, inflight, gate, agent>>
      /\ UNCHANGED <<changes, owed, missed>>
  BY Zenon DEF SpawnSave, Save, LookPending, LookInFlight, AwaitInFlight, BeginPreparation,
     TakeDirty, Capture, WriteSave, WriteFails, chunk, history
<1>3. /\ saver' \in [Positions -> SaveStages]
      /\ snapshot' \in [Positions -> Nat] /\ disk' \in [Positions -> Nat]
      /\ dirty' \in [Positions -> BOOLEAN]
      /\ \A q \in Positions \ {p} : /\ saver'[q] = saver[q] /\ snapshot'[q] = snapshot[q]
                                    /\ disk'[q] = disk[q] /\ dirty'[q] = dirty[q]
  <2>1. CASE SpawnSave(p)
    BY <1>1, <2>1 DEF TypeOK, SpawnSave, SaveStages, Flushing, chunk
  <2>2. CASE Goes(p)
    <3>1. PICK x \in SaveStages : /\ saver' = [saver EXCEPT ![p] = x]
                                  /\ UNCHANGED <<dirty, disk, snapshot>>
      BY Zenon, <1>1, <2>2, GoesOn DEF chunk
    <3>2. QED
      BY Zenon, <1>1, <3>1 DEF TypeOK
  <2>3. CASE TakeDirty(p)
    BY <1>1, <2>3 DEF TypeOK, TakeDirty, SaveStages
  <2>4. CASE Capture(p)
    BY <1>1, <2>4 DEF TypeOK, Capture, SaveStages, chunk
  <2>5. CASE WriteSave(p)
    BY <1>1, <2>5 DEF TypeOK, WriteSave, SaveStages
  <2>6. CASE WriteFails(p)
    BY <1>1, <2>6 DEF TypeOK, WriteFails, SaveStages
  <2>7. QED
    BY Zenon, <2>1, <2>2, <2>3, <2>4, <2>5, <2>6 DEF Save, Goes
<1>4. TypeOK'
  BY Zenon, <1>1, <1>2, <1>3 DEF TypeOK
<1>5. place[p] # "Gone"
  <2>1. CASE SpawnSave(p)
    BY <2>1 DEF SpawnSave, Unloadable
  <2>2. CASE Save(p)
    <3>1. saver[p] # "None"
      BY <2>2 DEF Save, LookPending, LookInFlight, AwaitInFlight, BeginPreparation, TakeDirty,
         Capture, WriteSave, WriteFails
    <3>2. QED
      BY Zenon, <1>1, <3>1 DEF StoredInv
  <2>3. QED
    BY Zenon, <2>1, <2>2
<1>6. ASSUME Marked(p)' <=> Marked(p), p \notin missed PROVE Stored(p)'
  <2>1. Stored(p)
    BY Zenon, <1>1, <1>6 DEF StoredInv
  <2>2. CASE SpawnSave(p)
    BY <1>1, <1>5, <2>2 DEF TypeOK, SpawnSave, Stored, chunk
  <2>3. CASE Goes(p)
    <3>1. PICK x \in SaveStages \ {"Prepare", "Write"} :
            /\ saver' = [saver EXCEPT ![p] = x] /\ saver[p] \notin {"None", "Prepare", "Write"}
            /\ UNCHANGED <<place, light, dirty, disk>>
      BY Zenon, <1>1, <2>3, GoesOn DEF chunk
    <3>2. saver'[p] # "Write"
      BY Zenon, <1>1, <3>1 DEF TypeOK
    <3>3. QED
      BY Zenon, <1>6, <2>1, <3>1, <3>2 DEF Stored
  <2>4. CASE TakeDirty(p)
    BY <1>1, <2>4 DEF TypeOK, TakeDirty, Stored
  <2>5. CASE Capture(p)
    BY <1>1, <2>5 DEF TypeOK, Capture, Stored, chunk
  <2>6. CASE WriteSave(p)
    BY <1>1, <1>6, <2>1, <2>6 DEF TypeOK, WriteSave, Stored
  <2>7. CASE WriteFails(p)
    BY <1>1, <1>5, <2>7 DEF TypeOK, WriteFails, Stored
  <2>8. QED
    BY Zenon, <2>2, <2>3, <2>4, <2>5, <2>6, <2>7 DEF Save, Goes
<1>7. ASSUME \A q \in Positions : Marked(q)' <=> Marked(q) PROVE StoredInv'
  <2>1. ASSUME NEW q \in Positions \ missed' PROVE Stored(q)'
    <3>1. CASE q = p
      BY Zenon, <1>2, <1>6, <1>7, <3>1
    <3>2. CASE q # p
      BY Zenon, <1>1, <1>2, <1>3, <1>7, <3>2 DEF StoredInv, Stored
    <3>3. QED
      BY Zenon, <3>1, <3>2
  <2>2. QED
    BY Zenon, <1>1, <1>2, <1>3, <1>5, <2>1 DEF StoredInv
<1>8. pending \subseteq pending' /\ owed' \subseteq owed \cup pending'
  BY Zenon, <1>2
<1>9. QED
  BY Zenon, <1>2, <1>4, <1>7, <1>8, StillAgents

----------------------------------------------------------------------------
\* Before any change nothing is owed, in flight or unsaved.
LEMMA InitInv == Init => LightInv
<1> SUFFICES ASSUME Init PROVE LightInv
  OBVIOUS
<1>1. \A a \in Agents : agent[a] = IdleAgent
  BY Zenon DEF Init
<1>2. Cardinality(Agents) \in Nat
  BY Zenon, FiniteAgents, FS_CardinalityType
<1>3. 0 \in 0..Cardinality(Agents) /\ 0 \in 0..MaxChanges
  BY <1>2, BoundAssumption
<1>4. TypeOK
  <2>1. agent \in [Agents -> AgentType]
    BY Zenon, IdleType DEF Init
  <2>2. QED
    BY <1>3, <2>1 DEF Init, TypeOK, SaveStages
<1>5. \A a \in Agents : AgentInv(a)
  BY <1>1, IdleType DEF AgentInv
<1>6. GuardInv
  <2>1. \A c : Guards(c) = {}
    BY <1>1, IdleType DEF Guards
  <2>2. Cardinality({}) = 0
    BY FS_EmptySet
  <2>3. QED
    BY Zenon, <2>1, <2>2 DEF GuardInv, Init
<1>7. OwedInv
  BY Zenon DEF OwedInv, Init
<1>8. StoredInv
  BY DEF StoredInv, Stored, Init
<1>9. QED
  BY Zenon, <1>4, <1>5, <1>6, <1>7, <1>8 DEF LightInv

\* Every step keeps the inductive invariant.
LEMMA StepInv == LightInv /\ [Next]_vars => LightInv'
<1> SUFFICES ASSUME LightInv, [Next]_vars PROVE LightInv'
  OBVIOUS
<1>1. CASE UNCHANGED vars
  <2>1. /\ UNCHANGED <<place, light, dirty, disk, pending, inflight, gate, agent>>
        /\ UNCHANGED <<saver, snapshot, changes, owed, missed>>
    BY Zenon, <1>1 DEF vars, chunk, saves, history
  <2>2. TypeOK /\ StoredInv
    BY Zenon DEF LightInv
  <2>3. TypeOK'
    BY Zenon, <2>1, <2>2 DEF TypeOK
  <2>4. ASSUME \A q \in Positions : Marked(q)' <=> Marked(q) PROVE StoredInv'
    BY Zenon, <2>1, <2>2, <2>4 DEF StoredInv, Stored
  <2>5. pending \subseteq pending' /\ owed' \subseteq owed \cup pending'
    BY Zenon, <2>1
  <2>6. QED
    BY Zenon, <2>1, <2>3, <2>4, <2>5, StillAgents
<1>2. ASSUME NEW p \in Positions, QueueLightChange(p) PROVE LightInv'
  BY Zenon, <1>2, QueueKeeps
<1>3. ASSUME NEW p \in Positions, RemoveActive(p) \/ RemoveUnloading(p) \/ Move(p) PROVE LightInv'
  BY Zenon, <1>3, PlaceKeeps DEF Move
<1>4. ASSUME NEW p \in Positions, Reload(p) \/ Drop(p) PROVE LightInv'
  BY Zenon, <1>4, DropReloadKeeps
<1>5. ASSUME NEW p \in Positions, Flush(p) PROVE LightInv'
  BY Zenon, <1>5, AwaitKeeps, DrainCenterKeeps, LeaveFlushKeeps DEF Flush
<1>6. ASSUME NEW p \in Positions, SpawnSave(p) \/ Save(p) PROVE LightInv'
  BY Zenon, <1>6, SaveKeeps
<1>7. ASSUME NEW a \in {World, Worker}, Drain(a) \/ Drainer(a) PROVE LightInv'
  <2>1. a \in Agents
    BY Zenon DEF Agents
  <2>2. QED
    BY Zenon, <1>7, <2>1, DrainKeeps, ReserveBlockKeeps, PrependKeeps, FinishDrainKeeps, LeaveKeeps DEF Drainer
<1>8. ASSUME NEW a \in Agents, Propagation(a) PROVE LightInv'
  BY Zenon, <1>8, SetupKeeps, ApplyKeeps, MarkKeeps, LookFurtherKeeps DEF Propagation
<1>9. CASE BeginLightStep \/ EndLightStep
  BY Zenon, <1>9, LightStepKeeps
<1>10. QED
  BY Zenon, <1>1, <1>2, <1>3, <1>4, <1>5, <1>6, <1>7, <1>8, <1>9 DEF Next

\* The inductive invariant holds in every state of the light updates.
THEOREM LightInvariant == Spec => []LightInv
<1>1. QED
  BY InitInv, StepInv, PTL DEF Spec

----------------------------------------------------------------------------
\* What is under the guard of some drainer has a positive counter.
LEMMA GuardIsCounted ==
  ASSUME LightInv, NEW a \in Agents, NEW c \in Positions, c \in agent[a].guard
  PROVE  inflight[c] > 0
<1>1. GuardInv
  BY Zenon DEF LightInv
<1>2. a \in Guards(c)
  BY Zenon DEF Guards
<1>3. IsFiniteSet(Guards(c)) /\ inflight[c] = Cardinality(Guards(c))
  BY Zenon, <1>1, CountType DEF GuardInv
<1>4. Cardinality(Guards(c)) \in Nat /\ (Cardinality(Guards(c)) = 0 <=> Guards(c) = {})
  BY Zenon, <1>3, FS_CardinalityType, FS_EmptySet
<1>5. Cardinality(Guards(c)) # 0
  BY Zenon, <1>2, <1>4
<1>6. QED
  BY <1>3, <1>4, <1>5

\* So has a change that some drainer still has to apply.
LEMMA HeldIsCounted ==
  ASSUME LightInv, NEW a \in Agents, NEW c \in Positions, Holds(a, c)
  PROVE  inflight[c] > 0
<1>1. c \in agent[a].guard
  BY Zenon DEF LightInv, Holds, AgentInv
<1>2. QED
  BY Zenon, <1>1, GuardIsCounted

\* While a drainer is about to mark a chunk, its update is in flight.
LEMMA MarkedIsInFlight ==
  ASSUME LightInv, NEW p \in Positions, Marked(p)
  PROVE  InFlight
<1>1. PICK a \in Agents : p \in agent[a].marks \/ p = agent[a].second
  BY Zenon DEF Marked
<1>2. AgentInv(a) /\ agent[a] \in AgentType
  BY Zenon DEF LightInv, TypeOK
<1>3. agent[a].pc = "Mark"
  BY Zenon, <1>1, <1>2, AgentAssumption DEF AgentInv
<1>4. agent[a].center \in agent[a].guard /\ agent[a].guard \subseteq Positions
  BY <1>2, <1>3 DEF AgentInv, AgentType
<1>5. QED
  BY Zenon, <1>4, GuardIsCounted DEF InFlight

\* The invariant says that every owed change is visible to touches_chunk.
LEMMA OwedTracked == LightInv => OwedIsTracked
<1> SUFFICES ASSUME LightInv PROVE OwedIsTracked
  OBVIOUS
<1>1. TypeOK /\ OwedInv /\ owed \subseteq Positions
  BY Zenon DEF LightInv, TypeOK
<1>2. ASSUME NEW c \in owed, c \notin pending PROVE inflight[c] > 0
  BY Zenon, <1>1, <1>2, HeldIsCounted DEF OwedInv
<1>3. QED
  BY Zenon, <1>1, <1>2 DEF OwedIsTracked

\* Through the drain, the gate's refusal and the return to the queue, a change that has not
\* been applied is pending or counted as in flight, so that touches_chunk sees it; and no
\* in-flight counter underflows.
THEOREM LightOwedIsTracked == Spec => []OwedIsTracked
<1>1. QED
  BY LightInvariant, OwedTracked, PTL

\* However updates, commits, saves and write failures interleave, light written into a chunk
\* that every update found is stored, or about to be, or the chunk is kept as dirty: unloading
\* a chunk never loses light.
THEOREM LightIsNeverLost == Spec => []LightIsSaved
<1>1. LightInv => LightIsSaved
  BY Zenon DEF LightInv, StoredInv, Stored, Marked, LightIsSaved
<1>2. QED
  BY <1>1, LightInvariant, PTL

\* A step that drops a chunk finds no change owed and the light of the chunk stored.
LEMMA StepFlushed ==
  LightInv /\ [Next]_vars =>
    [\A p \in Positions :
       place[p] # "Gone" /\ place'[p] = "Gone" =>
         owed = {} /\ (p \in missed \/ disk[p] = light[p])]_vars
<1> SUFFICES ASSUME LightInv, Next, NEW p \in Positions, place[p] # "Gone", place'[p] = "Gone"
             PROVE  owed = {} /\ (p \in missed \/ disk[p] = light[p])
  BY Zenon
<1>1. TypeOK /\ OwedIsTracked /\ StoredInv
  BY Zenon, OwedTracked DEF LightInv
<1>2. PICK q \in Positions : \/ RemoveActive(q) \/ RemoveUnloading(q) \/ Reload(q) \/ Drop(q)
                            \/ InsertUnloading(q) \/ InsertActive(q)
  <2>1. place' # place
    BY Zenon
  <2>2. QED
    BY ZenonT(40), <2>1 DEF Next, QueueLightChange, Move, Flush, AwaitWindow, ReserveAwaited,
       DrainCenter, LeaveFlush, Save, LookPending, LookInFlight, AwaitInFlight, BeginPreparation,
       TakeDirty, Capture, WriteSave, WriteFails, SpawnSave, Drain, Drainer, Reserve, Block,
       Prepend, FinishDrain, Leave, Propagation, Setup, Apply, MarkActive, LookFurther,
       MarkUnloading, BeginLightStep, EndLightStep, chunk
<1>3. Drop(p)
  BY <1>1, <1>2 DEF TypeOK, RemoveActive, RemoveUnloading, Reload, Drop, InsertUnloading, InsertActive
<1>4. pending = {} /\ ~InFlight /\ saver[p] = "None" /\ ~dirty[p]
  BY Zenon, <1>3 DEF Drop, Unloadable, Touched, Referenced
<1>5. owed = {}
  BY Zenon, <1>1, <1>4 DEF OwedIsTracked, TypeOK, InFlight
<1>6. ASSUME p \notin missed PROVE disk[p] = light[p]
  <2>1. ~Marked(p)
    BY Zenon, <1>4, MarkedIsInFlight
  <2>2. Stored(p)
    BY Zenon, <1>1, <1>6 DEF StoredInv
  <2>3. saver[p] # "Write" /\ saver[p] # "Prepare"
    BY <1>4
  <2>4. QED
    BY Zenon, <1>4, <2>1, <2>2, <2>3 DEF Stored
<1>7. QED
  BY Zenon, <1>5, <1>6

\* process_unloads: whatever the flushes of saves missed, a chunk is dropped only when every
\* change around it is applied and its light is stored.
THEOREM LightDropIsFlushed == Spec => DropIsFlushed
<1>1. QED
  BY LightInvariant, StepFlushed, PTL DEF Spec, DropIsFlushed

-----------------------------------------------------------------------------
(* Region files.                                                           *)

-----------------------------------------------------------------------------
(* find_free_sectors.                                                      *)

\* A non-empty set of numbers has a least one, which is what the first gap is.
LEMMA MinOfNats ==
  ASSUME NEW T, T \subseteq Nat, T # {}
  PROVE  Min(T) \in T /\ \A x \in T : Min(T) <= x
<1>1. \E n \in T : \A m \in T : n <= m
  <2> DEFINE R == OpToRel(<, Nat)
  <2>1. \A a, b \in Nat : a < b => <<a, b>> \in R
    BY Zenon DEF OpToRel
  <2>2. IsWellFoundedOn(R, Nat)
    BY NatLessThanWellFounded, Zenon
  <2> HIDE DEF R
  <2>3. PICK n \in T : \A m \in T : ~(<<m, n>> \in R)
    BY <2>2, WFMin, Zenon
  <2>4. ASSUME NEW m \in T PROVE n <= m
    <3>1. m \in Nat /\ n \in Nat
      BY Zenon
    <3>2. ~(m < n)
      BY Zenon, <2>1, <2>3, <3>1
    <3>3. QED
      BY <3>1, <3>2
  <2>5. QED
    BY Zenon, <2>4
<1>2. QED
  BY Zenon, <1>1 DEF Min

\* A bounded non-empty set of numbers has a greatest one, the end of the ranges behind.
LEMMA MaxOfNats ==
  ASSUME NEW T, T \subseteq Nat, T # {}, NEW b \in Nat, \A x \in T : x <= b
  PROVE  Max(T) \in T /\ \A x \in T : Max(T) >= x
<1> DEFINE D == {b - x : x \in T}
<1>1. D \subseteq Nat /\ D # {}
  <2>1. \A x \in T : b - x \in Nat
    BY SMT
  <2>2. QED
    BY Zenon, <2>1
<1>2. PICK m \in T : Min(D) = b - m
  BY Zenon, <1>1, MinOfNats
<1>3. ASSUME NEW x \in T PROVE m >= x
  <2>1. b - m <= b - x
    BY Zenon, <1>1, <1>2, MinOfNats
  <2>2. m \in Nat /\ x \in Nat
    BY Zenon
  <2>3. QED
    BY <2>1, <2>2
<1>4. QED
  BY Zenon, <1>2, <1>3 DEF Max

\* What the model's numbers are.
LEMMA Numbers ==
  /\ MaxSectors \in Nat /\ MaxSize \in Nat /\ MaxVersion \in Nat /\ First \in Nat
  /\ First >= 1 /\ First <= MaxSectors
BY StorageBounds

\* What the numbers of a table entry are.
LEMMA EntryNumbers ==
  ASSUME NEW e \in Entries
  PROVE  e.offset \in Nat /\ e.size \in Nat /\ End(e) \in Nat
BY Numbers DEF Entries, Sectors, End

\* The ranges behind the search reach a sector of the file, past all of them.
LEMMA ReachedIsPast ==
  ASSUME NEW S, S \subseteq Entries, NEW b \in Nat, First <= b, \A e \in S : End(e) <= b
  PROVE  Reached(S) \in Nat /\ Reached(S) >= First /\ \A e \in S : Reached(S) >= End(e)
<1> DEFINE T == {First} \cup {End(e) : e \in S}
<1>1. T \subseteq Nat /\ T # {}
  <2>1. \A e \in S : End(e) \in Nat
    BY Zenon, EntryNumbers
  <2>2. QED
    BY Zenon, <2>1, Numbers
<1>2. \A x \in T : x <= b
  BY Zenon
<1>3. Max(T) \in T /\ \A x \in T : Max(T) >= x
  <2> HIDE DEF T
  <2>1. QED
    BY Zenon, <1>1, <1>2, MaxOfNats
<1>4. Reached(S) = Max(T)
  BY Zenon DEF Reached
<1>5. QED
  BY Zenon, <1>1, <1>3, <1>4

\* The sectors found are data sectors that no entry of the table uses: a range that starts before
\* the gap ends before it, any other starts behind it.
LEMMA FoundIsFree ==
  ASSUME NEW h \in [Chunks -> Entries], NEW n \in Nat, NEW f \in Nat, Valid(h, f)
  PROVE  LET o == FindFreeSectors(h, n, f)
         IN  o \in Nat /\ o >= First /\ \A e \in Live(h) : End(e) <= o \/ o + n <= e.offset
<1> DEFINE b == IF First <= f THEN f ELSE First
<1>1. b \in Nat /\ First <= b /\ f <= b
  BY Numbers
<1> HIDE DEF b
<1>2. Live(h) \subseteq Entries
  BY Zenon DEF Live
<1>3. \A e \in Live(h) : End(e) <= b
  <2> SUFFICES ASSUME NEW e \in Live(h) PROVE End(e) <= b
    BY Zenon
  <2>1. End(e) \in Nat
    BY Zenon, <1>2, EntryNumbers
  <2>2. End(e) <= f
    BY Zenon DEF Valid
  <2>3. QED
    BY <1>1, <2>1, <2>2
<1> DEFINE gaps == {Reached(Before(h, e)) :
                      e \in {e \in Live(h) : e.offset >= Reached(Before(h, e)) + n}}
<1>4. \A e \in Live(h) : /\ Reached(Before(h, e)) \in Nat
                         /\ Reached(Before(h, e)) >= First
                         /\ \A d \in Before(h, e) : Reached(Before(h, e)) >= End(d)
  <2> SUFFICES ASSUME NEW e \in Live(h)
               PROVE  /\ Reached(Before(h, e)) \in Nat
                      /\ Reached(Before(h, e)) >= First
                      /\ \A d \in Before(h, e) : Reached(Before(h, e)) >= End(d)
    BY Zenon
  <2>1. Before(h, e) \subseteq Live(h)
    BY Zenon DEF Before
  <2>2. Before(h, e) \subseteq Entries /\ \A d \in Before(h, e) : End(d) <= b
    BY Zenon, <1>2, <1>3, <2>1
  <2>3. QED
    BY Zenon, <1>1, <2>2, ReachedIsPast
<1>5. CASE gaps # {}
  <2>1. gaps \subseteq Nat
    BY Zenon, <1>4
  <2>2. Min(gaps) \in gaps
    <3> HIDE DEF gaps
    <3>1. QED
      BY Zenon, <1>5, <2>1, MinOfNats
  <2>3. FindFreeSectors(h, n, f) = Min(gaps)
    BY Zenon, <1>5 DEF FindFreeSectors
  <2>4. PICK e \in Live(h) : /\ e.offset >= Reached(Before(h, e)) + n
                             /\ FindFreeSectors(h, n, f) = Reached(Before(h, e))
    BY Zenon, <2>2, <2>3
  <2> DEFINE o == Reached(Before(h, e))
  <2>5. o \in Nat /\ o >= First /\ \A d \in Before(h, e) : o >= End(d)
    BY Zenon, <1>4
  <2>6. ASSUME NEW d \in Live(h) PROVE End(d) <= o \/ o + n <= d.offset
    <3>1. d.offset \in Nat /\ End(d) \in Nat /\ e.offset \in Nat
      BY Zenon, <1>2, EntryNumbers
    <3>2. CASE d \in Before(h, e)
      <4>1. o >= End(d)
        BY Zenon, <2>5, <3>2
      <4> HIDE DEF o
      <4>2. QED
        BY <2>5, <3>1, <4>1
    <3>3. CASE d \notin Before(h, e)
      <4>1. ~(d.offset < e.offset) /\ e.offset >= o + n
        BY Zenon, <2>4, <3>3 DEF Before
      <4> HIDE DEF o
      <4>2. QED
        BY <2>5, <3>1, <4>1
    <3>4. QED
      BY Zenon, <3>2, <3>3
  <2>7. QED
    BY Zenon, <2>4, <2>5, <2>6
<1>6. CASE gaps = {}
  <2> DEFINE r == Reached(Live(h))
             o == FindFreeSectors(h, n, f)
  <2>1. r \in Nat /\ r >= First /\ \A e \in Live(h) : r >= End(e)
    BY Zenon, <1>1, <1>2, <1>3, ReachedIsPast
  <2>2. o = Max({r, f})
    BY Zenon, <1>6 DEF FindFreeSectors
  <2> HIDE DEF r, o
  <2>3. {r, f} \subseteq Nat /\ {r, f} # {} /\ r + f \in Nat /\ \A x \in {r, f} : x <= r + f
    BY <2>1
  <2>4. Max({r, f}) \in {r, f} /\ \A x \in {r, f} : Max({r, f}) >= x
    BY Zenon, <2>3, MaxOfNats
  <2>5. o \in Nat /\ o >= r
    BY Zenon, <2>1, <2>2, <2>4
  <2>6. o >= First
    BY <2>1, <2>5, Numbers
  <2>7. \A e \in Live(h) : End(e) <= o
    <3> SUFFICES ASSUME NEW e \in Live(h) PROVE End(e) <= o
      BY Zenon
    <3>1. End(e) \in Nat /\ r >= End(e)
      BY Zenon, <1>2, <2>1, EntryNumbers
    <3>2. QED
      BY <2>1, <2>5, <3>1
  <2>8. QED
    BY Zenon, <2>5, <2>6, <2>7 DEF o
<1>7. QED
  BY Zenon, <1>5, <1>6

-----------------------------------------------------------------------------
(* The invariant.                                                          *)

\* The table of the open handle and the one on disk: they agree on the chunks that were not
\* saved since the last write, which are all of them when the handle is not dirty.
TableInv ==
  /\ sectors <= length
  /\ headerDirty => open
  /\ ~headerDirty => settled \subseteq synced
  /\ open => \A c \in settled \cap synced : header[c] = table[c]

\* What a load read under the lock is the last save of the chunk, until it is decoded: a payload
\* that load_chunk throws away as corrupt is never one that a save has confirmed.
LoadsLastSave ==
  \A c \in Chunks : loading[c].active =>
    c \in held /\ (c \in settled => loading[c].payload = saved[c])

\* The table on disk and the one in memory pass validate_region_entries.
TablesValid == Valid(table, length) /\ (open => Valid(header, sectors))

\* Nothing was ever opened or saved in a file that is not complete.
CreatedInv ==
  created # "complete" => ~open /\ \A c \in Chunks : saved[c] = 0

\* The inductive invariant.
RegionInv == HeldIsOpen /\ TablesValid /\ ReadsLastSave /\ TableInv /\ LoadsLastSave

\* What an entry reads as in the sectors d.
ReadIn(d, e) ==
  IF ~Exists(e) THEN 0
  ELSE IF \E v \in Versions : \A s \in Span(e) : d[s] = v THEN d[e.offset] ELSE Garbage

\* The types of the state, apart from the count.
LEMMA RegionTypes ==
  ASSUME RegionInv
  PROVE  /\ data \in [Sectors -> Versions \cup {Garbage}]
         /\ length \in Nat /\ First <= length /\ length <= MaxSectors
         /\ table \in [Chunks -> Entries] /\ header \in [Chunks -> Entries]
         /\ open \in BOOLEAN /\ headerDirty \in BOOLEAN /\ count \in Nat
         /\ sectors \in Nat /\ sectors <= MaxSectors
         /\ held \subseteq Chunks /\ saved \in [Chunks -> Versions]
         /\ settled \subseteq Chunks /\ synced \subseteq Chunks
         /\ created \in FileStates
<1>1. StorageTypes
  BY Zenon DEF RegionInv, HeldIsOpen
<1>2. Cardinality(Chunks) \in Nat
  BY Zenon, StorageBounds, FS_CardinalityType
<1>3. count \in Nat
  BY <1>1, <1>2 DEF StorageTypes
<1>4. length \in Nat /\ First <= length /\ length <= MaxSectors /\ sectors \in Nat /\ sectors <= MaxSectors
  BY <1>1, Numbers DEF StorageTypes
<1>5. QED
  BY Zenon, <1>1, <1>3, <1>4 DEF StorageTypes

\* The handle a request works on, whether it was open or is opened: its table is valid, reads
\* every chunk's last save and agrees with the disk on what was not saved since.
LEMMA HandleFacts ==
  ASSUME RegionInv
  PROVE  /\ Handle.header \in [Chunks -> Entries] /\ Handle.headerDirty \in BOOLEAN
         /\ Handle.sectors \in Nat /\ Handle.sectors <= length
         /\ Handle.count = Cardinality(held)
         /\ Valid(Handle.header, Handle.sectors)
         /\ \A c \in settled : ReadIn(data, Handle.header[c]) = saved[c]
         /\ \A c \in settled \cap synced : Handle.header[c] = table[c]
         /\ ~Handle.headerDirty => settled \subseteq synced
         /\ DOMAIN Handle = {"header", "headerDirty", "count", "sectors"}
<1>1. TablesValid /\ ReadsLastSave /\ TableInv /\ HeldIsOpen
  BY Zenon DEF RegionInv
<1>3. CASE open
  <2>1. /\ Handle.header = header /\ Handle.headerDirty = headerDirty /\ Handle.count = count
        /\ Handle.sectors = sectors /\ DOMAIN Handle = {"header", "headerDirty", "count", "sectors"}
    BY <1>3 DEF Handle
  <2>2. \A c \in settled : ReadIn(data, header[c]) = saved[c]
    BY Zenon, <1>1, <1>3 DEF ReadsLastSave, ReadEntry, ReadIn
  <2>3. QED
    BY Zenon, <1>1, <1>3, <2>1, <2>2, RegionTypes DEF TablesValid, TableInv, HeldIsOpen
<1>4. CASE ~open
  <2>1. /\ Handle.header = table /\ Handle.headerDirty = FALSE /\ Handle.count = 0
        /\ Handle.sectors = length /\ DOMAIN Handle = {"header", "headerDirty", "count", "sectors"}
    BY <1>4 DEF Handle
  <2>2. \A c \in settled : ReadIn(data, table[c]) = saved[c]
    BY Zenon, <1>1, <1>4 DEF ReadsLastSave, ReadEntry, ReadIn
  <2>3. Cardinality(held) = 0
    BY Zenon, <1>1, <1>4, FS_EmptySet DEF HeldIsOpen
  <2>4. length <= length
    BY RegionTypes
  <2>5. settled \subseteq synced
    BY Zenon, <1>1, <1>4 DEF TableInv
  <2>6. QED
    BY Zenon, <1>1, <2>1, <2>2, <2>3, <2>4, <2>5, RegionTypes DEF TablesValid
<1>5. QED
  BY Zenon, <1>3, <1>4

\* The state after a step reads back, stated of the sectors.
LEMMA ReadsNext ==
  ASSUME \A c \in settled' : ReadIn(data', IF open' THEN header'[c] ELSE table'[c]) = saved'[c],
         \A c \in settled' \cap synced' : ReadIn(data', table'[c]) = saved'[c]
  PROVE  ReadsLastSave'
BY Zenon DEF ReadsLastSave, ReadEntry, ReadIn

\* A table stays valid when the file grows.
LEMMA ValidGrows ==
  ASSUME NEW h \in [Chunks -> Entries], NEW f \in Nat, NEW g \in Nat, f <= g, Valid(h, f)
  PROVE  Valid(h, g)
<1>1. \A e \in Live(h) : e.offset >= First /\ e.size # 0 /\ End(e) <= g
  <2> SUFFICES ASSUME NEW e \in Live(h) PROVE e.offset >= First /\ e.size # 0 /\ End(e) <= g
    BY Zenon
  <2>1. e \in Entries
    BY Zenon DEF Live
  <2>2. e.offset >= First /\ e.size # 0 /\ End(e) <= f
    BY Zenon DEF Valid
  <2>3. End(e) \in Nat
    BY Zenon, <2>1, EntryNumbers
  <2>4. QED
    BY <2>2, <2>3
<1>2. QED
  BY Zenon, <1>1 DEF Valid

\* An entry reads the same when none of its sectors is written.
LEMMA ReadKept ==
  ASSUME NEW e \in Entries, Exists(e) => e.size # 0, NEW d, NEW g,
         Exists(e) => \A s \in Span(e) : g[s] = d[s]
  PROVE  ReadIn(g, e) = ReadIn(d, e)
<1>1. CASE ~Exists(e)
  BY Zenon, <1>1 DEF ReadIn
<1>2. CASE Exists(e)
  <2>1. e.offset \in Span(e)
    <3>1. e.offset \in Nat /\ e.size \in Nat /\ e.size # 0
      BY Zenon, <1>2, EntryNumbers
    <3>2. QED
      BY <3>1 DEF Span, End
  <2>2. QED
    BY Zenon, <1>2, <2>1 DEF ReadIn
<1>3. QED
  BY Zenon, <1>1, <1>2

\* What a save writes reads back as that save.
LEMMA ReadWritten ==
  ASSUME NEW e \in Entries, e.size # 0, e.offset >= First, NEW v \in Versions, NEW g,
         \A s \in Span(e) : g[s] = v
  PROVE  ReadIn(g, e) = v
<1>1. e.offset \in Nat /\ e.size \in Nat
  BY Zenon, EntryNumbers
<1>2. e.offset \in Span(e) /\ Exists(e)
  BY <1>1, Numbers DEF Span, End, Exists
<1>3. QED
  BY Zenon, <1>2 DEF ReadIn

-----------------------------------------------------------------------------
(* Saves.                                                                  *)

\* A payload is placed in data sectors that no other chunk's entry uses.
LEMMA PlaceIsFree ==
  ASSUME RegionInv, NEW c \in Chunks, NEW n \in 1..MaxSize, CanSave(c, n)
  PROVE  /\ Place(c, n) \in Sectors /\ Place(c, n) \in Nat /\ Place(c, n) >= First
         /\ Place(c, n) + n <= MaxSectors
         /\ \A d \in Chunks \ {c} : Exists(Handle.header[d]) =>
              Span(Handle.header[d]) \cap (Place(c, n)..(Place(c, n) + n - 1)) = {}
<1> DEFINE h == Handle.header
           o == Place(c, n)
<1>1. h \in [Chunks -> Entries] /\ Handle.sectors \in Nat /\ Valid(h, Handle.sectors)
  BY Zenon, HandleFacts
<1>2. n \in Nat /\ n >= 1
  BY Numbers
<1>3. o + n <= MaxSectors
  BY Zenon DEF CanSave
<1> HIDE DEF h
<1>4. \A d \in Chunks : h[d] \in Entries /\ (Exists(h[d]) => h[d] \in Live(h))
  BY Zenon, <1>1 DEF Live
<1>5. CASE Exists(h[c]) /\ h[c].size >= n
  <2>1. o = h[c].offset
    BY Zenon, <1>5 DEF Place, h
  <2>2. h[c].offset >= First /\ h[c].offset \in Nat /\ h[c].size \in Nat
    BY Zenon, <1>1, <1>4, <1>5, EntryNumbers DEF Valid
  <2>3. o..(o + n - 1) \subseteq Span(h[c])
    <3> HIDE DEF o
    <3>1. QED
      BY <1>2, <1>5, <2>1, <2>2 DEF Span, End
  <2>4. \A d \in Chunks \ {c} : Exists(h[d]) => Span(h[d]) \cap (o..(o + n - 1)) = {}
    <3>1. \A d \in Chunks \ {c} : Exists(h[d]) => Span(h[c]) \cap Span(h[d]) = {}
      BY Zenon, <1>1, <1>5 DEF Valid
    <3> HIDE DEF o
    <3>2. QED
      BY Zenon, <2>3, <3>1
  <2>5. o \in Nat /\ o >= First
    BY Zenon, <2>1, <2>2
  <2>6. o \in Sectors
    <3> HIDE DEF o
    <3>1. QED
      BY <1>2, <1>3, <2>5, Numbers DEF Sectors
  <2>7. QED
    BY Zenon, <1>3, <2>4, <2>5, <2>6 DEF h
<1>6. CASE ~(Exists(h[c]) /\ h[c].size >= n)
  <2>1. o = FindFreeSectors(h, n, Handle.sectors)
    BY Zenon, <1>6 DEF Place, h
  <2>2. o \in Nat /\ o >= First /\ \A e \in Live(h) : End(e) <= o \/ o + n <= e.offset
    BY Zenon, <1>1, <1>2, <2>1, FoundIsFree
  <2>3. ASSUME NEW d \in Chunks, Exists(h[d])
        PROVE  Span(h[d]) \cap (o..(o + n - 1)) = {}
    <3>1. End(h[d]) \in Nat /\ h[d].offset \in Nat
      BY Zenon, <1>4, EntryNumbers
    <3>2. End(h[d]) <= o \/ o + n <= h[d].offset
      BY Zenon, <1>4, <2>2, <2>3
    <3>3. o \in Nat
      BY Zenon, <2>2
    <3> HIDE DEF o
    <3>4. QED
      BY <1>2, <3>1, <3>2, <3>3 DEF Span
  <2>4. o \in Sectors
    <3>1. o \in Nat /\ o >= First
      BY Zenon, <2>2
    <3> HIDE DEF o
    <3>2. QED
      BY <1>2, <1>3, <3>1, Numbers DEF Sectors
  <2>5. QED
    BY Zenon, <1>3, <2>2, <2>3, <2>4 DEF h
<1>7. QED
  BY Zenon, <1>5, <1>6

\* The handle after the payload is written is as good as the one before.
LEMMA WrittenIsValid ==
  ASSUME RegionInv, NEW c \in Chunks, NEW n \in 1..MaxSize, CanSave(c, n)
  PROVE  LET w == Written(c, Place(c, n), n)
             e == [offset |-> Place(c, n), size |-> n]
         IN  /\ e \in Entries /\ w.header = [Handle.header EXCEPT ![c] = e]
             /\ w.header \in [Chunks -> Entries]
             /\ w.headerDirty = Handle.headerDirty /\ w.count = Handle.count
             /\ w.sectors = IF Place(c, n) + n > Handle.sectors THEN Place(c, n) + n ELSE Handle.sectors
             /\ w.sectors \in Nat /\ w.sectors <= MaxSectors
             /\ DOMAIN w = {"header", "headerDirty", "count", "sectors"}
             /\ Valid(w.header, w.sectors)
<1> DEFINE h == Handle.header
           f == Handle.sectors
           o == Place(c, n)
           w == Written(c, o, n)
           e == [offset |-> o, size |-> n]
<1>1. /\ h \in [Chunks -> Entries] /\ f \in Nat /\ Valid(h, f) /\ f <= length
      /\ DOMAIN Handle = {"header", "headerDirty", "count", "sectors"}
  BY Zenon, HandleFacts
<1>2. n \in Nat /\ n >= 1 /\ n \in 0..MaxSize
  BY Numbers
<1>3. /\ o \in Sectors /\ o \in Nat /\ o >= First /\ o + n <= MaxSectors
      /\ \A d \in Chunks \ {c} : Exists(h[d]) => Span(h[d]) \cap (o..(o + n - 1)) = {}
  BY Zenon, PlaceIsFree
<1> HIDE DEF o
<1>4. e \in Entries
  BY <1>2, <1>3 DEF Entries
<1>5. /\ w.header = [h EXCEPT ![c] = e] /\ w.headerDirty = Handle.headerDirty /\ w.count = Handle.count
      /\ w.sectors = IF o + n > f THEN o + n ELSE f
      /\ DOMAIN w = {"header", "headerDirty", "count", "sectors"}
  BY <1>1 DEF Written
<1> HIDE DEF w, h, f
<1>6. w.sectors \in Nat /\ w.sectors >= f /\ w.sectors >= o + n /\ w.sectors <= MaxSectors
  BY <1>1, <1>2, <1>3, <1>5, RegionTypes, Numbers
<1>7. /\ w.header \in [Chunks -> Entries] /\ w.header[c] = e
      /\ \A d \in Chunks \ {c} : w.header[d] = h[d]
  BY Zenon, <1>1, <1>4, <1>5
<1>8. Valid(w.header, w.sectors)
  <2>1. Valid(h, w.sectors)
    BY Zenon, <1>1, <1>6, ValidGrows
  <2>2. /\ e.offset = o /\ e.size = n /\ End(e) = o + n /\ Span(e) = o..(o + n - 1)
    <3>1. e.offset = o /\ e.size = n
      BY SMT
    <3> HIDE DEF e
    <3>2. End(e) = o + n
      BY Zenon, <3>1 DEF End
    <3>3. Span(e) = o..(o + n - 1)
      BY <1>2, <1>3, <3>1, <3>2 DEF Span
    <3>4. QED
      BY Zenon, <3>1, <3>2, <3>3
  <2>3. o >= First /\ n # 0 /\ End(e) <= w.sectors
    BY <1>2, <1>3, <1>6, <2>2
  <2>4. \A x \in Live(w.header) : x.offset >= First /\ x.size # 0 /\ End(x) <= w.sectors
    <3> SUFFICES ASSUME NEW d \in Chunks, Exists(w.header[d])
                 PROVE  /\ w.header[d].offset >= First /\ w.header[d].size # 0
                        /\ End(w.header[d]) <= w.sectors
      BY Zenon DEF Live
    <3>1. CASE d = c
      BY Zenon, <1>7, <2>2, <2>3, <3>1
    <3>2. CASE d # c
      BY Zenon, <1>7, <2>1, <3>2 DEF Valid, Live
    <3>3. QED
      BY Zenon, <3>1, <3>2
  <2>5. ASSUME NEW a \in Chunks, NEW b \in Chunks, a # b, Exists(w.header[a]), Exists(w.header[b])
        PROVE  Span(w.header[a]) \cap Span(w.header[b]) = {}
    <3>1. CASE a = c
      <4>1. Span(h[b]) \cap Span(e) = {}
        BY Zenon, <1>3, <1>7, <2>2, <2>5, <3>1
      <4>2. QED
        BY Zenon, <1>7, <2>5, <3>1, <4>1
    <3>2. CASE b = c
      <4>1. Span(h[a]) \cap Span(e) = {}
        BY Zenon, <1>3, <1>7, <2>2, <2>5, <3>2
      <4>2. QED
        BY Zenon, <1>7, <2>5, <3>2, <4>1
    <3>3. CASE a # c /\ b # c
      BY Zenon, <1>7, <2>1, <2>5, <3>3 DEF Valid
    <3>4. QED
      BY Zenon, <3>1, <3>2, <3>3
  <2>6. QED
    BY Zenon, <2>4, <2>5 DEF Valid
<1>9. QED
  BY Zenon, <1>4, <1>5, <1>6, <1>7, <1>8 DEF w, h, f, o

\* No save, good or failed, touches what another chunk reads.
LEMMA OthersKept ==
  ASSUME RegionInv, NEW c \in Chunks, NEW n \in 1..MaxSize, CanSave(c, n), NEW v,
         WriteData(Place(c, n), n, v)
  PROVE  \A d \in settled \ {c} : ReadIn(data', Handle.header[d]) = saved[d]
<1> SUFFICES ASSUME NEW d \in settled, d # c PROVE ReadIn(data', Handle.header[d]) = saved[d]
  BY Zenon
<1> DEFINE h == Handle.header
           o == Place(c, n)
           x == h[d]
<1>1. /\ h \in [Chunks -> Entries] /\ Handle.sectors \in Nat /\ Valid(h, Handle.sectors)
      /\ Handle.sectors <= length /\ ReadIn(data, h[d]) = saved[d]
  BY Zenon, HandleFacts
<1>2. d \in Chunks /\ length \in Nat /\ length <= MaxSectors
  BY Zenon, RegionTypes
<1>3. x \in Entries /\ (Exists(x) => x \in Live(h))
  BY Zenon, <1>1, <1>2 DEF Live
<1>4. Exists(x) => x.offset >= First /\ x.size # 0 /\ End(x) <= Handle.sectors
  BY Zenon, <1>1, <1>3 DEF Valid
<1>5. Exists(x) => Span(x) \cap (o..(o + n - 1)) = {}
  BY Zenon, <1>2, PlaceIsFree
<1>6. Exists(x) => Span(x) \subseteq Sectors
  <2>1. x.offset \in Nat /\ End(x) \in Nat
    BY Zenon, <1>3, EntryNumbers
  <2> HIDE DEF x
  <2>2. QED
    BY <1>1, <1>2, <1>4, <2>1, Numbers DEF Span, Sectors
<1>7. Exists(x) => \A s \in Span(x) : data'[s] = data[s]
  <2>1. data' = [s \in Sectors |-> IF s \in o..(o + n - 1) THEN v ELSE data[s]]
    BY Zenon DEF WriteData
  <2> HIDE DEF x, o
  <2>2. QED
    BY Zenon, <1>5, <1>6, <2>1
<1>8. QED
  <2>1. Exists(x) => x.size # 0
    BY Zenon, <1>4
  <2> HIDE DEF x
  <2>2. ReadIn(data', x) = ReadIn(data, x)
    BY Zenon, <1>3, <1>7, <2>1, ReadKept
  <2>3. QED
    BY Zenon, <1>1, <2>2 DEF x

\* The states of a load.
LoadStates == [active : BOOLEAN, entry : Entries, payload : Versions \cup {Garbage}]

\* The type of the state after a step, from its parts.
LEMMA TypesNext ==
  ASSUME created' \in FileStates, data' \in [Sectors -> Versions \cup {Garbage}],
         length' \in Nat, First <= length', length' <= MaxSectors,
         table' \in [Chunks -> Entries], header' \in [Chunks -> Entries],
         open' \in BOOLEAN, headerDirty' \in BOOLEAN, sectors' \in Nat, sectors' <= MaxSectors,
         held' \subseteq Chunks, loading' \in [Chunks -> LoadStates],
         saved' \in [Chunks -> Versions], settled' \subseteq Chunks, synced' \subseteq Chunks,
         version' \in Versions, faults' \in 0..MaxFaults,
         IF open' THEN count' = Cardinality(held') ELSE count' = 0 /\ held' = {}
  PROVE  HeldIsOpen'
<1>1. IsFiniteSet(held') /\ Cardinality(held') <= Cardinality(Chunks)
  BY Zenon, StorageBounds, FS_Subset
<1>2. Cardinality(held') \in Nat /\ Cardinality(Chunks) \in Nat
  BY Zenon, <1>1, StorageBounds, FS_CardinalityType
<1>3. count' \in 0..Cardinality(Chunks)
  BY <1>1, <1>2
<1>4. length' \in First..MaxSectors /\ sectors' \in 0..MaxSectors
  BY Numbers
<1>5. StorageTypes'
  BY Zenon, <1>3, <1>4 DEF StorageTypes, LoadStates
<1>6. QED
  BY Zenon, <1>5 DEF HeldIsOpen

\* The parts of the state that RegionTypes leaves out.
LEMMA HistoryTypes ==
  ASSUME RegionInv
  PROVE  /\ loading \in [Chunks -> LoadStates] /\ version \in Versions /\ faults \in 0..MaxFaults
         /\ IF open THEN count = Cardinality(held) ELSE held = {}
BY Zenon DEF RegionInv, HeldIsOpen, StorageTypes, LoadStates

\* A fault is counted.
LEMMA FaultCounts ==
  ASSUME RegionInv, Fault
  PROVE  faults' \in 0..MaxFaults
<1>1. faults \in 0..MaxFaults /\ MaxFaults \in Nat
  BY Zenon, HistoryTypes, StorageBounds
<1>2. QED
  BY <1>1 DEF Fault

\* Data, tables and reads after a payload was written, well or badly.
LEMMA AfterWrite ==
  ASSUME RegionInv, NEW c \in Chunks, NEW n \in 1..MaxSize, CanSave(c, n),
         NEW v \in Versions \cup {Garbage}, WriteData(Place(c, n), n, v)
  PROVE  LET w == Written(c, Place(c, n), n)
         IN  /\ data' \in [Sectors -> Versions \cup {Garbage}]
             /\ length' \in Nat /\ First <= length' /\ length' <= MaxSectors
             /\ length <= length' /\ w.sectors <= length' /\ Handle.sectors <= length'
             /\ Valid(w.header, length') /\ Valid(table, length')
             /\ \A d \in settled \ {c} : w.header[d] = Handle.header[d]
             /\ \A d \in settled \ {c} : ReadIn(data', Handle.header[d]) = saved[d]
             /\ \A d \in (settled \cap synced) \ {c} :
                  ReadIn(data', table[d]) = saved[d] /\ Handle.header[d] = table[d]
             /\ v \in Versions => ReadIn(data', w.header[c]) = v
<1> DEFINE o == Place(c, n)
           w == Written(c, o, n)
           e == [offset |-> o, size |-> n]
<1>1. /\ o \in Sectors /\ o \in Nat /\ o >= First /\ o + n <= MaxSectors
  BY Zenon, PlaceIsFree
<1>2. /\ data' = [s \in Sectors |-> IF s \in o..(o + n - 1) THEN v ELSE data[s]]
      /\ length' = IF o + n > length THEN o + n ELSE length
  BY Zenon DEF WriteData
<1>3. /\ e \in Entries /\ w.header = [Handle.header EXCEPT ![c] = e]
      /\ w.header \in [Chunks -> Entries]
      /\ w.sectors = IF o + n > Handle.sectors THEN o + n ELSE Handle.sectors
      /\ w.sectors \in Nat /\ Valid(w.header, w.sectors)
  BY Zenon, WrittenIsValid
<1>4. n \in Nat /\ n >= 1
  BY Numbers
<1>5. /\ Handle.header \in [Chunks -> Entries] /\ Handle.sectors \in Nat /\ Handle.sectors <= length
      /\ \A d \in settled \cap synced : Handle.header[d] = table[d]
  BY Zenon, HandleFacts
<1> HIDE DEF o, w
<1>6. data' \in [Sectors -> Versions \cup {Garbage}]
  BY Zenon, <1>2, RegionTypes
<1>7. /\ length' \in Nat /\ First <= length' /\ length' <= MaxSectors /\ length <= length'
      /\ w.sectors <= length' /\ Handle.sectors <= length'
  <2>1. length \in Nat /\ First <= length /\ length <= MaxSectors
    BY Zenon, RegionTypes
  <2>2. /\ length' = IF o + n > length THEN o + n ELSE length
        /\ w.sectors = IF o + n > Handle.sectors THEN o + n ELSE Handle.sectors
        /\ o \in Nat /\ o + n <= MaxSectors /\ Handle.sectors \in Nat /\ Handle.sectors <= length
    BY Zenon, <1>1, <1>2, <1>3, <1>5
  <2>3. QED
    BY <1>4, <2>1, <2>2, Numbers
<1>8. Valid(w.header, length')
  BY Zenon, <1>3, <1>7, ValidGrows
<1>9. Valid(table, length')
  <2>1. table \in [Chunks -> Entries] /\ length \in Nat /\ Valid(table, length)
    BY Zenon, RegionTypes DEF RegionInv, TablesValid
  <2>2. QED
    BY Zenon, <1>7, <2>1, ValidGrows
<1>10. w.header[c] = e /\ \A d \in settled \ {c} : w.header[d] = Handle.header[d]
  <2>1. settled \subseteq Chunks
    BY Zenon, RegionTypes
  <2> HIDE DEF e
  <2>2. QED
    BY Zenon, <1>3, <1>5, <2>1
<1>11. \A d \in settled \ {c} : ReadIn(data', Handle.header[d]) = saved[d]
  BY Zenon, OthersKept
<1>12. \A d \in (settled \cap synced) \ {c} :
         ReadIn(data', table[d]) = saved[d] /\ Handle.header[d] = table[d]
  BY Zenon, <1>5, <1>11
<1>13. ASSUME v \in Versions PROVE ReadIn(data', e) = v
  <2>1. e.offset = o /\ e.size = n
    BY SMT
  <2> HIDE DEF e
  <2>2. Span(e) = o..(o + n - 1)
    <3>1. End(e) = o + n
      BY Zenon, <2>1 DEF End
    <3>2. QED
      BY <1>1, <1>4, <2>1, <3>1 DEF Span
  <2>3. o..(o + n - 1) \subseteq Sectors
    BY <1>1, <1>4, Numbers DEF Sectors
  <2>4. \A s \in Span(e) : data'[s] = v
    BY Zenon, <1>2, <2>2, <2>3
  <2>5. e.size # 0
    BY <1>4, <2>1
  <2>6. QED
    BY Zenon, <1>1, <1>3, <1>13, <2>1, <2>4, <2>5, ReadWritten
<1>14. v \in Versions => ReadIn(data', w.header[c]) = v
  BY Zenon, <1>10, <1>13
<1>15. QED
  BY Zenon, <1>6, <1>7, <1>8, <1>9, <1>10, <1>11, <1>12, <1>14 DEF w, o

\* save_chunk_data: the chunk reads back as saved, and so does every other.
LEMMA RegionSave ==
  ASSUME RegionInv, NEW c \in Chunks, NEW n \in 1..MaxSize, SaveChunkData(c, n)
  PROVE  RegionInv'
<1> DEFINE w == Written(c, Place(c, n), n)
<1>1. /\ CanSave(c, n) /\ WriteData(Place(c, n), n, version + 1)
      /\ version' = version + 1 /\ saved' = [saved EXCEPT ![c] = version + 1]
      /\ settled' = settled \cup {c} /\ UNCHANGED <<held, loading, faults>>
      /\ created' \in FileStates
  BY Zenon DEF SaveChunkData, CanSave, OpenRegion, FileStates
<1>2. version + 1 \in Versions
  <2>1. version \in Versions /\ version < MaxVersion
    BY Zenon, <1>1, HistoryTypes DEF CanSave
  <2>2. QED
    BY <2>1, Numbers DEF Versions
<1>3. /\ data' \in [Sectors -> Versions \cup {Garbage}]
      /\ length' \in Nat /\ First <= length' /\ length' <= MaxSectors
      /\ w.sectors <= length' /\ Valid(w.header, length') /\ Valid(table, length')
      /\ \A d \in settled \ {c} : w.header[d] = Handle.header[d]
      /\ \A d \in settled \ {c} : ReadIn(data', Handle.header[d]) = saved[d]
      /\ \A d \in (settled \cap synced) \ {c} :
           ReadIn(data', table[d]) = saved[d] /\ Handle.header[d] = table[d]
      /\ ReadIn(data', w.header[c]) = version + 1
  BY Zenon, <1>1, <1>2, AfterWrite
<1>4. /\ w.header \in [Chunks -> Entries] /\ w.count = Handle.count
      /\ w.sectors \in Nat /\ w.sectors <= MaxSectors /\ Valid(w.header, w.sectors)
      /\ DOMAIN w = {"header", "headerDirty", "count", "sectors"}
  BY Zenon, <1>1, WrittenIsValid
<1>5. /\ saved' \in [Chunks -> Versions] /\ settled' \subseteq Chunks
      /\ saved'[c] = version + 1 /\ \A d \in settled' \ {c} : d \in settled /\ saved'[d] = saved[d]
  BY Zenon, <1>1, <1>2, RegionTypes
<1>6. \A d \in settled' : ReadIn(data', w.header[d]) = saved'[d]
  <2> SUFFICES ASSUME NEW d \in settled' PROVE ReadIn(data', w.header[d]) = saved'[d]
    BY Zenon
  <2>1. CASE d = c
    BY Zenon, <1>3, <1>5, <2>1
  <2>2. CASE d # c
    <3>1. d \in settled \ {c} /\ saved'[d] = saved[d]
      BY Zenon, <1>5, <2>2
    <3> HIDE DEF w
    <3>2. QED
      BY Zenon, <1>3, <3>1
  <2>3. QED
    BY Zenon, <2>1, <2>2
<1>7. LoadsLastSave'
  <2>1. ~loading[c].active
    BY Zenon, <1>1 DEF CanSave
  <2>2. QED
    BY Zenon, <1>1, <1>5, <2>1 DEF RegionInv, LoadsLastSave
<1>8. held' \subseteq Chunks /\ loading' \in [Chunks -> LoadStates] /\ faults' \in 0..MaxFaults
  BY Zenon, <1>1, RegionTypes, HistoryTypes
<1> HIDE DEF w
<1>9. CASE ~open
  <2>1. /\ open' = FALSE /\ header' = NoTable /\ headerDirty' = FALSE /\ count' = 0 /\ sectors' = 0
        /\ table' = w.header /\ synced' = Chunks /\ held = {}
    BY Zenon, <1>9, HistoryTypes DEF SaveChunkData, Close, WriteHeader, w
  <2>2. NoTable \in [Chunks -> Entries]
    BY Numbers DEF NoTable, NoEntry, Entries
  <2>3. 0 \in Nat /\ 0 <= MaxSectors /\ 0 <= length'
    BY <1>3, Numbers
  <2>4. HeldIsOpen'
    BY Zenon, <1>1, <1>2, <1>3, <1>4, <1>5, <1>8, <2>1, <2>2, <2>3, TypesNext
  <2>5. TablesValid'
    BY Zenon, <1>3, <2>1 DEF TablesValid
  <2>6. ReadsLastSave'
    BY Zenon, <1>6, <2>1, ReadsNext
  <2>7. TableInv'
    BY Zenon, <1>5, <2>1, <2>3 DEF TableInv
  <2>8. QED
    BY Zenon, <1>7, <2>4, <2>5, <2>6, <2>7 DEF RegionInv
<1>10. CASE open
  <2>1. /\ Keep([w EXCEPT !.headerDirty = TRUE]) /\ synced' = synced \ {c} /\ table' = table
    BY Zenon, <1>10 DEF SaveChunkData, w
  <2>2. /\ open' = TRUE /\ header' = w.header /\ headerDirty' = TRUE /\ count' = w.count
        /\ sectors' = w.sectors
    BY <1>4, <2>1 DEF Keep
  <2>3. count' = Cardinality(held')
    BY Zenon, <1>1, <1>4, <2>2, HandleFacts
  <2>4. HeldIsOpen'
    BY Zenon, <1>1, <1>2, <1>3, <1>4, <1>5, <1>8, <2>1, <2>2, <2>3, RegionTypes, TypesNext
  <2>5. TablesValid'
    BY Zenon, <1>3, <1>4, <2>1, <2>2 DEF TablesValid
  <2>6. ASSUME NEW d \in settled' \cap synced'
        PROVE  ReadIn(data', table'[d]) = saved'[d] /\ header'[d] = table'[d]
    <3>1. d \in (settled \cap synced) \ {c} /\ saved'[d] = saved[d]
      BY Zenon, <1>5, <2>1, <2>6
    <3>2. QED
      BY Zenon, <1>3, <2>1, <2>2, <3>1
  <2>7. ReadsLastSave'
    BY Zenon, <1>6, <2>2, <2>6, ReadsNext
  <2>8. TableInv'
    BY Zenon, <1>3, <2>2, <2>6 DEF TableInv
  <2>9. QED
    BY Zenon, <1>7, <2>4, <2>5, <2>7, <2>8 DEF RegionInv
<1>11. QED
  BY Zenon, <1>9, <1>10

\* A save that fails halfway puts only its own chunk in doubt, and the region stays open.
LEMMA RegionSaveFails ==
  ASSUME RegionInv, NEW c \in Chunks, NEW n \in 1..MaxSize,
         SaveFails(c, n) \/ SaveHeaderFails(c, n)
  PROVE  RegionInv'
<1> DEFINE w == Written(c, Place(c, n), n)
<1>1. /\ CanSave(c, n) /\ Fault /\ settled' = settled \ {c}
      /\ UNCHANGED <<table, held, loading, saved, synced>> /\ created' \in FileStates
  BY Zenon DEF SaveFails, SaveHeaderFails, CanSave, OpenRegion, FileStates
<1>2. PICK v \in Versions \cup {Garbage} : WriteData(Place(c, n), n, v) /\ version' \in Versions
  <2>1. version \in Versions /\ version < MaxVersion
    BY Zenon, <1>1, HistoryTypes DEF CanSave
  <2>2. version + 1 \in Versions
    BY <2>1, Numbers DEF Versions
  <2>3. CASE SaveFails(c, n)
    BY Zenon, <2>1, <2>3 DEF SaveFails
  <2>4. CASE SaveHeaderFails(c, n)
    BY Zenon, <2>2, <2>4 DEF SaveHeaderFails
  <2>5. QED
    BY Zenon, <2>3, <2>4
<1>3. /\ data' \in [Sectors -> Versions \cup {Garbage}]
      /\ length' \in Nat /\ First <= length' /\ length' <= MaxSectors
      /\ w.sectors <= length' /\ Handle.sectors <= length' /\ Valid(table, length')
      /\ \A d \in settled \ {c} : w.header[d] = Handle.header[d]
      /\ \A d \in settled \ {c} : ReadIn(data', Handle.header[d]) = saved[d]
      /\ \A d \in (settled \cap synced) \ {c} :
           ReadIn(data', table[d]) = saved[d] /\ Handle.header[d] = table[d]
  BY Zenon, <1>1, <1>2, AfterWrite
<1>4. /\ w.header \in [Chunks -> Entries] /\ w.headerDirty = Handle.headerDirty /\ w.count = Handle.count
      /\ w.sectors \in Nat /\ w.sectors <= MaxSectors /\ Valid(w.header, w.sectors)
  BY Zenon, <1>1, WrittenIsValid
<1>5. /\ Handle.header \in [Chunks -> Entries] /\ Handle.headerDirty \in BOOLEAN
      /\ Handle.sectors \in Nat /\ Handle.count = Cardinality(held)
      /\ Valid(Handle.header, Handle.sectors) /\ (~Handle.headerDirty => settled \subseteq synced)
  BY Zenon, HandleFacts
<1>6. Handle.sectors <= MaxSectors
  BY <1>3, <1>5, Numbers
<1>7. /\ open' = TRUE /\ headerDirty' = Handle.headerDirty /\ count' = Handle.count
      /\ \/ header' = Handle.header /\ sectors' = Handle.sectors
         \/ header' = w.header /\ sectors' = w.sectors
  <2>1. CASE SaveFails(c, n)
    BY Zenon, <2>1 DEF SaveFails, Keep
  <2>2. CASE SaveHeaderFails(c, n)
    BY Zenon, <1>4, <2>2 DEF SaveHeaderFails, Keep
  <2>3. QED
    BY Zenon, <2>1, <2>2
<1> HIDE DEF w
<1>8. /\ header' \in [Chunks -> Entries] /\ sectors' \in Nat /\ sectors' <= MaxSectors
      /\ sectors' <= length' /\ Valid(header', sectors')
      /\ \A d \in settled \ {c} : header'[d] = Handle.header[d]
  BY Zenon, <1>3, <1>4, <1>5, <1>6, <1>7
<1>9. HeldIsOpen'
  <2>1. /\ held' \subseteq Chunks /\ loading' \in [Chunks -> LoadStates] /\ faults' \in 0..MaxFaults
        /\ saved' \in [Chunks -> Versions] /\ settled' \subseteq Chunks /\ synced' \subseteq Chunks
        /\ table' \in [Chunks -> Entries]
    BY Zenon, <1>1, RegionTypes, HistoryTypes, FaultCounts
  <2>2. count' = Cardinality(held') /\ open' \in BOOLEAN /\ headerDirty' \in BOOLEAN
    BY Zenon, <1>1, <1>5, <1>7
  <2>3. QED
    BY Zenon, <1>1, <1>2, <1>3, <1>7, <1>8, <2>1, <2>2, TypesNext
<1>10. TablesValid'
  BY Zenon, <1>1, <1>3, <1>8 DEF TablesValid
<1>11. ReadsLastSave'
  BY Zenon, <1>1, <1>3, <1>7, <1>8, ReadsNext
<1>12. TableInv'
  BY Zenon, <1>1, <1>3, <1>5, <1>7, <1>8 DEF TableInv
<1>13. LoadsLastSave'
  BY Zenon, <1>1 DEF RegionInv, LoadsLastSave
<1>14. QED
  BY Zenon, <1>9, <1>10, <1>11, <1>12, <1>13 DEF RegionInv

-----------------------------------------------------------------------------
(* Opening, closing and loading.                                           *)

\* The region is open with the table it had, or that of the disk.
LEMMA RegionKeeps ==
  ASSUME RegionInv, created' \in FileStates, UNCHANGED <<data, length, table>>,
         UNCHANGED <<saved, settled, synced, version>>,
         open' = TRUE, header' = Handle.header, headerDirty' = Handle.headerDirty, sectors' = Handle.sectors,
         count' = Cardinality(held'), held' \subseteq Chunks, faults' \in 0..MaxFaults,
         loading' \in [Chunks -> LoadStates], LoadsLastSave'
  PROVE  RegionInv'
<1>1. UNCHANGED <<data, length, table>>
  BY Zenon
<1>2. /\ Handle.header \in [Chunks -> Entries] /\ Handle.headerDirty \in BOOLEAN
      /\ Handle.sectors \in Nat /\ Handle.sectors <= length
      /\ Valid(Handle.header, Handle.sectors) /\ (~Handle.headerDirty => settled \subseteq synced)
      /\ \A c \in settled : ReadIn(data, Handle.header[c]) = saved[c]
      /\ \A c \in settled \cap synced : Handle.header[c] = table[c]
  BY Zenon, HandleFacts
<1>3. Handle.sectors <= MaxSectors
  <2>1. length \in Nat /\ length <= MaxSectors
    BY Zenon, RegionTypes
  <2>2. QED
    BY <1>2, <2>1, Numbers
<1>4. HeldIsOpen'
  <2>1. open' \in BOOLEAN /\ headerDirty' \in BOOLEAN /\ sectors' \in Nat /\ sectors' <= MaxSectors
    BY Zenon, <1>2, <1>3
  <2>2. QED
    BY Zenon, <1>1, <1>2, <2>1, RegionTypes, HistoryTypes, TypesNext
<1>5. TablesValid'
  BY Zenon, <1>1, <1>2 DEF RegionInv, TablesValid
<1>6. ReadsLastSave'
  <2>1. \A c \in settled \cap synced : ReadIn(data, table[c]) = saved[c]
    BY Zenon, <1>2
  <2>2. QED
    BY Zenon, <1>1, <1>2, <2>1, ReadsNext
<1>7. TableInv'
  BY Zenon, <1>1, <1>2 DEF TableInv
<1>8. QED
  BY Zenon, <1>4, <1>5, <1>6, <1>7 DEF RegionInv

\* The handle goes, with its table written if it was dirty, or with what it alone knew in doubt.
LEMMA RegionCloses ==
  ASSUME RegionInv, open, Close, held' = {}, UNCHANGED <<created, data, length, saved, version>>,
         loading' \in [Chunks -> LoadStates], \A c \in Chunks : ~loading'[c].active,
         faults' \in 0..MaxFaults,
         \/ headerDirty /\ WriteHeader(header) /\ settled' = settled
         \/ ~headerDirty /\ UNCHANGED <<table, synced>> /\ settled' = settled
         \/ Forget /\ table' = table
  PROVE  RegionInv'
<1>1. open' = FALSE /\ header' = NoTable /\ headerDirty' = FALSE /\ count' = 0 /\ sectors' = 0
  BY Zenon DEF Close
<1>2. /\ header \in [Chunks -> Entries] /\ table \in [Chunks -> Entries]
      /\ length \in Nat /\ sectors \in Nat /\ sectors <= length
      /\ settled \subseteq Chunks /\ synced \subseteq Chunks
      /\ Valid(header, sectors) /\ Valid(table, length)
      /\ (~headerDirty => settled \subseteq synced)
  BY Zenon, RegionTypes DEF RegionInv, TablesValid, TableInv
<1>3. /\ \A c \in settled : ReadIn(data, header[c]) = saved[c]
      /\ \A c \in settled \cap synced : ReadIn(data, table[c]) = saved[c]
  BY Zenon DEF RegionInv, ReadsLastSave, ReadEntry, ReadIn
<1>4. /\ table' \in [Chunks -> Entries] /\ settled' \subseteq synced' /\ synced' \subseteq Chunks
      /\ Valid(table', length) /\ \A c \in settled' : ReadIn(data, table'[c]) = saved[c]
  <2>1. CASE headerDirty /\ WriteHeader(header) /\ settled' = settled
    BY Zenon, <1>2, <1>3, <2>1, ValidGrows DEF WriteHeader
  <2>2. CASE ~headerDirty /\ UNCHANGED <<table, synced>> /\ settled' = settled
    BY Zenon, <1>2, <1>3, <2>2
  <2>3. CASE Forget /\ table' = table
    BY Zenon, <1>2, <1>3, <2>3 DEF Forget
  <2>4. QED
    BY Zenon, <2>1, <2>2, <2>3
<1>5. HeldIsOpen'
  <2>1. NoTable \in [Chunks -> Entries]
    BY Numbers DEF NoTable, NoEntry, Entries
  <2>2. 0 \in Nat /\ 0 <= MaxSectors
    BY Numbers
  <2>3. settled' \subseteq Chunks
    BY Zenon, <1>4
  <2>4. held' \subseteq Chunks
    BY Zenon
  <2>5. QED
    BY Zenon, <1>1, <1>4, <2>1, <2>2, <2>3, <2>4, RegionTypes, HistoryTypes, TypesNext
<1>6. TablesValid'
  BY Zenon, <1>1, <1>4 DEF TablesValid
<1>7. ReadsLastSave'
  BY Zenon, <1>1, <1>4, ReadsNext
<1>8. TableInv'
  <2>1. 0 <= length
    BY <1>2
  <2>2. QED
    BY Zenon, <1>1, <1>4, <2>1 DEF TableInv
<1>9. LoadsLastSave'
  BY Zenon DEF LoadsLastSave
<1>10. QED
  BY Zenon, <1>5, <1>6, <1>7, <1>8, <1>9 DEF RegionInv

\* acquire_chunk counts the chunk in.
LEMMA RegionAcquire ==
  ASSUME RegionInv, NEW c \in Chunks, Acquire(c)
  PROVE  RegionInv'
<1>1. /\ c \notin held /\ held' = held \cup {c} /\ Keep([Handle EXCEPT !.count = @ + 1])
      /\ UNCHANGED <<data, length, table, loading>> /\ UNCHANGED storageHistory
      /\ created' \in FileStates
  BY Zenon DEF Acquire, OpenRegion, FileStates
<1>2. Handle.count = Cardinality(held) /\ DOMAIN Handle = {"header", "headerDirty", "count", "sectors"}
  BY Zenon, HandleFacts
<1>3. /\ open' = TRUE /\ header' = Handle.header /\ headerDirty' = Handle.headerDirty
      /\ sectors' = Handle.sectors /\ count' = Handle.count + 1
  BY <1>1, <1>2 DEF Keep
<1>4. held \subseteq Chunks /\ IsFiniteSet(held)
  BY Zenon, RegionTypes, StorageBounds, FS_Subset
<1>5. count' = Cardinality(held') /\ held' \subseteq Chunks
  BY Zenon, <1>1, <1>2, <1>3, <1>4, FS_AddElement
<1>6. UNCHANGED <<saved, settled, synced, version>> /\ faults' = faults
  BY Zenon, <1>1 DEF storageHistory
<1>7. LoadsLastSave'
  BY Zenon, <1>1, <1>6 DEF RegionInv, LoadsLastSave
<1>8. loading' \in [Chunks -> LoadStates] /\ faults' \in 0..MaxFaults
  BY Zenon, <1>1, <1>6, HistoryTypes
<1>9. QED
  BY Zenon, <1>1, <1>3, <1>5, <1>6, <1>7, <1>8, RegionKeeps

\* A chunk in use: the region is open, and counts one less without the chunk.
LEMMA ReleasedCount ==
  ASSUME RegionInv, NEW c \in held
  PROVE  /\ open /\ count \in Nat /\ count = Cardinality(held)
         /\ Cardinality(held \ {c}) = count - 1 /\ (count <= 1 => held \ {c} = {})
<1>1. open /\ count = Cardinality(held)
  BY Zenon, HistoryTypes
<1>2. IsFiniteSet(held) /\ IsFiniteSet(held \ {c})
  BY Zenon, RegionTypes, StorageBounds, FS_Subset
<1>3. Cardinality(held \ {c}) = Cardinality(held) - 1
  BY Zenon, <1>2, FS_RemoveElement
<1>4. Cardinality(held) \in Nat /\ Cardinality(held \ {c}) \in Nat
  BY Zenon, <1>2, FS_CardinalityType
<1>5. count <= 1 => Cardinality(held \ {c}) = 0
  BY <1>1, <1>3, <1>4
<1>6. QED
  BY Zenon, <1>1, <1>2, <1>3, <1>4, <1>5, FS_EmptySet

\* release_chunk: the last one out writes a dirty table and closes the region.
LEMMA RegionRelease ==
  ASSUME RegionInv, NEW c \in Chunks, Release(c) \/ ReleaseFails(c)
  PROVE  RegionInv'
<1>1. /\ c \in held /\ ~loading[c].active /\ held' = held \ {c} /\ loading' = loading
      /\ UNCHANGED <<created, data, length, saved, version>>
  BY Zenon DEF Release, ReleaseFails, file
<1>2. /\ open /\ count \in Nat /\ Cardinality(held \ {c}) = count - 1
      /\ (count <= 1 => held \ {c} = {})
  BY Zenon, <1>1, ReleasedCount
<1>3. loading' \in [Chunks -> LoadStates]
  BY Zenon, <1>1, HistoryTypes
<1>4. CASE Release(c) /\ count > 1
  <2>1. /\ Keep([Handle EXCEPT !.count = @ - 1])
        /\ UNCHANGED <<table, synced>> /\ settled' = settled /\ faults' = faults
    BY Zenon, <1>4 DEF Release
  <2>2. Handle.count = count /\ DOMAIN Handle = {"header", "headerDirty", "count", "sectors"}
    BY <1>2 DEF Handle
  <2>3. /\ open' = TRUE /\ header' = Handle.header /\ headerDirty' = Handle.headerDirty
        /\ sectors' = Handle.sectors /\ count' = count - 1
    BY <2>1, <2>2 DEF Keep
  <2>4. LoadsLastSave'
    BY Zenon, <1>1, <2>1 DEF RegionInv, LoadsLastSave
  <2>5. held' \subseteq Chunks /\ faults' \in 0..MaxFaults /\ count' = Cardinality(held')
    BY Zenon, <1>1, <1>2, <2>1, <2>3, RegionTypes, HistoryTypes
  <2>6. created' \in FileStates /\ UNCHANGED <<data, length, table>>
    BY Zenon, <1>1, <2>1, RegionTypes
  <2>7. QED
    BY Zenon, <1>1, <1>3, <2>1, <2>3, <2>4, <2>5, <2>6, RegionKeeps
<1>5. ASSUME count <= 1 PROVE held' = {} /\ \A d \in Chunks : ~loading'[d].active
  BY Zenon, <1>1, <1>2, <1>5 DEF RegionInv, LoadsLastSave
<1>6. CASE Release(c) /\ ~(count > 1)
  <2>1. /\ Close /\ settled' = settled /\ faults' = faults
        /\ IF headerDirty THEN WriteHeader(header) ELSE UNCHANGED <<table, synced>>
    BY Zenon, <1>6 DEF Release
  <2>2. count <= 1
    BY <1>2, <1>6
  <2>3. faults' \in 0..MaxFaults
    BY Zenon, <2>1, HistoryTypes
  <2>4. QED
    BY Zenon, <1>1, <1>2, <1>3, <1>5, <2>1, <2>2, <2>3, RegionCloses
<1>7. CASE ReleaseFails(c)
  <2>1. Close /\ Forget /\ table' = table /\ count = 1 /\ Fault
    BY Zenon, <1>7 DEF ReleaseFails, file
  <2>2. count <= 1
    BY <2>1
  <2>3. QED
    BY Zenon, <1>1, <1>2, <1>3, <1>5, <2>1, <2>2, FaultCounts, RegionCloses
<1>8. QED
  BY Zenon, <1>4, <1>6, <1>7

\* close_all and a crash: nothing is acquired afterwards.
LEMMA RegionStops ==
  ASSUME RegionInv, CloseAll \/ Crash
  PROVE  RegionInv'
<1>1. CASE CloseAll
  <2>1. /\ open /\ Close /\ held' = {} /\ UNCHANGED <<created, data, length, saved, version>>
        /\ loading' = loading /\ faults' = faults /\ settled' = settled
        /\ \A c \in Chunks : ~loading[c].active
        /\ IF headerDirty THEN WriteHeader(header) ELSE UNCHANGED <<table, synced>>
    BY Zenon, <1>1 DEF CloseAll
  <2>2. loading' \in [Chunks -> LoadStates] /\ faults' \in 0..MaxFaults
    BY Zenon, <2>1, HistoryTypes
  <2>3. QED
    BY Zenon, <2>1, <2>2, RegionCloses
<1>2. CASE Crash
  <2>1. /\ open /\ Close /\ held' = {} /\ UNCHANGED <<created, data, length, saved, version>>
        /\ loading' = [c \in Chunks |-> NoLoad] /\ Fault /\ Forget /\ table' = table
    BY Zenon, <1>2 DEF Crash, file
  <2>2. NoLoad \in LoadStates /\ NoLoad.active = FALSE
    BY Numbers DEF NoLoad, LoadStates, NoEntry, Entries, Versions
  <2>3. loading' \in [Chunks -> LoadStates] /\ \A c \in Chunks : ~loading'[c].active
    BY Zenon, <2>1, <2>2
  <2>4. QED
    BY Zenon, <2>1, <2>3, FaultCounts, RegionCloses
<1>3. QED
  BY Zenon, <1>1, <1>2

\* An open region's handle is the one in memory.
LEMMA OpenHandle ==
  ASSUME open
  PROVE  /\ Handle.header = header /\ Handle.headerDirty = headerDirty /\ Handle.count = count
         /\ Handle.sectors = sectors
BY DEF Handle

\* load_chunk reads under the lock: a chunk that is in no doubt gives its last save.
LEMMA RegionRead ==
  ASSUME RegionInv, NEW c \in Chunks, ReadChunk(c)
  PROVE  RegionInv'
<1> DEFINE e == header[c]
           l == [active |-> TRUE, entry |-> e, payload |-> ReadEntry(e)]
<1>1. /\ c \in held /\ open /\ Exists(e) /\ loading' = [loading EXCEPT ![c] = l]
      /\ UNCHANGED <<data, length, table, open, header, headerDirty, count, sectors>>
      /\ UNCHANGED held /\ UNCHANGED <<saved, settled, synced, version>> /\ faults' = faults
      /\ created' \in FileStates
  BY Zenon, RegionTypes DEF ReadChunk, file, handle, storageHistory
<1>2. e \in Entries /\ e \in Live(header) /\ Valid(header, sectors)
  BY Zenon, <1>1, RegionTypes DEF Live, RegionInv, TablesValid
<1>3. e.offset \in Sectors
  <2>1. e.offset >= First /\ e.size # 0 /\ End(e) <= sectors
    BY Zenon, <1>2 DEF Valid
  <2>2. e.offset \in Nat /\ e.size \in Nat /\ sectors \in Nat /\ sectors <= MaxSectors
    BY Zenon, <1>2, RegionTypes, EntryNumbers
  <2> HIDE DEF e
  <2>3. QED
    BY <2>1, <2>2, Numbers DEF Sectors, End
<1>4. ReadEntry(e) \in Versions \cup {Garbage}
  <2>1. data[e.offset] \in Versions \cup {Garbage}
    BY Zenon, <1>3, RegionTypes
  <2> HIDE DEF e
  <2>2. QED
    BY Zenon, <1>1, <2>1 DEF ReadEntry
<1>5. l \in LoadStates /\ l.payload = ReadEntry(e)
  <2>1. e \in Entries /\ ReadEntry(e) \in Versions \cup {Garbage}
    BY Zenon, <1>2, <1>4
  <2> HIDE DEF e
  <2>2. QED
    BY <2>1 DEF LoadStates
<1>6. c \in settled => ReadEntry(e) = saved[c]
  BY Zenon, <1>1 DEF RegionInv, ReadsLastSave
<1> HIDE DEF l, e
<1>7. /\ loading' \in [Chunks -> LoadStates] /\ loading'[c] = l
      /\ \A d \in Chunks \ {c} : loading'[d] = loading[d]
  BY Zenon, <1>1, <1>5, HistoryTypes
<1>8. LoadsLastSave'
  <2> SUFFICES ASSUME NEW d \in Chunks, loading'[d].active
               PROVE  d \in held' /\ (d \in settled' => loading'[d].payload = saved'[d])
    BY Zenon DEF LoadsLastSave
  <2>1. CASE d = c
    BY Zenon, <1>1, <1>5, <1>6, <1>7, <2>1
  <2>2. CASE d # c
    BY Zenon, <1>1, <1>7, <2>2 DEF RegionInv, LoadsLastSave
  <2>3. QED
    BY Zenon, <2>1, <2>2
<1>9. /\ open' = TRUE /\ header' = Handle.header /\ headerDirty' = Handle.headerDirty
      /\ sectors' = Handle.sectors /\ count' = Cardinality(held') /\ held' \subseteq Chunks
      /\ faults' \in 0..MaxFaults
  BY Zenon, <1>1, OpenHandle, RegionTypes, HistoryTypes
<1>10. QED
  BY Zenon, <1>1, <1>7, <1>8, <1>9, RegionKeeps

\* A load is over, whatever became of it.
LEMMA LoadEnds ==
  ASSUME RegionInv, NEW c \in Chunks, loading[c].active, loading' = [loading EXCEPT ![c] = NoLoad]
  PROVE  /\ c \in held /\ open /\ loading' \in [Chunks -> LoadStates] /\ ~loading'[c].active
         /\ \A d \in Chunks \ {c} : loading'[d] = loading[d]
<1>1. NoLoad \in LoadStates /\ NoLoad.active = FALSE
  BY Numbers DEF NoLoad, LoadStates, NoEntry, Entries, Versions
<1>2. c \in held /\ open
  BY Zenon, HistoryTypes DEF RegionInv, LoadsLastSave
<1>3. QED
  BY Zenon, <1>1, <1>2, HistoryTypes

\* load_chunk decodes a payload, or throws a corrupt one away and writes the table without it.
LEMMA RegionLoaded ==
  ASSUME RegionInv, NEW c \in Chunks, Decoded(c) \/ DiscardCorrupt(c)
  PROVE  RegionInv'
<1>1. loading[c].active /\ loading' = [loading EXCEPT ![c] = NoLoad]
  BY Zenon DEF Decoded, DiscardCorrupt
<1>2. /\ c \in held /\ open /\ loading' \in [Chunks -> LoadStates] /\ ~loading'[c].active
      /\ \A d \in Chunks \ {c} : loading'[d] = loading[d]
  BY Zenon, <1>1, LoadEnds
<1>3. ASSUME UNCHANGED <<created, data, length, table>>, UNCHANGED <<open, header, headerDirty, count, sectors>>, held' = held,
             UNCHANGED <<saved, settled, synced, version>>, faults' \in 0..MaxFaults
      PROVE  RegionInv'
  <2>1. LoadsLastSave'
    BY Zenon, <1>2, <1>3 DEF RegionInv, LoadsLastSave
  <2>2. /\ open' = TRUE /\ header' = Handle.header /\ headerDirty' = Handle.headerDirty
        /\ sectors' = Handle.sectors /\ count' = Cardinality(held') /\ held' \subseteq Chunks
    BY Zenon, <1>2, <1>3, OpenHandle, RegionTypes, HistoryTypes
  <2>3. QED
    BY Zenon, <1>2, <1>3, <2>1, <2>2, RegionTypes, RegionKeeps
<1>4. CASE Decoded(c)
  BY Zenon, <1>3, <1>4, HistoryTypes DEF Decoded, file, handle, storageHistory
<1>5. CASE DiscardCorrupt(c) /\ Fault /\ UNCHANGED <<file, handle, held, saved, settled, synced, version>>
  BY Zenon, <1>3, <1>5, FaultCounts DEF file, handle
<1>6. CASE /\ header' = [header EXCEPT ![c] = NoEntry] /\ WriteHeader(header') /\ headerDirty' = FALSE
           /\ saved' = [saved EXCEPT ![c] = 0] /\ settled' = settled \cup {c}
           /\ UNCHANGED <<created, data, length, open, count, sectors, held, version, faults>>
  <2>1. /\ table' = header' /\ synced' = Chunks /\ settled' \subseteq Chunks
        /\ settled' \ {c} \subseteq settled
    BY Zenon, <1>6, RegionTypes DEF WriteHeader
  <2>2. /\ NoEntry \in Entries /\ ~Exists(NoEntry) /\ 0 \in Versions
    BY Numbers DEF NoEntry, Entries, Exists, Versions
  <2>3. /\ header' \in [Chunks -> Entries] /\ header'[c] = NoEntry
        /\ \A d \in Chunks \ {c} : header'[d] = header[d]
        /\ saved' \in [Chunks -> Versions] /\ saved'[c] = 0
        /\ \A d \in Chunks \ {c} : saved'[d] = saved[d]
    BY Zenon, <1>6, <2>2, RegionTypes
  <2>4. Valid(header, sectors) /\ sectors <= length
    BY Zenon, <1>2 DEF RegionInv, TablesValid, TableInv
  <2>5. Valid(header', sectors)
    <3>1. Live(header') \subseteq Live(header)
      BY Zenon, <2>2, <2>3 DEF Live
    <3>2. \A a, b \in Chunks : a # b /\ Exists(header'[a]) /\ Exists(header'[b]) =>
            Span(header'[a]) \cap Span(header'[b]) = {}
      BY Zenon, <2>2, <2>3, <2>4 DEF Valid
    <3>3. \A e \in Live(header') : e.offset >= First /\ e.size # 0 /\ End(e) <= sectors
      BY Zenon, <2>4, <3>1 DEF Valid
    <3>4. QED
      BY Zenon, <3>2, <3>3 DEF Valid
  <2>6. Valid(header', length)
    BY Zenon, <2>3, <2>4, <2>5, RegionTypes, ValidGrows
  <2>7. TablesValid'
    BY Zenon, <1>6, <2>1, <2>5, <2>6 DEF TablesValid
  <2>8. HeldIsOpen'
    <3>1. open' \in BOOLEAN /\ headerDirty' \in BOOLEAN /\ count' = Cardinality(held') /\ open'
      BY Zenon, <1>2, <1>6, RegionTypes, HistoryTypes
    <3>2. /\ data' \in [Sectors -> Versions \cup {Garbage}]
          /\ length' \in Nat /\ First <= length' /\ length' <= MaxSectors
          /\ sectors' \in Nat /\ sectors' <= MaxSectors /\ held' \subseteq Chunks
          /\ version' \in Versions /\ faults' \in 0..MaxFaults /\ created' \in FileStates
      BY Zenon, <1>6, RegionTypes, HistoryTypes
    <3>3. table' \in [Chunks -> Entries] /\ synced' \subseteq Chunks
      BY Zenon, <2>1, <2>3
    <3>4. QED
      BY Zenon, <1>2, <2>1, <2>3, <3>1, <3>2, <3>3, TypesNext
  <2>9. \A d \in settled' : ReadIn(data, header'[d]) = saved'[d]
    <3> SUFFICES ASSUME NEW d \in settled' PROVE ReadIn(data, header'[d]) = saved'[d]
      BY Zenon
    <3>1. CASE d = c
      BY Zenon, <2>2, <2>3, <3>1 DEF ReadIn
    <3>2. CASE d # c
      <4>1. d \in settled /\ d \in Chunks \ {c}
        BY Zenon, <2>1, <3>2
      <4>2. ReadIn(data, header[d]) = saved[d]
        BY Zenon, <1>2, <4>1, HandleFacts, OpenHandle
      <4>3. QED
        BY Zenon, <2>3, <4>1, <4>2
    <3>3. QED
      BY Zenon, <3>1, <3>2
  <2>10. ReadsLastSave'
    BY Zenon, <1>6, <2>1, <2>9, ReadsNext
  <2>11. TableInv'
    BY Zenon, <1>6, <2>1, <2>4 DEF TableInv
  <2>12. LoadsLastSave'
    BY ZenonT(40), <1>2, <1>6, <2>1, <2>3 DEF RegionInv, LoadsLastSave
  <2>13. QED
    BY Zenon, <2>7, <2>8, <2>10, <2>11, <2>12 DEF RegionInv
<1>7. QED
  BY Zenon, <1>4, <1>5, <1>6 DEF DiscardCorrupt

-----------------------------------------------------------------------------
(* The theorems.                                                           *)

\* The table create_region writes is empty, and so is the file's data.
LEMMA RegionInit == StorageInit => RegionInv
<1> SUFFICES ASSUME StorageInit PROVE RegionInv
  OBVIOUS
<1>1. NoTable \in [Chunks -> Entries] /\ NoLoad \in LoadStates /\ NoLoad.active = FALSE
  BY Numbers DEF NoTable, NoLoad, LoadStates, NoEntry, Entries, Versions
<1>2. Live(NoTable) = {} /\ \A c \in Chunks : ~Exists(NoTable[c])
  BY Zenon DEF Live, NoTable, NoEntry, Exists
<1>3. TablesValid
  BY Zenon, <1>2 DEF StorageInit, TablesValid, Valid
<1>4. StorageTypes
  <2>1. Cardinality(Chunks) \in Nat
    BY Zenon, StorageBounds, FS_CardinalityType
  <2>2. /\ 0 \in 0..Cardinality(Chunks) /\ 0 \in 0..MaxSectors /\ 0 \in Versions /\ 0 \in 0..MaxFaults
        /\ First \in First..MaxSectors
    BY <2>1, StorageBounds, Numbers DEF Versions
  <2>3. QED
    BY Zenon, <1>1, <2>2 DEF StorageInit, StorageTypes, LoadStates, FileStates
<1>5. ReadsLastSave
  BY Zenon, <1>2 DEF StorageInit, ReadsLastSave, ReadEntry
<1>6. TableInv
  <2>1. 0 <= First
    BY Numbers
  <2>2. QED
    BY Zenon, <2>1 DEF StorageInit, TableInv
<1>7. LoadsLastSave
  BY Zenon, <1>1 DEF StorageInit, LoadsLastSave
<1>8. QED
  BY Zenon, <1>3, <1>4, <1>5, <1>6, <1>7 DEF StorageInit, HeldIsOpen, RegionInv

\* Every operation, fault and crash keeps the invariant.
LEMMA RegionStep == RegionInv /\ [StorageNext]_storageVars => RegionInv'
<1> SUFFICES ASSUME RegionInv, [StorageNext]_storageVars PROVE RegionInv'
  OBVIOUS
<1>1. CASE UNCHANGED storageVars \/ CreateFails
  <2>1. /\ UNCHANGED <<data, length, table, open, header, headerDirty, count, sectors>>
        /\ UNCHANGED <<held, loading, saved, settled, synced, version>>
        /\ created' \in FileStates /\ faults' \in 0..MaxFaults
    BY Zenon, <1>1, RegionTypes, HistoryTypes, FaultCounts
       DEF CreateFails, storageVars, file, handle, storageHistory
  <2>2. HeldIsOpen' /\ LoadsLastSave' /\ TableInv' /\ TablesValid'
    BY Zenon, <2>1 DEF RegionInv, HeldIsOpen, StorageTypes, LoadsLastSave, TableInv, TablesValid
  <2>3. ReadsLastSave'
    <3>1. /\ \A c \in settled : ReadIn(data, IF open THEN header[c] ELSE table[c]) = saved[c]
          /\ \A c \in settled \cap synced : ReadIn(data, table[c]) = saved[c]
      BY Zenon DEF RegionInv, ReadsLastSave, ReadEntry, ReadIn
    <3>2. QED
      BY Zenon, <2>1, <3>1, ReadsNext
  <2>4. QED
    BY Zenon, <2>2, <2>3 DEF RegionInv
<1>2. ASSUME NEW c \in Chunks, Acquire(c) \/ Release(c) \/ ReleaseFails(c) PROVE RegionInv'
  BY Zenon, <1>2, RegionAcquire, RegionRelease
<1>3. ASSUME NEW c \in Chunks, NEW n \in 1..MaxSize,
             SaveChunkData(c, n) \/ SaveFails(c, n) \/ SaveHeaderFails(c, n)
      PROVE  RegionInv'
  BY Zenon, <1>3, RegionSave, RegionSaveFails
<1>4. ASSUME NEW c \in Chunks, ReadChunk(c) \/ Decoded(c) \/ DiscardCorrupt(c) PROVE RegionInv'
  BY Zenon, <1>4, RegionRead, RegionLoaded
<1>5. QED
  BY Zenon, <1>1, <1>2, <1>3, <1>4, RegionStops DEF StorageNext, OpenFails

\* A file that is not complete is given no handle and no payload.
LEMMA CreatedStep ==
  ASSUME RegionInv, CreatedInv, [StorageNext]_storageVars
  PROVE  CreatedInv'
<1>1. CASE CreateFails \/ OpenFails \/ UNCHANGED storageVars
  BY Zenon, <1>1 DEF CreatedInv, CreateFails, OpenFails, storageVars, file, handle, storageHistory
<1>2. ASSUME NEW c \in Chunks, Acquire(c) PROVE CreatedInv'
  BY Zenon, <1>2 DEF CreatedInv, Acquire, OpenRegion
<1>3. ASSUME NEW c \in Chunks, NEW n \in 1..MaxSize,
             SaveChunkData(c, n) \/ SaveFails(c, n) \/ SaveHeaderFails(c, n)
      PROVE  CreatedInv'
  BY Zenon, <1>3 DEF CreatedInv, SaveChunkData, SaveFails, SaveHeaderFails, CanSave, OpenRegion
<1>4. ASSUME NEW c \in Chunks,
             \/ Release(c) \/ ReleaseFails(c) \/ ReadChunk(c) \/ Decoded(c) \/ DiscardCorrupt(c)
      PROVE  CreatedInv'
  <2>1. open /\ created' = created
    BY Zenon, <1>4, HistoryTypes
       DEF Release, ReleaseFails, ReadChunk, Decoded, DiscardCorrupt, file,
           RegionInv, LoadsLastSave
  <2>2. QED
    BY Zenon, <2>1 DEF CreatedInv
<1>5. CASE CloseAll \/ Crash
  BY Zenon, <1>5 DEF CreatedInv, CloseAll, Crash, file
<1>6. QED
  BY Zenon, <1>1, <1>2, <1>3, <1>4, <1>5 DEF StorageNext

\* For any chunks, sizes and faults: once a region file is complete, the table on disk passes
\* validate_region_entries in every state, and so does the table in memory (find_free_sectors,
\* save_chunk_data, write_header); until then, and for ever if create_region was cut, the region
\* is not open and no save of a chunk in it has succeeded.
THEOREM RegionAlwaysOpens == StorageSpec => []RegionOpens
<1>1. StorageInit => CreatedInv
  BY Zenon DEF StorageInit, CreatedInv
<1>2. RegionInv /\ CreatedInv /\ [StorageNext]_storageVars => CreatedInv'
  BY Zenon, CreatedStep
<1>3. RegionInv /\ CreatedInv => RegionOpens
  BY Zenon, HistoryTypes DEF RegionInv, TablesValid, CreatedInv, RegionOpens
<1>4. QED
  BY RegionInit, RegionStep, <1>1, <1>2, <1>3, PTL DEF StorageSpec

\* For any chunks, sizes and faults: every chunk reads back as its last successful save wrote it,
\* through the table in memory or on disk, unless a failed save or a lost table has put it in
\* doubt since, and what was not saved since the table was written survives a crash
\* (save_chunk_data, release_chunk, close_all).
THEOREM RegionReadsSaves == StorageSpec => []ReadsLastSave
<1>1. RegionInv => ReadsLastSave
  BY Zenon DEF RegionInv
<1>2. QED
  BY RegionInit, RegionStep, <1>1, PTL DEF StorageSpec

\* For any chunks, sizes and faults: the count of an open region is the number of chunks in use,
\* and a region in use is open (acquire_chunk, release_chunk).
THEOREM RegionHeldIsOpen == StorageSpec => []HeldIsOpen
<1>1. RegionInv => HeldIsOpen
  BY Zenon DEF RegionInv
<1>2. QED
  BY RegionInit, RegionStep, <1>1, PTL DEF StorageSpec

\* For any chunks, sizes and faults: load_chunk never throws away, as corrupt, a chunk whose last
\* save succeeded and was not put in doubt since, although it decodes the payload after giving up
\* the lock (clear_corrupt_chunk_if_unchanged).
THEOREM RegionKeepsGoodSaves ==
  StorageSpec => [][\A c \in Chunks : DiscardCorrupt(c) => c \notin settled]_storageVars
<1>1. RegionInv => \A c \in Chunks : DiscardCorrupt(c) => c \notin settled
  <2> SUFFICES ASSUME RegionInv, NEW c \in Chunks, DiscardCorrupt(c), c \in settled PROVE FALSE
    BY Zenon
  <2>1. loading[c].payload = saved[c] /\ loading[c].payload = Garbage
    BY Zenon DEF RegionInv, LoadsLastSave, DiscardCorrupt
  <2>2. saved[c] \in Versions
    BY Zenon, RegionTypes
  <2>3. QED
    BY <2>1, <2>2, Numbers DEF Versions, Garbage
<1>2. QED
  BY RegionInit, RegionStep, <1>1, PTL DEF StorageSpec
=============================================================================
