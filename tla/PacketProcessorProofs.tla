-------------------- MODULE PacketProcessorProofs --------------------
(***************************************************************************)
(* Proofs about the packet processor, for any sessions, workers, worlds    *)
(* and limits: the inductive invariant of the packet queue and of the tick *)
(* boundary, facts about its states, the steps of the network tasks, of    *)
(* the workers and of the game thread, and the theorems they give.         *)
(***************************************************************************)
EXTENDS PacketProcessor, SequenceTheorems, FiniteSetTheorems, WellFoundedInduction, TLAPS

Busy == {w \in Workers : work[w] # NoWork}

LaneStates == [queued : Seq(Packets), active : BOOLEAN, packets : Nat]

\* Types of the queue, its lanes and its workers.
QueueTypes ==
    /\ phase \in {"Open", "Draining", "Closed", "Stopped"}
    /\ cutoff \in Nat /\ nextSequence \in Nat /\ cutoff <= nextSequence
    /\ lanes \in [Lanes -> LaneStates]
    /\ active \in Nat
    /\ serializedActive \in BOOLEAN /\ exclusiveActive \in BOOLEAN
    /\ worker \in [Workers -> WorkerStates]
    /\ work \in [Workers -> Packets \cup {NoWork}]
    /\ \A w \in Workers : worker[w] = "handling" <=> work[w] # NoWork

\* A lane holds packets of its session in the order of their sequence numbers,
\* all after the one in hand, and its budget counts exactly these.
LaneIsOrdered(k) ==
    /\ \A n \in 1..Len(lanes[k].queued) :
          lanes[k].queued[n].key = k /\ lanes[k].queued[n].sequence < nextSequence
    /\ \A m, n \in 1..Len(lanes[k].queued) :
          m < n => lanes[k].queued[m].sequence < lanes[k].queued[n].sequence
    /\ \A w \in Busy : work[w].key = k =>
          \A n \in 1..Len(lanes[k].queued) : work[w].sequence < lanes[k].queued[n].sequence

LaneIsCounted(k) ==
    /\ lanes[k].active <=> \E w \in Busy : work[w].key = k
    /\ lanes[k].active => lanes[k].packets = Len(lanes[k].queued) + 1
    /\ ~lanes[k].active => lanes[k].packets = Len(lanes[k].queued)
    /\ lanes[k].packets <= PacketLimit

LaneInv == \A k \in Lanes : LaneIsOrdered(k) /\ LaneIsCounted(k)

\* The heaps index the lanes.
HeapInv ==
    /\ ready \subseteq Packets /\ ordered \subseteq Packets
    /\ \A p \in Packets : p \in ready <=>
          \E k \in Lanes : /\ ~lanes[k].active /\ lanes[k].queued # <<>>
                          /\ p = lanes[k].queued[1]
    /\ \A p \in Packets : p \in ordered <=>
          p.execution # "PlayerLocal" /\ \E k \in Lanes : p \in Queued(k)

\* Workers hold packets of different sessions, at most one serialized one, and an
\* exclusive one alone; the counter and the flags say so.
HandInv ==
    /\ active = Cardinality(Busy)
    /\ \A w \in Busy : work[w].sequence < nextSequence
    /\ \A v, w \in Busy : v # w =>
          /\ work[v].key # work[w].key
          /\ work[v].execution # "Exclusive"
          /\ ~(work[v].execution = "Serialized" /\ work[w].execution = "Serialized")
    /\ serializedActive <=> \E w \in Busy : work[w].execution = "Serialized"
    /\ exclusiveActive <=> \E w \in Busy : work[w].execution = "Exclusive"

\* The phase of the queue follows the loop, and worlds tick only while it is shut.
PhaseInv ==
    /\ loop \in {"draining", "awaitIdle", "drained"} => phase = "Draining"
    /\ loop \in {"boundary", "worlds"} => phase = "Closed"
    /\ phase = "Stopped" <=> loop = "ended"
    /\ ticking # {} => loop \in {"worlds", "shutdown", "ended"} /\ phase \in {"Closed", "Stopped"}

ProcessorInv ==
    /\ QueueTypes /\ LaneInv /\ HeapInv /\ HandInv /\ PhaseInv
    /\ StartedInOrder /\ TickIsIsolated

-----------------------------------------------------------------------------
(* Facts about states                                                      *)

\* A heap that is not empty has a head.
LEMMA EarliestExists ==
    ASSUME NEW S \in SUBSET Packets, S # {}
    PROVE  Earliest(S) # {}
<1> DEFINE T == {p.sequence : p \in S}
<1>1. T \subseteq Nat /\ T # {}
  BY Zenon DEF Packets
<1> HIDE DEF T
<1>2. PICK n \in T : \A m \in T : n <= m
  <2> DEFINE R == OpToRel(<, Nat)
  <2>1. R = {r \in Nat \X Nat : r[1] < r[2]}
    BY Zenon DEF OpToRel
  <2>2. IsWellFoundedOn(R, Nat)
    BY NatLessThanWellFounded, Zenon
  <2> HIDE DEF R
  <2>3. PICK n \in T : \A m \in T : ~(<<m, n>> \in R)
    BY <1>1, <2>2, WFMin, Zenon
  <2>4. \A a, b \in Nat : a < b => <<a, b>> \in R
    BY Zenon, <2>1
  <2>5. ASSUME NEW m \in T PROVE n <= m
    <3>1. m \in Nat /\ n \in Nat
      BY Zenon, <1>1
    <3>2. ~(m < n)
      BY <2>3, <2>4, <3>1, Zenon
    <3>3. QED
      BY <3>1, <3>2
  <2>6. QED
    BY Zenon, <2>5
<1>3. PICK p \in S : p.sequence = n
  BY Zenon DEF T
<1>4. p \in Earliest(S)
  BY Zenon, <1>2, <1>3 DEF Earliest, T
<1>5. QED
  BY Zenon, <1>4

\* A lane is a sequence of packets of its session with known numbers.
LEMMA LaneFacts ==
    ASSUME QueueTypes, LaneInv, NEW k \in Lanes
    PROVE  /\ lanes[k].queued \in Seq(Packets) /\ Len(lanes[k].queued) \in Nat
           /\ lanes[k].active \in BOOLEAN /\ lanes[k].packets \in Nat
           /\ \A n \in 1..Len(lanes[k].queued) :
                 /\ lanes[k].queued[n] \in Packets /\ lanes[k].queued[n].sequence \in Nat
                 /\ lanes[k].queued[n].key = k /\ lanes[k].queued[n].sequence < nextSequence
<1>1. lanes[k].queued \in Seq(Packets) /\ lanes[k].packets \in Nat
  BY Zenon DEF QueueTypes, LaneStates
<1>2. lanes[k].active \in BOOLEAN
  BY Zenon DEF QueueTypes, LaneStates
<1>3. Len(lanes[k].queued) \in Nat
  BY <1>1
<1>4. ASSUME NEW n \in 1..Len(lanes[k].queued)
      PROVE  lanes[k].queued[n] \in Packets /\ lanes[k].queued[n].sequence \in Nat
  <2>1. lanes[k].queued[n] \in Packets
    BY Zenon, <1>1, ElementOfSeq
  <2>2. QED
    BY Zenon, <2>1 DEF Packets
<1>5. QED
  BY Zenon, <1>1, <1>2, <1>3, <1>4 DEF LaneInv, LaneIsOrdered, LaneIsCounted

\* The first packet of a lane is its earliest.
LEMMA FrontIsEarliest ==
    ASSUME QueueTypes, LaneInv, NEW k \in Lanes, NEW q \in Queued(k)
    PROVE  /\ lanes[k].queued # <<>> /\ lanes[k].queued[1] \in Packets
           /\ lanes[k].queued[1] \in Queued(k)
           /\ lanes[k].queued[1].sequence <= q.sequence
           /\ q \in Packets /\ q.key = k
<1>1. lanes[k].queued \in Seq(Packets)
  BY Zenon DEF QueueTypes, LaneStates
<1>2. PICK n \in 1..Len(lanes[k].queued) : q = lanes[k].queued[n]
  BY Zenon DEF Queued
<1>3. /\ Len(lanes[k].queued) \in Nat /\ 1 \in 1..Len(lanes[k].queued)
      /\ lanes[k].queued # <<>>
  BY <1>1, <1>2
<1>4. lanes[k].queued[1] \in Packets /\ q \in Packets
  BY Zenon, <1>1, <1>2, <1>3, ElementOfSeq
<1>5. lanes[k].queued[1].sequence \in Nat /\ q.sequence \in Nat
  BY Zenon, <1>4 DEF Packets
<1>6. lanes[k].queued[1].sequence <= q.sequence
  <2>1. CASE n = 1
    BY SMTT(30), <1>2, <1>5, <2>1
  <2>2. CASE n # 1
    <3>1. 1 < n
      BY <1>3, <2>2
    <3>2. lanes[k].queued[1].sequence < lanes[k].queued[n].sequence
      BY Zenon, <1>3, <3>1 DEF LaneInv, LaneIsOrdered
    <3>3. QED
      BY <1>2, <1>5, <3>2
  <2>3. QED
    BY Zenon, <2>1, <2>2
<1>7. QED
  BY Zenon, <1>2, <1>3, <1>4, <1>6 DEF Queued, LaneInv, LaneIsOrdered

\* The packets in hand are those of the busy workers.
LEMMA HandlingIsBusy ==
    ASSUME QueueTypes
    PROVE  Handling = {work[w] : w \in Busy}
BY Zenon DEF QueueTypes, Handling, Busy

\* The count of packets in hand is zero exactly when no worker is busy.
LEMMA BusyFinite ==
    ASSUME HandInv
    PROVE  /\ IsFiniteSet(Busy)
           /\ active = 0 <=> Busy = {}
<1>1. IsFiniteSet(Busy)
  BY Zenon, ProcessorAssumption, FS_Subset DEF Busy
<1>2. QED
  BY Zenon, <1>1, FS_EmptySet DEF HandInv

\* The invariant holds when the server starts.
LEMMA ProcessorInit == Init => ProcessorInv
<1> SUFFICES ASSUME Init PROVE ProcessorInv
  BY Zenon
<1>1. QueueTypes
  <2>1. EmptyLane \in LaneStates
    BY DEF EmptyLane, LaneStates
  <2>2. QED
    <3>1. /\ lanes \in [Lanes -> LaneStates]
          /\ work \in [Workers -> Packets \cup {NoWork}]
          /\ worker \in [Workers -> WorkerStates]
          /\ \A w \in Workers : worker[w] = "next" /\ work[w] = NoWork
      BY Zenon, <2>1 DEF Init, WorkerStates
    <3>2. serializedActive \in BOOLEAN /\ exclusiveActive \in BOOLEAN
      BY Zenon DEF Init
    <3>3. /\ phase \in {"Open", "Draining", "Closed", "Stopped"} /\ active \in Nat
          /\ cutoff \in Nat /\ nextSequence \in Nat /\ cutoff <= nextSequence
      BY DEF Init
    <3>4. QED
      BY Zenon, <3>1, <3>2, <3>3 DEF QueueTypes
<1>2. Busy = {} /\ Handling = {} /\ \A k \in Lanes : Queued(k) = {}
  BY DEF Init, Busy, Handling, Queued, EmptyLane
<1>3. LaneInv
  BY <1>2, ProcessorAssumption DEF Init, LaneInv, LaneIsOrdered, LaneIsCounted, EmptyLane
<1>4. HeapInv
  BY Zenon, <1>2 DEF Init, HeapInv, EmptyLane
<1>5. HandInv
  BY Zenon, <1>2, FS_EmptySet DEF Init, HandInv
<1>6. PhaseInv /\ StartedInOrder /\ TickIsIsolated
  BY Zenon, <1>2 DEF Init, PhaseInv, StartedInOrder, TickIsIsolated, AllQueued
<1>7. QED
  BY Zenon, <1>1, <1>3, <1>4, <1>5, <1>6 DEF ProcessorInv

\* Lanes, heaps and hands are left alone, and no worker takes or drops its work.
LEMMA QueueKept ==
    ASSUME ProcessorInv,
           UNCHANGED <<lanes, heaps, nextSequence, active, serializedActive, exclusiveActive,
                       work>>,
           worker' \in [Workers -> WorkerStates],
           \A w \in Workers : worker'[w] = "handling" <=> worker[w] = "handling",
           phase' \in {"Open", "Draining", "Closed", "Stopped"},
           cutoff' \in Nat, cutoff' <= nextSequence
    PROVE  /\ QueueTypes' /\ LaneInv' /\ HeapInv' /\ HandInv' /\ StartedInOrder'
           /\ Handling' = Handling /\ AllQueued' = AllQueued
<1>1. QueueTypes'
  BY Zenon DEF ProcessorInv, QueueTypes
<1>2. Busy' = Busy /\ \A k \in Lanes : Queued(k)' = Queued(k)
  BY Zenon DEF Busy, Queued
<1>3. Handling' = Handling /\ AllQueued' = AllQueued
  BY Zenon, <1>2 DEF Handling, AllQueued
<1>4. LaneInv'
  BY <1>2 DEF ProcessorInv, LaneInv, LaneIsOrdered, LaneIsCounted
<1>5. HeapInv'
  BY ZenonT(40), <1>2 DEF ProcessorInv, HeapInv, heaps
<1>6. HandInv'
  BY <1>2 DEF ProcessorInv, HandInv
<1>7. StartedInOrder'
  BY Zenon, <1>3 DEF ProcessorInv, StartedInOrder
<1>8. QED
  BY Zenon, <1>1, <1>3, <1>4, <1>5, <1>6, <1>7

\* Notifications move workers between waiting and next only.
LEMMA Notified ==
    ASSUME NEW ws \in [Workers -> WorkerStates],
           NEW vs \in NotifyOne(ws) \cup NotifyAll(ws) \cup {ws}
    PROVE  /\ vs \in [Workers -> WorkerStates]
           /\ \A w \in Workers : vs[w] = "handling" <=> ws[w] = "handling"
BY Zenon DEF NotifyOne, NotifyAll, Waiting, WorkerStates

-----------------------------------------------------------------------------
(* Network tasks                                                           *)

\* A new packet is the last of its lane and later than every packet so far.
LEMMA SubmitKeeps ==
    ASSUME ProcessorInv, NEW k \in Lanes, NEW e \in Executions, Submit(k, e)
    PROVE  ProcessorInv'
<1> DEFINE p == [sequence |-> nextSequence, key |-> k, execution |-> e]
           L == lanes[k].queued
<1> USE DEF ProcessorInv
<1>1. /\ p \in Packets /\ p.sequence = nextSequence /\ p.key = k /\ p.execution = e
      /\ nextSequence \in Nat /\ nextSequence' = nextSequence + 1
  BY Zenon DEF QueueTypes, Packets, Submit
<1>2. L \in Seq(Packets) /\ Len(L) \in Nat
  BY Zenon, LaneFacts
<1>3. /\ Append(L, p) \in Seq(Packets)
      /\ Len(Append(L, p)) = Len(L) + 1
      /\ \A n \in 1..Len(L) : Append(L, p)[n] = L[n]
      /\ Append(L, p)[Len(L) + 1] = p
  BY SMTT(30), <1>1, <1>2, AppendProperties
<1>4. /\ lanes' \in [Lanes -> LaneStates]
      /\ lanes'[k].queued = Append(L, p)
      /\ lanes'[k].active = lanes[k].active
      /\ lanes'[k].packets = lanes[k].packets + 1
      /\ \A j \in Lanes : j # k => lanes'[j] = lanes[j]
  <2>1. lanes' = [lanes EXCEPT ![k].queued = Append(@, p), ![k].packets = @ + 1]
    BY Zenon DEF Submit
  <2>2. QED
    BY <1>3, <2>1, SMTT(90) DEF QueueTypes, LaneStates
<1> HIDE DEF p
<1>5. /\ worker' \in [Workers -> WorkerStates]
      /\ \A w \in Workers : worker'[w] = "handling" <=> worker[w] = "handling"
  <2>1. worker \in [Workers -> WorkerStates]
    BY Zenon DEF QueueTypes
  <2>2. worker' \in NotifyOne(worker) \cup NotifyAll(worker) \cup {worker}
    BY Zenon DEF Submit
  <2>3. QED
    BY Zenon, <2>1, <2>2, Notified
<1>6. /\ UNCHANGED <<phase, cutoff, active, serializedActive, exclusiveActive, work, loop, ticking>>
      /\ Busy' = Busy
  BY Zenon DEF Submit, flags, tickVars, Busy
<1>7. QueueTypes'
  BY <1>1, <1>4, <1>5, <1>6 DEF QueueTypes
<1>8. /\ \A j \in Lanes : Queued(j)' = IF j = k THEN Queued(k) \cup {p} ELSE Queued(j)
      /\ Handling' = Handling
      /\ AllQueued' = AllQueued \cup {p}
  <2>1. ASSUME NEW j \in Lanes, j # k PROVE Queued(j)' = Queued(j)
    BY Zenon, <1>4, <2>1 DEF Queued
  <2>2. Queued(k)' = Queued(k) \cup {p}
    <3>1. 1..(Len(L) + 1) = 1..Len(L) \cup {Len(L) + 1}
      BY <1>2
    <3>2. QED
      BY <1>3, <1>4, <3>1 DEF Queued
  <2>3. Handling' = Handling
    BY Zenon, <1>5, <1>6 DEF Handling
  <2>4. QED
    BY Zenon, <2>1, <2>2, <2>3 DEF AllQueued
<1>9. LaneInv'
  <2>1. ASSUME NEW j \in Lanes, j # k PROVE LaneIsOrdered(j)' /\ LaneIsCounted(j)'
    <3>1. lanes'[j] = lanes[j] /\ LaneIsOrdered(j) /\ LaneIsCounted(j)
      BY Zenon, <1>4, <2>1 DEF LaneInv
    <3>2. \A n \in 1..Len(lanes[j].queued) : lanes[j].queued[n].sequence < nextSequence'
      <4>1. \A n \in 1..Len(lanes[j].queued) :
               lanes[j].queued[n].sequence \in Nat /\ lanes[j].queued[n].sequence < nextSequence
        BY Zenon, LaneFacts
      <4>2. QED
        BY SMTT(30), <1>1, <4>1
    <3>3. QED
      BY Zenon, <1>6, <3>1, <3>2 DEF LaneIsOrdered, LaneIsCounted
  <2>2. LaneIsOrdered(k)'
    <3> DEFINE M == lanes'[k].queued
    <3>1. /\ Len(M) = Len(L) + 1 /\ M[Len(L) + 1] = p
          /\ \A n \in 1..Len(L) : M[n] = L[n]
      BY Zenon, <1>3, <1>4
    <3>2. \A n \in 1..Len(L) : L[n].sequence \in Nat /\ L[n].sequence < nextSequence /\ L[n].key = k
      BY Zenon, LaneFacts
    <3>3. LaneIsOrdered(k)
      BY Zenon DEF LaneInv
    <3>4. \A n \in 1..Len(M) : n \in 1..Len(L) \/ n = Len(L) + 1
      BY SMTT(30), <1>2, <3>1
    <3> HIDE DEF M
    <3>5. \A n \in 1..Len(M) : M[n].key = k /\ M[n].sequence < nextSequence'
      BY SMTT(30), <1>1, <3>1, <3>2, <3>4
    <3>6. ASSUME NEW m \in 1..Len(M), NEW n \in 1..Len(M), m < n
          PROVE  M[m].sequence < M[n].sequence
      <4>1. m \in 1..Len(L)
        BY <1>2, <3>1, <3>6
      <4>2. CASE n = Len(L) + 1
        BY Zenon, <1>1, <3>1, <3>2, <4>1, <4>2
      <4>3. CASE n \in 1..Len(L)
        BY <3>1, <3>3, <3>6, <4>1, <4>3, Zenon DEF LaneIsOrdered
      <4>4. QED
        BY Zenon, <3>4, <4>2, <4>3
    <3>7. ASSUME NEW w \in Busy, work[w].key = k, NEW n \in 1..Len(M)
          PROVE  work[w].sequence < M[n].sequence
      <4>1. CASE n = Len(L) + 1
        BY Zenon, <1>1, <3>1, <4>1 DEF HandInv
      <4>2. CASE n \in 1..Len(L)
        BY Zenon, <3>1, <3>3, <3>7, <4>2 DEF LaneIsOrdered
      <4>3. QED
        BY Zenon, <3>4, <4>1, <4>2
    <3>8. QED
      BY <1>6, <3>5, <3>6, <3>7, Zenon DEF LaneIsOrdered, M
  <2>3. LaneIsCounted(k)'
    <3>1. lanes[k].packets < PacketLimit /\ PacketLimit \in Nat
      BY Zenon, ProcessorAssumption DEF Submit
    <3>2. Len(lanes'[k].queued) = Len(L) + 1
      BY Zenon, <1>3, <1>4
    <3>3. /\ lanes'[k].active => lanes'[k].packets = Len(lanes'[k].queued) + 1
          /\ ~lanes'[k].active => lanes'[k].packets = Len(lanes'[k].queued)
      BY Zenon, <1>2, <1>4, <3>2 DEF LaneInv, LaneIsCounted
    <3>4. lanes'[k].packets <= PacketLimit
      BY SMTT(30), <1>4, <3>1, LaneFacts
    <3>5. lanes'[k].active <=> \E w \in Busy' : work'[w].key = k
      BY Zenon, <1>4, <1>6 DEF LaneInv, LaneIsCounted
    <3>6. QED
      BY Zenon, <3>3, <3>4, <3>5 DEF LaneIsCounted
  <2>4. QED
    BY Zenon, <2>1, <2>2, <2>3 DEF LaneInv
<1>10. HeapInv'
  <2>1. ready' = IF ~lanes[k].active /\ L = <<>> THEN ready \cup {p} ELSE ready
    BY Zenon DEF Submit, p
  <2>2. ordered' = IF e = "PlayerLocal" THEN ordered ELSE ordered \cup {p}
    BY Zenon DEF Submit, p
  <2>3. ready' \subseteq Packets /\ ordered' \subseteq Packets
    BY Zenon, <1>1, <2>1, <2>2 DEF HeapInv
  <2>4. lanes'[k].queued # <<>> /\ lanes'[k].queued[1] = IF L = <<>> THEN p ELSE L[1]
    BY SMTT(30), <1>2, <1>3, <1>4
  <2>5. ASSUME NEW q \in Packets
        PROVE  q \in ready' <=> \E j \in Lanes : /\ ~lanes'[j].active /\ lanes'[j].queued # <<>>
                                                 /\ q = lanes'[j].queued[1]
    <3>1. q \in ready <=> \E j \in Lanes : /\ ~lanes[j].active /\ lanes[j].queued # <<>>
                                            /\ q = lanes[j].queued[1]
      BY Zenon DEF HeapInv
    <3>2. QED
      BY Zenon, <1>4, <2>1, <2>4, <3>1
  <2>6. ASSUME NEW q \in Packets
        PROVE  q \in ordered' <=>
                   q.execution # "PlayerLocal" /\ \E j \in Lanes : q \in Queued(j)'
    <3>1. q \in ordered <=> q.execution # "PlayerLocal" /\ \E j \in Lanes : q \in Queued(j)
      BY Zenon DEF HeapInv
    <3>2. (\E j \in Lanes : q \in Queued(j)') <=> (q = p \/ \E j \in Lanes : q \in Queued(j))
      BY Zenon, <1>8
    <3>3. QED
      BY Zenon, <1>1, <2>2, <3>1, <3>2
  <2>7. QED
    BY Zenon, <2>3, <2>5, <2>6 DEF HeapInv
<1>11. HandInv'
  <2>1. \A w \in Busy : work[w].sequence \in Nat /\ work[w].sequence < nextSequence
    BY Zenon DEF HandInv, QueueTypes, Busy, Packets
  <2>2. \A w \in Busy' : work'[w].sequence < nextSequence'
    BY SMTT(30), <1>1, <1>6, <2>1
  <2>3. QED
    BY SMTT(30), <1>6, <2>2 DEF HandInv
<1>12. StartedInOrder'
  <2>1. ASSUME NEW q \in Handling PROVE ~(nextSequence < q.sequence)
    <3>1. PICK w \in Busy : q = work[w]
      BY Zenon, HandlingIsBusy
    <3>2. q.sequence \in Nat /\ q.sequence < nextSequence
      BY Zenon, <3>1 DEF HandInv, QueueTypes, Busy, Packets
    <3>3. QED
      BY SMTT(30), <1>1, <3>2
  <2>2. QED
    BY Zenon, <1>1, <1>8, <2>1 DEF StartedInOrder
<1>13. PhaseInv'
  BY Zenon, <1>6 DEF PhaseInv
<1>14. TickIsIsolated'
  <2>1. nextSequence >= cutoff
    BY Zenon DEF QueueTypes
  <2>2. QED
    BY Zenon, <1>1, <1>6, <1>8, <2>1 DEF TickIsIsolated
<1>15. QED
  BY Zenon, <1>7, <1>9, <1>10, <1>11, <1>12, <1>13, <1>14
\* Nothing starts or arrives and the loop stays where it is.
LEMMA BoundaryKept ==
    ASSUME ProcessorInv, UNCHANGED <<phase, cutoff, loop, ticking>>,
           Handling' = Handling, AllQueued' \subseteq AllQueued
    PROVE  PhaseInv' /\ TickIsIsolated'
BY Zenon DEF ProcessorInv, PhaseInv, TickIsIsolated

\* A lane without its queue counts the packet in hand only.
LEMMA DiscardedLane ==
    ASSUME QueueTypes, LaneInv, NEW k \in Lanes
    PROVE  /\ Discarded(lanes[k]) \in LaneStates
           /\ Discarded(lanes[k]).queued = <<>>
           /\ (Discarded(lanes[k]).active <=> lanes[k].active)
           /\ lanes[k].active => Discarded(lanes[k]).packets = 1
           /\ ~lanes[k].active => Discarded(lanes[k]).packets = 0
<1>1. CASE lanes[k].active
  <2>1. lanes[k].packets - Len(lanes[k].queued) = 1
    BY <1>1, LaneFacts DEF LaneInv, LaneIsCounted
  <2>2. Discarded(lanes[k]) = [queued |-> <<>>, active |-> TRUE, packets |-> 1]
    BY <1>1, <2>1, Zenon DEF Discarded
  <2>3. lanes[k].active = TRUE
    BY Zenon, <1>1, LaneFacts
  <2>4. [queued |-> <<>>, active |-> TRUE, packets |-> 1] \in LaneStates
    BY DEF LaneStates
  <2>5. (Discarded(lanes[k]).active <=> lanes[k].active)
    BY SMTT(30), <2>2, <2>3
  <2>6. QED
    BY SMTT(30), <1>1, <2>2, <2>4, <2>5
<1>2. CASE ~lanes[k].active
  <2>1. Discarded(lanes[k]) = [queued |-> <<>>, active |-> FALSE, packets |-> 0]
    BY Zenon, <1>2 DEF Discarded, EmptyLane
  <2>2. lanes[k].active = FALSE
    BY Zenon, <1>2, LaneFacts
  <2>3. [queued |-> <<>>, active |-> FALSE, packets |-> 0] \in LaneStates
    BY DEF LaneStates
  <2>4. (Discarded(lanes[k]).active <=> lanes[k].active)
    BY SMTT(30), <2>1, <2>2
  <2>5. QED
    BY SMTT(30), <1>2, <2>1, <2>3, <2>4
<1>3. QED
  BY Zenon, <1>1, <1>2

\* discard_lane and stop: the lanes in D lose what they have queued.
Emptied(D) ==
    /\ lanes' \in [Lanes -> LaneStates]
    /\ \A k \in Lanes \ D : lanes'[k] = lanes[k]
    /\ \A k \in D : /\ lanes'[k].queued = <<>> /\ (lanes'[k].active <=> lanes[k].active)
                    /\ lanes[k].active => lanes'[k].packets = 1
                    /\ ~lanes[k].active => lanes'[k].packets = 0
    /\ ready' = {p \in ready : p.key \notin D}
    /\ ordered' = {p \in ordered : p.key \notin D}
    /\ UNCHANGED <<cutoff, nextSequence, flags, work>>
    /\ phase' \in {"Open", "Draining", "Closed", "Stopped"}
    /\ worker' \in NotifyOne(worker) \cup NotifyAll(worker) \cup {worker}

\* Emptying lanes keeps the invariant of the queue.
LEMMA LanesEmptied ==
    ASSUME ProcessorInv, NEW D \in SUBSET Lanes, Emptied(D)
    PROVE  /\ QueueTypes' /\ LaneInv' /\ HeapInv' /\ HandInv' /\ StartedInOrder'
           /\ Handling' = Handling /\ AllQueued' \subseteq AllQueued
<1> USE DEF ProcessorInv, Emptied
<1>1. /\ worker' \in [Workers -> WorkerStates]
      /\ \A w \in Workers : worker'[w] = "handling" <=> worker[w] = "handling"
  <2>1. worker \in [Workers -> WorkerStates]
    BY Zenon DEF QueueTypes
  <2>2. QED
    BY Zenon, <2>1, Notified
<1>2. QueueTypes'
  BY Zenon, <1>1 DEF QueueTypes, flags
<1>3. Busy' = Busy /\ Handling' = Handling
  BY SMTT(30), <1>1 DEF Busy, Handling
<1>4. /\ \A k \in D : Queued(k)' = {}
      /\ \A k \in Lanes \ D : Queued(k)' = Queued(k)
  BY DEF Queued
<1>5. AllQueued' \subseteq AllQueued
  <2>1. \A k \in Lanes : Queued(k)' \subseteq Queued(k)
    BY Zenon, <1>4
  <2>2. QED
    BY SMTT(30), <2>1 DEF AllQueued
<1>6. LaneInv'
  <2>1. ASSUME NEW k \in Lanes \ D PROVE LaneIsOrdered(k)' /\ LaneIsCounted(k)'
    BY SMTT(30), <1>3 DEF LaneInv, LaneIsOrdered, LaneIsCounted
  <2>2. ASSUME NEW k \in D PROVE LaneIsOrdered(k)' /\ LaneIsCounted(k)'
    <3>1. lanes'[k].queued = <<>> /\ Len(lanes'[k].queued) = 0 /\ 1..0 = {}
      BY SMTT(30)
    <3>2. LaneIsOrdered(k)'
      BY Zenon, <3>1 DEF LaneIsOrdered
    <3>3. /\ lanes'[k].active => lanes'[k].packets = Len(lanes'[k].queued) + 1
          /\ ~lanes'[k].active => lanes'[k].packets = Len(lanes'[k].queued)
      BY SMTT(30), <3>1
    <3>4. lanes'[k].active <=> \E w \in Busy' : work'[w].key = k
      BY Zenon, <1>3 DEF LaneInv, LaneIsCounted
    <3>5. lanes'[k].packets <= PacketLimit
      <4>1. /\ lanes[k].packets \in Nat /\ Len(lanes[k].queued) \in Nat
            /\ lanes[k].packets <= PacketLimit /\ PacketLimit \in Nat
            /\ lanes[k].active => lanes[k].packets = Len(lanes[k].queued) + 1
        BY Zenon, LaneFacts, ProcessorAssumption DEF LaneInv, LaneIsCounted
      <4>2. lanes'[k].packets = 0 \/ (lanes[k].active /\ lanes'[k].packets = 1)
        BY Zenon
      <4>3. QED
        BY SMTT(30), <4>1, <4>2
    <3>6. QED
      BY ZenonT(40), <3>2, <3>3, <3>4, <3>5 DEF LaneIsCounted
  <2>3. QED
    BY Zenon, <2>1, <2>2 DEF LaneInv
<1>7. HeapInv'
  <2>1. \A k \in Lanes : lanes[k].queued # <<>> => lanes[k].queued[1].key = k
    BY SMTT(30), LaneFacts
  <2>2. ASSUME NEW q \in Packets
        PROVE  q \in ready' <=> \E k \in Lanes : /\ ~lanes'[k].active /\ lanes'[k].queued # <<>>
                                                 /\ q = lanes'[k].queued[1]
    <3>1. q \in ready <=> \E k \in Lanes : /\ ~lanes[k].active /\ lanes[k].queued # <<>>
                                            /\ q = lanes[k].queued[1]
      BY Zenon DEF HeapInv
    <3>2. ASSUME NEW k \in Lanes, ~lanes[k].active, lanes[k].queued # <<>>, q = lanes[k].queued[1],
                 q.key \notin D
          PROVE  ~lanes'[k].active /\ lanes'[k].queued # <<>> /\ q = lanes'[k].queued[1]
      <4>1. k \in Lanes \ D
        BY Zenon, <2>1, <3>2
      <4>2. lanes'[k] = lanes[k]
        BY Zenon, <4>1
      <4>3. QED
        BY Zenon, <3>2, <4>2
    <3>3. ASSUME NEW k \in Lanes, ~lanes'[k].active, lanes'[k].queued # <<>>,
                 q = lanes'[k].queued[1]
          PROVE  /\ ~lanes[k].active /\ lanes[k].queued # <<>> /\ q = lanes[k].queued[1]
                 /\ q.key \notin D
      <4>1. k \in Lanes \ D
        BY Zenon, <3>3
      <4>2. lanes'[k] = lanes[k]
        BY <4>1
      <4>3. QED
        BY SMTT(30), <2>1, <3>3, <4>1, <4>2
    <3>4. QED
      BY Zenon, <3>1, <3>2, <3>3
  <2>3. ASSUME NEW q \in Packets
        PROVE  q \in ordered' <=>
                   q.execution # "PlayerLocal" /\ \E k \in Lanes : q \in Queued(k)'
    <3>1. q \in ordered <=> q.execution # "PlayerLocal" /\ \E k \in Lanes : q \in Queued(k)
      BY Zenon DEF HeapInv
    <3>2. \A k \in Lanes : q \in Queued(k) => q.key = k
      BY Zenon, FrontIsEarliest
    <3>3. QED
      BY Zenon, <1>4, <3>1, <3>2
  <2>4. QED
    BY <2>2, <2>3, Zenon DEF HeapInv
<1>8. HandInv'
  BY SMTT(30), <1>3 DEF HandInv, flags
<1>9. StartedInOrder'
  BY Zenon, <1>3, <1>5 DEF StartedInOrder
<1>10. QED
  BY Zenon, <1>2, <1>3, <1>5, <1>6, <1>7, <1>8, <1>9

\* A discarded lane keeps the packet in hand only.
LEMMA DiscardKeeps ==
    ASSUME ProcessorInv, NEW k \in Lanes, DiscardLane(k),
           UNCHANGED <<phase, cutoff, nextSequence, flags, work, tickVars>>
    PROVE  ProcessorInv'
<1> USE DEF ProcessorInv
<1>1. CASE lanes[k].queued = <<>>
  <2>1. UNCHANGED <<lanes, heaps, worker>>
    BY Zenon, <1>1 DEF DiscardLane
  <2>2. /\ QueueTypes' /\ LaneInv' /\ HeapInv' /\ HandInv' /\ StartedInOrder'
        /\ Handling' = Handling /\ AllQueued' = AllQueued
    BY Zenon, <2>1, QueueKept DEF QueueTypes, flags
  <2>3. QED
    BY Zenon, <2>2, BoundaryKept DEF tickVars
<1>2. CASE lanes[k].queued # <<>>
  <2>1. /\ lanes' = [lanes EXCEPT ![k] = Discarded(lanes[k])]
        /\ ready' = {p \in ready : p.key # k}
        /\ ordered' = ordered \ Queued(k)
        /\ worker' \in NotifyOne(worker) \cup NotifyAll(worker) \cup {worker}
    BY Zenon, <1>2 DEF DiscardLane, Queued
  <2>2. /\ lanes' \in [Lanes -> LaneStates]
        /\ \A j \in Lanes \ {k} : lanes'[j] = lanes[j]
        /\ lanes'[k].queued = <<>> /\ (lanes'[k].active <=> lanes[k].active)
        /\ lanes[k].active => lanes'[k].packets = 1
        /\ ~lanes[k].active => lanes'[k].packets = 0
    <3> DEFINE r == Discarded(lanes[k])
    <3>1. lanes' = [lanes EXCEPT ![k] = r]
      BY Zenon, <2>1
    <3>2. /\ r \in LaneStates /\ r.queued = <<>> /\ (r.active <=> lanes[k].active)
          /\ lanes[k].active => r.packets = 1
          /\ ~lanes[k].active => r.packets = 0
      BY Zenon, DiscardedLane
    <3> HIDE DEF r
    <3>3. /\ lanes' \in [Lanes -> LaneStates] /\ lanes'[k] = r
          /\ \A j \in Lanes \ {k} : lanes'[j] = lanes[j]
      BY Zenon, <3>1, <3>2 DEF QueueTypes
    <3>4. QED
      BY Zenon, <3>2, <3>3
  <2>3. ordered' = {p \in ordered : p.key \notin {k}}
    <3>1. ASSUME NEW p \in ordered PROVE p \in Queued(k) <=> p.key = k
      <4>1. PICK j \in Lanes : p \in Queued(j)
        BY Zenon DEF HeapInv
      <4>2. p.key = j
        BY Zenon, <4>1, FrontIsEarliest
      <4>3. p \in Queued(k) => p.key = k
        BY Zenon, FrontIsEarliest
      <4>4. QED
        BY Zenon, <4>1, <4>2, <4>3
    <3>2. QED
      BY Zenon, <2>1, <3>1
  <2>4. /\ QueueTypes' /\ LaneInv' /\ HeapInv' /\ HandInv' /\ StartedInOrder'
        /\ Handling' = Handling /\ AllQueued' \subseteq AllQueued
    <3> DEFINE D == {k}
    <3>1. /\ D \in SUBSET Lanes
          /\ \A j \in Lanes \ D : lanes'[j] = lanes[j]
          /\ \A j \in D : /\ lanes'[j].queued = <<>> /\ (lanes'[j].active <=> lanes[j].active)
                          /\ lanes[j].active => lanes'[j].packets = 1
                          /\ ~lanes[j].active => lanes'[j].packets = 0
          /\ ready' = {p \in ready : p.key \notin D}
          /\ ordered' = {p \in ordered : p.key \notin D}
      BY Zenon, <2>1, <2>2, <2>3
    <3>2. /\ phase' \in {"Open", "Draining", "Closed", "Stopped"}
          /\ UNCHANGED <<cutoff, nextSequence, flags, work>>
      BY Zenon DEF QueueTypes
    <3>3. Emptied(D)
      BY Zenon, <2>1, <2>2, <3>1, <3>2 DEF Emptied
    <3> HIDE DEF D
    <3>4. QED
      BY Zenon, <3>1, <3>3, LanesEmptied
  <2>5. QED
    BY Zenon, <2>4, BoundaryKept DEF tickVars
<1>3. QED
  BY Zenon, <1>1, <1>2

\* A packet that may start is the front of an idle lane, and no barrier before
\* it is pending.
LEMMA StartableFacts ==
    ASSUME ProcessorInv, NEW p \in Startable
    PROVE  /\ phase \in {"Open", "Draining"} /\ ~exclusiveActive
           /\ phase = "Draining" => p.sequence < cutoff
           /\ p \in Packets /\ p.key \in Lanes /\ ~lanes[p.key].active
           /\ lanes[p.key].queued # <<>> /\ p = lanes[p.key].queued[1]
           /\ \A x \in ordered : x.execution = "Exclusive" => p.sequence <= x.sequence
           /\ p.execution = "Serialized" =>
                 /\ ~serializedActive
                 /\ \A x \in ordered : x.execution = "Serialized" => p.sequence <= x.sequence
           /\ p.execution = "Exclusive" =>
                 active = 0 /\ \A q \in AllQueued : p.sequence <= q.sequence
<1> USE DEF ProcessorInv
<1>1. phase \in {"Open", "Draining"}
  BY Zenon DEF Startable
<1>2. PICK before \in Nat : /\ p \in SelectNext(before)
                            /\ phase = "Draining" => before = cutoff
  <2>1. CASE phase = "Open"
    BY Zenon, <2>1 DEF Startable, QueueTypes
  <2>2. CASE phase = "Draining"
    BY Zenon, <2>2 DEF Startable, QueueTypes
  <2>3. QED
    BY Zenon, <1>1, <2>1, <2>2
<1>3. ~exclusiveActive /\ p \in Earliest({h \in Heads : MayStart(h, before)})
  BY Zenon, <1>2 DEF SelectNext
<1>4. /\ p \in Heads /\ MayStart(p, before)
      /\ \A h \in Heads : MayStart(h, before) => p.sequence <= h.sequence
  BY Zenon, <1>3 DEF Earliest
<1>5. p \in ready /\ p \in Packets
  BY Zenon, <1>4 DEF Heads, Earliest, Of, HeapInv
<1>6. /\ p.key \in Lanes /\ ~lanes[p.key].active
      /\ lanes[p.key].queued # <<>> /\ p = lanes[p.key].queued[1]
  <2>1. PICK k \in Lanes : ~lanes[k].active /\ lanes[k].queued # <<>> /\ p = lanes[k].queued[1]
    BY Zenon, <1>5 DEF HeapInv
  <2>2. lanes[k].queued[1].key = k
    BY <2>1, LaneFacts
  <2>3. QED
    BY Zenon, <2>1, <2>2
<1>7. /\ p.sequence < before
      /\ \A x \in ordered : x.execution = "Exclusive" => p.sequence <= x.sequence
      /\ p.execution = "Serialized" =>
            /\ ~serializedActive
            /\ \A x \in ordered : x.execution = "Serialized" => p.sequence <= x.sequence
      /\ p.execution = "Exclusive" => active = 0
  BY Zenon, <1>4 DEF MayStart, Of, Earliest
<1>8. ASSUME p.execution = "Exclusive", NEW q \in AllQueued PROVE p.sequence <= q.sequence
  <2>1. Busy = {} /\ ~serializedActive
    BY Zenon, <1>7, <1>8, BusyFinite DEF HandInv
  <2>2. \A k \in Lanes : ~lanes[k].active
    BY Zenon, <2>1 DEF LaneInv, LaneIsCounted
  <2>3. ASSUME NEW k \in Lanes, NEW x \in Queued(k)
        PROVE  \E g \in ready : g.sequence <= x.sequence
    <3>1. /\ lanes[k].queued # <<>> /\ lanes[k].queued[1] \in Packets
          /\ lanes[k].queued[1].sequence <= x.sequence
      BY Zenon, FrontIsEarliest
    <3>2. lanes[k].queued[1] \in ready
      BY Zenon, <2>2, <3>1 DEF HeapInv
    <3>3. QED
      BY Zenon, <3>1, <3>2
  <2>4. PICK h \in ready : \A g \in ready : h.sequence <= g.sequence
    <3>1. ready \in SUBSET Packets /\ ready # {}
      BY Zenon, <1>5 DEF HeapInv
    <3>2. Earliest(ready) # {}
      BY Zenon, <3>1, EarliestExists
    <3>3. QED
      BY Zenon, <3>2 DEF Earliest
  <2>5. /\ h \in Packets /\ h.sequence \in Nat /\ h.execution \in Executions
        /\ p.sequence \in Nat
        /\ \A g \in ready : g.sequence \in Nat
    BY Zenon, <1>5 DEF HeapInv, Packets
  <2>6. PICK k \in Lanes : q \in Queued(k)
    BY Zenon DEF AllQueued
  <2>7. q.sequence \in Nat /\ h.sequence <= q.sequence
    <3>1. q.sequence \in Nat
      BY <2>6, FrontIsEarliest DEF Packets
    <3>2. PICK g \in ready : g.sequence <= q.sequence
      BY Zenon, <2>3, <2>6
    <3>3. QED
      BY SMTT(30), <2>4, <2>5, <3>1, <3>2
  <2>8. SUFFICES ASSUME h.sequence < p.sequence PROVE FALSE
    BY <2>5, <2>7
  <2>9. h \in Heads
    BY <2>4, <2>5 DEF Heads, Earliest, Of
  <2>10. h.sequence < before
    BY <1>7, <2>5, <2>8
  <2>11. \A x \in ordered : x.sequence \in Nat /\ h.sequence <= x.sequence
    <3> SUFFICES ASSUME NEW x \in ordered
                 PROVE  x.sequence \in Nat /\ h.sequence <= x.sequence
      BY Zenon
    <3>1. x.sequence \in Nat
      BY Zenon DEF HeapInv, Packets
    <3>2. PICK j \in Lanes : x \in Queued(j)
      BY Zenon DEF HeapInv
    <3>3. PICK g \in ready : g.sequence <= x.sequence
      BY Zenon, <2>3, <3>2
    <3>4. QED
      BY SMTT(30), <2>4, <2>5, <3>1, <3>3
  <2>12. h.execution # "Exclusive"
    <3>1. SUFFICES ASSUME h.execution = "Exclusive" PROVE FALSE
      BY Zenon
    <3>2. PICK j \in Lanes : lanes[j].queued # <<>> /\ h = lanes[j].queued[1]
      BY Zenon, <2>5 DEF HeapInv
    <3>3. h \in Queued(j)
      BY <3>2, LaneFacts DEF Queued
    <3>4. h \in ordered
      BY Zenon, <2>5, <3>1, <3>3 DEF HeapInv
    <3>5. QED
      BY SMTT(30), <1>7, <2>5, <2>8, <3>1, <3>4
  <2>13. h.execution = "Serialized" => h \in Earliest(Of(ordered, "Serialized"))
    <3>1. SUFFICES ASSUME h.execution = "Serialized" PROVE h \in ordered
      BY Zenon, <2>11 DEF Earliest, Of
    <3>2. PICK j \in Lanes : lanes[j].queued # <<>> /\ h = lanes[j].queued[1]
      BY <2>5 DEF HeapInv
    <3>3. h \in Queued(j)
      BY <3>2, LaneFacts DEF Queued
    <3>4. QED
      BY Zenon, <2>5, <3>1, <3>3 DEF HeapInv
  <2>14. MayStart(h, before)
    BY Zenon, <2>1, <2>10, <2>11, <2>12, <2>13 DEF MayStart, Of
  <2>15. QED
    BY SMTT(30), <1>4, <2>5, <2>8, <2>9, <2>14
<1>9. QED
  BY Zenon, <1>1, <1>2, <1>3, <1>5, <1>6, <1>7, <1>8
\* A packet that starts leaves the front of its lane for the hand of a worker.
LEMMA StartNextKeeps ==
    ASSUME ProcessorInv, NEW w \in Workers, StartNext(w)
    PROVE  ProcessorInv'
<1> USE DEF ProcessorInv
<1>1. PICK p \in Startable :
          /\ ready' = ready \ {p}
          /\ ordered' = ordered \ {p}
          /\ lanes' = [lanes EXCEPT ![p.key].queued = Tail(@), ![p.key].active = TRUE]
          /\ serializedActive' = (serializedActive \/ p.execution = "Serialized")
          /\ exclusiveActive' = (exclusiveActive \/ p.execution = "Exclusive")
          /\ work' = [work EXCEPT ![w] = p]
  BY Zenon DEF StartNext
<1> DEFINE k == p.key
           L == lanes[p.key].queued
<1>2. /\ phase \in {"Open", "Draining"} /\ ~exclusiveActive
      /\ phase = "Draining" => p.sequence < cutoff
      /\ p \in Packets /\ k \in Lanes /\ ~lanes[k].active
      /\ L # <<>> /\ p = L[1]
      /\ \A x \in ordered : x.execution = "Exclusive" => p.sequence <= x.sequence
      /\ p.execution = "Serialized" =>
            /\ ~serializedActive
            /\ \A x \in ordered : x.execution = "Serialized" => p.sequence <= x.sequence
      /\ p.execution = "Exclusive" =>
            active = 0 /\ \A q \in AllQueued : p.sequence <= q.sequence
  BY Zenon, StartableFacts
<1>3. p.sequence \in Nat /\ p # NoWork
  BY Zenon, <1>2, ProcessorAssumption DEF Packets
<1>4. /\ L \in Seq(Packets) /\ Len(L) \in Nat
      /\ \A n \in 1..Len(L) : /\ L[n] \in Packets /\ L[n].sequence \in Nat
                              /\ L[n].key = k /\ L[n].sequence < nextSequence
  BY Zenon, <1>2, LaneFacts
<1>5. /\ Tail(L) \in Seq(Packets) /\ Len(Tail(L)) = Len(L) - 1 /\ Len(L) >= 1
      /\ \A n \in 1..Len(Tail(L)) : n + 1 \in 1..Len(L) /\ Tail(L)[n] = L[n + 1]
  <2>1. Len(L) >= 1
    BY SMTT(30), <1>2, <1>4
  <2>2. Tail(L) \in Seq(Packets) /\ Len(Tail(L)) = Len(L) - 1
    BY Zenon, <1>2, <1>4, HeadTailProperties
  <2>3. ASSUME NEW n \in 1..Len(Tail(L)) PROVE n + 1 \in 1..Len(L) /\ Tail(L)[n] = L[n + 1]
    BY SMTT(30), <1>2, <1>4, <2>1, <2>2, HeadTailProperties
  <2>4. QED
    BY Zenon, <2>1, <2>2, <2>3
<1>6. /\ lanes' \in [Lanes -> LaneStates]
      /\ lanes'[k].queued = Tail(L) /\ lanes'[k].active
      /\ lanes'[k].packets = lanes[k].packets
      /\ \A j \in Lanes : j # k => lanes'[j] = lanes[j]
  <2>1. lanes' = [lanes EXCEPT ![k] = [@ EXCEPT !.queued = Tail(L), !.active = TRUE]]
    BY <1>1, <1>2, Zenon
  <2>2. QED
    BY <1>2, <1>5, <2>1, ZenonT(90) DEF QueueTypes, LaneStates
<1>7. /\ work' \in [Workers -> Packets \cup {NoWork}] /\ work'[w] = p
      /\ \A v \in Workers : v # w => work'[v] = work[v]
      /\ w \notin Busy /\ Busy' = Busy \cup {w}
  <2>1. work'[w] = p /\ \A v \in Workers : v # w => work'[v] = work[v]
    BY Zenon, <1>1 DEF QueueTypes
  <2>2. work[w] = NoWork
    BY Zenon DEF StartNext, QueueTypes
  <2>3. work' \in [Workers -> Packets \cup {NoWork}]
    BY Zenon, <1>1, <1>2 DEF QueueTypes
  <2>4. QED
    BY Zenon, <1>3, <2>1, <2>2, <2>3 DEF Busy
<1>8. UNCHANGED <<phase, cutoff, nextSequence, loop, ticking>> /\ active' = active + 1
  BY Zenon DEF StartNext, tickVars
<1>9. QueueTypes'
  <2>1. /\ worker' \in [Workers -> WorkerStates]
        /\ worker'[w] = "handling" /\ \A v \in Workers : v # w => worker'[v] = worker[v]
    BY Zenon DEF StartNext, QueueTypes, WorkerStates
  <2>2. serializedActive' \in BOOLEAN /\ exclusiveActive' \in BOOLEAN
    BY Zenon, <1>1
  <2>3. \A v \in Workers : worker'[v] = "handling" <=> work'[v] # NoWork
    BY Zenon, <1>3, <1>7, <2>1 DEF QueueTypes
  <2>4. QED
    BY SMTT(30), <1>6, <1>7, <1>8, <2>1, <2>2, <2>3 DEF QueueTypes
<1>10. \A j \in Lanes : \A x : x \in Queued(j)' <=> x \in Queued(j) /\ x # p
  <2>1. ASSUME NEW j \in Lanes, j # k, NEW x PROVE x \in Queued(j)' <=> x \in Queued(j) /\ x # p
    <3>1. Queued(j)' = Queued(j)
      BY <1>6, <2>1 DEF Queued
    <3>2. x \in Queued(j) => x.key = j
      BY Zenon, FrontIsEarliest
    <3>3. QED
      BY Zenon, <2>1, <3>1, <3>2
  <2>2. ASSUME NEW x PROVE x \in Queued(k)' <=> x \in Queued(k) /\ x # p
    <3>1. ASSUME x \in Queued(k)' PROVE x \in Queued(k) /\ x # p
      <4>1. PICK n \in 1..Len(Tail(L)) : x = Tail(L)[n]
        BY Zenon, <1>6, <3>1 DEF Queued
      <4>2. n + 1 \in 1..Len(L) /\ x = L[n + 1] /\ 1 \in 1..Len(L) /\ 1 < n + 1
        BY SMTT(30), <1>4, <1>5, <4>1
      <4>3. L[1].sequence < L[n + 1].sequence
        BY Zenon, <1>2, <4>2 DEF LaneInv, LaneIsOrdered
      <4>4. QED
        BY SMTT(30), <1>2, <1>3, <4>2, <4>3 DEF Queued
    <3>2. ASSUME x \in Queued(k), x # p PROVE x \in Queued(k)'
      <4>1. PICK n \in 1..Len(L) : x = L[n]
        BY Zenon, <3>2 DEF Queued
      <4>2. n # 1
        BY Zenon, <1>2, <3>2, <4>1
      <4>3. n - 1 \in 1..Len(Tail(L)) /\ (n - 1) + 1 = n
        BY SMTT(30), <1>4, <1>5, <4>2
      <4>4. x = Tail(L)[n - 1]
        BY Zenon, <1>5, <4>1, <4>3
      <4>5. QED
        BY Zenon, <1>6, <4>3, <4>4 DEF Queued
    <3>3. QED
      BY Zenon, <3>1, <3>2
  <2>3. QED
    BY Zenon, <2>1, <2>2
<1>11. /\ p \in Queued(k) /\ p \in AllQueued
       /\ AllQueued' \subseteq AllQueued
       /\ Handling = {work[v] : v \in Busy} /\ Handling' = Handling \cup {p}
  <2>1. p \in Queued(k)
    BY <1>2, <1>4, <1>5 DEF Queued
  <2>2. \A j \in Lanes : Queued(j)' \subseteq Queued(j)
    BY Zenon, <1>10
  <2>3. p \in AllQueued /\ AllQueued' \subseteq AllQueued
    BY Zenon, <1>2, <2>1, <2>2 DEF AllQueued
  <2>4. Handling = {work[v] : v \in Busy}
    BY Zenon, HandlingIsBusy
  <2>5. Handling' = {work'[v] : v \in Busy'}
    BY Zenon, <1>9 DEF QueueTypes, Handling, Busy
  <2>6. \A v \in Busy : work'[v] = work[v]
    BY Zenon, <1>7 DEF Busy
  <2>7. QED
    BY <1>7, <2>1, <2>3, <2>4, <2>5, <2>6, ZenonT(30)
<1>12. \A v \in Busy : /\ work'[v] = work[v] /\ work[v].key # k
                       /\ work[v].execution # "Exclusive"
                       /\ p.execution # "Exclusive"
                       /\ ~(p.execution = "Serialized" /\ work[v].execution = "Serialized")
                       /\ work[v].sequence < nextSequence
  <2>1. ASSUME NEW v \in Busy PROVE work'[v] = work[v]
    BY Zenon, <1>7 DEF Busy
  <2>2. ASSUME NEW v \in Busy PROVE work[v].key # k
    BY Zenon, <1>2 DEF LaneInv, LaneIsCounted
  <2>3. ASSUME NEW v \in Busy PROVE p.execution # "Exclusive"
    BY Zenon, <1>2, BusyFinite
  <2>4. QED
    BY Zenon, <1>2, <2>1, <2>2, <2>3 DEF HandInv
<1>13. LaneInv'
  <2>1. ASSUME NEW j \in Lanes, j # k PROVE LaneIsOrdered(j)' /\ LaneIsCounted(j)'
    <3>1. lanes'[j] = lanes[j] /\ LaneIsOrdered(j) /\ LaneIsCounted(j)
      BY Zenon, <1>6, <2>1 DEF LaneInv
    <3>2. \A v \in Busy' : work'[v].key = j => v \in Busy /\ work'[v] = work[v]
      BY Zenon, <1>7, <1>12, <2>1
    <3>3. (\E v \in Busy' : work'[v].key = j) <=> \E v \in Busy : work[v].key = j
      BY <1>7, <1>12, <3>2, Zenon
    <3>4. LaneIsOrdered(j)'
      BY <1>8, <3>1, <3>2, Zenon DEF LaneIsOrdered
    <3>5. QED
      BY Zenon, <3>1, <3>3, <3>4 DEF LaneIsCounted
  <2>2. LaneIsOrdered(k)'
    <3>1. \A n \in 1..Len(Tail(L)) : Tail(L)[n].key = k /\ Tail(L)[n].sequence < nextSequence
      BY Zenon, <1>4, <1>5
    <3>2. ASSUME NEW m \in 1..Len(Tail(L)), NEW n \in 1..Len(Tail(L)), m < n
          PROVE  Tail(L)[m].sequence < Tail(L)[n].sequence
      <4>1. m + 1 < n + 1
        BY SMTT(30), <3>2
      <4>2. L[m + 1].sequence < L[n + 1].sequence
        BY Zenon, <1>2, <1>5, <4>1 DEF LaneInv, LaneIsOrdered
      <4>3. QED
        BY Zenon, <1>5, <4>2
    <3>3. ASSUME NEW n \in 1..Len(Tail(L)) PROVE p.sequence < Tail(L)[n].sequence
      <4>1. n + 1 \in 1..Len(L) /\ 1 \in 1..Len(L) /\ 1 < n + 1
        BY SMTT(30), <1>4, <1>5
      <4>2. L[1].sequence < L[n + 1].sequence
        BY Zenon, <1>2, <4>1 DEF LaneInv, LaneIsOrdered
      <4>3. QED
        BY ZenonT(40), <1>2, <1>5, <4>2
    <3>4. ASSUME NEW v \in Busy', work'[v].key = k PROVE work'[v] = p
      BY Zenon, <1>7, <1>12, <3>4
    <3>5. QED
      BY Zenon, <1>6, <1>8, <3>1, <3>2, <3>3, <3>4 DEF LaneIsOrdered
  <2>3. LaneIsCounted(k)'
    <3>1. lanes'[k].packets = Len(lanes'[k].queued) + 1 /\ lanes'[k].packets <= PacketLimit
      <4>1. lanes[k].packets = Len(L) /\ lanes[k].packets <= PacketLimit
        BY Zenon, <1>2 DEF LaneInv, LaneIsCounted
      <4>2. QED
        BY SMTT(30), <1>4, <1>5, <1>6, <4>1
    <3>2. \E v \in Busy' : work'[v].key = k
      BY Zenon, <1>7
    <3>3. QED
      BY <1>6, <3>1, <3>2, ZenonT(40) DEF LaneIsCounted
  <2>4. QED
    BY Zenon, <2>1, <2>2, <2>3 DEF LaneInv
<1>14. HeapInv'
  <2>1. \A j \in Lanes : lanes[j].queued # <<>> => lanes[j].queued[1].key = j
    BY SMTT(90), LaneFacts
  <2>2. ASSUME NEW q \in Packets
        PROVE  q \in ready' <=> \E j \in Lanes : /\ ~lanes'[j].active /\ lanes'[j].queued # <<>>
                                                 /\ q = lanes'[j].queued[1]
    <3>1. q \in ready <=> \E j \in Lanes : /\ ~lanes[j].active /\ lanes[j].queued # <<>>
                                            /\ q = lanes[j].queued[1]
      BY Zenon DEF HeapInv
    <3>2. QED
      BY SMTT(30), <1>1, <1>2, <1>6, <2>1, <3>1
  <2>3. ASSUME NEW q \in Packets
        PROVE  q \in ordered' <=>
                   q.execution # "PlayerLocal" /\ \E j \in Lanes : q \in Queued(j)'
    <3>1. q \in ordered <=> q.execution # "PlayerLocal" /\ \E j \in Lanes : q \in Queued(j)
      BY Zenon DEF HeapInv
    <3>2. (\E j \in Lanes : q \in Queued(j)') <=> q # p /\ \E j \in Lanes : q \in Queued(j)
      BY Zenon, <1>10
    <3>3. QED
      BY Zenon, <1>1, <3>1, <3>2
  <2>4. QED
    BY <1>1, <2>2, <2>3, Zenon DEF HeapInv
<1>15. HandInv'
  <2>1. active' = Cardinality(Busy')
    <3>1. IsFiniteSet(Busy)
      BY Zenon, BusyFinite
    <3>2. Cardinality(Busy \cup {w}) = Cardinality(Busy) + 1
      BY <1>7, <3>1, FS_AddElement, Zenon
    <3>3. QED
      BY Zenon, <1>7, <1>8, <3>2 DEF HandInv
  <2>2. \A v \in Busy' : work'[v].sequence < nextSequence'
    <3>1. p.sequence < nextSequence
      BY SMTT(30), <1>2, <1>4, <1>5
    <3>2. QED
      BY Zenon, <1>7, <1>8, <1>12, <3>1
  <2>3. ASSUME NEW u \in Busy', NEW v \in Busy', u # v
        PROVE  /\ work'[u].key # work'[v].key
               /\ work'[u].execution # "Exclusive"
               /\ ~(work'[u].execution = "Serialized" /\ work'[v].execution = "Serialized")
    <3>1. CASE u \in Busy /\ v \in Busy
      BY Zenon, <1>12, <2>3, <3>1 DEF HandInv
    <3>2. CASE u = w /\ v \in Busy
      BY Zenon, <1>7, <1>12, <3>2
    <3>3. CASE u \in Busy /\ v = w
      BY Zenon, <1>7, <1>12, <3>3
    <3>4. QED
      BY Zenon, <1>7, <2>3, <3>1, <3>2, <3>3
  <2>4. serializedActive' <=> \E v \in Busy' : work'[v].execution = "Serialized"
    <3>1. (\E v \in Busy' : work'[v].execution = "Serialized") <=>
             (p.execution = "Serialized" \/ \E v \in Busy : work[v].execution = "Serialized")
      BY Zenon, <1>7, <1>12
    <3>2. QED
      BY <1>1, <3>1, Zenon DEF HandInv
  <2>5. exclusiveActive' <=> \E v \in Busy' : work'[v].execution = "Exclusive"
    <3>1. (\E v \in Busy' : work'[v].execution = "Exclusive") <=>
             (p.execution = "Exclusive" \/ \E v \in Busy : work[v].execution = "Exclusive")
      BY Zenon, <1>7, <1>12
    <3>2. QED
      BY <1>1, <3>1, Zenon DEF HandInv
  <2>6. QED
    BY Zenon, <2>1, <2>2, <2>3, <2>4, <2>5 DEF HandInv
<1>16. StartedInOrder'
  <2>1. ASSUME NEW q \in AllQueued, q.sequence < p.sequence
        PROVE  /\ q.key # k
               /\ q.execution # "Exclusive" /\ p.execution # "Exclusive"
               /\ ~(q.execution = "Serialized" /\ p.execution = "Serialized")
    <3>1. PICK j \in Lanes : q \in Queued(j)
      BY Zenon DEF AllQueued
    <3>2. /\ q \in Packets /\ q.key = j /\ q.sequence \in Nat
          /\ lanes[j].queued[1].sequence <= q.sequence
      BY SMTT(30), <3>1, FrontIsEarliest DEF Packets
    <3>3. q.key # k
      BY SMTT(30), <1>2, <1>3, <2>1, <3>2
    <3>4. q.execution # "PlayerLocal" => q \in ordered
      BY Zenon, <3>1, <3>2 DEF HeapInv
    <3>5. QED
      BY SMTT(30), <1>2, <1>3, <2>1, <3>2, <3>3, <3>4
  <2>2. ASSUME NEW q \in Handling
        PROVE  /\ q.key # k
               /\ q.execution # "Exclusive" /\ p.execution # "Exclusive"
               /\ ~(q.execution = "Serialized" /\ p.execution = "Serialized")
    BY Zenon, <1>11, <1>12
  <2>3. ASSUME NEW q \in Handling, NEW x \in AllQueued \cup Handling, x.sequence < q.sequence
        PROVE  /\ x.key # q.key
               /\ x.execution # "Exclusive" /\ q.execution # "Exclusive"
               /\ ~(x.execution = "Serialized" /\ q.execution = "Serialized")
    BY Zenon, <2>3 DEF StartedInOrder
  <2>4. ~(p.sequence < p.sequence)
    BY <1>3
  <2>5. QED
    BY SMTT(30), <1>11, <2>1, <2>2, <2>3, <2>4 DEF StartedInOrder
<1>17. PhaseInv'
  BY Zenon, <1>8 DEF PhaseInv
<1>18. TickIsIsolated'
  <2>1. CASE phase = "Draining"
    <3>1. \E q \in AllQueued : ~(q.sequence >= cutoff)
      BY SMTT(30), <1>2, <1>3, <1>11, <2>1 DEF QueueTypes
    <3>2. QED
      BY Zenon, <1>8, <3>1 DEF TickIsIsolated
  <2>2. CASE phase = "Open"
    BY Zenon, <1>8, <2>2 DEF TickIsIsolated, PhaseInv
  <2>3. QED
    BY Zenon, <1>2, <2>1, <2>2
<1>19. QED
  BY <1>9, <1>13, <1>14, <1>15, <1>16, <1>17, <1>18, Zenon
\* A lane whose packet is done counts what it has queued.
LEMMA FinishedLane ==
    ASSUME QueueTypes, LaneInv, NEW k \in Lanes, lanes[k].active
    PROVE  /\ Finished(lanes[k]) \in LaneStates
           /\ Finished(lanes[k]).queued = lanes[k].queued
           /\ ~Finished(lanes[k]).active
           /\ Finished(lanes[k]).packets = Len(lanes[k].queued)
<1>1. /\ lanes[k].queued \in Seq(Packets) /\ Len(lanes[k].queued) \in Nat
      /\ lanes[k].packets - 1 = Len(lanes[k].queued)
  BY SMTT(30), LaneFacts DEF LaneInv, LaneIsCounted
<1> DEFINE n == Len(lanes[k].queued)
           r == [queued |-> lanes[k].queued, active |-> FALSE, packets |-> n]
<1>2. Finished(lanes[k]) = r
  <2>1. CASE lanes[k].queued = <<>>
    BY Zenon, <1>1, <2>1 DEF Finished, EmptyLane
  <2>2. CASE lanes[k].queued # <<>>
    BY <1>1, <2>2, Zenon DEF Finished
  <2>3. QED
    BY Zenon, <2>1, <2>2
<1>3. r \in LaneStates
  BY Zenon, <1>1 DEF LaneStates
<1>4. QED
  BY SMTT(30), <1>2, <1>3

\* A packet that is done frees its lane, whose next packet becomes ready.
LEMMA FinishOneKeeps ==
    ASSUME ProcessorInv, NEW w \in Workers, worker[w] = "handling",
           NEW then \in {"next", "unwound"}, FinishOne(w, then)
    PROVE  ProcessorInv'
<1> USE DEF ProcessorInv
<1> DEFINE p == work[w]
           done == [worker EXCEPT ![w] = then]
<1>1. PICK k \in Lanes : w \in Busy /\ p \in Packets /\ k = p.key
  BY Zenon DEF QueueTypes, Busy, Packets
<1> DEFINE L == lanes[k].queued
<1>2. lanes[k].active
  BY Zenon, <1>1 DEF LaneInv, LaneIsCounted
<1>3. /\ lanes' \in [Lanes -> LaneStates]
      /\ lanes'[k].queued = L /\ ~lanes'[k].active /\ lanes'[k].packets = Len(L)
      /\ \A j \in Lanes : j # k => lanes'[j] = lanes[j]
  <2> DEFINE r == Finished(lanes[k])
  <2>1. lanes' = [lanes EXCEPT ![k] = r]
    BY Zenon, <1>1 DEF FinishOne
  <2>2. r \in LaneStates /\ r.queued = L /\ ~r.active /\ r.packets = Len(L)
    BY Zenon, <1>1, <1>2, FinishedLane
  <2> HIDE DEF r
  <2>3. /\ lanes' \in [Lanes -> LaneStates] /\ lanes'[k] = r
        /\ \A j \in Lanes : j # k => lanes'[j] = lanes[j]
    BY Zenon, <1>1, <2>1, <2>2 DEF QueueTypes
  <2>4. QED
    BY Zenon, <2>2, <2>3
<1>4. /\ worker' \in [Workers -> WorkerStates]
      /\ worker'[w] # "handling"
      /\ \A v \in Workers : v # w => (worker'[v] = "handling" <=> worker[v] = "handling")
  <2>1. /\ done \in [Workers -> WorkerStates]
        /\ done[w] = then /\ \A v \in Workers : v # w => done[v] = worker[v]
    BY Zenon DEF QueueTypes, WorkerStates
  <2>2. worker' \in NotifyOne(done) \cup NotifyAll(done) \cup {done}
    BY Zenon DEF FinishOne
  <2> HIDE DEF done
  <2>3. /\ worker' \in [Workers -> WorkerStates]
        /\ \A v \in Workers : worker'[v] = "handling" <=> done[v] = "handling"
    BY Zenon, <2>1, <2>2, Notified
  <2>4. QED
    BY Zenon, <2>1, <2>3
<1>5. /\ work' \in [Workers -> Packets \cup {NoWork}] /\ work'[w] = NoWork
      /\ \A v \in Workers : v # w => work'[v] = work[v]
      /\ Busy' = Busy \ {w}
  <2>1. work' = [work EXCEPT ![w] = NoWork]
    BY Zenon DEF FinishOne
  <2>2. /\ work' \in [Workers -> Packets \cup {NoWork}] /\ work'[w] = NoWork
        /\ \A v \in Workers : v # w => work'[v] = work[v]
    BY Zenon, <2>1 DEF QueueTypes
  <2>3. QED
    BY Zenon, <2>2 DEF Busy
<1>6. /\ UNCHANGED <<phase, cutoff, ordered, nextSequence, loop, ticking>>
      /\ active' = active - 1
      /\ serializedActive' = (serializedActive /\ p.execution # "Serialized")
      /\ exclusiveActive' = (exclusiveActive /\ p.execution # "Exclusive")
      /\ ready' = IF L = <<>> THEN ready ELSE ready \cup {Head(L)}
  BY Zenon, <1>1 DEF FinishOne, tickVars
<1>7. \A v \in Busy' : /\ v \in Busy /\ v # w /\ work'[v] = work[v] /\ work[v].key # k
                       /\ p.execution # "Exclusive" /\ work[v].execution # "Exclusive"
                       /\ ~(p.execution = "Serialized" /\ work[v].execution = "Serialized")
  <2>1. \A v \in Busy' : v \in Busy /\ v # w /\ work'[v] = work[v]
    BY Zenon, <1>5 DEF Busy
  <2>2. QED
    BY Zenon, <1>1, <2>1 DEF HandInv
<1>8. HandInv'
  <2>1. active' = Cardinality(Busy') /\ active' \in Nat
    <3>1. IsFiniteSet(Busy) /\ Cardinality(Busy) = active
      BY Zenon, BusyFinite DEF HandInv
    <3>2. Cardinality(Busy \ {w}) = Cardinality(Busy) - 1
      BY <1>1, <3>1, FS_RemoveElement, Zenon
    <3>3. IsFiniteSet(Busy \ {w})
      BY Zenon, <3>1, FS_Subset
    <3>4. Cardinality(Busy \ {w}) \in Nat
      BY ZenonT(40), <3>3, FS_CardinalityType
    <3>5. QED
      BY Zenon, <1>5, <1>6, <3>1, <3>2, <3>4
  <2>2. /\ \A v \in Busy' : work'[v].sequence < nextSequence'
        /\ \A u, v \in Busy' : u # v =>
              /\ work'[u].key # work'[v].key
              /\ work'[u].execution # "Exclusive"
              /\ ~(work'[u].execution = "Serialized" /\ work'[v].execution = "Serialized")
    BY <1>6, <1>7 DEF HandInv
  <2>3. serializedActive' <=> \E v \in Busy' : work'[v].execution = "Serialized"
    <3>1. (\E v \in Busy : work[v].execution = "Serialized") <=>
             (p.execution = "Serialized" \/ \E v \in Busy' : work'[v].execution = "Serialized")
      BY Zenon, <1>1, <1>5, <1>7
    <3>2. p.execution = "Serialized" => ~\E v \in Busy' : work'[v].execution = "Serialized"
      BY Zenon, <1>7
    <3>3. QED
      BY <1>6, <3>1, <3>2, Zenon DEF HandInv
  <2>4. exclusiveActive' <=> \E v \in Busy' : work'[v].execution = "Exclusive"
    <3>1. (\E v \in Busy : work[v].execution = "Exclusive") <=>
             (p.execution = "Exclusive" \/ \E v \in Busy' : work'[v].execution = "Exclusive")
      BY Zenon, <1>1, <1>5, <1>7
    <3>2. p.execution = "Exclusive" => ~\E v \in Busy' : work'[v].execution = "Exclusive"
      BY Zenon, <1>7
    <3>3. QED
      BY <1>6, <3>1, <3>2, Zenon DEF HandInv
  <2>5. QED
    BY Zenon, <2>1, <2>2, <2>3, <2>4 DEF HandInv
<1>9. QueueTypes'
  <2>1. serializedActive' \in BOOLEAN /\ exclusiveActive' \in BOOLEAN
    BY Zenon, <1>6
  <2>2. \A v \in Workers : worker'[v] = "handling" <=> work'[v] # NoWork
    BY Zenon, <1>4, <1>5 DEF QueueTypes
  <2>3. active' \in Nat
    <3>1. IsFiniteSet(Busy')
      BY <1>5, BusyFinite, FS_Subset, Zenon
    <3>2. QED
      BY Zenon, <1>8, <3>1, FS_CardinalityType DEF HandInv
  <2>4. QED
    BY Zenon, <1>3, <1>4, <1>5, <1>6, <2>1, <2>2, <2>3 DEF QueueTypes
<1>10. /\ \A j \in Lanes : Queued(j)' = Queued(j)
       /\ AllQueued' = AllQueued /\ Handling' \subseteq Handling
  <2>1. \A j \in Lanes : Queued(j)' = Queued(j)
    BY SMTT(30), <1>1, <1>3 DEF Queued
  <2>2. Handling = {work[v] : v \in Busy}
    BY Zenon, HandlingIsBusy
  <2>3. Handling' = {work'[v] : v \in Busy'}
    BY Zenon, <1>9 DEF QueueTypes, Handling, Busy
  <2>4. QED
    BY <1>7, <2>1, <2>2, <2>3, ZenonT(40) DEF AllQueued
<1>11. LaneInv'
  <2>1. ASSUME NEW j \in Lanes, j # k PROVE LaneIsOrdered(j)' /\ LaneIsCounted(j)'
    <3>1. lanes'[j] = lanes[j] /\ LaneIsOrdered(j) /\ LaneIsCounted(j)
      BY Zenon, <1>3, <2>1 DEF LaneInv
    <3>2. (\E v \in Busy' : work'[v].key = j) <=> \E v \in Busy : work[v].key = j
      BY <1>1, <1>5, <1>7, <2>1, Zenon
    <3>3. LaneIsOrdered(j)'
      BY <1>6, <1>7, <3>1, Zenon DEF LaneIsOrdered
    <3>4. QED
      BY Zenon, <3>1, <3>2, <3>3 DEF LaneIsCounted
  <2>2. LaneIsOrdered(k)'
    <3>1. LaneIsOrdered(k)
      BY Zenon, <1>1 DEF LaneInv
    <3>2. QED
      BY <1>3, <1>6, <1>7, <3>1, Zenon DEF LaneIsOrdered
  <2>3. LaneIsCounted(k)'
    <3>1. lanes[k].packets = Len(L) + 1 /\ lanes[k].packets <= PacketLimit /\ Len(L) \in Nat
      BY Zenon, <1>1, <1>2, LaneFacts DEF LaneInv, LaneIsCounted
    <3>2. lanes'[k].packets <= PacketLimit
      BY SMTT(30), <1>3, <3>1, ProcessorAssumption
    <3>3. ~\E v \in Busy' : work'[v].key = k
      BY Zenon, <1>7
    <3>4. QED
      BY Zenon, <1>3, <3>2, <3>3 DEF LaneIsCounted
  <2>4. QED
    BY Zenon, <2>1, <2>2, <2>3 DEF LaneInv
<1>12. HeapInv'
  <2>1. L # <<>> => Head(L) = L[1] /\ L[1] \in Packets
    BY SMTT(30), <1>1, LaneFacts
  <2>2. ASSUME NEW q \in Packets
        PROVE  q \in ready' <=> \E j \in Lanes : /\ ~lanes'[j].active /\ lanes'[j].queued # <<>>
                                                 /\ q = lanes'[j].queued[1]
    <3>1. q \in ready <=> \E j \in Lanes : /\ ~lanes[j].active /\ lanes[j].queued # <<>>
                                            /\ q = lanes[j].queued[1]
      BY Zenon DEF HeapInv
    <3>2. q \in ready' <=> q \in ready \/ (L # <<>> /\ q = L[1])
      BY Zenon, <1>6, <2>1
    <3>3. QED
      BY SMTT(30), <1>1, <1>2, <1>3, <3>1, <3>2
  <2>3. ready' \subseteq Packets /\ ordered' \subseteq Packets
    BY ZenonT(40), <1>6, <2>1 DEF HeapInv
  <2>4. QED
    BY <1>6, <1>10, <2>2, <2>3, SMTT(20) DEF HeapInv
<1>13. StartedInOrder'
  BY Zenon, <1>10 DEF StartedInOrder
<1>14. PhaseInv' /\ TickIsIsolated'
  BY Zenon, <1>6, <1>10 DEF PhaseInv, TickIsIsolated
<1>15. QED
  BY Zenon, <1>8, <1>9, <1>11, <1>12, <1>13, <1>14

\* stop(): every lane loses what it has queued.
LEMMA StopKeeps ==
    ASSUME ProcessorInv, Stop
    PROVE  ProcessorInv'
<1> USE DEF ProcessorInv
<1>1. /\ lanes' = [k \in Lanes |-> Discarded(lanes[k])]
      /\ ready' = {} /\ ordered' = {} /\ phase' = "Stopped" /\ loop' = "ended"
      /\ loop = "shutdown" /\ worker' \in NotifyAll(worker)
      /\ UNCHANGED <<cutoff, nextSequence, flags, work, ticking>>
  BY Zenon DEF Stop
<1>2. Emptied(Lanes)
  <2>1. \A p \in ready \cup ordered : p.key \in Lanes
    BY Zenon DEF HeapInv, Packets
  <2>2. /\ ready' = {p \in ready : p.key \notin Lanes}
        /\ ordered' = {p \in ordered : p.key \notin Lanes}
    BY Zenon, <1>1, <2>1
  <2>3. lanes' \in [Lanes -> LaneStates]
    BY Zenon, <1>1, DiscardedLane
  <2>4. \A k \in Lanes : /\ lanes'[k].queued = <<>> /\ (lanes'[k].active <=> lanes[k].active)
                         /\ lanes[k].active => lanes'[k].packets = 1
                         /\ ~lanes[k].active => lanes'[k].packets = 0
    BY Zenon, <1>1, DiscardedLane
  <2>5. QED
    BY Zenon, <1>1, <2>2, <2>3, <2>4 DEF Emptied
<1>3. /\ QueueTypes' /\ LaneInv' /\ HeapInv' /\ HandInv' /\ StartedInOrder'
      /\ Handling' = Handling /\ AllQueued' \subseteq AllQueued
  <2>1. Lanes \in SUBSET Lanes
    BY Zenon
  <2>2. QED
    BY Zenon, <1>2, <2>1, LanesEmptied
<1>4. PhaseInv' /\ TickIsIsolated'
  BY Zenon, <1>1, <1>3 DEF PhaseInv, TickIsIsolated
<1>5. QED
  BY Zenon, <1>3, <1>4

\* A drain that is complete leaves nothing in hand and nothing before the cutoff:
\* with nothing in hand every lane is idle, so its front is ready.
LEMMA DrainCompletes ==
    ASSUME ProcessorInv, TickDrainComplete, phase # "Stopped"
    PROVE  Handling = {} /\ \A q \in AllQueued : q.sequence >= cutoff
<1> USE DEF ProcessorInv
<1>1. active = 0 /\ \A p \in ready : p.sequence >= cutoff
  BY Zenon DEF TickDrainComplete
<1>2. Busy = {} /\ Handling = {}
  BY Zenon, <1>1, BusyFinite, HandlingIsBusy
<1>3. \A k \in Lanes : ~lanes[k].active
  BY Zenon, <1>2 DEF LaneInv, LaneIsCounted
<1>4. ASSUME NEW q \in AllQueued PROVE q.sequence >= cutoff
  <2>1. PICK k \in Lanes : q \in Queued(k)
    BY Zenon DEF AllQueued
  <2>2. /\ lanes[k].queued # <<>> /\ lanes[k].queued[1] \in Packets
        /\ lanes[k].queued[1].sequence <= q.sequence /\ q \in Packets
    BY Zenon, <2>1, FrontIsEarliest
  <2>3. lanes[k].queued[1] \in ready
    BY Zenon, <1>3, <2>2 DEF HeapInv
  <2>4. lanes[k].queued[1].sequence \in Nat /\ q.sequence \in Nat /\ cutoff \in Nat
    BY Zenon, <2>2 DEF Packets, QueueTypes
  <2>5. QED
    BY <1>1, <2>2, <2>3, <2>4
<1>5. QED
  BY Zenon, <1>2, <1>4

\* The steps of the loop that leave lanes, heaps and hands alone.
LoopStep ==
    \/ BeginTickDrain \/ CheckTickDrain \/ IdleNotified \/ FinishTickDrain
    \/ TickAll \/ Open \/ NotOverloaded \/ Overloaded \/ CheckProgress
    \/ ProgressNotified \/ LeaveLoop \/ Cancel
    \/ \E d \in Worlds : WorldTicked(d) \/ WorldPanics(d)

\* These steps keep the invariant: the queue opens only after the last world
\* has ticked, and the loop passes the drain only when it is complete.
LEMMA LoopStepKeeps ==
    ASSUME ProcessorInv, LoopStep
    PROVE  ProcessorInv'
<1> USE DEF ProcessorInv
<1>1. /\ UNCHANGED <<lanes, heaps, nextSequence, active, serializedActive, exclusiveActive, work>>
      /\ worker' \in NotifyOne(worker) \cup NotifyAll(worker) \cup {worker}
      /\ phase' \in {"Open", "Draining", "Closed", "Stopped"}
      /\ cutoff' \in {cutoff, nextSequence}
  <2>1. CASE BeginTickDrain \/ Open \/ FinishTickDrain
    BY Zenon, <2>1 DEF BeginTickDrain, Open, FinishTickDrain, flags, threads, QueueTypes
  <2>2. CASE ~(BeginTickDrain \/ Open \/ FinishTickDrain)
    <3>1. UNCHANGED loopOnly
      BY Zenon, <2>2 DEF LoopStep, CheckTickDrain, IdleNotified, TickAll, NotOverloaded, Overloaded,
                  CheckProgress, ProgressNotified, LeaveLoop, Cancel, WorldTicked, WorldPanics
    <3>2. QED
      BY Zenon, <3>1 DEF loopOnly, flags, threads, QueueTypes
  <2>3. QED
    BY Zenon, <2>1, <2>2
<1>2. /\ worker' \in [Workers -> WorkerStates]
      /\ \A w \in Workers : worker'[w] = "handling" <=> worker[w] = "handling"
  <2>1. worker \in [Workers -> WorkerStates]
    BY Zenon DEF QueueTypes
  <2>2. QED
    BY Zenon, <1>1, <2>1, Notified
<1>3. cutoff' \in Nat /\ cutoff' <= nextSequence
  BY <1>1 DEF QueueTypes
<1>4. /\ QueueTypes' /\ LaneInv' /\ HeapInv' /\ HandInv' /\ StartedInOrder'
      /\ Handling' = Handling /\ AllQueued' = AllQueued
  BY Zenon, <1>1, <1>2, <1>3, QueueKept
<1>5. CASE BeginTickDrain
  BY Zenon, <1>4, <1>5 DEF BeginTickDrain, PhaseInv, TickIsIsolated
<1>6. CASE CheckTickDrain
  <2>1. loop = "draining" /\ phase = "Draining" /\ ticking = {}
    BY Zenon, <1>6 DEF CheckTickDrain, PhaseInv
  <2>2. UNCHANGED <<phase, cutoff, ticking>>
    BY Zenon, <1>6 DEF CheckTickDrain, loopOnly
  <2>3. CASE TickDrainComplete
    <3>1. loop' = "drained"
      BY Zenon, <1>6, <2>3 DEF CheckTickDrain
    <3>2. Handling = {} /\ \A q \in AllQueued : q.sequence >= cutoff
      BY Zenon, <2>1, <2>3, DrainCompletes
    <3>3. QED
      BY Zenon, <1>4, <2>1, <2>2, <3>1, <3>2 DEF PhaseInv, TickIsIsolated
  <2>4. CASE ~TickDrainComplete
    <3>1. loop' = "awaitIdle"
      BY Zenon, <1>6, <2>4 DEF CheckTickDrain
    <3>2. QED
      BY Zenon, <1>4, <2>1, <2>2, <3>1 DEF PhaseInv, TickIsIsolated
  <2>5. QED
    BY Zenon, <2>3, <2>4
<1>7. CASE IdleNotified
  BY Zenon, <1>4, <1>7 DEF IdleNotified, loopOnly, PhaseInv, TickIsIsolated
<1>8. CASE FinishTickDrain
  BY Zenon, <1>4, <1>8 DEF FinishTickDrain, PhaseInv, TickIsIsolated
<1>9. CASE TickAll
  BY Zenon, <1>4, <1>9 DEF TickAll, loopOnly, PhaseInv, TickIsIsolated
<1>10. CASE Open
  BY Zenon, <1>4, <1>10 DEF Open, PhaseInv, TickIsIsolated
<1>11. CASE NotOverloaded \/ Overloaded \/ CheckProgress \/ ProgressNotified \/ LeaveLoop
  <2>1. /\ UNCHANGED <<phase, cutoff, ticking>>
        /\ loop \in {"opened", "overload", "awaitProgress", "top"}
        /\ loop' \in {"opened", "overload", "awaitProgress", "top", "shutdown"}
    BY Zenon, <1>11 DEF NotOverloaded, Overloaded, CheckProgress, ProgressNotified, LeaveLoop,
        loopOnly
  <2>2. QED
    BY Zenon, <1>4, <2>1 DEF PhaseInv, TickIsIsolated
<1>12. CASE Cancel
  BY Zenon, <1>4, <1>12 DEF Cancel, loopOnly, tickVars, PhaseInv, TickIsIsolated
<1>13. CASE \E d \in Worlds : WorldTicked(d) \/ WorldPanics(d)
  <2>1. PICK d \in Worlds : WorldTicked(d) \/ WorldPanics(d)
    BY Zenon, <1>13
  <2>2. /\ UNCHANGED <<phase, cutoff>> /\ ticking # {} /\ ticking' \subseteq ticking
        /\ loop' = loop \/ (loop = "worlds" /\ loop' = "shutdown")
    BY Zenon, <2>1 DEF WorldTicked, WorldPanics, loopOnly
  <2>3. QED
    BY Zenon, <1>4, <2>2 DEF PhaseInv, TickIsIsolated
<1>14. QED
  BY Zenon, <1>5, <1>6, <1>7, <1>8, <1>9, <1>10, <1>11, <1>12, <1>13 DEF LoopStep

-----------------------------------------------------------------------------
(* Theorems                                                                *)

\* Every step of the specification keeps the invariant.
LEMMA ProcessorStep == ProcessorInv /\ [Next]_vars => ProcessorInv'
<1> SUFFICES ASSUME ProcessorInv, [Next]_vars PROVE ProcessorInv'
  BY Zenon
<1> USE DEF ProcessorInv
<1>1. ASSUME NEW k \in Lanes, NEW e \in Executions, Submit(k, e) PROVE ProcessorInv'
  BY Zenon, <1>1, SubmitKeeps
<1>2. ASSUME NEW k \in Lanes, Refuse(k) \/ ScheduleClosed(k) PROVE ProcessorInv'
  <2>1. DiscardLane(k) /\ UNCHANGED <<phase, cutoff, nextSequence, flags, work, tickVars>>
    BY Zenon, <1>2 DEF Refuse, ScheduleClosed
  <2>2. QED
    BY Zenon, <2>1, DiscardKeeps
<1>3. ASSUME NEW w \in Workers, StartNext(w) PROVE ProcessorInv'
  BY Zenon, <1>3, StartNextKeeps
<1>4. ASSUME NEW w \in Workers, Handle(w) PROVE ProcessorInv'
  BY Zenon, <1>4, FinishOneKeeps DEF Handle
<1>5. ASSUME NEW w \in Workers, HandlerPanics(w) PROVE ProcessorInv'
  BY Zenon, <1>5, FinishOneKeeps DEF HandlerPanics
<1>6. ASSUME (\E w \in Workers : Wait(w) \/ Run(w) \/ WorkerLost(w)) \/ (\E k \in Lanes : Close(k)) \/ UNCHANGED vars
      PROVE  ProcessorInv'
  <2>1. /\ UNCHANGED <<phase, cutoff, lanes, heaps, nextSequence, flags, work, tickVars>>
        /\ worker' \in [Workers -> WorkerStates]
        /\ \A w \in Workers : worker'[w] = "handling" <=> worker[w] = "handling"
    <3>1. CASE \E w \in Workers : Wait(w) \/ WorkerLost(w)
      <4>1. PICK w \in Workers : Wait(w) \/ WorkerLost(w)
        BY Zenon, <3>1
      <4>2. /\ UNCHANGED <<phase, cutoff, lanes, heaps, nextSequence, flags, work, tickVars>>
            /\ worker[w] \in {"next", "unwound"}
            /\ \/ worker' = [worker EXCEPT ![w] = "stopped"]
               \/ worker' = [worker EXCEPT ![w] = "waiting"]
               \/ worker' = [worker EXCEPT ![w] = "lost"]
        BY <4>1, Zenon DEF Wait, WorkerLost
      <4>3. QED
        BY Zenon, <4>2 DEF QueueTypes, WorkerStates
    <3>2. CASE (\E k \in Lanes : Close(k)) \/ \E w \in Workers : Run(w)
      BY Zenon, <3>2 DEF Close, Run, threads, QueueTypes
    <3>3. CASE UNCHANGED vars
      BY Zenon, <3>3 DEF vars, threads, QueueTypes
    <3>4. QED
      BY Zenon, <1>6, <3>1, <3>2, <3>3
  <2>2. UNCHANGED <<active, serializedActive, exclusiveActive, loop, ticking>>
    BY Zenon, <2>1 DEF flags, tickVars
  <2>3. /\ QueueTypes' /\ LaneInv' /\ HeapInv' /\ HandInv' /\ StartedInOrder'
        /\ Handling' = Handling /\ AllQueued' = AllQueued
    <3>1. phase' \in {"Open", "Draining", "Closed", "Stopped"} /\ cutoff' \in Nat
          /\ cutoff' <= nextSequence
      BY Zenon, <2>1 DEF QueueTypes
    <3>2. QED
      BY Zenon, <2>1, <2>2, <3>1, QueueKept
  <2>4. PhaseInv' /\ TickIsIsolated'
    BY Zenon, <2>1, <2>2, <2>3, BoundaryKept
  <2>5. QED
    BY Zenon, <2>3, <2>4
<1>7. ASSUME Stop PROVE ProcessorInv'
  BY Zenon, <1>7, StopKeeps
<1>8. ASSUME LoopStep PROVE ProcessorInv'
  BY Zenon, <1>8, LoopStepKeeps
<1>9. QED
  BY ZenonT(40), <1>1, <1>2, <1>3, <1>4, <1>5, <1>6, <1>7, <1>8 DEF Next, GameLoop, LoopStep

\* The invariant holds in every reachable state.
LEMMA ProcessorAlways == Spec => []ProcessorInv
<1>1. Init => ProcessorInv
  BY Zenon, ProcessorInit
<1>2. ProcessorInv /\ [Next]_vars => ProcessorInv'
  BY Zenon, ProcessorStep
<1>3. QED
  BY <1>1, <1>2, PTL DEF Spec

\* For any sessions, workers, worlds and limits: from the end of
\* drain_for_tick until open(), and as long as a world ticks, no packet
\* handler runs and no packet from before the boundary is left.
THEOREM TicksAreIsolated == Spec => []TickIsIsolated
<1>1. ProcessorInv => TickIsIsolated
  BY Zenon DEF ProcessorInv
<1>2. QED
  BY <1>1, ProcessorAlways, PTL

\* For any sessions, workers, worlds and limits: what select_next starts has
\* no unfinished predecessor of its session or across a barrier.
THEOREM PacketsStartInOrder == Spec => []StartedInOrder
<1>1. ProcessorInv => StartedInOrder
  BY Zenon DEF ProcessorInv
<1>2. QED
  BY <1>1, ProcessorAlways, PTL
\* For any sessions, workers, worlds and limits: the heaps, the lanes, their
\* budgets and the flags of the packets in hand describe the same queue, so
\* the asserts of start_next and finish_one hold.
THEOREM QueueIsConsistent == Spec => []IndexesAgree
<1>1. ASSUME ProcessorInv PROVE IndexesAgree
  <2> USE DEF ProcessorInv
  <2>1. ready = {Head(lanes[k].queued) :
                    k \in {j \in Lanes : ~lanes[j].active /\ lanes[j].queued # <<>>}}
    <3>1. \A k \in Lanes : lanes[k].queued # <<>> =>
             Head(lanes[k].queued) = lanes[k].queued[1] /\ lanes[k].queued[1] \in Packets
      BY SMTT(30), <1>1, LaneFacts
    <3>2. \A p : p \in ready <=> \E k \in Lanes : /\ ~lanes[k].active /\ lanes[k].queued # <<>>
                                                    /\ p = lanes[k].queued[1]
      BY Zenon, <1>1, <3>1 DEF HeapInv
    <3>3. QED
      BY SMTT(30), <3>1, <3>2
  <2>2. ordered = {p \in AllQueued : p.execution # "PlayerLocal"}
    <3>1. \A k \in Lanes : Queued(k) \subseteq Packets
      BY Zenon, <1>1, FrontIsEarliest
    <3>2. QED
      BY SMTT(30), <1>1, <3>1 DEF HeapInv, AllQueued
  <2>3. ASSUME NEW k \in Lanes
        PROVE  /\ \A m, n \in 1..Len(lanes[k].queued) :
                     m < n => lanes[k].queued[m].sequence < lanes[k].queued[n].sequence
               /\ lanes[k].active <=> \E w \in Workers : work[w] # NoWork /\ work[w].key = k
               /\ lanes[k].packets = Len(lanes[k].queued) + IF lanes[k].active THEN 1 ELSE 0
               /\ lanes[k].packets <= PacketLimit
    <3>1. LaneIsOrdered(k) /\ LaneIsCounted(k) /\ Len(lanes[k].queued) \in Nat
      BY Zenon, <1>1, LaneFacts DEF LaneInv
    <3>2. lanes[k].active <=> \E w \in Workers : work[w] # NoWork /\ work[w].key = k
      BY Zenon, <3>1 DEF LaneIsCounted, Busy
    <3>3. lanes[k].packets = Len(lanes[k].queued) + IF lanes[k].active THEN 1 ELSE 0
      <4>1. CASE lanes[k].active
        BY Zenon, <3>1, <4>1 DEF LaneIsCounted
      <4>2. CASE ~lanes[k].active
        BY <3>1, <4>2 DEF LaneIsCounted
      <4>3. QED
        BY <4>1, <4>2, Zenon
    <3>4. QED
      BY <3>1, <3>2, <3>3, Zenon DEF LaneIsOrdered, LaneIsCounted
  <2>4. ASSUME NEW p \in AllQueued \cup Handling
        PROVE  p \in Packets /\ p.sequence < nextSequence
    <3>1. CASE p \in AllQueued
      <4>1. PICK k \in Lanes : p \in Queued(k)
        BY Zenon, <3>1 DEF AllQueued
      <4>2. PICK n \in 1..Len(lanes[k].queued) : p = lanes[k].queued[n]
        BY Zenon, <4>1 DEF Queued
      <4>3. QED
        BY Zenon, <1>1, <4>2, LaneFacts
    <3>2. CASE p \in Handling
      <4>1. PICK w \in Busy : p = work[w]
        BY Zenon, <1>1, <3>2, HandlingIsBusy
      <4>2. QED
        BY Zenon, <1>1, <4>1 DEF HandInv, QueueTypes, Busy
    <3>3. QED
      BY Zenon, <3>1, <3>2
  <2>5. /\ serializedActive <=> Of(Handling, "Serialized") # {}
        /\ exclusiveActive <=> Of(Handling, "Exclusive") # {}
    <3>1. Handling = {work[w] : w \in Busy}
      BY Zenon, <1>1, HandlingIsBusy
    <3>2. QED
      BY Zenon, <1>1, <3>1 DEF HandInv, Of
  <2>6. phase \in {"Open", "Draining", "Closed", "Stopped"}
    BY Zenon, <1>1 DEF QueueTypes
  <2>7. QED
    BY <2>1, <2>2, <2>3, <2>4, <2>5, <2>6, Zenon DEF IndexesAgree
<1>2. QED
  BY <1>1, ProcessorAlways, PTL
=============================================================================
