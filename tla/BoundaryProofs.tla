--------------------------- MODULE BoundaryProofs ---------------------------
(***************************************************************************)
(* Proofs about the two halves of a scheduling boundary.                   *)
(*                                                                         *)
(* The epoch handoff (ChunkScheduling), for every set of positions and     *)
(* tickets, every propagation rule and every bound.  The argument follows  *)
(* one operation: the log of all operations is cut into those applied to   *)
(* the manager, those the worker took and those still queued; both cuts    *)
(* fall between two revisions; and the manager holds exactly the tickets   *)
(* of the applied part.                                                    *)
(*                                                                         *)
(* The readiness commit (FullReadiness), for every set of chunks and every *)
(* symmetric neighbourhood.  The argument says, for each moment of the     *)
(* commit, who still has to notice a change: a contributor is the current  *)
(* Full holder unless something is left to reconcile it, and a readiness   *)
(* is what the contributors permit unless its centre is dirty.             *)
(***************************************************************************)
EXTENDS ChunkScheduling, FullReadiness, FiniteSetTheorems, TLAPS

-----------------------------------------------------------------------------
(* The readiness commit: the inductive invariant.                          *)

\* A chunk holder.
Holders == [id : 0 .. MaxHolders, place : {"none", "active", "unloading"},
            load : LoadLevels, sim : SimulationLevels, made : Unmade .. Announced,
            ready : Unready .. EntityReady, live : BOOLEAN]

\* A neighbourhood index.
Indices == [contributors : [Chunks -> 0 .. MaxHolders],
            counts : [{1, 2} -> [Chunks -> Nat]],
            dirty : SUBSET Chunks, failed : BOOLEAN]

\* The contributors of the square of radius r around p.
Contributing(c, r, p) == {q \in Near(r, p) : c[q] # 0}

\* Each count is the number of contributors of its square.
Counted(x) ==
    \A r \in {1, 2}, p \in Chunks :
        x.counts[r][p] = Cardinality(Contributing(x.contributors, r, p))

\* The variables have their types.
CommitTypes ==
    /\ wanted \in [Chunks -> Wants]
    /\ holder \in [Chunks -> Holders]
    /\ Index \in Indices
    /\ pendingReadiness \in [Chunks -> 0 .. MaxHolders]
    /\ publications \subseteq Chunks \X (1 .. MaxHolders)
    /\ drained \subseteq Chunks \X (1 .. MaxHolders)
    /\ deferred \subseteq Chunks /\ changed \subseteq Chunks /\ todo \subseteq Chunks
    /\ phase \in {"idle", "demote", "levels", "contribute"}
    /\ rebuild \in BOOLEAN

\* What holds of a holder by where it is: the one of no chunk has made nothing
\* and leaves room for the next, one outside the active map is not ready.
HolderShape ==
    \A p \in Chunks :
        /\ holder[p].place = "none" =>
              /\ holder[p].made = Unmade
              /\ holder[p].id < MaxHolders
        /\ holder[p].place # "active" =>
              /\ holder[p].ready = Unready /\ ~holder[p].live
              /\ holder[p].load = Unloaded
        /\ holder[p].place # "none" => holder[p].id # 0

\* p holds an active Full chunk with a full level.
FullAt(p) == Active(p) /\ holder[p].load >= Full /\ holder[p].made >= Initialized

\* A contributor is the holder of an active Full chunk with a full level.
ContributorShape ==
    \A p \in Chunks : contributors[p] # 0 => FullAt(p) /\ contributors[p] = holder[p].id

\* Where the commit is: between boundaries its lists are empty, and before a
\* level changes, the changes already treated have lost what their new level
\* forbids.
CommitShape ==
    /\ phase = "idle" => /\ changed = {} /\ todo = {} /\ drained = {}
                         /\ dirtyCenters = {} /\ ~rebuild
    /\ phase = "demote" =>
          /\ changed = {} => dirtyCenters = {}
          /\ \A p \in todo : p \in changed
          /\ \A p \in changed \ todo :
                Active(p) /\ wanted[p].load < Full => contributors[p] = 0
    /\ phase = "levels" =>
          /\ todo \subseteq changed /\ changed \subseteq dirtyCenters
          /\ \A p \in todo :
                /\ wanted[p].load < Full => contributors[p] = 0
                /\ wanted[p].load < BlockTicking => holder[p].ready = Unready
                /\ wanted[p].load = Unloaded => pendingReadiness[p] = 0
    /\ phase = "contribute" => changed \subseteq dirtyCenters

\* A ready chunk is surrounded by contributors, but for those this commit has
\* just removed; then the chunk is dirty and is demoted before any level drops.
ReadyShape ==
    \A p \in Chunks, r \in {1, 2} :
        holder[p].ready >= r =>
            \A q \in Near(r, p) :
                \/ contributors[q] # 0
                \/ phase = "demote" /\ p \in dirtyCenters /\ FullAt(q)

\* Each chunk of the square of radius r around p contributes.
AllContribute(c, r, p) == \A q \in Near(r, p) : c[q] # 0

\* The readiness that level and contributors permit.
Permitted(c, h, load, p) ==
    IF h.made < Initialized THEN Unready
    ELSE IF load >= EntityTicking /\ AllContribute(c, 2, p) THEN EntityReady
    ELSE IF load >= BlockTicking /\ AllContribute(c, 1, p) THEN BlockReady
    ELSE Unready

\* The readiness of a clean centre is the permitted one.
ReadyFresh ==
    \A p \in Chunks :
        Active(p) /\ p \notin dirtyCenters =>
            holder[p].ready = Permitted(contributors, holder[p], holder[p].load, p)

\* A contributor is the current Full holder, or something is left that will
\* reconcile it: a queued or drained publication, a producer about to queue
\* one, or a change of this commit.
NoLostWakeUp ==
    \A p \in Chunks :
        \/ contributors[p] = CurrentFullContributor(p)
        \/ <<p, holder[p].id>> \in publications
        \/ holder[p].made = Initialized
        \/ phase \in {"demote", "levels"} /\ p \in changed
        \/ /\ phase = "contribute" /\ p \in todo
           /\ p \in changed \/ <<p, holder[p].id>> \in drained

\* The block entities of an announced Full chunk are live, or a publication is
\* left that will activate them.
BlockEntitiesLive ==
    \A p \in Chunks :
        Active(p) /\ holder[p].made = Announced /\ holder[p].load >= Full =>
            \/ holder[p].live
            \/ <<p, holder[p].id>> \in publications
            \/ phase = "contribute" /\ p \in todo /\ <<p, holder[p].id>> \in drained

\* The save of a clean centre is held back exactly while it waits.
PendingShape ==
    \A p \in Chunks :
        /\ ~Active(p) => pendingReadiness[p] = 0
        /\ Active(p) /\ p \notin dirtyCenters =>
              pendingReadiness[p] =
                  IF holder[p].ready < DesiredReadiness(holder[p].load)
                  THEN holder[p].id ELSE 0

\* Unless a rebuild is asked for, the snapshot is what a rebuild would give,
\* and the simulation level of a ready chunk does not change.
SnapshotShape ==
    ~rebuild =>
        /\ snapshot = RebuiltSnapshot(holder)
        /\ \A p \in Chunks :
              /\ Active(p) /\ holder[p].ready # Unready
              /\ \/ phase = "demote" /\ p \in changed
                 \/ phase = "levels" /\ p \in todo
              => holder[p].sim = wanted[p].sim

\* The inductive invariant of the readiness commit.
ReadinessInv ==
    /\ CommitTypes /\ Counted(Index) /\ ~failed
    /\ HolderShape /\ ContributorShape /\ CommitShape
    /\ ReadyShape /\ ReadyFresh
    /\ NoLostWakeUp /\ BlockEntitiesLive
    /\ PendingShape /\ SnapshotShape

-----------------------------------------------------------------------------
(* The index.                                                              *)

\* The contributors of a square are finitely many and no more than its size.
LEMMA ContributingFinite ==
    ASSUME NEW c, NEW r \in {1, 2}, NEW p \in Chunks
    PROVE  /\ IsFiniteSet(Contributing(c, r, p)) /\ IsFiniteSet(Near(r, p))
           /\ Cardinality(Contributing(c, r, p)) \in Nat
           /\ Cardinality(Near(r, p)) \in Nat
           /\ Cardinality(Contributing(c, r, p)) <= Cardinality(Near(r, p))
           /\ (Cardinality(Contributing(c, r, p)) = Cardinality(Near(r, p)))
                 => Contributing(c, r, p) = Near(r, p)
<1>1. IsFiniteSet(Near(r, p)) /\ Contributing(c, r, p) \subseteq Near(r, p)
  BY Zenon, NearAssumption DEF Contributing
<1>2. IsFiniteSet(Contributing(c, r, p))
        /\ Cardinality(Contributing(c, r, p)) <= Cardinality(Near(r, p))
        /\ (Cardinality(Contributing(c, r, p)) = Cardinality(Near(r, p))
              => Contributing(c, r, p) = Near(r, p))
  BY <1>1, FS_Subset, Zenon
<1> QED
  BY <1>1, <1>2, FS_CardinalityType, Zenon

\* A square is fully counted exactly when each of its positions contributes.
LEMMA CountedSquare ==
    ASSUME NEW x \in Indices, Counted(x), NEW r \in {1, 2}, NEW p \in Chunks
    PROVE  (x.counts[r][p] = Cardinality(Near(r, p)))
             <=> \A q \in Near(r, p) : x.contributors[q] # 0
<1> DEFINE C == Contributing(x.contributors, r, p)
<1>1. x.counts[r][p] = Cardinality(C)
  BY Zenon DEF Counted
<1>2. Cardinality(C) = Cardinality(Near(r, p)) => C = Near(r, p)
  BY ContributingFinite, Zenon
<1>3. (C = Near(r, p)) <=> \A q \in Near(r, p) : x.contributors[q] # 0
  BY Zenon DEF Contributing
<1> QED
  BY <1>1, <1>2, <1>3, Zenon

\* Counting one more contributor.
LEMMA ContributingAdd ==
    ASSUME NEW c \in [Chunks -> 0 .. MaxHolders], NEW p \in Chunks,
           NEW id \in 1 .. MaxHolders, c[p] = 0,
           NEW r \in {1, 2}, NEW q \in Chunks, NEW d, d = [c EXCEPT ![p] = id]
    PROVE  Cardinality(Contributing(d, r, q)) =
                   IF q \in Near(r, p) THEN Cardinality(Contributing(c, r, q)) + 1
                   ELSE Cardinality(Contributing(c, r, q))
<1>0. (q \in Near(r, p) <=> p \in Near(r, q)) /\ Near(r, q) \subseteq Chunks
  BY Zenon, NearAssumption
<1>1. CASE q \in Near(r, p)
  <2>1. Contributing(d, r, q) = Contributing(c, r, q) \cup {p}
    BY <1>0, <1>1 DEF Contributing
  <2>2. p \notin Contributing(c, r, q)
    BY Zenon DEF Contributing
  <2>3. IsFiniteSet(Contributing(c, r, q))
    BY ContributingFinite, Zenon
  <2>4. Cardinality(Contributing(c, r, q) \cup {p}) = Cardinality(Contributing(c, r, q)) + 1
    BY <2>2, <2>3, FS_AddElement, Zenon
  <2> QED
    BY <1>1, <2>1, <2>4, Zenon
<1>2. CASE q \notin Near(r, p)
  <2>1. Contributing(d, r, q) = Contributing(c, r, q)
    BY Zenon, <1>0, <1>2 DEF Contributing
  <2> QED
    BY <1>2, <2>1, Zenon
<1> QED
  BY <1>1, <1>2, Zenon

\* Counting one contributor less.
LEMMA ContributingRemove ==
    ASSUME NEW c \in [Chunks -> 0 .. MaxHolders], NEW p \in Chunks, c[p] # 0,
           NEW r \in {1, 2}, NEW q \in Chunks, NEW d, d = [c EXCEPT ![p] = 0]
    PROVE  Cardinality(Contributing(d, r, q)) =
                   IF q \in Near(r, p) THEN Cardinality(Contributing(c, r, q)) - 1
                   ELSE Cardinality(Contributing(c, r, q))
<1>0. (q \in Near(r, p) <=> p \in Near(r, q)) /\ Near(r, q) \subseteq Chunks
  BY Zenon, NearAssumption
<1>1. CASE q \in Near(r, p)
  <2>1. Contributing(d, r, q) = Contributing(c, r, q) \ {p}
    BY Zenon, <1>0, <1>1 DEF Contributing
  <2>2. p \in Contributing(c, r, q)
    BY Zenon, <1>0, <1>1 DEF Contributing
  <2>3. IsFiniteSet(Contributing(c, r, q))
    BY ContributingFinite, Zenon
  <2>4. Cardinality(Contributing(c, r, q) \ {p}) = Cardinality(Contributing(c, r, q)) - 1
    BY <2>2, <2>3, FS_RemoveElement, Zenon
  <2> QED
    BY <1>1, <2>1, <2>4, Zenon
<1>2. CASE q \notin Near(r, p)
  <2>1. Contributing(d, r, q) = Contributing(c, r, q)
    BY Zenon, <1>0, <1>2 DEF Contributing
  <2> QED
    BY <1>2, <2>1, Zenon
<1> QED
  BY <1>1, <1>2, Zenon

\* add_contributor counts exactly the new contributor and never overflows.
LEMMA AddCounts ==
    ASSUME NEW x \in Indices, Counted(x), ~x.failed, NEW p \in Chunks,
           x.contributors[p] = 0, NEW id \in 1 .. MaxHolders
    PROVE  LET y == AddContributor(x, p, id)
           IN  /\ y \in Indices /\ Counted(y) /\ ~y.failed
               /\ y.contributors = [x.contributors EXCEPT ![p] = id]
               /\ y.dirty = x.dirty \cup Near(1, p) \cup Near(2, p)
<1> DEFINE d == [x.contributors EXCEPT ![p] = id]
           Counts(r) == [q \in Chunks |->
                           IF q \in Near(r, p) THEN x.counts[r][q] + 1 ELSE x.counts[r][q]]
           y == [contributors |-> d, counts |-> [r \in {1, 2} |-> Counts(r)],
                 dirty |-> x.dirty \cup Near(1, p) \cup Near(2, p), failed |-> x.failed]
<1>1. x.contributors \in [Chunks -> 0 .. MaxHolders]
      /\ x.counts \in [{1, 2} -> [Chunks -> Nat]] /\ x.dirty \subseteq Chunks
      /\ x.failed \in BOOLEAN
  BY Zenon DEF Indices
<1>2. d \in [Chunks -> 0 .. MaxHolders]
  BY <1>1
<1>3. ASSUME NEW r \in {1, 2}, NEW q \in Chunks
      PROVE  Counts(r)[q] = Cardinality(Contributing(d, r, q))
  <2>1. x.counts[r][q] = Cardinality(Contributing(x.contributors, r, q))
    BY Zenon DEF Counted
  <2>2. Cardinality(Contributing(d, r, q)) =
            IF q \in Near(r, p) THEN Cardinality(Contributing(x.contributors, r, q)) + 1
            ELSE Cardinality(Contributing(x.contributors, r, q))
    BY <1>1, ContributingAdd
  <2> QED
    BY <2>1, <2>2, Zenon
<1>4. ASSUME NEW r \in {1, 2}, NEW q \in Near(r, p)
      PROVE  Counts(r)[q] \in 0 .. Cardinality(Near(r, q))
  <2>1. q \in Chunks
    BY Zenon, NearAssumption
  <2> HIDE DEF Counts, d
  <2>2. Counts(r)[q] = Cardinality(Contributing(d, r, q))
    BY <1>3, <2>1, Zenon
  <2>3. Cardinality(Contributing(d, r, q)) \in Nat /\ Cardinality(Near(r, q)) \in Nat
        /\ Cardinality(Contributing(d, r, q)) <= Cardinality(Near(r, q))
    BY <2>1, ContributingFinite, Zenon
  <2> QED
    BY <2>2, <2>3
<1>5. AddContributor(x, p, id) = y
  BY <1>4, Zenon DEF AddContributor, Adjusted
<1>6. Near(1, p) \subseteq Chunks /\ Near(2, p) \subseteq Chunks
  BY Zenon, NearAssumption
<1>7. y \in Indices
  BY <1>1, <1>2, <1>6 DEF Indices
<1>8. Counted(y)
  BY <1>3 DEF Counted
<1> QED
  BY <1>5, <1>7, <1>8

\* remove_contributor likewise, and never underflows.
LEMMA RemoveCounts ==
    ASSUME NEW x \in Indices, Counted(x), ~x.failed, NEW p \in Chunks,
           x.contributors[p] # 0
    PROVE  LET y == RemoveContributor(x, p)
           IN  /\ y \in Indices /\ Counted(y) /\ ~y.failed
               /\ y.contributors = [x.contributors EXCEPT ![p] = 0]
               /\ y.dirty = x.dirty \cup Near(1, p) \cup Near(2, p)
<1> DEFINE d == [x.contributors EXCEPT ![p] = 0]
           Counts(r) == [q \in Chunks |->
                           IF q \in Near(r, p) THEN x.counts[r][q] + (-1) ELSE x.counts[r][q]]
           y == [contributors |-> d, counts |-> [r \in {1, 2} |-> Counts(r)],
                 dirty |-> x.dirty \cup Near(1, p) \cup Near(2, p), failed |-> x.failed]
<1>1. x.contributors \in [Chunks -> 0 .. MaxHolders]
      /\ x.counts \in [{1, 2} -> [Chunks -> Nat]] /\ x.dirty \subseteq Chunks
      /\ x.failed \in BOOLEAN
  BY Zenon DEF Indices
<1>2. d \in [Chunks -> 0 .. MaxHolders]
  BY <1>1, BoundAssumption
<1>3. ASSUME NEW r \in {1, 2}, NEW q \in Chunks
      PROVE  /\ Counts(r)[q] = Cardinality(Contributing(d, r, q))
             /\ Counts(r)[q] \in Nat
  <2>1. x.counts[r][q] = Cardinality(Contributing(x.contributors, r, q))
        /\ x.counts[r][q] \in Nat
    BY Zenon, <1>1 DEF Counted
  <2>2. Cardinality(Contributing(d, r, q)) =
            IF q \in Near(r, p) THEN Cardinality(Contributing(x.contributors, r, q)) - 1
            ELSE Cardinality(Contributing(x.contributors, r, q))
    BY <1>1, ContributingRemove
  <2>3. Cardinality(Contributing(d, r, q)) \in Nat
    BY ContributingFinite, Zenon
  <2> QED
    BY Zenon, <2>1, <2>2, <2>3
<1>4. ASSUME NEW r \in {1, 2}, NEW q \in Near(r, p)
      PROVE  Counts(r)[q] \in 0 .. Cardinality(Near(r, q))
  <2>1. q \in Chunks
    BY Zenon, NearAssumption
  <2> HIDE DEF Counts, d
  <2>2. Counts(r)[q] = Cardinality(Contributing(d, r, q))
    BY <1>3, <2>1, Zenon
  <2>3. Cardinality(Contributing(d, r, q)) \in Nat /\ Cardinality(Near(r, q)) \in Nat
        /\ Cardinality(Contributing(d, r, q)) <= Cardinality(Near(r, q))
    BY <2>1, ContributingFinite, Zenon
  <2> QED
    BY <2>2, <2>3
<1>5. RemoveContributor(x, p) = y
  BY <1>4, Zenon DEF RemoveContributor, Adjusted
<1>6. Near(1, p) \subseteq Chunks /\ Near(2, p) \subseteq Chunks
  BY Zenon, NearAssumption
<1>7. y \in Indices
  <2>1. \A r \in {1, 2} : Counts(r) \in [Chunks -> Nat]
    BY Zenon, <1>3
  <2> HIDE DEF Counts, d
  <2> QED
    BY Zenon, <1>1, <1>2, <1>6, <2>1 DEF Indices
<1>8. Counted(y)
  BY Zenon, <1>3 DEF Counted
<1> QED
  BY <1>5, <1>7, <1>8

\* target_ticking_readiness reads the counts; this is what it permits.
LEMMA TargetPermitted ==
    ASSUME NEW x \in Indices, Counted(x), NEW h, NEW load, NEW p \in Chunks
    PROVE  TargetReadiness(x, h, load, p) = Permitted(x.contributors, h, load, p)
<1>1. (x.counts[1][p] = Cardinality(Near(1, p))) <=> AllContribute(x.contributors, 1, p)
  BY Zenon, CountedSquare DEF AllContribute
<1>2. (x.counts[2][p] = Cardinality(Near(2, p))) <=> AllContribute(x.contributors, 2, p)
  BY Zenon, CountedSquare DEF AllContribute
<1> QED
  BY <1>1, <1>2, Zenon DEF TargetReadiness, Permitted

\* The fields of a holder have their types.
LEMMA HolderTypes ==
    ASSUME CommitTypes, NEW p \in Chunks
    PROVE  /\ holder[p] \in Holders
           /\ holder[p].id \in 0 .. MaxHolders
           /\ holder[p].place \in {"none", "active", "unloading"}
           /\ holder[p].load \in 0 .. 4 /\ holder[p].sim \in {0, 3, 4}
           /\ holder[p].made \in 0 .. 3 /\ holder[p].ready \in 0 .. 2
           /\ holder[p].live \in BOOLEAN
           /\ wanted[p].load \in 0 .. 4 /\ wanted[p].sim \in {0, 3, 4}
  BY Zenon DEF CommitTypes, Holders, Wants, LoadLevels, SimulationLevels, Unloaded,
         BlockTicking, EntityTicking, Unmade, Announced, Unready, EntityReady

\* The fields of the index have their types.
LEMMA IndexTypes ==
    ASSUME CommitTypes
    PROVE  /\ contributors \in [Chunks -> 0 .. MaxHolders]
           /\ counts \in [{1, 2} -> [Chunks -> Nat]]
           /\ dirtyCenters \subseteq Chunks /\ failed \in BOOLEAN
           /\ Index.contributors = contributors /\ Index.counts = counts
           /\ Index.dirty = dirtyCenters /\ Index.failed = failed
  BY Zenon DEF CommitTypes, Index, Indices

\* A chunk that is ready belongs to the snapshot according to its simulation
\* level alone.
LEMMA MembershipSim ==
    ASSUME NEW ready, ready # Unready, NEW s \in {0, 3, 4}, NEW t \in {0, 3, 4},
           SnapshotMembership(ready, s) = SnapshotMembership(ready, t)
    PROVE  s = t
<1>1. SnapshotMembership(ready, s).block = SnapshotMembership(ready, t).block
      /\ SnapshotMembership(ready, s).random = SnapshotMembership(ready, t).random
  BY Zenon
<1>2. ((s >= 3) <=> (t >= 3)) /\ ((s >= 4) <=> (t >= 4))
  BY Zenon, <1>1 DEF SnapshotMembership, BlockTicking, EntityTicking
<1> QED
  BY <1>2

\* A chunk that is not ready is not in the snapshot.
LEMMA UnreadyNotShown ==
    ASSUME NEW ready, ready = Unready, NEW sim
    PROVE  ~SnapshotMembership(ready, sim).block
  BY Zenon DEF SnapshotMembership

-----------------------------------------------------------------------------
(* The steps.                                                              *)

\* A new epoch changes no level yet.
LEMMA BeginKeeps ==
    ASSUME ReadinessInv, NEW new \in [Chunks -> Wants], Begin(new)
    PROVE  ReadinessInv'
<1> DEFINE fresh == {p \in Chunks : new[p] # wanted[p]} \cup deferred
<1>0. CommitTypes /\ Counted(Index) /\ ~failed /\ HolderShape /\ ContributorShape
      /\ CommitShape /\ ReadyShape /\ ReadyFresh /\ NoLostWakeUp /\ BlockEntitiesLive
      /\ PendingShape /\ SnapshotShape
  BY Zenon DEF ReadinessInv
<1>1. /\ phase = "idle" /\ phase' = "demote"
      /\ wanted' = new /\ deferred' = {} /\ changed' = fresh
      /\ todo' = {p \in fresh : Active(p) /\ new[p].load < Full}
      /\ rebuild' = SimulationChangesSnapshot(fresh, new)
      /\ UNCHANGED <<holder, contributors, counts, dirtyCenters, pendingReadiness,
                     publications, snapshot, drained, failed>>
  BY Zenon DEF Begin, index
<1>2. dirtyCenters = {} /\ ~rebuild
  BY <1>0, <1>1, Zenon DEF CommitShape
<1>3. Index' = Index
  BY <1>1, Zenon DEF Index
<1>4. CommitTypes'
  BY Zenon, <1>0, <1>1, <1>3 DEF CommitTypes, SimulationChangesSnapshot
<1>5. Counted(Index)' /\ ~failed'
  BY <1>0, <1>1, <1>3, Zenon DEF Counted
<1>6. HolderShape' /\ ContributorShape' /\ ReadyFresh' /\ PendingShape'
  BY <1>0, <1>1, Zenon DEF HolderShape, ContributorShape, ReadyFresh, PendingShape, FullAt, Active
<1>7. CommitShape'
  BY Zenon, <1>0, <1>1, <1>2 DEF CommitShape, Active
<1>8. ReadyShape'
  BY Zenon, <1>0, <1>1 DEF ReadyShape, FullAt, Active
<1>9. NoLostWakeUp' /\ BlockEntitiesLive'
  BY Zenon, <1>0, <1>1 DEF NoLostWakeUp, BlockEntitiesLive, CurrentFullContributor, Active
<1>10. SnapshotShape'
  <2> SUFFICES ASSUME ~rebuild'
               PROVE  /\ snapshot' = RebuiltSnapshot(holder')
                      /\ \A p \in Chunks :
                            Active(p)' /\ holder'[p].ready # Unready /\ p \in changed'
                              => holder'[p].sim = wanted'[p].sim
    BY Zenon, <1>1 DEF SnapshotShape
  <2>1. snapshot' = RebuiltSnapshot(holder')
    BY <1>0, <1>1, <1>2, Zenon DEF SnapshotShape
  <2>2. ASSUME NEW p \in Chunks, Active(p), holder[p].ready # Unready, p \in fresh
        PROVE  holder[p].sim = new[p].sim
    <3>1. SnapshotMembership(holder[p].ready, holder[p].sim)
            = SnapshotMembership(holder[p].ready, new[p].sim)
      BY <1>1, <2>2, ZenonT(40) DEF SimulationChangesSnapshot
    <3>2. holder[p].sim \in {0, 3, 4} /\ new[p].sim \in {0, 3, 4}
      BY Zenon, <1>0, <1>1, <1>4, HolderTypes DEF Wants, SimulationLevels, Unloaded, BlockTicking, EntityTicking
    <3> QED
      BY <2>2, <3>1, <3>2, MembershipSim, Zenon
  <2> QED
    BY <1>1, <2>1, <2>2, ZenonT(40) DEF Active
<1> QED
  BY <1>4, <1>5, <1>6, <1>7, <1>8, <1>9, <1>10, Zenon DEF ReadinessInv

\* What installing an updated index does.
LEMMA SetIndexIs ==
    ASSUME NEW y \in Indices, Counted(y), ~y.failed, SetIndex(y)
    PROVE  /\ Index' = y /\ Counted(Index)' /\ ~failed'
           /\ contributors' = y.contributors /\ dirtyCenters' = y.dirty
<1>1. contributors' = y.contributors /\ counts' = y.counts /\ dirtyCenters' = y.dirty
      /\ failed' = y.failed
  BY Zenon DEF SetIndex
<1>2. y = [contributors |-> y.contributors, counts |-> y.counts, dirty |-> y.dirty,
           failed |-> y.failed]
  BY Zenon DEF Indices
<1>3. Index' = y
  BY <1>1, <1>2, Zenon DEF Index
<1>4. Counted(Index')
  BY <1>3, Zenon
<1>5. Counted(Index)'
  BY <1>4, Zenon DEF Counted
<1> QED
  BY <1>1, <1>3, <1>5, Zenon

\* A chunk about to lose its full level stops contributing, and the centres
\* it supported become dirty.
LEMMA RemoveLostKeeps ==
    ASSUME ReadinessInv, NEW p \in Chunks, RemoveLost(p)
    PROVE  ReadinessInv'
<1> DEFINE y == RemoveContributorIfMatches(Index, p, holder[p].id)
<1>0. CommitTypes /\ Counted(Index) /\ ~failed /\ HolderShape /\ ContributorShape
      /\ CommitShape /\ ReadyShape /\ ReadyFresh /\ NoLostWakeUp /\ BlockEntitiesLive
      /\ PendingShape /\ SnapshotShape
  BY Zenon DEF ReadinessInv
<1>1. /\ phase = "demote" /\ phase' = "demote" /\ p \in todo /\ todo' = todo \ {p}
      /\ SetIndex(y)
      /\ UNCHANGED <<wanted, holder, pendingReadiness, publications, snapshot, deferred,
                     changed, drained, rebuild>>
  BY Zenon DEF RemoveLost
<1>2. Index \in Indices /\ ~Index.failed /\ Index.contributors = contributors
      /\ Index.dirty = dirtyCenters
  BY <1>0, IndexTypes, Zenon DEF CommitTypes
<1>3. /\ y \in Indices /\ Counted(y) /\ ~y.failed
      /\ y.contributors = [contributors EXCEPT ![p] = 0]
      /\ contributors[p] = 0 => y.dirty = dirtyCenters
      /\ contributors[p] # 0 => y.dirty = dirtyCenters \cup Near(1, p) \cup Near(2, p)
  <2>1. CASE contributors[p] = 0
    <3>1. y = Index
      BY <1>2, <2>1, Zenon DEF RemoveContributorIfMatches
    <3>2. contributors = [contributors EXCEPT ![p] = 0]
      BY Zenon, <1>0, <2>1, IndexTypes
    <3> QED
      BY <1>0, <1>2, <2>1, <3>1, <3>2, Zenon
  <2>2. CASE contributors[p] # 0
    <3>1. contributors[p] = holder[p].id
      BY <1>0, <2>2, Zenon DEF ContributorShape
    <3>2. y = RemoveContributor(Index, p)
      BY <1>2, <2>2, <3>1, Zenon DEF RemoveContributorIfMatches
    <3> QED
      BY Zenon, <1>0, <1>2, <2>2, <3>2, RemoveCounts
  <2> QED
    BY <2>1, <2>2, Zenon
<1> HIDE DEF y
<1>4. /\ Index' = y /\ Counted(Index)' /\ ~failed'
      /\ contributors' = [contributors EXCEPT ![p] = 0]
      /\ contributors[p] = 0 => dirtyCenters' = dirtyCenters
      /\ contributors[p] # 0 => dirtyCenters' = dirtyCenters \cup Near(1, p) \cup Near(2, p)
  BY <1>1, <1>3, SetIndexIs, Zenon
<1>5. /\ contributors'[p] = 0
      /\ \A q \in Chunks : q # p => contributors'[q] = contributors[q]
      /\ dirtyCenters \subseteq dirtyCenters'
  BY Zenon, <1>0, <1>4, IndexTypes
<1>6. CommitTypes'
  BY Zenon, <1>0, <1>1, <1>3, <1>4 DEF CommitTypes
<1>7. HolderShape' /\ ContributorShape' /\ PendingShape' /\ BlockEntitiesLive'
      /\ SnapshotShape'
  <2>1. HolderShape' /\ BlockEntitiesLive'
    BY <1>0, <1>1, Zenon DEF HolderShape, BlockEntitiesLive, Active
  <2>2. ContributorShape'
    BY <1>0, <1>1, <1>5, Zenon DEF ContributorShape, FullAt, Active
  <2>3. PendingShape'
    BY Zenon, <1>0, <1>1, <1>5 DEF PendingShape, Active
  <2>4. SnapshotShape'
    BY Zenon, <1>0, <1>1 DEF SnapshotShape, Active
  <2> QED
    BY <2>1, <2>2, <2>3, <2>4, Zenon
<1>8. CommitShape'
  BY Zenon, <1>0, <1>1, <1>5, <1>6 DEF CommitShape, CommitTypes, Active
<1>9. ReadyShape'
  <2> SUFFICES ASSUME NEW s \in Chunks, NEW r \in {1, 2}, holder[s].ready >= r,
                      NEW q \in Near(r, s)
               PROVE  \/ contributors'[q] # 0
                      \/ s \in dirtyCenters' /\ FullAt(q)
    BY Zenon, <1>1 DEF ReadyShape, FullAt, Active
  <2>1. q \in Chunks /\ s \in Near(r, q) /\ (s \in Near(1, q) \/ s \in Near(2, q))
    BY Zenon, NearAssumption
  <2>2. contributors[q] # 0 \/ (s \in dirtyCenters /\ FullAt(q))
    BY <1>0, Zenon DEF ReadyShape
  <2>3. CASE q # p
    BY <1>5, <2>1, <2>2, <2>3, Zenon
  <2>4. CASE q = p /\ contributors[p] # 0
    <3>1. s \in dirtyCenters'
      BY Zenon, <1>4, <2>1, <2>4
    <3>2. FullAt(p)
      BY <1>0, <2>4, Zenon DEF ContributorShape
    <3> QED
      BY <2>4, <3>1, <3>2, Zenon
  <2>5. CASE q = p /\ contributors[p] = 0
    BY <1>4, <2>2, <2>5, Zenon
  <2> QED
    BY <2>3, <2>4, <2>5, ZenonT(40)
<1>10. ReadyFresh'
  <2> SUFFICES ASSUME NEW s \in Chunks, Active(s), s \notin dirtyCenters'
               PROVE  holder[s].ready = Permitted(contributors', holder[s], holder[s].load, s)
    BY <1>1, Zenon DEF ReadyFresh, Active
  <2>1. holder[s].ready = Permitted(contributors, holder[s], holder[s].load, s)
    BY <1>0, <1>5, Zenon DEF ReadyFresh
  <2>2. ASSUME NEW r \in {1, 2} PROVE AllContribute(contributors', r, s) <=> AllContribute(contributors, r, s)
    <3>1. CASE contributors[p] = 0
      <4>1. contributors' = contributors
        BY Zenon, <1>0, <1>4, <3>1, IndexTypes
      <4> QED
        BY <4>1, Zenon
    <3>2. CASE contributors[p] # 0
      <4>1. p \notin Near(r, s) /\ Near(r, s) \subseteq Chunks
        BY Zenon, <1>4, <3>2, NearAssumption
      <4> QED
        BY Zenon, <1>5, <4>1 DEF AllContribute
    <3> QED
      BY <3>1, <3>2, Zenon
  <2> QED
    BY Zenon, <2>1, <2>2 DEF Permitted
<1>11. NoLostWakeUp'
  <2>1. p \in changed
    BY <1>0, <1>1, Zenon DEF CommitShape
  <2> QED
    BY Zenon, <1>0, <1>1, <1>5, <2>1 DEF NoLostWakeUp, CurrentFullContributor, Active
<1> QED
  BY <1>4, <1>6, <1>7, <1>8, <1>9, <1>10, <1>11, Zenon DEF ReadinessInv

\* Snapshots of holders that agree on what the snapshot shows.
LEMMA SameSnapshot ==
    ASSUME NEW H, NEW K,
           \A p \in Chunks :
              /\ H[p].place = "active" /\ SnapshotMembership(H[p].ready, H[p].sim).block
                    <=> K[p].place = "active" /\ SnapshotMembership(K[p].ready, K[p].sim).block
              /\ (H[p].place = "active" /\ SnapshotMembership(H[p].ready, H[p].sim).block) =>
                    /\ H[p].id = K[p].id
                    /\ SnapshotMembership(H[p].ready, H[p].sim)
                          = SnapshotMembership(K[p].ready, K[p].sim)
    PROVE  RebuiltSnapshot(H) = RebuiltSnapshot(K)
<1> DEFINE In(J, q) == J[q].place = "active" /\ SnapshotMembership(J[q].ready, J[q].sim).block
           E(J, q) == [pos |-> q, id |-> J[q].id,
                       member |-> SnapshotMembership(J[q].ready, J[q].sim)]
<1>1. {q \in Chunks : In(H, q)} = {q \in Chunks : In(K, q)}
  BY Zenon
<1>2. \A q \in {c \in Chunks : In(H, c)} : E(H, q) = E(K, q)
  BY Zenon
<1>3. {E(H, q) : q \in {c \in Chunks : In(H, c)}} = {E(K, q) : q \in {c \in Chunks : In(K, c)}}
  <2> HIDE DEF In, E
  <2> QED
    BY Zenon, <1>1, <1>2
<1> QED
  BY <1>3, Zenon DEF RebuiltSnapshot

\* What a permitted readiness says of the square.
LEMMA PermittedIs ==
    ASSUME NEW c, NEW h, NEW load \in 0 .. 4, NEW p \in Chunks
    PROVE  /\ Permitted(c, h, load, p) \in 0 .. 2
           /\ \A r \in {1, 2} : Permitted(c, h, load, p) >= r => AllContribute(c, r, p)
           /\ load < BlockTicking => Permitted(c, h, load, p) = Unready
<1>1. AllContribute(c, 2, p) => AllContribute(c, 1, p)
  BY Zenon, NearAssumption DEF AllContribute
<1> QED
  BY <1>1 DEF Permitted, Unready, BlockReady, EntityReady, BlockTicking, EntityTicking

\* Demotion before the levels change.
LEMMA DemoteKeeps ==
    ASSUME ReadinessInv, Demote
    PROVE  ReadinessInv'
<1> DEFINE candidates == {p \in dirtyCenters \cup changed : changed # {} /\ Active(p)}
           load == [p \in Chunks |-> IF p \in changed THEN wanted[p].load ELSE holder[p].load]
           T(p) == TargetReadiness(Index, holder[p], load[p], p)
           demoted == [p \in Chunks |->
                        IF p \in candidates
                        THEN [holder[p] EXCEPT !.ready = Lower(@, T(p))]
                        ELSE holder[p]]
<1>0. CommitTypes /\ Counted(Index) /\ ~failed /\ HolderShape /\ ContributorShape
      /\ CommitShape /\ ReadyShape /\ ReadyFresh /\ NoLostWakeUp /\ BlockEntitiesLive
      /\ PendingShape /\ SnapshotShape
  BY Zenon DEF ReadinessInv
<1>1. /\ phase = "demote" /\ phase' = "levels" /\ todo = {} /\ todo' = changed
      /\ dirtyCenters' = dirtyCenters \cup changed
      /\ holder' = demoted
      /\ pendingReadiness' = PendingAfter(demoted, candidates, load)
      /\ rebuild' = (rebuild \/ ReadinessChangesSnapshot(demoted, candidates))
      /\ UNCHANGED <<wanted, contributors, counts, publications, snapshot, deferred,
                     changed, drained, failed>>
  BY Zenon DEF Demote
<1>2. changed \subseteq Chunks /\ dirtyCenters \subseteq Chunks /\ candidates \subseteq Chunks
  BY Zenon, <1>0, IndexTypes DEF CommitTypes
<1>3. ASSUME NEW p \in Chunks PROVE load[p] \in 0 .. 4
  BY Zenon, <1>0, HolderTypes
<1>4. ASSUME NEW p \in Chunks PROVE T(p) = Permitted(contributors, holder[p], load[p], p)
  <2>1. Index \in Indices /\ Counted(Index) /\ Index.contributors = contributors
    BY <1>0, IndexTypes, Zenon DEF CommitTypes
  <2> HIDE DEF load
  <2> QED
    BY <2>1, TargetPermitted, Zenon
<1>5. ASSUME NEW p \in candidates
      PROVE  /\ p \in Chunks
             /\ holder'[p] = [holder[p] EXCEPT !.ready = Lower(holder[p].ready, T(p))]
             /\ holder'[p].ready = Lower(holder[p].ready, T(p))
             /\ holder'[p].ready <= holder[p].ready /\ holder'[p].ready \in 0 .. 2
             /\ load[p] < BlockTicking => holder'[p].ready = Unready
             /\ \A r \in {1, 2} : holder'[p].ready >= r => AllContribute(contributors, r, p)
  <2>1. p \in Chunks
    BY Zenon, <1>2
  <2>2. holder'[p] = [holder[p] EXCEPT !.ready = Lower(holder[p].ready, T(p))]
    BY <1>1, <1>5, <2>1, Zenon
  <2>3. holder[p] \in Holders /\ holder[p].ready \in 0 .. 2
    BY <1>0, <2>1, HolderTypes, Zenon
  <2>4. /\ T(p) \in 0 .. 2 /\ (load[p] < BlockTicking => T(p) = Unready)
        /\ \A r \in {1, 2} : T(p) >= r => AllContribute(contributors, r, p)
    <3> HIDE DEF load, T
    <3> QED
      BY <1>3, <1>4, <2>1, PermittedIs, Zenon
  <2> HIDE DEF load, T
  <2>5. holder'[p].ready = Lower(holder[p].ready, T(p))
    BY Zenon, <2>2, <2>3 DEF Holders
  <2> QED
    BY <2>1, <2>2, <2>3, <2>4, <2>5 DEF Lower, Unready
<1>6. ASSUME NEW p \in Chunks, p \notin candidates PROVE holder'[p] = holder[p]
  BY <1>1, <1>6, Zenon
<1>7. ASSUME NEW p \in Chunks
      PROVE  /\ holder'[p] \in Holders
             /\ holder'[p].id = holder[p].id /\ holder'[p].place = holder[p].place
             /\ holder'[p].load = holder[p].load /\ holder'[p].sim = holder[p].sim
             /\ holder'[p].made = holder[p].made /\ holder'[p].live = holder[p].live
             /\ holder'[p].ready <= holder[p].ready /\ holder'[p].ready \in 0 .. 2
  <2>1. holder[p] \in Holders /\ holder[p].ready \in 0 .. 2
    BY <1>0, HolderTypes, Zenon
  <2>2. CASE p \in candidates
    <3> HIDE DEF candidates, T
    <3> QED
      BY Zenon, <1>5, <2>1, <2>2 DEF Holders, Unready, EntityReady
  <2>3. CASE p \notin candidates
    BY <1>6, <2>1, <2>3
  <2> QED
    BY <2>2, <2>3, Zenon
<1>8. ASSUME NEW p \in Chunks PROVE Active(p)' <=> Active(p)
  BY <1>7, Zenon DEF Active
<1>9. ASSUME NEW p \in Chunks
      PROVE  pendingReadiness'[p] =
                IF p \notin candidates THEN pendingReadiness[p]
                ELSE IF holder'[p].ready < DesiredReadiness(load[p]) THEN holder'[p].id ELSE 0
  <2> HIDE DEF candidates, load, demoted
  <2> QED
    BY <1>1, Zenon DEF PendingAfter
<1>10. ASSUME NEW p \in Chunks, p \notin dirtyCenters' PROVE p \notin candidates
  BY <1>1, <1>10, Zenon
<1>11. ASSUME NEW p \in Chunks, Active(p), p \notin candidates PROVE p \notin dirtyCenters
  <2>1. changed = {} => dirtyCenters = {}
    BY <1>0, <1>1, Zenon DEF CommitShape
  <2> QED
    BY Zenon, <1>11, <2>1
<1>12. ASSUME NEW p \in changed PROVE p \in Chunks /\ (Active(p) => p \in candidates) /\ load[p] = wanted[p].load
  BY Zenon, <1>2
<1>13. CommitTypes'
  <2>1. holder' \in [Chunks -> Holders]
    <3>1. holder' = [p \in Chunks |-> holder'[p]]
      BY Zenon, <1>1
    <3> QED
      BY Zenon, <3>1, <1>7
  <2>2. pendingReadiness' \in [Chunks -> 0 .. MaxHolders]
    <3>1. pendingReadiness' = [p \in Chunks |-> pendingReadiness'[p]]
      BY <1>1 DEF PendingAfter
    <3>2. \A p \in Chunks : holder'[p].id \in 0 .. MaxHolders /\ pendingReadiness[p] \in 0 .. MaxHolders
      BY Zenon, <1>0, <1>7, HolderTypes DEF CommitTypes
    <3> HIDE DEF candidates, load
    <3>3. \A p \in Chunks : pendingReadiness'[p] \in 0 .. MaxHolders
      BY <1>9, <3>2, BoundAssumption
    <3> QED
      BY Zenon, <3>1, <3>3
  <2>3. Index' \in Indices
    BY Zenon, <1>0, <1>1, <1>2, IndexTypes DEF Index, Indices
  <2>4. rebuild' \in BOOLEAN
    BY <1>0, <1>1, Zenon DEF CommitTypes, ReadinessChangesSnapshot
  <2> HIDE DEF candidates, load, T, demoted
  <2> QED
    BY Zenon, <1>0, <1>1, <2>1, <2>2, <2>3, <2>4 DEF CommitTypes
<1> HIDE DEF candidates, load, T, demoted
<1>14. Counted(Index)' /\ ~failed'
  <2>1. Index'.counts = Index.counts /\ Index'.contributors = Index.contributors
    BY <1>1, Zenon DEF Index
  <2> QED
    BY Zenon, <1>0, <1>1, <2>1 DEF Counted
<1>15. HolderShape' /\ ContributorShape' /\ BlockEntitiesLive'
  <2>1. HolderShape'
    BY <1>0, <1>7, HolderTypes DEF HolderShape, Unready
  <2>2. ContributorShape'
    BY Zenon, <1>0, <1>1, <1>7, <1>8 DEF ContributorShape, FullAt
  <2>3. BlockEntitiesLive'
    BY Zenon, <1>0, <1>1, <1>7, <1>8 DEF BlockEntitiesLive
  <2> QED
    BY <2>1, <2>2, <2>3, Zenon
<1>16. CommitShape'
  <2> SUFFICES ASSUME NEW p \in changed
               PROVE  /\ wanted[p].load < Full => contributors[p] = 0
                      /\ wanted[p].load < BlockTicking => holder'[p].ready = Unready
                      /\ wanted[p].load = Unloaded => pendingReadiness'[p] = 0
    BY Zenon, <1>1 DEF CommitShape
  <2>1. CASE Active(p)
    <3>1. p \in candidates /\ p \in Chunks /\ load[p] = wanted[p].load
      BY <1>12, <2>1, Zenon
    <3>2. wanted[p].load < Full => contributors[p] = 0
      BY Zenon, <1>0, <1>1, <2>1 DEF CommitShape
    <3>3. wanted[p].load = Unloaded => pendingReadiness'[p] = 0
      <4>1. DesiredReadiness(Unloaded) = Unready
        BY DEF DesiredReadiness, Unloaded, EntityTicking, BlockTicking
      <4>2. ~(holder'[p].ready < Unready)
        BY <1>7, <3>1 DEF Unready
      <4> QED
        BY <1>9, <3>1, <4>1, <4>2, Zenon
    <3> QED
      BY <1>5, <3>1, <3>2, <3>3, Zenon
  <2>2. CASE ~Active(p)
    <3>1. p \in Chunks /\ p \notin candidates
      BY <1>12, <2>2, Zenon DEF candidates
    <3>2. contributors[p] = 0
      BY <1>0, <2>2, <3>1, Zenon DEF ContributorShape, FullAt
    <3>3. holder'[p].ready = Unready
      BY <1>0, <1>6, <2>2, <3>1, Zenon DEF HolderShape, Active
    <3>4. pendingReadiness'[p] = 0
      BY <1>0, <1>9, <2>2, <3>1, Zenon DEF PendingShape
    <3> QED
      BY <3>2, <3>3, <3>4, Zenon
  <2> QED
    BY <2>1, <2>2, Zenon
<1>17. ReadyShape'
  <2> SUFFICES ASSUME NEW p \in Chunks, NEW r \in {1, 2}, holder'[p].ready >= r,
                      NEW q \in Near(r, p)
               PROVE  contributors[q] # 0
    BY Zenon, <1>1 DEF ReadyShape
  <2>1. CASE p \in candidates
    BY <1>5, <2>1, Zenon DEF AllContribute
  <2>2. CASE p \notin candidates
    <3>1. holder[p].ready >= r
      BY <1>6, <2>2, Zenon
    <3>2. Active(p)
      BY <1>0, <3>1 DEF HolderShape, Active, Unready
    <3>3. p \notin dirtyCenters
      BY <1>11, <2>2, <3>2, Zenon
    <3> QED
      BY <1>0, <3>1, <3>3, Zenon DEF ReadyShape
  <2> QED
    BY <2>1, <2>2, Zenon
<1>18. ReadyFresh'
  <2> SUFFICES ASSUME NEW p \in Chunks, Active(p)', p \notin dirtyCenters'
               PROVE  holder'[p].ready = Permitted(contributors', holder'[p], holder'[p].load, p)
    BY Zenon DEF ReadyFresh
  <2>1. holder'[p] = holder[p] /\ Active(p) /\ p \notin dirtyCenters
    BY Zenon, <1>1, <1>6, <1>8, <1>10
  <2>2. contributors' = contributors
    BY <1>1, Zenon
  <2> QED
    BY <1>0, <2>1, <2>2, Zenon DEF ReadyFresh
<1>19. NoLostWakeUp'
  <2>1. \A p \in Chunks : CurrentFullContributor(p)' = CurrentFullContributor(p)
    BY <1>7, <1>8, Zenon DEF CurrentFullContributor
  <2> QED
    BY Zenon, <1>0, <1>1, <1>7, <2>1 DEF NoLostWakeUp
<1>20. PendingShape'
  <2> SUFFICES ASSUME NEW p \in Chunks
               PROVE  /\ ~Active(p) => pendingReadiness'[p] = 0
                      /\ Active(p) /\ p \notin dirtyCenters' =>
                            pendingReadiness'[p] =
                                IF holder'[p].ready < DesiredReadiness(holder'[p].load)
                                THEN holder'[p].id ELSE 0
    BY <1>8, Zenon DEF PendingShape
  <2>1. ~Active(p) => p \notin candidates
    BY Zenon DEF candidates
  <2>2. p \notin dirtyCenters' => p \notin candidates /\ p \notin dirtyCenters
    BY Zenon, <1>1, <1>10
  <2>3. p \notin candidates => pendingReadiness'[p] = pendingReadiness[p] /\ holder'[p] = holder[p]
    BY <1>6, <1>9, Zenon
  <2> QED
    BY <1>0, <2>1, <2>2, <2>3, Zenon DEF PendingShape
<1>21. SnapshotShape'
  <2> SUFFICES ASSUME ~rebuild'
               PROVE  /\ snapshot' = RebuiltSnapshot(holder')
                      /\ \A p \in Chunks :
                            Active(p)' /\ holder'[p].ready # Unready /\ p \in todo'
                              => holder'[p].sim = wanted'[p].sim
    BY Zenon, <1>1 DEF SnapshotShape
  <2>1. ~rebuild /\ ~ReadinessChangesSnapshot(demoted, candidates) /\ holder' = demoted
    BY <1>0, <1>1, Zenon DEF CommitTypes
  <2>2. ASSUME NEW p \in Chunks
        PROVE  SnapshotMembership(holder'[p].ready, holder'[p].sim)
                 = SnapshotMembership(holder[p].ready, holder[p].sim)
    <3>1. CASE p \in candidates
      BY <1>7, <2>1, <3>1, Zenon DEF ReadinessChangesSnapshot
    <3>2. CASE p \notin candidates
      BY <1>6, <3>2, Zenon
    <3> QED
      BY <3>1, <3>2, Zenon
  <2>3. RebuiltSnapshot(holder') = RebuiltSnapshot(holder)
    <3>1. \A p \in Chunks :
            /\ SnapshotMembership(holder'[p].ready, holder'[p].sim)
                 = SnapshotMembership(holder[p].ready, holder[p].sim)
            /\ holder'[p].id = holder[p].id /\ holder'[p].place = holder[p].place
      BY <1>7, <2>2, Zenon
    <3> QED
      BY <3>1, SameSnapshot, ZenonT(40)
  <2>4. ASSUME NEW p \in Chunks, Active(p)', holder'[p].ready # Unready, p \in todo'
        PROVE  holder'[p].sim = wanted'[p].sim
    <3>1. holder[p].ready # Unready
      BY <1>0, <1>7, <2>4, HolderTypes DEF Unready
    <3> QED
      BY Zenon, <1>0, <1>1, <1>7, <1>8, <2>1, <2>4, <3>1 DEF SnapshotShape
  <2> QED
    BY <1>0, <1>1, <2>1, <2>3, <2>4, ZenonT(40) DEF SnapshotShape
<1> QED
  BY <1>13, <1>14, <1>15, <1>16, <1>17, <1>18, <1>19, <1>20, <1>21, Zenon DEF ReadinessInv

\* update_chunk_level for one position: whatever it does to the holder, a
\* contributor stays Full, a ready chunk keeps its place in the snapshot and
\* a Full chunk whose level becomes full again is published.
LEMMA UpdatedHolder ==
    ASSUME ReadinessInv, NEW p \in Chunks, UpdateChunkLevel(p)
    PROVE  /\ \A q \in Chunks : q # p => holder'[q] = holder[q]
           /\ holder' \in [Chunks -> Holders]
           /\ holder'[p].ready = holder[p].ready
           /\ holder'[p].place = "none" => holder'[p].made = Unmade /\ holder'[p].id < MaxHolders
           /\ holder'[p].place # "active" =>
                 /\ holder'[p].ready = Unready /\ ~holder'[p].live
                 /\ holder'[p].load = Unloaded /\ pendingReadiness[p] = 0
           /\ holder'[p].place # "none" => holder'[p].id # 0
           /\ contributors[p] # 0 => FullAt(p)' /\ holder'[p].id = holder[p].id
           /\ holder[p].ready # Unready =>
                 /\ holder'[p].place = holder[p].place /\ holder'[p].id = holder[p].id
                 /\ holder'[p].sim = wanted[p].sim
           /\ Active(p)' /\ holder'[p].made = Announced /\ holder'[p].load >= Full =>
                 holder'[p].live \/ <<p, holder'[p].id>> \in publications'
           /\ publications \subseteq publications'
           /\ publications' \subseteq Chunks \X (1 .. MaxHolders)
           /\ deferred' \subseteq Chunks
<1> DEFINE w == wanted[p]
           h == holder[p]
           Raise(g) == [g EXCEPT !.place = "active", !.load = w.load, !.sim = w.sim]
<1>0. CommitTypes /\ Counted(Index) /\ ~failed /\ HolderShape /\ ContributorShape
      /\ CommitShape /\ ReadyShape /\ ReadyFresh /\ NoLostWakeUp /\ BlockEntitiesLive
      /\ PendingShape /\ SnapshotShape
  BY Zenon DEF ReadinessInv
<1>1. holder \in [Chunks -> Holders] /\ h \in Holders /\ w \in [load : LoadLevels, sim : SimulationLevels]
      /\ publications \subseteq Chunks \X (1 .. MaxHolders) /\ deferred \subseteq Chunks
  BY Zenon, <1>0 DEF CommitTypes, Wants
<1>2. /\ phase = "levels" /\ p \in todo
      /\ w.load < Full => contributors[p] = 0
      /\ w.load < BlockTicking => h.ready = Unready
      /\ w.load = Unloaded => pendingReadiness[p] = 0
  BY <1>0, Zenon DEF UpdateChunkLevel, CommitShape
<1>3. /\ h.place = "none" => h.made = Unmade /\ h.id < MaxHolders
      /\ h.place # "active" => h.ready = Unready /\ ~h.live /\ h.load = Unloaded
                               /\ pendingReadiness[p] = 0
      /\ h.place # "none" => h.id # 0
      /\ contributors[p] # 0 => FullAt(p)
      /\ h.place = "active" /\ h.made = Announced /\ h.load >= Full =>
            h.live \/ <<p, h.id>> \in publications
  BY <1>0, <1>2, Zenon DEF HolderShape, ContributorShape, BlockEntitiesLive, PendingShape, Active
<1>4. CASE /\ w.load = Unloaded /\ h.place = "active"
           /\ holder' = [holder EXCEPT ![p].place = "unloading", ![p].load = Unloaded,
                                       ![p].sim = Unloaded, ![p].live = FALSE]
           /\ UNCHANGED <<publications, deferred>>
  <2>1. holder' = [holder EXCEPT ![p] = [h EXCEPT !.place = "unloading", !.load = Unloaded,
                                            !.sim = Unloaded, !.live = FALSE]]
    BY Zenon, <1>1, <1>4
  <2>2. /\ [h EXCEPT !.place = "unloading", !.load = Unloaded, !.sim = Unloaded, !.live = FALSE] \in Holders
        /\ w.load < Full /\ w.load < BlockTicking
    <3>1. Unloaded \in LoadLevels /\ Unloaded \in SimulationLevels /\ Unloaded < Full
          /\ Unloaded < BlockTicking
      BY SMTT(40) DEF LoadLevels, SimulationLevels, Unloaded, EntityTicking, Full, BlockTicking
    <3> QED
      BY Zenon, <1>1, <1>4, <3>1 DEF Holders
  <2> QED
    BY <1>1, <1>2, <1>3, <1>4, <2>1, <2>2 DEF Holders, Active
<1>5. CASE w.load = Unloaded /\ h.place # "active" /\ UNCHANGED <<holder, publications, deferred>>
  BY Zenon, <1>1, <1>2, <1>3, <1>5 DEF FullAt, Active
<1>6. CASE /\ w.load # Unloaded /\ h.place \in {"active", "unloading"}
           /\ holder' = [holder EXCEPT ![p] = Raise(h)]
           /\ publications' = IF Republishes(Raise(h), h.load)
                              THEN publications \cup {<<p, Raise(h).id>>} ELSE publications
           /\ UNCHANGED deferred
  <2>1. Raise(h) \in Holders /\ holder'[p] = Raise(h)
    BY Zenon, <1>1, <1>6 DEF Holders
  <2>2. /\ Raise(h).place = "active" /\ Raise(h).load = w.load /\ Raise(h).sim = w.sim
        /\ Raise(h).id = h.id /\ Raise(h).made = h.made /\ Raise(h).ready = h.ready
        /\ Raise(h).live = h.live
    BY Zenon, <1>1 DEF Holders
  <2> HIDE DEF Raise
  <2>3. h.id \in 1 .. MaxHolders
    BY <1>1, <1>3, <1>6 DEF Holders
  <2>4. publications' \subseteq Chunks \X (1 .. MaxHolders) /\ publications \subseteq publications'
    BY <1>1, <1>6, <2>2, <2>3
  <2>5. contributors[p] # 0 => FullAt(p)' /\ holder'[p].id = holder[p].id
    <3>1. h.load \in 0 .. 4 /\ w.load \in 0 .. 4 /\ h.made \in 0 .. 3
      BY <1>0, HolderTypes, Zenon
    <3> QED
      BY <1>2, <1>3, <2>1, <2>2, <3>1 DEF FullAt, Active, Full
  <2>6. Active(p)' /\ holder'[p].made = Announced /\ holder'[p].load >= Full =>
            holder'[p].live \/ <<p, holder'[p].id>> \in publications'
    <3> SUFFICES ASSUME h.made = Announced, w.load >= Full, ~h.live
                 PROVE  <<p, h.id>> \in publications'
      BY <2>1, <2>2, Zenon
    <3>1. h.load \in 0 .. 4
      BY <1>0, HolderTypes, Zenon
    <3>2. CASE h.load >= Full
      <4>1. h.place = "active"
        BY <1>3, <3>1, <3>2 DEF Full, Unloaded
      <4> QED
        BY Zenon, <1>3, <2>4, <3>2, <4>1
    <3>3. CASE ~(h.load >= Full)
      <4>1. Republishes(Raise(h), h.load)
        BY <2>2, <3>1, <3>3 DEF Republishes, Full, Announced, Initialized
      <4> QED
        BY Zenon, <1>6, <2>2, <4>1
    <3> QED
      BY <3>2, <3>3, Zenon
  <2>7. h.ready # Unready => h.place = "active"
    BY <1>3, Zenon
  <2>8. (\A q \in Chunks : q # p => holder'[q] = holder[q]) /\ holder' \in [Chunks -> Holders]
    BY Zenon, <1>1, <1>6, <2>1
  <2>9. h.id # 0
    BY Zenon, <1>3, <1>6
  <2> QED
    BY <1>1, <1>6, <2>1, <2>2, <2>4, <2>5, <2>6, <2>7, <2>8, <2>9, ZenonT(40)
<1>7. CASE /\ w.load # Unloaded /\ h.place = "unloading"
           /\ deferred' = deferred \cup {p}
           /\ UNCHANGED <<holder, publications>>
  BY <1>1, <1>2, <1>3, <1>7 DEF FullAt, Active
<1>8. CASE /\ w.load # Unloaded /\ h.place = "none"
           /\ holder' = [holder EXCEPT ![p] = Raise([NoHolder EXCEPT !.id = h.id + 1])]
           /\ UNCHANGED <<publications, deferred>>
  <2> DEFINE k == [NoHolder EXCEPT !.id = h.id + 1]
             g == Raise(k)
  <2>1. h.id \in 0 .. MaxHolders /\ h.id < MaxHolders /\ MaxHolders \in Nat
    BY Zenon, <1>1, <1>3, <1>8, BoundAssumption DEF Holders
  <2>2. NoHolder \in Holders /\ NoHolder.made = Unmade /\ NoHolder.ready = Unready
    <3>1. Unmade \in Unmade .. Announced /\ Unready \in Unready .. EntityReady
          /\ 0 \in 0 .. MaxHolders /\ Unloaded \in LoadLevels /\ Unloaded \in SimulationLevels
      BY <2>1 DEF Unmade, Announced, Unready, EntityReady, LoadLevels, SimulationLevels,
                  Unloaded, EntityTicking
    <3> QED
      BY Zenon, <3>1 DEF Holders, NoHolder
  <2>3. k \in Holders /\ k.id = h.id + 1 /\ k.made = Unmade /\ k.ready = Unready
    <3>1. h.id + 1 \in 0 .. MaxHolders
      BY <2>1
    <3> QED
      BY Zenon, <2>2, <3>1 DEF Holders
  <2> HIDE DEF k
  <2>6. /\ g \in Holders /\ g.id = h.id + 1 /\ g.made = Unmade /\ g.ready = Unready
        /\ g.place = "active"
    BY Zenon, <1>1, <2>3 DEF Holders
  <2> HIDE DEF g
  <2>4. holder'[p] = g /\ (\A q \in Chunks : q # p => holder'[q] = holder[q])
        /\ holder' \in [Chunks -> Holders]
    BY Zenon, <1>1, <1>8, <2>6 DEF g, k
  <2>5. contributors[p] = 0
    BY Zenon, <1>3, <1>8 DEF FullAt, Active
  <2> QED
    <3>1. g.id # 0 /\ g.made # Announced
      BY <2>1, <2>6 DEF Unmade, Announced
    <3>2. h.ready = Unready
      BY Zenon, <1>3, <1>8
    <3> QED
      BY Zenon, <1>1, <1>8, <2>4, <2>5, <2>6, <3>1, <3>2
<1> QED
  BY <1>4, <1>5, <1>6, <1>7, <1>8, Zenon DEF UpdateChunkLevel

\* A level change keeps the invariant.
LEMMA UpdateKeeps ==
    ASSUME ReadinessInv, NEW p \in Chunks, UpdateChunkLevel(p)
    PROVE  ReadinessInv'
<1>0. CommitTypes /\ Counted(Index) /\ ~failed /\ HolderShape /\ ContributorShape
      /\ CommitShape /\ ReadyShape /\ ReadyFresh /\ NoLostWakeUp /\ BlockEntitiesLive
      /\ PendingShape /\ SnapshotShape
  BY Zenon DEF ReadinessInv
<1>1. /\ phase = "levels" /\ phase' = "levels" /\ p \in todo /\ todo' = todo \ {p}
      /\ UNCHANGED <<wanted, contributors, counts, dirtyCenters, pendingReadiness,
                     snapshot, changed, drained, rebuild, failed>>
  BY Zenon DEF UpdateChunkLevel, index
<1>2. p \in changed /\ p \in dirtyCenters
  BY Zenon, <1>0, <1>1 DEF CommitShape
<1>3. Index' = Index
  BY <1>1, ZenonT(40) DEF Index
<1>4. CommitTypes'
  BY Zenon, <1>0, <1>1, <1>3, UpdatedHolder DEF CommitTypes
<1>5. Counted(Index)' /\ ~failed'
  BY <1>0, <1>1, <1>3, Zenon DEF Counted
<1>6. HolderShape'
  BY <1>0, UpdatedHolder, ZenonT(40) DEF HolderShape
<1>7. ContributorShape'
  BY <1>0, <1>1, UpdatedHolder, Zenon DEF ContributorShape, FullAt, Active
<1>8. CommitShape'
  <2>1. \A q \in todo' : q \in Chunks /\ q \in todo /\ q # p /\ holder'[q] = holder[q]
    BY Zenon, <1>0, <1>1, UpdatedHolder DEF CommitTypes
  <2> QED
    BY Zenon, <1>0, <1>1, <2>1 DEF CommitShape
<1>9. ReadyShape'
  <2>1. \A q \in Chunks : holder'[q].ready = holder[q].ready
    BY UpdatedHolder, Zenon
  <2> QED
    BY Zenon, <1>0, <1>1, <2>1 DEF ReadyShape
<1>10. ReadyFresh'
  BY <1>0, <1>1, <1>2, UpdatedHolder, ZenonT(40) DEF ReadyFresh, Active
<1>11. NoLostWakeUp'
  <2> SUFFICES ASSUME NEW q \in Chunks, q # p
               PROVE  \/ contributors'[q] = CurrentFullContributor(q)'
                      \/ <<q, holder'[q].id>> \in publications'
                      \/ holder'[q].made = Initialized
                      \/ q \in changed'
    BY Zenon, <1>1, <1>2 DEF NoLostWakeUp
  <2>1. holder'[q] = holder[q] /\ publications \subseteq publications'
    BY UpdatedHolder, Zenon
  <2>2. CurrentFullContributor(q)' = CurrentFullContributor(q)
    BY <2>1, Zenon DEF CurrentFullContributor, Active
  <2> QED
    BY Zenon, <1>0, <1>1, <2>1, <2>2 DEF NoLostWakeUp
<1>12. BlockEntitiesLive'
  <2> SUFFICES ASSUME NEW q \in Chunks, Active(q)', holder'[q].made = Announced,
                      holder'[q].load >= Full
               PROVE  holder'[q].live \/ <<q, holder'[q].id>> \in publications'
    BY Zenon DEF BlockEntitiesLive
  <2>1. CASE q = p
    BY <2>1, UpdatedHolder, ZenonT(40)
  <2>2. CASE q # p
    <3>1. holder'[q] = holder[q] /\ publications \subseteq publications'
      BY <2>2, UpdatedHolder, Zenon
    <3> QED
      BY Zenon, <1>0, <1>1, <3>1 DEF BlockEntitiesLive, Active
  <2> QED
    BY <2>1, <2>2, Zenon
<1>13. PendingShape'
  BY <1>0, <1>1, <1>2, UpdatedHolder, ZenonT(40) DEF PendingShape, Active
<1>14. SnapshotShape'
  <2> SUFFICES ASSUME ~rebuild
               PROVE  /\ snapshot' = RebuiltSnapshot(holder')
                      /\ \A q \in Chunks :
                            Active(q)' /\ holder'[q].ready # Unready /\ q \in todo'
                              => holder'[q].sim = wanted'[q].sim
    BY Zenon, <1>1 DEF SnapshotShape
  <2>1. \A q \in Chunks : (q # p => holder'[q] = holder[q]) /\ holder'[q].ready = holder[q].ready
    BY UpdatedHolder, Zenon
  <2>2. ASSUME holder[p].ready # Unready
        PROVE  holder'[p].place = holder[p].place /\ holder'[p].id = holder[p].id
               /\ holder'[p].sim = holder[p].sim
    <3>1. Active(p)
      BY <1>0, <2>2, Zenon DEF HolderShape, Active
    <3>2. holder[p].sim = wanted[p].sim
      BY <1>0, <1>1, <2>2, <3>1, Zenon DEF SnapshotShape
    <3> QED
      BY <2>2, <3>2, UpdatedHolder, Zenon
  <2>3. RebuiltSnapshot(holder') = RebuiltSnapshot(holder)
    <3>0. ASSUME NEW q \in Chunks, holder[q].ready # Unready
          PROVE  holder'[q].place = holder[q].place /\ holder'[q].id = holder[q].id
                 /\ holder'[q].sim = holder[q].sim
      <4>1. CASE q = p
        BY <2>2, <3>0, <4>1, Zenon
      <4>2. CASE q # p
        BY <2>1, <4>2, Zenon
      <4> QED
        BY <4>1, <4>2, Zenon
    <3> DEFINE M(H, q) == SnapshotMembership(H[q].ready, H[q].sim)
    <3>1. ASSUME NEW q \in Chunks
          PROVE  /\ holder'[q].place = "active" /\ M(holder', q).block
                      <=> holder[q].place = "active" /\ M(holder, q).block
                 /\ (holder'[q].place = "active" /\ M(holder', q).block) =>
                      holder'[q].id = holder[q].id /\ M(holder', q) = M(holder, q)
      <4>1. CASE holder[q].ready # Unready
        <5>1. M(holder', q) = M(holder, q)
          BY <2>1, <3>0, <4>1, Zenon
        <5> QED
          BY <3>0, <4>1, <5>1, Zenon
      <4>2. CASE holder[q].ready = Unready
        <5>1. holder'[q].ready = Unready
          BY <2>1, <4>2, Zenon
        <5>2. ~M(holder, q).block /\ ~M(holder', q).block
          BY <4>2, <5>1, UnreadyNotShown, Zenon
        <5> QED
          BY <5>2, Zenon
      <4> QED
        BY <4>1, <4>2, Zenon
    <3> QED
      BY <3>1, SameSnapshot, Zenon
  <2>4. ASSUME NEW q \in Chunks, Active(q)', holder'[q].ready # Unready, q \in todo'
        PROVE  holder'[q].sim = wanted'[q].sim
    <3>1. q # p /\ q \in todo /\ holder'[q] = holder[q]
      BY <1>1, <2>1, <2>4
    <3> QED
      BY <1>0, <1>1, <2>4, <3>1, Zenon DEF SnapshotShape, Active
  <2> QED
    BY <1>0, <1>1, <2>3, <2>4, Zenon DEF SnapshotShape
<1> QED
  BY <1>4, <1>5, <1>6, <1>7, <1>8, <1>9, <1>10, <1>11, <1>12, <1>13, <1>14, Zenon DEF ReadinessInv

\* Draining the publications.
LEMMA DrainKeeps ==
    ASSUME ReadinessInv, Drain
    PROVE  ReadinessInv'
<1>0. CommitTypes /\ Counted(Index) /\ ~failed /\ HolderShape /\ ContributorShape
      /\ CommitShape /\ ReadyShape /\ ReadyFresh /\ NoLostWakeUp /\ BlockEntitiesLive
      /\ PendingShape /\ SnapshotShape
  BY Zenon DEF ReadinessInv
<1>1. /\ phase = "levels" /\ phase' = "contribute" /\ todo = {}
      /\ drained' = publications /\ publications' = {}
      /\ todo' = changed \cup {d[1] : d \in publications}
      /\ UNCHANGED <<wanted, holder, contributors, counts, dirtyCenters, pendingReadiness,
                     snapshot, deferred, changed, rebuild, failed>>
  BY Zenon DEF Drain, index
<1>2. Index' = Index
  BY <1>1, Zenon DEF Index
<1>3. CommitTypes'
  <2>1. {d[1] : d \in publications} \subseteq Chunks
    BY Zenon, <1>0 DEF CommitTypes
  <2> QED
    BY Zenon, <1>0, <1>1, <1>2, <2>1 DEF CommitTypes
<1>4. Counted(Index)' /\ ~failed'
  BY <1>0, <1>1, <1>2, Zenon DEF Counted
<1>5. HolderShape' /\ ContributorShape' /\ ReadyFresh' /\ PendingShape'
  BY <1>0, <1>1, ZenonT(40)
     DEF HolderShape, ContributorShape, ReadyFresh, PendingShape, FullAt, Active
<1>6. CommitShape' /\ ReadyShape' /\ SnapshotShape'
  <2>1. CommitShape'
    <3>1. changed' \subseteq dirtyCenters'
      <4>1. changed \subseteq dirtyCenters
        <5>1. todo = {} /\ (phase = "levels" => changed \subseteq dirtyCenters)
          BY <1>0, <1>1, Zenon DEF CommitShape
        <5> QED
          BY <1>1, <5>1, Zenon
      <4> QED
        BY <1>1, <4>1, Zenon
    <3>2. phase' = "contribute" /\ phase' # "idle" /\ phase' # "demote" /\ phase' # "levels"
      BY <1>1, Zenon
    <3> QED
      BY <3>1, <3>2, ZenonT(40) DEF CommitShape
  <2>2. ReadyShape'
    BY ZenonT(40), <1>0, <1>1 DEF ReadyShape
  <2>3. SnapshotShape'
    <3>1. phase' # "demote" /\ phase' # "levels"
      BY <1>1, Zenon
    <3>2. ~rebuild => snapshot = RebuiltSnapshot(holder)
      BY <1>0, Zenon DEF SnapshotShape
    <3>3. ~rebuild' => snapshot' = RebuiltSnapshot(holder')
      BY <1>1, <3>2, Zenon
    <3> QED
      BY <3>1, <3>3, ZenonT(40) DEF SnapshotShape
  <2> QED
    BY <2>1, <2>2, <2>3, Zenon
<1>7. \A p \in Chunks :
        (p \in changed \/ <<p, holder[p].id>> \in publications) => p \in todo'
  BY <1>1
<1>8. NoLostWakeUp'
  BY Zenon, <1>0, <1>1, <1>7 DEF NoLostWakeUp, CurrentFullContributor, Active
<1>9. BlockEntitiesLive'
  BY Zenon, <1>0, <1>1, <1>7 DEF BlockEntitiesLive, Active
<1> QED
  BY <1>3, <1>4, <1>5, <1>6, <1>8, <1>9, Zenon DEF ReadinessInv

\* reconcile_contributor with the current contributor only ever adds one, and
\* marks the centres it supports.
LEMMA Reconciled ==
    ASSUME ReadinessInv, NEW p \in Chunks
    PROVE  LET y == ReconcileContributor(Index, p, CurrentFullContributor(p))
           IN  /\ y \in Indices /\ Counted(y) /\ ~y.failed
               /\ y.contributors[p] = CurrentFullContributor(p)
               /\ \A q \in Chunks : q # p => y.contributors[q] = contributors[q]
               /\ contributors[p] # 0 => contributors[p] = CurrentFullContributor(p)
               /\ dirtyCenters \subseteq y.dirty
               /\ contributors[p] # CurrentFullContributor(p) =>
                     Near(1, p) \subseteq y.dirty /\ Near(2, p) \subseteq y.dirty
<1> DEFINE c == CurrentFullContributor(p)
           y == ReconcileContributor(Index, p, c)
<1>0. CommitTypes /\ Counted(Index) /\ ~failed /\ HolderShape /\ ContributorShape
      /\ CommitShape /\ ReadyShape /\ ReadyFresh /\ NoLostWakeUp /\ BlockEntitiesLive
      /\ PendingShape /\ SnapshotShape
  BY Zenon DEF ReadinessInv
<1>1. Index \in Indices /\ ~Index.failed /\ Index.contributors = contributors
      /\ Index.dirty = dirtyCenters /\ contributors \in [Chunks -> 0 .. MaxHolders]
  BY <1>0, IndexTypes, Zenon DEF CommitTypes
<1>2. contributors[p] # 0 => contributors[p] = c
  BY <1>0, Zenon DEF ContributorShape, FullAt, CurrentFullContributor
<1>3. c \in 0 .. MaxHolders
  BY <1>0, HolderTypes, BoundAssumption DEF CurrentFullContributor
<1> HIDE DEF c
<1>4. CASE contributors[p] = c
  <2>1. y = Index
    BY <1>1, <1>4, Zenon DEF ReconcileContributor
  <2> QED
    BY <1>0, <1>1, <1>2, <1>4, <2>1, Zenon DEF c
<1>5. CASE contributors[p] # c
  <2>1. contributors[p] = 0 /\ c # 0 /\ c \in 1 .. MaxHolders
    BY <1>2, <1>3, <1>5
  <2>2. y = AddContributor(Index, p, c)
    BY <1>1, <1>5, <2>1, Zenon DEF ReconcileContributor
  <2>3. /\ y \in Indices /\ Counted(y) /\ ~y.failed
        /\ y.contributors = [contributors EXCEPT ![p] = c]
        /\ y.dirty = dirtyCenters \cup Near(1, p) \cup Near(2, p)
    <3>1. Index.contributors[p] = 0
      BY <1>1, <2>1, Zenon
    <3> DEFINE z == AddContributor(Index, p, c)
    <3>2. /\ z \in Indices /\ Counted(z) /\ ~z.failed
          /\ z.contributors = [Index.contributors EXCEPT ![p] = c]
          /\ z.dirty = Index.dirty \cup Near(1, p) \cup Near(2, p)
      BY <1>0, <1>1, <2>1, <3>1, AddCounts, Zenon
    <3> HIDE DEF y, z
    <3>3. y = z
      BY <2>2, Zenon DEF z
    <3> QED
      BY <1>1, <3>2, <3>3, Zenon
  <2> HIDE DEF y
  <2>4. y.contributors[p] = c /\ \A q \in Chunks : q # p => y.contributors[q] = contributors[q]
    BY Zenon, <1>1, <2>3
  <2>5. dirtyCenters \subseteq y.dirty /\ Near(1, p) \subseteq y.dirty /\ Near(2, p) \subseteq y.dirty
    BY Zenon, <2>3
  <2> QED
    BY <1>2, <2>3, <2>4, <2>5, Zenon DEF c, y
<1> QED
  BY <1>4, <1>5, Zenon

\* Reconciling one changed or published position.
LEMMA ReconcileKeeps ==
    ASSUME ReadinessInv, NEW p \in Chunks, Reconcile(p)
    PROVE  ReadinessInv'
<1> DEFINE valid == \E d \in drained : d[1] = p /\ ValidPublication(p, d[2])
           owner == IF valid THEN holder[p].id ELSE CurrentFullContributor(p)
           y == ReconcileContributor(Index, p, CurrentFullContributor(p))
<1>0. CommitTypes /\ Counted(Index) /\ ~failed /\ HolderShape /\ ContributorShape
      /\ CommitShape /\ ReadyShape /\ ReadyFresh /\ NoLostWakeUp /\ BlockEntitiesLive
      /\ PendingShape /\ SnapshotShape
  BY Zenon DEF ReadinessInv
<1>1. /\ phase = "contribute" /\ phase' = "contribute" /\ p \in todo /\ todo' = todo \ {p}
      /\ IF p \in changed \/ valid
         THEN SetIndex(ReconcileContributor(Index, p, owner))
         ELSE UNCHANGED <<contributors, counts, dirtyCenters, failed>>
      /\ holder' = [holder EXCEPT ![p].live = @ \/ valid]
      /\ UNCHANGED <<wanted, pendingReadiness, publications, snapshot, deferred, changed,
                     drained, rebuild>>
  BY Zenon DEF Reconcile, index
<1>2. valid => CurrentFullContributor(p) = holder[p].id
  <2>1. ASSUME valid PROVE CurrentFullContributor(p) # 0
    <3>1. PICK d \in drained : CurrentFullContributor(p) = d[2]
      BY <2>1, Zenon DEF ValidPublication
    <3> QED
      BY <1>0, <3>1 DEF CommitTypes
  <2> QED
    BY <2>1, Zenon DEF CurrentFullContributor
<1>3. <<p, holder[p].id>> \in drained /\ CurrentFullContributor(p) = holder[p].id => valid
  <2> SUFFICES ASSUME <<p, holder[p].id>> \in drained, CurrentFullContributor(p) = holder[p].id
               PROVE  valid
    BY Zenon
  <2>1. <<p, holder[p].id>>[1] = p /\ <<p, holder[p].id>>[2] = holder[p].id
    BY Zenon
  <2> QED
    BY <2>1, Zenon DEF ValidPublication
<1>4. owner = CurrentFullContributor(p)
  BY <1>2, Zenon
<1>5. valid \in BOOLEAN
  BY Zenon
<1> HIDE DEF valid, owner
<1>6. IF p \in changed \/ valid THEN SetIndex(y)
      ELSE UNCHANGED <<contributors, counts, dirtyCenters, failed>>
  BY <1>1, <1>4, Zenon
<1> HIDE DEF y
<1>7. /\ Index' \in Indices /\ Counted(Index)' /\ ~failed'
      /\ \A q \in Chunks : q # p => contributors'[q] = contributors[q]
      /\ contributors[p] # 0 => contributors'[p] = contributors[p]
      /\ contributors'[p] # contributors[p] => contributors'[p] = CurrentFullContributor(p)
      /\ p \in changed \/ valid => contributors'[p] = CurrentFullContributor(p)
      /\ dirtyCenters \subseteq dirtyCenters'
      /\ contributors'[p] # contributors[p] =>
            Near(1, p) \subseteq dirtyCenters' /\ Near(2, p) \subseteq dirtyCenters'
  <2>1. CASE p \in changed \/ valid
    <3>1. /\ y \in Indices /\ Counted(y) /\ ~y.failed
          /\ y.contributors[p] = CurrentFullContributor(p)
          /\ \A q \in Chunks : q # p => y.contributors[q] = contributors[q]
          /\ contributors[p] # 0 => contributors[p] = CurrentFullContributor(p)
          /\ dirtyCenters \subseteq y.dirty
          /\ contributors[p] # CurrentFullContributor(p) =>
                Near(1, p) \subseteq y.dirty /\ Near(2, p) \subseteq y.dirty
      BY Reconciled, Zenon DEF y
    <3>2. SetIndex(y)
      BY <1>6, <2>1, Zenon
    <3>3. Index' = y /\ Counted(Index)' /\ ~failed' /\ contributors' = y.contributors
          /\ dirtyCenters' = y.dirty
      BY <3>1, <3>2, SetIndexIs, Zenon
    <3> QED
      BY <3>1, <3>3, Zenon
  <2>2. CASE ~(p \in changed \/ valid)
    <3>1. UNCHANGED <<contributors, counts, dirtyCenters, failed>>
      BY <1>6, <2>2, Zenon
    <3>2. Index' = Index /\ Index \in Indices
      BY <1>0, <3>1, Zenon DEF Index, CommitTypes
    <3>3. Counted(Index)'
      BY <1>0, <3>2, Zenon DEF Counted
    <3> QED
      BY <1>0, <2>2, <3>1, <3>2, <3>3, Zenon
  <2> QED
    BY <2>1, <2>2, Zenon
<1>8. /\ holder' \in [Chunks -> Holders]
      /\ \A q \in Chunks : q # p => holder'[q] = holder[q]
      /\ holder'[p].live = (holder[p].live \/ valid)
  <2>1. holder \in [Chunks -> Holders] /\ holder[p] \in Holders /\ holder[p].live \in BOOLEAN
    BY <1>0, HolderTypes, Zenon DEF CommitTypes
  <2>2. (holder[p].live \/ valid) \in BOOLEAN
    BY <1>5, <2>1, Zenon
  <2> DEFINE b == holder[p].live \/ valid
  <2>3. b \in BOOLEAN /\ holder' = [holder EXCEPT ![p].live = b]
    BY <1>1, <2>2, Zenon
  <2> HIDE DEF b
  <2>4. [holder[p] EXCEPT !.live = b] \in Holders /\ holder' = [holder EXCEPT ![p] = [holder[p] EXCEPT !.live = b]]
    BY Zenon, <2>1, <2>3 DEF Holders
  <2>5. holder'[p].live = b
    BY Zenon, <2>1, <2>3 DEF Holders
  <2> QED
    BY Zenon, <2>1, <2>4, <2>5 DEF b
<1>9. ASSUME NEW q \in Chunks
      PROVE  /\ holder'[q].id = holder[q].id /\ holder'[q].place = holder[q].place
             /\ holder'[q].load = holder[q].load /\ holder'[q].sim = holder[q].sim
             /\ holder'[q].made = holder[q].made /\ holder'[q].ready = holder[q].ready
  <2>1. CASE q = p
    <3>1. holder \in [Chunks -> Holders] /\ holder[p] \in Holders
      BY <1>0, HolderTypes, Zenon DEF CommitTypes
    <3> QED
      BY Zenon, <1>1, <2>1, <3>1 DEF Holders
  <2>2. CASE q # p
    BY <1>8, <2>2, Zenon
  <2> QED
    BY <2>1, <2>2, Zenon
<1>10. ASSUME NEW q \in Chunks
       PROVE  /\ Active(q)' <=> Active(q)
              /\ FullAt(q)' <=> FullAt(q)
              /\ CurrentFullContributor(q)' = CurrentFullContributor(q)
  BY <1>9, Zenon DEF Active, FullAt, CurrentFullContributor
<1>11. CommitTypes'
  BY Zenon, <1>0, <1>1, <1>7, <1>8 DEF CommitTypes
<1>12. HolderShape'
  <2>1. ASSUME NEW q \in Chunks, holder'[q].place # "active" PROVE ~holder'[q].live
    <3>1. ~Active(q) /\ ~holder[q].live
      BY <1>0, <1>9, <2>1, Zenon DEF HolderShape, Active
    <3>2. CASE q = p
      <4>1. ~valid
        <5>1. CurrentFullContributor(p) = 0
          BY <3>1, <3>2, Zenon DEF CurrentFullContributor
        <5>2. valid => \E d \in drained : CurrentFullContributor(p) = d[2]
          BY Zenon DEF valid, ValidPublication
        <5> QED
          BY <1>0, <5>1, <5>2 DEF CommitTypes
      <4> QED
        BY <1>8, <3>1, <3>2, <4>1, Zenon
    <3>3. CASE q # p
      BY <1>8, <3>1, <3>3, Zenon
    <3> QED
      BY <3>2, <3>3, Zenon
  <2> QED
    BY <1>0, <1>9, <2>1, ZenonT(40) DEF HolderShape
<1>13. ContributorShape'
  <2> SUFFICES ASSUME NEW q \in Chunks, contributors'[q] # 0
               PROVE  FullAt(q) /\ contributors'[q] = holder[q].id
    BY <1>9, <1>10, Zenon DEF ContributorShape
  <2>1. contributors'[q] = contributors[q] \/ contributors'[q] = CurrentFullContributor(q)
    BY <1>7, Zenon
  <2> QED
    BY <1>0, <2>1, Zenon DEF ContributorShape, CurrentFullContributor, FullAt
<1>14. CommitShape'
  BY Zenon, <1>0, <1>1, <1>7 DEF CommitShape
<1>15. ReadyShape'
  <2> SUFFICES ASSUME NEW s \in Chunks, NEW r \in {1, 2}, holder[s].ready >= r,
                      NEW q \in Near(r, s)
               PROVE  contributors'[q] # 0
    BY Zenon, <1>1, <1>9 DEF ReadyShape
  <2>1. q \in Chunks
    BY Zenon, NearAssumption
  <2>2. contributors[q] # 0
    BY Zenon, <1>0, <1>1 DEF ReadyShape
  <2> QED
    BY <1>7, <2>1, <2>2, Zenon
<1>16. ReadyFresh'
  <2> SUFFICES ASSUME NEW s \in Chunks, Active(s), s \notin dirtyCenters'
               PROVE  holder'[s].ready = Permitted(contributors', holder'[s], holder'[s].load, s)
    BY <1>10, Zenon DEF ReadyFresh
  <2>1. holder[s].ready = Permitted(contributors, holder[s], holder[s].load, s)
    BY <1>0, <1>7, Zenon DEF ReadyFresh
  <2>2. ASSUME NEW r \in {1, 2} PROVE AllContribute(contributors', r, s) <=> AllContribute(contributors, r, s)
    <3>1. CASE contributors'[p] = contributors[p]
      <4>1. Near(r, s) \subseteq Chunks
        BY Zenon, NearAssumption
      <4>2. \A q \in Chunks : contributors'[q] = contributors[q]
        BY <1>7, <3>1, Zenon
      <4> QED
        BY Zenon, <4>1, <4>2 DEF AllContribute
    <3>2. CASE contributors'[p] # contributors[p]
      <4>1. p \notin Near(r, s) /\ Near(r, s) \subseteq Chunks
        BY Zenon, <1>7, <3>2, NearAssumption
      <4> QED
        BY Zenon, <1>7, <4>1 DEF AllContribute
    <3> QED
      BY <3>1, <3>2, Zenon
  <2> QED
    BY Zenon, <1>9, <2>1, <2>2 DEF Permitted
<1>17. NoLostWakeUp'
  <2> SUFFICES ASSUME NEW q \in Chunks
               PROVE  \/ contributors'[q] = CurrentFullContributor(q)
                      \/ <<q, holder[q].id>> \in publications
                      \/ holder[q].made = Initialized
                      \/ /\ q \in todo'
                         /\ q \in changed \/ <<q, holder[q].id>> \in drained
    BY <1>1, <1>9, <1>10 DEF NoLostWakeUp
  <2>1. CASE q = p
    <3>1. CASE p \in changed \/ valid
      BY <1>7, <2>1, <3>1, Zenon
    <3>2. CASE ~(p \in changed \/ valid)
      <4>1. contributors'[p] = contributors[p]
        BY <1>6, <3>2, Zenon
      <4>2. CASE <<p, holder[p].id>> \in drained
        <5>1. CurrentFullContributor(p) # holder[p].id
          BY <1>3, <3>2, <4>2, Zenon
        <5>2. CurrentFullContributor(p) = 0
          BY <5>1, Zenon DEF CurrentFullContributor
        <5>3. contributors[p] = 0
          BY <1>0, <5>1, Zenon DEF CurrentFullContributor, ContributorShape, FullAt
        <5> QED
          BY <2>1, <4>1, <5>2, <5>3, Zenon
      <4>3. CASE <<p, holder[p].id>> \notin drained
        BY Zenon, <1>0, <1>1, <2>1, <3>2, <4>1, <4>3 DEF NoLostWakeUp
      <4> QED
        BY <4>2, <4>3, Zenon
    <3> QED
      BY <3>1, <3>2, Zenon
  <2>2. CASE q # p
    <3>1. contributors'[q] = contributors[q] /\ (q \in todo => q \in todo')
      BY Zenon, <1>1, <1>7, <2>2
    <3> QED
      BY Zenon, <1>0, <1>1, <3>1 DEF NoLostWakeUp
  <2> QED
    BY <2>1, <2>2, Zenon
<1>18. BlockEntitiesLive'
  <2> SUFFICES ASSUME NEW q \in Chunks, Active(q), holder[q].made = Announced, holder[q].load >= Full
               PROVE  \/ holder'[q].live
                      \/ <<q, holder[q].id>> \in publications
                      \/ q \in todo' /\ <<q, holder[q].id>> \in drained
    BY <1>1, <1>9, <1>10 DEF BlockEntitiesLive
  <2>1. \/ holder[q].live \/ <<q, holder[q].id>> \in publications
        \/ q \in todo /\ <<q, holder[q].id>> \in drained
    BY <1>0, Zenon DEF BlockEntitiesLive
  <2>2. CASE q = p
    <3>1. CurrentFullContributor(q) = holder[q].id
      BY DEF CurrentFullContributor, Announced, Initialized
    <3> QED
      BY <1>3, <1>8, <2>1, <2>2, <3>1, Zenon
  <2>3. CASE q # p
    <3>1. q \in todo => q \in todo'
      BY Zenon, <1>1, <2>3
    <3> QED
      BY <1>8, <2>1, <2>3, <3>1, Zenon
  <2> QED
    BY <2>2, <2>3, Zenon
<1>19. PendingShape'
  BY <1>0, <1>1, <1>7, <1>9, <1>10 DEF PendingShape
<1>20. SnapshotShape'
  <2>1. RebuiltSnapshot(holder') = RebuiltSnapshot(holder)
    <3>1. \A q \in Chunks :
            /\ SnapshotMembership(holder'[q].ready, holder'[q].sim)
                 = SnapshotMembership(holder[q].ready, holder[q].sim)
            /\ holder'[q].id = holder[q].id /\ holder'[q].place = holder[q].place
      BY <1>9, Zenon
    <3> QED
      BY <3>1, SameSnapshot, ZenonT(40)
  <2> QED
    BY Zenon, <1>0, <1>1, <2>1 DEF SnapshotShape
<1> QED
  BY <1>7, <1>11, <1>12, <1>13, <1>14, <1>15, <1>16, <1>17, <1>18,
     <1>19, <1>20, ZenonT(40) DEF ReadinessInv

\* The final readiness of every centre that changed.
LEMMA ApplyKeeps ==
    ASSUME ReadinessInv, ApplyFinalReadiness
    PROVE  ReadinessInv'
<1> DEFINE load == [p \in Chunks |-> holder[p].load]
           T(p) == TargetReadiness(Index, holder[p], load[p], p)
           final == [p \in Chunks |->
                        IF p \in Candidates
                        THEN [holder[p] EXCEPT !.ready = T(p)]
                        ELSE holder[p]]
<1>0. CommitTypes /\ Counted(Index) /\ ~failed /\ HolderShape /\ ContributorShape
      /\ CommitShape /\ ReadyShape /\ ReadyFresh /\ NoLostWakeUp /\ BlockEntitiesLive
      /\ PendingShape /\ SnapshotShape
  BY Zenon DEF ReadinessInv
<1>1. /\ phase = "contribute" /\ phase' = "idle" /\ todo = {}
      /\ dirtyCenters' = {} /\ holder' = final
      /\ pendingReadiness' = PendingAfter(final, Candidates, load)
      /\ snapshot' = IF rebuild \/ ReadinessChangesSnapshot(final, Candidates)
                     THEN RebuiltSnapshot(final) ELSE snapshot
      /\ changed' = {} /\ drained' = {} /\ rebuild' = FALSE
      /\ UNCHANGED <<wanted, contributors, counts, publications, deferred, todo, failed>>
  BY Zenon DEF ApplyFinalReadiness
<1>2. Candidates \subseteq Chunks
      /\ \A p \in Chunks : Active(p) /\ p \notin Candidates => p \notin dirtyCenters
  BY Zenon, <1>0, IndexTypes DEF CommitTypes, Candidates
<1>3. ASSUME NEW p \in Chunks PROVE load[p] = holder[p].load /\ load[p] \in 0 .. 4
  BY Zenon, <1>0, HolderTypes
<1>4. ASSUME NEW p \in Chunks PROVE T(p) = Permitted(contributors, holder[p], holder[p].load, p)
  <2>1. Index \in Indices /\ Counted(Index) /\ Index.contributors = contributors
    BY <1>0, IndexTypes, Zenon DEF CommitTypes
  <2>2. load[p] = holder[p].load
    BY Zenon
  <2> HIDE DEF load
  <2> QED
    BY <2>1, <2>2, TargetPermitted, Zenon
<1>5. ASSUME NEW p \in Candidates
      PROVE  /\ p \in Chunks
             /\ holder'[p] = [holder[p] EXCEPT !.ready = T(p)]
             /\ holder'[p].ready = T(p)
             /\ T(p) \in 0 .. 2
             /\ \A r \in {1, 2} : T(p) >= r => AllContribute(contributors, r, p)
  <2>1. p \in Chunks
    BY Zenon, <1>2
  <2>2. holder'[p] = [holder[p] EXCEPT !.ready = T(p)]
    BY <1>1, <1>5, <2>1, Zenon
  <2>3. holder[p] \in Holders
    BY <1>0, <2>1, HolderTypes, Zenon
  <2> HIDE DEF T
  <2>4. /\ T(p) \in 0 .. 2
        /\ \A r \in {1, 2} : T(p) >= r => AllContribute(contributors, r, p)
    <3>1. holder[p].load \in 0 .. 4
      BY <1>0, <2>1, HolderTypes, Zenon
    <3> QED
      BY <1>4, <2>1, <3>1, PermittedIs, Zenon
  <2>5. holder'[p].ready = T(p)
    BY Zenon, <2>2, <2>3 DEF Holders
  <2> QED
    BY <2>1, <2>2, <2>4, <2>5, Zenon
<1>6. ASSUME NEW p \in Chunks, p \notin Candidates PROVE holder'[p] = holder[p]
  BY <1>1, <1>6, Zenon
<1>7. ASSUME NEW p \in Chunks
      PROVE  /\ holder'[p] \in Holders
             /\ holder'[p].id = holder[p].id /\ holder'[p].place = holder[p].place
             /\ holder'[p].load = holder[p].load /\ holder'[p].sim = holder[p].sim
             /\ holder'[p].made = holder[p].made /\ holder'[p].live = holder[p].live
  <2>1. holder[p] \in Holders
    BY <1>0, HolderTypes, Zenon
  <2>2. CASE p \in Candidates
    <3> HIDE DEF T
    <3> QED
      BY Zenon, <1>5, <2>1, <2>2 DEF Holders, Unready, EntityReady
  <2>3. CASE p \notin Candidates
    BY <1>6, <2>1, <2>3, Zenon
  <2> QED
    BY <2>2, <2>3, Zenon
<1>8. ASSUME NEW p \in Chunks
      PROVE  /\ Active(p)' <=> Active(p)
             /\ CurrentFullContributor(p)' = CurrentFullContributor(p)
  BY <1>7, Zenon DEF Active, CurrentFullContributor
<1>9. ASSUME NEW p \in Chunks
      PROVE  pendingReadiness'[p] =
                IF p \notin Candidates THEN pendingReadiness[p]
                ELSE IF holder'[p].ready < DesiredReadiness(holder[p].load)
                THEN holder'[p].id ELSE 0
  <2>1. load[p] = holder[p].load
    BY Zenon
  <2> HIDE DEF load, final
  <2> QED
    BY <1>1, <2>1, Zenon DEF PendingAfter
<1>10. CommitTypes'
  <2>1. holder' \in [Chunks -> Holders]
    <3>1. holder' = [p \in Chunks |-> holder'[p]]
      BY Zenon, <1>1
    <3> QED
      BY Zenon, <3>1, <1>7
  <2>2. pendingReadiness' \in [Chunks -> 0 .. MaxHolders]
    <3>1. pendingReadiness' = [p \in Chunks |-> pendingReadiness'[p]]
      BY SMTT(40), <1>1 DEF PendingAfter
    <3>2. \A p \in Chunks : holder'[p].id \in 0 .. MaxHolders /\ pendingReadiness[p] \in 0 .. MaxHolders
      BY Zenon, <1>0, <1>7, HolderTypes DEF CommitTypes
    <3>3. \A p \in Chunks : pendingReadiness'[p] \in 0 .. MaxHolders
      BY <1>9, <3>2, BoundAssumption
    <3> QED
      BY Zenon, <3>1, <3>3
  <2>3. Index' \in Indices
    BY Zenon, <1>0, <1>1, IndexTypes DEF Index, Indices
  <2> HIDE DEF load, T, final
  <2> QED
    BY Zenon, <1>0, <1>1, <2>1, <2>2, <2>3 DEF CommitTypes
<1> HIDE DEF load, T, final
<1>11. Counted(Index)' /\ ~failed'
  <2>1. Index'.counts = Index.counts /\ Index'.contributors = Index.contributors
    BY <1>1, Zenon DEF Index
  <2> QED
    BY Zenon, <1>0, <1>1, <2>1 DEF Counted
<1>12. HolderShape' /\ ContributorShape' /\ BlockEntitiesLive'
  <2>1. HolderShape'
    <3>1. \A p \in Chunks : holder[p].place # "active" => p \notin Candidates
      BY Zenon DEF Candidates, Active
    <3> QED
      BY <1>0, <1>6, <1>7, <3>1, ZenonT(40) DEF HolderShape
  <2>2. ContributorShape'
    BY Zenon, <1>0, <1>1, <1>7, <1>8 DEF ContributorShape, FullAt
  <2>3. BlockEntitiesLive'
    BY Zenon, <1>0, <1>1, <1>7, <1>8 DEF BlockEntitiesLive
  <2> QED
    BY <2>1, <2>2, <2>3, Zenon
<1>13. CommitShape'
  BY Zenon, <1>1 DEF CommitShape
<1>14. ReadyShape'
  <2> SUFFICES ASSUME NEW p \in Chunks, NEW r \in {1, 2}, holder'[p].ready >= r,
                      NEW q \in Near(r, p)
               PROVE  contributors[q] # 0
    BY Zenon, <1>1 DEF ReadyShape
  <2>1. CASE p \in Candidates
    <3>1. AllContribute(contributors, r, p)
      BY <1>5, <2>1, ZenonT(40)
    <3> QED
      BY <3>1, Zenon DEF AllContribute
  <2>2. CASE p \notin Candidates
    BY Zenon, <1>0, <1>1, <1>6, <2>2 DEF ReadyShape
  <2> QED
    BY <2>1, <2>2, ZenonT(40)
<1>15. ASSUME NEW p \in Chunks, Active(p)
       PROVE  holder'[p].ready = Permitted(contributors', holder'[p], holder'[p].load, p)
  <2>1. Permitted(contributors', holder'[p], holder'[p].load, p)
          = Permitted(contributors, holder[p], holder[p].load, p)
    BY <1>1, <1>7, Zenon DEF Permitted
  <2>2. CASE p \in Candidates
    BY <1>4, <1>5, <2>1, <2>2, Zenon
  <2>3. CASE p \notin Candidates
    BY <1>0, <1>2, <1>6, <1>15, <2>1, <2>3, Zenon DEF ReadyFresh
  <2> QED
    BY <2>2, <2>3, Zenon
<1>16. ReadyFresh'
  BY <1>8, <1>15, ZenonT(40) DEF ReadyFresh
<1>17. NoLostWakeUp'
  BY Zenon, <1>0, <1>1, <1>7, <1>8 DEF NoLostWakeUp
<1>18. PendingShape'
  <2> SUFFICES ASSUME NEW p \in Chunks
               PROVE  /\ ~Active(p) => pendingReadiness'[p] = 0
                      /\ Active(p) =>
                            pendingReadiness'[p] =
                                IF holder'[p].ready < DesiredReadiness(holder'[p].load)
                                THEN holder'[p].id ELSE 0
    BY <1>8, Zenon DEF PendingShape
  <2>1. CASE p \in Candidates
    <3>1. Active(p) /\ holder'[p].load = holder[p].load
      BY <1>7, <2>1, Zenon DEF Candidates
    <3> QED
      BY <1>9, <2>1, <3>1, Zenon
  <2>2. CASE p \notin Candidates
    <3>1. pendingReadiness'[p] = pendingReadiness[p] /\ holder'[p] = holder[p]
          /\ (Active(p) => p \notin dirtyCenters)
      BY <1>2, <1>6, <1>9, <2>2, ZenonT(40)
    <3> QED
      BY <1>0, <3>1, Zenon DEF PendingShape
  <2> QED
    BY <2>1, <2>2, Zenon
<1>19. SnapshotShape'
  <2>1. snapshot' = RebuiltSnapshot(holder')
    <3>1. CASE rebuild \/ ReadinessChangesSnapshot(final, Candidates)
      BY <1>1, <3>1, Zenon
    <3>2. CASE ~(rebuild \/ ReadinessChangesSnapshot(final, Candidates))
      <4>1. ASSUME NEW p \in Chunks
            PROVE  SnapshotMembership(holder'[p].ready, holder'[p].sim)
                     = SnapshotMembership(holder[p].ready, holder[p].sim)
        <5>1. CASE p \in Candidates
          BY <1>1, <1>7, <3>2, <5>1, Zenon DEF ReadinessChangesSnapshot
        <5>2. CASE p \notin Candidates
          BY <1>6, <5>2, Zenon
        <5> QED
          BY <5>1, <5>2, Zenon
      <4>2. \A p \in Chunks :
              /\ SnapshotMembership(holder'[p].ready, holder'[p].sim)
                   = SnapshotMembership(holder[p].ready, holder[p].sim)
              /\ holder'[p].id = holder[p].id /\ holder'[p].place = holder[p].place
        BY <1>7, <4>1, Zenon
      <4>3. RebuiltSnapshot(holder') = RebuiltSnapshot(holder)
        BY <4>2, SameSnapshot, ZenonT(40)
      <4>4. snapshot' = snapshot
        BY <1>1, <3>2, Zenon
      <4> QED
        BY <1>0, <3>2, <4>3, <4>4, Zenon DEF SnapshotShape
    <3> QED
      BY <3>1, <3>2, Zenon
  <2> QED
    BY Zenon, <1>1, <2>1 DEF SnapshotShape
<1> QED
  BY <1>10, <1>11, <1>12, <1>13, <1>14, <1>16, <1>17, <1>18, <1>19, Zenon DEF ReadinessInv

\* A generation thread's step may fall anywhere in a commit: it changes no
\* readiness, and what it makes current is published or still to be.
LEMMA MakeFullKeeps ==
    ASSUME ReadinessInv, NEW p \in Chunks, MakeFull(p)
    PROVE  ReadinessInv'
<1>0. CommitTypes /\ Counted(Index) /\ ~failed /\ HolderShape /\ ContributorShape
      /\ CommitShape /\ ReadyShape /\ ReadyFresh /\ NoLostWakeUp /\ BlockEntitiesLive
      /\ PendingShape /\ SnapshotShape
  BY Zenon DEF ReadinessInv
<1>1. /\ holder[p].place # "none" /\ holder[p].made < Announced
      /\ holder' = [holder EXCEPT ![p].made = @ + 1]
      /\ publications' = IF holder[p].made = Initialized
                         THEN publications \cup {<<p, holder[p].id>>} ELSE publications
      /\ UNCHANGED <<wanted, contributors, counts, dirtyCenters, pendingReadiness, snapshot,
                     deferred, phase, changed, todo, drained, rebuild, failed>>
  BY Zenon DEF MakeFull, index, commit
<1>2. holder \in [Chunks -> Holders] /\ holder[p] \in Holders /\ holder[p].made \in 0 .. 3
      /\ holder[p].id \in 1 .. MaxHolders
  <2>1. holder[p].id # 0 /\ holder[p].id \in 0 .. MaxHolders
    BY <1>0, <1>1, HolderTypes, Zenon DEF HolderShape
  <2> QED
    BY <1>0, <2>1, HolderTypes DEF CommitTypes
<1>3. /\ holder' \in [Chunks -> Holders]
      /\ \A q \in Chunks : q # p => holder'[q] = holder[q]
      /\ holder'[p].made = holder[p].made + 1
  <2>1. holder[p].made + 1 \in Unmade .. Announced
    BY <1>1, <1>2 DEF Unmade, Announced
  <2>2. [holder[p] EXCEPT !.made = holder[p].made + 1] \in Holders
    BY Zenon, <1>2, <2>1 DEF Holders
  <2>3. holder' = [holder EXCEPT ![p] = [holder[p] EXCEPT !.made = holder[p].made + 1]]
    BY Zenon, <1>1, <1>2
  <2>4. [holder[p] EXCEPT !.made = holder[p].made + 1].made = holder[p].made + 1
    BY Zenon, <1>2 DEF Holders
  <2> QED
    BY Zenon, <1>2, <2>2, <2>3, <2>4
<1>4. ASSUME NEW q \in Chunks
      PROVE  /\ holder'[q].id = holder[q].id /\ holder'[q].place = holder[q].place
             /\ holder'[q].load = holder[q].load /\ holder'[q].sim = holder[q].sim
             /\ holder'[q].ready = holder[q].ready /\ holder'[q].live = holder[q].live
             /\ holder'[q].made >= holder[q].made
  <2>1. CASE q = p
    BY SMTT(40), <1>1, <1>2, <2>1 DEF Holders
  <2>2. CASE q # p
    <3>1. holder[q].made \in 0 .. 3
      BY <1>0, HolderTypes, ZenonT(40)
    <3> QED
      BY <1>3, <2>2, <3>1
  <2> QED
    BY <2>1, <2>2, Zenon
<1>5. ASSUME NEW q \in Chunks
      PROVE  (Active(q)' <=> Active(q)) /\ (FullAt(q) => FullAt(q)')
  <2>1. holder[q].made \in 0 .. 3 /\ holder'[q].made \in 0 .. 3
    BY Zenon, <1>0, <1>3, HolderTypes DEF Holders, Unmade, Announced
  <2> QED
    BY SMTT(40), <1>4, <2>1 DEF Active, FullAt, Initialized
<1>6. /\ publications \subseteq publications'
      /\ publications' \subseteq Chunks \X (1 .. MaxHolders)
  BY <1>0, <1>1, <1>2 DEF CommitTypes
<1>7. Index' = Index
  BY <1>1, Zenon DEF Index
<1>8. CommitTypes'
  BY <1>0, <1>1, <1>3, <1>6, <1>7, Zenon DEF CommitTypes
<1>9. Counted(Index)' /\ ~failed'
  BY <1>0, <1>1, <1>7, Zenon DEF Counted
<1>10. HolderShape'
  <2>1. \A q \in Chunks : holder[q].place = "none" => holder'[q] = holder[q]
    BY <1>1, <1>3, Zenon
  <2> QED
    BY <1>0, <1>4, <2>1, ZenonT(40) DEF HolderShape
<1>11. ContributorShape'
  BY <1>0, <1>1, <1>4, <1>5, Zenon DEF ContributorShape
<1>12. CommitShape'
  <2>1. \A q \in changed : q \in Chunks
    BY <1>0, Zenon DEF CommitTypes
  <2>2. \A q \in todo : q \in Chunks
    BY <1>0, Zenon DEF CommitTypes
  <2> QED
    BY Zenon, <1>0, <1>1, <1>4, <1>5, <2>1, <2>2 DEF CommitShape
<1>13. ReadyShape'
  <2>1. \A s \in Chunks, r \in {1, 2} : Near(r, s) \subseteq Chunks
    BY Zenon, NearAssumption
  <2> QED
    BY Zenon, <1>0, <1>1, <1>4, <1>5, <2>1 DEF ReadyShape
<1>14. ReadyFresh'
  <2> SUFFICES ASSUME NEW s \in Chunks, Active(s), s \notin dirtyCenters
               PROVE  holder'[s].ready = Permitted(contributors, holder'[s], holder'[s].load, s)
    BY <1>1, <1>5, Zenon DEF ReadyFresh
  <2>1. holder[s].ready = Permitted(contributors, holder[s], holder[s].load, s)
    BY <1>0, Zenon DEF ReadyFresh
  <2>2. CASE holder'[s].made < Initialized <=> holder[s].made < Initialized
    BY <1>4, <2>1, <2>2, Zenon DEF Permitted
  <2>3. CASE ~(holder'[s].made < Initialized <=> holder[s].made < Initialized)
    <3>1. s = p /\ holder[p].made < Initialized
      BY <1>2, <1>3, <2>3 DEF Initialized
    <3>2. contributors[p] = 0
      BY <1>0, <1>2, <3>1 DEF ContributorShape, FullAt, Initialized
    <3>3. ~AllContribute(contributors, 1, p) /\ ~AllContribute(contributors, 2, p)
      BY Zenon, <3>2, NearAssumption DEF AllContribute
    <3>4. Permitted(contributors, holder'[s], holder'[s].load, s) = Unready
      BY <3>1, <3>3, Zenon DEF Permitted
    <3>5. holder[s].ready = Unready
      BY <2>1, <3>1, Zenon DEF Permitted
    <3> QED
      BY <1>4, <3>4, <3>5, Zenon
  <2> QED
    BY <2>2, <2>3, Zenon
<1>15. NoLostWakeUp'
  <2> SUFFICES ASSUME NEW q \in Chunks
               PROVE  \/ contributors[q] = CurrentFullContributor(q)'
                      \/ <<q, holder[q].id>> \in publications'
                      \/ holder'[q].made = Initialized
                      \/ phase \in {"demote", "levels"} /\ q \in changed
                      \/ /\ phase = "contribute" /\ q \in todo
                         /\ q \in changed \/ <<q, holder[q].id>> \in drained
    BY SMTT(40), <1>1, <1>4 DEF NoLostWakeUp
  <2>1. CASE q # p
    <3>1. holder'[q] = holder[q]
      BY <1>3, <2>1, Zenon
    <3>2. CurrentFullContributor(q)' = CurrentFullContributor(q)
      BY <3>1, Zenon DEF CurrentFullContributor, Active
    <3> QED
      BY Zenon, <1>0, <1>6, <3>1, <3>2 DEF NoLostWakeUp
  <2>2. CASE q = p /\ holder[p].made = Initialized
    BY Zenon, <1>1, <2>2
  <2>3. CASE q = p /\ holder[p].made # Initialized
    <3>1. CASE holder[p].made + 1 = Initialized
      BY <1>3, <2>3, <3>1, ZenonT(40)
    <3>2. CASE holder[p].made + 1 # Initialized
      <4>1. (holder'[p].made >= Initialized) <=> (holder[p].made >= Initialized)
        BY <1>2, <1>3, <2>3, <3>2 DEF Initialized
      <4>2. CurrentFullContributor(p)' = CurrentFullContributor(p)
        BY <1>4, <4>1, Zenon DEF CurrentFullContributor, Active
      <4> QED
        BY Zenon, <1>0, <1>6, <2>3, <4>2 DEF NoLostWakeUp
    <3> QED
      BY <3>1, <3>2, Zenon
  <2> QED
    BY <2>1, <2>2, <2>3, Zenon
<1>16. BlockEntitiesLive'
  <2> SUFFICES ASSUME NEW q \in Chunks, Active(q), holder'[q].made = Announced, holder[q].load >= Full
               PROVE  \/ holder[q].live
                      \/ <<q, holder[q].id>> \in publications'
                      \/ phase = "contribute" /\ q \in todo /\ <<q, holder[q].id>> \in drained
    BY SMTT(40), <1>1, <1>4, <1>5 DEF BlockEntitiesLive
  <2>1. CASE q # p
    <3>1. holder'[q] = holder[q]
      BY <1>3, <2>1, Zenon
    <3> QED
      BY Zenon, <1>0, <1>6, <3>1 DEF BlockEntitiesLive
  <2>2. CASE q = p
    <3>1. holder[p].made = Initialized
      BY <1>2, <1>3, <2>2 DEF Announced, Initialized
    <3> QED
      BY Zenon, <1>1, <2>2, <3>1
  <2> QED
    BY <2>1, <2>2, Zenon
<1>17. PendingShape'
  BY <1>0, <1>1, <1>4, <1>5, ZenonT(40) DEF PendingShape
<1>18. SnapshotShape'
  <2>1. RebuiltSnapshot(holder') = RebuiltSnapshot(holder)
    <3>1. \A q \in Chunks :
            /\ SnapshotMembership(holder'[q].ready, holder'[q].sim)
                 = SnapshotMembership(holder[q].ready, holder[q].sim)
            /\ holder'[q].id = holder[q].id /\ holder'[q].place = holder[q].place
      BY <1>4, Zenon
    <3> QED
      BY <3>1, SameSnapshot, Zenon
  <2> QED
    BY <1>0, <1>1, <1>4, <1>5, <2>1, Zenon DEF SnapshotShape
<1> QED
  BY <1>8, <1>9, <1>10, <1>11, <1>12, <1>13, <1>14, <1>15, <1>16, <1>17, <1>18, Zenon DEF ReadinessInv

\* The empty holder has its type.
LEMMA NoHolderType == NoHolder \in Holders
<1>1. Unmade \in Unmade .. Announced /\ Unready \in Unready .. EntityReady
      /\ 0 \in 0 .. MaxHolders /\ Unloaded \in LoadLevels /\ Unloaded \in SimulationLevels
  BY SMTT(40), BoundAssumption DEF Unmade, Announced, Unready, EntityReady, LoadLevels,
                         SimulationLevels, Unloaded, EntityTicking
<1> QED
  BY Zenon, <1>1 DEF Holders, NoHolder

\* Dropping an unloading holder.
LEMMA DropKeeps ==
    ASSUME ReadinessInv, NEW p \in Chunks, DropHolder(p)
    PROVE  ReadinessInv'
<1> DEFINE g == [NoHolder EXCEPT !.id = holder[p].id]
<1>0. CommitTypes /\ Counted(Index) /\ ~failed /\ HolderShape /\ ContributorShape
      /\ CommitShape /\ ReadyShape /\ ReadyFresh /\ NoLostWakeUp /\ BlockEntitiesLive
      /\ PendingShape /\ SnapshotShape
  BY Zenon DEF ReadinessInv
<1>1. /\ phase = "idle" /\ holder[p].place = "unloading" /\ holder[p].id < MaxHolders
      /\ holder' = [holder EXCEPT ![p] = g]
      /\ UNCHANGED <<wanted, contributors, counts, dirtyCenters, pendingReadiness,
                     publications, snapshot, deferred, phase, changed, todo, drained,
                     rebuild, failed>>
  BY Zenon DEF DropHolder, index, commit
<1>2. /\ g \in Holders /\ g.id = holder[p].id /\ g.place = "none" /\ g.load = Unloaded
      /\ g.made = Unmade /\ g.ready = Unready /\ g.live = FALSE
  <2>1. /\ NoHolder.place = "none" /\ NoHolder.load = Unloaded /\ NoHolder.made = Unmade
        /\ NoHolder.ready = Unready /\ NoHolder.live = FALSE
    BY Zenon DEF NoHolder
  <2>2. holder[p].id \in 0 .. MaxHolders
    BY <1>0, HolderTypes, Zenon
  <2> QED
    BY Zenon, <2>1, <2>2, NoHolderType DEF Holders
<1> HIDE DEF g
<1>3. /\ holder' \in [Chunks -> Holders] /\ holder'[p] = g
      /\ \A q \in Chunks : q # p => holder'[q] = holder[q]
  BY Zenon, <1>0, <1>1, <1>2 DEF CommitTypes
<1>4. holder[p].ready = Unready /\ ~Active(p) /\ ~Active(p)' /\ contributors[p] = 0
  BY Zenon, <1>0, <1>1, <1>2, <1>3 DEF HolderShape, ContributorShape, FullAt, Active
<1>5. Index' = Index
  BY <1>1, Zenon DEF Index
<1>6. CommitTypes'
  BY <1>0, <1>1, <1>3, <1>5, Zenon DEF CommitTypes
<1>7. Counted(Index)' /\ ~failed'
  BY <1>0, <1>1, <1>5, ZenonT(40) DEF Counted
<1>8. HolderShape'
  BY <1>0, <1>1, <1>2, <1>3 DEF HolderShape
<1>9. ContributorShape'
  BY Zenon, <1>0, <1>1, <1>3, <1>4 DEF ContributorShape, FullAt, Active
<1>10. CommitShape'
  BY Zenon, <1>0, <1>1 DEF CommitShape
<1>11. ReadyShape'
  <2>1. \A q \in Chunks : holder'[q].ready = holder[q].ready
    BY <1>2, <1>3, <1>4, Zenon
  <2> QED
    BY <1>0, <1>1, <2>1 DEF ReadyShape
<1>12. ReadyFresh'
  BY <1>0, <1>1, <1>3, <1>4, Zenon DEF ReadyFresh, Active
<1>13. NoLostWakeUp'
  <2>1. CurrentFullContributor(p)' = 0
    BY <1>4, Zenon DEF CurrentFullContributor
  <2>2. \A q \in Chunks : q # p => CurrentFullContributor(q)' = CurrentFullContributor(q)
    BY <1>3, Zenon DEF CurrentFullContributor, Active
  <2> QED
    BY Zenon, <1>0, <1>1, <1>3, <1>4, <2>1, <2>2 DEF NoLostWakeUp
<1>14. BlockEntitiesLive'
  BY <1>0, <1>1, <1>3, <1>4 DEF BlockEntitiesLive, Active
<1>15. PendingShape'
  BY <1>0, <1>1, <1>3, <1>4, ZenonT(40) DEF PendingShape, Active
<1>16. SnapshotShape'
  <2> DEFINE M(H, q) == SnapshotMembership(H[q].ready, H[q].sim)
  <2>1. ASSUME NEW q \in Chunks
        PROVE  /\ holder'[q].place = "active" /\ M(holder', q).block
                    <=> holder[q].place = "active" /\ M(holder, q).block
               /\ (holder'[q].place = "active" /\ M(holder', q).block) =>
                    holder'[q].id = holder[q].id /\ M(holder', q) = M(holder, q)
    <3>1. CASE q = p
      BY <1>4, <3>1, Zenon DEF Active
    <3>2. CASE q # p
      BY <1>3, <3>2, Zenon
    <3> QED
      BY <3>1, <3>2, Zenon
  <2>2. RebuiltSnapshot(holder') = RebuiltSnapshot(holder)
    BY <2>1, SameSnapshot, Zenon
  <2> QED
    BY <1>0, <1>1, <2>2 DEF SnapshotShape
<1> QED
  BY <1>6, <1>7, <1>8, <1>9, <1>10, <1>11, <1>12, <1>13, <1>14, <1>15, <1>16, Zenon DEF ReadinessInv

\* The initial state: no holder, nothing counted.
LEMMA ReadinessInitially == ReadinessInit => ReadinessInv
<1> SUFFICES ASSUME ReadinessInit PROVE ReadinessInv
  BY Zenon
<1>1. /\ wanted = [p \in Chunks |-> [load |-> Unloaded, sim |-> Unloaded]]
      /\ holder = [p \in Chunks |-> NoHolder]
      /\ contributors = [p \in Chunks |-> 0]
      /\ counts = [r \in {1, 2} |-> [p \in Chunks |-> 0]]
      /\ dirtyCenters = {} /\ pendingReadiness = [p \in Chunks |-> 0]
      /\ publications = {} /\ snapshot = {} /\ deferred = {}
      /\ phase = "idle" /\ changed = {} /\ todo = {} /\ drained = {}
      /\ rebuild = FALSE /\ failed = FALSE
  BY Zenon DEF ReadinessInit
<1>2. /\ NoHolder.place = "none" /\ NoHolder.load = Unloaded /\ NoHolder.made = Unmade
      /\ NoHolder.ready = Unready /\ NoHolder.live = FALSE /\ NoHolder.id = 0
  BY Zenon DEF NoHolder
<1>3. ASSUME NEW p \in Chunks
      PROVE  holder[p] = NoHolder /\ ~Active(p) /\ contributors[p] = 0
             /\ CurrentFullContributor(p) = 0 /\ pendingReadiness[p] = 0
  <2>1. holder[p] = NoHolder /\ contributors[p] = 0 /\ pendingReadiness[p] = 0
    BY <1>1, Zenon
  <2>2. ~Active(p)
    BY Zenon, <1>2, <2>1 DEF Active
  <2> QED
    BY <2>1, <2>2, Zenon DEF CurrentFullContributor
<1>4. CommitTypes
  <2>1. [load |-> Unloaded, sim |-> Unloaded] \in Wants
    BY DEF Wants, LoadLevels, SimulationLevels, Unloaded, EntityTicking
  <2>2. Index \in Indices
    <3>1. contributors \in [Chunks -> 0 .. MaxHolders]
      BY <1>1, BoundAssumption
    <3>2. counts \in [{1, 2} -> [Chunks -> Nat]]
      BY Zenon, <1>1
    <3>3. dirtyCenters \subseteq Chunks /\ failed \in BOOLEAN
      BY Zenon, <1>1
    <3> QED
      BY Zenon, <3>1, <3>2, <3>3 DEF Index, Indices
  <2>3. 0 \in 0 .. MaxHolders
    BY BoundAssumption
  <2> QED
    BY Zenon, <1>1, <2>1, <2>2, <2>3, NoHolderType DEF CommitTypes
<1>5. Counted(Index)
  <2> SUFFICES ASSUME NEW r \in {1, 2}, NEW p \in Chunks
               PROVE  counts[r][p] = Cardinality(Contributing(contributors, r, p))
    BY Zenon DEF Counted, Index
  <2>1. Contributing(contributors, r, p) = {}
    BY Zenon, <1>3, NearAssumption DEF Contributing
  <2> QED
    BY Zenon, <1>1, <2>1, FS_EmptySet
<1>6. HolderShape /\ ContributorShape /\ ReadyFresh /\ NoLostWakeUp /\ BlockEntitiesLive
      /\ PendingShape
  <2>1. HolderShape
    BY SMTT(40), <1>2, <1>3, BoundAssumption DEF HolderShape
  <2> QED
    BY <1>3, <2>1, ZenonT(40)
       DEF ContributorShape, ReadyFresh, NoLostWakeUp, BlockEntitiesLive, PendingShape
<1>7. CommitShape
  BY Zenon, <1>1 DEF CommitShape
<1>8. ReadyShape
  BY SMTT(40), <1>2, <1>3 DEF ReadyShape, Unready
<1>9. SnapshotShape
  <2>1. RebuiltSnapshot(holder) = {}
    <3>1. \A q \in Chunks : holder[q].place # "active"
      BY <1>3, Zenon DEF Active
    <3> QED
      BY Zenon, <3>1 DEF RebuiltSnapshot
  <2> QED
    BY Zenon, <1>1, <2>1 DEF SnapshotShape
<1> QED
  BY <1>1, <1>4, <1>5, <1>6, <1>7, <1>8, <1>9, Zenon DEF ReadinessInv

\* Every step keeps the invariant.
LEMMA ReadinessStep == ReadinessInv /\ [ReadinessNext]_readinessVars => ReadinessInv'
<1> SUFFICES ASSUME ReadinessInv, [ReadinessNext]_readinessVars PROVE ReadinessInv'
  BY Zenon
<1>1. CASE \E new \in [Chunks -> Wants] : Begin(new)
  BY <1>1, BeginKeeps, Zenon
<1>2. CASE \E p \in Chunks : RemoveLost(p)
  BY <1>2, RemoveLostKeeps, Zenon
<1>3. CASE Demote
  BY <1>3, DemoteKeeps, Zenon
<1>4. CASE \E p \in Chunks : UpdateChunkLevel(p)
  BY <1>4, UpdateKeeps, Zenon
<1>5. CASE Drain
  BY <1>5, DrainKeeps, ZenonT(40)
<1>6. CASE \E p \in Chunks : Reconcile(p)
  BY <1>6, ReconcileKeeps, Zenon
<1>7. CASE ApplyFinalReadiness
  BY <1>7, ApplyKeeps, Zenon
<1>8. CASE \E p \in Chunks : MakeFull(p)
  BY <1>8, MakeFullKeeps, Zenon
<1>9. CASE \E p \in Chunks : DropHolder(p)
  BY <1>9, DropKeeps, Zenon
<1>10. CASE UNCHANGED readinessVars
  <2>1. UNCHANGED <<wanted, holder, contributors, counts, dirtyCenters, pendingReadiness,
                    publications, snapshot, deferred, phase, changed, todo, drained,
                    rebuild, failed>>
    BY <1>10, Zenon DEF readinessVars, index, commit
  <2>2. Index' = Index
    BY <2>1, Zenon DEF Index
  <2>3. CommitTypes' /\ Counted(Index)' /\ ~failed'
    BY <2>1, <2>2, Zenon DEF ReadinessInv, CommitTypes, Counted
  <2>4. HolderShape' /\ ContributorShape' /\ CommitShape' /\ ReadyShape' /\ ReadyFresh'
    BY <2>1, Zenon DEF ReadinessInv, HolderShape, ContributorShape, CommitShape, ReadyShape,
                       ReadyFresh, FullAt, Active
  <2>5. NoLostWakeUp' /\ BlockEntitiesLive' /\ PendingShape' /\ SnapshotShape'
    BY <2>1, Zenon DEF ReadinessInv, NoLostWakeUp, BlockEntitiesLive, PendingShape,
                       SnapshotShape, Active, CurrentFullContributor
  <2> QED
    BY <2>3, <2>4, <2>5, Zenon DEF ReadinessInv
<1> QED
  BY <1>1, <1>2, <1>3, <1>4, <1>5, <1>6, <1>7, <1>8, <1>9, <1>10, ZenonT(40) DEF ReadinessNext

\* The invariant holds in every behaviour of the commit.
THEOREM ReadinessInvariant == ReadinessSpec => []ReadinessInv
  BY ReadinessInitially, ReadinessStep, PTL DEF ReadinessSpec

\* For any map and any squares: the incremental index of Full contributors
\* never overflows, underflows or meets a foreign contributor.
THEOREM IndexConsistent == ReadinessSpec => []IndexIsConsistent
<1>1. ReadinessInv => IndexIsConsistent
  <2> SUFFICES ASSUME ReadinessInv PROVE IndexIsConsistent
    BY Zenon
  <2>1. CommitTypes /\ Counted(Index) /\ ~failed
    BY ZenonT(40) DEF ReadinessInv
  <2>2. ASSUME NEW r \in {1, 2}, NEW p \in Chunks
        PROVE  counts[r][p] \in 0 .. Cardinality(Near(r, p))
    <3>1. counts[r][p] = Cardinality(Contributing(contributors, r, p))
      BY <2>1, IndexTypes, Zenon DEF Counted
    <3>2. /\ Cardinality(Contributing(contributors, r, p)) \in Nat
          /\ Cardinality(Near(r, p)) \in Nat
          /\ Cardinality(Contributing(contributors, r, p)) <= Cardinality(Near(r, p))
      BY ContributingFinite, Zenon
    <3> QED
      BY <3>1, <3>2
  <2> QED
    BY <2>1, <2>2, IndexTypes, Zenon DEF IndexIsConsistent, ReadinessTypes, CommitTypes, Holders
<1> QED
  BY <1>1, ReadinessInvariant, PTL

\* For any map: a chunk that may tick is surrounded by active Full chunks with
\* a full level, in every state, also between the steps of a commit.
THEOREM ReadySurrounded == ReadinessSpec => []ReadyMeansFull
<1>1. ReadinessInv => ReadyMeansFull
  <2> SUFFICES ASSUME ReadinessInv, NEW p \in Chunks, NEW r \in {1, 2},
                      holder[p].ready >= r, NEW q \in Near(r, p)
               PROVE  Active(q) /\ holder[q].made >= Initialized /\ holder[q].load >= Full
    BY Zenon DEF ReadyMeansFull
  <2>1. q \in Chunks
    BY Zenon, NearAssumption
  <2>2. ReadyShape /\ ContributorShape
    BY Zenon DEF ReadinessInv
  <2>3. FullAt(q)
    BY <2>1, <2>2, Zenon DEF ReadyShape, ContributorShape
  <2> QED
    BY <2>3, Zenon DEF FullAt
<1> QED
  BY <1>1, ReadinessInvariant, PTL

\* For any map: once the publications are handled, each chunk is as ready as
\* its surroundings permit, and its block entities are live.
THEOREM WakeUpsArrive == ReadinessSpec => []ReadinessIsCurrent
<1>1. ReadinessInv => ReadinessIsCurrent
  <2> SUFFICES ASSUME ReadinessInv, phase = "idle", publications = {}
               PROVE  /\ (\A p \in Chunks : holder[p].made # Initialized) =>
                            \A p \in Chunks : Active(p) =>
                                holder[p].ready =
                                  IF holder[p].load = EntityTicking
                                     /\ (\A q \in Near(2, p) : CurrentFullContributor(q) # 0)
                                  THEN EntityReady
                                  ELSE IF holder[p].load >= BlockTicking
                                     /\ (\A q \in Near(1, p) : CurrentFullContributor(q) # 0)
                                  THEN BlockReady ELSE Unready
                      /\ \A p \in Chunks :
                            (Active(p) /\ holder[p].made = Announced /\ holder[p].load >= Full)
                                => holder[p].live
    BY Zenon DEF ReadinessIsCurrent
  <2>0. CommitTypes /\ CommitShape /\ ReadyFresh /\ NoLostWakeUp /\ BlockEntitiesLive
    BY Zenon DEF ReadinessInv
  <2>1. ASSUME \A p \in Chunks : holder[p].made # Initialized, NEW p \in Chunks, Active(p)
        PROVE  holder[p].ready =
                 IF holder[p].load = EntityTicking
                    /\ (\A q \in Near(2, p) : CurrentFullContributor(q) # 0)
                 THEN EntityReady
                 ELSE IF holder[p].load >= BlockTicking
                    /\ (\A q \in Near(1, p) : CurrentFullContributor(q) # 0)
                 THEN BlockReady ELSE Unready
    <3>1. \A q \in Chunks : contributors[q] = CurrentFullContributor(q)
      BY Zenon, <2>0, <2>1 DEF NoLostWakeUp
    <3>2. ASSUME NEW r \in {1, 2}
          PROVE  AllContribute(contributors, r, p)
                   <=> \A q \in Near(r, p) : CurrentFullContributor(q) # 0
      <4>1. Near(r, p) \subseteq Chunks
        BY Zenon, NearAssumption
      <4> QED
        BY Zenon, <3>1, <4>1 DEF AllContribute
    <3>3. holder[p].made < Initialized =>
            ~AllContribute(contributors, 1, p) /\ ~AllContribute(contributors, 2, p)
      <4> SUFFICES ASSUME holder[p].made < Initialized PROVE contributors[p] = 0
        BY Zenon, NearAssumption DEF AllContribute
      <4>1. ~(holder[p].made >= Initialized)
        BY SMTT(40), <2>0, HolderTypes DEF Initialized
      <4> QED
        BY <3>1, <4>1, Zenon DEF CurrentFullContributor
    <3>4. holder[p].ready = Permitted(contributors, holder[p], holder[p].load, p)
      BY Zenon, <2>0, <2>1 DEF ReadyFresh, CommitShape
    <3>5. (holder[p].load >= EntityTicking) <=> (holder[p].load = EntityTicking)
      BY <2>0, HolderTypes DEF EntityTicking
    <3>6. AllContribute(contributors, 1, p) <=> \A q \in Near(1, p) : CurrentFullContributor(q) # 0
      BY Zenon, <3>2
    <3>7. AllContribute(contributors, 2, p) <=> \A q \in Near(2, p) : CurrentFullContributor(q) # 0
      BY Zenon, <3>2
    <3> QED
      BY <3>3, <3>4, <3>5, <3>6, <3>7, Zenon DEF Permitted
  <2>2. ASSUME NEW p \in Chunks, Active(p), holder[p].made = Announced, holder[p].load >= Full
        PROVE  holder[p].live
    BY Zenon, <2>0, <2>2 DEF BlockEntitiesLive
  <2> QED
    BY <2>1, <2>2, ZenonT(40)
<1> QED
  BY <1>1, ReadinessInvariant, PTL

\* For any map: between boundaries the snapshot and the save dependencies are
\* what a rebuild from scratch gives.
THEOREM OwnersCurrent == ReadinessSpec => []OwnersAreCurrent
<1>1. ReadinessInv => OwnersAreCurrent
  <2> SUFFICES ASSUME ReadinessInv, phase = "idle"
               PROVE  /\ snapshot = RebuiltSnapshot(holder)
                      /\ \A p \in Chunks :
                            pendingReadiness[p] =
                                IF Active(p) /\ holder[p].ready < DesiredReadiness(holder[p].load)
                                THEN holder[p].id ELSE 0
    BY Zenon DEF OwnersAreCurrent
  <2>1. CommitShape /\ PendingShape /\ SnapshotShape
    BY Zenon DEF ReadinessInv
  <2>2. dirtyCenters = {} /\ ~rebuild
    BY <2>1, Zenon DEF CommitShape
  <2>3. snapshot = RebuiltSnapshot(holder)
    BY <2>1, <2>2, Zenon DEF SnapshotShape
  <2> QED
    BY <2>1, <2>2, <2>3, Zenon DEF PendingShape
<1> QED
  BY <1>1, ReadinessInvariant, PTL

-----------------------------------------------------------------------------
(* The epoch handoff: the inductive invariant.                             *)

\* The operations the worker has taken so far, and those it has applied.
TakenCount == Len(log) - Len(pending)
AppliedCount == Len(log) - Len(pending) - Len(taken)

\* The revision of the n-th operation, the initial revision before the first one.
RevisionAt(n) == IF n = 0 THEN 0 ELSE log[n].revision

\* No revision lies on both sides of a cut after n operations.
Splits(n) ==
  \A i, j \in 1..Len(log) : i <= n /\ n < j => log[i].revision < log[j].revision

\* The manager has one owner, and a Running epoch has one.
HandoffInv ==
  /\ EpochExclusive
  /\ state # "Running" => worker = "None" /\ ~committing
  /\ state = "Running" => worker # "None" \/ committing
  /\ worker # "Applying" => taken = <<>>

\* Types; tickets follows from QueueInv, because only queueing bounds the copies of a ticket.
ShapeInv ==
  /\ nextRevision \in Nat
  /\ pending \in Seq(Queued)
  /\ batch \in Seq(Operation)
  /\ state \in {"Idle", "Running", "Ready"}
  /\ worker \in {"None", "Spawned", "Applying", "Updated"}
  /\ committing \in BOOLEAN
  /\ taken \in Seq(Queued)
  /\ dirty \in BOOLEAN
  /\ applied \in Nat
  /\ committed \in Nat
  /\ log \in Seq(Queued)
  /\ views \in Seq(TicketState)
  /\ shown \in Nat

\* What is queued and taken is the end of the log, and the manager holds the rest of it.
QueueInv ==
  /\ Len(views) = Len(log) + 1
  /\ \A i \in 1..Len(log) : views[i + 1] = ApplyOperation(views[i], log[i].operation)
  /\ AppliedCount >= 0
  /\ \A i \in 1..Len(pending) : pending[i] = log[TakenCount + i]
  /\ \A i \in 1..Len(taken) : taken[i] = log[AppliedCount + i]
  /\ tickets = views[AppliedCount + 1]

\* Revisions grow along the log, and a batch still being pushed is still in the queue.
RevisionInv ==
  /\ \A i \in 1..Len(log) : log[i].revision \in 1..nextRevision
  /\ \A i, j \in 1..Len(log) : i <= j => log[i].revision <= log[j].revision
  /\ Splits(TakenCount)
  /\ batch # <<>> =>
       /\ nextRevision > 0
       /\ \A i \in 1..Len(log) : i <= TakenCount => log[i].revision < nextRevision
  /\ applied = RevisionAt(AppliedCount)

\* The levels of the chunk map once the deferred revivals are done.
Promised == ApplyChanges(visible, revivals)

\* The levels of the manager, the changes of the epoch and the levels of the chunk map.  A
\* deferred revival is of a chunk without an active holder that still has an unloading one.
LevelInv ==
  /\ levels \in LevelState
  /\ visible \in LevelState
  /\ unloading \in SUBSET Positions
  /\ revivals \in UNION {[S -> Levels] : S \in SUBSET Positions}
  /\ \A p \in DOMAIN revivals : visible[p] = NoLevel /\ p \in unloading
  /\ changes \in UNION {[S -> Levels \cup {NoLevel}] : S \in SUBSET Positions}
  /\ dirty => worker = "Applying"
  /\ ~dirty => levels = Propagate(tickets)
  /\ IF state = "Ready" \/ worker = "Updated"
       THEN levels = ApplyChanges(Promised, changes)
       ELSE levels = Promised

\* What the last commit showed or deferred.
ShownInv ==
  /\ shown <= AppliedCount
  /\ committing => shown = AppliedCount
  /\ Splits(shown)
  /\ Promised = Propagate(views[shown + 1])
  /\ committed <= RevisionAt(shown)
  /\ ~committing => committed = RevisionAt(shown)

Inductive ==
  HandoffInv /\ ShapeInv /\ QueueInv /\ RevisionInv /\ LevelInv /\ ShownInv

----------------------------------------------------------------------------
\* A ticket operation that stays within the bound keeps a ticket state one.
LEMMA AppliedIsTicketState ==
  ASSUME NEW held \in TicketState, NEW op \in Operation,
         op.kind = "Add" => held[op.pos][op.ticket] < MaxOperations
  PROVE  ApplyOperation(held, op) \in TicketState
BY BoundsAssumption DEF ApplyOperation, TicketState, Operation

\* remove_ticket that finds no ticket changes nothing; it is the one operation that leaves
\* the manager clean.
LEMMA CleanIsUnchanged ==
  ASSUME NEW held \in TicketState, NEW op \in Operation, ~MarksDirty(held, op)
  PROVE  ApplyOperation(held, op) = held
<1>1. op.kind = "Remove" /\ held[op.pos][op.ticket] = 0
  BY BoundsAssumption DEF MarksDirty, TicketState, Operation
<1> QED
  BY <1>1 DEF ApplyOperation, TicketState, Operation

\* Committing the change list of a propagation gives exactly its levels.
LEMMA ChangesAreComplete ==
  ASSUME NEW old \in LevelState, NEW new \in LevelState
  PROVE  /\ ApplyChanges(old, LevelChanges(old, new)) = new
         /\ LevelChanges(old, new) \in UNION {[S -> Levels \cup {NoLevel}] : S \in SUBSET Positions}
<1> DEFINE differing == {q \in Positions : old[q] # new[q]}
<1>1. LevelChanges(old, new) \in [differing -> Levels \cup {NoLevel}]
  BY Zenon DEF LevelChanges, LevelState
<1>2. ApplyChanges(old, LevelChanges(old, new)) = new
  BY Zenon DEF LevelChanges, LevelState, ApplyChanges
<1>3. differing \in SUBSET Positions
  BY Zenon
<1> QED
  BY Zenon, <1>1, <1>2, <1>3

\* An epoch without changes leaves the chunk map alone.
LEMMA NoChangesChangesNothing ==
  ASSUME NEW old \in LevelState
  PROVE  /\ ApplyChanges(old, NoChanges) = old
         /\ NoChanges \in UNION {[S -> Levels \cup {NoLevel}] : S \in SUBSET Positions}
<1>1. NoLevels \in LevelState
  BY Zenon DEF NoLevels, LevelState
<1>2. NoChanges \in UNION {[S -> Levels \cup {NoLevel}] : S \in SUBSET Positions}
  BY Zenon, <1>1, ChangesAreComplete DEF NoChanges
<1>3. DOMAIN NoChanges = {}
  BY Zenon DEF NoChanges, LevelChanges
<1> QED
  BY Zenon, <1>2, <1>3 DEF ApplyChanges, LevelState

\* The coordinator's state, the worker and the commit stay in step.
LEMMA HandoffStep ==
  ASSUME HandoffInv, ShapeInv, [Next]_vars
  PROVE  HandoffInv'
<1> USE DEF HandoffInv, EpochExclusive, ShapeInv
<1>1. CASE Gameplay
  BY <1>1 DEF Gameplay, PushFirst, PushRest
<1>2. CASE Background
  BY <1>2 DEF Background, Take, Apply, Update, FinishEpoch
<1>3. CASE StartEpoch
  BY Zenon, <1>3 DEF StartEpoch
<1>4. CASE CommitLevels
  BY Zenon, <1>4 DEF CommitLevels
<1>5. CASE PublishCommitted
  BY Zenon, <1>5 DEF PublishCommitted
<1>6. CASE UNCHANGED vars
  BY Zenon, <1>6 DEF vars
<1> QED
  BY ZenonT(40), <1>1, <1>2, <1>3, <1>4, <1>5, <1>6 DEF Next, Boundary

\* The counts of the log's parts, as integers.
LEMMA LogCounts ==
  ASSUME ShapeInv, QueueInv
  PROVE  /\ Len(log) \in Nat /\ Len(pending) \in Nat /\ Len(taken) \in Nat
         /\ TakenCount \in 0..Len(log) /\ AppliedCount \in 0..Len(log)
         /\ AppliedCount <= TakenCount
         /\ tickets \in TicketState
BY DEF ShapeInv, QueueInv, TakenCount, AppliedCount

\* A cut before another one of a sequence of n elements, and the place of its view.
LEMMA CutBefore ==
  ASSUME NEW m \in Nat, NEW a \in 0..m
  PROVE  /\ a + 1 \in 1..(m + 1)
         /\ \A k \in Nat, b \in 0..m : k <= a /\ a <= b => k \in 0..m /\ k <= b
BY SMTT(40)

\* Two counters that grow together keep their difference.
LEMMA BothGrow ==
  ASSUME NEW a \in Nat, NEW b \in Nat
  PROVE  (a + 1) - (b + 1) = a - b
BY SMTT(40)

\* Queueing an operation whose revision is new, or is the one of the batch being pushed.
LEMMA EnqueueStep ==
  ASSUME Inductive, NEW op \in Operation, NEW revision \in Nat \ {0},
         Enqueue(op, revision), batch' \in Seq(Operation),
         nextRevision' = revision, nextRevision <= revision,
         \A i \in 1..Len(log) : i <= TakenCount => log[i].revision < revision,
         UNCHANGED <<state, worker, committing, taken, manager, committed, chunkMap, shown>>
  PROVE  ShapeInv' /\ QueueInv' /\ RevisionInv' /\ LevelInv' /\ ShownInv'
<1> DEFINE queued == [revision |-> revision, operation |-> op]
           view == ApplyOperation(views[Len(views)], op)
           n == Len(log)
<1> USE DEF Inductive
<1>1. /\ pending' = Append(pending, queued)
      /\ log' = Append(log, queued)
      /\ views' = Append(views, view)
  BY Zenon DEF Enqueue
<1>2. queued \in Queued
  BY Zenon DEF Queued
<1>3. n \in Nat /\ Len(pending) \in Nat /\ Len(taken) \in Nat
      /\ TakenCount \in 0..n /\ AppliedCount \in 0..n /\ AppliedCount <= TakenCount
      /\ tickets \in TicketState
  BY Zenon, LogCounts
<1>4. view \in TicketState
  <2>0. views \in Seq(TicketState) /\ Len(views) = n + 1
    BY Zenon DEF ShapeInv, QueueInv
  <2>1. views[Len(views)] \in TicketState
    BY SMTT(40), <1>3, <2>0
  <2> QED
    BY ZenonT(40), <2>1, AppliedIsTicketState DEF Enqueue
<1>5. ShapeInv'
  <2>1. pending \in Seq(Queued) /\ log \in Seq(Queued) /\ views \in Seq(TicketState)
    BY Zenon DEF ShapeInv
  <2> HIDE DEF queued, view
  <2>2. pending' \in Seq(Queued) /\ log' \in Seq(Queued) /\ views' \in Seq(TicketState)
    BY SMTT(40), <1>1, <1>2, <1>4, <2>1
  <2>3. nextRevision' \in Nat
    BY Zenon
  <2> QED
    BY ZenonT(40), <2>2, <2>3 DEF ShapeInv, manager
<1>6. /\ Len(log') = n + 1
      /\ \A i \in 1..n : log'[i] = log[i]
      /\ log'[n + 1] = queued
  BY <1>1, <1>2 DEF ShapeInv
<1>7. /\ Len(pending') = Len(pending) + 1
      /\ \A i \in 1..Len(pending) : pending'[i] = pending[i]
      /\ pending'[Len(pending) + 1] = queued
  BY <1>1, <1>2 DEF ShapeInv
<1>8. /\ Len(views') = n + 2
      /\ \A i \in 1..(n + 1) : views'[i] = views[i]
      /\ views'[n + 2] = ApplyOperation(views[n + 1], op)
  BY SMTT(90), <1>1, <1>4, <1>3 DEF ShapeInv, QueueInv
<1>9. TakenCount' = TakenCount /\ AppliedCount' = AppliedCount
  <2>1. Len(log') = Len(log) + 1 /\ Len(pending') = Len(pending) + 1 /\ taken' = taken
    BY Zenon, <1>6, <1>7
  <2>2. Len(log) \in Nat /\ Len(pending) \in Nat
    BY Zenon, <1>3
  <2>3. Len(log') - Len(pending') = Len(log) - Len(pending)
    BY Zenon, <2>1, <2>2, BothGrow
  <2> QED
    BY ZenonT(40), <2>1, <2>3 DEF TakenCount, AppliedCount
<1>10. QueueInv'
  <2>1. Len(views') = Len(log') + 1
    BY SMTT(40), <1>3, <1>6, <1>8
  <2>2. ASSUME NEW i \in 1..Len(log')
        PROVE  views'[i + 1] = ApplyOperation(views'[i], log'[i].operation)
    <3>1. CASE i = n + 1
      BY <3>1, <1>3, <1>6, <1>8
    <3>2. CASE i \in 1..n
      <4> i \in 1..(n + 1) /\ i + 1 \in 1..(n + 1)
        BY <3>2, <1>3
      <4>1. views'[i + 1] = views[i + 1] /\ views'[i] = views[i] /\ log'[i] = log[i]
        BY Zenon, <3>2, <1>6, <1>8
      <4>2. views[i + 1] = ApplyOperation(views[i], log[i].operation)
        BY ZenonT(40), <3>2 DEF QueueInv
      <4> QED
        BY Zenon, <4>1, <4>2
    <3> QED
      BY SMTT(30), <3>1, <3>2, <1>3, <1>6
  <2>3. ASSUME NEW i \in 1..Len(pending')
        PROVE  pending'[i] = log'[TakenCount' + i]
    <3>1. CASE i = Len(pending) + 1
      BY SMTT(30), <3>1, <1>3, <1>6, <1>7, <1>9 DEF TakenCount
    <3>2. CASE i \in 1..Len(pending)
      <4>1. TakenCount + i \in 1..n
        BY <3>2, <1>3 DEF TakenCount
      <4> QED
        BY ZenonT(40), <3>2, <4>1, <1>6, <1>7, <1>9 DEF QueueInv
    <3> QED
      BY SMTT(40), <3>1, <3>2, <1>3, <1>7
  <2>4. ASSUME NEW i \in 1..Len(taken)
        PROVE  taken[i] = log'[AppliedCount + i]
    <3>1. AppliedCount + i \in 1..n
      BY SMTT(40), <1>3 DEF AppliedCount
    <3> QED
      BY Zenon, <3>1, <1>6 DEF QueueInv
  <2>5. tickets = views'[AppliedCount + 1]
    BY <1>3, <1>8 DEF QueueInv
  <2>6. taken' = taken /\ tickets' = tickets
    BY Zenon DEF manager
  <2> QED
    BY ZenonT(40), <2>1, <2>2, <2>3, <2>4, <2>5, <2>6, <1>3, <1>9 DEF QueueInv
<1>11. \A i \in 1..n : log[i].revision \in 1..nextRevision
  BY Zenon DEF RevisionInv
<1>12. ASSUME NEW k \in 0..n, k <= TakenCount, Splits(k)
       PROVE  Splits(k)'
  <2> SUFFICES ASSUME NEW i \in 1..(n + 1), NEW j \in 1..(n + 1), i <= k, k < j
               PROVE  log'[i].revision < log'[j].revision
    BY ZenonT(40), <1>6 DEF Splits
  <2>1. i \in 1..n /\ i <= TakenCount
    BY SMTT(40), <1>3, <1>12
  <2>2. CASE j = n + 1
    BY SMTT(30), <2>1, <2>2, <1>3, <1>6
  <2>3. CASE j \in 1..n
    BY Zenon, <2>1, <2>3, <1>6, <1>12 DEF Splits
  <2>4. j = n + 1 \/ j \in 1..n
    BY SMTT(30), <1>3
  <2> QED
    BY Zenon, <2>2, <2>3, <2>4
<1>13. \A k \in 0..n : RevisionAt(k)' = RevisionAt(k)
  BY SMTT(30), <1>3, <1>6 DEF RevisionAt
<1>14. RevisionInv'
  <2>1. \A i \in 1..Len(log') : log'[i].revision \in 1..nextRevision'
    <3> SUFFICES ASSUME NEW i \in 1..(n + 1)
                 PROVE  log'[i].revision \in 1..revision
      BY ZenonT(40), <1>6
    <3>1. CASE i = n + 1
      BY <3>1, <1>6
    <3>2. CASE i \in 1..n
      <4>1. log'[i].revision \in 1..nextRevision
        BY Zenon, <3>2, <1>6, <1>11
      <4>2. nextRevision \in Nat
        BY ZenonT(40) DEF ShapeInv
      <4> QED
        BY <4>1, <4>2
    <3> QED
      BY <3>1, <3>2, <1>3
  <2>2. \A i, j \in 1..Len(log') : i <= j => log'[i].revision <= log'[j].revision
    <3> SUFFICES ASSUME NEW i \in 1..(n + 1), NEW j \in 1..(n + 1), i <= j
                 PROVE  log'[i].revision <= log'[j].revision
      BY ZenonT(40), <1>6
    <3>1. CASE j = n + 1
      BY SMTT(40), <3>1, <2>1, <1>6
    <3>2. CASE j \in 1..n
      BY SMTT(90), <3>2, <1>3, <1>6 DEF RevisionInv
    <3> QED
      BY <3>1, <3>2, <1>3
  <2>3. Splits(TakenCount)'
    <3>1. Splits(TakenCount) /\ TakenCount \in 0..n /\ TakenCount <= TakenCount
      BY SMTT(40), <1>3 DEF RevisionInv
    <3> QED
      BY Zenon, <3>1, <1>12, <1>9 DEF Splits
  <2>4. \A i \in 1..Len(log') : i <= TakenCount' => log'[i].revision < nextRevision'
    <3> SUFFICES ASSUME NEW i \in 1..Len(log'), i <= TakenCount'
                 PROVE  log'[i].revision < nextRevision'
      BY Zenon
    <3>1. i \in 1..n /\ i <= TakenCount
      BY SMTT(40), <1>3, <1>6, <1>9
    <3>2. log[i].revision < revision /\ log'[i] = log[i]
      BY Zenon, <1>6, <3>1
    <3> QED
      BY Zenon, <3>2
  <2>5. applied' = RevisionAt(AppliedCount)'
    BY Zenon, <1>3, <1>9, <1>13 DEF RevisionInv, RevisionAt, manager
  <2> QED
    BY SMTT(40), <2>1, <2>2, <2>3, <2>4, <2>5 DEF RevisionInv
<1>15. LevelInv'
  BY Zenon DEF LevelInv, Promised, manager, chunkMap
<1>16. ShownInv'
  <2>1. shown \in 0..n /\ shown <= TakenCount
    <3>1. shown \in Nat /\ shown <= AppliedCount
      BY Zenon DEF ShapeInv, ShownInv
    <3> QED
      BY Zenon, <1>3, <3>1, CutBefore
  <2>2. Splits(shown)'
    BY Zenon, <2>1, <1>12 DEF ShownInv, Splits
  <2>3. RevisionAt(shown)' = RevisionAt(shown)
    BY SMTT(40), <2>1, <1>3, <1>6 DEF RevisionAt
  <2>4. views'[shown + 1] = views[shown + 1]
    BY Zenon, <2>1, <1>3, <1>8, CutBefore
  <2> QED
    BY ZenonT(40), <2>2, <2>3, <2>4, <1>9 DEF ShownInv, Promised, chunkMap
<1> QED
  BY Zenon, <1>5, <1>10, <1>14, <1>15, <1>16

\* push and push_batch.
LEMMA GameplayStep ==
  ASSUME Inductive, Gameplay
  PROVE  ShapeInv' /\ QueueInv' /\ RevisionInv' /\ LevelInv' /\ ShownInv'
<1>1. \A i \in 1..Len(log) : log[i].revision \in 1..nextRevision
  BY Zenon DEF Inductive, RevisionInv
<1>2. nextRevision \in Nat /\ batch \in Seq(Operation)
  BY ZenonT(40) DEF Inductive, ShapeInv
<1>3. ASSUME NEW op \in Operation, NEW m \in 0..(MaxBatch - 1), NEW rest \in [1..m -> Operation],
             PushFirst(op, rest)
      PROVE  ShapeInv' /\ QueueInv' /\ RevisionInv' /\ LevelInv' /\ ShownInv'
  <2>1. nextRevision + 1 \in Nat \ {0}
    BY <1>2
  <2>2. m \in Nat
    BY BoundsAssumption
  <2>3. rest \in Seq(Operation)
    BY <2>2
  <2>4. \A i \in 1..Len(log) : i <= TakenCount => log[i].revision < nextRevision + 1
    BY <1>1, <1>2
  <2> QED
    BY <1>2, <1>3, <2>1, <2>3, <2>4, EnqueueStep DEF PushFirst
<1>4. CASE PushRest
  <2>1. Head(batch) \in Operation /\ Tail(batch) \in Seq(Operation)
    BY SMTT(40), <1>2, <1>4 DEF PushRest
  <2>2. /\ nextRevision \in Nat \ {0}
        /\ \A i \in 1..Len(log) : i <= TakenCount => log[i].revision < nextRevision
    BY <1>2, <1>4 DEF PushRest, Inductive, RevisionInv
  <2>3. nextRevision <= nextRevision
    BY <1>2
  <2> QED
    BY ZenonT(40), <1>4, <2>1, <2>2, <2>3, EnqueueStep DEF PushRest
<1> QED
  BY Zenon, <1>3, <1>4 DEF Gameplay

\* take moves the whole queue to the worker, which had nothing left.
LEMMA TakeStep ==
  ASSUME Inductive, Take
  PROVE  ShapeInv' /\ QueueInv' /\ RevisionInv' /\ LevelInv' /\ ShownInv'
<1> USE DEF Inductive
<1>1. taken = <<>> /\ Len(taken) = 0
  BY Zenon DEF Take, HandoffInv
<1>2. /\ Len(log) \in Nat /\ Len(pending) \in Nat
      /\ TakenCount \in 0..Len(log) /\ AppliedCount = TakenCount
      /\ tickets \in TicketState
  BY <1>1, LogCounts DEF TakenCount, AppliedCount
<1>3. /\ pending' = <<>> /\ Len(pending') = 0 /\ taken' = pending /\ log' = log
      /\ views' = views /\ batch' = <<>> /\ batch = <<>> /\ tickets' = tickets
  BY Zenon DEF Take, manager, history
<1>4. TakenCount' = Len(log) /\ AppliedCount' = AppliedCount
  BY SMTT(40), <1>1, <1>2, <1>3 DEF TakenCount, AppliedCount
<1>5. ShapeInv'
  BY SMTT(40) DEF Take, ShapeInv, manager, history
<1>6. QueueInv'
  BY <1>2, <1>3, <1>4 DEF QueueInv
<1>7. RevisionInv'
  <2>1. Splits(TakenCount)'
    BY <1>2, <1>3, <1>4 DEF Splits
  <2>2. applied' = RevisionAt(AppliedCount)'
    BY Zenon, <1>3, <1>4 DEF RevisionInv, RevisionAt, Take, manager
  <2> QED
    BY ZenonT(40), <2>1, <2>2, <1>3 DEF RevisionInv, Take
<1>8. LevelInv'
  BY Zenon DEF LevelInv, Promised, Take, manager, chunkMap, HandoffInv, EpochExclusive
<1>9. ShownInv'
  BY Zenon, <1>3, <1>4 DEF ShownInv, Promised, Take, Splits, RevisionAt, chunkMap, history
<1> QED
  BY Zenon, <1>5, <1>6, <1>7, <1>8, <1>9

\* One operation moves from the worker's part of the log to the manager's.
LEMMA ApplyStep ==
  ASSUME Inductive, Apply
  PROVE  ShapeInv' /\ QueueInv' /\ RevisionInv' /\ LevelInv' /\ ShownInv'
<1> USE DEF Inductive
<1>1. /\ Len(log) \in Nat /\ Len(pending) \in Nat /\ Len(taken) \in Nat
      /\ TakenCount \in 0..Len(log) /\ AppliedCount \in 0..Len(log)
      /\ AppliedCount <= TakenCount
      /\ tickets \in TicketState
  BY ZenonT(40), LogCounts
<1>2. taken \in Seq(Queued) /\ taken # <<>> /\ Len(taken) > 0
  BY DEF Apply, ShapeInv
<1>3. Head(taken) = taken[1] /\ Head(taken) \in Queued
  BY <1>2
<1>4. /\ taken' = Tail(taken) /\ taken' \in Seq(Queued) /\ Len(taken') = Len(taken) - 1
      /\ \A i \in 1..Len(taken') : taken'[i] = taken[i + 1]
  BY <1>2 DEF Apply
<1>5. log' = log /\ views' = views /\ pending' = pending /\ shown' = shown
  BY Zenon DEF Apply, history
<1>6. TakenCount' = TakenCount /\ AppliedCount' = AppliedCount + 1
  BY <1>1, <1>4, <1>5 DEF TakenCount, AppliedCount
<1>7. AppliedCount + 1 \in 1..Len(log) /\ AppliedCount + 1 \in Nat /\ AppliedCount + 1 # 0
  BY <1>1, <1>2 DEF AppliedCount
<1>8. Head(taken) = log[AppliedCount + 1]
  <2>1. 1 \in 1..Len(taken)
    BY <1>2
  <2>2. taken[1] = log[AppliedCount + 1]
    BY Zenon, <1>1, <2>1 DEF QueueInv
  <2>3. QED
    BY Zenon, <1>3, <2>2
<1>9. Head(taken).revision \in Nat /\ Head(taken).operation \in Operation
  BY Zenon, <1>3 DEF Queued
<1>10. ShapeInv'
  <2>1. dirty' \in BOOLEAN
    BY Zenon DEF Apply
  <2> QED
    BY Zenon, <2>1, <1>4, <1>5, <1>9 DEF Apply, ShapeInv
<1>11. QueueInv'
  <2>1. ASSUME NEW i \in 1..Len(taken')
        PROVE  taken'[i] = log'[AppliedCount' + i]
    <3>1. i + 1 \in 1..Len(taken)
      BY <1>1, <1>2, <1>4
    <3>2. taken[i + 1] = log[AppliedCount + (i + 1)]
      BY Zenon, <3>1 DEF QueueInv
    <3>3. AppliedCount + (i + 1) = AppliedCount' + i
      BY <1>1, <1>6, <1>4
    <3> QED
      BY ZenonT(40), <3>2, <3>3, <1>4, <1>5
  <2>2. tickets' = views'[AppliedCount' + 1]
    <3>1. tickets' = ApplyOperation(views[AppliedCount + 1], log[AppliedCount + 1].operation)
      BY Zenon, <1>8 DEF Apply, QueueInv
    <3>2. views[(AppliedCount + 1) + 1]
            = ApplyOperation(views[AppliedCount + 1], log[AppliedCount + 1].operation)
      BY Zenon, <1>7 DEF QueueInv
    <3> QED
      BY Zenon, <3>1, <3>2, <1>5, <1>6
  <2>3. AppliedCount' >= 0
    BY SMTT(30), <1>1, <1>6
  <2> QED
    BY Zenon, <2>1, <2>2, <2>3, <1>5, <1>6 DEF QueueInv
<1>12. RevisionInv'
  <2>1. applied' = RevisionAt(AppliedCount)'
    BY Zenon, <1>5, <1>6, <1>7, <1>8 DEF Apply, RevisionAt
  <2> QED
    BY Zenon, <2>1, <1>5, <1>6 DEF RevisionInv, Splits, Apply
<1>13. LevelInv'
  <2>1. ~dirty' => levels' = Propagate(tickets')
    <3> SUFFICES ASSUME ~dirty'
                 PROVE  levels' = Propagate(tickets')
      BY Zenon
    <3>1. ~dirty /\ ~MarksDirty(tickets, Head(taken).operation)
      BY Zenon DEF Apply
    <3>2. tickets' = tickets
      BY Zenon, <3>1, <1>1, <1>9, CleanIsUnchanged DEF Apply
    <3> QED
      BY Zenon, <3>1, <3>2 DEF Apply, LevelInv
  <2>2. worker' = "Applying" /\ worker = "Applying" /\ state' = state
    BY ZenonT(40) DEF Apply
  <2> QED
    BY Zenon, <2>1, <2>2 DEF Apply, LevelInv, Promised, chunkMap
<1>14. ShownInv'
  <2>1. ~committing /\ committing' = committing
    BY Zenon DEF Apply, HandoffInv, EpochExclusive
  <2>2. shown' <= AppliedCount'
    BY <1>1, <1>5, <1>6 DEF ShownInv, ShapeInv
  <2>3. Promised' = Promised /\ committed' = committed
    BY Zenon DEF Apply, Promised, chunkMap
  <2>4. Splits(shown)' /\ RevisionAt(shown)' = RevisionAt(shown)
    BY Zenon, <1>5 DEF ShownInv, Splits, RevisionAt
  <2> QED
    BY Zenon, <2>1, <2>2, <2>3, <2>4, <1>5 DEF ShownInv
<1> QED
  BY Zenon, <1>10, <1>11, <1>12, <1>13, <1>14

\* A step that touches neither the queue nor the manager's tickets keeps their invariants.
LEMMA QuietStep ==
  ASSUME QueueInv, RevisionInv,
         UNCHANGED <<nextRevision, pending, batch, taken, tickets, applied, log, views>>
  PROVE  QueueInv' /\ RevisionInv' /\ TakenCount' = TakenCount /\ AppliedCount' = AppliedCount
<1>1. TakenCount' = TakenCount /\ AppliedCount' = AppliedCount
  BY Zenon DEF TakenCount, AppliedCount
<1> QED
  BY Zenon, <1>1 DEF QueueInv, RevisionInv, Splits, RevisionAt

\* run_all_updates and take_changes.
LEMMA UpdateStep ==
  ASSUME Inductive, Update
  PROVE  ShapeInv' /\ QueueInv' /\ RevisionInv' /\ LevelInv' /\ ShownInv'
<1> USE DEF Inductive
<1>1. QueueInv' /\ RevisionInv' /\ AppliedCount' = AppliedCount
  BY Zenon, QuietStep DEF Update, history
<1>2. ShapeInv'
  BY Zenon DEF Update, ShapeInv, history
<1>3. tickets \in TicketState /\ Propagate(tickets) \in LevelState
  BY Zenon, LogCounts, PropagateAssumption
<1>4. Promised = levels /\ levels \in LevelState
  BY Zenon DEF Update, LevelInv, HandoffInv, EpochExclusive
<1>7. Promised' = Promised /\ UNCHANGED <<visible, unloading, revivals>>
  BY Zenon DEF Update, Promised, chunkMap
<1>5. LevelInv'
  <2>1. CASE dirty
    <3>1. levels' = Propagate(tickets) /\ changes' = LevelChanges(levels, Propagate(tickets))
      BY Zenon, <2>1 DEF Update
    <3>2. /\ ApplyChanges(levels, changes') = levels'
          /\ changes' \in UNION {[S -> Levels \cup {NoLevel}] : S \in SUBSET Positions}
      BY Zenon, <3>1, <1>3, <1>4, ChangesAreComplete
    <3> QED
      BY Zenon, <3>1, <3>2, <1>3, <1>4, <1>7 DEF Update, LevelInv
  <2>2. CASE ~dirty
    <3>1. levels' = levels /\ changes' = NoChanges
      BY Zenon, <2>2 DEF Update
    <3>2. /\ ApplyChanges(levels, changes') = levels
          /\ changes' \in UNION {[S -> Levels \cup {NoLevel}] : S \in SUBSET Positions}
      BY Zenon, <3>1, <1>4, NoChangesChangesNothing
    <3> QED
      BY Zenon, <2>2, <3>1, <3>2, <1>4, <1>7 DEF Update, LevelInv
  <2> QED
    BY Zenon, <2>1, <2>2
<1>6. ShownInv'
  BY Zenon, <1>1, <1>7 DEF Update, ShownInv, Splits, RevisionAt, history
<1> QED
  BY Zenon, <1>1, <1>2, <1>5, <1>6

\* The handoffs that move the epoch and change nothing in it.
LEMMA HandoffsKeep ==
  ASSUME Inductive, FinishEpoch \/ StartEpoch
  PROVE  ShapeInv' /\ QueueInv' /\ RevisionInv' /\ LevelInv' /\ ShownInv'
<1> USE DEF Inductive
<1>1. UNCHANGED <<nextRevision, pending, batch, committing, taken, manager, committed, visible,
                  revivals, history>>
  BY Zenon DEF FinishEpoch, StartEpoch, chunkMap
<1>2. QueueInv' /\ RevisionInv' /\ AppliedCount' = AppliedCount
  BY Zenon, <1>1, QuietStep DEF manager, history
<1>3. ShapeInv'
  BY Zenon, <1>1 DEF FinishEpoch, StartEpoch, ShapeInv, manager, history
<1>4. unloading' \in SUBSET Positions /\ \A p \in DOMAIN revivals : p \in unloading'
  BY Zenon DEF FinishEpoch, StartEpoch, LevelInv, chunkMap
<1>5. Promised' = Promised
  BY Zenon, <1>1 DEF Promised
<1>6. LevelInv'
  BY Zenon, <1>1, <1>4, <1>5
     DEF FinishEpoch, StartEpoch, LevelInv, HandoffInv, EpochExclusive, manager
<1>7. ShownInv'
  BY Zenon, <1>1, <1>2, <1>5 DEF ShownInv, Splits, RevisionAt, history
<1> QED
  BY Zenon, <1>2, <1>3, <1>6, <1>7

\* A commit makes each level of the merged list visible or defers its revival, whichever
\* holders the saves refuse to give back.
LEMMA MergedLevels ==
  ASSUME LevelInv, UpdateLevels(MergeRevivals(changes, revivals))
  PROVE  /\ Promised' = ApplyChanges(Promised, changes)
         /\ visible' \in LevelState
         /\ unloading' \in SUBSET Positions
         /\ revivals' \in UNION {[S -> Levels] : S \in SUBSET Positions}
         /\ \A p \in DOMAIN revivals' : visible'[p] = NoLevel /\ p \in unloading'
<1> DEFINE list == MergeRevivals(changes, revivals)
           returning == {p \in DOMAIN list \cap unloading :
                           visible[p] = NoLevel /\ list[p] # NoLevel}
           demoted == {p \in DOMAIN list : visible[p] # NoLevel /\ list[p] = NoLevel}
<1>1. PICK refused \in SUBSET returning :
        /\ visible' = ApplyChanges(visible, [p \in DOMAIN list \ refused |-> list[p]])
        /\ revivals' = [p \in refused |-> list[p]]
        /\ unloading' = (unloading \ (returning \ refused)) \cup demoted
  BY Zenon DEF UpdateLevels
<1>2. PICK listed \in SUBSET Positions : changes \in [listed -> Levels \cup {NoLevel}]
  BY Zenon DEF LevelInv
<1>3. PICK waiting \in SUBSET Positions : revivals \in [waiting -> Levels]
  BY Zenon DEF LevelInv
<1>4. DOMAIN changes = listed /\ DOMAIN revivals = waiting
  BY Zenon, <1>2, <1>3
<1>5. /\ DOMAIN list = listed \cup waiting
      /\ \A p \in listed : list[p] = changes[p]
      /\ \A p \in waiting \ listed : list[p] = revivals[p]
  BY Zenon, <1>4 DEF MergeRevivals
<1>6. \A p \in DOMAIN list : p \in Positions /\ list[p] \in Levels \cup {NoLevel}
  BY Zenon, <1>2, <1>3, <1>5
<1>7. visible \in LevelState /\ unloading \subseteq Positions
  BY Zenon DEF LevelInv
<1>8. /\ refused \subseteq DOMAIN list /\ refused \subseteq unloading
      /\ \A p \in refused : visible[p] = NoLevel /\ list[p] # NoLevel
  BY Zenon, <1>1
<1> HIDE DEF list
<1>9. \A p \in Positions :
        visible'[p] = IF p \in DOMAIN list \ refused THEN list[p] ELSE visible[p]
  BY Zenon, <1>1 DEF ApplyChanges
<1>10. DOMAIN revivals' = refused /\ \A p \in refused : revivals'[p] = list[p]
  BY Zenon, <1>1
<1>11. visible' \in LevelState
  <2>1. \A p \in Positions : visible'[p] \in Levels \cup {NoLevel}
    BY Zenon, <1>6, <1>7, <1>9 DEF LevelState
  <2> QED
    BY Zenon, <1>1, <2>1 DEF ApplyChanges, LevelState
<1>12. unloading' \in SUBSET Positions
  BY Zenon, <1>1, <1>6, <1>7
<1>13. revivals' \in UNION {[S -> Levels] : S \in SUBSET Positions}
  <2>1. \A p \in refused : list[p] \in Levels
    BY Zenon, <1>6, <1>8
  <2>2. revivals' \in [refused -> Levels] /\ refused \in SUBSET Positions
    BY Zenon, <1>1, <1>6, <1>8, <2>1
  <2> QED
    BY Zenon, <2>2
<1>14. \A p \in DOMAIN revivals' : visible'[p] = NoLevel /\ p \in unloading'
  BY Zenon, <1>1, <1>6, <1>8, <1>9, <1>10
<1>15. ASSUME NEW p \in Positions
       PROVE  Promised'[p] = ApplyChanges(Promised, changes)[p]
  <2>1. Promised'[p] = IF p \in refused THEN list[p] ELSE visible'[p]
    BY Zenon, <1>10 DEF Promised, ApplyChanges
  <2>2. ApplyChanges(Promised, changes)[p] =
          IF p \in listed THEN changes[p] ELSE IF p \in waiting THEN revivals[p] ELSE visible[p]
    BY Zenon, <1>4 DEF Promised, ApplyChanges
  <2> QED
    BY Zenon, <1>5, <1>8, <1>9, <2>1, <2>2
<1>16. Promised' = ApplyChanges(Promised, changes)
  BY Zenon, <1>15 DEF Promised, ApplyChanges
<1> QED
  BY Zenon, <1>11, <1>12, <1>13, <1>14, <1>16

\* commit_scheduling_epoch makes the manager's levels, those of every applied operation,
\* visible, or records their revival.
LEMMA CommitStep ==
  ASSUME Inductive, CommitLevels
  PROVE  /\ ShapeInv' /\ QueueInv' /\ RevisionInv' /\ LevelInv' /\ ShownInv'
         /\ shown' >= shown
<1> USE DEF Inductive
<1>1. QueueInv' /\ RevisionInv' /\ TakenCount' = TakenCount /\ AppliedCount' = AppliedCount
  BY Zenon, QuietStep DEF CommitLevels
<1>2. /\ taken = <<>> /\ Len(taken) = 0 /\ ~dirty /\ ~committing /\ worker = "None"
      /\ state = "Ready"
  BY ZenonT(40) DEF CommitLevels, HandoffInv, LevelInv
<1>3. /\ Len(log) \in Nat /\ AppliedCount \in 0..Len(log) /\ TakenCount = AppliedCount
      /\ shown \in 0..Len(log) /\ shown <= AppliedCount
  BY <1>2, LogCounts DEF ShapeInv, ShownInv, TakenCount, AppliedCount
<1>4. shown' = AppliedCount
  BY ZenonT(40), <1>3 DEF CommitLevels, TakenCount
<1>5. ShapeInv'
  BY SMTT(30), <1>3, <1>4 DEF CommitLevels, ShapeInv
<1>6. Promised' = levels /\ levels = Propagate(tickets) /\ levels \in LevelState
  BY Zenon, <1>2, MergedLevels DEF CommitLevels, LevelInv
<1>7. LevelInv'
  <2>1. /\ visible' \in LevelState
        /\ unloading' \in SUBSET Positions
        /\ revivals' \in UNION {[S -> Levels] : S \in SUBSET Positions}
        /\ \A p \in DOMAIN revivals' : visible'[p] = NoLevel /\ p \in unloading'
    BY Zenon, MergedLevels DEF CommitLevels
  <2> QED
    BY Zenon, <1>2, <1>6, <2>1, NoChangesChangesNothing DEF CommitLevels, LevelInv
<1>8. ShownInv'
  <2>1. Splits(shown)'
    BY Zenon, <1>3, <1>4 DEF CommitLevels, RevisionInv, Splits
  <2>2. Promised' = Propagate(views'[shown' + 1])
    BY Zenon, <1>4, <1>6 DEF CommitLevels, QueueInv
  <2>3. RevisionAt(shown) <= RevisionAt(AppliedCount)
    <3>1. CASE shown = 0
      <4>1. RevisionAt(AppliedCount) \in Nat
        BY Zenon DEF ShapeInv, RevisionInv
      <4> QED
        BY <3>1, <4>1 DEF RevisionAt
    <3>2. CASE shown # 0
      <4>1. shown \in 1..Len(log) /\ AppliedCount \in 1..Len(log) /\ AppliedCount # 0
        BY <3>2, <1>3
      <4> QED
        BY Zenon, <3>2, <4>1, <1>3 DEF RevisionAt, RevisionInv
    <3> QED
      BY ZenonT(40), <3>1, <3>2
  <2>4. committed' <= RevisionAt(shown)'
    <3>1. RevisionAt(shown)' = RevisionAt(AppliedCount)
      BY Zenon, <1>4 DEF RevisionAt, CommitLevels
    <3>2. committed' = RevisionAt(shown)
      BY Zenon, <1>2 DEF CommitLevels, ShownInv
    <3> QED
      BY Zenon, <2>3, <3>1, <3>2
  <2>5. committing' /\ shown' <= AppliedCount'
    BY <1>1, <1>3, <1>4 DEF CommitLevels
  <2> QED
    BY Zenon, <2>1, <2>2, <2>4, <2>5, <1>1, <1>4 DEF ShownInv
<1> QED
  BY Zenon, <1>1, <1>3, <1>4, <1>5, <1>7, <1>8

\* publish_committed_revision.
LEMMA PublishStep ==
  ASSUME Inductive, PublishCommitted
  PROVE  /\ ShapeInv' /\ QueueInv' /\ RevisionInv' /\ LevelInv' /\ ShownInv'
         /\ committed' >= committed
<1> USE DEF Inductive
<1>1. QueueInv' /\ RevisionInv' /\ AppliedCount' = AppliedCount
  BY Zenon, QuietStep DEF PublishCommitted, manager, history
<1>2. applied = RevisionAt(shown) /\ committed <= applied /\ applied \in Nat /\ committed \in Nat
  BY Zenon DEF PublishCommitted, ShownInv, RevisionInv, ShapeInv, RevisionAt
<1>3. ShapeInv'
  BY Zenon DEF PublishCommitted, ShapeInv, manager, history
<1>4. LevelInv'
  BY ZenonT(40)
     DEF PublishCommitted, LevelInv, Promised, HandoffInv, EpochExclusive, manager, chunkMap
<1>5. ShownInv'
  <2>1. /\ UNCHANGED <<log, views, shown>> /\ Promised' = Promised
        /\ ~committing' /\ committed' = applied /\ shown = AppliedCount
        /\ Splits(shown) /\ Promised = Propagate(views[shown + 1])
    BY Zenon DEF PublishCommitted, ShownInv, Promised, manager, chunkMap, history
  <2>2. Splits(shown)' /\ RevisionAt(shown)' = RevisionAt(shown)
    BY Zenon, <2>1 DEF Splits, RevisionAt
  <2>3. shown' <= AppliedCount' /\ committed' <= RevisionAt(shown)'
    <3>1. AppliedCount \in Nat
      BY LogCounts
    <3> QED
      BY SMTT(40), <1>1, <1>2, <2>1, <2>2, <3>1
  <2> QED
    BY Zenon, <1>2, <2>1, <2>2, <2>3 DEF ShownInv
<1> QED
  BY Zenon, <1>1, <1>2, <1>3, <1>4, <1>5 DEF PublishCommitted

----------------------------------------------------------------------------
\* The coordinator starts with an empty queue and an empty manager.
LEMMA InductiveInit == Init => Inductive
<1> SUFFICES ASSUME Init PROVE Inductive
  BY Zenon
<1>1. NoTickets \in TicketState /\ NoLevels \in LevelState
  BY BoundsAssumption DEF NoTickets, TicketState, NoLevels, LevelState
<1>2. views = <<NoTickets>> /\ Len(views) = 1 /\ views[1] = NoTickets
  BY Zenon DEF Init
<1>3. Len(log) = 0 /\ Len(pending) = 0 /\ Len(taken) = 0
  BY Zenon DEF Init
<1>4. TakenCount = 0 /\ AppliedCount = 0
  BY <1>3 DEF TakenCount, AppliedCount
<1>5. HandoffInv /\ ShapeInv
  <2>1. views \in Seq(TicketState)
    BY <1>1, <1>2
  <2>2. /\ pending \in Seq(Queued) /\ taken \in Seq(Queued) /\ log \in Seq(Queued)
        /\ batch \in Seq(Operation)
    BY DEF Init
  <2>3. ShapeInv
    BY Zenon, <2>1, <2>2 DEF Init, ShapeInv
  <2> QED
    BY Zenon, <2>3 DEF Init, HandoffInv, EpochExclusive
<1>6. QueueInv
  BY <1>2, <1>3, <1>4 DEF Init, QueueInv
<1>7. RevisionInv
  BY <1>3, <1>4 DEF Init, RevisionInv, Splits, RevisionAt
<1>8. /\ Promised = NoLevels /\ visible = NoLevels /\ unloading = {}
      /\ DOMAIN revivals = {} /\ revivals \in UNION {[S -> Levels] : S \in SUBSET Positions}
  <2>1. revivals = NoChanges /\ visible = NoLevels /\ unloading = {}
    BY Zenon DEF Init
  <2>2. DOMAIN revivals = {}
    BY Zenon, <2>1 DEF NoChanges, LevelChanges
  <2>3. revivals = [p \in {} |-> NoLevels[p]]
    BY Zenon, <2>1 DEF NoChanges, LevelChanges
  <2>4. revivals \in [{} -> Levels]
    BY Zenon, <2>3
  <2>5. Promised = NoLevels
    BY Zenon, <1>1, <2>1, NoChangesChangesNothing DEF Promised
  <2> QED
    BY Zenon, <2>1, <2>2, <2>4, <2>5
<1>10. LevelInv
  BY Zenon, <1>1, <1>8, NoChangesChangesNothing, PropagateAssumption DEF Init, LevelInv
<1>11. Propagate(NoTickets) = NoLevels
  BY Zenon, PropagateAssumption
<1>9. ShownInv
  <2>1. shown = 0 /\ committed = 0 /\ ~committing
    BY Zenon DEF Init
  <2>2. Promised = Propagate(views[shown + 1])
    BY <1>2, <1>8, <1>11, <2>1
  <2> QED
    BY <1>3, <1>4, <2>1, <2>2 DEF ShownInv, Splits, RevisionAt
<1> QED
  BY Zenon, <1>5, <1>6, <1>7, <1>10, <1>9 DEF Inductive

\* Every action of gameplay threads, worker and boundary, and every stutter, keeps it.
LEMMA InductiveStep ==
  ASSUME Inductive, [Next]_vars
  PROVE  Inductive'
<1>1. HandoffInv'
  BY Zenon, HandoffStep DEF Inductive
<1>2. CASE Gameplay
  BY Zenon, <1>1, <1>2, GameplayStep DEF Inductive
<1>3. CASE Background
  BY Zenon, <1>1, <1>3, TakeStep, ApplyStep, UpdateStep, HandoffsKeep DEF Inductive, Background
<1>4. CASE Boundary
  BY Zenon, <1>1, <1>4, HandoffsKeep, CommitStep, PublishStep DEF Inductive, Boundary
<1>5. CASE UNCHANGED vars
  <2> USE <1>5 DEF vars, manager, chunkMap, history, Inductive
  <2>1. QueueInv' /\ RevisionInv' /\ AppliedCount' = AppliedCount
    BY Zenon, QuietStep
  <2>2. ShapeInv' /\ LevelInv'
    BY Zenon DEF ShapeInv, LevelInv, Promised
  <2>3. ShownInv'
    BY Zenon, <2>1 DEF ShownInv, Promised, Splits, RevisionAt
  <2> QED
    BY Zenon, <1>1, <2>1, <2>2, <2>3
<1> QED
  BY Zenon, <1>2, <1>3, <1>4, <1>5 DEF Next

\* The inductive invariant holds throughout, for all constants the assumptions allow.
THEOREM AlwaysInductive == Spec => []Inductive
<1>1. Inductive /\ [Next]_vars => Inductive'
  BY Zenon, InductiveStep
<1> QED
  BY <1>1, InductiveInit, PTL DEF Spec

\* Every variable of the coordinator keeps its type; in particular the manager never holds a
\* negative number of copies of a ticket.
THEOREM TypeCorrect == Spec => []TypeOK
<1>1. Inductive => TypeOK
  <2> SUFFICES ASSUME Inductive PROVE TypeOK
    BY Zenon
  <2>1. tickets \in TicketState
    BY Zenon, LogCounts DEF Inductive
  <2> QED
    BY Zenon, <2>1 DEF Inductive, ShapeInv, LevelInv, TypeOK
<1> QED
  BY <1>1, AlwaysInductive, PTL

\* The ticket manager never has two owners: finish_epoch's assertion cannot fail.
THEOREM EpochHandoffSafe == Spec => []EpochExclusive
<1>1. Inductive => EpochExclusive
  BY Zenon DEF Inductive, HandoffInv
<1> QED
  BY <1>1, AlwaysInductive, PTL

\* A cut that splits no revision is the cut of the last revision before it.
LEMMA SplitIsCut ==
  ASSUME Inductive, Splits(shown)
  PROVE  Cut(shown, RevisionAt(shown))
<1> USE DEF Inductive
<1>1. Len(log) \in Nat /\ shown \in 0..Len(log)
  BY SMTT(30), LogCounts DEF ShapeInv, ShownInv
<1>2. \A i \in 1..Len(log) : log[i].revision \in Nat /\ log[i].revision > 0
  BY SMTT(30) DEF RevisionInv, ShapeInv
<1> SUFFICES ASSUME NEW i \in 1..Len(log)
             PROVE  log[i].revision <= RevisionAt(shown) <=> i <= shown
  BY Zenon DEF Cut
<1>3. CASE shown = 0
  BY <1>2, <1>3 DEF RevisionAt
<1>4. CASE shown # 0
  <2>1. shown \in 1..Len(log) /\ RevisionAt(shown) = log[shown].revision
    BY SMTT(30), <1>1, <1>4 DEF RevisionAt
  <2>2. CASE i <= shown
    BY Zenon, <2>1, <2>2 DEF RevisionInv
  <2>3. CASE shown < i
    <3>1. log[shown].revision < log[i].revision
      BY <2>1, <2>3 DEF Splits
    <3> QED
      BY SMTT(30), <2>1, <2>3, <3>1, <1>2
  <2> QED
    BY <2>2, <2>3, <1>1
<1> QED
  BY Zenon, <1>3, <1>4

\* A revision that is_ticket_revision_committed reports has all its operations, and no part of
\* a later one, in the levels of the chunk map and the revivals it still has to do; such a
\* revival is of a chunk whose holder is still in unloading_chunks.
THEOREM CommittedRevisionIsVisible == Spec => []CommittedIsVisible
<1>1. Inductive => CommittedIsVisible
  <2> SUFFICES ASSUME Inductive PROVE CommittedIsVisible
    BY Zenon
  <2>1. Cut(shown, RevisionAt(shown))
    BY Zenon, SplitIsCut DEF Inductive, ShownInv
  <2>2. committing => applied = RevisionAt(shown)
    BY Zenon DEF Inductive, ShownInv, RevisionInv, RevisionAt
  <2> QED
    BY Zenon, <2>1, <2>2 DEF Inductive, LevelInv, ShownInv, Promised, CommittedIsVisible
<1> QED
  BY <1>1, AlwaysInductive, PTL

\* Published revisions only grow, and levels change only when a boundary commits a Ready epoch.
THEOREM LevelsChangeInCommits == Spec => CommitOnly
<1> DEFINE Step == /\ committed' >= committed
                   /\ shown' >= shown
                   /\ visible' # visible => state = "Ready" /\ state' = "Running"
<1>1. Inductive /\ [Next]_vars => [Step]_vars
  <2> SUFFICES ASSUME Inductive, Next PROVE Step
    BY Zenon
  <2>1. committed \in Nat /\ shown \in Nat
    BY Zenon DEF Inductive, ShapeInv
  <2>2. CASE CommitLevels
    BY <2>1, <2>2, CommitStep DEF CommitLevels
  <2>3. CASE PublishCommitted
    <3>1. committed' >= committed
      BY Zenon, <2>3, PublishStep
    <3>2. UNCHANGED <<shown, visible>>
      BY Zenon, <2>3 DEF PublishCommitted, chunkMap, history
    <3> QED
      BY <2>1, <3>1, <3>2
  <2>4. CASE StartEpoch \/ Background \/ Gameplay
    <3>1. UNCHANGED <<committed, shown, visible>>
      BY Zenon, <2>4 DEF StartEpoch, Background, Take, Apply, Update, FinishEpoch, Gameplay,
                  PushFirst, PushRest, chunkMap, history
    <3> QED
      BY SMTT(30), <2>1, <3>1
  <2> QED
    BY Zenon, <2>2, <2>3, <2>4 DEF Next, Boundary
<1> QED
  BY <1>1, AlwaysInductive, PTL DEF Spec, CommitOnly
=============================================================================
