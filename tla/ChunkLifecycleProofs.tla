----------------------- MODULE ChunkLifecycleProofs ------------------------
(***************************************************************************)
(* For any positions, holder identities and bounds, the chunk lifecycle    *)
(* keeps one owner per position, loses no content and balances its storage *)
(* handles, and so implements the durable map of DurableChunks.            *)
(***************************************************************************)
EXTENDS ChunkLifecycle, FiniteSetTheorems, TLAPS

\* Stages of a producer that owns a storage handle, of one that has not published anything, of
\* one that runs a generation step; stages of a save task that holds the preparation guard.
Loading == {"Existing", "Missing", "Reading", "Loaded", "Storing", "Creating"}
Blank == Loading \cup {"None", "Acquiring"}
Stepping == {"Stepping", "Written", "Finished"}
Guarded == {"Claimed", "Reading", "Taken", "Forced"}

\* The entries of the two maps: a position has at most one, and it is a holder of that position.
Mapped(p) ==
  /\ chunks[p] # NoHolder =>
       /\ holder[chunks[p]].pos = p /\ holder[chunks[p]].life = "Active"
       /\ unloading[p] = NoHolder
  /\ unloading[p] # NoHolder =>
       /\ holder[unloading[p]].pos = p /\ holder[unloading[p]].life # "Active"
       /\ unloading[p] \notin dropped \cup finalized

\* A holder process_unloads has dropped: no task owns it and its position is empty.
Left(h) ==
  /\ holder[h].pos \in Positions /\ holder[h].life = "Unloading" /\ Unshared(h)
  /\ chunks[holder[h].pos] = NoHolder /\ unloading[holder[h].pos] = NoHolder

\* No two of them share a position unless both are finalized.
LeftApart ==
  /\ \A h \in dropped : ~NeedsSave(h) /\ h \notin finalized
  /\ \A h, k \in dropped : holder[h].pos = holder[k].pos => h = k
  /\ \A h \in dropped, k \in finalized : holder[h].pos # holder[k].pos

\* A holder that is allocated is in one of the maps or has left them.
Placed(h) ==
  /\ holder[h].pos \in Positions =>
       chunks[holder[h].pos] = h \/ unloading[holder[h].pos] = h \/ h \in dropped \cup finalized
  /\ holder[h].pos = NoPos => holder[h] = FreeHolder
  /\ holder[h].allowed => holder[h].pos \in Positions /\ chunks[holder[h].pos] = h
  /\ holder[h].life = "Preparing" <=> holder[h].saver \in Guarded

MapsInv ==
  /\ \A p \in Positions : Mapped(p)
  /\ \A h \in dropped \cup finalized : Left(h)
  /\ LeftApart
  /\ \A h \in Holders : Placed(h)

\* How the epoch goes: what may be pending in which phase, and that pending changes agree with
\* the ticket manager.
EpochInv ==
  /\ dropped # {} => phase = "Unloading"
  /\ finalized # {} => phase \notin {"Idle", "Running", "Committing"}
  /\ visiting # {} => phase = "Unloading"
  /\ \A p \in visiting : unloading[p] # NoHolder
  /\ phase \in {"Idle", "Running"} => DOMAIN changes = {}
  /\ \A p \in DOMAIN changes : changes[p] <=> p \in ticket
  /\ \A p \in Positions \ DOMAIN changes :
       p \in ticket <=> chunks[p] # NoHolder \/ p \in deferred
  /\ phase \in StoppedPhases => \A h \in Holders : Unshared(h)

\* One holder r and the payload d stored for its position.  Content that can be saved is on disk,
\* or dirty, or in the hands of a save or a step that will write it or mark it.
HolderInv(r, d) ==
  /\ r.status = Unpublished => r.producer \in Blank /\ r.version = 0 /\ r.saver = "None"
  /\ r.producer \in Loading \cup {"Acquiring"} => r.status = Unpublished
  /\ r.status = Empty =>
       /\ r.dirty /\ d = NoPayload /\ r.saver \in {"None", "Queued", "Claimed"}
       /\ r.version = IF r.producer \in {"Written", "Finished"} THEN 1 ELSE 0
  /\ r.producer \in {"Existing", "Reading", "Loaded", "Storing"} => Saveable(d.status)
  /\ r.producer \in {"Loaded", "Storing"} => r.loaded = d
  /\ r.producer \in {"Missing", "Creating"} => d = NoPayload
  /\ r.producer \in Stepping => r.status \in {Empty, Saved}
  /\ r.producer = "Stepping" => r.version < MaxVersion
  /\ r.saver \in {"Reading", "Taken", "Forced", "Writing"} => Saveable(r.save.status)
  /\ Saveable(r.status) =>
       \/ r.saver = "Taken" \/ r.dirty \/ r.producer = "Written"
       \/ r.version = IF r.saver = "Writing" THEN r.save.version ELSE d.version

ContentInv ==
  /\ \A p \in Positions : disk[p] = NoPayload \/ Saveable(disk[p].status)
  /\ \A h \in Holders \ finalized :
       holder[h].pos \in Positions => HolderInv(holder[h], disk[holder[h].pos])

\* A holder that has data, or is being loaded, owns a storage handle.
OwnsHandle(h) == holder[h].status >= Empty \/ holder[h].producer \in Loading

StorageInv ==
  \A p \in Positions :
    handles[p] = (IF \E h \in Retained(p) : OwnsHandle(h) THEN 1 ELSE 0) + releases[p]

\* The inductive invariant.
LifecycleInv ==
  TypeOK /\ MapsInv /\ EpochInv /\ ContentInv /\ StorageInv /\ HandoverInOrder /\ ShutdownSaves

----------------------------------------------------------------------------
\* Facts about the states of the invariant.

\* What the invariant says of a holder that process_unloads has not finalized: no other such
\* holder has its position.
LEMMA OneRetained ==
  ASSUME LifecycleInv, NEW h \in Holders \ finalized, NEW k \in Holders \ finalized,
         holder[h].pos \in Positions, holder[k].pos = holder[h].pos
  PROVE  k = h
<1>1. /\ chunks[holder[h].pos] = h \/ unloading[holder[h].pos] = h \/ h \in dropped
      /\ chunks[holder[h].pos] = k \/ unloading[holder[h].pos] = k \/ k \in dropped
  BY Zenon DEF LifecycleInv, MapsInv, Placed
<1>2. \A j \in dropped : chunks[holder[j].pos] = NoHolder /\ unloading[holder[j].pos] = NoHolder
  BY Zenon DEF LifecycleInv, MapsInv, Left
<1>3. h # NoHolder /\ k # NoHolder
  BY Zenon, HolderAssumption
<1>4. chunks[holder[h].pos] # NoHolder => unloading[holder[h].pos] = NoHolder
  BY Zenon DEF LifecycleInv, MapsInv, Mapped
<1>5. h \in dropped /\ k \in dropped => k = h
  BY Zenon DEF LifecycleInv, MapsInv, LeftApart
<1>6. QED
  BY Zenon, <1>1, <1>2, <1>3, <1>4, <1>5

\* A holder that a task owns, or that may be worked on, is allocated and in one of the maps, and
\* the server has not stopped if a task owns it.
LEMMA InUse ==
  ASSUME LifecycleInv, NEW h \in Holders,
         holder[h].producer # "None" \/ holder[h].saver # "None" \/ holder[h].allowed
  PROVE  /\ holder[h].pos \in Positions /\ h \notin dropped \cup finalized
         /\ HolderInv(holder[h], disk[holder[h].pos])
         /\ ~holder[h].allowed => phase \notin StoppedPhases
         /\ holder[h].producer # "None" => phase \notin StoppedPhases
<1>1. holder[h].pos \in Positions \cup {NoPos}
  BY Zenon DEF LifecycleInv, TypeOK, HolderType
<1>2. holder[h].pos # NoPos
  <2>1. SUFFICES ASSUME holder[h] = FreeHolder PROVE FALSE
    BY Zenon DEF LifecycleInv, MapsInv, Placed
  <2>2. QED
    BY <2>1 DEF FreeHolder
<1>3. holder[h].pos \in Positions
  BY Zenon, <1>1, <1>2
<1>4. h \notin dropped \cup finalized
  <2>1. SUFFICES ASSUME h \in dropped \cup finalized PROVE FALSE
    BY Zenon
  <2>2. Unshared(h) /\ chunks[holder[h].pos] = NoHolder
    BY Zenon, <2>1 DEF LifecycleInv, MapsInv, Left
  <2>3. holder[h].allowed
    BY Zenon, <2>2 DEF Unshared
  <2>4. chunks[holder[h].pos] = h
    BY Zenon, <2>3 DEF LifecycleInv, MapsInv, Placed
  <2>5. QED
    BY Zenon, <2>2, <2>4, HolderAssumption
<1>5. HolderInv(holder[h], disk[holder[h].pos])
  BY Zenon, <1>3, <1>4 DEF LifecycleInv, ContentInv
<1>6. phase \in StoppedPhases => Unshared(h)
  BY Zenon DEF LifecycleInv, EpochInv
<1>7. QED
  BY Zenon, <1>3, <1>4, <1>5, <1>6 DEF Unshared

----------------------------------------------------------------------------
\* Steps of one holder: of its producer, of its save task, of gameplay.

\* Holder h, which is in one of the maps, changes; where it belongs does not.
HolderStep(h) ==
  /\ holder[h].pos \in Positions /\ h \notin dropped \cup finalized
  /\ holder' \in [Holders -> HolderType]
  /\ \A k \in Holders \ {h} : holder'[k] = holder[k]
  /\ holder'[h].pos = holder[h].pos
  /\ holder'[h].allowed <=> holder[h].allowed
  /\ holder'[h].life = "Active" <=> holder[h].life = "Active"
  /\ holder'[h].life = "Preparing" <=> holder'[h].saver \in Guarded
  /\ phase \notin StoppedPhases
  /\ UNCHANGED <<phase, ticket, changes, staged, dropped, finalized, chunks, unloading, deferred>>
  /\ visiting' \subseteq visiting

\* Such a step keeps the types if it stores and registers what it should.
LEMMA StepTypes ==
  ASSUME LifecycleInv, NEW h \in Holders, HolderStep(h),
         disk' \in [Positions -> Payloads], {handles', releases'} \subseteq [Positions -> Nat],
         ticks' \subseteq Positions, entities' \subseteq Positions
  PROVE  TypeOK'
<1>1. handles' \in [Positions -> Nat] /\ releases' \in [Positions -> Nat]
  BY Zenon
<1>2. visiting' \in SUBSET Positions
  BY Zenon DEF HolderStep, LifecycleInv, TypeOK
<1>3. ticks' \in SUBSET Positions /\ entities' \in SUBSET Positions
  BY Zenon
<1>4. QED
  BY Zenon, <1>1, <1>2, <1>3 DEF HolderStep, LifecycleInv, TypeOK, StoppedPhases

LEMMA StepMaps ==
  ASSUME LifecycleInv, NEW h \in Holders, HolderStep(h)
  PROVE  MapsInv'
<1>1. \A k \in Holders : holder'[k].pos = holder[k].pos /\ (holder'[k].allowed <=> holder[k].allowed)
  BY Zenon DEF HolderStep
<1>2. \A k \in Holders : holder'[k].life = "Active" <=> holder[k].life = "Active"
  BY Zenon DEF HolderStep
<1>3. \A k \in dropped \cup finalized : holder'[k] = holder[k]
  BY Zenon DEF HolderStep, TypeOK, LifecycleInv
<1>4. \A p \in Positions : /\ chunks[p] # NoHolder => chunks[p] \in Holders
                           /\ unloading[p] # NoHolder => unloading[p] \in Holders
  BY Zenon DEF TypeOK, LifecycleInv
<1>5. UNCHANGED <<chunks, unloading, dropped, finalized>>
  BY Zenon DEF HolderStep
<1>6. ASSUME NEW p \in Positions PROVE Mapped(p)'
  <2>1. Mapped(p)
    BY Zenon DEF LifecycleInv, MapsInv
  <2>2. QED
    BY Zenon, <2>1, <1>1, <1>2, <1>4, <1>5 DEF Mapped
<1>7. ASSUME NEW k \in dropped \cup finalized PROVE Left(k)'
  <2>1. Left(k)
    BY Zenon DEF LifecycleInv, MapsInv
  <2>2. QED
    BY Zenon, <2>1, <1>3, <1>5 DEF Left, Unshared
<1>8. LeftApart'
  <2>1. LeftApart
    BY Zenon DEF LifecycleInv, MapsInv
  <2>2. QED
    BY <2>1, <1>3, <1>5 DEF LeftApart, NeedsSave
<1>9. ASSUME NEW k \in Holders PROVE Placed(k)'
  <2>1. Placed(k)
    BY Zenon DEF LifecycleInv, MapsInv
  <2>2. k # h => holder'[k] = holder[k]
    BY Zenon DEF HolderStep
  <2>3. holder'[k].pos = NoPos => k # h
    BY Zenon, <1>1, HolderAssumption DEF HolderStep
  <2>4. holder'[k].life = "Preparing" <=> holder'[k].saver \in Guarded
    BY Zenon, <2>1, <2>2 DEF HolderStep, Placed
  <2>5. QED
    BY Zenon, <1>1, <1>5, <2>1, <2>2, <2>3, <2>4 DEF Placed
<1>10. QED
  BY Zenon, <1>5, <1>6, <1>7, <1>8, <1>9 DEF MapsInv

LEMMA StepEpoch ==
  ASSUME LifecycleInv, NEW h \in Holders, HolderStep(h)
  PROVE  EpochInv' /\ ShutdownSaves'
<1>1. EpochInv'
  BY Zenon DEF LifecycleInv, EpochInv, HolderStep
<1>2. ShutdownSaves'
  BY Zenon DEF HolderStep, StoppedPhases, ShutdownSaves
<1>3. QED
  BY Zenon, <1>1, <1>2

\* The changed holder answers for its content.
LEMMA StepContent ==
  ASSUME LifecycleInv, NEW h \in Holders, HolderStep(h), UNCHANGED disk,
         HolderInv(holder'[h], disk[holder[h].pos])
  PROVE  ContentInv'
BY Zenon DEF LifecycleInv, ContentInv, HolderStep

\* The holders of each position stay the same.
LEMMA StepRetained ==
  ASSUME LifecycleInv, NEW h \in Holders, HolderStep(h), NEW p \in Positions
  PROVE  /\ Retained(p)' = Retained(p)
         /\ h \in Retained(holder[h].pos) /\ Retained(holder[h].pos) = {h}
         /\ \A k \in Retained(p) : k # h => holder'[k] = holder[k]
         /\ p # holder[h].pos => \A k \in Retained(p) : holder'[k] = holder[k]
<1>1. \A k \in Holders : holder'[k].pos = holder[k].pos
  BY Zenon DEF HolderStep
<1>2. finalized' = finalized /\ h \in Holders \ finalized /\ holder[h].pos \in Positions
  BY Zenon DEF HolderStep
<1>3. Retained(p)' = Retained(p) /\ h \in Retained(holder[h].pos)
  BY Zenon, <1>1, <1>2 DEF Retained
<1>4. \A k \in Retained(holder[h].pos) : k = h
  BY Zenon, <1>2, OneRetained DEF Retained
<1>5. \A k \in Retained(p) : k # h => holder'[k] = holder[k]
  BY Zenon DEF Retained, HolderStep
<1>6. p # holder[h].pos => h \notin Retained(p)
  BY Zenon DEF Retained
<1>7. QED
  BY Zenon, <1>3, <1>4, <1>5, <1>6

\* A step that neither acquires nor gives up a storage handle, acquires one or gives one up.
LEMMA StepStorage ==
  ASSUME LifecycleInv, NEW h \in Holders, HolderStep(h), UNCHANGED releases,
         \/ UNCHANGED handles /\ (OwnsHandle(h)' <=> OwnsHandle(h))
         \/ /\ handles' = [handles EXCEPT ![holder[h].pos] = @ + 1]
            /\ ~OwnsHandle(h) /\ OwnsHandle(h)'
         \/ /\ handles' = [handles EXCEPT ![holder[h].pos] = @ - 1]
            /\ OwnsHandle(h) /\ ~OwnsHandle(h)'
  PROVE  StorageInv' /\ handles' \in [Positions -> Nat]
<1> DEFINE Owned(p) == \E k \in Retained(p) : OwnsHandle(k)
<1>1. handles \in [Positions -> Nat] /\ releases \in [Positions -> Nat]
  BY Zenon DEF LifecycleInv, TypeOK
<1>2. PICK p0 \in Positions : holder[h].pos = p0
  BY Zenon DEF HolderStep
<1>3. Retained(p0) = {h} /\ Retained(p0)' = {h}
  BY Zenon, <1>2, StepRetained
<1>4. (Owned(p0) <=> OwnsHandle(h)) /\ (Owned(p0)' <=> OwnsHandle(h)')
  BY Zenon, <1>2, <1>3
<1>5. ASSUME NEW p \in Positions, p # p0 PROVE Owned(p)' <=> Owned(p)
  <2>1. Retained(p)' = Retained(p) /\ \A k \in Retained(p) : holder'[k] = holder[k]
    BY Zenon, <1>2, <1>5, StepRetained
  <2>2. QED
    BY Zenon, <2>1 DEF OwnsHandle
<1>6. \A p \in Positions : handles[p] = (IF Owned(p) THEN 1 ELSE 0) + releases[p]
  BY Zenon DEF LifecycleInv, StorageInv
<1>7. handles[p0] = (IF OwnsHandle(h) THEN 1 ELSE 0) + releases[p0]
  BY Zenon, <1>2, <1>4, <1>6
<1>8. handles' \in [Positions -> Nat] /\ \A p \in Positions : p # p0 => handles'[p] = handles[p]
  <2>1. CASE UNCHANGED handles
    BY Zenon, <2>1, <1>1
  <2>2. CASE handles' = [handles EXCEPT ![p0] = @ + 1]
    BY <2>2, <1>1, <1>2
  <2>3. CASE handles' = [handles EXCEPT ![p0] = @ - 1] /\ OwnsHandle(h)
    <3>1. handles[p0] - 1 \in Nat
      BY <2>3, <1>1, <1>2, <1>7
    <3>2. QED
      BY Zenon, <2>3, <3>1, <1>1, <1>2
  <2>4. QED
    BY Zenon, <1>2, <2>1, <2>2, <2>3
<1>9. handles'[p0] = (IF OwnsHandle(h)' THEN 1 ELSE 0) + releases[p0]
  <2> HIDE DEF OwnsHandle
  <2>1. CASE UNCHANGED handles /\ (OwnsHandle(h)' <=> OwnsHandle(h))
    BY Zenon, <2>1, <1>7
  <2>2. CASE handles' = [handles EXCEPT ![p0] = @ + 1] /\ ~OwnsHandle(h) /\ OwnsHandle(h)'
    BY <2>2, <1>1, <1>2, <1>7
  <2>3. CASE handles' = [handles EXCEPT ![p0] = @ - 1] /\ OwnsHandle(h) /\ ~OwnsHandle(h)'
    BY <2>3, <1>1, <1>2, <1>7
  <2>4. QED
    BY Zenon, <1>2, <2>1, <2>2, <2>3
<1>10. ASSUME NEW p \in Positions PROVE handles'[p] = (IF Owned(p)' THEN 1 ELSE 0) + releases'[p]
  <2>1. CASE p = p0
    BY Zenon, <2>1, <1>4, <1>9
  <2>2. CASE p # p0
    BY Zenon, <2>2, <1>5, <1>6, <1>8
  <2>3. QED
    BY Zenon, <2>1, <2>2
<1>11. QED
  BY Zenon, <1>8, <1>10 DEF StorageInv

\* The tick containers and the entity manager follow the status of the changed holder.
LEMMA StepHandover ==
  ASSUME LifecycleInv, NEW h \in Holders, HolderStep(h),
         \/ ticks' = ticks /\ (holder'[h].status = Full <=> holder[h].status = Full)
         \/ /\ ticks' = IF holder'[h].status = Full THEN ticks \cup {holder[h].pos} ELSE ticks
            /\ holder[h].status # Full,
         entities \subseteq entities',
         holder'[h].status >= Empty /\ holder'[h].producer # "Notifying" =>
           \/ holder[h].pos \in entities'
           \/ holder[h].status >= Empty /\ holder[h].producer # "Notifying"
  PROVE  HandoverInOrder' /\ ticks' \subseteq Positions
<1> DEFINE FullAt(p) == \E k \in Retained(p) : holder[k].status = Full
<1>1. ticks = {p \in Positions : FullAt(p)}
  BY Zenon DEF LifecycleInv, HandoverInOrder
<1>2. PICK p0 \in Positions : holder[h].pos = p0
  BY Zenon DEF HolderStep
<1>3. Retained(p0) = {h} /\ Retained(p0)' = {h}
  BY Zenon, <1>2, StepRetained
<1>4. (FullAt(p0) <=> holder[h].status = Full) /\ (FullAt(p0)' <=> holder'[h].status = Full)
  BY Zenon, <1>3
<1>5. ASSUME NEW p \in Positions, p # p0 PROVE FullAt(p)' <=> FullAt(p)
  <2>1. Retained(p)' = Retained(p) /\ \A k \in Retained(p) : holder'[k] = holder[k]
    BY Zenon, <1>2, <1>5, StepRetained
  <2>2. QED
    BY Zenon, <2>1
<1> HIDE DEF FullAt
<1>6. ticks' = {p \in Positions : FullAt(p)'}
  <2>1. CASE ticks' = ticks /\ (holder'[h].status = Full <=> holder[h].status = Full)
    <3>1. \A p \in Positions : FullAt(p)' <=> p \in ticks
      BY Zenon, <2>1, <1>1, <1>2, <1>4, <1>5
    <3>2. QED
      BY Zenon, <3>1, <2>1, <1>1
  <2>2. CASE /\ ticks' = IF holder'[h].status = Full THEN ticks \cup {p0} ELSE ticks
             /\ holder[h].status # Full
    <3>1. CASE holder'[h].status = Full
      <4>1. ticks' = ticks \cup {p0}
        BY Zenon, <2>2, <3>1
      <4>2. \A p \in Positions : FullAt(p)' <=> p \in ticks \/ p = p0
        BY Zenon, <3>1, <1>1, <1>2, <1>4, <1>5
      <4>3. ticks \subseteq Positions
        BY Zenon, <1>1
      <4>4. QED
        BY Zenon, <4>1, <4>2, <4>3
    <3>2. CASE holder'[h].status # Full
      <4>1. \A p \in Positions : FullAt(p)' <=> p \in ticks
        BY Zenon, <2>2, <3>2, <1>1, <1>2, <1>4, <1>5
      <4>2. QED
        BY Zenon, <4>1, <2>2, <3>2, <1>1
    <3>3. QED
      BY Zenon, <3>1, <3>2
  <2>3. QED
    BY Zenon, <1>2, <2>1, <2>2
<1>7. \A k \in finalized' : chunks'[holder'[k].pos] = NoHolder
  BY Zenon, StepMaps DEF MapsInv, Left
<1>8. ASSUME NEW p \in Positions, chunks[p] # NoHolder,
             holder'[chunks[p]].status >= Empty, holder'[chunks[p]].producer # "Notifying"
      PROVE  p \in entities'
  <2>1. chunks[p] \in Holders /\ holder[chunks[p]].pos = p
    <3>1. Mapped(p) /\ chunks[p] \in Holders \cup {NoHolder}
      BY Zenon DEF LifecycleInv, TypeOK, MapsInv
    <3>2. QED
      BY Zenon, <1>8, <3>1 DEF Mapped
  <2>2. holder[chunks[p]].status >= Empty /\ holder[chunks[p]].producer # "Notifying" => p \in entities
    BY Zenon, <1>8 DEF LifecycleInv, HandoverInOrder
  <2>3. CASE chunks[p] = h
    BY Zenon, <1>8, <2>1, <2>2, <2>3
  <2>4. CASE chunks[p] # h
    BY Zenon, <1>8, <2>1, <2>2, <2>4 DEF HolderStep
  <2>5. QED
    BY Zenon, <2>3, <2>4
<1>9. QED
  BY Zenon, <1>6, <1>7, <1>8 DEF HandoverInOrder, FullAt, HolderStep

\* A step that changes neither the status nor a registration.
LEMMA QuietStep ==
  ASSUME LifecycleInv, NEW h \in Holders, HolderStep(h), UNCHANGED <<storage, world>>,
         HolderInv(holder'[h], disk[holder[h].pos]),
         OwnsHandle(h)' <=> OwnsHandle(h), holder'[h].status = holder[h].status,
         holder[h].producer = "Notifying" => holder'[h].producer = "Notifying"
  PROVE  LifecycleInv'
<1>1. UNCHANGED <<disk, handles, releases, ticks, entities>>
  BY Zenon DEF storage, world
<1>2. StorageInv' /\ HandoverInOrder' /\ ContentInv' /\ MapsInv' /\ EpochInv' /\ ShutdownSaves'
  BY Zenon, <1>1, StepStorage, StepHandover, StepContent, StepMaps, StepEpoch
<1>3. TypeOK'
  BY Zenon, <1>1, StepTypes DEF LifecycleInv, TypeOK
<1>4. QED
  BY Zenon, <1>2, <1>3 DEF LifecycleInv

\* What a step leaves of the other holders and makes of this one.
Becomes(h, life, status, version, dirty, producer, loaded, saver, save) ==
  /\ holder' \in [Holders -> HolderType]
  /\ \A k \in Holders \ {h} : holder'[k] = holder[k]
  /\ holder'[h].pos = holder[h].pos /\ (holder'[h].allowed <=> holder[h].allowed)
  /\ holder'[h].life = life /\ holder'[h].status = status
  /\ holder'[h].version = version /\ (holder'[h].dirty <=> dirty)
  /\ holder'[h].producer = producer /\ holder'[h].loaded = loaded
  /\ holder'[h].saver = saver /\ holder'[h].save = save

\* Tasks and gameplay work on holders that are in one of the maps.
LEMMA WorkingStep ==
  ASSUME LifecycleInv, NEW h \in Holders,
         \/ holder[h].producer # "None" \/ holder[h].saver # "None"
         \/ holder[h].allowed /\ phase \notin StoppedPhases,
         holder' \in [Holders -> HolderType],
         \A k \in Holders \ {h} : holder'[k] = holder[k],
         holder'[h].pos = holder[h].pos, holder'[h].allowed <=> holder[h].allowed,
         holder'[h].life = "Active" <=> holder[h].life = "Active",
         holder'[h].life = "Preparing" <=> holder'[h].saver \in Guarded,
         UNCHANGED <<phase, epoch, maps>>
  PROVE  /\ HolderStep(h) /\ HolderInv(holder[h], disk[holder[h].pos])
         /\ holder[h] \in HolderType /\ disk[holder[h].pos] \in Payloads
<1>1. /\ holder[h].pos \in Positions /\ h \notin dropped \cup finalized
      /\ HolderInv(holder[h], disk[holder[h].pos])
  BY Zenon, InUse
<1>2. phase \notin StoppedPhases
  BY Zenon DEF LifecycleInv, EpochInv, Unshared
<1>3. /\ UNCHANGED <<phase, ticket, changes, staged, dropped, finalized, chunks, unloading, deferred>>
      /\ visiting' \subseteq visiting
  BY Zenon DEF epoch, maps
<1>4. holder[h] \in HolderType /\ disk[holder[h].pos] \in Payloads
  BY Zenon, <1>1 DEF LifecycleInv, TypeOK
<1>5. QED
  BY Zenon, <1>1, <1>2, <1>3, <1>4 DEF HolderStep

\* The life cycle of a holder fits its save task (Placed).
LEMMA Preparation ==
  ASSUME LifecycleInv, NEW h \in Holders
  PROVE  /\ holder[h].life = "Preparing" <=> holder[h].saver \in Guarded
         /\ holder[h] \in HolderType
BY Zenon DEF LifecycleInv, MapsInv, Placed, TypeOK

\* A producer that moves on without touching anything but its stage.
LEMMA ProducerStepKeeps ==
  ASSUME LifecycleInv, NEW h \in Holders, NEW from, NEW to, ProducerStep(h, from, to),
         \/ /\ from = "None" /\ to = "Acquiring" /\ holder[h].status = Unpublished
            /\ holder[h].allowed /\ phase \notin StoppedPhases
         \/ /\ from = "None" /\ to = "Stepping" /\ holder[h].status \in {Empty, Saved}
            /\ holder[h].version < MaxVersion /\ holder[h].allowed /\ phase \notin StoppedPhases
         \/ from = "Acquiring" /\ to = "None"
         \/ from = "Existing" /\ to = "Reading"
         \/ from = "Loaded" /\ to = "Storing"
         \/ from = "Missing" /\ to = "Creating"
  PROVE  LifecycleInv'
<1> DEFINE r == holder[h]
<1>1. Becomes(h, r.life, r.status, r.version, r.dirty, to, r.loaded, r.saver, r.save)
  BY SMTT(40) DEF LifecycleInv, TypeOK, HolderType, ProducerStep, Becomes
<1>2. r.producer = from /\ UNCHANGED <<phase, epoch, maps, storage, world>>
  BY Zenon DEF ProducerStep
<1>3. /\ HolderStep(h) /\ HolderInv(r, disk[r.pos])
      /\ r \in HolderType /\ disk[r.pos] \in Payloads
  BY Zenon, <1>1, <1>2, WorkingStep, Preparation DEF Becomes
<1>4. HolderInv(holder'[h], disk[r.pos])
  BY <1>1, <1>2, <1>3 DEF Becomes, HolderInv, HolderType, Statuses, Loading, Blank, Stepping,
     Unpublished, Empty, Saved, Full, Saveable
<1>5. OwnsHandle(h)' <=> OwnsHandle(h)
  BY Zenon, <1>1, <1>2 DEF Becomes, OwnsHandle, Loading
<1>6. QED
  BY Zenon, <1>1, <1>2, <1>3, <1>4, <1>5, QuietStep DEF Becomes

\* load_chunk: what was read is what is stored.
LEMMA LoadKeeps ==
  ASSUME LifecycleInv, NEW h \in Holders, Load(h)
  PROVE  LifecycleInv'
<1> DEFINE r == holder[h]
<1>1. Becomes(h, r.life, r.status, r.version, r.dirty, "Loaded", disk[r.pos], r.saver, r.save)
  <2>1. holder \in [Holders -> HolderType] /\ disk[r.pos] \in Payloads
    BY Zenon, InUse DEF LifecycleInv, TypeOK, Load
  <2>2. QED
    BY ZenonT(90), <2>1 DEF HolderType, Load, Becomes
<1>2. r.producer = "Reading" /\ UNCHANGED <<phase, epoch, maps, storage, world>>
  BY Zenon DEF Load
<1>3. /\ HolderStep(h) /\ HolderInv(r, disk[r.pos])
      /\ r \in HolderType /\ disk[r.pos] \in Payloads
  BY <1>1, <1>2, WorkingStep, Preparation DEF Becomes, Guarded
<1>4. HolderInv(holder'[h], disk[r.pos])
  BY Zenon, <1>1, <1>2, <1>3 DEF Becomes, HolderInv, HolderType, Payloads, NoPayload, Statuses,
     Loading, Blank, Stepping, Guarded, Unpublished, Empty, Saved, Full, Saveable
<1>5. OwnsHandle(h)' <=> OwnsHandle(h)
  BY Zenon, <1>1, <1>2 DEF Becomes, OwnsHandle, Loading
<1>6. QED
  BY Zenon, <1>1, <1>2, <1>3, <1>4, <1>5, QuietStep DEF Becomes

\* A generation step changes the chunk; finish_generation_status has yet to mark it.
LEMMA RunStepKeeps ==
  ASSUME LifecycleInv, NEW h \in Holders, RunStep(h)
  PROVE  LifecycleInv'
<1> DEFINE r == holder[h]
<1>1. Becomes(h, r.life, r.status, r.version + 1, r.dirty, "Written", r.loaded, r.saver, r.save)
  <2>1. HolderInv(r, disk[r.pos]) /\ r.producer = "Stepping"
    BY Zenon, InUse DEF RunStep
  <2>2. r.version < MaxVersion /\ r.version \in 0..MaxVersion
    BY Zenon, <2>1, Preparation DEF HolderInv, HolderType
  <2>3. r.version + 1 \in 0..MaxVersion
    BY <2>2, BoundAssumption
  <2>4. QED
    BY <2>3 DEF LifecycleInv, TypeOK, HolderType, RunStep, Becomes
<1>2. r.producer = "Stepping" /\ UNCHANGED <<phase, epoch, maps, storage, world>>
  BY Zenon DEF RunStep
<1>3. /\ HolderStep(h) /\ HolderInv(r, disk[r.pos])
      /\ r \in HolderType /\ disk[r.pos] \in Payloads
  BY <1>1, <1>2, WorkingStep, Preparation DEF Becomes, Guarded
<1>4. HolderInv(holder'[h], disk[r.pos])
  BY <1>1, <1>2, <1>3 DEF Becomes, HolderInv, HolderType, Payloads, NoPayload, Statuses,
     Loading, Blank, Stepping, Guarded, Unpublished, Empty, Saved, Full, Saveable
<1>5. OwnsHandle(h)' <=> OwnsHandle(h)
  BY Zenon, <1>1, <1>2 DEF Becomes, OwnsHandle, Loading
<1>6. QED
  BY Zenon, <1>1, <1>2, <1>3, <1>4, <1>5, QuietStep DEF Becomes

\* It marks the chunk dirty.
LEMMA FinishStepKeeps ==
  ASSUME LifecycleInv, NEW h \in Holders, FinishStep(h)
  PROVE  LifecycleInv'
<1> DEFINE r == holder[h]
<1>1. Becomes(h, r.life, r.status, r.version, TRUE, "Finished", r.loaded, r.saver, r.save)
  BY ZenonT(90) DEF LifecycleInv, TypeOK, HolderType, FinishStep, Becomes
<1>2. r.producer = "Written" /\ UNCHANGED <<phase, epoch, maps, storage, world>>
  BY Zenon DEF FinishStep
<1>3. /\ HolderStep(h) /\ HolderInv(r, disk[r.pos])
      /\ r \in HolderType /\ disk[r.pos] \in Payloads
  BY <1>1, <1>2, WorkingStep, Preparation DEF Becomes, Guarded
<1>4. HolderInv(holder'[h], disk[r.pos])
  BY Zenon, <1>1, <1>2, <1>3 DEF Becomes, HolderInv, HolderType, Payloads, NoPayload, Statuses,
     Loading, Blank, Stepping, Guarded, Unpublished, Empty, Saved, Full, Saveable
<1>5. OwnsHandle(h)' <=> OwnsHandle(h)
  BY Zenon, <1>1, <1>2 DEF Becomes, OwnsHandle, Loading
<1>6. QED
  BY Zenon, <1>1, <1>2, <1>3, <1>4, <1>5, QuietStep DEF Becomes

\* The content of a clean chunk that is captured is on disk; of a dirty one it is in the save.
LEMMA SaverStepKeeps ==
  ASSUME LifecycleInv, NEW h \in Holders, BeginSave(h)
  PROVE  LifecycleInv'
<1> DEFINE r == holder[h]
<1>1. PICK saver \in {"Claimed", "None"}, life \in {"Preparing", "Active", "Unloading"} :
        /\ Becomes(h, life, r.status, r.version, r.dirty, r.producer, r.loaded, saver, r.save)
        /\ life = "Preparing" <=> saver = "Claimed"
        /\ life = "Active" <=> r.life = "Active"
  <2>1. CASE r.life = "Unloading"
    <3>1. Becomes(h, "Preparing", r.status, r.version, r.dirty, r.producer, r.loaded, "Claimed", r.save)
      BY <2>1 DEF LifecycleInv, TypeOK, HolderType, BeginSave, SaverStep, Becomes
    <3>2. QED
      BY Zenon, <2>1, <3>1
  <2>2. CASE r.life # "Unloading"
    <3>1. Becomes(h, r.life, r.status, r.version, r.dirty, r.producer, r.loaded, "None", r.save)
      BY <2>2 DEF LifecycleInv, TypeOK, HolderType, BeginSave, SaverStep, Becomes
    <3>2. r.saver = "Queued"
      BY Zenon, <2>2 DEF BeginSave, SaverStep
    <3>3. r.life = "Active"
      BY Zenon, <2>2, <3>2, Preparation DEF HolderType, Guarded
    <3>4. QED
      BY Zenon, <3>1, <3>3
  <2>3. QED
    BY Zenon, <2>1, <2>2
<1>2. r.saver = "Queued" /\ UNCHANGED <<phase, epoch, maps, storage, world>>
  BY Zenon DEF BeginSave, SaverStep
<1>3. /\ HolderStep(h) /\ HolderInv(r, disk[r.pos])
      /\ r \in HolderType /\ disk[r.pos] \in Payloads
  BY Zenon, <1>1, <1>2, WorkingStep DEF Becomes, Guarded
<1>4. HolderInv(holder'[h], disk[r.pos])
  BY <1>1, <1>2, <1>3 DEF Becomes, HolderInv, HolderType, Payloads, NoPayload, Statuses,
     Loading, Blank, Stepping, Guarded, Unpublished, Empty, Saved, Full, Saveable
<1>5. OwnsHandle(h)' <=> OwnsHandle(h)
  BY Zenon, <1>1, <1>2 DEF Becomes, OwnsHandle, Loading
<1>6. QED
  BY Zenon, <1>1, <1>2, <1>3, <1>4, <1>5, QuietStep DEF Becomes

\* The status to record is read before the flag is taken.
LEMMA ReadStatusKeeps ==
  ASSUME LifecycleInv, NEW h \in Holders, ReadStatus(h)
  PROVE  LifecycleInv'
<1> DEFINE r == holder[h]
<1>1. \/ /\ Becomes(h, r.life, r.status, r.version, r.dirty, r.producer, r.loaded, "Reading", holder'[h].save)
         /\ Saveable(r.status) /\ holder'[h].save.status = r.status
      \/ /\ Becomes(h, "Unloading", r.status, r.version, r.dirty, r.producer, r.loaded, "None", r.save)
         /\ ~Saveable(r.status)
  <2>1. holder \in [Holders -> HolderType] /\ r \in HolderType /\ r.status \in Statuses
    BY Zenon DEF LifecycleInv, TypeOK, HolderType
  <2>2. CASE Saveable(r.status)
    <3> DEFINE save == [r.save EXCEPT !.status = r.status]
    <3>1. save \in Payloads /\ save.status = r.status
      BY Zenon, <2>1 DEF HolderType, Payloads
    <3>2. holder' = [holder EXCEPT ![h].saver = "Reading", ![h].save = save]
      BY Zenon, <2>1, <2>2 DEF ReadStatus, HolderType
    <3> HIDE DEF save
    <3>3. QED
      BY Zenon, <2>1, <2>2, <3>1, <3>2 DEF HolderType, Becomes
  <2>3. CASE ~Saveable(r.status)
    BY Zenon, <2>1, <2>3 DEF HolderType, ReadStatus, Becomes
  <2>4. QED
    BY Zenon, <2>2, <2>3
<1>2. r.saver = "Claimed" /\ UNCHANGED <<phase, epoch, maps, storage, world>>
  BY Zenon DEF ReadStatus
<1>3. /\ HolderStep(h) /\ HolderInv(r, disk[r.pos])
      /\ r \in HolderType /\ disk[r.pos] \in Payloads
  BY Zenon, <1>1, <1>2, WorkingStep, Preparation DEF Becomes, Guarded, HolderType
<1>4. HolderInv(holder'[h], disk[r.pos])
  BY <1>1, <1>2, <1>3 DEF Becomes, HolderInv, HolderType, Payloads, NoPayload, Statuses,
     Loading, Blank, Stepping, Guarded, Unpublished, Empty, Saved, Full, Saveable
<1>5. OwnsHandle(h)' <=> OwnsHandle(h)
  BY Zenon, <1>1, <1>2 DEF Becomes, OwnsHandle, Loading
<1>6. QED
  BY Zenon, <1>1, <1>2, <1>3, <1>4, <1>5, QuietStep DEF Becomes

\* take_dirty, for a capture or for nothing.
LEMMA TakeDirtyKeeps ==
  ASSUME LifecycleInv, NEW h \in Holders, TakeDirty(h)
  PROVE  LifecycleInv'
<1> DEFINE r == holder[h]
<1>1. \/ /\ Becomes(h, r.life, r.status, r.version, FALSE, r.producer, r.loaded, "Taken", r.save)
         /\ r.dirty
      \/ /\ Becomes(h, r.life, r.status, r.version, FALSE, r.producer, r.loaded, "Forced", r.save)
         /\ ~r.dirty
      \/ /\ Becomes(h, "Unloading", r.status, r.version, r.dirty, r.producer, r.loaded, "None", NoPayload)
         /\ ~r.dirty
  <2>1. holder \in [Holders -> HolderType] /\ r \in HolderType /\ NoPayload \in Payloads
    BY BoundAssumption DEF LifecycleInv, TypeOK, Payloads, NoPayload, Statuses, Unpublished, Full
  <2>2. CASE holder' = [holder EXCEPT ![h].saver = IF r.dirty THEN "Taken" ELSE "Forced", ![h].dirty = FALSE]
    <3>1. CASE r.dirty
      <4>1. holder' = [holder EXCEPT ![h].saver = "Taken", ![h].dirty = FALSE]
        BY Zenon, <2>2, <3>1
      <4>2. Becomes(h, r.life, r.status, r.version, FALSE, r.producer, r.loaded, "Taken", r.save)
        BY Zenon, <2>1, <4>1 DEF HolderType, Becomes
      <4>3. QED
        BY Zenon, <3>1, <4>2
    <3>2. CASE ~r.dirty
      <4>1. holder' = [holder EXCEPT ![h].saver = "Forced", ![h].dirty = FALSE]
        BY Zenon, <2>2, <3>2
      <4>2. Becomes(h, r.life, r.status, r.version, FALSE, r.producer, r.loaded, "Forced", r.save)
        BY Zenon, <2>1, <4>1 DEF HolderType, Becomes
      <4>3. QED
        BY Zenon, <3>2, <4>2
    <3>3. QED
      BY Zenon, <3>1, <3>2
  <2>3. CASE ~r.dirty /\ holder' = [holder EXCEPT ![h].saver = "None", ![h].life = "Unloading",
                                                  ![h].save = NoPayload]
    <3>1. Becomes(h, "Unloading", r.status, r.version, r.dirty, r.producer, r.loaded, "None", NoPayload)
      BY ZenonT(30), <2>1, <2>3 DEF HolderType, Becomes
    <3>2. QED
      BY Zenon, <2>3, <3>1
  <2>4. QED
    BY Zenon, <2>2, <2>3 DEF TakeDirty
<1>2. r.saver = "Reading" /\ UNCHANGED <<phase, epoch, maps, storage, world>>
  BY Zenon DEF TakeDirty
<1>3. /\ HolderStep(h) /\ HolderInv(r, disk[r.pos])
      /\ r \in HolderType /\ disk[r.pos] \in Payloads
  BY ZenonT(40), <1>1, <1>2, WorkingStep, Preparation DEF Becomes, Guarded, HolderType
<1>4. HolderInv(holder'[h], disk[r.pos])
  BY <1>1, <1>2, <1>3 DEF Becomes, HolderInv, HolderType, Payloads, NoPayload, Statuses,
     Loading, Blank, Stepping, Guarded, Unpublished, Empty, Saved, Full, Saveable
<1>5. OwnsHandle(h)' <=> OwnsHandle(h)
  BY Zenon, <1>1, <1>2 DEF Becomes, OwnsHandle, Loading
<1>6. QED
  BY Zenon, <1>1, <1>2, <1>3, <1>4, <1>5, QuietStep DEF Becomes

\* prepare_chunk_save copies the chunk.
LEMMA CaptureKeeps ==
  ASSUME LifecycleInv, NEW h \in Holders, Capture(h)
  PROVE  LifecycleInv'
<1> DEFINE r == holder[h]
<1>1. /\ Becomes(h, "Unloading", r.status, r.version, r.dirty, r.producer, r.loaded, "Writing", holder'[h].save)
      /\ holder'[h].save.status = r.save.status /\ holder'[h].save.version = r.version
  <2>1. holder \in [Holders -> HolderType] /\ r \in HolderType
    BY Zenon DEF LifecycleInv, TypeOK
  <2> DEFINE save == [r.save EXCEPT !.version = r.version]
  <2>2. save \in Payloads /\ save.status = r.save.status /\ save.version = r.version
    BY Zenon, <2>1 DEF HolderType, Payloads
  <2>3. holder' = [holder EXCEPT ![h].saver = "Writing", ![h].life = "Unloading", ![h].save = save]
    BY Zenon, <2>1 DEF Capture, HolderType
  <2> HIDE DEF save
  <2>4. QED
    BY ZenonT(30), <2>1, <2>2, <2>3 DEF HolderType, Becomes
<1>2. r.saver \in {"Taken", "Forced"} /\ UNCHANGED <<phase, epoch, maps, storage, world>>
  BY Zenon DEF Capture
<1>3. /\ HolderStep(h) /\ HolderInv(r, disk[r.pos])
      /\ r \in HolderType /\ disk[r.pos] \in Payloads
  BY Zenon, <1>1, <1>2, WorkingStep, Preparation DEF Becomes, Guarded, HolderType
<1>4. HolderInv(holder'[h], disk[r.pos])
  BY <1>1, <1>2, <1>3 DEF Becomes, HolderInv, HolderType, Payloads, NoPayload, Statuses,
     Loading, Blank, Stepping, Guarded, Unpublished, Empty, Saved, Full, Saveable
<1>5. OwnsHandle(h)' <=> OwnsHandle(h)
  BY Zenon, <1>1, <1>2 DEF Becomes, OwnsHandle, Loading
<1>6. QED
  BY Zenon, <1>1, <1>2, <1>3, <1>4, <1>5, QuietStep DEF Becomes

\* A capture that yields nothing puts the flag back.
LEMMA CaptureFailsKeeps ==
  ASSUME LifecycleInv, NEW h \in Holders, CaptureFails(h)
  PROVE  LifecycleInv'
<1> DEFINE r == holder[h]
<1>1. Becomes(h, "Unloading", r.status, r.version, r.dirty \/ r.saver = "Taken", r.producer, r.loaded,
                  "None", NoPayload)
  <2>1. holder \in [Holders -> HolderType] /\ r \in HolderType /\ NoPayload \in Payloads
    BY BoundAssumption DEF LifecycleInv, TypeOK, Payloads, NoPayload, Statuses, Unpublished, Full
  <2>2. (r.dirty \/ r.saver = "Taken") \in BOOLEAN
    BY Zenon
  <2>3. QED
    BY ZenonT(90), <2>1, <2>2 DEF HolderType, CaptureFails, Becomes
<1>2. r.saver \in {"Taken", "Forced"} /\ UNCHANGED <<phase, epoch, maps, storage, world>>
  BY Zenon DEF CaptureFails
<1>3. /\ HolderStep(h) /\ HolderInv(r, disk[r.pos])
      /\ r \in HolderType /\ disk[r.pos] \in Payloads
  BY Zenon, <1>1, <1>2, WorkingStep, Preparation DEF Becomes, Guarded, HolderType
<1>4. HolderInv(holder'[h], disk[r.pos])
  BY <1>1, <1>2, <1>3 DEF Becomes, HolderInv, HolderType, Payloads, NoPayload, Statuses,
     Loading, Blank, Stepping, Guarded, Unpublished, Empty, Saved, Full, Saveable
<1>5. OwnsHandle(h)' <=> OwnsHandle(h)
  BY Zenon, <1>1, <1>2 DEF Becomes, OwnsHandle, Loading
<1>6. QED
  BY Zenon, <1>1, <1>2, <1>3, <1>4, <1>5, QuietStep DEF Becomes

\* A write that fails marks the chunk for another try.
LEMMA WriteFailsKeeps ==
  ASSUME LifecycleInv, NEW h \in Holders, WriteFails(h)
  PROVE  LifecycleInv'
<1> DEFINE r == holder[h]
<1>1. Becomes(h, r.life, r.status, r.version, TRUE, r.producer, r.loaded, "None", NoPayload)
  <2>1. holder \in [Holders -> HolderType] /\ r \in HolderType /\ NoPayload \in Payloads
    BY BoundAssumption DEF LifecycleInv, TypeOK, Payloads, NoPayload, Statuses, Unpublished, Full
  <2>2. QED
    BY Zenon, <2>1 DEF HolderType, WriteFails, Becomes
<1>2. r.saver = "Writing" /\ UNCHANGED <<phase, epoch, maps, storage, world>>
  BY Zenon DEF WriteFails
<1>3. /\ HolderStep(h) /\ HolderInv(r, disk[r.pos])
      /\ r \in HolderType /\ disk[r.pos] \in Payloads
  BY Zenon, <1>1, <1>2, WorkingStep, Preparation DEF Becomes, Guarded, HolderType
<1>4. HolderInv(holder'[h], disk[r.pos])
  BY Zenon, <1>1, <1>2, <1>3 DEF Becomes, HolderInv, HolderType, Payloads, NoPayload, Statuses,
     Loading, Blank, Stepping, Guarded, Unpublished, Empty, Saved, Full, Saveable
<1>5. OwnsHandle(h)' <=> OwnsHandle(h)
  BY Zenon, <1>1, <1>2 DEF Becomes, OwnsHandle, Loading
<1>6. QED
  BY Zenon, <1>1, <1>2, <1>3, <1>4, <1>5, QuietStep DEF Becomes

----------------------------------------------------------------------------
\* Steps that change the status, a registration or the storage.

\* A step of a producer that changes more than its holder.
LEMMA LoudStep ==
  ASSUME LifecycleInv, NEW h \in Holders, HolderStep(h), UNCHANGED <<disk, releases>>,
         StorageInv' /\ handles' \in [Positions -> Nat],
         HandoverInOrder' /\ ticks' \subseteq Positions, entities' \subseteq Positions,
         HolderInv(holder'[h], disk[holder[h].pos])
  PROVE  LifecycleInv'
<1>1. ContentInv' /\ MapsInv' /\ EpochInv' /\ ShutdownSaves'
  BY Zenon, StepContent, StepMaps, StepEpoch
<1>2. TypeOK'
  BY Zenon, StepTypes DEF LifecycleInv, TypeOK
<1>3. QED
  BY Zenon, <1>1, <1>2 DEF LifecycleInv

\* Gameplay writes only active Full chunks, and marks them in the same step.
LEMMA GameplayWriteKeeps ==
  ASSUME LifecycleInv, NEW p \in Positions, GameplayWrite(p)
  PROVE  LifecycleInv'
<1>1. PICK h \in Holders : /\ chunks[p] = h /\ holder[h].pos = p
                         /\ holder[h].life = "Active" /\ holder[h] \in HolderType
  <2>1. Mapped(p) /\ chunks[p] \in Holders \cup {NoHolder} /\ chunks[p] # NoHolder
    BY Zenon DEF LifecycleInv, MapsInv, TypeOK, GameplayWrite
  <2>2. QED
    BY Zenon, <2>1, Preparation DEF Mapped
<1> DEFINE r == holder[h]
<1>2. /\ r.status = Full /\ r.version < MaxVersion /\ phase \notin StoppedPhases
      /\ UNCHANGED <<phase, epoch, maps, storage, world>>
      /\ holder' = [holder EXCEPT ![h].version = @ + 1, ![h].dirty = TRUE]
  BY Zenon, <1>1 DEF GameplayWrite
<1>3. r.version + 1 \in 0..MaxVersion
  BY <1>1, <1>2, BoundAssumption DEF HolderType
<1>4. Becomes(h, r.life, r.status, r.version + 1, TRUE, r.producer, r.loaded, r.saver, r.save)
  BY Zenon, <1>1, <1>2, <1>3 DEF LifecycleInv, TypeOK, HolderType, Becomes
<1>5. h \notin dropped \cup finalized
  <2>1. \A k \in dropped \cup finalized : holder[k].life = "Unloading"
    BY Zenon DEF LifecycleInv, MapsInv, Left
  <2>2. QED
    BY Zenon, <2>1, <1>1
<1>6. HolderStep(h) /\ HolderInv(r, disk[r.pos]) /\ disk[r.pos] \in Payloads
  <2>1. HolderInv(r, disk[r.pos]) /\ disk[r.pos] \in Payloads
    BY Zenon, <1>1, <1>5 DEF LifecycleInv, ContentInv, TypeOK
  <2>2. holder'[h].life = "Preparing" <=> holder'[h].saver \in Guarded
    BY Zenon, <1>1, <1>4, Preparation DEF Becomes
  <2>3. QED
    BY Zenon, <1>1, <1>2, <1>4, <1>5, <2>1, <2>2 DEF HolderStep, Becomes, epoch, maps
<1>7. HolderInv(holder'[h], disk[r.pos])
  BY <1>1, <1>2, <1>4, <1>6 DEF Becomes, HolderInv, HolderType, Payloads, NoPayload, Statuses,
     Loading, Blank, Stepping, Guarded, Unpublished, Empty, Saved, Full, Saveable
<1>8. OwnsHandle(h)' <=> OwnsHandle(h)
  BY Zenon, <1>4 DEF Becomes, OwnsHandle
<1>9. QED
  BY <1>1, <1>2, <1>4, <1>6, <1>7, <1>8, QuietStep DEF Becomes

\* process_unloads spawns a save task for an unloading holder that no task owns.
LEMMA SaveUnloadingKeeps ==
  ASSUME LifecycleInv, NEW p \in Positions, SaveUnloading(p)
  PROVE  LifecycleInv'
<1>1. PICK h \in Holders : /\ unloading[p] = h /\ holder[h].pos = p /\ h \notin dropped \cup finalized
                         /\ holder[h].life # "Active" /\ holder[h] \in HolderType
  <2>1. Mapped(p) /\ unloading[p] \in Holders \cup {NoHolder}
    BY Zenon DEF LifecycleInv, MapsInv, TypeOK
  <2>2. unloading[p] # NoHolder
    BY Zenon DEF LifecycleInv, EpochInv, SaveUnloading
  <2>3. QED
    BY Zenon, <2>1, <2>2, Preparation DEF Mapped
<1> DEFINE r == holder[h]
<1>2. /\ Unshared(h) /\ (NeedsSave(h) \/ r.status >= Empty) /\ phase = "Unloading"
      /\ UNCHANGED <<phase, ticket, changes, staged, dropped, finalized, maps, storage, world>>
      /\ visiting' = visiting \ {p}
      /\ holder' = [holder EXCEPT ![h].saver = "Queued"]
  BY Zenon, <1>1 DEF SaveUnloading
<1>3. Becomes(h, r.life, r.status, r.version, r.dirty, r.producer, r.loaded, "Queued", r.save)
  BY <1>1, <1>2 DEF LifecycleInv, TypeOK, HolderType, Becomes
<1>4. HolderStep(h) /\ HolderInv(r, disk[r.pos]) /\ disk[r.pos] \in Payloads
  <2>1. HolderInv(r, disk[r.pos]) /\ disk[r.pos] \in Payloads
    BY Zenon, <1>1 DEF LifecycleInv, ContentInv, TypeOK
  <2>2. r.life # "Preparing"
    BY Zenon, <1>1, <1>2, Preparation DEF Unshared, Guarded
  <2>3. holder'[h].life = "Preparing" <=> holder'[h].saver \in Guarded
    BY Zenon, <1>3, <2>2 DEF Becomes, Guarded
  <2>4. visiting' \subseteq visiting /\ phase \notin StoppedPhases
    BY Zenon, <1>2 DEF StoppedPhases
  <2>5. QED
    BY Zenon, <1>1, <1>2, <1>3, <2>1, <2>3, <2>4 DEF HolderStep, Becomes, maps
<1>5. HolderInv(holder'[h], disk[r.pos])
  BY <1>1, <1>2, <1>3, <1>4 DEF Becomes, HolderInv, HolderType, Payloads, NoPayload, Statuses,
     Loading, Blank, Stepping, Guarded, Unpublished, Empty, Saved, Full, Saveable, NeedsSave, Unshared
<1>6. OwnsHandle(h)' <=> OwnsHandle(h)
  BY Zenon, <1>3 DEF Becomes, OwnsHandle
<1>7. QED
  BY <1>1, <1>2, <1>3, <1>4, <1>5, <1>6, QuietStep DEF Becomes

\* acquire_chunk: the load knows whether the chunk is stored.
LEMMA AcquireKeeps ==
  ASSUME LifecycleInv, NEW h \in Holders, Acquire(h)
  PROVE  LifecycleInv'
<1> DEFINE r == holder[h]
<1>1. \/ /\ Becomes(h, r.life, r.status, r.version, r.dirty, "Missing", r.loaded, r.saver, r.save)
         /\ disk[r.pos].status = Unpublished
      \/ /\ Becomes(h, r.life, r.status, r.version, r.dirty, "Existing", r.loaded, r.saver, r.save)
         /\ disk[r.pos].status # Unpublished
  <2>1. holder \in [Holders -> HolderType] /\ r \in HolderType
    BY Zenon DEF LifecycleInv, TypeOK
  <2>2. CASE disk[r.pos].status = Unpublished
    <3>1. holder' = [holder EXCEPT ![h].producer = "Missing"]
      BY Zenon, <2>2 DEF Acquire
    <3>2. Becomes(h, r.life, r.status, r.version, r.dirty, "Missing", r.loaded, r.saver, r.save)
      BY Zenon, <2>1, <3>1 DEF HolderType, Becomes
    <3>3. QED
      BY Zenon, <2>2, <3>2
  <2>3. CASE disk[r.pos].status # Unpublished
    <3>1. holder' = [holder EXCEPT ![h].producer = "Existing"]
      BY Zenon, <2>3 DEF Acquire
    <3>2. Becomes(h, r.life, r.status, r.version, r.dirty, "Existing", r.loaded, r.saver, r.save)
      BY Zenon, <2>1, <3>1 DEF HolderType, Becomes
    <3>3. QED
      BY Zenon, <2>3, <3>2
  <2>4. QED
    BY Zenon, <2>2, <2>3
<1>2. /\ r.producer = "Acquiring" /\ UNCHANGED <<phase, epoch, maps, disk, releases, world>>
      /\ handles' = [handles EXCEPT ![r.pos] = @ + 1]
      /\ disk[r.pos] = NoPayload \/ Saveable(disk[r.pos].status)
  <2>1. r.producer = "Acquiring"
    BY Zenon DEF Acquire
  <2>2. r.pos \in Positions
    BY Zenon, <2>1, InUse
  <2>3. QED
    BY Zenon, <2>1, <2>2 DEF Acquire, LifecycleInv, ContentInv
<1>3. /\ HolderStep(h) /\ HolderInv(r, disk[r.pos])
      /\ r \in HolderType /\ disk[r.pos] \in Payloads
  BY ZenonT(40), <1>1, <1>2, WorkingStep, Preparation DEF Becomes
<1>4. HolderInv(holder'[h], disk[r.pos])
  BY <1>1, <1>2, <1>3 DEF Becomes, HolderInv, HolderType, Payloads, NoPayload, Statuses,
     Loading, Blank, Stepping, Guarded, Unpublished, Empty, Saved, Full, Saveable
<1>5. StorageInv' /\ handles' \in [Positions -> Nat]
  <2>1. ~OwnsHandle(h) /\ OwnsHandle(h)'
    BY <1>1, <1>2, <1>3 DEF Becomes, OwnsHandle, Loading, HolderInv, Unpublished, Empty
  <2>2. QED
    BY Zenon, <1>2, <1>3, <2>1, StepStorage
<1>6. HandoverInOrder' /\ ticks' \subseteq Positions /\ entities' \subseteq Positions
  <2>1. HandoverInOrder' /\ ticks' \subseteq Positions
    BY Zenon, <1>1, <1>2, <1>3, StepHandover DEF world, Becomes
  <2>2. QED
    BY Zenon, <1>2, <2>1 DEF world, LifecycleInv, TypeOK
<1>7. QED
  BY Zenon, <1>2, <1>3, <1>4, <1>5, <1>6, LoudStep

\* A load that gives up releases its handle (CancelLoad, LoadFails).
LEMMA ReleaseOwnKeeps ==
  ASSUME LifecycleInv, NEW h \in Holders, ReleaseOwn(h),
         holder[h].producer \in Loading
  PROVE  LifecycleInv'
<1> DEFINE r == holder[h]
<1>1. Becomes(h, r.life, r.status, r.version, r.dirty, "None", NoPayload, r.saver, r.save)
  <2>1. holder \in [Holders -> HolderType] /\ r \in HolderType /\ NoPayload \in Payloads
    BY BoundAssumption DEF LifecycleInv, TypeOK, Payloads, NoPayload, Statuses, Unpublished, Full
  <2>2. QED
    BY Zenon, <2>1 DEF HolderType, Becomes, ReleaseOwn
<1>2. /\ r.producer \in Loading /\ UNCHANGED <<phase, epoch, maps, disk, releases, world>>
      /\ handles' = [handles EXCEPT ![r.pos] = @ - 1]
  BY Zenon DEF ReleaseOwn
<1>3. /\ HolderStep(h) /\ HolderInv(r, disk[r.pos])
      /\ r \in HolderType /\ disk[r.pos] \in Payloads
  BY Zenon, <1>1, <1>2, WorkingStep, Preparation DEF Becomes, Loading
<1>4. HolderInv(holder'[h], disk[r.pos])
  BY Zenon, <1>1, <1>2, <1>3 DEF Becomes, HolderInv, HolderType, Payloads, NoPayload, Statuses,
     Loading, Blank, Stepping, Guarded, Unpublished, Empty, Saved, Full, Saveable
<1>5. StorageInv' /\ handles' \in [Positions -> Nat]
  <2>1. OwnsHandle(h) /\ ~OwnsHandle(h)'
    BY <1>1, <1>2, <1>3 DEF Becomes, OwnsHandle, Loading, HolderInv, Unpublished, Empty
  <2>2. QED
    BY Zenon, <1>2, <1>3, <2>1, StepStorage
<1>6. HandoverInOrder' /\ ticks' \subseteq Positions /\ entities' \subseteq Positions
  <2>1. HandoverInOrder' /\ ticks' \subseteq Positions
    BY Zenon, <1>1, <1>2, <1>3, StepHandover DEF world, Loading, Becomes
  <2>2. QED
    BY Zenon, <1>2, <2>1 DEF world, LifecycleInv, TypeOK
<1>7. QED
  BY Zenon, <1>2, <1>3, <1>4, <1>5, <1>6, LoudStep

\* store_and_publish_chunk_status: a loaded chunk is clean, and as it is stored.
LEMMA StoreKeeps ==
  ASSUME LifecycleInv, NEW h \in Holders, Store(h)
  PROVE  LifecycleInv'
<1> DEFINE r == holder[h]
<1>1. Becomes(h, r.life, r.loaded.status, r.loaded.version, r.dirty, "Notifying", NoPayload, r.saver, r.save)
  <2>1. holder \in [Holders -> HolderType] /\ r \in HolderType /\ NoPayload \in Payloads
    BY BoundAssumption DEF LifecycleInv, TypeOK, Payloads, NoPayload, Statuses, Unpublished, Full
  <2>2. r.loaded.status \in Statuses /\ r.loaded.version \in 0..MaxVersion
    BY Zenon, <2>1 DEF HolderType, Payloads
  <2>3. QED
    BY Zenon, <2>1, <2>2 DEF HolderType, Becomes, Store
<1>2. /\ r.producer = "Storing" /\ UNCHANGED <<phase, epoch, maps, disk, handles, releases, entities>>
      /\ ticks' = IF r.loaded.status = Full THEN ticks \cup {r.pos} ELSE ticks
  BY Zenon DEF Store, storage
<1>3. /\ HolderStep(h) /\ HolderInv(r, disk[r.pos])
      /\ r \in HolderType /\ disk[r.pos] \in Payloads
  BY Zenon, <1>1, <1>2, WorkingStep, Preparation DEF Becomes
<1>4. HolderInv(holder'[h], disk[r.pos])
  BY <1>1, <1>2, <1>3 DEF Becomes, HolderInv, HolderType, Payloads, NoPayload, Statuses,
     Loading, Blank, Stepping, Guarded, Unpublished, Empty, Saved, Full, Saveable
<1>5. StorageInv' /\ handles' \in [Positions -> Nat]
  <2>1. OwnsHandle(h)' <=> OwnsHandle(h)
    BY <1>1, <1>2, <1>3 DEF Becomes, OwnsHandle, Loading, HolderInv, HolderType, Payloads,
       Statuses, Saveable, Unpublished, Empty, Saved, Full
  <2>2. QED
    BY Zenon, <1>2, <1>3, <2>1, StepStorage
<1>6. HandoverInOrder' /\ ticks' \subseteq Positions /\ entities' \subseteq Positions
  <2>1. holder'[h].status = r.loaded.status /\ r.status # Full /\ holder'[h].producer = "Notifying"
    BY <1>1, <1>2, <1>3 DEF Becomes, HolderInv, Loading, Unpublished, Full
  <2>2. HandoverInOrder' /\ ticks' \subseteq Positions
    BY Zenon, <1>2, <1>3, <2>1, StepHandover
  <2>3. QED
    BY Zenon, <1>2, <2>2 DEF LifecycleInv, TypeOK
<1>7. QED
  BY Zenon, <1>2, <1>3, <1>4, <1>5, <1>6, LoudStep

\* The Empty step of a chunk that is not stored.
LEMMA CreateEmptyKeeps ==
  ASSUME LifecycleInv, NEW h \in Holders, CreateEmpty(h)
  PROVE  LifecycleInv'
<1> DEFINE r == holder[h]
<1>1. Becomes(h, r.life, Empty, r.version, TRUE, "Notifying", r.loaded, r.saver, r.save)
  <2>1. holder \in [Holders -> HolderType] /\ r \in HolderType /\ Empty \in Statuses
    BY DEF LifecycleInv, TypeOK, Statuses, Unpublished, Empty, Full
  <2>2. QED
    BY Zenon, <2>1 DEF HolderType, Becomes, CreateEmpty
<1>2. /\ r.producer = "Creating" /\ UNCHANGED <<phase, epoch, maps, disk, handles, releases, ticks, entities>>
  BY Zenon DEF CreateEmpty, storage, world
<1>3. /\ HolderStep(h) /\ HolderInv(r, disk[r.pos])
      /\ r \in HolderType /\ disk[r.pos] \in Payloads
  BY Zenon, <1>1, <1>2, WorkingStep, Preparation DEF Becomes
<1>4. HolderInv(holder'[h], disk[r.pos])
  BY <1>1, <1>2, <1>3 DEF Becomes, HolderInv, HolderType, Payloads, NoPayload, Statuses,
     Loading, Blank, Stepping, Guarded, Unpublished, Empty, Saved, Full, Saveable
<1>5. StorageInv' /\ handles' \in [Positions -> Nat]
  <2>1. OwnsHandle(h)' <=> OwnsHandle(h)
    BY <1>1, <1>2, <1>3 DEF Becomes, OwnsHandle, Loading, HolderInv, HolderType, Statuses,
       Unpublished, Empty, Saved, Full
  <2>2. QED
    BY Zenon, <1>2, <1>3, <2>1, StepStorage
<1>6. HandoverInOrder' /\ ticks' \subseteq Positions /\ entities' \subseteq Positions
  <2>1. holder'[h].status # Full /\ r.status # Full /\ holder'[h].producer = "Notifying"
    BY <1>1, <1>2, <1>3 DEF Becomes, HolderInv, Loading, Unpublished, Empty, Full
  <2>2. HandoverInOrder' /\ ticks' \subseteq Positions
    BY Zenon, <1>2, <1>3, <2>1, StepHandover
  <2>3. QED
    BY Zenon, <1>2, <2>2 DEF LifecycleInv, TypeOK
<1>7. QED
  BY Zenon, <1>2, <1>3, <1>4, <1>5, <1>6, LoudStep

\* on_entity_chunk_loaded.
LEMMA NotifyEntitiesKeeps ==
  ASSUME LifecycleInv, NEW h \in Holders, NotifyEntities(h)
  PROVE  LifecycleInv'
<1> DEFINE r == holder[h]
<1>1. Becomes(h, r.life, r.status, r.version, r.dirty, "None", r.loaded, r.saver, r.save)
  <2>1. holder \in [Holders -> HolderType] /\ r \in HolderType
    BY Zenon DEF LifecycleInv, TypeOK
  <2>2. QED
    BY Zenon, <2>1 DEF HolderType, Becomes, NotifyEntities
<1>2. /\ r.producer = "Notifying" /\ UNCHANGED <<phase, epoch, maps, disk, handles, releases, ticks>>
      /\ entities' = entities \cup {r.pos}
  BY Zenon DEF NotifyEntities, storage
<1>3. /\ HolderStep(h) /\ HolderInv(r, disk[r.pos])
      /\ r \in HolderType /\ disk[r.pos] \in Payloads
  BY Zenon, <1>1, <1>2, WorkingStep, Preparation DEF Becomes
<1>4. HolderInv(holder'[h], disk[r.pos])
  BY <1>1, <1>2, <1>3 DEF Becomes, HolderInv, HolderType, Payloads, NoPayload, Statuses,
     Loading, Blank, Stepping, Guarded, Unpublished, Empty, Saved, Full, Saveable
<1>5. StorageInv' /\ handles' \in [Positions -> Nat]
  <2>1. OwnsHandle(h)' <=> OwnsHandle(h)
    BY Zenon, <1>1, <1>2, <1>3 DEF Becomes, OwnsHandle, Loading, HolderInv, HolderType, Statuses,
       Unpublished, Empty, Saved, Full
  <2>2. QED
    BY Zenon, <1>2, <1>3, <2>1, StepStorage
<1>6. HandoverInOrder' /\ ticks' \subseteq Positions /\ entities' \subseteq Positions
  <2>1. HandoverInOrder' /\ ticks' \subseteq Positions
    BY Zenon, <1>1, <1>2, <1>3, StepHandover DEF Becomes
  <2>2. r.pos \in Positions /\ entities \subseteq Positions
    BY Zenon, <1>3 DEF HolderStep, LifecycleInv, TypeOK
  <2>3. QED
    BY Zenon, <1>2, <2>1, <2>2
<1>7. QED
  BY Zenon, <1>2, <1>3, <1>4, <1>5, <1>6, LoudStep

\* The status of a step is published, and Full is registered with it.
LEMMA PublishStepKeeps ==
  ASSUME LifecycleInv, NEW h \in Holders, PublishStep(h)
  PROVE  LifecycleInv'
<1> DEFINE r == holder[h]
<1>1. Becomes(h, r.life, r.status + 1, r.version, r.dirty, "None", r.loaded, r.saver, r.save)
  <2>1. holder \in [Holders -> HolderType] /\ r \in HolderType /\ r.producer = "Finished"
    BY Zenon DEF LifecycleInv, TypeOK, PublishStep
  <2>2. HolderInv(r, disk[r.pos])
    BY Zenon, <2>1, InUse
  <2>3. r.status + 1 \in Statuses
    BY <2>1, <2>2 DEF HolderInv, Stepping, Statuses, Unpublished, Empty, Saved, Full
  <2>4. QED
    BY Zenon, <2>1, <2>3 DEF HolderType, Becomes, PublishStep
<1>2. /\ r.producer = "Finished" /\ UNCHANGED <<phase, epoch, maps, disk, handles, releases>>
      /\ ticks' = IF r.status + 1 = Full THEN ticks \cup {r.pos} ELSE ticks
      /\ entities' = IF r.status + 1 = Full THEN entities \cup {r.pos} ELSE entities
  BY Zenon DEF PublishStep, storage
<1>3. /\ HolderStep(h) /\ HolderInv(r, disk[r.pos])
      /\ r \in HolderType /\ disk[r.pos] \in Payloads
  BY ZenonT(40), <1>1, <1>2, WorkingStep, Preparation DEF Becomes
<1>4. HolderInv(holder'[h], disk[r.pos])
  BY <1>1, <1>2, <1>3 DEF Becomes, HolderInv, HolderType, Payloads, NoPayload, Statuses,
     Loading, Blank, Stepping, Guarded, Unpublished, Empty, Saved, Full, Saveable
<1>5. StorageInv' /\ handles' \in [Positions -> Nat]
  <2>1. OwnsHandle(h)' <=> OwnsHandle(h)
    BY <1>1, <1>2, <1>3 DEF Becomes, OwnsHandle, Loading, HolderInv, Stepping, HolderType,
       Statuses, Unpublished, Empty, Saved, Full
  <2>2. QED
    BY ZenonT(40), <1>2, <1>3, <2>1, StepStorage
<1>6. HandoverInOrder' /\ ticks' \subseteq Positions /\ entities' \subseteq Positions
  <2>1. /\ holder'[h].status = r.status + 1 /\ r.status # Full
        /\ r.status >= Empty /\ r.producer # "Notifying"
    BY <1>1, <1>2, <1>3 DEF Becomes, HolderInv, Stepping, Empty, Saved, Full
  <2>2. r.pos \in Positions /\ entities \subseteq Positions
    BY Zenon, <1>3 DEF HolderStep, LifecycleInv, TypeOK
  <2>3. entities \subseteq entities' /\ entities' \subseteq Positions
    BY Zenon, <1>2, <2>2
  <2>4. HandoverInOrder' /\ ticks' \subseteq Positions
    BY Zenon, <1>2, <1>3, <2>1, <2>3, StepHandover
  <2>5. QED
    BY ZenonT(40), <2>3, <2>4
<1>7. QED
  BY Zenon, <1>2, <1>3, <1>4, <1>5, <1>6, LoudStep

\* save_chunk_data: what was captured is stored.
LEMMA WriteSaveKeeps ==
  ASSUME LifecycleInv, NEW h \in Holders, WriteSave(h)
  PROVE  LifecycleInv'
<1> DEFINE r == holder[h]
<1>1. Becomes(h, r.life, r.status, r.version, r.dirty, r.producer, r.loaded, "None", NoPayload)
  <2>1. holder \in [Holders -> HolderType] /\ r \in HolderType /\ NoPayload \in Payloads
    BY BoundAssumption DEF LifecycleInv, TypeOK, Payloads, NoPayload, Statuses, Unpublished, Full
  <2>2. QED
    BY Zenon, <2>1 DEF HolderType, Becomes, WriteSave
<1>2. /\ r.saver = "Writing" /\ UNCHANGED <<phase, epoch, maps, handles, releases, ticks, entities>>
      /\ disk' = [disk EXCEPT ![r.pos] = r.save]
  BY Zenon DEF WriteSave, world
<1>3. /\ HolderStep(h) /\ HolderInv(r, disk[r.pos])
      /\ r \in HolderType /\ disk[r.pos] \in Payloads
  BY Zenon, <1>1, <1>2, WorkingStep, Preparation DEF Becomes, Guarded
<1>4. PICK p0 \in Positions : r.pos = p0
  BY Zenon, <1>3 DEF HolderStep
<1>5. r.save \in Payloads /\ Saveable(r.save.status) /\ Saveable(r.status)
  BY <1>2, <1>3 DEF HolderType, HolderInv, Saveable, Statuses, Unpublished, Empty, Saved, Full
<1>6. /\ disk' \in [Positions -> Payloads] /\ disk'[p0] = r.save
      /\ \A p \in Positions : p # p0 => disk'[p] = disk[p]
  BY Zenon, <1>2, <1>4, <1>5 DEF LifecycleInv, TypeOK
<1>7. HolderInv(holder'[h], r.save)
  BY Zenon, <1>1, <1>2, <1>3, <1>5 DEF Becomes, HolderInv, HolderType, Payloads, NoPayload,
     Statuses,
     Loading, Blank, Stepping, Guarded, Unpublished, Empty, Saved, Full, Saveable
<1>8. ContentInv'
  <2>1. \A p \in Positions : disk'[p] = NoPayload \/ Saveable(disk'[p].status)
    BY Zenon, <1>5, <1>6 DEF LifecycleInv, ContentInv
  <2>2. ASSUME NEW k \in Holders \ finalized, holder'[k].pos \in Positions
        PROVE  HolderInv(holder'[k], disk'[holder'[k].pos])
    <3>1. CASE k = h
      BY Zenon, <3>1, <1>1, <1>4, <1>6, <1>7 DEF Becomes
    <3>2. CASE k # h
      <4>1. holder'[k] = holder[k] /\ h \in Holders \ finalized
        BY Zenon, <3>2, <1>3 DEF HolderStep
      <4>2. holder[k].pos # p0
        BY Zenon, <2>2, <3>2, <4>1, <1>4, OneRetained
      <4>3. HolderInv(holder[k], disk[holder[k].pos])
        BY Zenon, <2>2, <4>1 DEF LifecycleInv, ContentInv
      <4>4. QED
        BY Zenon, <2>2, <4>1, <4>2, <4>3, <1>6
    <3>3. QED
      BY Zenon, <3>1, <3>2
  <2>3. QED
    BY Zenon, <2>1, <2>2, <1>3 DEF ContentInv, HolderStep
<1>9. StorageInv' /\ handles' \in [Positions -> Nat]
  <2>1. OwnsHandle(h)' <=> OwnsHandle(h)
    BY Zenon, <1>1, <1>2 DEF Becomes, OwnsHandle
  <2>2. QED
    BY Zenon, <1>2, <1>3, <2>1, StepStorage
<1>10. HandoverInOrder' /\ ticks' \subseteq Positions
  BY Zenon, <1>1, <1>2, <1>3, StepHandover DEF Becomes
<1>11. MapsInv' /\ EpochInv' /\ ShutdownSaves'
  BY Zenon, <1>3, StepMaps, StepEpoch
<1>12. TypeOK'
  <2>1. {handles', releases'} \subseteq [Positions -> Nat] /\ entities' \subseteq Positions
    BY Zenon, <1>2, <1>9 DEF LifecycleInv, TypeOK
  <2>2. QED
    BY Zenon, <1>3, <1>6, <1>10, <2>1, StepTypes
<1>13. QED
  BY Zenon, <1>8, <1>9, <1>10, <1>11, <1>12 DEF LifecycleInv

\* load_chunk discards what it cannot decode: nothing of the holder was published yet.
LEMMA LoadCorruptKeeps ==
  ASSUME LifecycleInv, NEW h \in Holders, LoadCorrupt(h)
  PROVE  LifecycleInv'
<1> DEFINE r == holder[h]
<1>1. Becomes(h, r.life, r.status, r.version, r.dirty, "Missing", r.loaded, r.saver, r.save)
  <2>1. holder \in [Holders -> HolderType] /\ r \in HolderType /\ NoPayload \in Payloads
    BY BoundAssumption DEF LifecycleInv, TypeOK, Payloads, NoPayload, Statuses, Unpublished, Full
  <2>2. QED
    BY Zenon, <2>1 DEF HolderType, Becomes, LoadCorrupt
<1>2. /\ r.producer = "Reading" /\ UNCHANGED <<phase, epoch, maps, handles, releases, ticks, entities>>
      /\ disk' = [disk EXCEPT ![r.pos] = NoPayload]
  BY Zenon DEF LoadCorrupt, world
<1>3. /\ HolderStep(h) /\ HolderInv(r, disk[r.pos])
      /\ r \in HolderType /\ disk[r.pos] \in Payloads
  BY Zenon, <1>1, <1>2, WorkingStep, Preparation DEF Becomes, Guarded, Loading
<1>4. PICK p0 \in Positions : r.pos = p0
  BY Zenon, <1>3 DEF HolderStep
<1>5. NoPayload \in Payloads
  BY BoundAssumption DEF Payloads, NoPayload, Statuses, Unpublished, Full
<1>6. /\ disk' \in [Positions -> Payloads] /\ disk'[p0] = NoPayload
      /\ \A p \in Positions : p # p0 => disk'[p] = disk[p]
  BY Zenon, <1>2, <1>4, <1>5 DEF LifecycleInv, TypeOK
<1>7. HolderInv(holder'[h], NoPayload)
  BY Zenon, <1>1, <1>2, <1>3, <1>5 DEF Becomes, HolderInv, HolderType, Payloads, NoPayload,
     Statuses,
     Loading, Blank, Stepping, Guarded, Unpublished, Empty, Saved, Full, Saveable
<1>8. ContentInv'
  <2>1. \A p \in Positions : disk'[p] = NoPayload \/ Saveable(disk'[p].status)
    BY Zenon, <1>5, <1>6 DEF LifecycleInv, ContentInv
  <2>2. ASSUME NEW k \in Holders \ finalized, holder'[k].pos \in Positions
        PROVE  HolderInv(holder'[k], disk'[holder'[k].pos])
    <3>1. CASE k = h
      BY Zenon, <3>1, <1>1, <1>4, <1>6, <1>7 DEF Becomes
    <3>2. CASE k # h
      <4>1. holder'[k] = holder[k] /\ h \in Holders \ finalized
        BY Zenon, <3>2, <1>3 DEF HolderStep
      <4>2. holder[k].pos # p0
        BY Zenon, <2>2, <3>2, <4>1, <1>4, OneRetained
      <4>3. HolderInv(holder[k], disk[holder[k].pos])
        BY Zenon, <2>2, <4>1 DEF LifecycleInv, ContentInv
      <4>4. QED
        BY Zenon, <2>2, <4>1, <4>2, <4>3, <1>6
    <3>3. QED
      BY Zenon, <3>1, <3>2
  <2>3. QED
    BY Zenon, <2>1, <2>2, <1>3 DEF ContentInv, HolderStep
<1>9. StorageInv' /\ handles' \in [Positions -> Nat]
  <2>1. OwnsHandle(h)' <=> OwnsHandle(h)
    BY Zenon, <1>1, <1>2 DEF Becomes, OwnsHandle, Loading
  <2>2. QED
    BY Zenon, <1>2, <1>3, <2>1, StepStorage
<1>10. HandoverInOrder' /\ ticks' \subseteq Positions
  BY Zenon, <1>1, <1>2, <1>3, StepHandover DEF Becomes
<1>11. MapsInv' /\ EpochInv' /\ ShutdownSaves'
  BY Zenon, <1>3, StepMaps, StepEpoch
<1>12. TypeOK'
  <2>1. {handles', releases'} \subseteq [Positions -> Nat] /\ entities' \subseteq Positions
    BY Zenon, <1>2, <1>9 DEF LifecycleInv, TypeOK
  <2>2. QED
    BY Zenon, <1>3, <1>6, <1>10, <2>1, StepTypes
<1>13. QED
  BY Zenon, <1>8, <1>9, <1>10, <1>11, <1>12 DEF LifecycleInv

\* The steps of producers, save tasks and gameplay.
LEMMA TasksKeep ==
  ASSUME LifecycleInv, NEW h \in Holders,
         Producer(h) \/ Saver(h) \/ StartEmpty(h) \/ StartStep(h)
  PROVE  LifecycleInv'
<1>1. CASE StartEmpty(h)
  BY Zenon, <1>1, ProducerStepKeeps DEF StartEmpty
<1>2. CASE StartStep(h)
  BY Zenon, <1>2, ProducerStepKeeps DEF StartStep
<1>3. CASE AcquireFails(h) \/ ContinueLoad(h)
  BY Zenon, <1>3, ProducerStepKeeps DEF AcquireFails, ContinueLoad
<1>4. CASE CancelLoad(h)
  <2>1. holder[h].producer \in Loading /\ ReleaseOwn(h)
    BY Zenon, <1>4 DEF CancelLoad, Loading
  <2>2. QED
    BY Zenon, <2>1, ReleaseOwnKeeps
<1>5. CASE LoadFails(h)
  <2>1. holder[h].producer \in Loading /\ ReleaseOwn(h)
    BY Zenon, <1>5 DEF LoadFails, Loading
  <2>2. QED
    BY Zenon, <2>1, ReleaseOwnKeeps
<1>6. CASE \/ Acquire(h) \/ Load(h) \/ LoadCorrupt(h) \/ Store(h) \/ CreateEmpty(h)
           \/ NotifyEntities(h)
  BY Zenon, <1>6, AcquireKeeps, LoadKeeps, LoadCorruptKeeps, StoreKeeps, CreateEmptyKeeps, NotifyEntitiesKeeps
<1>7. CASE RunStep(h) \/ FinishStep(h) \/ PublishStep(h)
  BY Zenon, <1>7, RunStepKeeps, FinishStepKeeps, PublishStepKeeps
<1>8. CASE Saver(h)
  BY Zenon, <1>8, SaverStepKeeps, ReadStatusKeeps, TakeDirtyKeeps, CaptureKeeps, CaptureFailsKeeps,
     WriteSaveKeeps, WriteFailsKeeps DEF Saver
<1>9. QED
  BY Zenon, <1>1, <1>2, <1>3, <1>4, <1>5, <1>6, <1>7, <1>8 DEF Producer

----------------------------------------------------------------------------
\* The boundary: commit_scheduling_epoch.

\* The type of the changes still to commit.
LEMMA ChangesType ==
  ASSUME TypeOK
  PROVE  /\ DOMAIN changes \subseteq Positions
         /\ \A p \in DOMAIN changes : changes[p] \in BOOLEAN
         /\ \A S \in SUBSET Positions :
              [S -> BOOLEAN] \subseteq UNION {[T -> BOOLEAN] : T \in SUBSET Positions}
<1>1. PICK S \in SUBSET Positions : changes \in [S -> BOOLEAN]
  BY Zenon DEF TypeOK
<1>2. DOMAIN changes \subseteq Positions /\ \A p \in DOMAIN changes : changes[p] \in BOOLEAN
  BY Zenon, <1>1
<1>3. ASSUME NEW T \in SUBSET Positions
      PROVE  [T -> BOOLEAN] \subseteq UNION {[U -> BOOLEAN] : U \in SUBSET Positions}
  BY Zenon
<1>4. QED
  BY Zenon, <1>2, <1>3

\* Committing one change leaves the others, and leaves the position as the ticket manager wants it.
LEMMA CommitEpoch ==
  ASSUME LifecycleInv, phase = "Committing", NEW p \in DOMAIN changes, changes' = Rest(p),
         UNCHANGED <<phase, ticket, visiting, dropped, finalized>>,
         \A q \in Positions \ {p} : chunks'[q] = chunks[q] /\ (q \in deferred' <=> q \in deferred),
         changes[p] <=> chunks'[p] # NoHolder \/ p \in deferred'
  PROVE  /\ EpochInv' /\ ShutdownSaves'
         /\ changes' \in UNION {[T -> BOOLEAN] : T \in SUBSET Positions}
<1>1. TypeOK /\ EpochInv
  BY Zenon DEF LifecycleInv
<1>2. DOMAIN changes \subseteq Positions /\ \A q \in DOMAIN changes : changes[q] \in BOOLEAN
  BY Zenon, <1>1, ChangesType
<1>3. changes' \in [DOMAIN changes \ {p} -> BOOLEAN]
  BY Zenon, <1>2 DEF Rest
<1>4. DOMAIN changes' = DOMAIN changes \ {p} /\ \A q \in DOMAIN changes' : changes'[q] = changes[q]
  BY Zenon, <1>2 DEF Rest
<1>5. changes' \in UNION {[T -> BOOLEAN] : T \in SUBSET Positions}
  <2>1. DOMAIN changes \ {p} \in SUBSET Positions
    BY Zenon, <1>2
  <2>2. QED
    BY Zenon, <1>1, <1>3, <2>1, ChangesType
<1>6. /\ \A q \in DOMAIN changes' : changes'[q] <=> q \in ticket
      /\ \A q \in Positions \ DOMAIN changes' : q \in ticket <=> chunks'[q] # NoHolder \/ q \in deferred'
  BY Zenon, <1>1, <1>4 DEF EpochInv
<1>7. visiting = {} /\ dropped = {} /\ finalized = {} /\ phase \notin StoppedPhases
  BY Zenon, <1>1 DEF EpochInv, StoppedPhases
<1>8. EpochInv'
  BY Zenon, <1>6, <1>7 DEF EpochInv
<1>9. ShutdownSaves'
  BY Zenon, <1>7 DEF ShutdownSaves, StoppedPhases
<1>10. QED
  BY Zenon, <1>5, <1>8, <1>9

\* Holder h keeps all but its life cycle and its permission.
Moves(h) ==
  /\ holder' \in [Holders -> HolderType]
  /\ \A k \in Holders \ {h} : holder'[k] = holder[k]
  /\ holder'[h].pos = holder[h].pos /\ holder'[h].status = holder[h].status
  /\ holder'[h].version = holder[h].version /\ (holder'[h].dirty <=> holder[h].dirty)
  /\ holder'[h].producer = holder[h].producer /\ holder'[h].loaded = holder[h].loaded
  /\ holder'[h].saver = holder[h].saver /\ holder'[h].save = holder[h].save

\* Such a step keeps content, handles and tick registrations.
LEMMA MoveContent ==
  ASSUME LifecycleInv, NEW h \in Holders, Moves(h), UNCHANGED <<finalized, storage, ticks>>
  PROVE  /\ ContentInv' /\ StorageInv'
         /\ ticks' = {p \in Positions : \E k \in Retained(p)' : holder'[k].status = Full}
<1>1. \A k \in Holders : /\ holder'[k].pos = holder[k].pos /\ holder'[k].status = holder[k].status
                         /\ holder'[k].producer = holder[k].producer
  BY Zenon DEF Moves
<1>2. UNCHANGED <<finalized, disk, handles, releases, ticks>>
  BY Zenon DEF storage
<1>3. ASSUME NEW p PROVE Retained(p)' = Retained(p)
  BY Zenon, <1>1, <1>2 DEF Retained
<1>4. ASSUME NEW k \in Holders, NEW d, HolderInv(holder[k], d) PROVE HolderInv(holder'[k], d)
  <2>1. CASE k = h
    BY <1>4, <2>1 DEF HolderInv, Moves
  <2>2. CASE k # h
    BY Zenon, <1>4, <2>2 DEF Moves
  <2>3. QED
    BY Zenon, <2>1, <2>2
<1>5. ContentInv'
  BY Zenon, <1>1, <1>2, <1>4 DEF LifecycleInv, ContentInv
<1>6. ASSUME NEW k \in Holders PROVE OwnsHandle(k)' <=> OwnsHandle(k)
  BY Zenon, <1>1 DEF OwnsHandle
<1>7. \A p : Retained(p) \subseteq Holders
  BY Zenon DEF Retained
<1>8. ASSUME NEW p \in Positions
      PROVE  (\E k \in Retained(p) : OwnsHandle(k))' <=> (\E k \in Retained(p) : OwnsHandle(k))
  BY Zenon, <1>3, <1>6, <1>7
<1>9. StorageInv'
  BY Zenon, <1>2, <1>8 DEF LifecycleInv, StorageInv
<1>10. \A p \in Positions : (\E k \in Retained(p)' : holder'[k].status = Full)
                              <=> (\E k \in Retained(p) : holder[k].status = Full)
  BY Zenon, <1>1, <1>3, <1>7
<1>11. ticks = {p \in Positions : \E k \in Retained(p) : holder[k].status = Full}
  BY Zenon DEF LifecycleInv, HandoverInOrder
<1>12. ticks' = {p \in Positions : \E k \in Retained(p)' : holder'[k].status = Full}
  BY Zenon, <1>2, <1>10, <1>11
<1>13. QED
  BY Zenon, <1>5, <1>9, <1>12

\* A holder that is demoted, kept or revived is in the map its life cycle says.
LEMMA MoveMaps ==
  ASSUME LifecycleInv, phase = "Committing", NEW h \in Holders, NEW p \in Positions, Moves(h),
         holder[h].pos = p, UNCHANGED <<dropped, finalized>>, holder[h].saver \notin Guarded,
         \A q \in Positions \ {p} : chunks'[q] = chunks[q] /\ unloading'[q] = unloading[q],
         \/ /\ chunks'[p] = h /\ unloading'[p] = NoHolder
            /\ holder'[h].life = "Active" /\ holder'[h].allowed
         \/ /\ chunks'[p] = NoHolder /\ unloading'[p] = h
            /\ holder'[h].life = "Unloading" /\ ~holder'[h].allowed
  PROVE  MapsInv'
<1>1. dropped = {} /\ finalized = {}
  BY Zenon DEF LifecycleInv, EpochInv
<1>2. h # NoHolder /\ p # NoPos
  BY Zenon, HolderAssumption
<1>3. \A k \in Holders : holder'[k].pos = holder[k].pos /\ (k # h => holder'[k] = holder[k])
  BY Zenon DEF Moves
<1>4. \A k \in Holders : holder[k].pos = p => k = h
  BY Zenon, <1>1, OneRetained
<1>5. ASSUME NEW q \in Positions PROVE Mapped(q)'
  <2>1. CASE q = p
    BY Zenon, <2>1, <1>1, <1>2, <1>3 DEF Mapped
  <2>2. CASE q # p
    <3>1. Mapped(q) /\ chunks'[q] = chunks[q] /\ unloading'[q] = unloading[q]
      BY Zenon, <2>2 DEF LifecycleInv, MapsInv
    <3>2. chunks[q] \in Holders \cup {NoHolder} /\ unloading[q] \in Holders \cup {NoHolder}
      BY Zenon DEF LifecycleInv, TypeOK
    <3>3. chunks[q] # h /\ unloading[q] # h
      BY <2>2, <3>1, <1>2 DEF Mapped
    <3>4. QED
      BY Zenon, <3>1, <3>2, <3>3, <1>1, <1>3 DEF Mapped
  <2>3. QED
    BY Zenon, <2>1, <2>2
<1>6. ASSUME NEW k \in Holders PROVE Placed(k)'
  <2>1. CASE k = h
    <3>1. /\ holder'[h].pos = p /\ holder'[h].saver \notin Guarded /\ holder'[h].life # "Preparing"
          /\ chunks'[p] = h \/ unloading'[p] = h
          /\ holder'[h].allowed => chunks'[p] = h
      BY Zenon DEF Moves
    <3>2. QED
      BY Zenon, <2>1, <3>1, <1>2 DEF Placed
  <2>2. CASE k # h
    <3>1. Placed(k) /\ holder'[k] = holder[k] /\ holder[k].pos # p
      BY Zenon, <2>2, <1>3, <1>4 DEF LifecycleInv, MapsInv
    <3>2. QED
      BY <3>1, <1>1 DEF Placed
  <2>3. QED
    BY Zenon, <2>1, <2>2
<1>7. LeftApart' /\ \A k \in (dropped \cup finalized)' : Left(k)'
  BY Zenon, <1>1 DEF LeftApart
<1>8. QED
  BY Zenon, <1>5, <1>6, <1>7 DEF MapsInv

\* update_chunk_level moves a holder, or keeps it, at its position.
LEMMA BoundaryMove ==
  ASSUME LifecycleInv, phase = "Committing", NEW p \in DOMAIN changes, changes' = Rest(p),
         NEW h \in Holders, Moves(h), holder[h].pos = p, holder[h].saver \notin Guarded,
         UNCHANGED <<phase, ticket, staged, visiting, dropped, finalized, storage, ticks>>,
         chunks' \in [Positions -> Holders \cup {NoHolder}],
         unloading' \in [Positions -> Holders \cup {NoHolder}],
         deferred' \in SUBSET Positions, entities' \in SUBSET Positions,
         \A q \in Positions \ {p} : /\ chunks'[q] = chunks[q] /\ unloading'[q] = unloading[q]
                                    /\ q \in deferred' <=> q \in deferred
                                    /\ q \in entities' <=> q \in entities,
         \/ /\ chunks'[p] = h /\ unloading'[p] = NoHolder
            /\ holder'[h].life = "Active" /\ holder'[h].allowed
         \/ /\ chunks'[p] = NoHolder /\ unloading'[p] = h
            /\ holder'[h].life = "Unloading" /\ ~holder'[h].allowed,
         changes[p] <=> chunks'[p] # NoHolder \/ p \in deferred',
         chunks'[p] = h /\ holder[h].status >= Empty => p \in entities'
  PROVE  LifecycleInv'
<1>1. TypeOK /\ EpochInv /\ MapsInv /\ HandoverInOrder
  BY Zenon DEF LifecycleInv
<1>2. p \in Positions
  BY Zenon, <1>1, ChangesType
<1>3. /\ EpochInv' /\ ShutdownSaves'
      /\ changes' \in UNION {[T -> BOOLEAN] : T \in SUBSET Positions}
  <2>1. UNCHANGED <<phase, ticket, visiting, dropped, finalized>>
    BY Zenon
  <2>2. QED
    BY Zenon, <2>1, CommitEpoch
<1>4. /\ ContentInv' /\ StorageInv'
      /\ ticks' = {q \in Positions : \E k \in Retained(q)' : holder'[k].status = Full}
  <2>1. UNCHANGED <<finalized, storage, ticks>>
    BY Zenon
  <2>2. QED
    BY Zenon, <2>1, MoveContent
<1>5. MapsInv'
  <2>1. UNCHANGED <<dropped, finalized>>
    BY Zenon
  <2>2. QED
    BY ZenonT(40), <2>1, <1>2, MoveMaps
<1>6. TypeOK'
  <2>1. holder' \in [Holders -> HolderType]
    BY Zenon DEF Moves
  <2>2. QED
    BY Zenon, <1>1, <1>3, <2>1 DEF TypeOK, storage
<1>7. HandoverInOrder'
  <2>1. finalized' = {}
    BY Zenon, <1>1 DEF EpochInv
  <2>2. ASSUME NEW q \in Positions, chunks'[q] # NoHolder, holder'[chunks'[q]].status >= Empty,
               holder'[chunks'[q]].producer # "Notifying"
        PROVE  q \in entities'
    <3>1. CASE q = p
      <4>1. chunks'[p] = h
        BY Zenon, <2>2, <3>1
      <4>2. QED
        BY Zenon, <2>2, <3>1, <4>1 DEF Moves
    <3>2. CASE q # p
      <4>1. PICK k \in Holders : chunks[q] = k /\ chunks'[q] = k
        BY Zenon, <2>2, <3>2
      <4>2. holder'[k].status = holder[k].status /\ holder'[k].producer = holder[k].producer
        BY Zenon DEF Moves
      <4>3. QED
        BY Zenon, <1>1, <2>2, <3>2, <4>1, <4>2 DEF HandoverInOrder
    <3>3. QED
      BY Zenon, <3>1, <3>2
  <2>3. QED
    BY Zenon, <1>4, <2>1, <2>2 DEF HandoverInOrder
<1>8. QED
  BY Zenon, <1>3, <1>4, <1>5, <1>6, <1>7 DEF LifecycleInv

\* What commits start from: the entries of position p.
LEMMA AtBoundary ==
  ASSUME LifecycleInv, phase = "Committing", NEW p \in DOMAIN changes
  PROVE  /\ p \in Positions /\ changes[p] \in BOOLEAN
         /\ chunks[p] # NoHolder => /\ chunks[p] \in Holders /\ holder[chunks[p]].pos = p
                                    /\ holder[chunks[p]].life = "Active"
                                    /\ holder[chunks[p]].saver \notin Guarded
                                    /\ unloading[p] = NoHolder
         /\ unloading[p] # NoHolder => unloading[p] \in Holders /\ holder[unloading[p]].pos = p
         /\ visiting = {} /\ dropped = {} /\ finalized = {}
<1>1. TypeOK /\ MapsInv
  BY Zenon DEF LifecycleInv
<1>2. p \in Positions /\ changes[p] \in BOOLEAN
  BY Zenon, <1>1, ChangesType
<1>3. chunks[p] \in Holders \cup {NoHolder} /\ unloading[p] \in Holders \cup {NoHolder}
  BY Zenon, <1>1, <1>2 DEF TypeOK
<1>4. Mapped(p) /\ \A h \in Holders : Placed(h)
  BY Zenon, <1>1, <1>2 DEF MapsInv
<1>5. visiting = {} /\ dropped = {} /\ finalized = {}
  BY Zenon DEF LifecycleInv, EpochInv
<1>6. chunks[p] # NoHolder =>
        /\ chunks[p] \in Holders /\ holder[chunks[p]].pos = p /\ holder[chunks[p]].life = "Active"
        /\ holder[chunks[p]].saver \notin Guarded /\ unloading[p] = NoHolder
  BY Zenon, <1>3, <1>4 DEF Mapped, Placed
<1>7. unloading[p] # NoHolder => unloading[p] \in Holders /\ holder[unloading[p]].pos = p
  BY Zenon, <1>3, <1>4 DEF Mapped
<1>8. QED
  BY Zenon, <1>2, <1>5, <1>6, <1>7

\* A demotion keeps the invariant.
LEMMA DemoteKeeps ==
  ASSUME LifecycleInv, NEW p \in Positions, Demote(p)
  PROVE  LifecycleInv'
<1>1. /\ phase = "Committing" /\ p \in DOMAIN changes /\ ~changes[p] /\ changes' = Rest(p)
      /\ UNCHANGED <<phase, ticket, staged, visiting, dropped, finalized, storage, ticks>>
  BY Zenon DEF Demote
<1>2. PICK h \in Holders : chunks[p] = h
  BY Zenon, <1>1, AtBoundary DEF Demote
<1>3. /\ holder[h].pos = p /\ holder[h].saver \notin Guarded
  BY Zenon, <1>1, <1>2, AtBoundary, HolderAssumption
<1>4. /\ holder' = [holder EXCEPT ![h].life = "Unloading", ![h].allowed = FALSE]
      /\ chunks' = [chunks EXCEPT ![p] = NoHolder] /\ unloading' = [unloading EXCEPT ![p] = h]
      /\ deferred' = deferred \ {p} /\ entities' = entities \ {p}
  BY Zenon, <1>2 DEF Demote
<1>5. TypeOK /\ holder[h] \in HolderType
  BY Zenon DEF LifecycleInv, TypeOK
<1>6. Moves(h) /\ holder'[h].life = "Unloading" /\ ~holder'[h].allowed
  BY ZenonT(30), <1>4, <1>5 DEF TypeOK, HolderType, Moves
<1>7. /\ chunks' \in [Positions -> Holders \cup {NoHolder}]
      /\ unloading' \in [Positions -> Holders \cup {NoHolder}]
      /\ deferred' \in SUBSET Positions /\ entities' \in SUBSET Positions
      /\ chunks'[p] = NoHolder /\ unloading'[p] = h /\ p \notin deferred'
      /\ \A q \in Positions \ {p} : /\ chunks'[q] = chunks[q] /\ unloading'[q] = unloading[q]
                                    /\ q \in deferred' <=> q \in deferred
                                    /\ q \in entities' <=> q \in entities
  BY Zenon, <1>4, <1>5 DEF TypeOK
<1>8. chunks'[p] # h
  BY Zenon, <1>7, HolderAssumption
<1>9. QED
  BY Zenon, <1>1, <1>3, <1>6, <1>7, <1>8, BoundaryMove

\* A level for an active holder, or for one that is revived, keeps the invariant.
LEMMA RaiseKeeps ==
  ASSUME LifecycleInv, phase = "Committing", NEW p \in DOMAIN changes, changes' = Rest(p),
         changes[p], NEW h \in Holders, NEW life, RaiseLevel(h, p, life), life = "Active",
         holder[h].pos = p, holder[h].saver \notin Guarded,
         chunks' \in [Positions -> Holders \cup {NoHolder}],
         unloading' \in [Positions -> Holders \cup {NoHolder}],
         chunks'[p] = h, unloading'[p] = NoHolder,
         \A q \in Positions \ {p} : chunks'[q] = chunks[q] /\ unloading'[q] = unloading[q]
  PROVE  LifecycleInv'
<1>1. /\ holder' = [holder EXCEPT ![h].life = life, ![h].allowed = TRUE]
      /\ entities' = IF holder[h].status >= Empty THEN entities \cup {p} ELSE entities
      /\ UNCHANGED <<phase, ticket, staged, visiting, dropped, finalized, storage, ticks>>
      /\ deferred' = deferred
  BY Zenon DEF RaiseLevel
<1>2. TypeOK /\ holder[h] \in HolderType
  BY Zenon DEF LifecycleInv, TypeOK
<1>3. Moves(h) /\ holder'[h].life = "Active" /\ holder'[h].allowed
  BY ZenonT(30), <1>1, <1>2 DEF TypeOK, HolderType, Moves
<1>4. /\ deferred' \in SUBSET Positions /\ entities' \in SUBSET Positions
      /\ \A q \in Positions \ {p} : /\ q \in deferred' <=> q \in deferred
                                    /\ q \in entities' <=> q \in entities
      /\ holder[h].status >= Empty => p \in entities'
  <2>1. p \in Positions
    BY Zenon, <1>2, ChangesType
  <2>2. QED
    BY Zenon, <1>1, <1>2, <2>1 DEF TypeOK
<1>5. chunks'[p] # NoHolder
  BY Zenon, HolderAssumption
<1>6. QED
  BY Zenon, <1>1, <1>3, <1>4, <1>5, BoundaryMove

\* An active holder whose level changes keeps the invariant.
LEMMA KeepKeeps ==
  ASSUME LifecycleInv, NEW p \in Positions, Keep(p)
  PROVE  LifecycleInv'
<1>1. /\ phase = "Committing" /\ p \in DOMAIN changes /\ changes[p] /\ changes' = Rest(p)
      /\ RaiseLevel(chunks[p], p, holder[chunks[p]].life)
      /\ chunks' = chunks /\ unloading' = unloading /\ chunks[p] # NoHolder
  BY Zenon DEF Keep
<1>2. PICK h \in Holders : chunks[p] = h
  BY Zenon, <1>1, AtBoundary
<1>3. /\ holder[h].pos = p /\ holder[h].saver \notin Guarded /\ holder[h].life = "Active"
      /\ unloading[p] = NoHolder
  BY Zenon, <1>1, <1>2, AtBoundary
<1>4. /\ chunks' \in [Positions -> Holders \cup {NoHolder}]
      /\ unloading' \in [Positions -> Holders \cup {NoHolder}]
  BY Zenon, <1>1 DEF LifecycleInv, TypeOK
<1>5. RaiseLevel(h, p, holder[h].life)
  BY Zenon, <1>1, <1>2
<1>6. QED
  BY Zenon, <1>1, <1>2, <1>3, <1>4, <1>5, RaiseKeeps

\* try_revive_from_unloading keeps the invariant.
LEMMA ReviveKeeps ==
  ASSUME LifecycleInv, NEW p \in Positions, Revive(p)
  PROVE  LifecycleInv'
<1>1. /\ phase = "Committing" /\ p \in DOMAIN changes /\ changes[p] /\ changes' = Rest(p)
      /\ RaiseLevel(unloading[p], p, "Active") /\ unloading[p] # NoHolder
      /\ holder[unloading[p]].life = "Unloading"
      /\ unloading' = [unloading EXCEPT ![p] = NoHolder]
      /\ chunks' = [chunks EXCEPT ![p] = unloading[p]]
  BY Zenon DEF Revive
<1>2. PICK h \in Holders : unloading[p] = h
  BY Zenon, <1>1, AtBoundary
<1>3. holder[h].pos = p /\ holder[h].life = "Unloading" /\ RaiseLevel(h, p, "Active")
  BY Zenon, <1>1, <1>2, AtBoundary
<1>4. holder[h].saver \notin Guarded
  <2>1. Placed(h)
    BY Zenon DEF LifecycleInv, MapsInv
  <2>2. QED
    BY Zenon, <1>3, <2>1 DEF Placed
<1>5. /\ chunks' \in [Positions -> Holders \cup {NoHolder}]
      /\ unloading' \in [Positions -> Holders \cup {NoHolder}]
      /\ chunks'[p] = h /\ unloading'[p] = NoHolder
      /\ \A q \in Positions \ {p} : chunks'[q] = chunks[q] /\ unloading'[q] = unloading[q]
  BY Zenon, <1>1, <1>2 DEF LifecycleInv, TypeOK
<1>6. QED
  BY Zenon, <1>1, <1>3, <1>4, <1>5, RaiseKeeps

\* The state of an identity that is not allocated is well typed.
LEMMA FreeHolderType == FreeHolder \in HolderType
<1>1. NoPayload \in Payloads
  BY BoundAssumption DEF NoPayload, Payloads, Statuses, Unpublished, Full
<1>2. 0 \in 0..MaxVersion /\ Unpublished \in Statuses
  BY BoundAssumption DEF Statuses, Unpublished, Full
<1>3. QED
  BY Zenon, <1>1, <1>2 DEF FreeHolder, HolderType

\* A step that touches no holder, map entry, handle or registration.
LEMMA StillHolders ==
  ASSUME LifecycleInv, UNCHANGED <<holder, chunks, unloading, dropped, finalized, storage, world>>
  PROVE  MapsInv' /\ ContentInv' /\ StorageInv' /\ HandoverInOrder'
<1>1. /\ UNCHANGED <<holder, chunks, unloading, dropped, finalized>>
      /\ UNCHANGED <<disk, handles, releases, ticks, entities>>
  BY Zenon DEF storage, world
<1>2. \A p : Retained(p)' = Retained(p)
  BY Zenon, <1>1 DEF Retained
<1>3. \A h : /\ OwnsHandle(h)' <=> OwnsHandle(h)
             /\ Left(h)' <=> Left(h)
             /\ Placed(h)' <=> Placed(h)
  BY Zenon, <1>1 DEF OwnsHandle, Left, Placed, Unshared
<1>4. \A p : Mapped(p)' <=> Mapped(p)
  BY Zenon, <1>1 DEF Mapped
<1>5. LeftApart' <=> LeftApart
  BY Zenon, <1>1 DEF LeftApart, NeedsSave
<1>6. MapsInv'
  <2>1. (\A p \in Positions : Mapped(p)') /\ \A h \in Holders : Placed(h)'
    BY Zenon, <1>3, <1>4 DEF LifecycleInv, MapsInv
  <2>2. \A h \in dropped \cup finalized : Left(h)'
    BY Zenon, <1>3 DEF LifecycleInv, MapsInv
  <2>3. \A h \in (dropped \cup finalized)' : Left(h)'
    BY Zenon, <1>1, <2>2
  <2>4. LeftApart'
    BY Zenon, <1>5 DEF LifecycleInv, MapsInv
  <2>5. QED
    BY Zenon, <2>1, <2>3, <2>4 DEF MapsInv
<1>7. ContentInv'
  BY Zenon, <1>1 DEF LifecycleInv, ContentInv
<1>8. StorageInv'
  <2>1. ASSUME NEW p \in Positions
        PROVE  (\E h \in Retained(p) : OwnsHandle(h))' <=> (\E h \in Retained(p) : OwnsHandle(h))
    BY Zenon, <1>2, <1>3
  <2>2. QED
    BY Zenon, <1>1, <2>1 DEF LifecycleInv, StorageInv
<1>9. HandoverInOrder'
  BY Zenon, <1>1, <1>2 DEF LifecycleInv, HandoverInOrder
<1>10. QED
  BY Zenon, <1>6, <1>7, <1>8, <1>9

\* A change that asks for nothing, and a deferred revival, keep the invariant.
LEMMA IgnoreDeferKeeps ==
  ASSUME LifecycleInv, NEW p \in Positions, Ignore(p) \/ Defer(p)
  PROVE  LifecycleInv'
<1>1. /\ phase = "Committing" /\ p \in DOMAIN changes /\ changes' = Rest(p)
      /\ UNCHANGED <<phase, ticket, visiting, dropped, finalized>> /\ staged' = staged
      /\ UNCHANGED <<holder, chunks, unloading, dropped, finalized, storage, world>>
      /\ chunks[p] = NoHolder
      /\ (~changes[p] /\ deferred' = deferred \ {p}) \/ (changes[p] /\ deferred' = deferred \cup {p})
  BY Zenon DEF Ignore, Defer
<1>2. MapsInv' /\ ContentInv' /\ StorageInv' /\ HandoverInOrder'
  BY Zenon, <1>1, StillHolders
<1>3. /\ deferred' \in SUBSET Positions
      /\ \A q \in Positions \ {p} : q \in deferred' <=> q \in deferred
      /\ changes[p] <=> p \in deferred'
  <2>1. deferred \in SUBSET Positions
    BY Zenon DEF LifecycleInv, TypeOK
  <2>2. QED
    BY Zenon, <1>1, <2>1
<1>4. \A q \in Positions \ {p} : chunks'[q] = chunks[q] /\ (q \in deferred' <=> q \in deferred)
  BY Zenon, <1>1, <1>3
<1>5. /\ EpochInv' /\ ShutdownSaves'
      /\ changes' \in UNION {[T -> BOOLEAN] : T \in SUBSET Positions}
  BY Zenon, <1>1, <1>3, <1>4, CommitEpoch
<1>6. TypeOK'
  BY Zenon, <1>1, <1>3, <1>5 DEF LifecycleInv, TypeOK, storage, world
<1>7. QED
  BY Zenon, <1>2, <1>5, <1>6 DEF LifecycleInv

\* A new holder is alone at its position.
LEMMA CreateKeeps ==
  ASSUME LifecycleInv, NEW p \in Positions, NEW h \in Holders, Create(p, h)
  PROVE  LifecycleInv'
<1> DEFINE r == [FreeHolder EXCEPT !.pos = p, !.allowed = TRUE]
<1>1. /\ phase = "Committing" /\ p \in DOMAIN changes /\ changes' = Rest(p) /\ changes[p]
      /\ chunks[p] = NoHolder /\ unloading[p] = NoHolder /\ holder[h].pos = NoPos
      /\ UNCHANGED <<phase, ticket, visiting, dropped, finalized>>
      /\ UNCHANGED <<staged, unloading, deferred, disk, handles, releases, ticks, entities>>
      /\ chunks' = [chunks EXCEPT ![p] = h] /\ holder' = [holder EXCEPT ![h] = r]
  BY Zenon DEF Create, storage, world
<1>2. TypeOK /\ MapsInv /\ ContentInv /\ StorageInv /\ HandoverInOrder
  BY Zenon DEF LifecycleInv
<1>3. dropped = {} /\ finalized = {}
  BY Zenon, <1>1, AtBoundary
<1>4. /\ r \in HolderType /\ r.pos = p /\ r.life = "Active" /\ r.allowed /\ r.status = 0
      /\ r.producer = "None" /\ r.saver = "None" /\ r.version = 0
  BY Zenon, FreeHolderType DEF FreeHolder, HolderType, Unpublished
<1> HIDE DEF r
<1>5. /\ chunks' \in [Positions -> Holders \cup {NoHolder}] /\ chunks'[p] = h
      /\ \A q \in Positions \ {p} : chunks'[q] = chunks[q]
      /\ holder' \in [Holders -> HolderType] /\ holder'[h] = r
      /\ \A k \in Holders \ {h} : holder'[k] = holder[k]
  BY Zenon, <1>1, <1>2, <1>4 DEF TypeOK
<1>6. h # NoHolder /\ p # NoPos /\ NoPos \notin Positions
  BY Zenon, HolderAssumption
<1>7. /\ EpochInv' /\ ShutdownSaves'
      /\ changes' \in UNION {[T -> BOOLEAN] : T \in SUBSET Positions}
  <2>1. \A q \in Positions \ {p} : chunks'[q] = chunks[q] /\ (q \in deferred' <=> q \in deferred)
    BY Zenon, <1>1, <1>5
  <2>2. changes[p] <=> chunks'[p] # NoHolder \/ p \in deferred'
    BY Zenon, <1>1, <1>5, <1>6
  <2>3. QED
    BY Zenon, <1>1, <2>1, <2>2, CommitEpoch
<1>8. TypeOK'
  BY Zenon, <1>1, <1>2, <1>5, <1>7 DEF TypeOK
<1>9. ASSUME NEW q \in Positions
      PROVE  chunks[q] # h /\ unloading[q] # h
  BY <1>1, <1>2, <1>6 DEF MapsInv, Mapped
<1>10. MapsInv'
  <2>1. ASSUME NEW q \in Positions PROVE Mapped(q)'
    <3>1. CASE q = p
      BY Zenon, <1>1, <1>4, <1>5, <3>1 DEF Mapped
    <3>2. CASE q # p
      <4>1. Mapped(q) /\ chunks[q] \in Holders \cup {NoHolder}
            /\ unloading[q] \in Holders \cup {NoHolder}
        BY Zenon, <1>2 DEF MapsInv, TypeOK
      <4>2. QED
        BY <1>1, <1>3, <1>5, <1>9, <3>2, <4>1 DEF Mapped
    <3>3. QED
      BY Zenon, <3>1, <3>2
  <2>2. ASSUME NEW k \in Holders PROVE Placed(k)'
    <3>1. CASE k = h
      BY Zenon, <1>4, <1>5, <1>6, <3>1 DEF Placed, Guarded
    <3>2. CASE k # h
      <4>1. Placed(k) /\ holder'[k] = holder[k] /\ k # NoHolder
        BY Zenon, <1>2, <1>5, <3>2, HolderAssumption DEF MapsInv
      <4>2. QED
        BY Zenon, <1>1, <1>3, <1>5, <4>1 DEF Placed
    <3>3. QED
      BY Zenon, <3>1, <3>2
  <2>3. LeftApart' /\ \A k \in (dropped \cup finalized)' : Left(k)'
    BY Zenon, <1>1, <1>3 DEF LeftApart
  <2>4. QED
    BY Zenon, <2>1, <2>2, <2>3 DEF MapsInv
<1>11. ContentInv'
  <2>1. ASSUME NEW d PROVE HolderInv(r, d)
    BY <1>4 DEF HolderInv, Blank, Loading, Stepping, Unpublished, Empty, Saved, Saveable
  <2>2. QED
    BY ZenonT(40), <1>1, <1>2, <1>3, <1>5, <2>1 DEF ContentInv
<1>12. ASSUME NEW q \in Positions
       PROVE  /\ \A k \in Retained(q) : k \in Holders \ {h} /\ k \in Retained(q)'
              /\ \A k \in Retained(q)' : k = h \/ k \in Retained(q)
  BY ZenonT(40), <1>1, <1>5, <1>6 DEF Retained
<1>13. \A k \in Holders \ {h} : OwnsHandle(k)' <=> OwnsHandle(k)
  BY Zenon, <1>5 DEF OwnsHandle
<1>14. ~OwnsHandle(h)' /\ holder'[h].status # Full /\ ~(holder'[h].status >= Empty)
  BY <1>4, <1>5 DEF OwnsHandle, Loading, Empty, Full
<1>15. StorageInv'
  <2>1. ASSUME NEW q \in Positions
        PROVE  (\E k \in Retained(q) : OwnsHandle(k))' <=> (\E k \in Retained(q) : OwnsHandle(k))
    BY Zenon, <1>12, <1>13, <1>14
  <2>2. QED
    BY Zenon, <1>1, <1>2, <2>1 DEF StorageInv
<1>16. HandoverInOrder'
  <2>1. \A q \in Positions : (\E k \in Retained(q)' : holder'[k].status = Full)
                               <=> (\E k \in Retained(q) : holder[k].status = Full)
    BY Zenon, <1>5, <1>12, <1>14
  <2>2. ASSUME NEW q \in Positions, chunks'[q] # NoHolder, holder'[chunks'[q]].status >= Empty,
               holder'[chunks'[q]].producer # "Notifying"
        PROVE  q \in entities'
    <3>1. q # p
      BY Zenon, <1>5, <1>14, <2>2
    <3>2. chunks'[q] = chunks[q] /\ chunks[q] \in Holders \ {h}
      BY Zenon, <1>2, <1>5, <1>9, <2>2, <3>1 DEF TypeOK
    <3>3. QED
      BY Zenon, <1>1, <1>2, <1>5, <2>2, <3>2 DEF HandoverInOrder
  <2>3. QED
    BY Zenon, <1>1, <1>2, <1>3, <2>1, <2>2 DEF HandoverInOrder
<1>17. QED
  BY Zenon, <1>7, <1>8, <1>10, <1>11, <1>15, <1>16 DEF LifecycleInv

\* merge_deferred_revivals and finish_block_entity_unloads keep the invariant.
LEMMA CommitStartKeeps ==
  ASSUME LifecycleInv, CommitStart
  PROVE  LifecycleInv'
<1>1. /\ phase = "Ready" /\ phase' = "Committing" /\ deferred' = {} /\ finalized' = {}
      /\ changes' = [p \in DOMAIN changes \cup deferred |-> p \in DOMAIN changes => changes[p]]
      /\ holder' = [h \in Holders |-> IF h \in finalized THEN FreeHolder ELSE holder[h]]
      /\ UNCHANGED <<ticket, staged, visiting, dropped, chunks, unloading>>
      /\ UNCHANGED <<disk, handles, releases, ticks, entities>>
  BY Zenon DEF CommitStart, storage, world
<1>2. TypeOK /\ MapsInv /\ EpochInv /\ ContentInv /\ StorageInv /\ HandoverInOrder
  BY Zenon DEF LifecycleInv
<1>3. dropped = {} /\ visiting = {}
  BY Zenon, <1>1, <1>2 DEF EpochInv
<1>4. /\ DOMAIN changes \subseteq Positions /\ deferred \subseteq Positions
      /\ \A p \in DOMAIN changes : changes[p] \in BOOLEAN
  BY Zenon, <1>2, ChangesType DEF TypeOK
<1>5. changes' \in UNION {[T -> BOOLEAN] : T \in SUBSET Positions}
  <2>1. changes' \in [DOMAIN changes \cup deferred -> BOOLEAN]
    BY Zenon, <1>1, <1>4
  <2>2. DOMAIN changes \cup deferred \in SUBSET Positions
    BY Zenon, <1>4
  <2>3. QED
    BY Zenon, <1>2, <2>1, <2>2, ChangesType
<1>6. /\ \A h \in finalized : holder'[h] = FreeHolder
      /\ \A h \in Holders \ finalized : holder'[h] = holder[h]
      /\ holder' \in [Holders -> HolderType]
  BY Zenon, <1>1, <1>2, FreeHolderType DEF TypeOK
<1>7. TypeOK'
  BY Zenon, <1>1, <1>2, <1>5, <1>6 DEF TypeOK
<1>8. EpochInv'
  <2>1. \A p \in DOMAIN changes' : changes'[p] <=> p \in ticket
    BY Zenon, <1>1, <1>2, <1>4 DEF EpochInv
  <2>2. \A p \in Positions \ DOMAIN changes' :
          p \in ticket <=> chunks[p] # NoHolder \/ p \in deferred'
    BY Zenon, <1>1, <1>2 DEF EpochInv
  <2>3. QED
    BY Zenon, <1>1, <1>3, <2>1, <2>2 DEF EpochInv, StoppedPhases
<1>9. ASSUME NEW p \in Positions
      PROVE  chunks[p] \notin finalized /\ unloading[p] \notin finalized
  <2>1. Mapped(p) /\ \A h \in finalized : Left(h) /\ h # NoHolder
    BY Zenon, <1>2, HolderAssumption DEF MapsInv, TypeOK
  <2>2. QED
    BY Zenon, <2>1 DEF Mapped, Left
<1>10. MapsInv'
  <2>1. ASSUME NEW p \in Positions PROVE Mapped(p)'
    <3>1. /\ Mapped(p) /\ chunks[p] \in Holders \cup {NoHolder}
          /\ unloading[p] \in Holders \cup {NoHolder}
      BY Zenon, <1>2 DEF MapsInv, TypeOK
    <3>2. QED
      BY Zenon, <1>1, <1>3, <1>6, <1>9, <3>1 DEF Mapped
  <2>2. ASSUME NEW h \in Holders PROVE Placed(h)'
    <3>1. CASE h \in finalized
      <4>1. holder'[h] = FreeHolder
        BY Zenon, <1>6, <3>1
      <4>2. QED
        BY <4>1, HolderAssumption DEF Placed, FreeHolder, Guarded
    <3>2. CASE h \notin finalized
      <4>1. Placed(h) /\ holder'[h] = holder[h]
        BY Zenon, <1>2, <1>6, <3>2 DEF MapsInv
      <4>2. QED
        BY Zenon, <1>1, <1>3, <3>2, <4>1 DEF Placed
    <3>3. QED
      BY Zenon, <3>1, <3>2
  <2>3. LeftApart' /\ \A h \in (dropped \cup finalized)' : Left(h)'
    BY Zenon, <1>1, <1>3 DEF LeftApart
  <2>4. QED
    BY Zenon, <2>1, <2>2, <2>3 DEF MapsInv
<1>11. \A h \in finalized : holder'[h].pos \notin Positions
  BY <1>6, HolderAssumption DEF FreeHolder
<1>12. ContentInv'
  BY Zenon, <1>1, <1>2, <1>6, <1>11 DEF ContentInv
<1>13. \A p \in Positions : Retained(p)' = Retained(p)
  <2>1. ASSUME NEW p \in Positions, NEW h \in Holders
        PROVE  h \in Retained(p)' <=> h \in Retained(p)
    BY Zenon, <1>1, <1>6, <1>11, <2>1 DEF Retained
  <2>2. QED
    BY Zenon, <2>1 DEF Retained
<1>14. ASSUME NEW p, NEW h \in Retained(p)
       PROVE  holder'[h] = holder[h] /\ (OwnsHandle(h)' <=> OwnsHandle(h))
  <2>1. h \in Holders \ finalized
    BY Zenon DEF Retained
  <2>2. QED
    BY Zenon, <1>6, <2>1 DEF OwnsHandle
<1>15. StorageInv'
  <2>1. ASSUME NEW p \in Positions
        PROVE  (\E h \in Retained(p) : OwnsHandle(h))' <=> (\E h \in Retained(p) : OwnsHandle(h))
    BY Zenon, <1>13, <1>14
  <2>2. QED
    BY Zenon, <1>1, <1>2, <2>1 DEF StorageInv
<1>16. HandoverInOrder'
  <2>1. \A p \in Positions : (\E h \in Retained(p)' : holder'[h].status = Full)
                               <=> (\E h \in Retained(p) : holder[h].status = Full)
    BY Zenon, <1>13, <1>14
  <2>2. ASSUME NEW p \in Positions, chunks[p] # NoHolder PROVE holder'[chunks[p]] = holder[chunks[p]]
    <3>1. chunks[p] \in Holders \ finalized
      BY Zenon, <1>2, <1>9, <2>2 DEF TypeOK
    <3>2. QED
      BY Zenon, <1>6, <3>1
  <2>3. QED
    BY Zenon, <1>1, <1>2, <2>1, <2>2 DEF HandoverInOrder
<1>17. ShutdownSaves'
  BY Zenon, <1>1 DEF ShutdownSaves
<1>18. QED
  BY Zenon, <1>2, <1>7, <1>8, <1>10, <1>12, <1>15, <1>16, <1>17 DEF LifecycleInv

----------------------------------------------------------------------------
\* The epoch worker and shutdown.

\* The steps of an epoch that only move it on keep the invariant.
LEMMA EpochKeeps ==
  ASSUME LifecycleInv,
         \/ StartEpoch \/ CommitEnd \/ FinishEpoch
         \/ \E wanted, touched \in SUBSET Positions : PrepareEpoch(wanted, touched)
         \/ \E p \in Positions : KeepUnloading(p)
  PROVE  LifecycleInv'
<1>1. UNCHANGED <<holder, chunks, unloading, dropped, finalized, storage, world>> /\ deferred' = deferred
  BY Zenon DEF StartEpoch, CommitEnd, FinishEpoch, PrepareEpoch, KeepUnloading, epoch, maps
<1>2. MapsInv' /\ ContentInv' /\ StorageInv' /\ HandoverInOrder'
  BY Zenon, <1>1, StillHolders
<1>3. TypeOK /\ EpochInv
  BY Zenon DEF LifecycleInv
<1>4. phase \notin StoppedPhases /\ phase' \notin StoppedPhases
  BY Zenon DEF StartEpoch, CommitEnd, FinishEpoch, PrepareEpoch, KeepUnloading, StoppedPhases
<1>5. ShutdownSaves'
  BY Zenon, <1>4 DEF ShutdownSaves, StoppedPhases
<1>6. CASE StartEpoch \/ CommitEnd \/ FinishEpoch
  <2>1. UNCHANGED <<ticket, changes, staged, visiting>>
    BY Zenon, <1>6 DEF StartEpoch, CommitEnd, FinishEpoch, epoch
  <2>2. TypeOK'
    <3>1. phase' \in {"Idle", "Running", "Unloading", "Ready", "Committing"} \cup StoppedPhases
      BY Zenon, <1>6 DEF StartEpoch, CommitEnd, FinishEpoch
    <3>2. QED
      BY Zenon, <1>1, <1>3, <2>1, <3>1 DEF TypeOK, storage, world
  <2>3. EpochInv'
    BY Zenon, <1>1, <1>3, <1>4, <1>6, <2>1 DEF StartEpoch, CommitEnd, FinishEpoch, EpochInv
  <2>4. QED
    BY Zenon, <1>2, <1>5, <2>2, <2>3 DEF LifecycleInv
<1>7. CASE \E p \in Positions : KeepUnloading(p)
  <2>1. PICK p \in Positions : KeepUnloading(p)
    BY Zenon, <1>7
  <2>2. phase = "Unloading" /\ UNCHANGED <<phase, ticket, changes, staged>> /\ visiting' = visiting \ {p}
    BY Zenon, <2>1 DEF KeepUnloading
  <2>3. TypeOK'
    BY Zenon, <1>1, <1>3, <2>2 DEF TypeOK, storage, world
  <2>4. EpochInv'
    BY Zenon, <1>1, <1>3, <1>4, <2>2 DEF EpochInv
  <2>5. QED
    BY Zenon, <1>2, <1>5, <2>3, <2>4 DEF LifecycleInv
<1>8. CASE \E wanted, touched \in SUBSET Positions : PrepareEpoch(wanted, touched)
  <2>1. PICK wanted \in SUBSET Positions, touched \in SUBSET Positions : PrepareEpoch(wanted, touched)
    BY Zenon, <1>8
  <2> DEFINE D == touched \cup (wanted \ ticket) \cup (ticket \ wanted)
  <2>2. /\ phase = "Running" /\ phase' = "Unloading" /\ ticket' = wanted
        /\ changes' = [p \in D |-> p \in wanted]
        /\ staged' = {p \in wanted \cap DOMAIN changes' : unloading[p] # NoHolder} \cup deferred
        /\ visiting' = {p \in Positions : unloading[p] # NoHolder}
    BY Zenon, <2>1 DEF PrepareEpoch
  <2>3. D \in SUBSET Positions
    BY Zenon, <1>3 DEF TypeOK
  <2>4. changes' \in UNION {[T -> BOOLEAN] : T \in SUBSET Positions}
    <3>1. changes' \in [D -> BOOLEAN]
      BY <2>2
    <3>2. QED
      BY Zenon, <1>3, <2>3, <3>1, ChangesType
  <2>5. DOMAIN changes' = D /\ \A p \in D : changes'[p] <=> p \in wanted
    BY Zenon, <2>2
  <2>6. TypeOK'
    <3>1. ticket' \in SUBSET Positions /\ staged' \in SUBSET Positions /\ visiting' \in SUBSET Positions
      BY Zenon, <1>3, <2>2, <2>3 DEF TypeOK
    <3>2. phase' \in {"Idle", "Running", "Unloading", "Ready", "Committing"} \cup StoppedPhases
      BY Zenon, <2>2
    <3>3. QED
      BY Zenon, <1>1, <1>3, <2>4, <3>1, <3>2 DEF TypeOK, storage, world
  <2>7. EpochInv'
    <3>1. \A p \in Positions \ D : p \in wanted <=> chunks[p] # NoHolder \/ p \in deferred
      <4>1. DOMAIN changes = {}
        BY Zenon, <1>3, <2>2 DEF EpochInv
      <4>2. \A p \in Positions : p \in ticket <=> chunks[p] # NoHolder \/ p \in deferred
        BY Zenon, <1>3, <4>1 DEF EpochInv
      <4>3. \A p \in Positions \ D : p \in ticket <=> p \in wanted
        BY Zenon
      <4>4. QED
        BY Zenon, <4>2, <4>3
    <3>2. \A p \in visiting' : unloading[p] # NoHolder
      BY Zenon, <2>2
    <3> HIDE DEF D
    <3>3. QED
      BY Zenon, <1>1, <1>4, <2>2, <2>5, <3>1, <3>2 DEF EpochInv
  <2>8. QED
    BY Zenon, <1>2, <1>5, <2>6, <2>7 DEF LifecycleInv
<1>9. QED
  BY Zenon, <1>6, <1>7, <1>8

\* retain_sync drops a clean, unshared holder.
LEMMA DropUnloadingKeeps ==
  ASSUME LifecycleInv, NEW p \in Positions, DropUnloading(p)
  PROVE  LifecycleInv'
<1>1. TypeOK /\ MapsInv /\ EpochInv /\ ContentInv /\ StorageInv /\ HandoverInOrder
  BY Zenon DEF LifecycleInv
<1>2. unloading[p] \in Holders
  BY Zenon, <1>1 DEF DropUnloading, EpochInv, TypeOK
<1>3. PICK h \in Holders : unloading[p] = h
  BY Zenon, <1>2
<1>4. /\ phase = "Unloading" /\ p \in visiting /\ Unshared(h) /\ ~NeedsSave(h)
      /\ visiting' = visiting \ {p} /\ unloading' = [unloading EXCEPT ![p] = NoHolder]
      /\ dropped' = dropped \cup {h}
      /\ UNCHANGED <<phase, ticket, changes, staged, finalized, chunks, deferred, holder>>
      /\ UNCHANGED <<disk, handles, releases, ticks, entities>>
  BY Zenon, <1>3 DEF DropUnloading, storage, world
<1>5. h # NoHolder
  BY Zenon, HolderAssumption
<1>6. /\ holder[h].pos = p /\ holder[h].life = "Unloading" /\ chunks[p] = NoHolder
      /\ h \notin dropped /\ h \notin finalized
  <2>1. Mapped(p) /\ Placed(h) /\ holder[h] \in HolderType
    BY Zenon, <1>1 DEF MapsInv, TypeOK
  <2>2. /\ holder[h].pos = p /\ holder[h].life # "Active" /\ chunks[p] = NoHolder
        /\ h \notin dropped /\ h \notin finalized
    BY Zenon, <1>3, <1>5, <2>1 DEF Mapped
  <2>3. holder[h].life # "Preparing"
    BY Zenon, <1>4, <2>1 DEF Placed, Unshared, Guarded
  <2>4. QED
    BY Zenon, <2>1, <2>2, <2>3 DEF HolderType
<1>7. /\ unloading' \in [Positions -> Holders \cup {NoHolder}] /\ unloading'[p] = NoHolder
      /\ \A q \in Positions \ {p} : unloading'[q] = unloading[q]
  BY Zenon, <1>1, <1>4 DEF TypeOK
<1>8. TypeOK'
  <2>1. visiting' \in SUBSET Positions /\ dropped' \in SUBSET Holders
    BY Zenon, <1>1, <1>4 DEF TypeOK
  <2>2. QED
    BY Zenon, <1>1, <1>4, <1>7, <2>1 DEF TypeOK
<1>9. ASSUME NEW k \in dropped \cup finalized PROVE Left(k) /\ holder[k].pos # p
  <2>1. Left(k)
    BY Zenon, <1>1 DEF MapsInv
  <2>2. QED
    BY Zenon, <1>3, <1>5, <2>1 DEF Left
<1>10. MapsInv'
  <2>1. ASSUME NEW q \in Positions PROVE Mapped(q)'
    <3>1. CASE q = p
      BY ZenonT(40), <1>4, <1>6, <1>7, <3>1 DEF Mapped
    <3>2. CASE q # p
      <4>1. Mapped(q) /\ unloading'[q] = unloading[q]
        BY Zenon, <1>1, <1>7, <3>2 DEF MapsInv
      <4>2. unloading[q] # h
        BY Zenon, <1>5, <1>6, <3>2, <4>1 DEF Mapped
      <4>3. QED
        BY <1>4, <4>1, <4>2 DEF Mapped
    <3>3. QED
      BY Zenon, <3>1, <3>2
  <2>2. ASSUME NEW k \in Holders PROVE Placed(k)'
    <3>1. Placed(k)
      BY Zenon, <1>1 DEF MapsInv
    <3>2. CASE k = h
      BY Zenon, <1>4, <3>1, <3>2 DEF Placed
    <3>3. CASE k # h
      BY Zenon, <1>3, <1>4, <1>7, <3>1, <3>3 DEF Placed
    <3>4. QED
      BY Zenon, <3>2, <3>3
  <2>3. ASSUME NEW k \in (dropped \cup finalized)' PROVE Left(k)'
    <3>1. CASE k = h
      BY Zenon, <1>4, <1>6, <1>7, <3>1 DEF Left, Unshared
    <3>2. CASE k \in dropped \cup finalized
      <4>1. Left(k) /\ holder[k].pos # p
        BY Zenon, <1>9, <3>2
      <4>2. QED
        BY Zenon, <1>4, <1>7, <4>1 DEF Left, Unshared
    <3>3. QED
      BY Zenon, <1>4, <2>3, <3>1, <3>2
  <2>4. LeftApart'
    <3>1. \A k \in dropped \cup {h} : ~NeedsSave(k) /\ k \notin finalized
      BY Zenon, <1>1, <1>4, <1>6 DEF MapsInv, LeftApart
    <3>2. \A j, k \in dropped \cup {h} : holder[j].pos = holder[k].pos => j = k
      BY Zenon, <1>1, <1>6, <1>9 DEF MapsInv, LeftApart
    <3>3. \A j \in dropped \cup {h}, k \in finalized : holder[j].pos # holder[k].pos
      BY Zenon, <1>1, <1>6, <1>9 DEF MapsInv, LeftApart
    <3>4. QED
      BY Zenon, <1>4, <3>1, <3>2, <3>3 DEF LeftApart, NeedsSave
  <2>5. QED
    BY Zenon, <2>1, <2>2, <2>3, <2>4 DEF MapsInv
<1>11. EpochInv'
  <2>1. \A q \in visiting' : unloading'[q] # NoHolder
    BY Zenon, <1>1, <1>4, <1>7 DEF EpochInv, TypeOK
  <2>2. QED
    BY Zenon, <1>1, <1>4, <2>1 DEF EpochInv, StoppedPhases
<1>12. ContentInv'
  BY Zenon, <1>1, <1>4 DEF ContentInv
<1>13. \A q : Retained(q)' = Retained(q)
  BY Zenon, <1>4 DEF Retained
<1>14. \A k : OwnsHandle(k)' <=> OwnsHandle(k)
  BY Zenon, <1>4 DEF OwnsHandle
<1>15. StorageInv'
  <2>1. ASSUME NEW q \in Positions
        PROVE  (\E k \in Retained(q) : OwnsHandle(k))' <=> (\E k \in Retained(q) : OwnsHandle(k))
    BY Zenon, <1>13, <1>14
  <2>2. QED
    BY Zenon, <1>1, <1>4, <2>1 DEF StorageInv
<1>16. HandoverInOrder'
  BY Zenon, <1>1, <1>4, <1>13 DEF HandoverInOrder
<1>17. ShutdownSaves'
  BY Zenon, <1>4 DEF ShutdownSaves
<1>18. QED
  BY Zenon, <1>8, <1>10, <1>11, <1>12, <1>15, <1>16, <1>17 DEF LifecycleInv

\* finalize_chunk_unload hands the storage handle of the holder to a release task.
LEMMA FinalizeDroppedKeeps ==
  ASSUME LifecycleInv, NEW h \in Holders, FinalizeDropped(h)
  PROVE  LifecycleInv'
<1>1. TypeOK /\ MapsInv /\ EpochInv /\ ContentInv /\ StorageInv /\ HandoverInOrder
  BY Zenon DEF LifecycleInv
<1>2. Left(h) /\ h \in dropped /\ h \notin finalized
  BY Zenon, <1>1 DEF FinalizeDropped, MapsInv, LeftApart
<1>3. PICK p \in Positions : holder[h].pos = p
  BY Zenon, <1>2 DEF Left
<1>4. /\ phase = "Unloading" /\ visiting = {} /\ dropped' = dropped \ {h}
      /\ finalized' = finalized \cup {h} /\ ticks' = ticks \ {p}
      /\ releases' = IF holder[h].status >= Empty THEN [releases EXCEPT ![p] = @ + 1] ELSE releases
      /\ UNCHANGED <<phase, ticket, changes, staged, visiting, chunks, unloading, deferred, holder>>
      /\ UNCHANGED <<disk, handles, entities>>
  BY Zenon, <1>3 DEF FinalizeDropped, maps
<1>5. TypeOK'
  <2>1. releases' \in [Positions -> Nat]
    BY <1>1, <1>4 DEF TypeOK
  <2>2. dropped' \in SUBSET Holders /\ finalized' \in SUBSET Holders /\ ticks' \in SUBSET Positions
    BY Zenon, <1>1, <1>4 DEF TypeOK
  <2>3. QED
    BY Zenon, <1>1, <1>4, <2>1, <2>2 DEF TypeOK
<1>6. dropped' \cup finalized' = dropped \cup finalized
  BY Zenon, <1>2, <1>4
<1>7. MapsInv'
  <2>1. ASSUME NEW q \in Positions PROVE Mapped(q)'
    BY Zenon, <1>1, <1>4, <1>6 DEF MapsInv, Mapped
  <2>2. ASSUME NEW k \in Holders PROVE Placed(k)'
    BY Zenon, <1>1, <1>4, <1>6 DEF MapsInv, Placed
  <2>3. ASSUME NEW k \in dropped \cup finalized PROVE Left(k)'
    BY Zenon, <1>1, <1>4 DEF MapsInv, Left, Unshared
  <2>4. LeftApart'
    <3>1. LeftApart
      BY Zenon, <1>1 DEF MapsInv
    <3>2. QED
      BY <1>2, <1>4, <3>1 DEF LeftApart, NeedsSave
  <2>5. QED
    BY Zenon, <1>6, <2>1, <2>2, <2>3, <2>4 DEF MapsInv
<1>8. EpochInv'
  BY Zenon, <1>1, <1>4 DEF EpochInv, StoppedPhases
<1>9. ContentInv'
  <2>1. \A k \in Holders \ finalized' : k \in Holders \ finalized
    BY Zenon, <1>4
  <2>2. QED
    BY Zenon, <1>1, <1>4, <2>1 DEF ContentInv
<1>10. Retained(p) = {h} /\ Retained(p)' = {}
  <2>1. \A k \in Holders \ finalized : holder[k].pos = p => k = h
    BY Zenon, <1>2, <1>3, OneRetained
  <2>2. QED
    BY Zenon, <1>2, <1>3, <1>4, <2>1 DEF Retained
<1>11. \A q \in Positions \ {p} : Retained(q)' = Retained(q)
  BY Zenon, <1>3, <1>4 DEF Retained
<1>12. OwnsHandle(h) <=> holder[h].status >= Empty
  <2>1. holder[h].producer = "None"
    BY Zenon, <1>2 DEF Left, Unshared
  <2>2. QED
    BY Zenon, <2>1 DEF OwnsHandle, Loading
<1>13. \A k : OwnsHandle(k)' <=> OwnsHandle(k)
  BY Zenon, <1>4 DEF OwnsHandle
<1>14. StorageInv'
  <2>1. ASSUME NEW q \in Positions \ {p}
        PROVE  (\E k \in Retained(q) : OwnsHandle(k))' <=> (\E k \in Retained(q) : OwnsHandle(k))
    BY Zenon, <1>11, <1>13
  <2>2. ASSUME NEW q \in Positions \ {p} PROVE releases'[q] = releases[q]
    BY Zenon, <1>1, <1>4 DEF TypeOK
  <2>3. (\E k \in Retained(p) : OwnsHandle(k)) <=> holder[h].status >= Empty
    BY Zenon, <1>10, <1>12
  <2>4. ~(\E k \in Retained(p) : OwnsHandle(k))'
    BY Zenon, <1>10
  <2>5. handles[p] = (IF \E k \in Retained(p) : OwnsHandle(k) THEN 1 ELSE 0) + releases[p]
    BY Zenon, <1>1 DEF StorageInv
  <2>6. handles[p] = releases'[p]
    <3>1. CASE holder[h].status >= Empty
      BY <1>1, <1>4, <2>3, <2>5, <3>1 DEF TypeOK
    <3>2. CASE ~(holder[h].status >= Empty)
      BY <1>1, <1>4, <2>3, <2>5, <3>2 DEF TypeOK
    <3>3. QED
      BY Zenon, <3>1, <3>2
  <2>7. (0 + releases'[p]) = releases'[p]
    BY <1>5 DEF TypeOK
  <2>8. handles'[p] = (IF \E k \in Retained(p) : OwnsHandle(k) THEN 1 ELSE 0)' + releases'[p]
    BY Zenon, <1>4, <2>4, <2>6, <2>7
  <2>9. QED
    BY Zenon, <1>1, <1>4, <2>1, <2>2, <2>8 DEF StorageInv
<1>15. HandoverInOrder'
  <2>1. \A q \in Positions : q \in ticks' <=> \E k \in Retained(q)' : holder'[k].status = Full
    BY Zenon, <1>1, <1>4, <1>10, <1>11 DEF HandoverInOrder
  <2>2. ticks' = {q \in Positions : \E k \in Retained(q)' : holder'[k].status = Full}
    BY Zenon, <1>5, <2>1 DEF TypeOK
  <2>3. \A k \in finalized' : chunks'[holder'[k].pos] = NoHolder
    BY Zenon, <1>1, <1>2, <1>4 DEF HandoverInOrder, Left
  <2>4. QED
    BY Zenon, <1>1, <1>4, <2>2, <2>3 DEF HandoverInOrder
<1>16. ShutdownSaves'
  BY Zenon, <1>4 DEF ShutdownSaves
<1>17. QED
  BY Zenon, <1>5, <1>7, <1>8, <1>9, <1>14, <1>15, <1>16 DEF LifecycleInv

\* release_chunk keeps the invariant.
LEMMA ReleaseKeeps ==
  ASSUME LifecycleInv, NEW p \in Positions, Release(p)
  PROVE  LifecycleInv'
<1>1. /\ releases[p] > 0 /\ releases' = [releases EXCEPT ![p] = @ - 1]
      /\ handles' = [handles EXCEPT ![p] = @ - 1]
      /\ UNCHANGED <<phase, ticket, changes, staged, visiting, dropped, finalized>>
      /\ UNCHANGED <<chunks, unloading, deferred, holder, disk, ticks, entities>>
  BY Zenon DEF Release, epoch, maps, world
<1>2. TypeOK /\ MapsInv /\ EpochInv /\ ContentInv /\ StorageInv /\ HandoverInOrder /\ ShutdownSaves
  BY Zenon DEF LifecycleInv
<1>3. \A q : Retained(q)' = Retained(q)
  BY Zenon, <1>1 DEF Retained
<1>4. \A k : /\ OwnsHandle(k)' <=> OwnsHandle(k)
             /\ Left(k)' <=> Left(k)
             /\ Placed(k)' <=> Placed(k)
             /\ Unshared(k)' <=> Unshared(k)
  BY ZenonT(40), <1>1 DEF OwnsHandle, Left, Placed, Unshared
<1>5. MapsInv'
  <2>1. (\A q \in Positions : Mapped(q)') /\ \A k \in Holders : Placed(k)'
    BY Zenon, <1>1, <1>2, <1>4 DEF MapsInv, Mapped
  <2>2. \A k \in (dropped \cup finalized)' : Left(k)'
    BY Zenon, <1>1, <1>2, <1>4 DEF MapsInv
  <2>3. LeftApart'
    BY Zenon, <1>1, <1>2 DEF MapsInv, LeftApart, NeedsSave
  <2>4. QED
    BY Zenon, <2>1, <2>2, <2>3 DEF MapsInv
<1>6. EpochInv'
  BY Zenon, <1>1, <1>2, <1>4 DEF EpochInv
<1>7. ContentInv' /\ HandoverInOrder' /\ ShutdownSaves'
  BY Zenon, <1>1, <1>2, <1>3 DEF ContentInv, HandoverInOrder, ShutdownSaves
<1>8. ASSUME NEW q \in Positions
      PROVE  handles'[q] = (IF \E k \in Retained(q) : OwnsHandle(k) THEN 1 ELSE 0) + releases'[q]
  <2> DEFINE n == IF \E k \in Retained(q) : OwnsHandle(k) THEN 1 ELSE 0
  <2>1. n \in Nat
    BY Zenon
  <2>2. handles[q] = n + releases[q]
    BY Zenon, <1>2 DEF StorageInv
  <2> HIDE DEF n
  <2>3. handles'[q] = n + releases'[q]
    BY <1>1, <1>2, <2>1, <2>2 DEF TypeOK
  <2>4. QED
    BY Zenon, <2>3 DEF n
<1>9. StorageInv'
  <2>1. ASSUME NEW q \in Positions
        PROVE  (\E k \in Retained(q) : OwnsHandle(k))' <=> (\E k \in Retained(q) : OwnsHandle(k))
    BY Zenon, <1>3, <1>4
  <2>2. QED
    BY Zenon, <1>8, <2>1 DEF StorageInv
<1>10. handles' \in [Positions -> Nat] /\ releases' \in [Positions -> Nat]
  <2>1. handles \in [Positions -> Nat] /\ releases \in [Positions -> Nat]
    BY Zenon, <1>2 DEF TypeOK
  <2>2. handles[p] > 0
    <3>1. handles[p] = (IF \E k \in Retained(p) : OwnsHandle(k) THEN 1 ELSE 0) + releases[p]
      BY Zenon, <1>2 DEF StorageInv
    <3>2. QED
      BY <1>1, <2>1, <3>1
  <2>3. QED
    BY <1>1, <2>1, <2>2
<1>11. TypeOK'
  BY Zenon, <1>1, <1>2, <1>10 DEF TypeOK
<1>12. QED
  BY Zenon, <1>5, <1>6, <1>7, <1>9, <1>11 DEF LifecycleInv

\* What save_all_chunks leaves of each holder and of each position.
LEMMA SaveAllEffect ==
  ASSUME LifecycleInv, NEW failing \in SUBSET Positions, SaveAll(failing),
         NEW h \in Holders
  PROVE  /\ holder'[h] = [holder[h] EXCEPT !.dirty = @ /\ ~(NeedsSave(h) /\ holder[h].pos \notin failing)]
         /\ holder[h] \in HolderType /\ holder'[h] \in HolderType
         /\ h \notin finalized /\ holder[h].pos \in Positions =>
              disk'[holder[h].pos] = IF NeedsSave(h) /\ holder[h].pos \notin failing
                                       THEN Payload(h) ELSE disk[holder[h].pos]
<1> DEFINE Due(k) == NeedsSave(k) /\ holder[k].pos \notin failing
           due == {k \in Holders : Due(k)}
<1>1. holder[h] \in HolderType /\ TypeOK /\ MapsInv
  BY Zenon DEF LifecycleInv, TypeOK
<1>2. \A k : k \in due <=> k \in Holders /\ Due(k)
  BY Zenon
<1>3. /\ disk' = [p \in Positions |-> IF chunks[p] \in due THEN Payload(chunks[p])
                                      ELSE IF unloading[p] \in due THEN Payload(unloading[p])
                                      ELSE disk[p]]
      /\ holder' = [k \in Holders |-> [holder[k] EXCEPT !.dirty = @ /\ k \notin due]]
      /\ phase \in {"Idle", "Ready"}
  BY Zenon DEF SaveAll
<1> HIDE DEF Due, due
<1>4. holder'[h] = [holder[h] EXCEPT !.dirty = @ /\ ~Due(h)]
  BY Zenon, <1>1, <1>2, <1>3 DEF HolderType
<1>5. holder'[h] \in HolderType
  BY Zenon, <1>1, <1>4 DEF HolderType
<1>6. ASSUME NEW p \in Positions, holder[h].pos = p, h \notin finalized
      PROVE  disk'[p] = IF Due(h) THEN Payload(h) ELSE disk[p]
  <2>1. dropped = {}
    BY Zenon, <1>3 DEF LifecycleInv, EpochInv
  <2>2. chunks[p] = h \/ unloading[p] = h
    BY Zenon, <1>1, <1>6, <2>1 DEF MapsInv, Placed
  <2>3. NoHolder \notin due /\ h # NoHolder
    BY Zenon, <1>2, HolderAssumption
  <2>4. Mapped(p)
    BY Zenon, <1>1 DEF MapsInv
  <2>5. CASE chunks[p] = h
    <3>1. unloading[p] = NoHolder
      BY Zenon, <2>3, <2>4, <2>5 DEF Mapped
    <3>2. QED
      BY Zenon, <1>2, <1>3, <2>3, <2>5, <3>1
  <2>6. CASE unloading[p] = h
    <3>1. chunks[p] = NoHolder
      BY Zenon, <2>3, <2>4, <2>6 DEF Mapped
    <3>2. QED
      BY Zenon, <1>2, <1>3, <2>3, <2>6, <3>1
  <2>7. QED
    BY Zenon, <2>2, <2>5, <2>6
<1>7. QED
  BY Zenon, <1>1, <1>4, <1>5, <1>6 DEF Due

\* save_all_chunks keeps the invariant and saves everything when no save fails.
LEMMA SaveAllKeeps ==
  ASSUME LifecycleInv, NEW failing \in SUBSET Positions, SaveAll(failing)
  PROVE  LifecycleInv'
<1>1. /\ phase \in {"Idle", "Ready"} /\ \A h \in Holders : Unshared(h)
      /\ phase' = IF failing = {} THEN "Stopped" ELSE "StoppedUnsaved"
      /\ UNCHANGED <<ticket, changes, staged, visiting, dropped, finalized>>
      /\ UNCHANGED <<chunks, unloading, deferred, handles, releases, ticks, entities>>
  BY Zenon DEF SaveAll, epoch, maps, world
<1>2. TypeOK /\ MapsInv /\ EpochInv /\ ContentInv /\ StorageInv /\ HandoverInOrder
  BY Zenon DEF LifecycleInv
<1>3. dropped = {} /\ visiting = {} /\ phase' \in StoppedPhases
  BY Zenon, <1>1, <1>2 DEF EpochInv, StoppedPhases
<1>4. ASSUME NEW h \in Holders
      PROVE  /\ holder'[h].pos = holder[h].pos /\ holder'[h].life = holder[h].life
             /\ holder'[h].allowed = holder[h].allowed /\ holder'[h].status = holder[h].status
             /\ holder'[h].version = holder[h].version /\ holder'[h].producer = holder[h].producer
             /\ holder'[h].saver = holder[h].saver
             /\ holder'[h].dirty <=> holder[h].dirty /\ ~(NeedsSave(h) /\ holder[h].pos \notin failing)
             /\ holder[h] = FreeHolder => holder'[h] = FreeHolder
  <2>1. /\ holder'[h] = [holder[h] EXCEPT !.dirty = @ /\ ~(NeedsSave(h) /\ holder[h].pos \notin failing)]
        /\ holder[h] \in HolderType
    BY Zenon, SaveAllEffect
  <2> DEFINE b == holder[h].dirty /\ ~(NeedsSave(h) /\ holder[h].pos \notin failing)
  <2>2. b \in BOOLEAN /\ (b => holder[h].dirty) /\ holder'[h] = [holder[h] EXCEPT !.dirty = b]
    BY Zenon, <2>1
  <2> HIDE DEF b
  <2>3. holder[h] = FreeHolder => holder'[h] = FreeHolder
    <3>1. ASSUME NEW r \in HolderType, ~r.dirty PROVE [r EXCEPT !.dirty = FALSE] = r
      BY Zenon, <3>1 DEF HolderType
    <3>2. ~FreeHolder.dirty
      BY Zenon DEF FreeHolder
    <3>3. QED
      BY Zenon, <2>2, <3>1, <3>2, FreeHolderType
  <2>4. /\ holder'[h].pos = holder[h].pos /\ holder'[h].life = holder[h].life
        /\ holder'[h].allowed = holder[h].allowed /\ holder'[h].status = holder[h].status
        /\ holder'[h].version = holder[h].version /\ holder'[h].producer = holder[h].producer
        /\ holder'[h].saver = holder[h].saver /\ holder'[h].dirty = b
    BY Zenon, <2>1, <2>2 DEF HolderType
  <2>5. QED
    BY Zenon, <2>3, <2>4 DEF b
<1>5. TypeOK'
  <2>1. holder' \in [Holders -> HolderType]
    <3>1. holder' = [k \in Holders |-> holder'[k]]
      BY Zenon DEF SaveAll
    <3>2. QED
      BY Zenon, <3>1, SaveAllEffect
  <2>2. disk' \in [Positions -> Payloads]
    <3>1. ASSUME NEW h \in Holders PROVE Payload(h) \in Payloads
      <4>1. holder[h] \in HolderType
        BY Zenon, <1>2 DEF TypeOK
      <4>2. QED
        BY Zenon, <4>1 DEF Payload, Payloads, HolderType
    <3>2. disk \in [Positions -> Payloads]
      BY Zenon, <1>2 DEF TypeOK
    <3>3. QED
      BY Zenon, <3>1, <3>2 DEF SaveAll
  <2>3. phase' \in {"Idle", "Running", "Unloading", "Ready", "Committing"} \cup StoppedPhases
    BY Zenon, <1>3
  <2>4. QED
    BY Zenon, <1>1, <1>2, <2>1, <2>2, <2>3 DEF TypeOK
<1>6. MapsInv'
  <2>1. ASSUME NEW p \in Positions PROVE Mapped(p)'
    <3>1. Mapped(p) /\ chunks[p] \in Holders \cup {NoHolder} /\ unloading[p] \in Holders \cup {NoHolder}
      BY Zenon, <1>2 DEF MapsInv, TypeOK
    <3>2. QED
      BY Zenon, <1>1, <1>4, <3>1 DEF Mapped
  <2>2. ASSUME NEW h \in Holders PROVE Placed(h)'
    <3>1. Placed(h)
      BY Zenon, <1>2 DEF MapsInv
    <3>2. QED
      BY Zenon, <1>1, <1>4, <3>1 DEF Placed
  <2>3. ASSUME NEW h \in finalized PROVE Left(h)' /\ h \in Holders
    <3>1. Left(h) /\ h \in Holders
      BY Zenon, <1>2 DEF MapsInv, TypeOK
    <3>2. QED
      BY Zenon, <1>1, <1>4, <3>1 DEF Left, Unshared
  <2>4. LeftApart'
    BY Zenon, <1>1, <1>3 DEF LeftApart
  <2>5. \A h \in (dropped \cup finalized)' : Left(h)'
    BY Zenon, <1>1, <1>3, <2>3
  <2>6. QED
    BY Zenon, <2>1, <2>2, <2>4, <2>5 DEF MapsInv
<1>7. EpochInv'
  <2>1. \A h \in Holders : Unshared(h)'
    BY Zenon, <1>1, <1>4 DEF Unshared
  <2>2. phase' \notin {"Idle", "Running", "Committing"}
    BY Zenon, <1>3 DEF StoppedPhases
  <2>3. QED
    BY Zenon, <1>1, <1>2, <1>3, <2>1, <2>2 DEF EpochInv
<1>8. ASSUME NEW h \in Holders \ finalized, NEW p \in Positions, holder[h].pos = p
      PROVE  HolderInv(holder'[h], disk'[p])
  <2>1. /\ HolderInv(holder[h], disk[p]) /\ Unshared(h) /\ holder[h] \in HolderType
        /\ disk'[p] = IF NeedsSave(h) /\ p \notin failing THEN Payload(h) ELSE disk[p]
    BY ZenonT(40), <1>1, <1>2, <1>8, SaveAllEffect DEF ContentInv
  <2>2. CASE NeedsSave(h) /\ p \notin failing
    BY <1>4, <1>8, <2>1, <2>2 DEF HolderInv, Unshared, NeedsSave, Payload, Blank, Loading, Stepping,
       Saveable, Unpublished, Empty, Saved
  <2>3. CASE ~(NeedsSave(h) /\ p \notin failing)
    BY Zenon, <1>4, <1>8, <2>1, <2>3 DEF HolderInv, Unshared, Blank, Loading, Stepping
  <2>4. QED
    BY Zenon, <2>2, <2>3
<1>9. ContentInv'
  <2>1. \A p \in Positions : disk'[p] = NoPayload \/ Saveable(disk'[p].status)
    <3>1. \A h \in Holders : NeedsSave(h) => Saveable(Payload(h).status)
      BY Zenon DEF NeedsSave, Payload
    <3>2. \A p \in Positions : \/ disk'[p] = disk[p]
                               \/ \E h \in Holders : NeedsSave(h) /\ disk'[p] = Payload(h)
      BY Zenon DEF SaveAll
    <3>3. QED
      BY Zenon, <1>2, <3>1, <3>2 DEF ContentInv
  <2>2. QED
    BY Zenon, <1>1, <1>4, <1>8, <2>1 DEF ContentInv
<1>10. \A p : Retained(p)' = Retained(p)
  BY Zenon, <1>1, <1>4 DEF Retained
<1>11. \A h \in Holders : OwnsHandle(h)' <=> OwnsHandle(h)
  BY Zenon, <1>4 DEF OwnsHandle
<1>12. \A p : Retained(p) \subseteq Holders
  BY Zenon DEF Retained
<1>13. StorageInv'
  <2>1. ASSUME NEW p \in Positions
        PROVE  (\E h \in Retained(p) : OwnsHandle(h))' <=> (\E h \in Retained(p) : OwnsHandle(h))
    BY Zenon, <1>10, <1>11, <1>12
  <2>2. QED
    BY Zenon, <1>1, <1>2, <2>1 DEF StorageInv
<1>14. HandoverInOrder'
  <2>1. \A p \in Positions : (\E h \in Retained(p)' : holder'[h].status = Full)
                               <=> (\E h \in Retained(p) : holder[h].status = Full)
    BY Zenon, <1>4, <1>10, <1>12
  <2>2. \A h \in finalized : h \in Holders
    BY Zenon, <1>2 DEF TypeOK
  <2>3. \A p \in Positions : chunks[p] # NoHolder => chunks[p] \in Holders
    BY Zenon, <1>2 DEF TypeOK
  <2>4. QED
    BY Zenon, <1>1, <1>2, <1>4, <2>1, <2>2, <2>3 DEF HandoverInOrder
<1>15. ShutdownSaves'
  <2>1. SUFFICES ASSUME phase' = "Stopped", NEW h \in Holders \ finalized, Saveable(holder'[h].status)
                 PROVE  disk'[holder'[h].pos].version = holder'[h].version
    BY Zenon, <1>1 DEF ShutdownSaves
  <2>2. failing = {}
    BY Zenon, <1>1, <2>1
  <2>3. holder'[h].pos \in Positions
    <3>1. holder'[h] \in HolderType /\ Placed(h)'
      BY Zenon, <1>6, SaveAllEffect DEF MapsInv
    <3>2. holder'[h] # FreeHolder
      BY <2>1 DEF FreeHolder, Saveable, Unpublished, Saved
    <3>3. QED
      BY Zenon, <3>1, <3>2 DEF Placed, HolderType
  <2>4. PICK p \in Positions : holder'[h].pos = p /\ holder[h].pos = p
    BY Zenon, <1>4, <2>3
  <2>5. HolderInv(holder'[h], disk'[p])
    BY Zenon, <1>8, <2>4
  <2>6. ~holder'[h].dirty
    BY Zenon, <1>4, <2>1, <2>2 DEF NeedsSave
  <2>7. holder'[h].saver = "None" /\ holder'[h].producer = "None"
    BY Zenon, <1>1, <1>4 DEF Unshared
  <2>8. QED
    BY Zenon, <2>1, <2>4, <2>5, <2>6, <2>7 DEF HolderInv
<1>16. QED
  BY Zenon, <1>5, <1>6, <1>7, <1>9, <1>13, <1>14, <1>15 DEF LifecycleInv

----------------------------------------------------------------------------
\* The invariant and what it implies.

\* The map is empty at first.
LEMMA InitialInv == Init => LifecycleInv
<1>1. SUFFICES ASSUME Init PROVE LifecycleInv
  BY Zenon
<1>2. NoPayload \in Payloads
  BY BoundAssumption DEF NoPayload, Payloads, Statuses, Unpublished, Full
<1>3. TypeOK
  <2>1. changes \in [{} -> BOOLEAN]
    BY Zenon, <1>1 DEF Init, NoChanges
  <2>2. changes \in UNION {[T -> BOOLEAN] : T \in SUBSET Positions}
    BY Zenon, <2>1
  <2>3. holder \in [Holders -> HolderType]
    BY Zenon, <1>1, FreeHolderType DEF Init
  <2>4. QED
    BY Zenon, <1>1, <1>2, <2>2, <2>3 DEF Init, TypeOK
<1>4. MapsInv
  <2>1. \A h \in Holders : Placed(h)
    BY Zenon, <1>1, HolderAssumption DEF Init, Placed, FreeHolder, Guarded
  <2>2. QED
    BY Zenon, <1>1, <2>1 DEF Init, MapsInv, Mapped, LeftApart
<1>5. EpochInv
  BY Zenon, <1>1 DEF Init, EpochInv, NoChanges, StoppedPhases
<1>6. \A h \in Holders : holder[h].pos \notin Positions
  BY Zenon, <1>1, HolderAssumption DEF Init, FreeHolder
<1>7. ContentInv
  BY Zenon, <1>1, <1>6 DEF Init, ContentInv
<1>8. \A p \in Positions : Retained(p) = {}
  BY Zenon, <1>6 DEF Retained
<1>9. StorageInv
  BY <1>1, <1>8 DEF Init, StorageInv
<1>10. HandoverInOrder
  BY Zenon, <1>1, <1>8 DEF Init, HandoverInOrder
<1>11. ShutdownSaves
  BY Zenon, <1>1 DEF Init, ShutdownSaves
<1>12. QED
  BY Zenon, <1>3, <1>4, <1>5, <1>7, <1>9, <1>10, <1>11 DEF LifecycleInv

\* Every step keeps the invariant.
LEMMA StepInv == LifecycleInv /\ [Next]_vars => LifecycleInv'
<1>1. SUFFICES ASSUME LifecycleInv, [Next]_vars PROVE LifecycleInv'
  BY Zenon
<1>2. CASE Worker
  <2>1. CASE \E p \in Positions : SaveUnloading(p) \/ DropUnloading(p)
    BY Zenon, <1>1, <2>1, SaveUnloadingKeeps, DropUnloadingKeeps
  <2>2. CASE \E h \in Holders : FinalizeDropped(h)
    BY Zenon, <1>1, <2>2, FinalizeDroppedKeeps
  <2>3. QED
    BY Zenon, <1>1, <1>2, <2>1, <2>2, EpochKeeps DEF Worker
<1>3. CASE Boundary
  BY ZenonT(40), <1>1, <1>3, EpochKeeps, CommitStartKeeps, DemoteKeeps, IgnoreDeferKeeps, KeepKeeps,
     ReviveKeeps, CreateKeeps DEF Boundary
<1>4. CASE \E h \in Holders : Producer(h) \/ Saver(h) \/ StartEmpty(h) \/ StartStep(h)
  BY Zenon, <1>1, <1>4, TasksKeep
<1>5. CASE \E p \in Positions : GameplayWrite(p) \/ Release(p)
  BY Zenon, <1>1, <1>5, GameplayWriteKeeps, ReleaseKeeps
<1>6. CASE \E failing \in SUBSET Positions : SaveAll(failing)
  BY Zenon, <1>1, <1>6, SaveAllKeeps
<1>7. CASE UNCHANGED vars
  <2>1. /\ UNCHANGED <<holder, chunks, unloading, dropped, finalized, storage, world>>
        /\ UNCHANGED <<phase, ticket, changes, staged, visiting, deferred>>
        /\ UNCHANGED <<disk, handles, releases, ticks, entities>>
    BY Zenon, <1>7 DEF vars, epoch, maps, storage, world
  <2>2. MapsInv' /\ ContentInv' /\ StorageInv' /\ HandoverInOrder'
    BY Zenon, <1>1, <2>1, StillHolders
  <2>3. TypeOK' /\ EpochInv' /\ ShutdownSaves'
    BY Zenon, <1>1, <2>1 DEF LifecycleInv, TypeOK, EpochInv, ShutdownSaves, Unshared
  <2>4. QED
    BY Zenon, <2>2, <2>3 DEF LifecycleInv
<1>8. QED
  BY Zenon, <1>1, <1>2, <1>3, <1>4, <1>5, <1>6, <1>7 DEF Next, Stopped

\* The inductive invariant holds in every reachable state of the chunk lifecycle.
THEOREM LifecycleInvariant == Spec => []LifecycleInv
  BY InitialInv, StepInv, PTL DEF Spec

\* The holders of a position are none or one.
LEMMA RetainedOne ==
  ASSUME LifecycleInv, NEW p \in Positions
  PROVE  Retained(p) = {} \/ \E h \in Holders \ finalized : Retained(p) = {h}
<1>1. ASSUME NEW h \in Retained(p) PROVE h \in Holders \ finalized /\ Retained(p) = {h}
  BY Zenon, OneRetained DEF Retained
<1>2. QED
  BY Zenon, <1>1

\* A position has at most one holder, in the map its life cycle says, and a level exactly when it
\* has an active holder or a deferred revival (update_chunk_level, process_unloads, save_chunk),
\* for any number of positions and holders.
THEOREM LifecycleOneOwner == Spec => []OneOwner
<1>1. ASSUME LifecycleInv PROVE OneOwner
  <2>1. TypeOK /\ MapsInv /\ EpochInv
    BY Zenon, <1>1 DEF LifecycleInv
  <2>2. ASSUME NEW p \in Positions PROVE Cardinality(Retained(p)) <= 1
    <3>1. CASE Retained(p) = {}
      BY <3>1, FS_EmptySet
    <3>2. CASE \E h \in Holders \ finalized : Retained(p) = {h}
      BY <3>2, FS_Singleton
    <3>3. QED
      BY Zenon, <1>1, <3>1, <3>2, RetainedOne
  <2>3. \A p \in Positions : /\ chunks[p] # NoHolder => holder[chunks[p]].life = "Active"
                             /\ unloading[p] # NoHolder => holder[unloading[p]].life # "Active"
    BY Zenon, <2>1 DEF MapsInv, Mapped
  <2>4. \A h \in Holders : holder[h].life = "Preparing" <=>
                             holder[h].saver \in {"Claimed", "Reading", "Taken", "Forced"}
    BY Zenon, <2>1 DEF MapsInv, Placed, Guarded
  <2>5. \A p \in Positions \ DOMAIN changes : p \in ticket <=> chunks[p] # NoHolder \/ p \in deferred
    BY Zenon, <2>1 DEF EpochInv
  <2>6. QED
    BY Zenon, <2>1, <2>2, <2>3, <2>4, <2>5 DEF OneOwner
<1>2. QED
  BY <1>1, LifecycleInvariant, PTL

\* save_all_chunks leaves nothing unsaved when no save fails: whatever raced before it, the
\* content of every holder of both maps is then on disk.
THEOREM LifecycleShutdownSaves == Spec => []ShutdownSaves
<1>1. LifecycleInv => ShutdownSaves
  BY Zenon DEF LifecycleInv
<1>2. QED
  BY <1>1, LifecycleInvariant, PTL

\* Tick containers, block entities and entity visibility follow the holders through demotion,
\* revival, unload and replacement (finalize_chunk_unload, finish_block_entity_unloads).
THEOREM LifecycleHandover == Spec => []HandoverInOrder
<1>1. LifecycleInv => HandoverInOrder
  BY Zenon DEF LifecycleInv
<1>2. QED
  BY <1>1, LifecycleInvariant, PTL

\* Every acquired storage handle has exactly one owner: a holder with data, a load in progress or
\* a release task (acquire_chunk, release_chunk).
THEOREM LifecycleHandles == Spec => []HandlesBalance
<1>1. ASSUME LifecycleInv PROVE HandlesBalance
  <2> DEFINE With(p) == {h \in Retained(p) : holder[h].status >= Empty}
             Busy(p) == {h \in Retained(p) : holder[h].producer \in
                           {"Existing", "Missing", "Reading", "Loaded", "Storing", "Creating"}}
  <2>1. SUFFICES ASSUME NEW p \in Positions
                 PROVE  handles[p] = Cardinality(With(p)) + Cardinality(Busy(p)) + releases[p]
    BY Zenon DEF HandlesBalance
  <2>2. /\ handles[p] = (IF \E h \in Retained(p) : OwnsHandle(h) THEN 1 ELSE 0) + releases[p]
        /\ handles[p] \in Nat /\ releases[p] \in Nat
    BY Zenon, <1>1 DEF LifecycleInv, StorageInv, TypeOK
  <2>3. Cardinality({}) = 0 /\ \A h : Cardinality({h}) = 1
    BY Zenon, FS_EmptySet, FS_Singleton
  <2>4. CASE Retained(p) = {}
    <3>1. With(p) = {} /\ Busy(p) = {} /\ ~\E h \in Retained(p) : OwnsHandle(h)
      BY Zenon, <2>4
    <3>2. Cardinality(With(p)) = 0 /\ Cardinality(Busy(p)) = 0 /\ handles[p] = 0 + releases[p]
      BY Zenon, <2>2, <2>3, <3>1
    <3> HIDE DEF With, Busy
    <3>3. QED
      BY <2>2, <3>2
  <2>5. ASSUME NEW h \in Holders \ finalized, Retained(p) = {h}
        PROVE  handles[p] = Cardinality(With(p)) + Cardinality(Busy(p)) + releases[p]
    <3>1. (\E k \in Retained(p) : OwnsHandle(k)) <=> OwnsHandle(h)
      BY Zenon, <2>5
    <3>2. With(p) = (IF holder[h].status >= Empty THEN {h} ELSE {})
      BY Zenon, <2>5
    <3>3. Busy(p) = (IF holder[h].producer \in Loading THEN {h} ELSE {})
      BY Zenon, <2>5 DEF Loading
    <3>4. ~(holder[h].status >= Empty /\ holder[h].producer \in Loading)
      <4>1. holder[h].pos = p
        BY Zenon, <2>5 DEF Retained
      <4>2. HolderInv(holder[h], disk[p])
        BY Zenon, <1>1, <4>1 DEF LifecycleInv, ContentInv
      <4>3. QED
        BY <4>2 DEF HolderInv, Unpublished, Empty
    <3> HIDE DEF With, Busy
    <3>5. CASE holder[h].status >= Empty
      <4>1. /\ Cardinality(With(p)) = 1 /\ Cardinality(Busy(p)) = 0
            /\ handles[p] = 1 + releases[p]
        BY ZenonT(40), <2>2, <2>3, <3>1, <3>2, <3>3, <3>4, <3>5 DEF OwnsHandle
      <4>2. QED
        BY <2>2, <4>1
    <3>6. CASE holder[h].producer \in Loading
      <4>1. /\ Cardinality(With(p)) = 0 /\ Cardinality(Busy(p)) = 1
            /\ handles[p] = 1 + releases[p]
        BY ZenonT(40), <2>2, <2>3, <3>1, <3>2, <3>3, <3>4, <3>6 DEF OwnsHandle
      <4>2. QED
        BY <2>2, <4>1
    <3>7. CASE ~(holder[h].status >= Empty) /\ holder[h].producer \notin Loading
      BY <2>2, <2>3, <3>1, <3>2, <3>3, <3>7 DEF OwnsHandle
    <3>8. QED
      BY Zenon, <3>5, <3>6, <3>7
  <2>6. QED
    BY Zenon, <1>1, <2>4, <2>5, RetainedOne
<1>2. QED
  BY <1>1, LifecycleInvariant, PTL

----------------------------------------------------------------------------
\* The chunk lifecycle implements DurableChunks.

\* The holders whose data is the content of a position.
Live(p) == {h \in Retained(p) : Saveable(holder[h].status)}

\* What the refinement mapping makes of a position.
LiveView(p) ==
  /\ p \in Resident <=> Live(p) # {}
  /\ \A h \in Live(p) : Content[p] = holder[h].version
  /\ Live(p) = {} => Content[p] = disk[p].version

\* The live holder of a position is unique, so the mapping says its version.
LEMMA LiveContent == LifecycleInv => \A p \in Positions : LiveView(p)
<1>1. SUFFICES ASSUME LifecycleInv, NEW p \in Positions PROVE LiveView(p)
  BY Zenon
<1>2. p \in Resident <=> Live(p) # {}
  BY Zenon DEF Resident, Live
<1>3. ASSUME NEW h \in Live(p) PROVE Owner(p) = h
  <2>1. h \in Retained(p) /\ Saveable(holder[h].status)
    BY Zenon DEF Live
  <2>2. Retained(p) = {h}
    BY Zenon, <1>1, <2>1, RetainedOne
  <2>3. Owner(p) \in Retained(p)
    BY Zenon, <2>1 DEF Owner
  <2>4. QED
    BY Zenon, <2>2, <2>3
<1>4. Content[p] = IF p \in Resident THEN holder[Owner(p)].version ELSE disk[p].version
  BY Zenon DEF Content
<1>5. QED
  BY Zenon, <1>2, <1>3, <1>4 DEF LiveView

\* The same after a step.
LEMMA LiveContentNext == LifecycleInv' => \A p \in Positions : LiveView(p)'
<1>1. LifecycleInv' => (\A p \in Positions : LiveView(p))'
  BY LiveContent, PTL
<1>2. QED
  BY Zenon, <1>1

\* The state of position p that the mapping sees stays.
Steady(p) ==
  /\ Live(p)' = Live(p)
  /\ \A h \in Live(p) : holder'[h].version = holder[h].version
  /\ Live(p) = {} => disk'[p].version = disk[p].version

\* Then its content and residency stay.
LEMMA SteadyContent ==
  ASSUME LifecycleInv, LifecycleInv', NEW p \in Positions, Steady(p)
  PROVE  Content'[p] = Content[p] /\ (p \in Resident' <=> p \in Resident)
<1>1. LiveView(p) /\ LiveView(p)'
  BY Zenon, LiveContent, LiveContentNext
<1>2. QED
  BY Zenon, <1>1 DEF Steady, LiveView

\* A step that every position sleeps through is a stutter of the durable map.
LEMMA AllSteady ==
  ASSUME LifecycleInv, LifecycleInv', \A p \in Positions : Steady(p)
  PROVE  UNCHANGED <<Content, Resident>>
<1>1. \A p \in Positions : Content'[p] = Content[p] /\ (p \in Resident' <=> p \in Resident)
  BY Zenon, SteadyContent
<1>2. Resident' = Resident
  <2>1. Resident \subseteq Positions /\ Resident' \subseteq Positions
    BY Zenon DEF Resident
  <2>2. QED
    BY Zenon, <1>1, <2>1
<1>3. Content' = Content
  <2>1. Content = [p \in Positions |-> Content[p]] /\ Content' = [p \in Positions |-> Content'[p]]
    BY Zenon DEF Content
  <2> HIDE DEF Content
  <2>2. QED
    BY Zenon, <1>1, <2>1
<1>4. QED
  BY Zenon, <1>2, <1>3

\* A step that one position p takes is a step of the durable map if it is one of p.
LEMMA OneTakes ==
  ASSUME LifecycleInv, LifecycleInv', NEW p \in Positions,
         \A q \in Positions \ {p} : Steady(q),
         \/ p \notin Resident /\ p \in Resident' /\ Content'[p] = Content[p]
         \/ p \notin Resident /\ p \in Resident' /\ Content[p] = 0 /\ Content'[p] = 1
         \/ p \in Resident /\ p \in Resident' /\ Content'[p] = Content[p] + 1
         \/ p \in Resident /\ p \notin Resident' /\ Content'[p] = Content[p]
         \/ p \notin Resident /\ p \notin Resident' /\ Content'[p] = 0
         \/ (p \in Resident' <=> p \in Resident) /\ Content'[p] = Content[p]
  PROVE  Durable!Next \/ UNCHANGED <<Content, Resident>>
<1>1. \A q \in Positions \ {p} : Content'[q] = Content[q] /\ (q \in Resident' <=> q \in Resident)
  BY Zenon, SteadyContent
<1>2. Resident \subseteq Positions /\ Resident' \subseteq Positions
  BY Zenon DEF Resident
<1>3. /\ p \in Resident' => Resident' = Resident \cup {p}
      /\ p \notin Resident' => Resident' = Resident \ {p}
      /\ (p \in Resident' <=> p \in Resident) => Resident' = Resident
  BY <1>1, <1>2
<1>4. Content = [q \in Positions |-> Content[q]] /\ Content' = [q \in Positions |-> Content'[q]]
  BY Zenon DEF Content
<1>5. /\ Content' = [Content EXCEPT ![p] = Content'[p]]
      /\ Content'[p] = Content[p] => Content' = Content
  <2>1. \A c, d : /\ c = [q \in Positions |-> c[q]] /\ d = [q \in Positions |-> d[q]]
                  /\ \A q \in Positions \ {p} : d[q] = c[q]
                  => /\ d = [c EXCEPT ![p] = d[p]]
                     /\ d[p] = c[p] => d = c
    BY Zenon
  <2>2. QED
    BY Zenon, <1>1, <1>4, <2>1
<1>6. \/ Durable!Load(p) \/ Durable!Generate(p) \/ Durable!Write(p) \/ Durable!Evict(p)
      \/ Durable!Discard(p) \/ UNCHANGED <<Content, Resident>>
  BY Zenon, <1>3, <1>5 DEF Durable!Load, Durable!Generate, Durable!Write, Durable!Evict,
     Durable!Discard
<1>7. QED
  BY Zenon, <1>6 DEF Durable!Next

\* Holders that keep position, status and version while the disk keeps its payloads.
Calm ==
  /\ UNCHANGED <<disk, finalized>>
  /\ \A k \in Holders : /\ holder'[k].pos = holder[k].pos /\ holder'[k].status = holder[k].status
                        /\ holder'[k].version = holder[k].version

\* Every position sleeps through such a step.
LEMMA CalmSteady ==
  ASSUME Calm, NEW p PROVE Steady(p)
<1>1. Live(p)' = Live(p)
  BY Zenon DEF Calm, Live, Retained
<1>2. Live(p) \subseteq Holders
  BY Zenon DEF Live, Retained
<1>3. QED
  BY Zenon, <1>1, <1>2 DEF Calm, Steady

\* The worker and the boundary only move holders, but for FinalizeDropped, CommitStart and Create.
LEMMA MapsCalm ==
  ASSUME LifecycleInv,
         \/ \E wanted, touched \in SUBSET Positions : PrepareEpoch(wanted, touched)
         \/ \E p \in Positions : KeepUnloading(p) \/ SaveUnloading(p) \/ DropUnloading(p)
         \/ FinishEpoch \/ StartEpoch \/ CommitEnd
         \/ \E p \in Positions : Demote(p) \/ Ignore(p) \/ Keep(p) \/ Revive(p) \/ Defer(p)
         \/ \E p \in Positions : Release(p)
         \/ UNCHANGED vars
  PROVE  Calm
<1>1. holder \in [Holders -> HolderType]
  BY Zenon DEF LifecycleInv, TypeOK
<1>2. UNCHANGED <<disk, finalized>>
  BY Zenon DEF PrepareEpoch, KeepUnloading, SaveUnloading, DropUnloading, FinishEpoch, StartEpoch,
     CommitEnd, Demote, Ignore, Keep, Revive, Defer, Release, RaiseLevel, vars, epoch, storage
<1>3. CASE UNCHANGED holder
  BY Zenon, <1>2, <1>3 DEF Calm
<1>4. CASE \E p \in Positions : SaveUnloading(p)
  BY <1>1, <1>2, <1>4 DEF SaveUnloading, Calm, HolderType
<1>5. CASE \E p \in Positions : Demote(p)
  BY SMTT(40), <1>1, <1>2, <1>5 DEF Demote, Calm, HolderType
<1>6. CASE \E p \in Positions : Keep(p)
  BY SMTT(40), <1>1, <1>2, <1>6 DEF Keep, RaiseLevel, Calm, HolderType
<1>7. CASE \E p \in Positions : Revive(p)
  BY <1>1, <1>2, <1>7 DEF Revive, RaiseLevel, Calm, HolderType
<1>8. QED
  BY ZenonT(40), <1>3, <1>4, <1>5, <1>6, <1>7 DEF PrepareEpoch, KeepUnloading, DropUnloading,
     FinishEpoch,
     StartEpoch, CommitEnd, Ignore, Defer, Release, vars

\* So do producers and save tasks, but for the steps that publish, generate or write to disk.
LEMMA TasksCalm ==
  ASSUME LifecycleInv, NEW h \in Holders,
         \/ Acquire(h) \/ AcquireFails(h) \/ CancelLoad(h) \/ ContinueLoad(h) \/ Load(h)
         \/ LoadFails(h) \/ NotifyEntities(h) \/ FinishStep(h) \/ StartEmpty(h) \/ StartStep(h)
         \/ BeginSave(h) \/ ReadStatus(h) \/ TakeDirty(h) \/ Capture(h) \/ CaptureFails(h)
         \/ WriteFails(h)
  PROVE  Calm
<1>1. holder \in [Holders -> HolderType]
  BY Zenon DEF LifecycleInv, TypeOK
<1>2. UNCHANGED <<disk, finalized>>
  BY Zenon DEF Acquire, AcquireFails, CancelLoad, ContinueLoad, Load, LoadFails, NotifyEntities,
     FinishStep, StartEmpty, StartStep, BeginSave, ReadStatus, TakeDirty, Capture, CaptureFails,
     WriteFails, ProducerStep, SaverStep, ReleaseOwn, epoch, storage
<1>3. CASE AcquireFails(h) \/ ContinueLoad(h) \/ StartEmpty(h) \/ StartStep(h)
  <2>1. PICK to : holder' = [holder EXCEPT ![h].producer = to]
    BY Zenon, <1>3 DEF AcquireFails, ContinueLoad, StartEmpty, StartStep, ProducerStep
  <2>2. QED
    BY ZenonT(40), <1>1, <1>2, <2>1 DEF Calm, HolderType
<1>4. CASE CancelLoad(h) \/ LoadFails(h)
  <2>1. holder' = [holder EXCEPT ![h].producer = "None", ![h].loaded = NoPayload]
    BY Zenon, <1>4 DEF CancelLoad, LoadFails, ReleaseOwn
  <2>2. QED
    BY <1>1, <1>2, <2>1 DEF Calm, HolderType
<1>5. CASE Acquire(h)
  BY Zenon, <1>1, <1>2, <1>5 DEF Acquire, Calm, HolderType
<1>6. CASE Load(h)
  BY Zenon, <1>1, <1>2, <1>6 DEF Load, Calm, HolderType
<1>7. CASE NotifyEntities(h) \/ FinishStep(h)
  BY <1>1, <1>2, <1>7 DEF NotifyEntities, FinishStep, Calm, HolderType
<1>8. CASE BeginSave(h)
  <2>1. PICK to, life : holder' = [holder EXCEPT ![h].saver = to, ![h].life = life]
    BY Zenon, <1>8 DEF BeginSave, SaverStep
  <2>2. QED
    BY <1>1, <1>2, <2>1 DEF Calm, HolderType
<1>9. CASE ReadStatus(h)
  BY ZenonT(40), <1>1, <1>2, <1>9 DEF ReadStatus, Calm, HolderType
<1>10. CASE TakeDirty(h)
  BY <1>1, <1>2, <1>10 DEF TakeDirty, Calm, HolderType
<1>11. CASE Capture(h)
  BY <1>1, <1>2, <1>11 DEF Capture, Calm, HolderType
<1>12. CASE CaptureFails(h) \/ WriteFails(h)
  BY <1>1, <1>2, <1>12 DEF CaptureFails, WriteFails, Calm, HolderType
<1>13. QED
  BY ZenonT(40), <1>3, <1>4, <1>5, <1>6, <1>7, <1>8, <1>9, <1>10, <1>11, <1>12

\* What the mapping makes of a step of holder h alone, at its position p.
LEMMA OnePosition ==
  ASSUME LifecycleInv, LifecycleInv', NEW p \in Positions, NEW h \in Holders \ finalized,
         finalized' = finalized, holder[h].pos = p, holder'[h].pos = p,
         \A k \in Holders \ {h} : holder'[k] = holder[k],
         \A q \in Positions \ {p} : disk'[q] = disk[q]
  PROVE  /\ \A q \in Positions \ {p} : Steady(q)
         /\ p \in Resident <=> Saveable(holder[h].status)
         /\ p \in Resident' <=> Saveable(holder'[h].status)
         /\ Content[p] = IF Saveable(holder[h].status) THEN holder[h].version ELSE disk[p].version
         /\ Content'[p] = IF Saveable(holder'[h].status) THEN holder'[h].version ELSE disk'[p].version
<1>1. ASSUME NEW q \in Positions \ {p} PROVE Steady(q)
  <2>1. Live(q)' = Live(q) /\ \A k \in Live(q) : k \in Holders \ {h}
    BY ZenonT(40) DEF Live, Retained
  <2>2. QED
    BY Zenon, <2>1 DEF Steady
<1>2. \A k \in Holders \ finalized : holder[k].pos = p => k = h
  BY Zenon, OneRetained
<1>3. Live(p) = (IF Saveable(holder[h].status) THEN {h} ELSE {})
  BY Zenon, <1>2 DEF Live, Retained
<1>4. Live(p)' = (IF Saveable(holder'[h].status) THEN {h} ELSE {})
  BY Zenon, <1>2 DEF Live, Retained
<1>5. LiveView(p) /\ LiveView(p)'
  BY Zenon, LiveContent, LiveContentNext
<1>6. /\ p \in Resident <=> Saveable(holder[h].status)
      /\ p \in Resident' <=> Saveable(holder'[h].status)
  BY Zenon, <1>3, <1>4, <1>5 DEF LiveView
<1>7. Content[p] = IF Saveable(holder[h].status) THEN holder[h].version ELSE disk[p].version
  <2>1. Saveable(holder[h].status) => Content[p] = holder[h].version
    BY Zenon, <1>3, <1>5 DEF LiveView
  <2>2. ~Saveable(holder[h].status) => Content[p] = disk[p].version
    BY Zenon, <1>3, <1>5 DEF LiveView
  <2>3. QED
    BY Zenon, <2>1, <2>2
<1>8. Content'[p] = IF Saveable(holder'[h].status) THEN holder'[h].version ELSE disk'[p].version
  <2>1. Saveable(holder'[h].status) => Content'[p] = holder'[h].version
    BY Zenon, <1>4, <1>5 DEF LiveView
  <2>2. ~Saveable(holder'[h].status) => Content'[p] = disk'[p].version
    BY Zenon, <1>4, <1>5 DEF LiveView
  <2>3. QED
    BY Zenon, <2>1, <2>2
<1>9. QED
  BY ZenonT(40), <1>1, <1>6, <1>7, <1>8

\* The producer steps that change what the mapping sees: a stored chunk is loaded, the first
\* persistent step generates, later steps write; an Empty chunk has no content.
LEMMA ProducerDurable ==
  ASSUME LifecycleInv, LifecycleInv', NEW h \in Holders,
         Store(h) \/ CreateEmpty(h) \/ RunStep(h) \/ PublishStep(h)
  PROVE  Durable!Next \/ UNCHANGED <<Content, Resident>>
<1>1. holder[h].producer # "None"
  BY Zenon DEF Store, CreateEmpty, RunStep, PublishStep
<1>2. PICK p \in Positions : holder[h].pos = p
  BY Zenon, <1>1, InUse
<1>3. HolderInv(holder[h], disk[p]) /\ h \in Holders \ finalized
  BY ZenonT(40), <1>1, <1>2, InUse
<1>4. holder \in [Holders -> HolderType] /\ holder[h] \in HolderType /\ disk[p] \in Payloads
  BY Zenon DEF LifecycleInv, TypeOK
<1>5. finalized' = finalized /\ disk' = disk
  BY Zenon DEF Store, CreateEmpty, RunStep, PublishStep, epoch, storage
<1>6. /\ \A k \in Holders \ {h} : holder'[k] = holder[k]
      /\ holder'[h].pos = p
      /\ \/ /\ Saveable(disk[p].status) /\ holder[h].status = Unpublished
            /\ holder'[h].status = disk[p].status /\ holder'[h].version = disk[p].version
         \/ /\ holder[h].status = Unpublished /\ holder'[h].status = Empty
         \/ /\ holder'[h].status = holder[h].status /\ holder'[h].version = holder[h].version + 1
         \/ /\ holder[h].status = Empty /\ disk[p] = NoPayload /\ holder[h].version = 1
            /\ holder'[h].status = Saved /\ holder'[h].version = holder[h].version
         \/ /\ holder[h].status = Saved /\ holder'[h].status = Full
            /\ holder'[h].version = holder[h].version
  <2>1. CASE Store(h)
    <3>1. holder[h].status = Unpublished /\ holder[h].loaded = disk[p] /\ Saveable(disk[p].status)
      BY Zenon, <1>3, <2>1 DEF Store, HolderInv, Loading
    <3>2. QED
      BY ZenonT(40), <1>2, <1>4, <2>1, <3>1 DEF Store, HolderType
  <2>2. CASE CreateEmpty(h)
    <3>1. holder[h].status = Unpublished
      BY Zenon, <1>3, <2>2 DEF CreateEmpty, HolderInv, Loading
    <3>2. QED
      BY Zenon, <1>2, <1>4, <2>2, <3>1 DEF CreateEmpty, HolderType
  <2>3. CASE RunStep(h)
    BY Zenon, <1>2, <1>4, <2>3 DEF RunStep, HolderType
  <2>4. CASE PublishStep(h)
    <3>1. \/ holder[h].status = Empty /\ disk[p] = NoPayload /\ holder[h].version = 1
          \/ holder[h].status = Saved
      BY Zenon, <1>3, <2>4 DEF PublishStep, HolderInv, Stepping
    <3>2. /\ \A k \in Holders \ {h} : holder'[k] = holder[k]
          /\ holder'[h].pos = p /\ holder'[h].status = holder[h].status + 1
          /\ holder'[h].version = holder[h].version
      BY Zenon, <1>2, <1>4, <2>4 DEF PublishStep, HolderType
    <3>3. Empty + 1 = Saved /\ Saved + 1 = Full
      BY DEF Empty, Saved, Full
    <3>4. QED
      BY Zenon, <3>1, <3>2, <3>3
  <2>5. QED
    BY ZenonT(40), <2>1, <2>2, <2>3, <2>4
<1>7. /\ \A q \in Positions \ {p} : Steady(q)
      /\ p \in Resident <=> Saveable(holder[h].status)
      /\ p \in Resident' <=> Saveable(holder'[h].status)
      /\ Content[p] = IF Saveable(holder[h].status) THEN holder[h].version ELSE disk[p].version
      /\ Content'[p] = IF Saveable(holder'[h].status) THEN holder'[h].version ELSE disk'[p].version
  BY ZenonT(40), <1>2, <1>3, <1>5, <1>6, OnePosition
<1>8. ~Saveable(Unpublished) /\ ~Saveable(Empty) /\ Saveable(Saved) /\ Saveable(Full)
  BY DEF Saveable, Unpublished, Empty, Saved, Full
<1>9. NoPayload.version = 0
  BY Zenon DEF NoPayload
<1>10. \/ p \notin Resident /\ p \in Resident' /\ Content'[p] = Content[p]
       \/ p \notin Resident /\ p \in Resident' /\ Content[p] = 0 /\ Content'[p] = 1
       \/ p \in Resident /\ p \in Resident' /\ Content'[p] = Content[p] + 1
       \/ (p \in Resident' <=> p \in Resident) /\ Content'[p] = Content[p]
  BY ZenonT(40), <1>5, <1>6, <1>7, <1>8, <1>9
<1>11. QED
  BY ZenonT(40), <1>7, <1>10, OneTakes

\* Gameplay writes a resident position, and a save of a live holder changes the disk only.
LEMMA WritesDurable ==
  ASSUME LifecycleInv, LifecycleInv',
         \/ \E p \in Positions : GameplayWrite(p)
         \/ \E h \in Holders : WriteSave(h)
  PROVE  Durable!Next \/ UNCHANGED <<Content, Resident>>
<1>1. TypeOK /\ MapsInv
  BY Zenon DEF LifecycleInv
<1>2. ASSUME NEW p \in Positions, GameplayWrite(p)
      PROVE  Durable!Next \/ UNCHANGED <<Content, Resident>>
  <2>1. PICK h \in Holders : chunks[p] = h
    BY Zenon, <1>1, <1>2 DEF GameplayWrite, TypeOK
  <2>2. /\ holder[h].status = Full /\ UNCHANGED <<finalized, disk>>
        /\ holder' = [holder EXCEPT ![h].version = @ + 1, ![h].dirty = TRUE]
    BY Zenon, <1>2, <2>1 DEF GameplayWrite, epoch, storage
  <2>3. holder[h].pos = p /\ h # NoHolder
    BY Zenon, <1>1, <2>1, HolderAssumption DEF MapsInv, Mapped
  <2>4. h \notin finalized
    BY Zenon, <1>1, <2>1, <2>3 DEF MapsInv, Left
  <2>5. /\ \A k \in Holders \ {h} : holder'[k] = holder[k]
        /\ holder'[h].pos = p /\ holder'[h].status = Full
        /\ holder'[h].version = holder[h].version + 1
    BY <1>1, <2>2, <2>3 DEF TypeOK, HolderType
  <2>6. /\ \A q \in Positions \ {p} : Steady(q)
        /\ p \in Resident <=> Saveable(holder[h].status)
        /\ p \in Resident' <=> Saveable(holder'[h].status)
        /\ Content[p] = IF Saveable(holder[h].status) THEN holder[h].version ELSE disk[p].version
        /\ Content'[p] = IF Saveable(holder'[h].status) THEN holder'[h].version ELSE disk'[p].version
    BY ZenonT(40), <2>2, <2>3, <2>4, <2>5, OnePosition
  <2>7. Saveable(holder[h].status) /\ Saveable(holder'[h].status)
    BY <2>2, <2>5 DEF Saveable, Saved, Full
  <2>8. p \in Resident /\ p \in Resident' /\ Content'[p] = Content[p] + 1
    BY Zenon, <2>5, <2>6, <2>7
  <2>9. QED
    BY Zenon, <2>6, <2>8, OneTakes
<1>3. ASSUME NEW h \in Holders, WriteSave(h)
      PROVE  Durable!Next \/ UNCHANGED <<Content, Resident>>
  <2>1. /\ holder[h].saver = "Writing" /\ finalized' = finalized
        /\ disk' = [disk EXCEPT ![holder[h].pos] = holder[h].save]
        /\ holder' = [holder EXCEPT ![h].saver = "None", ![h].save = NoPayload]
    BY Zenon, <1>3 DEF WriteSave, epoch
  <2>2. holder[h].saver # "None"
    BY Zenon, <2>1
  <2>3. PICK p \in Positions : holder[h].pos = p
    BY Zenon, <2>2, InUse
  <2>4. HolderInv(holder[h], disk[p]) /\ h \notin finalized
    BY Zenon, <2>2, <2>3, InUse
  <2>5. Saveable(holder[h].status)
    <3>1. holder[h].status # Unpublished /\ holder[h].status # Empty
      BY Zenon, <2>1, <2>4 DEF HolderInv
    <3>2. holder[h].status \in Statuses
      BY Zenon, <1>1 DEF TypeOK, HolderType
    <3>3. QED
      BY <3>1, <3>2 DEF Statuses, Saveable, Unpublished, Empty, Saved, Full
  <2>6. /\ \A k \in Holders \ {h} : holder'[k] = holder[k]
        /\ holder'[h].pos = p /\ holder'[h].status = holder[h].status
        /\ holder'[h].version = holder[h].version
    BY <1>1, <2>1, <2>3 DEF TypeOK, HolderType
  <2>7. \A q \in Positions \ {p} : disk'[q] = disk[q]
    BY Zenon, <1>1, <2>1, <2>3 DEF TypeOK
  <2>8. /\ \A q \in Positions \ {p} : Steady(q)
        /\ p \in Resident <=> Saveable(holder[h].status)
        /\ p \in Resident' <=> Saveable(holder'[h].status)
        /\ Content[p] = IF Saveable(holder[h].status) THEN holder[h].version ELSE disk[p].version
        /\ Content'[p] = IF Saveable(holder'[h].status) THEN holder'[h].version ELSE disk'[p].version
    BY ZenonT(40), <2>1, <2>3, <2>4, <2>6, <2>7, OnePosition
  <2>9. QED
    BY Zenon, <2>5, <2>6, <2>8, OneTakes
<1>4. QED
  BY Zenon, <1>2, <1>3

\* A corrupt payload is discarded while its position has no content in memory.
LEMMA DiscardDurable ==
  ASSUME LifecycleInv, LifecycleInv', NEW h \in Holders, LoadCorrupt(h)
  PROVE  Durable!Next \/ UNCHANGED <<Content, Resident>>
<1>1. /\ holder[h].producer = "Reading" /\ finalized' = finalized
      /\ disk' = [disk EXCEPT ![holder[h].pos] = NoPayload]
      /\ holder' = [holder EXCEPT ![h].producer = "Missing"]
  BY Zenon DEF LoadCorrupt, epoch
<1>2. holder[h].producer # "None" /\ TypeOK
  BY Zenon, <1>1 DEF LifecycleInv
<1>3. PICK p \in Positions : holder[h].pos = p
  BY Zenon, <1>2, InUse
<1>4. HolderInv(holder[h], disk[p]) /\ h \notin finalized
  BY Zenon, <1>2, <1>3, InUse
<1>5. holder[h].status = Unpublished
  BY Zenon, <1>1, <1>4 DEF HolderInv, Loading
<1>6. /\ \A k \in Holders \ {h} : holder'[k] = holder[k]
      /\ holder'[h].pos = p /\ holder'[h].status = Unpublished
      /\ holder'[h].version = holder[h].version
  BY <1>1, <1>2, <1>3, <1>5 DEF TypeOK, HolderType
<1>7. disk'[p].version = 0 /\ \A q \in Positions \ {p} : disk'[q] = disk[q]
  BY Zenon, <1>1, <1>2, <1>3 DEF TypeOK, NoPayload
<1>8. /\ \A q \in Positions \ {p} : Steady(q)
      /\ p \in Resident <=> Saveable(holder[h].status)
      /\ p \in Resident' <=> Saveable(holder'[h].status)
      /\ Content'[p] = IF Saveable(holder'[h].status) THEN holder'[h].version ELSE disk'[p].version
  BY ZenonT(40), <1>1, <1>3, <1>4, <1>6, <1>7, OnePosition
<1>9. ~Saveable(Unpublished)
  BY DEF Saveable, Unpublished, Saved
<1>10. QED
  BY Zenon, <1>5, <1>6, <1>7, <1>8, <1>9, OneTakes

\* Finalizing a dropped holder evicts its content, which is on disk: the holder is clean and no
\* task works for it.
LEMMA FinalizeDurable ==
  ASSUME LifecycleInv, LifecycleInv', NEW h \in Holders, FinalizeDropped(h)
  PROVE  Durable!Next \/ UNCHANGED <<Content, Resident>>
<1>1. TypeOK /\ MapsInv /\ ContentInv
  BY Zenon DEF LifecycleInv
<1>2. /\ h \in dropped /\ finalized' = finalized \cup {h} /\ UNCHANGED <<disk, holder>>
  BY Zenon DEF FinalizeDropped
<1>3. Left(h) /\ ~NeedsSave(h) /\ h \notin finalized
  BY Zenon, <1>1, <1>2 DEF MapsInv, LeftApart
<1>4. PICK p \in Positions : holder[h].pos = p
  BY Zenon, <1>3 DEF Left
<1>5. ASSUME NEW q \in Positions \ {p} PROVE Steady(q)
  <2>1. Live(q)' = Live(q)
    BY Zenon, <1>2, <1>4 DEF Live, Retained
  <2>2. QED
    BY Zenon, <1>2, <2>1 DEF Steady
<1>6. \A k \in Holders \ finalized : holder[k].pos = p => k = h
  BY Zenon, <1>3, <1>4, OneRetained
<1>7. Live(p)' = {} /\ Live(p) = (IF Saveable(holder[h].status) THEN {h} ELSE {})
  BY Zenon, <1>2, <1>3, <1>4, <1>6 DEF Live, Retained
<1>8. LiveView(p) /\ LiveView(p)'
  BY Zenon, LiveContent, LiveContentNext
<1>9. Saveable(holder[h].status) => holder[h].version = disk[p].version
  <2>1. HolderInv(holder[h], disk[p])
    BY Zenon, <1>1, <1>3, <1>4 DEF ContentInv
  <2>2. QED
    BY Zenon, <1>3, <2>1 DEF HolderInv, NeedsSave, Left, Unshared
<1>10. p \notin Resident' /\ Content'[p] = Content[p]
  <2>1. p \notin Resident' /\ Content'[p] = disk[p].version
    BY Zenon, <1>2, <1>7, <1>8 DEF LiveView
  <2>2. Content[p] = disk[p].version
    BY Zenon, <1>7, <1>8, <1>9 DEF LiveView
  <2>3. QED
    BY Zenon, <2>1, <2>2
<1>11. QED
  BY Zenon, <1>5, <1>10, OneTakes

\* A commit that frees finalized holders or creates a holder changes no content.
LEMMA CommitSteady ==
  ASSUME LifecycleInv, NEW p \in Positions,
         CommitStart \/ \E q \in Positions, h \in Holders : Create(q, h)
  PROVE  Steady(p)
<1>1. TypeOK /\ finalized \subseteq Holders
  BY Zenon DEF LifecycleInv, TypeOK
<1>2. CASE CommitStart
  <2>1. /\ holder' = [h \in Holders |-> IF h \in finalized THEN FreeHolder ELSE holder[h]]
        /\ finalized' = {} /\ disk' = disk
    BY Zenon, <1>2 DEF CommitStart, storage
  <2>2. FreeHolder.pos # p
    BY Zenon, HolderAssumption DEF FreeHolder
  <2>3. /\ \A h \in finalized : holder'[h].pos # p
        /\ \A h \in Holders \ finalized : holder'[h] = holder[h]
    BY Zenon, <1>1, <2>1, <2>2
  <2>4. Live(p)' = Live(p) /\ \A h \in Live(p) : h \in Holders \ finalized
    BY Zenon, <2>1, <2>3 DEF Live, Retained
  <2>5. QED
    BY Zenon, <2>1, <2>3, <2>4 DEF Steady
<1>3. ASSUME NEW q \in Positions, NEW h \in Holders, Create(q, h)
      PROVE  Steady(p)
  <2>1. /\ holder[h].pos = NoPos /\ UNCHANGED <<finalized, disk>>
        /\ holder' = [holder EXCEPT ![h] = [FreeHolder EXCEPT !.pos = q, !.allowed = TRUE]]
    BY Zenon, <1>3 DEF Create, storage
  <2>2. /\ \A k \in Holders \ {h} : holder'[k] = holder[k]
        /\ ~Saveable(holder'[h].status)
    BY <1>1, <2>1 DEF TypeOK, FreeHolder, Saveable, Unpublished, Saved
  <2>3. holder[h].pos # p
    BY Zenon, <2>1, HolderAssumption
  <2>4. Live(p)' = Live(p) /\ \A k \in Live(p) : k \in Holders \ {h}
    BY Zenon, <2>1, <2>2, <2>3 DEF Live, Retained
  <2>5. QED
    BY Zenon, <2>1, <2>2, <2>4 DEF Steady
<1>4. QED
  BY Zenon, <1>2, <1>3

\* save_all_chunks changes the disk of positions that have a live holder only.
LEMMA SaveAllSteady ==
  ASSUME LifecycleInv, NEW p \in Positions, NEW failing \in SUBSET Positions, SaveAll(failing)
  PROVE  Steady(p)
<1>1. TypeOK /\ MapsInv
  BY Zenon DEF LifecycleInv
<1>2. ASSUME NEW h \in Holders
      PROVE  /\ holder'[h].pos = holder[h].pos /\ holder'[h].status = holder[h].status
             /\ holder'[h].version = holder[h].version
  <2>1. PICK b : holder'[h] = [holder[h] EXCEPT !.dirty = b]
    BY Zenon, SaveAllEffect
  <2>2. QED
    BY <1>1, <2>1 DEF TypeOK, HolderType
<1>3. finalized' = finalized
  BY Zenon DEF SaveAll, epoch
<1>4. Live(p)' = Live(p) /\ Live(p) \subseteq Holders
  BY Zenon, <1>2, <1>3 DEF Live, Retained
<1>5. ASSUME Live(p) = {} PROVE disk'[p] = disk[p]
  <2>1. ASSUME NEW h \in Holders, h = chunks[p] \/ h = unloading[p] PROVE ~NeedsSave(h)
    <3>1. Mapped(p) /\ h # NoHolder /\ \A k \in finalized : Left(k)
      BY ZenonT(40), <1>1, HolderAssumption DEF MapsInv
    <3>2. holder[h].pos = p
      BY <2>1, <3>1 DEF Mapped
    <3>3. h \notin finalized
      BY <2>1, <3>1, <3>2 DEF Left
    <3>4. QED
      BY Zenon, <1>5, <3>2, <3>3 DEF Live, Retained, NeedsSave
  <2>2. \A h : h \in {k \in Holders : NeedsSave(k) /\ holder[k].pos \notin failing} =>
                 h # chunks[p] /\ h # unloading[p]
    BY Zenon, <2>1
  <2>3. QED
    BY Zenon, <2>2 DEF SaveAll
<1>6. QED
  BY Zenon, <1>2, <1>4, <1>5 DEF Steady

\* The chunk map is a durable map for any number of positions and holders: however loads, saves,
\* failures, unloads and revivals race, content is only ever written while it is resident, and
\* loading, saving, evicting and reviving never change it.  Only what is stored of a position that
\* is not resident, and cannot be decoded, is lost.
THEOREM LifecycleDurable == Spec => ContentIsDurable
<1>1. Init => Durable!Init
  <2>1. SUFFICES ASSUME Init PROVE Durable!Init
    OBVIOUS
  <2>2. \A p \in Positions : LiveView(p)
    BY Zenon, <2>1, InitialInv, LiveContent
  <2>3. ASSUME NEW p \in Positions PROVE Live(p) = {}
    BY Zenon, <2>1, HolderAssumption DEF Init, Live, Retained, FreeHolder
  <2>4. \A p \in Positions : disk[p].version = 0
    BY Zenon, <2>1 DEF Init, NoPayload
  <2>5. \A p \in Positions : p \notin Resident /\ Content[p] = 0
    BY Zenon, <2>2, <2>3, <2>4 DEF LiveView
  <2>6. Resident = {}
    BY Zenon, <2>5 DEF Resident
  <2>7. Content = [p \in Positions |-> Content[p]]
    BY Zenon DEF Content
  <2>8. Content = [p \in Positions |-> 0]
    BY Zenon, <2>5, <2>7
  <2>9. QED
    BY Zenon, <2>6, <2>8 DEF Durable!Init
<1>2. LifecycleInv /\ LifecycleInv' /\ [Next]_vars => [Durable!Next]_(<<Content, Resident>>)
  <2>1. SUFFICES ASSUME LifecycleInv, LifecycleInv', [Next]_vars
                 PROVE  Durable!Next \/ UNCHANGED <<Content, Resident>>
    BY Zenon
  <2>2. CASE Calm
    BY ZenonT(40), <2>1, <2>2, CalmSteady, AllSteady
  <2>3. CASE \/ Worker \/ Boundary \/ UNCHANGED vars
             \/ \E p \in Positions : Release(p)
    <3>1. CASE \E h \in Holders : FinalizeDropped(h)
      BY Zenon, <2>1, <3>1, FinalizeDurable
    <3>2. CASE CommitStart \/ \E p \in Positions, h \in Holders : Create(p, h)
      BY ZenonT(40), <2>1, <3>2, CommitSteady, AllSteady
    <3>3. QED
      BY ZenonT(40), <2>1, <2>2, <2>3, <3>1, <3>2, MapsCalm DEF Worker, Boundary
  <2>4. CASE \E h \in Holders : Producer(h) \/ Saver(h) \/ StartEmpty(h) \/ StartStep(h)
    <3>1. PICK h \in Holders : Producer(h) \/ Saver(h) \/ StartEmpty(h) \/ StartStep(h)
      BY Zenon, <2>4
    <3>2. CASE Store(h) \/ CreateEmpty(h) \/ RunStep(h) \/ PublishStep(h)
      BY Zenon, <2>1, <3>2, ProducerDurable
    <3>3. CASE WriteSave(h)
      BY Zenon, <2>1, <3>3, WritesDurable
    <3>4. CASE LoadCorrupt(h)
      BY Zenon, <2>1, <3>4, DiscardDurable
    <3>5. QED
      BY ZenonT(40), <2>1, <2>2, <3>1, <3>2, <3>3, <3>4, TasksCalm DEF Producer, Saver
  <2>5. CASE \E p \in Positions : GameplayWrite(p)
    BY Zenon, <2>1, <2>5, WritesDurable
  <2>6. CASE \E failing \in SUBSET Positions : SaveAll(failing)
    BY Zenon, <2>1, <2>6, SaveAllSteady, AllSteady
  <2>7. QED
    BY ZenonT(40), <2>1, <2>3, <2>4, <2>5, <2>6 DEF Next, Stopped
<1>3. QED
  BY <1>1, <1>2, LifecycleInvariant, PTL DEF Spec, ContentIsDurable, Durable!Spec
=============================================================================
