--------------------------- MODULE RegionStorage ---------------------------
(***************************************************************************)
(* One region file (steel-core/src/chunk_saver/region_manager.rs): chunk   *)
(* payloads in sectors, a table of entries of which the open handle keeps  *)
(* a copy that is ahead of the one on disk, and a count of the chunks in   *)
(* use that decides when the table is written and the file closed.         *)
(*                                                                         *)
(* Every operation holds the write lock of the region map, so that each is *)
(* one action; a load gives it up to decode, so that it is two.  Payloads  *)
(* are abstracted to the save that wrote them, sectors to the payload they *)
(* hold.  A creation of the file that fails or is cut by a crash may leave *)
(* a file too short to be opened.  A failed data write leaves its sectors  *)
(* unreadable; a failed or interrupted table write leaves the old table    *)
(* (the 8 KB write is taken to be atomic).  A crash forgets the open       *)
(* handle.  Callers save a chunk and load it one after the other, which    *)
(* ChunkLifecycle establishes (OneOwner).                                  *)
(***************************************************************************)
EXTENDS Naturals, FiniteSets, FiniteSetsExt

CONSTANTS
  Chunks,       \* the chunks of the region
  First,        \* FIRST_DATA_SECTOR
  MaxSectors,   \* bound: sectors of the file
  MaxSize,      \* bound: sectors of a payload
  MaxVersion,   \* bound: saves
  MaxFaults     \* bound: failed writes and crashes

ASSUME StorageBounds ==
  /\ {MaxSectors, MaxSize, MaxVersion, MaxFaults} \subseteq Nat
  /\ First \in 1..MaxSectors
  /\ IsFiniteSet(Chunks)

Sectors == First..(MaxSectors - 1)

\* Payloads are numbered by save; 0 is "no payload", Garbage an unreadable sector.
Versions == 0..MaxVersion
Garbage == MaxVersion + 1

\* A ChunkEntry; offset 0 means that the chunk does not exist.
Entries == [offset : {0} \cup Sectors, size : 0..MaxSize]
NoEntry == [offset |-> 0, size |-> 0]

\* No file, a file short of its header or of its table, or a complete one.
FileStates == {"absent", "short", "complete"}

VARIABLES
  created,   \* the file, one of FileStates
  data,      \* payload each sector of the file holds
  length,    \* length of a complete file in sectors
  table,     \* chunk table of a complete file
  open,      \* the region has an open handle
  header,    \* RegionHandle.header
  headerDirty, \* RegionHandle.header_dirty
  count,     \* RegionHandle.loaded_chunk_count
  sectors,   \* RegionHandle.file_sectors
  held,      \* chunks acquired and not released
  loading,   \* entry and payload of a load that is being decoded
  saved,     \* history: the last save of each chunk that returned Ok
  settled,   \* history: chunks no failed save and no lost table has put in doubt since
  synced,    \* history: chunks not saved since the table was last written
  version,   \* saves so far
  faults     \* faults so far

file == <<created, data, length, table>>
handle == <<open, header, headerDirty, count, sectors>>
storageHistory == <<saved, settled, synced, version, faults>>
storageVars == <<file, handle, held, loading, storageHistory>>

----------------------------------------------------------------------------
Exists(e) == e.offset # 0
End(e) == e.offset + e.size
Span(e) == e.offset..(End(e) - 1)

\* What reading an entry yields: the payload, if one save wrote all of its sectors.
ReadEntry(e) ==
  IF ~Exists(e) THEN 0
  ELSE IF \E v \in Versions : \A s \in Span(e) : data[s] = v THEN data[e.offset] ELSE Garbage

Live(h) == {h[c] : c \in {c \in Chunks : Exists(h[c])}}

\* current_sector once the ranges of S are behind it.
Reached(S) == Max({First} \cup {End(e) : e \in S})

Before(h, e) == {d \in Live(h) : d.offset < e.offset}

\* Mutant: the last used sector of a range counts as free.
FindFreeSectorsOffByOne(h, needed, fileSectors) ==
  LET gaps == {Reached(Before(h, e)) :
                 e \in {e \in Live(h) : e.offset + 1 >= Reached(Before(h, e)) + needed}}
  IN  IF gaps # {} THEN Min(gaps) ELSE Max({Reached(Live(h)), fileSectors})

\* find_free_sectors: the first gap between used ranges that is wide enough, or the file's end.
FindFreeSectors(h, needed, fileSectors) ==
  LET gaps == {Reached(Before(h, e)) :
                 e \in {e \in Live(h) : e.offset >= Reached(Before(h, e)) + needed}}
  IN  IF gaps # {} THEN Min(gaps) ELSE Max({Reached(Live(h)), fileSectors})

\* validate_region_entries: entries lie in the file's data sectors and do not overlap.
Valid(h, fileSectors) ==
  /\ \A e \in Live(h) : e.offset >= First /\ e.size # 0 /\ End(e) <= fileSectors
  /\ \A c, d \in Chunks :
       c # d /\ Exists(h[c]) /\ Exists(h[d]) => Span(h[c]) \cap Span(h[d]) = {}

NoTable == [c \in Chunks |-> NoEntry]
NoLoad == [active |-> FALSE, entry |-> NoEntry, payload |-> 0]

\* No file yet; length and table are those that create_region will give it.
StorageInit ==
  /\ created = "absent"
  /\ data = [s \in Sectors |-> Garbage]
  /\ length = First
  /\ table = NoTable
  /\ open = FALSE
  /\ header = NoTable
  /\ headerDirty = FALSE
  /\ count = 0
  /\ sectors = 0
  /\ held = {}
  /\ loading = [c \in Chunks |-> NoLoad]
  /\ saved = [c \in Chunks |-> 0]
  /\ settled = Chunks
  /\ synced = Chunks
  /\ version = 0
  /\ faults = 0

----------------------------------------------------------------------------
\* The handle a request works on: the open one, or the one open_region makes of the file or of
\* the one it creates.
Handle ==
  IF open
  THEN [header |-> header, headerDirty |-> headerDirty, count |-> count, sectors |-> sectors]
  ELSE [header |-> table, headerDirty |-> FALSE, count |-> 0, sectors |-> length]

\* open_region for a request that finds no handle: an absent file is created, and a file short of
\* its header or table fails read_exact.
OpenRegion ==
  /\ created # "short"
  /\ open \/ Valid(table, length)
  /\ created' = "complete"

Keep(h) ==
  /\ open' = TRUE
  /\ header' = h.header
  /\ headerDirty' = h.headerDirty
  /\ count' = h.count
  /\ sectors' = h.sectors

Close ==
  /\ open' = FALSE
  /\ header' = NoTable
  /\ headerDirty' = FALSE
  /\ count' = 0
  /\ sectors' = 0

\* write_header succeeds.
WriteHeader(h) ==
  /\ table' = h
  /\ synced' = Chunks

Fault == faults < MaxFaults /\ faults' = faults + 1

\* The handle is gone before its table was written: what it alone knew is lost.
Forget ==
  /\ settled' = settled \cap synced
  /\ synced' = Chunks

----------------------------------------------------------------------------
\* create_region fails, or the server dies in it: before the file exists, after it exists and
\* before its table is written, or after that.
CreateFails ==
  /\ created = "absent"
  /\ Fault
  /\ created' \in FileStates
  /\ UNCHANGED <<data, length, table, handle, held, loading, saved, settled, synced, version>>

\* open_region refuses a short file, now and ever after: acquire_chunk and save_chunk_data return
\* its error.
OpenFails ==
  /\ created = "short"
  /\ UNCHANGED storageVars

\* acquire_chunk.
Acquire(c) ==
  /\ c \notin held
  /\ OpenRegion
  /\ held' = held \cup {c}
  /\ Keep([Handle EXCEPT !.count = @ + 1])
  /\ UNCHANGED <<data, length, table, loading, storageHistory>>

\* Mutant: a dirty table is not written.
ReleaseUnwritten(c) ==
  /\ c \in held
  /\ ~loading[c].active
  /\ held' = held \ {c}
  /\ IF count > 1
     THEN Keep([Handle EXCEPT !.count = @ - 1]) /\ UNCHANGED <<table, synced>>
     ELSE Close /\ UNCHANGED <<table, synced>>
  /\ UNCHANGED <<created, data, length, loading, saved, settled, version, faults>>

\* release_chunk: the last one writes a dirty table and closes the file.
Release(c) ==
  /\ c \in held
  /\ ~loading[c].active
  /\ held' = held \ {c}
  /\ IF count > 1
     THEN Keep([Handle EXCEPT !.count = @ - 1]) /\ UNCHANGED <<table, synced>>
     ELSE /\ Close
          /\ IF headerDirty THEN WriteHeader(header) ELSE UNCHANGED <<table, synced>>
  /\ UNCHANGED <<created, data, length, loading, saved, settled, version, faults>>

\* release_chunk cannot write the table: the handle has been removed already.
ReleaseFails(c) ==
  /\ c \in held
  /\ ~loading[c].active
  /\ count = 1 /\ headerDirty
  /\ Fault
  /\ held' = held \ {c}
  /\ Close
  /\ Forget
  /\ UNCHANGED <<file, loading, saved, version>>

\* Where save_chunk_data puts a payload of n sectors: over the old one if it fits.
Place(c, n) ==
  IF Exists(Handle.header[c]) /\ Handle.header[c].size >= n THEN Handle.header[c].offset
  ELSE FindFreeSectors(Handle.header, n, Handle.sectors)

\* write_chunk_data of version v at an offset.
WriteData(offset, n, v) ==
  /\ data' = [s \in Sectors |-> IF s \in offset..(offset + n - 1) THEN v ELSE data[s]]
  /\ length' = IF offset + n > length THEN offset + n ELSE length

\* The handle after a payload of n sectors is written at an offset.
Written(c, offset, n) ==
  [Handle EXCEPT !.header[c] = [offset |-> offset, size |-> n],
                 !.sectors = IF offset + n > @ THEN offset + n ELSE @]

\* save_chunk_data gets its handle.
CanSave(c, n) ==
  /\ OpenRegion
  /\ ~loading[c].active
  /\ version < MaxVersion
  /\ Place(c, n) + n <= MaxSectors

\* Mutant: the region is closed after every save.
SaveCloses(c, n) ==
  LET h == Written(c, Place(c, n), n) IN
  /\ CanSave(c, n)
  /\ WriteData(Place(c, n), n, version + 1)
  /\ Close
  /\ WriteHeader(h.header)
  /\ version' = version + 1
  /\ saved' = [saved EXCEPT ![c] = version + 1]
  /\ settled' = settled \cup {c}
  /\ UNCHANGED <<held, loading, faults>>

\* save_chunk_data: a region that nobody uses is opened, written and closed again.
SaveChunkData(c, n) ==
  LET h == Written(c, Place(c, n), n) IN
  /\ CanSave(c, n)
  /\ WriteData(Place(c, n), n, version + 1)
  /\ IF ~open THEN Close /\ WriteHeader(h.header)
     ELSE Keep([h EXCEPT !.headerDirty = TRUE]) /\ synced' = synced \ {c} /\ UNCHANGED table
  /\ version' = version + 1
  /\ saved' = [saved EXCEPT ![c] = version + 1]
  /\ settled' = settled \cup {c}
  /\ UNCHANGED <<held, loading, faults>>

\* The payload cannot be written: the table keeps the old entry and an opened region stays open.
SaveFails(c, n) ==
  /\ CanSave(c, n)
  /\ Fault
  /\ WriteData(Place(c, n), n, Garbage)
  /\ Keep(Handle)
  /\ settled' = settled \ {c}
  /\ UNCHANGED <<table, held, loading, saved, synced, version>>

\* The payload is written but the table of a region opened for it is not: the region stays open
\* with the new entry, not marked dirty.
SaveHeaderFails(c, n) ==
  /\ CanSave(c, n)
  /\ ~open
  /\ Fault
  /\ WriteData(Place(c, n), n, version + 1)
  /\ Keep(Written(c, Place(c, n), n))
  /\ version' = version + 1
  /\ settled' = settled \ {c}
  /\ UNCHANGED <<table, held, loading, saved, synced>>

----------------------------------------------------------------------------
\* load_chunk reads the entry's sectors under the lock.
ReadChunk(c) ==
  /\ c \in held /\ open
  /\ ~loading[c].active
  /\ Exists(header[c])
  /\ loading' = [loading EXCEPT ![c] = [active |-> TRUE, entry |-> header[c],
                                        payload |-> ReadEntry(header[c])]]
  /\ UNCHANGED <<file, handle, held, storageHistory>>

\* load_chunk decodes the payload.
Decoded(c) ==
  /\ loading[c].active
  /\ loading[c].payload # Garbage
  /\ loading' = [loading EXCEPT ![c] = NoLoad]
  /\ UNCHANGED <<file, handle, held, storageHistory>>

\* load_chunk cannot decode it: clear_corrupt_chunk_if_unchanged empties the slot and writes the
\* whole table, or leaves everything as it was.
DiscardCorrupt(c) ==
  /\ loading[c].active
  /\ loading[c].payload = Garbage
  /\ loading' = [loading EXCEPT ![c] = NoLoad]
  /\ \/ /\ header[c] = loading[c].entry
        /\ header' = [header EXCEPT ![c] = NoEntry]
        /\ WriteHeader(header')
        /\ headerDirty' = FALSE
        /\ saved' = [saved EXCEPT ![c] = 0]
        /\ settled' = settled \cup {c}
        /\ UNCHANGED <<created, data, length, open, count, sectors, held, version, faults>>
     \/ /\ Fault
        /\ UNCHANGED <<file, handle, held, saved, settled, synced, version>>

----------------------------------------------------------------------------
\* close_all at the end of a shutdown; the server starts again with nothing acquired.
CloseAll ==
  /\ open
  /\ \A c \in Chunks : ~loading[c].active
  /\ held' = {}
  /\ Close
  /\ IF headerDirty THEN WriteHeader(header) ELSE UNCHANGED <<table, synced>>
  /\ UNCHANGED <<created, data, length, loading, saved, settled, version, faults>>

\* The server dies and starts again.
Crash ==
  /\ open
  /\ Fault
  /\ held' = {}
  /\ loading' = [c \in Chunks |-> NoLoad]
  /\ Close
  /\ Forget
  /\ UNCHANGED <<file, saved, version>>

StorageNext ==
  \/ CreateFails \/ OpenFails
  \/ \E c \in Chunks : Acquire(c) \/ Release(c) \/ ReleaseFails(c)
  \/ \E c \in Chunks, n \in 1..MaxSize :
        SaveChunkData(c, n) \/ SaveFails(c, n) \/ SaveHeaderFails(c, n)
  \/ \E c \in Chunks : ReadChunk(c) \/ Decoded(c) \/ DiscardCorrupt(c)
  \/ CloseAll
  \/ Crash

StorageSpec == StorageInit /\ [][StorageNext]_storageVars

----------------------------------------------------------------------------
\* Types of the file, of the open handle and of loads.
StorageTypes ==
  /\ created \in FileStates
  /\ data \in [Sectors -> Versions \cup {Garbage}]
  /\ length \in First..MaxSectors
  /\ {table, header} \subseteq [Chunks -> Entries]
  /\ {open, headerDirty} \subseteq BOOLEAN
  /\ count \in 0..Cardinality(Chunks)
  /\ sectors \in 0..MaxSectors
  /\ held \subseteq Chunks
  /\ loading \in [Chunks -> [active : BOOLEAN, entry : Entries,
                             payload : Versions \cup {Garbage}]]
  /\ saved \in [Chunks -> Versions]
  /\ settled \subseteq Chunks
  /\ synced \subseteq Chunks
  /\ version \in Versions
  /\ faults \in 0..MaxFaults

\* A region whose file was once created completely can always be opened again, whatever writes
\* failed and whenever the server died after that: its table on disk passes
\* validate_region_entries.  A region that cannot, because create_region was cut and left a short
\* file that open_region refuses, never had a chunk acquired or saved in it.
RegionOpens ==
  IF created = "complete"
  THEN Valid(table, length) /\ (open => Valid(header, sectors))
  ELSE ~open /\ held = {} /\ \A c \in Chunks : saved[c] = 0

\* Every chunk reads back as its last successful save wrote it, through the open table or, when
\* the region is closed, through the one on disk, unless a later save of it failed or the table
\* that named it was lost: no save moves or overwrites another chunk's sectors
\* (save_chunk_data, find_free_sectors).  A chunk that was not saved since the table was last
\* written also survives a crash at any moment: saves of other chunks never reuse the sectors
\* the table on disk gives it.
ReadsLastSave ==
  /\ \A c \in settled : ReadEntry(IF open THEN header[c] ELSE table[c]) = saved[c]
  /\ \A c \in settled \cap synced : ReadEntry(table[c]) = saved[c]

\* The count is the number of chunks in use and a region in use is open, so that load_chunk finds
\* the region its caller acquired and nobody closes it under another chunk.
HeldIsOpen ==
  /\ StorageTypes
  /\ IF open THEN count = Cardinality(held) ELSE held = {}
=============================================================================
