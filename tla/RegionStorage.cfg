SPECIFICATION StorageSpec
CONSTANTS
  c1 = c1
  c2 = c2
  Chunks <- MCChunks
  First = 3
  MaxSectors = 9
  MaxSize = 2
  MaxVersion = 4
  MaxFaults = 2
SYMMETRY Symmetry
INVARIANTS
  RegionOpens
  ReadsLastSave
  HeldIsOpen
