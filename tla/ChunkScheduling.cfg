CONSTANTS
  a = a
  b = b
  full = full
  Positions = {a, b}
  Tickets = {full}
  Levels = {0, 1}
  NoLevel = NoLevel
  Propagate <- MCPropagate
  MaxOperations = 4
  MaxBatch = 2
SPECIFICATION FairSpec
INVARIANTS TypeOK EpochExclusive CommittedIsVisible
PROPERTIES CommitOnly EveryRevisionCommits
