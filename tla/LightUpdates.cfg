SPECIFICATION FairSpec
CONSTANTS
  p1 = p1
  p2 = p2
  Positions <- MCPositions
  World = World
  Worker = Worker
  Lighter = Lighter
  Nobody = Nobody
  NoPos = NoPos
  MaxChanges = 2
INVARIANTS
  OwedIsTracked
  LightIsSaved
PROPERTY
  DropIsFlushed
  FlushEnds
