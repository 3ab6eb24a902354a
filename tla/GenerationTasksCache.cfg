SPECIFICATION Spec
CONSTANTS
  p1 = p1
  p2 = p2
  t1 = t1
  t2 = t2
  NoTask = NoTask
  NoPos = NoPos
  Positions <- MCPositions
  Tasks <- MCTasks
  Layer <- MCLayer
  Levels <- MCLevels
  Savers = {p2}
  Faulty = {}
  Top = 2
  MaxRunning = 2
  MaxFailures = 1
INVARIANT
  HoldersCreated
