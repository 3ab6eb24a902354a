SPECIFICATION FairSpec
CONSTANTS
  p1 = p1
  h1 = h1
  h2 = h2
  NoHolder = NoHolder
  NoPos = NoPos
  Positions <- MCPositions
  Holders <- MCHolders
  MaxVersion = 4
  MaxReleases = 2
INVARIANTS
  OneOwner
  ShutdownSaves
  HandlesBalance
  HandoverInOrder
PROPERTY
  ContentIsDurable
  TicketServed
