SPECIFICATION Spec
CONSTANTS
  p1 = p1
  p2 = p2
  u = u
  v = v
  NoWorld = NoWorld
  NoPlayer = NoPlayer
  Players = {p1, p2}
  Worlds = {u, v}
  DefaultWorld = u
  Pos = {1, 2}
  Views <- MCWiderViews
  MaxUnacknowledged = 2
  SettingsWhileAway = TRUE
  Movers = {p1}
  Unsettled <- MCUnsettled
  MaxMoves = 2
  MaxWrites = 1
  MaxFlips = 2
INVARIANT
  AreaFollowsView
