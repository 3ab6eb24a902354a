SPECIFICATION FairSpec
CONSTANTS
  s1 = s1
  s2 = s2
  a = a
  b = b
  NoSession = NoSession
  NoDomain = NoDomain
  Sessions <- MCSessions
  Domains <- MCDomains
  Home = a
  MaxPlays = 1
  MaxSwitches = 2
  MaxFailures = 1
CHECK_DEADLOCK FALSE
INVARIANTS
  OwnersMatch
  LatestIsLive
  LeftIsSaved
PROPERTY
  SessionsEnd
