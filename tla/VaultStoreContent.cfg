SPECIFICATION FairSpec
CONSTANTS
  s1 = s1
  s2 = s2
  p1 = p1
  p2 = p2
  NoPw = NoPw
  NoSession = NoSession
  Sessions <- MCSessions
  Passwords <- MCOnePassword
  MaxOps = 3
  Ops <- ContentOps
INVARIANTS
  SessionMatchesFile
PROPERTIES
  NoLostUpdate
  OriginalKept
  SaveEnds
CHECK_DEADLOCK FALSE
