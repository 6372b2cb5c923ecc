SPECIFICATION Spec
CONSTANTS
  s1 = s1
  s2 = s2
  p1 = p1
  p2 = p2
  NoPw = NoPw
  NoSession = NoSession
  Sessions <- MCSessions
  Passwords <- MCPasswords
  MaxOps = 5
  Ops <- AccessOps
SYMMETRY SessionSymmetry
INVARIANTS
  AlwaysOpenable
  RetiredKitsStayDead
PROPERTIES
  AccessChangeRotatesKey
CHECK_DEADLOCK FALSE
