SPECIFICATION Spec
CONSTANTS
  d1 = d1
  d2 = d2
  d3 = d3
  e1 = e1
  e2 = e2
  v1 = v1
  v2 = v2
  Null = Null
  Origin = Origin
  Devices <- MCTwo
  Actors <- MCActors
  Entries <- MCEntries
  Fields <- MCAccountFields
  Optional <- MCNone
  Editable <- MCOneField
  KeepBoth <- MCOneField
  Values <- MCValues
  MaxEvents = 3
  MaxRestarts = 1
  OutlivesSync = FALSE
SYMMETRY MCSymmetry
INVARIANTS
  ResultSupersedes
CHECK_DEADLOCK FALSE
