SPECIFICATION Spec
CONSTANTS
  d1 = d1
  d2 = d2
  d3 = d3
  e1 = e1
  e2 = e2
  v1 = v1
  v2 = v2
  Null = Null
  Origin = Origin
  Devices <- MCTwo
  Actors <- MCActors
  Entries <- MCOneEntry
  Fields <- MCFields
  Optional <- MCOptional
  Editable <- MCNone
  KeepBoth <- MCNone
  Values <- MCValues
  MaxEvents = 4
  MaxRestarts = 0
  OutlivesSync = FALSE
SYMMETRY MCSymmetry
INVARIANTS
  NoSilentLoss
  OnlyRealConflicts
  AutomaticKeeps
PROPERTY
  StoresWhatWasCompared
CHECK_DEADLOCK FALSE
