SPECIFICATION Spec
CONSTANTS
  d1 = d1
  d2 = d2
  d3 = d3
  NoDevice = NoDevice
  Devices = {d1, d2, d3}
  Clients = {d1, d3}
  Listeners = {d2}
  MaxPending = 1
  MaxOps = 2
  MaxEdits = 0
  MaxUnlocks = 1
INVARIANT FullListDrains
CHECK_DEADLOCK FALSE
