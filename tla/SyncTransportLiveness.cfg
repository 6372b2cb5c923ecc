SPECIFICATION FairSpec
CONSTANTS
  d1 = d1
  d2 = d2
  d3 = d3
  NoDevice = NoDevice
  Devices = {d1, d2}
  Clients = {d1, d2}
  Listeners = {d1, d2}
  MaxPending = 1
  MaxOps = 1
  MaxEdits = 1
  MaxUnlocks = 1
PROPERTY OperationsEnd
CHECK_DEADLOCK FALSE
