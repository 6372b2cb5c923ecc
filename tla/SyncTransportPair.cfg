SPECIFICATION Spec
CONSTANTS
  d1 = d1
  d2 = d2
  d3 = d3
  NoDevice = NoDevice
  Devices = {d1, d2}
  Clients = {d1}
  Listeners = {d2}
  MaxPending = 1
  MaxOps = 2
  MaxEdits = 1
  MaxUnlocks = 2
PROPERTY Promise
PROPERTY LateWorkerHarmless
CHECK_DEADLOCK FALSE
