SPECIFICATION FairSpec
CONSTANTS
  NoVault = NoVault
  Vaults = {v1, v2}
  MaxOpens = 2
  MaxCalls = 2
 
PROPERTY LockTakesEffect
CHECK_DEADLOCK FALSE
