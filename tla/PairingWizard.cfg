CONSTANTS
    MaxQueue = 1
    MaxFlows = 2
SPECIFICATION FairSpec
INVARIANTS SuccessIsWanted NothingLeftBehind
PROPERTIES OpenVaultKept ConnectingEnds
CHECK_DEADLOCK FALSE
