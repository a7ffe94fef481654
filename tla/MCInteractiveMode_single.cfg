CONSTANTS
    Accounts = {1}
    Abis = {v1, v2}
    BadAbi = bad
    NoAbi = none
    MaxBlock = 3
    MaxForks = 1
    MaxStops = 1
    MaxChanges = 1
    MaxRange = 1
    MaxQueue = 1
    OneAtATime = TRUE
    RequestUpTo = "committed"
SPECIFICATION Spec
CHECK_DEADLOCK FALSE
SYMMETRY AbiSymmetry
INVARIANTS
    InteractiveTypeOK
    HistoryMatchesChain
PROPERTIES
    DecodedLatest
