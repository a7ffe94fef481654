CONSTANTS
    Accounts = {1, 2}
    Abis = {v1, v2}
    BadAbi = bad
    NoAbi = none
    MaxBlock = 3
    MaxForks = 0
    MaxStops = 0
    MaxChanges = 1
    MaxRange = 1
    MaxQueue = 1
    OneAtATime = TRUE
    RequestUpTo = "committed"
SPECIFICATION Spec
CHECK_DEADLOCK FALSE
SYMMETRY AbiSymmetry
PROPERTIES
    DecodedOnlyWithOwnAbi
