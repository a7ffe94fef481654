CONSTANTS
    Accounts = {1}
    Abis = {v1, v2}
    BadAbi = bad
    NoAbi = none
    MaxBlock = 4
    MaxForks = 0
    MaxStops = 0
    MaxChanges = 1
    MaxRange = 3
    MaxQueue = 1
    OneAtATime = TRUE
    RequestUpTo = "committed"
SPECIFICATION Spec
CHECK_DEADLOCK FALSE
SYMMETRY AbiSymmetry
PROPERTIES
    DecodedFromBelow
