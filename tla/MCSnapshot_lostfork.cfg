CONSTANTS
    Accounts = {1}
    Abis = {v1}
    BadAbi = bad
    NoAbi = none
    MaxBlock = 2
    MaxForks = 1
    MaxStops = 2
    MaxChanges = 1
SPECIFICATION SnapshotSpec
CHECK_DEADLOCK FALSE
PROPERTIES
    BlocksFollow
