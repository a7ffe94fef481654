CONSTANTS
    Accounts = {1, 2}
    Abis = {v1}
    BadAbi = bad
    NoAbi = none
    MaxBlock = 3
    MaxForks = 1
    MaxStops = 2
    MaxChanges = 1
SPECIFICATION SnapshotSpec
CHECK_DEADLOCK FALSE
INVARIANTS
    SnapshotTypeOK
    ScanUsesLatest
    SnapshotIsFinal
    HistoryAfterRestore
