CONSTANTS
    MaxBlock = 4
    MaxForks = 1
    InitialLib = 1
    PromptShip = TRUE
    WillAck = TRUE
    MaxUnconfirmed = 2
    StartBlock = 2
    EndBlocks = {100}
    IrreversibleOnly = FALSE
    Content <- MCContent
    KnownNames = {"g"}
    LosesForks = FALSE
    MaxStops = 2
SPECIFICATION FairRelicSpec
CHECK_DEADLOCK FALSE
INVARIANTS
    RelicTypeOK
    RowsOnce
    RowsFollowReceiver
    CommittedComplete
PROPERTY DatabaseCatchesUp
