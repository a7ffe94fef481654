CONSTANTS
    MaxBlock = 4
    MaxForks = 1
    InitialLib = 1
    PromptShip = TRUE
    WillAck = TRUE
    MaxUnconfirmed = 3
    StartBlock = 2
    EndBlocks = {100}
    IrreversibleOnly = FALSE
    AckPolicy = "processed"
    LosesForks = FALSE
    MaxStops = 1
SPECIFICATION SystemSpec
CHECK_DEADLOCK FALSE
INVARIANT NoLostBlocks
