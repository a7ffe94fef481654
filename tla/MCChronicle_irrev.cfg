CONSTANTS
    MaxBlock = 4
    MaxForks = 1
    InitialLib = 1
    PromptShip = TRUE
    WillAck = TRUE
    MaxUnconfirmed = 3
    StartBlock = 0
    EndBlocks = {3, 100}
    IrreversibleOnly = FALSE
    AckPolicy = "irreversible"
    LosesForks = FALSE
    MaxStops = 2
SPECIFICATION SystemSpec
CHECK_DEADLOCK FALSE
INVARIANTS
    SystemTypeOK
    StreamMatchesDb
    NoLostBlocks
PROPERTY ExportSpec
