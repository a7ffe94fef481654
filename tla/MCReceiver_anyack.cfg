CONSTANTS
    MaxBlock = 4
    MaxForks = 2
    InitialLib = 1
    PromptShip = TRUE
    WillAck = TRUE
    MaxUnconfirmed = 3
    StartBlock = 0
    EndBlocks = {3, 100}
    IrreversibleOnly = FALSE
    MaxQueued = 2
SPECIFICATION Spec
CONSTRAINT QueueBound
INVARIANTS
    TypeOK
    CommittedFinal
    UndoStackAligned
    RollbackReachable
    ReceivedRowsSound
PROPERTY CommittedNotResent
