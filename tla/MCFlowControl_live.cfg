CONSTANTS
    MaxBlock = 4
    MaxUnacks = {1, 2}
    QueueHwm = 4
    ExtraMessages = 1
    MaxQueueSize = 1
    EndBlocks = {4, 9}
    IrreversibleOnly = FALSE
    AckEvery = 2
    AckLags = {0, 1}
    ConsumerKeepsUp = TRUE
    MaxQueued = 4
    MaxAcks = 2
SPECIFICATION FairSpec
CHECK_DEADLOCK FALSE
INVARIANTS
    FlowTypeOK
    WindowHolds
PROPERTIES
    ReadsOn
    SlowdownEnds
    StopsAtEnd
    SilenceEnds
