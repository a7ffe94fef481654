CONSTANTS
    Procs = {p1, p2}
    RelicAnswers = TRUE
    FirstStartAlone = TRUE
SPECIFICATION FairSpec
INVARIANTS
    StartTypeOK
    MutualExclusion
    ReadyBeforeEvents
PROPERTIES
    StartsOrEnds
    WaitersServed
