SPECIFICATION FairSpec
CONSTANTS
    WorkerCount = 2
    ChanCap = 1
    MaxDeliver = 3
    NumFrames = 2
    MaxRestarts = 1
    Mortal = {1}
CHECK_DEADLOCK FALSE
INVARIANTS
    TypeOK
    NothingLost
    DeliveriesAccounted
    DuplicatesNeedTimeout
PROPERTIES
    FrameSettles
