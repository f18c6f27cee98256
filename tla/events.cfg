SPECIFICATION FairSpec
CONSTANTS
    s1 = s1
    NumEvents = 2
    Suspects = {2}
    StreamOf <- OneStream
    BatchSize = 2
    MaxDeliver = 2
    MaxStarts = 2
    Mortal = {1}
    DbMayFail = TRUE
CHECK_DEADLOCK FALSE
INVARIANTS
    TypeOK
    AckedWasAnnounced
    AnnouncedIsStored
    DuplicateRowsNeedTimeout
    FirstDeliveriesInOrder
PROPERTIES
    EventSettles
