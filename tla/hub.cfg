SPECIFICATION FairSpec
CONSTANTS
    c1 = c1
    c2 = c2
    s1 = s1
    s2 = s2
    Clients <- TwoClients
    Streams <- TwoStreams
    NoFilter = NoFilter
    Filter <- OneFilter
    SendCap = 1
    BroadcastCap = 1
    MaxEvents = 3
CHECK_DEADLOCK FALSE
INVARIANTS
    TypeOK
    NeverPanics
    DeliveryIsGapFree
    GaugeSettles
PROPERTIES
    EventsAreHandedOut
    LeaversAreForgotten
