\* Two clients at once on a youtube stream; every fault.
SPECIFICATION FairSpec
CONSTANTS
    s1 = s1
    s2 = s2
    Streams <- OneYouTube
    YouTube <- OneYouTube
    Handlers = {h1, h2}
    Jobs = {j1, j2}
    MaxRetries = 2
    MaxPending = 2
    Faults <- AllFault
    NoStream = NoStream
    NoJob = NoJob
INVARIANTS
    TypeOK
    ExtractionIsRegistered
    OneExtractionPerStream
    StopIsEffective
PROPERTIES
    CancelledJobEnds
    StopLeadsToEnd
    ImplementsSession
