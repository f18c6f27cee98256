\* One client that waits for each answer; two streams of both kinds.
SPECIFICATION Spec
CONSTANTS
    s1 = s1
    s2 = s2
    Streams <- BothKinds
    YouTube <- OneYouTube
    Handlers = {h1}
    Jobs = {j1, j2}
    MaxRetries = 1
    MaxPending = 2
    Faults <- NoFault
    NoStream = NoStream
    NoJob = NoJob
SYMMETRY Anonymous
INVARIANTS
    RunningIsLive
    TerminalStatusIsTrue
