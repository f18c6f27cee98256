\* Delete against what openapi.yaml says of it: no fault, one client.
SPECIFICATION Spec
CONSTANTS
    s1 = s1
    s2 = s2
    Streams <- OneYouTube
    YouTube <- OneYouTube
    Handlers = {h1}
    Jobs = {j1}
    MaxRetries = 1
    MaxPending = 2
    Faults <- NoFault
    NoStream = NoStream
    NoJob = NoJob
INVARIANT
    DeletedStreamStops
