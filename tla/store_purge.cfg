SPECIFICATION Spec
CONSTANTS
    Streams = {s1}
    Keys = {1, 2, 3}
    None = None
    Retention = 2
    MaxDeliver = 3
CHECK_DEADLOCK FALSE
INVARIANTS
    PurgesOldest
