\* Two people before the camera of one worker, whose places meet; two requests at the API.
SPECIFICATION VisionSpec
CONSTANTS
    alice = alice
    bob = bob
    left = left
    middle = middle
    right = right
    Workers = {w1}
    Faces <- TwoFaces
    Boxes <- ThreeBoxes
    Overlap <- Row
    Place <- Meeting
    Confidences = {1}
    MaxFaces = 2
    MaxAge = 1
    MinHits = 2
    MaxFrames = 4
    MaxRestarts = 1
    ann = ann
    ben = ben
    wall = wall
    Requests = {r1, r2}
    Images <- AllImages
    Faceless <- JustWall
    Persons = {p1}
    Unknown = Unknown
    Mixed = Mixed
    None = None
SYMMETRY AnyRequest
CHECK_DEADLOCK FALSE
INVARIANTS
    TypeOK
    OneTrackPerDetection
    TracksAreKept
    WorkerIdsAreUnique
    EnrolTypeOK
    WrongNeedsCollision
    AnswerMatchesStore
