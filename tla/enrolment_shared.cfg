SPECIFICATION EnrolSpec
CONSTANTS
    ann = ann
    ben = ben
    wall = wall
    Requests = {r1, r2}
    Images <- AllImages
    Faceless <- JustWall
    Persons = {p1}
    Unknown = Unknown
    Mixed = Mixed
    None = None
SYMMETRY AnyRequest
CHECK_DEADLOCK FALSE
INVARIANTS
    EmbeddingIsOfItsPicture
