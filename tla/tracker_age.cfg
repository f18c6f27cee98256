\* One worker, a face that leaves the picture.
SPECIFICATION Spec
CONSTANTS
    alice = alice
    bob = bob
    left = left
    middle = middle
    right = right
    Workers = {w1}
    Faces <- TwoFaces
    Boxes <- ThreeBoxes
    Overlap <- Row
    Place <- Seated
    Confidences = {1}
    MaxFaces = 2
    MaxAge = 1
    MinHits = 2
    MaxFrames = 4
    MaxRestarts = 0
CHECK_DEADLOCK FALSE
INVARIANTS
    LostAfterMaxAge
