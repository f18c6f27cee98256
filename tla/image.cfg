\* Two pictures of ffmpeg with bytes like marker bytes; seven boxes on a picture of 4 by 3 pixels.
SPECIFICATION ImageSpec
CONSTANTS
    Bodies <- SmallBodies
    MaxPictures = 2
    PipeSize = 3
    MaxStartupRetries = 2
    MaxSize = 6
    Outputs <- SomeOutputs
    Width = 4
    Height = 3
    Sub = 2
    Threshold = 2
    MinFace = 2
    PadDivisor = 2
    Target = 3
CHECK_DEADLOCK FALSE
INVARIANTS
    ImageTypeOK
    DeliveredIsExact
    OutcomeIsTrue
    KeptAreApart
    DroppedAreCovered
    PixelsInPicture
PROPERTIES
    ExtractionEnds
