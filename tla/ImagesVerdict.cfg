SPECIFICATION Spec
CONSTANTS
    Images <- TwoImages
    NoImage = 0
    Worlds <- PairsOfImages
    FacesIn <- Faces
    MinConfirmed = 1
    MaxImages = 2
    BaseCap = 1
    MaxCap = 1
    MinCap = 1
    BatchSize = 2
    WaveSize = 2
    RequestSize = 2
    MaxAttempts = 2
    MaxTroubles = 2
    MaxTimeouts = 1
    MaxMishaps = 0
CHECK_DEADLOCK FALSE
INVARIANT OutagesCompleteNothing
