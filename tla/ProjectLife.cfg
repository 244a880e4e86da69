SPECIFICATION FairSpec
CONSTANTS
    w1 = w1
    r1 = r1
    owner = owner
    guest = guest
    f1 = f1
    f2 = f2
    i1 = i1
    None = None
    NotReading = NotReading
    Nobody = Nobody
    Model = Model
    Bootstrap = Bootstrap
    Workers <- OneWorker
    RunsOf <- OneRun
    WorkerOf <- OnW1
    Users <- TwoUsers
    Owner <- OwnerIs
    Faces <- TwoFaces
    ImageOf <- OneImage
    Distance <- Distances
    Usable <- TwoFaces
    Settings <- TwoSettings
    FirstTargets <- SecondFace
    FirstBy <- OwnerIs
    FirstSetting <- Wide
    BatchSize = 1
    MaxSeq = 2
    MaxFailures = 1
    MaxRequests = 2
CHECK_DEADLOCK FALSE
INVARIANTS TypeOK NoMatchUnderRemoval
PROPERTIES MatchesRespectTargets HumanVerdictsStay AccessIsChecked BansHold SignalIsKept CandidatesAreClassified RequestsAreSeen
