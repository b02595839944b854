SPECIFICATION Spec
CONSTANTS
    Leader = {l1, l2, l3}
    NoToken = NoToken
    Timeout = 3
    TaskTimeout = 1
    OpenDuration = 2
    Window = 2
    HardWindow = 1
    MinSamples = 2
    MinDeadlines = 1
    RatioMilli = 500
    HardLimit = 2
    PreserveSamples = {TRUE, FALSE}
    MaxTime = 5
    MaxSamples = 2
SYMMETRY LeaderSymmetry
INVARIANTS TypeOK OpenHasNoProbe RejectionBounded ProbeExclusive
PROPERTIES StaysOpen LateSuccessKeepsFailures
CHECK_DEADLOCK FALSE
