SPECIFICATION Spec
CONSTANTS
    Leader = {l1, l2}
    NoToken = NoToken
    Timeout = 3
    TaskTimeout = 1
    OpenDuration = 2
    Window = 2
    HardWindow = 1
    MinSamples = 2
    MinDeadlines = 1
    RatioMilli = 500
    HardLimit = 2
    PreserveSamples = {TRUE}
    MaxTime = 6
    MaxSamples = 2
SYMMETRY LeaderSymmetry

PROPERTIES FailedProbeReopens
CHECK_DEADLOCK FALSE
