SPECIFICATION Spec
CONSTANTS
    MaxPackets = 5
    Calls = {s1, s2, s3}
    CanFail = FALSE
    CanLose = FALSE
    CanShutDown = FALSE
INVARIANTS
    OrderGuaranteed
CHECK_DEADLOCK FALSE
