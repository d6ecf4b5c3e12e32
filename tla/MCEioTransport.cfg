SPECIFICATION FairSpec
CONSTANTS
    MaxPackets = 7
    Calls = {s1, s2, s3}
    CanFail = TRUE
    CanLose = TRUE
    CanShutDown = TRUE
INVARIANTS
    IInvEio
    NothingLostOrSwapped
    BinaryKeptWhole
    SendsLargestWhole
    AcceptedFirst
PROPERTIES
    EverythingArrives
CHECK_DEADLOCK FALSE
