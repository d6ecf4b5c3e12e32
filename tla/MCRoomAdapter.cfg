SPECIFICATION FairSpec
CONSTANTS
    Namespace = ns
    None = None
    a = a
    b = b
    Rooms = {a, b}
    Sockets = {s1}
    Selections <- AnySelection
    MaxCalls = 3
    CanFail = TRUE
    CanLose = TRUE
INVARIANTS IInvRooms AsIfAtOnce SeenIsServed GoneLeavesNothing
PROPERTY EveryCallEnds
CHECK_DEADLOCK FALSE
