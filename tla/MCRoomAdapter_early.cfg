SPECIFICATION Spec
CONSTANTS
    Namespace = ns
    None = None
    a = a
    b = b
    Rooms = {a, b}
    Sockets = {s1}
    Selections <- AnySelection
    MaxCalls = 3
    CanFail = FALSE
    CanLose = FALSE
INVARIANT EarlyJoinCounts
CHECK_DEADLOCK FALSE
