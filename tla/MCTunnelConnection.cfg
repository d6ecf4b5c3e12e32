SPECIFICATION Spec
CONSTANTS
    Client = {c1, c2}
    Key = {k1}
    NoKey = NoKey
    NoClient = NoClient
    MaxInvocations = 2
    MaxParts = 2
    Chunked = {1}
    Signals = {1}
    Faults = {"drop"}
INVARIANTS
    AckEntityLifetime
    LockAccounting
PROPERTIES
    SettledOnce
    InvocationSettles
    KeepsRoomOrder
CHECK_DEADLOCK FALSE
