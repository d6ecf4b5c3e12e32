SPECIFICATION Spec
CONSTANTS
    Client = {c1, c2}
    Key = {k1}
    NoKey = NoKey
    NoClient = NoClient
    MaxInvocations = 3
    MaxParts = 1
    Chunked = {}
    Signals = {}
    Faults = {"close"}
INVARIANTS
    RoomOrderGuaranteed
CHECK_DEADLOCK FALSE
