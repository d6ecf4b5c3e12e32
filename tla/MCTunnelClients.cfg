SPECIFICATION SpecClients
CONSTANTS
    Client = {c1, c2, c3, c4}
    Faults = {"drop", "giveup", "close", "oneshot", "refuse", "rerun"}
INVARIANTS
    NoOrphan
    StopReachesAll
    RetriesForever
PROPERTIES
    ReconnectCompletes
CHECK_DEADLOCK FALSE
