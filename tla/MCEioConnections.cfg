SPECIFICATION FairSpec
CONSTANTS
    Conn = {c1, c2}
    Line = {l1, l2}
    Weak = {l1}
    NoLine = NoLine
    NoAnswer = NoAnswer
    Request <- AllRequests
    Status <- AllStatus
INVARIANTS
    IInvConn
    AcceptedServed
    KnownMeansLive
PROPERTIES
    ConnectAnswered
CHECK_DEADLOCK FALSE
