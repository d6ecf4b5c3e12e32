SPECIFICATION FairSpec
CONSTANTS
    Request = {r1, r2}
    Line = {l1}
    NoLine = NoLine
    NoAnswer = NoAnswer
    Plans <- AllPlans
    Status <- AllStatus
    Limit = 1
INVARIANTS
    IInvLocal
    FieldsShown
    HistoryShown
    ResponsesMatch
PROPERTIES
    StaysUp
    AnswersRecorded
CHECK_DEADLOCK FALSE
