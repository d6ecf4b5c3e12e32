SPECIFICATION Spec
CONSTANTS
    Namespace = ns
    Room = {a, b, c}
INVARIANT ExceptsAreExcluded
CHECK_DEADLOCK FALSE
