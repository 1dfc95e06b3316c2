SPECIFICATION Spec
CONSTANTS
    Targets <- AllTargets
    HeadLen = 4
    FormLen = 2
    FileLen = 3
    HeaderCuts = 2
    MaxRequests = 1
INVARIANT ResponseIsExact
CHECK_DEADLOCK FALSE
