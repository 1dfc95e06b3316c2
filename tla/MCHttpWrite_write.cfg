SPECIFICATION FairSpec
CONSTANTS
    Targets <- AllTargets
    HeadLen = 4
    FormLen = 2
    FileLen = 3
    HeaderCuts = 1
    MaxRequests = 3
INVARIANT TypeOK
INVARIANT ResponseIsExact
INVARIANT MappingReleased
PROPERTY ResponseEnds
CHECK_DEADLOCK FALSE
