SPECIFICATION Spec
CONSTANTS
    Requests <- Proper
    READ_BUFFER_SIZE = 12
    BodyInPieces = TRUE
INVARIANT NoRequestMeansIncomplete
CHECK_DEADLOCK FALSE
