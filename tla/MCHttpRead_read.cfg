SPECIFICATION FairSpec
CONSTANTS
    Requests <- AllSorts
    READ_BUFFER_SIZE = 11
    BodyInPieces = FALSE
INVARIANT TypeOK
INVARIANT AnswerIsRight
INVARIANT LinesAreLines
INVARIANT NoRequestMeansIncomplete
PROPERTY RequestIsRecognised
CHECK_DEADLOCK FALSE
