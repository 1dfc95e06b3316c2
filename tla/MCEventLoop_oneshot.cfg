SPECIFICATION FairSpec
CONSTANTS
    f1 = f1
    f2 = f2
    w1 = w1
    w2 = w2
    NoFd = NoFd
    FD <- TwoFds
    Workers <- TwoWorkers
    MAX_FD = 2
    Backlog = 1
    Outcomes <- AllOutcomes
    PromptReuse = FALSE
    CountBound = 1
    QueueBound = 2
INVARIANT TypeOK
INVARIANT OneThreadPerSocket
INVARIANT NoLostConnection
INVARIANT InterestMatchesResponse
INVARIANT UserCountExact
PROPERTY OwnershipSpec
PROPERTY RequestComesBack
PROPERTY DataIsRead
CHECK_DEADLOCK FALSE
