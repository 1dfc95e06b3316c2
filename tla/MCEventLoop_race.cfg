SPECIFICATION Spec
CONSTANTS
    f1 = f1
    f2 = f2
    w1 = w1
    w2 = w2
    NoFd = NoFd
    FD <- TwoFds
    Workers <- TwoWorkers
    MAX_FD = 2
    Backlog = 1
    Outcomes <- AllOutcomes
    PromptReuse = TRUE
    CountBound = 2
    QueueBound = 2
SYMMETRY Interchangeable
INVARIANT OneThreadPerSocket
