SPECIFICATION Spec
CONSTANTS
    f1 = f1
    f2 = f2
    w1 = w1
    w2 = w2
    NoFd = NoFd
    FD <- OneFd
    Workers <- TwoWorkers
    MAX_FD = 1
    Backlog = 1
    Outcomes <- AllOutcomes
    PromptReuse = TRUE
    CountBound = 1
    QueueBound = 1
INVARIANT NoDanglingTimer
CHECK_DEADLOCK FALSE
