SPECIFICATION FairSpec
CONSTANTS
    t1 = t1
    t2 = t2
    t3 = t3
    x1 = x1
    x2 = x2
    NoItem = NoItem
    NoThread = NoThread
    Threads <- ThreeThreads
    Items <- TwoItems
    m_max_size = 2
    MaxCalls = 5
INVARIANT TypeOK
INVARIANT NobodySleeps
PROPERTY FifoSpec
PROPERTY EveryCallReturns
CHECK_DEADLOCK FALSE
