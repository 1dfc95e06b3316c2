SPECIFICATION FairSpec
CONSTANTS
    t1 = t1
    t2 = t2
    t3 = t3
    c1 = c1
    c2 = c2
    c3 = c3
    NoThread = NoThread
    NULL = NULL
    Threads <- ThreeThreads
    Conns <- ThreeConns
INVARIANT TypeOK
INVARIANT NoSharedConnection
INVARIANT NeverPopsEmpty
INVARIANT CountersExact
INVARIANT EnoughForAll
PROPERTY WaitersAreServed
