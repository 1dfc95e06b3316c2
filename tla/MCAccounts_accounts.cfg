SPECIFICATION FairSpec
CONSTANTS
    w1 = w1
    w2 = w2
    n1 = n1
    n2 = n2
    p1 = p1
    p2 = p2
    NoAccount = NoAccount
    NoWorker = NoWorker
    Workers <- TwoWorkers
    Names <- TwoNames
    Passwords <- TwoPasswords
    Requests <- Clients
    MaxRows = 2
    MaxRequests = 3
    MaxRestarts = 1
INVARIANT TypeOK
INVARIANT ToldIsStored
INVARIANT StoredIsKnown
PROPERTY AccountSetSpec
PROPERTY EveryRequestGetsAPage
CHECK_DEADLOCK FALSE
