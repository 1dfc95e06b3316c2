SPECIFICATION Spec
CONSTANTS
    w1 = w1
    w2 = w2
    n1 = n1
    n2 = n2
    p1 = p1
    p2 = p2
    NoAccount = NoAccount
    NoWorker = NoWorker
    Workers <- TwoWorkers
    Names <- TwoNames
    Passwords <- TwoPasswords
    Requests <- Clients
    MaxRows = 0
    MaxRequests = 3
    MaxRestarts = 1
INVARIANT RegisteredOnce
CHECK_DEADLOCK FALSE
