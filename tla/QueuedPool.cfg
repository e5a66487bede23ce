SPECIFICATION FairSpec
CONSTANTS
    c1 = c1
    c2 = c2
    s1 = s1
    s2 = s2
    p1 = p1
    p2 = p2
    Workers = {w1, w2}
    Clients <- MCClients
    Owner = Owner
    Tasks <- MCTasks
    NoTask = NoTask
    Async <- MCAsync
    Throwing = {p1, s2}
    Submits <- MCSubmits
    Asserts = FALSE
    NoThread = NoThread
    NotifyUnderLock = TRUE
    MaxCalls = 8
    MaxSpurious = 1
INVARIANTS
    TypeOK
    OneHolder
PROPERTIES
    IsThreadPool
    IsExecutor
    DestructorReturns
    EveryFutureReady
