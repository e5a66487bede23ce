SPECIFICATION Spec
CONSTANTS
    Threads = {t1, t2, t3}
    Values = {v1, v2}
    NoValue = NoValue
    NoThread = NoThread
    NotifyUnderLock = FALSE
    MaxCalls = 2
    MaxSpurious = 1
SYMMETRY ThreadSymmetry
INVARIANTS
    TypeOK
    NoLostWakeup
    CloseWakesSleepers
PROPERTIES
    IsFifoChannel
\* Threads that made all their calls stop, and one asleep in a pop of a queue
\* that nobody closes any more sleeps for good.
CHECK_DEADLOCK FALSE
