SPECIFICATION Spec
CONSTANTS
    Threads = {t1, t2}
    Values = {v1}
    NoValue = NoValue
    NoThread = NoThread
    NotifyUnderLock = TRUE
    MaxCalls = 1
    MaxSpurious = 0
PROPERTIES
    NoPushAfterClose
\* Threads that made their calls stop.
CHECK_DEADLOCK FALSE
