SPECIFICATION FairSpec
CONSTANTS
    left = left
    right = right
    tick = tick
    tock = tock
    client = client
    server = server
    other = other
    ticker = ticker
    Sockets = {left, right}
    Peer <- MCPeer
    Timers = {tick, tock}
    Coros = {client, server, other, ticker}
    Plan <- MCPlan
    None = None
    MaxFaults = 1
INVARIANTS
    TypeOK
    NoAwaiterForgotten
    NoTimerForgotten
PROPERTIES
    ResumesItsAwaiter
    OnlyClashesAreRefused
    ReadyIsResumed
CHECK_DEADLOCK FALSE
