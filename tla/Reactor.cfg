SPECIFICATION FairSpec
CONSTANTS
    Fds = {f1}
    Clients = {c1}
    Owner = Owner
    Loop = Loop
    Wake = Wake
    Requests = {"Add", "Mod", "Del", "Unreg"}
    MaxPosts = 3
    MaxOpens = 2
INVARIANTS
    TypeOK
    NoLostWakeup
    Custody
    AddFindsRoom
PROPERTIES
    IsEventLoop
    NoStaleEvent
    CommandsExecuted
    DestructorReturns
