SPECIFICATION Spec
CONSTANTS
    Fds = {f1}
    Clients = {c1}
    Owner = Owner
    Loop = Loop
    Wake = Wake
    Requests = {"Add", "Unreg"}
    MaxPosts = 3
    MaxOpens = 1
PROPERTIES
    ClosesOnlyItsOwn
