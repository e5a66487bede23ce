SPECIFICATION FairSpec
CONSTANTS
    Objs = {x, y}
    Fds = {n1}
    Invalid = Invalid
    Absent = Absent
    MaxOpens = 1
    Wake = Wake
    Ring = Ring
    Main = Main
    Loop = Loop
    MaxMain = 1
    MaxIds = 1
PROPERTIES
    StopEndsLoop
