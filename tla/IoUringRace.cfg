SPECIFICATION Spec
CONSTANTS
    Objs = {x, y}
    Fds = {n1, n2}
    Invalid = Invalid
    Absent = Absent
    MaxOpens = 2
    Wake = Wake
    Ring = Ring
    Main = Main
    Loop = Loop
    MaxMain = 2
    MaxIds = 3
INVARIANTS
    NoRace
