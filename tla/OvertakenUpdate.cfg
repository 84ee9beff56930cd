CONSTANTS
    t1 = t1
    t2 = t2
    Terminals = {t1, t2}
    Commands = {}
    Connections <- MCOneConnection
    EventRoom = 2
    ControlRoom = 1
    CommandRoom = 1
    CommandsPerPump = 1
    UpdateQueue = 1
    MaxRefusals = 0
    MaxChanges = 1
    MaxVisibility = 2
    MaxHeartbeats = 0

SPECIFICATION Spec

INVARIANTS
    SentOnce

VIEW Shifted

CHECK_DEADLOCK FALSE
