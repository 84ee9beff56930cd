CONSTANTS
    t1 = t1
    Terminals = {t1}
    Commands = {}
    Connections <- MCOneConnection
    EventRoom = 2
    ControlRoom = 1
    CommandRoom = 1
    CommandsPerPump = 1
    UpdateQueue = 1
    MaxRefusals = 0
    MaxChanges = 1
    MaxVisibility = 2
    MaxHeartbeats = 1

SPECIFICATION Spec

PROPERTIES
    OnlyNews

VIEW Shifted

CHECK_DEADLOCK FALSE
