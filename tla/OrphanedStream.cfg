CONSTANTS
    t1 = t1
    Terminals = {t1}
    Commands = {}
    Connections <- MCConnections
    EventRoom = 2
    ControlRoom = 1
    CommandRoom = 1
    CommandsPerPump = 1
    UpdateQueue = 1
    MaxRefusals = 0
    MaxChanges = 2
    MaxVisibility = 1
    MaxHeartbeats = 0

SPECIFICATION FairSpec

PROPERTIES
    StreamSettles

VIEW Shifted

CHECK_DEADLOCK FALSE
