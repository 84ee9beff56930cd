CONSTANTS
    t1 = t1
    Terminals = {t1}
    Commands = {1}
    Connections <- MCOneConnection
    EventRoom = 2
    ControlRoom = 1
    CommandRoom = 1
    CommandsPerPump = 1
    UpdateQueue = 1
    MaxRefusals = 1
    MaxChanges = 2
    MaxVisibility = 3
    MaxHeartbeats = 1

SPECIFICATION FairSpec

INVARIANTS
    StreamTypeOK
    FramesAccepted
    NoLostWait

PROPERTIES
    StreamSettles

VIEW Shifted

CHECK_DEADLOCK FALSE
