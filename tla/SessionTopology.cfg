CONSTANTS
    MaxCommands = 2
    MaxOthers = 0
    MaxFaults = 1
    MaxRestarts = 1
    CompletedLimit = 4
    Refusable <- MCSecond
    LargeResults <- MCSecond
    FirstModes <- MCBothModes

SPECIFICATION Spec

INVARIANTS
    SessionTopologyTypeOK
    HeldOnce
PROPERTIES
    KeepsPromise
    ActivatedSeen
    ShownForward

CHECK_DEADLOCK FALSE
