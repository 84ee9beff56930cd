CONSTANTS
    MaxCommands = 2
    MaxOthers = 1
    MaxFaults = 1
    MaxRestarts = 0
    CompletedLimit = 4
    Refusable <- MCNone
    LargeResults <- MCNone
    FirstModes <- MCStreamOnly

SPECIFICATION FairSpec

PROPERTIES
    AllAnswered
    StreamConverges

CHECK_DEADLOCK FALSE
