CONSTANTS
    MaxCommands = 1
    MaxOthers = 1
    MaxFaults = 0
    MaxRestarts = 0
    CompletedLimit = 4
    Refusable <- MCNone
    LargeResults <- MCNone
    FirstModes <- MCPollOnly

SPECIFICATION FairSpec

PROPERTIES
    Converges

CHECK_DEADLOCK FALSE
