CONSTANTS
    QueueDepth = 1
    OutboundRoom = 2
    PipeRoom = 1
    MaxTimedOutIds = 1
    StartupRequests = 2
    Sizes <- MCSizes
    FirstSize = 1
    MaxResizes = 1
    MaxRedraws = 1
    MaxAsks = 0
    MaxInputs = 0

SPECIFICATION PromptSpec

PROPERTIES
    CloseUnblocks

CHECK_DEADLOCK FALSE
