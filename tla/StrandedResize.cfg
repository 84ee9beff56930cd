CONSTANTS
    QueueDepth = 1
    OutboundRoom = 2
    PipeRoom = 1
    MaxTimedOutIds = 1
    StartupRequests = 2
    Sizes <- MCSizes
    FirstSize = 1
    MaxResizes = 2
    MaxRedraws = 0
    MaxAsks = 0
    MaxInputs = 0

SPECIFICATION PromptSpec

PROPERTIES
    SettlesOnLatest

CHECK_DEADLOCK FALSE
