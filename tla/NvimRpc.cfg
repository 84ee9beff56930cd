CONSTANTS
    QueueDepth = 1
    OutboundRoom = 2
    PipeRoom = 1
    MaxTimedOutIds = 1
    StartupRequests = 2
    Sizes <- MCSizes
    FirstSize = 1
    MaxResizes = 1
    MaxRedraws = 2
    MaxAsks = 1
    MaxInputs = 1

SPECIFICATION Spec

INVARIANTS
    NvimTypeOK
    NoRedrawLost
    WireOrder
    NoEntryAfterClose
    ResponsesClaimed

CHECK_DEADLOCK FALSE

