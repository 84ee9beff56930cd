SPECIFICATION Spec
CONSTANTS
    Subscriptions = {1, 2, 3}
    Budget = 4
    Quantum = 2
    EventLimit = 1
    EventSizes = {1, 3}
    SnapshotSize <- MCSnapshotSize
    ProjectionSize <- MCProjectionSize
    QueueLimit = 1
    MCSnapshot = 3
    MCTopology = 2
    MCAgents = 3
INVARIANTS PollTypeOK InTurn MoreTold ChannelsServed
