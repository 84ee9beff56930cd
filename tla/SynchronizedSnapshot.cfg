SPECIFICATION Spec
CONSTANTS
    a = a
    b = b
    Clients <- MCClients
    NoClient = NoClient
    Preferred = NoClient
    Subscriptions = {1}
    QueueLimit = 1
    EventBudgets = {1}
    MutationLimit = 1
    RequestIds = {0}
    SnapshotOutcomes = {"fits"}
    Readers <- MCReaders
    Copies = {FALSE}
    MaxWrites = 2
    MaxGeneration = 1
    MaxSequence = 2
INVARIANTS OnlyCompletedFrames
