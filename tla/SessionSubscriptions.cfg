SPECIFICATION Spec
CONSTANTS
    a = a
    b = b
    Clients <- MCOne
    NoClient = NoClient
    Preferred = NoClient
    Subscriptions = {1}
    QueueLimit = 2
    EventBudgets = {0, 1}
    MutationLimit = 1
    RequestIds = {0}
    SnapshotOutcomes = {"fits", "deferred", "tooLarge"}
    Readers <- MCReaders
    Copies = {FALSE, TRUE}
    MaxWrites = 2
    MaxGeneration = 2
    MaxSequence = 2
INVARIANTS EventsComplete
