SPECIFICATION FairDeliverySpec
CONSTANTS
    a = a
    b = b
    Clients <- MCOne
    NoClient = NoClient
    Preferred = NoClient
    Subscriptions = {1}
    QueueLimit = 2
    EventBudgets = {0, 1, 2}
    MutationLimit = 1
    RequestIds = {0}
    SnapshotOutcomes = {"fits", "deferred"}
    Readers <- MCKeys
    Copies = {FALSE, TRUE}
    MaxWrites = 1
    MaxGeneration = 2
    MaxSequence = 3
    LateRequests = FALSE
    MaxVisibility = 3
    MaxLosses = 0
VIEW WithoutJournal

INVARIANTS OrderedDelivery
PROPERTIES Converges
