SPECIFICATION DeliverySpec
CONSTANTS
    a = a
    b = b
    Clients <- MCTwo
    NoClient = NoClient
    Preferred = b
    Subscriptions = {1}
    QueueLimit = 1
    EventBudgets = {1}
    MutationLimit = 1
    RequestIds = {0}
    SnapshotOutcomes = {"fits"}
    Readers <- MCKeys
    Copies = {FALSE, TRUE}
    MaxWrites = 1
    MaxGeneration = 2
    MaxSequence = 2
    LateRequests = TRUE
    MaxVisibility = 2
    MaxLosses = 0

INVARIANTS OrderedDelivery
