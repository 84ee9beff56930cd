SPECIFICATION DeliverySpec
CONSTANTS
    a = a
    b = b
    Clients <- MCOne
    NoClient = NoClient
    Preferred = NoClient
    Subscriptions = {1}
    QueueLimit = 1
    EventBudgets = {1}
    MutationLimit = 1
    RequestIds = {0}
    SnapshotOutcomes = {"fits"}
    Readers <- MCKeys
    Copies = {FALSE}
    MaxWrites = 1
    MaxGeneration = 2
    MaxSequence = 2
    LateRequests = FALSE
    MaxVisibility = 2
    MaxLosses = 1

INVARIANTS ContinuesCursor
