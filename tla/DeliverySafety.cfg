SPECIFICATION DeliverySpec
CONSTANTS
    a = a
    b = b
    Clients <- MCOne
    NoClient = NoClient
    Preferred = NoClient
    Subscriptions = {1}
    QueueLimit = 1
    EventBudgets = {0, 1}
    MutationLimit = 1
    RequestIds = {0}
    SnapshotOutcomes = {"fits", "deferred"}
    Readers <- MCKeys
    Copies = {FALSE}
    MaxWrites = 1
    MaxGeneration = 2
    MaxSequence = 2
    LateRequests = TRUE
    MaxVisibility = 2
    MaxLosses = 1
INVARIANTS DeliveryTypeOK TruthfulProjection
PROPERTIES NoRegression
