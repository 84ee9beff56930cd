SPECIFICATION Spec
CONSTANTS
    a = a
    b = b
    Clients <- MCClients
    NoClient = NoClient
    Preferred = b
    Subscriptions = {0}
    QueueLimit = 2
    EventBudgets = {0, 1}
    MutationLimit = 1
    RequestIds = {0, 1}
    SnapshotOutcomes = {"fits", "tooLarge"}
    Readers <- MCNone
    Copies = {FALSE, TRUE}
    MaxWrites = 2
    MaxGeneration = 2
    MaxSequence = 2
VIEW WithoutJournal
INVARIANTS TypeOK QueueDiscipline ControllerAttached ReservationHeld
PROPERTIES VersionAdvances
