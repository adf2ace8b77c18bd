SPECIFICATION Spec
CONSTANTS
    Channels = {github}
    ForwardChannels = {github}
    Senders = {sender}
    Pollers = {}
    Retriers = {retrier1, retrier2}
    ReadLimit = 1
    StuckThreshold = 2
    MaxWebhooks = 1
    MaxClock = 1
    MaxFailures = 3
    MaxStorageFaults = 1
    MaxRetries = 2
    MaxCrashes = 1
SYMMETRY Interchangeable
INVARIANTS
    TypeOK
    AttemptsAccounted
    DuplicatesExplained
    ReportsExplained
