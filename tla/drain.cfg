SPECIFICATION FairSpec
CONSTANTS
    Channels = {github}
    ForwardChannels = {github}
    Senders = {sender}
    Pollers = {}
    Retriers = {}
    ReadLimit = 1
    StuckThreshold = 2
    MaxWebhooks = 2
    MaxClock = 0
    MaxFailures = 2
    MaxStorageFaults = 1
    MaxRetries = 0
    MaxCrashes = 1
INVARIANTS
    PauseLetsOneThrough
    StuckIsReported
PROPERTIES
    NoImmediateResend
    EventuallyLeaves
