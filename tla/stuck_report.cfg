SPECIFICATION Spec
CONSTANTS
    Channels = {github}
    ForwardChannels = {github}
    Senders = {sender}
    Pollers = {}
    Retriers = {retrier}
    ReadLimit = 1
    StuckThreshold = 2
    MaxWebhooks = 1
    MaxClock = 0
    MaxFailures = 2
    MaxStorageFaults = 0
    MaxRetries = 1
    MaxCrashes = 0
INVARIANTS
    SingleStuckReport
