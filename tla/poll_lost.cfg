SPECIFICATION Spec
CONSTANTS
    Channels = {github}
    ForwardChannels = {github}
    Senders = {sender}
    Pollers = {poller}
    Retriers = {}
    ReadLimit = 1
    StuckThreshold = 2
    MaxWebhooks = 1
    MaxClock = 0
    MaxFailures = 1
    MaxStorageFaults = 0
    MaxRetries = 0
    MaxCrashes = 0
INVARIANTS
    DeletedOnceReturned
