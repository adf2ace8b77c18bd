SPECIFICATION Spec
CONSTANTS
    Channels = {github}
    ForwardChannels = {github}
    Senders = {sender1, sender2}
    Pollers = {poller}
    Retriers = {}
    ReadLimit = 2
    StuckThreshold = 2
    MaxWebhooks = 2
    MaxClock = 1
    MaxFailures = 1
    MaxStorageFaults = 0
    MaxRetries = 0
    MaxCrashes = 0
INVARIANTS
    PollOldestFirst
