SPECIFICATION Spec
CONSTANTS
    Channels = {github, sentry}
    ForwardChannels = {github}
    Senders = {sender}
    Pollers = {poller1, poller2}
    Retriers = {retrier}
    ReadLimit = 1
    StuckThreshold = 2
    MaxWebhooks = 2
    MaxClock = 0
    MaxFailures = 1
    MaxStorageFaults = 0
    MaxRetries = 1
    MaxCrashes = 1
INVARIANTS
    Custody
    HandedOutOnce
PROPERTIES
    ImplementsCustody
