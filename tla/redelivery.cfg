SPECIFICATION Spec
CONSTANTS
    MaxAttempts = 5
    InitialBackoff = 1
    MaxBackoff = 16
    Budget = 160
    AcquireTimeout = 120
    BusyTimeout = 80
    TimerSlack = 2
    WaitStep = 10
    Patiences = {200, 400}
    MaxDeliveries = 3
    MaxLost = 1
INVARIANTS
    LatencyBound
    StoredOnce
    ContentionOnlyDelays
CHECK_DEADLOCK FALSE
