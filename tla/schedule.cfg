SPECIFICATION FairSpec
CONSTANTS
    Interval = 1
    MaxSeconds = 6
    JitterPercent = 20
    MaxExponent = 3
    Growth <- Doubling
    MaxWebhooks = 4
    Hopeless = {1, 3}
    HopelessStatuses = {400, 422}
    FlakyStatuses = {429, 503}
    HopelessAsks <- NoHeaderOrLong
    FlakyAsks <- AnyHeader
    JitterUnits = {0, 50, 99}
    MaxFlaky = 2
    AttemptCap = 4
    SendSeconds = 1
    SleepDrift = 1
INVARIANT TypeOK
PROPERTIES
    NoneHeldUp
    RetriesNeverStop
