SPECIFICATION FairSpec
CONSTANTS
    Interval = 1
    MaxSeconds = 6
    JitterPercent = 20
    MaxExponent = 3
    Growth <- Doubling
    MaxWebhooks = 2
    Hopeless = {1}
    HopelessStatuses = {400, 422}
    FlakyStatuses = {429, 503}
    HopelessAsks <- ShortHeader
    FlakyAsks <- NoHeader
    JitterUnits = {0, 50, 99}
    MaxFlaky = 2
    AttemptCap = 4
    SendSeconds = 0
    SleepDrift = 0
PROPERTIES
    NoneHeldUp
