SPECIFICATION FairSpec
CONSTANTS
    Channels = {alpha, beta}
    Loads = {1, 2}
    MaxEvents = 3
    First = alpha
    None = None
INVARIANTS
    TypeOK
    RetryStaysInChannel
    ShownIdsHold
PROPERTIES
    PauseHolds
    ListCatchesUp
    StatusCatchesUp
