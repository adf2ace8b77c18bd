SPECIFICATION FairSpec
CONSTANTS
    None = None
    Unparsable = Unparsable
    NotFinite = NotFinite
    GeneratedToken = GeneratedToken
    BadNames = {"two words"}
    tokenA = tokenA
    tokenB = tokenB
    tokenUi = tokenUi
    stranger = stranger
    hookSecret = hookSecret
    signSecret = signSecret
    otherSecret = otherSecret
    Instances = {old, new}
    Deployments <- MCDeployments
    Calls <- MCCalls
    MaxFaults = 1
    MaxCrashes = 1
INVARIANTS
    TypeOK
    ServingSeesSchema
    RestartNeedsNoLock
    OnlyUncheckedSurfaces
    ScheduleSound
    LayerLimitAgrees
    UntrustedHeadersIgnored
    StoredMeansAdmitted
    StrangerSeesNoChannel
    SignedIsAccepted
    AgentsSignAlike
    SignedOnce
    SecretsStayServerSide
PROPERTIES
    SoundOnesServe
