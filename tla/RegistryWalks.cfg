SPECIFICATION Spec
CONSTANTS
    None = None
    Invalid = Invalid
    Tags <- MCTags
    Shape <- MCShape
    FirstTags <- MCFirstTags
    Floating = "latest"
    Services <- MCServices
    Registries = {"docker.io", "ghcr.io"}
    Faults = {"transient", "denied", "bad_body", "garbled", "endless", "delete"}
    PageSize = 2
    MaxPages = 3
    Lookups = 2
    MaxPushes = 2
    MaxWalks = 2
INVARIANTS
    TypeOK
    LatestIsNewest
    TargetHasDigest
    TargetFound
PROPERTIES
    KeepsContract
    WalkEnds
\* Pushes and walks are bounded, so a run ends.
CHECK_DEADLOCK FALSE
