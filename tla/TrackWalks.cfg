SPECIFICATION Spec
CONSTANTS
    Stacks = {s1, s2}
    None = None
    EagerStart = TRUE
    Overlap = TRUE
    CheckAnswers = {"ok", "bad_body"}
    WalkAnswers = {"ok", "transient", "tag_denied"}
    Events = {"build", "stop", "sweep"}
    Lookups = 2
    MaxBuilds = 2
    MaxChecks = 2
    MaxSweeps = 1
INVARIANTS
    TypeOK
    KnownOnAgrees
PROPERTIES
    OthersUntouched
    LatestForward
    WalksEnd
\* Builds, checks and sweeps are bounded, so a run ends.
CHECK_DEADLOCK FALSE
