SPECIFICATION Spec
CONSTANTS
    Stacks = {s1}
    None = None
    EagerStart = TRUE
    Overlap = FALSE
    CheckAnswers = {"ok"}
    WalkAnswers = {"ok"}
    Events = {"build"}
    Lookups = 2
    MaxBuilds = 2
    MaxChecks = 2
    MaxSweeps = 0
INVARIANTS
    TransitionWalked
\* Builds, checks and sweeps are bounded, so a run ends.
CHECK_DEADLOCK FALSE
