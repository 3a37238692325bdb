SPECIFICATION Spec
CONSTANTS
    Stacks = {s1, s2}
    None = None
    EagerStart = FALSE
    Overlap = FALSE
    CheckAnswers = {"ok", "transient", "denied"}
    WalkAnswers = {"ok"}
    Events = {"build", "pull", "sweep"}
    Lookups = 3
    MaxBuilds = 3
    MaxChecks = 3
    MaxSweeps = 1
SYMMETRY StackSymmetry
INVARIANTS
    TransitionWalked
\* Builds, checks and sweeps are bounded, so a run ends.
CHECK_DEADLOCK FALSE
