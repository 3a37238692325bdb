SPECIFICATION Spec
CONSTANTS
    Stacks = {s1, s2}
    Services = {v1}
    None = None
    Faults = {"crash", "restart", "lost_reply", "uncaught"}
    SerialPresses = TRUE
    MaxPresses = 2
    MaxLoads = 2
    MaxPolls = 1
SYMMETRY StackSymmetry
INVARIANTS
    FlagTracksJob
    OneDriverPerStack
    WatchedIsRecorded
    RecordsResumed
PROPERTIES
    KeepsContract
\* Presses and loads are bounded, so a run ends.
CHECK_DEADLOCK FALSE
