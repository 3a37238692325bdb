SPECIFICATION Spec
CONSTANTS
    Stacks = {s1}
    Services = {v1}
    None = None
    Faults = {"crash", "reload", "no_digest", "remove", "uncaught"}
    SerialPresses = FALSE
    MaxPresses = 2
    MaxLoads = 2
    MaxPolls = 1
INVARIANTS
    TypeOK
    UpAfterPull
    HistoryAfterUp
\* Presses and loads are bounded, so a run ends.
CHECK_DEADLOCK FALSE
