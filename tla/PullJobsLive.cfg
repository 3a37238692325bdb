SPECIFICATION Spec
CONSTANTS
    Stacks = {s1}
    Services = {v1, v2}
    None = None
    Faults = {"crash", "restart", "lost_reply", "uncaught"}
    SerialPresses = TRUE
    MaxPresses = 2
    MaxLoads = 3
    MaxPolls = 2
PROPERTIES
    FlagClears
    RecordSettles
\* Presses and loads are bounded, so a run ends.
CHECK_DEADLOCK FALSE
