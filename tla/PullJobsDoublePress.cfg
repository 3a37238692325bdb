SPECIFICATION Spec
CONSTANTS
    Stacks = {s1}
    Services = {v1}
    None = None
    Faults = {}
    SerialPresses = FALSE
    MaxPresses = 2
    MaxLoads = 1
    MaxPolls = 2
INVARIANTS
    FlagTracksJob
\* Presses and loads are bounded, so a run ends.
CHECK_DEADLOCK FALSE
