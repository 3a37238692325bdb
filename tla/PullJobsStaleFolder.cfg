SPECIFICATION Spec
CONSTANTS
    Stacks = {s1, s2}
    Services = {v1}
    None = None
    Faults = {"crash", "remove"}
    SerialPresses = TRUE
    MaxPresses = 2
    MaxLoads = 2
    MaxPolls = 1
SYMMETRY StackSymmetry
INVARIANTS
    RecordsResumed
\* Presses and loads are bounded, so a run ends.
CHECK_DEADLOCK FALSE
