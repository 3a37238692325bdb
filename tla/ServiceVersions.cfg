SPECIFICATION Spec
CONSTANTS
    None = None
    Word = Word
    Label <- MCLabel
    OwnLabel = None
    TagVersion = None
    HasSource = TRUE
    Faults = {"crash", "transient", "no_list", "denied", "no_target", "no_labels", "bad_json", "no_digest", "command", "unwatched", "reload", "elsewhere", "overlap"}
    MaxBuilds = 1
    MaxPresses = 2
    MaxFaults = 1
INVARIANTS
    TypeOK
    RecordTruthful
    DetectedHonest
PROPERTIES
    HistoryChained
    HistoryShown
    OutdatedEnds
    VersionShown
\* Every loop of the entry goes on for ever: the system never stops.
