CONSTANTS
    Consumers = {c1, c2}
    Topics = {t1}
    Orphans = {t1}
    Kinds = {"good", "huge"}
    None = None
    MaxLog = 2
    MaxPoll = 2
    MaxCrashes = 1
    MaxStops = 0
    MaxKicks = 1
    MaxOutages = 1
    MaxLostReplies = 1
SPECIFICATION Spec
SYMMETRY Symmetry
CHECK_DEADLOCK FALSE
INVARIANTS
    TypeOK
    NothingLostSilently
    DuplicatesArePaidFor
PROPERTIES
    CommitsOnlyAdvance
