CONSTANTS
    Consumers = {c1, c2}
    Topics = {t1, t2}
    Orphans = {}
    Kinds = {"good", "unmappable", "poison"}
    None = None
    MaxLog = 2
    MaxPoll = 2
    MaxCrashes = 0
    MaxStops = 1
    MaxKicks = 0
    MaxOutages = 0
    MaxLostReplies = 0
SPECIFICATION Spec
SYMMETRY Symmetry
CHECK_DEADLOCK FALSE
INVARIANTS
    CommittedIsHandled
    DuplicatesArePaidFor
    OnlyBadRecordsDeadLetter
    OneCommitter
