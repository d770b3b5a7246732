CONSTANTS
    Consumers = {c1, c2}
    Topics = {t1}
    Orphans = {}
    Kinds = {"good", "poison"}
    None = None
    MaxLog = 2
    MaxPoll = 1
    MaxCrashes = 1
    MaxStops = 0
    MaxKicks = 1
    MaxOutages = 0
    MaxLostReplies = 0
SPECIFICATION FairSpec
CHECK_DEADLOCK FALSE
PROPERTIES
    ImplementsContract
    EventuallyDrained
