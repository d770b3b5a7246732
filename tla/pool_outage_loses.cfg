CONSTANTS
    Consumers = {c1}
    Topics = {t1}
    Orphans = {}
    Kinds = {"good"}
    None = None
    MaxLog = 2
    MaxPoll = 1
    MaxCrashes = 0
    MaxStops = 0
    MaxKicks = 0
    MaxOutages = 1
    MaxLostReplies = 0
SPECIFICATION Spec
CHECK_DEADLOCK FALSE
INVARIANTS
    CommittedIsHandled
