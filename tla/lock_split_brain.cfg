CONSTANTS
    Processes = {p1, p2}
    None = None
    TTL = 5
    Renew = 2
    Retry = 1
    MaxDelay = 1
    MaxFailures = 1
SPECIFICATION Spec
INVARIANTS
    OnlyHolderWorks
