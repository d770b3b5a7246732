SPECIFICATION Spec
CONSTANTS
    a = a
    r1 = r1
    r2 = r2
    None = None
    Pipelines = {a}
    Replicas = {r1, r2}
    Old = {}
    Named = {}
    MaxRequests = 0
    MaxAccidents = 0
INVARIANTS
    RegisteredOnce
CHECK_DEADLOCK FALSE
