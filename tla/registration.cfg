SPECIFICATION Spec
CONSTANTS
    a = a
    b = b
    r1 = r1
    None = None
    Pipelines = {a, b}
    Replicas = {r1}
    Old = {1}
    Named = {2}
    MaxRequests = 1
    MaxAccidents = 1
SYMMETRY Symmetry
INVARIANTS
    TypeOK
    CounterGivesOwnTable
    FailedIsExplained
    ProcessedIsRegistered
    
    NoFileForgotten
CHECK_DEADLOCK FALSE
