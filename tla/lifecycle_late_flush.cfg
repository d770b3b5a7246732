CONSTANTS
    Clients = {r1}
    Loops = {}
    Controller = controller
    Watchdog = watchdog
    Runtimes = {"kubernetes"}
    None = None
    MaxCalls = 4
    MaxFailures = 0
    MaxDeaths = 0
    MaxCrashes = 0
    MaxAccidents = 0
    MaxLag = 1
SPECIFICATION Spec
CHECK_DEADLOCK FALSE
INVARIANTS
    DeleteLosesNothing
