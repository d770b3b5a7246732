CONSTANTS
    Clients = {r1}
    Loops = {controller, watchdog}
    Controller = controller
    Watchdog = watchdog
    Runtimes = {"docker", "kubernetes"}
    None = None
    MaxCalls = 4
    MaxFailures = 2
    MaxDeaths = 2
    MaxCrashes = 1
    MaxAccidents = 2
    MaxLag = 1
SPECIFICATION Spec
CHECK_DEADLOCK FALSE
INVARIANTS
    TypeOK
    ControllerStaysOut
    CalmAgrees
    CalmDeleteLosesNothing
    FailureIsFlagged
    DeathIsNoticed
    NoCallLeftHanging
    ConfigHasState
