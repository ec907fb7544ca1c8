SPECIFICATION Spec
CONSTANTS
    Component <- Components
    Kind <- ComponentKind
    Params <- AppParams
    Programs <- AllPrograms
    Timeout = 3
    GracefulStopTimeout = 1
    Subscriptions = 2
    Tasks = 2
    MaxInFlight = 1
    NoCode = NoCode
INVARIANTS WorkHasItsInfra CleanExitIsClean FailedStartIsUndone
PROPERTIES SupervisorPromise DeadServerEndsProcess
CHECK_DEADLOCK FALSE
