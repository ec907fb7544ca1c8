SPECIFICATION Spec
CONSTANTS
    Component <- Components
    Kind <- ComponentKind
    Params <- AppParams
    Programs <- OnlyScheduler
    Timeout = 3
    GracefulStopTimeout = 1
    Subscriptions = 2
    Tasks = 2
    MaxInFlight = 1
    NoCode = NoCode
INVARIANTS FailedBuildCloses
CHECK_DEADLOCK FALSE
