\* Every table over three scopes, rows with empty names included.
SPECIFICATION FairSpec
CONSTANTS
    Scopes = {1, 2, 3}
    Empty = Empty
INVARIANTS
    ClosureIsExact
    DoneIsAcyclic
    CycleIsReal
    ExpandOnceIsEnough
PROPERTIES
    Terminates
\* The resolution ends.
CHECK_DEADLOCK FALSE
