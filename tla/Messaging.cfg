\* Two calls at once, with options written as a literal, and two messages of
\* other producers, readable or not.
SPECIFICATION MessagingFairSpec
CONSTANTS
    Own = {c1, c2}
    Others = {o1, o2}
    Spare = 0
    MaxFailures = 2
    Nothing = Nothing
INVARIANTS
    NothingVanishes
PROPERTIES
    GetsThrough
\* Every call has been made and every message dealt with.
CHECK_DEADLOCK FALSE
