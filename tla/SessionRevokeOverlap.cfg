\* Sign-out while another request with the same cookie is in flight.
SPECIFICATION Spec
CONSTANTS
    Ids = {i1}
    Subjects = {s1}
    Callers = {c1, c2}
    Revokers = {}
    AbsoluteTTL = 2
    PersistentAbsoluteTTL = 3
    IdleTTL = 2
    IdleRefreshDivisor = 2
    MaxClock = 3
    None = None
SYMMETRY Symmetric
INVARIANT RevokedIsNotServed
\* With its one id spent on a Create that failed and the clock at its bound,
\* this instance has nothing left to do.
CHECK_DEADLOCK FALSE
