\* Two overlapping requests with the same cookie.
SPECIFICATION Spec
CONSTANTS
    Ids = {i1}
    Subjects = {s1}
    Callers = {c1, c2}
    Revokers = {}
    AbsoluteTTL = 4
    PersistentAbsoluteTTL = 6
    IdleTTL = 3
    IdleRefreshDivisor = 3
    MaxClock = 6
    None = None
SYMMETRY Symmetric
INVARIANT UsedSessionsStay
\* With its one id spent on a Create that failed and the clock at its bound,
\* this instance has nothing left to do.
CHECK_DEADLOCK FALSE
