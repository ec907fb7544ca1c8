\* Two overlapping requests and one administrator.
SPECIFICATION Spec
CONSTANTS
    Ids = {i1}
    Subjects = {s1}
    Callers = {c1, c2}
    Revokers = {r1}
    AbsoluteTTL = 2
    PersistentAbsoluteTTL = 4
    IdleTTL = 3
    IdleRefreshDivisor = 3
    MaxClock = 4
    None = None
SYMMETRY Symmetric
VIEW SafetyView
INVARIANTS
    RevokeSubjectHolds
    NotFoundIsEarned
    AbsoluteDeadlineHolds
PROPERTY GoneStaysGone
\* With its one id spent on a Create that failed and the clock at its bound,
\* this instance has nothing left to do.
CHECK_DEADLOCK FALSE
