\* Two requests, never both at one session, and one administrator.
SPECIFICATION ApartSpec
CONSTANTS
    Ids = {i1}
    Subjects = {s1}
    Callers = {c1, c2}
    Revokers = {r1}
    AbsoluteTTL = 2
    PersistentAbsoluteTTL = 3
    IdleTTL = 2
    IdleRefreshDivisor = 2
    MaxClock = 3
    None = None
SYMMETRY Symmetric
INVARIANTS
    UsedSessionsStay
    RevokedIsNotServed
PROPERTY LedgerKept
\* With its one id spent on a Create that failed and the clock at its bound,
\* this instance has nothing left to do.
CHECK_DEADLOCK FALSE
