\* Two RevokeSubject calls for one subject at once.
SPECIFICATION Spec
CONSTANTS
    Ids = {i1}
    Subjects = {s1}
    Callers = {c1}
    Revokers = {r1, r2}
    AbsoluteTTL = 2
    PersistentAbsoluteTTL = 3
    IdleTTL = 3
    IdleRefreshDivisor = 3
    MaxClock = 3
    None = None

INVARIANT RevokeSubjectHolds
