\* Two requests at once with every kind of amount; a value out of range gives
\* the smallest int.
SPECIFICATION OrdersSpec
CONSTANTS
    Request = {r1, r2}
    Caller = {"alice", "bob", "approver"}
    Limit <- MCLimit
    Stored <- MCStored
    UnknownId = "3"
    BadId = "x"
    Amounts <- MCAmounts
    Statuses = {"paid"}
    MaxTotal = 3
    OutOfRange <- MCSmallest
    None = None
INVARIANTS
    LastWriteIsAuthorized
    RetriedPutIsOnePut
PROPERTY
    AloneItKeepsTheAmount
\* Every request has been answered, or the process has ended.
CHECK_DEADLOCK FALSE
