\* An approval and a PUT that arrives between its read and its save;
\* whole amounts only.
SPECIFICATION OrdersSpec
CONSTANTS
    Request = {r1, r2}
    Caller = {"alice", "bob", "approver"}
    Limit <- MCLimit
    Stored <- MCStored
    UnknownId = "3"
    BadId = "x"
    Amounts <- MCWholeAmounts
    Statuses = {"paid"}
    MaxTotal = 3
    OutOfRange <- MCSmallest
    None = None
PROPERTY
    KeepsTheAmount
\* Every request has been answered, or the process has ended.
CHECK_DEADLOCK FALSE
