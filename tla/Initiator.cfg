\* Chains of three hops, one after the other, for every claim list.
SPECIFICATION Spec
CONSTANTS
    Slot = {s1}
    tenant = tenant
    email = email
    scope = scope
    alice = alice
    cloud = cloud
    Subjects = {alice, cloud}
    ClaimNames = {tenant, email}
    Forbidden = {scope}
    ClaimLists <- Lists
    Foreign <- OtherProducers
    MaxReportedDroppedClaims = 1
    MaxHops = 3
    MaxWire = 1
    None = None
    EmptyName = EmptyName
    NotAnObject = NotAnObject
    Unmarked = Unmarked
    Entry = Entry
INVARIANTS
    NobodyElse
    OriginArrives
    DroppedIsBounded
\* A process whose claim list is refused does not start.
CHECK_DEADLOCK FALSE
