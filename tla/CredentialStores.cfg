\* Two overlapping lookups, one issued key whose expiry the clock passes, every
\* environment, list of keys and backend, and a browser on two nodes.
SPECIFICATION Spec
CONSTANTS
    Node = {n1, n2}
    Request = {r1, r2}
    IssuedKey = {k}
    DevAPIKey = DevAPIKey
    DevPaymentAPIKey = DevPaymentAPIKey
    OwnKey = OwnKey
    Modes = {"hs256", "jwks", "other"}
    SessionStores = {"unset", "redis", "memory"}
    Shared = Shared
    MaxTime = 2
SYMMETRY Symmetric
INVARIANTS
    DefaultsOpenNothing
    OverIsOver
    GoodKeysAreNotInvalid
    NobodyIsWidened
    SignOutReachesEveryNode
\* A refused startup is the end.
CHECK_DEADLOCK FALSE
