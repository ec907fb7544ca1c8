\* The same instance, with the payment key among the keys a deployment may list.
SPECIFICATION Spec
CONSTANTS
    Node = {n1, n2}
    Request = {r1, r2}
    IssuedKey = {k}
    DevAPIKey = DevAPIKey
    DevPaymentAPIKey = DevPaymentAPIKey
    OwnKey = OwnKey
    Modes = {"hs256", "jwks", "other"}
    SessionStores = {"unset", "redis", "memory"}
    Shared = Shared
    MaxTime = 2
SYMMETRY Symmetric
INVARIANT PaymentKeyStaysLocal
\* A refused startup is the end.
CHECK_DEADLOCK FALSE
