\* The sample channel, a message after the session has ended.
SPECIFICATION Spec
CONSTANTS
    Conn = {k1, k2}
    Sites = {a}
    admin = admin
    announce = announce
    Scopes = {admin, announce}
    Implies <- AdminImplies
    Deployments <- SampleDeployments
    Securities <- SampleSecurities
    Catalogs <- SampleCatalogs
    Wildcard = Wildcard
    Same = Same
    None = None
SYMMETRY Symmetric
INVARIANT
    SignedOutEverywhere
CHECK_DEADLOCK FALSE
