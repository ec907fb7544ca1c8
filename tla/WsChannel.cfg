\* The sample channel, public or not, in three deployments, with two connections.
SPECIFICATION Spec
CONSTANTS
    Conn = {k1, k2}
    Sites = {a}
    admin = admin
    announce = announce
    Scopes = {admin, announce}
    Implies <- AdminImplies
    Deployments <- SampleDeployments
    Securities <- SampleSecurities
    Catalogs <- SampleCatalogs
    Wildcard = Wildcard
    Same = Same
    None = None
SYMMETRY Symmetric
INVARIANTS
    ForeignPagesReadNothing
    HandledMeansAllowed
    EndedOpensNothing
PROPERTY ClosedForItsOwnTrouble
\* A server that refuses its declarations, or that has shut down, stops.
CHECK_DEADLOCK FALSE
