\* Every deployment and every endpoint, two other sites.
SPECIFICATION Spec
CONSTANTS
    Sites = {a, b}
    Wildcard = Wildcard
    Same = Same
    None = None
SYMMETRY Symmetric
INVARIANTS
    ForgedWritesStop
    DeclaredConditionsHold
    SuccessIsApproved
    OutageDecidesNothing
    CorsAgreesWithCsrf
\* A deployment the startup checks refuse does not run.
CHECK_DEADLOCK FALSE
