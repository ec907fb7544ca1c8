\* One other site, listed beside the wildcard or not.
SPECIFICATION Spec
CONSTANTS
    Sites = {a}
    Wildcard = Wildcard
    Same = Same
    None = None
INVARIANT WildcardMeansNoSessions
\* A deployment the startup checks refuse does not run.
CHECK_DEADLOCK FALSE
