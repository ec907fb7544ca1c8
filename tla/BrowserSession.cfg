\* Two tabs, whose requests overlap in every order, or never.
SPECIFICATION Spec
CONSTANTS
    Ids = {i1, i2, i3}
    Tabs = {t1, t2}
    None = None
SYMMETRY Symmetric
INVARIANTS
    SignInCostsNothing
    DiscardIsDeserved
    NoUnreportedOrphans
PROPERTY SignOutIsReal
