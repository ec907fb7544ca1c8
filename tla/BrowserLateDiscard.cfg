\* Two tabs: a sign-in overtakes the answer to an older request.
SPECIFICATION Spec
CONSTANTS
    Ids = {i1, i2}
    Tabs = {t1, t2}
    None = None
SYMMETRY Symmetric
PROPERTY DropsOnlyEnded
