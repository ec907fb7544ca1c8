\* One tab that goes on asking for pages.
SPECIFICATION FairSpec
CONSTANTS
    Ids = {i1, i2}
    Tabs = {t1}
    None = None
PROPERTY DeadCookieGoes
