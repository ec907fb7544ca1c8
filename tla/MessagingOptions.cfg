\* Options built with append, with room for one more.
SPECIFICATION MessagingSpec
CONSTANTS
    Own = {c1, c2}
    Others = {}
    Spare = 1
    MaxFailures = 0
    Nothing = Nothing
INVARIANT
    OverridesStayApart
CHECK_DEADLOCK FALSE
