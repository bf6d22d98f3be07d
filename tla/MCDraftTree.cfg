SPECIFICATION Spec
CONSTANTS
    None = None
    good = good
    bad = bad
    Ids = {1, 2, 3, 4, 5, 6}
    Keys = {1, 2, 3, 4, 5, 6}
    FirstRows <- MCRows
    Vals = {good, bad}
    Valid = {good}
    MaxDepth = 3
    MaxRequests = 5
    Cascades = {0, 1}
INVARIANT TypeOK
INVARIANT LeftoversAreDeep
PROPERTY SavedAsDrafted
PROPERTY WritesVerified
CHECK_DEADLOCK FALSE
