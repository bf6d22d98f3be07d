SPECIFICATION FairSpec
CONSTANTS
    c1 = c1
    c2 = c2
    alice = alice
    bob = bob
    k1 = k1
    k2 = k2
    u1 = u1
    u2 = u2
    u3 = u3
    old = old
    new = new
    bad = bad
    None = None
    Clients = {c1, c2}
    Users = {alice, bob}
    UserOf <- TwoUsers
    Keys = {k1, k2}
    ClientKeys = {}
    KeysOf <- SameKeys
    Stored = {k1}
    Vals = {old, bad}
    Valid = {old}
    UUIDs = {u1, u2}
    Serial = TRUE
    WithClearDraft = TRUE
INVARIANT RowHasAdmin
INVARIANT DraftHoldsAcked
PROPERTY DraftsAreExclusive
PROPERTY DraftsEnd
