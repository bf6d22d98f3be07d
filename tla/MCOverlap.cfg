SPECIFICATION RSpec
CONSTANTS
    c1 = c1
    c2 = c2
    alice = alice
    bob = bob
    k1 = k1
    k2 = k2
    u1 = u1
    u2 = u2
    u3 = u3
    old = old
    new = new
    bad = bad
    None = None
    Clients = {c1, c2}
    Users = {alice, bob}
    UserOf <- TwoUsers
    Keys = {k1}
    ClientKeys = {k1}
    KeysOf <- SameKeys
    Stored = {k1}
    Vals = {old, bad}
    Valid = {old}
    UUIDs = {u1, u2}
    Serial = FALSE
    WithClearDraft = FALSE
SYMMETRY PeopleSymmetry
VIEW AllButAcked
INVARIANT RTypeOK
INVARIANT AdminHasRow
INVARIANT SavedWasVerified
INVARIANT EditFindsNoDraft
INVARIANT EditTakesOwnDraft
PROPERTY SavedIsTheDraft
 
PROPERTY OrphansAreBornLate
PROPERTY DeadContextStaysDead
