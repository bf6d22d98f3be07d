SPECIFICATION Spec
CONSTANTS
  f1 = f1
  f2 = f2
  v0 = v0
  v1 = v1
  v2 = v2
  Fields = {f1, f2}
  Values <- MCValues
  Short <- MCShort
  Failures = {"silent", "http", "cut"}
  MaxRequests = 3
  NoField = NoField
  NoMenu = NoMenu
SYMMETRY Symmetry
INVARIANTS OneLookup PendingBalance
PROPERTY MenuOpensForFocus
