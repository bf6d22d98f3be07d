SPECIFICATION Spec
CONSTANTS
  s1 = s1
  s2 = s2
  None = None
  Servers = {s1, s2}
  Staggers = {1, 2, 4}
  BankSize = 2
  DefaultBankSize = 2
  MaxBankSize = 3
  StartSeqId = 3
  FirstRows = {0, 4}
  MaxRow = 8
INVARIANTS TypeOK BanksDisjoint
PROPERTY HandsOutUniqueIds
