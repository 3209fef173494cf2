CONSTANTS
  Worker = {w1, w2}
  NoWorker = NoWorker
  PK = {k1, k2, k3}
  NoPK = NoPK
  Address = {a, u}
  Unspecified = {u}
  Op = {"check", "auto", "ban", "lift", "permanent", "unbanAll", "prune", "save", "erase", "evict", "crash"}
  AutoLength = {2}
  ManualLength = {0, 3}
  NegTTL = 1
  PermTTL = 2
  Grace = 1
SPECIFICATION Spec
SYMMETRY MCPermutations
INVARIANTS
  TypeOK
  TransactionSeesItsRow
PROPERTIES
  DetectorsKeepActiveBans
