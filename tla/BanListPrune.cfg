CONSTANTS
  Worker = {w1, w2}
  NoWorker = NoWorker
  PK = {k1, k2}
  NoPK = NoPK
  Address = {a}
  Unspecified = {u}
  Op = {"auto", "prune"}
  AutoLength = {2}
  ManualLength = {1}
  NegTTL = 1
  PermTTL = 2
  Grace = 0
SPECIFICATION Spec
PROPERTIES
  PruneKeepsActiveBans
