CONSTANTS
  Worker = {w1, w2, w3}
  NoWorker = NoWorker
  PK = {k1, k2}
  NoPK = NoPK
  Address = {a}
  Unspecified = {u}
  Op = {"check", "auto", "evict", "crash"}
  AutoLength = {1, 2}
  ManualLength = {1}
  NegTTL = 1
  PermTTL = 2
  Grace = 0
SPECIFICATION Spec
SYMMETRY MCPermutations
INVARIANTS
  CachedBanIsBacked
  OneBannerPerBan
PROPERTIES
  DetectorsKeepLedger
