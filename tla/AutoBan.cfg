CONSTANTS
  Worker = {w1, w2}
  Reason = {r1}
  Path = {p1, p2}
  Who = {"anon", "user"}
  Threshold = 3
  MinPaths = 2
  Window = 1
  BanLength = 1
  Soft = TRUE
  ThrottleTTL = 1
  LockTTL = 2
  Fault = {"lift", "crash", "outage", "evict"}
  Slack = 1
  MaxEvents = 4
SPECIFICATION Spec
SYMMETRY MCPermutations
INVARIANTS
  TypeOK
  BanHasEvidence
  OneWriter
  OffendersAreBanned
PROPERTIES
  EvaluationsKeepLedger
