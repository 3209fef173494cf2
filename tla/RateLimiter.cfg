CONSTANTS
  Worker = {w1, w2}
  Reason = {r1}
  Path = {p1}
  Who = {"anon"}
  Threshold = 3
  MinPaths = 1
  Window = 1
  BanLength = 1
  Soft = TRUE
  ThrottleTTL = 1
  LockTTL = 1
  Fault = {"lift", "crash", "outage", "evict"}
  Slack = 0
  MaxEvents = 5
  Burst = 1
  Hammer = 3
  MaxHits = 3
  MaxLost = 1
SPECIFICATION LimiterSpec
SYMMETRY MCPermutations
INVARIANTS
  LimitHolds
  BanSpansMinutes
