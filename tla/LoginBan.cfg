CONSTANTS
  Worker = {w1, w2}
  LockCount = 1
  LockWindow = 1
  LockMinutes = 2
  BanCount = 2
  BanEvery = 2
  BanWindow = 2
  BanMinutes = 2
  Fault = {"staff", "outage", "evict"}
  Slack = 1
  MaxFailures = 2
SPECIFICATION FairSpec
PROPERTIES
  BanHasEvidence
  LockEnds
  GuardKeepsLedger
