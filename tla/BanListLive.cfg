CONSTANTS
  Worker = {w1, w2}
  NoWorker = NoWorker
  PK = {k1, k2, k3}
  NoPK = NoPK
  Address = {a}
  Unspecified = {u}
  Op = {"check", "auto", "ban", "permanent", "lift", "crash", "save", "unbanAll"}
  AutoLength = {1}
  ManualLength = {1}
  NegTTL = 2
  PermTTL = 2
  Grace = 0
SPECIFICATION FairSpec
PROPERTIES
  BanTakesHold
  LiftTakesHold
