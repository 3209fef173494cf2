CONSTANTS
  Worker = {w1, w2}
  LockCount = 2
  LockWindow = 3
  LockMinutes = 3
  BanCount = 4
  BanEvery = 2
  BanWindow = 3
  BanMinutes = 1
  Fault = {"staff"}
  Slack = 1
  MaxFailures = 5
SPECIFICATION Spec
SYMMETRY MCPermutations
INVARIANTS
  TypeOK
  GuessesBounded
