CONSTANTS
  Worker = {w1, w2}
  Report = {f, g}
  Limit = 2
  MaxOver = 0
  Key = {k}
  NoKey = NoKey
  Site <- MCSite
  SessionTTL = 2
  RefreshTTL = 3
  TrustTTL = 4
  GrantTTL = 5
SPECIFICATION Spec
SYMMETRY MCPermutations
INVARIANTS
  TypeOK
  OneAnswer
  TrustHasEvidence
  SignInRecovers
  RowsBounded
