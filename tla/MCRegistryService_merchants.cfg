\* Two merchants that race for one id, a beneficiary, two finalizations of one
\* registry, a reset, a restart, clients that leave.
CONSTANTS
  Ops = {"merchant", "beneficiary", "finalize", "reset"}
  dust = dust
  exact = exact
  large = large
  Call = {c1, c2}
  Merchant = {m1, m2}
  Phi = {p1}
  Outpoint = {large}
  Sats <- MCSats
  Capacity = 1
  MinSats = 2
  MerchantFee = 2
  Free = Free
  ClientsLeave = TRUE
  MaxSeals = 2
  MaxResets = 1
  MaxRestarts = 1
SPECIFICATION Spec
SYMMETRY Symmetry
INVARIANTS
  AnswersHonoured
  SealedSetsNested
  RepeatedMerchantsSpanReset
  PoolAndListAgree
  BroadcastAccounted
PROPERTY ImplementsLedger
