\* Two beneficiaries and three payments that both may quote: one too small, one
\* exact, one that pays for two commitment transactions.  Three calls at a time,
\* two finalizations, a restart, clients that leave.
CONSTANTS
  Ops = {"beneficiary", "finalize"}
  dust = dust
  exact = exact
  large = large
  Call = {c1, c2, c3}
  Merchant = {m1}
  Phi = {p1, p2}
  Outpoint = {dust, exact, large}
  Sats <- MCSats
  Capacity = 2
  MinSats = 2
  MerchantFee = 2
  Free = Free
  ClientsLeave = TRUE
  MaxSeals = 2
  MaxResets = 0
  MaxRestarts = 1
SPECIFICATION Spec
SYMMETRY Symmetry
INVARIANTS
  TypeOK
  MembersUnique
  
  ActiveSetsAnchored
