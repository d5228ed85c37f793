\* One finalization, nothing lost on the way.
CONSTANTS
  Ops = {"beneficiary", "finalize"}
  dust = dust
  exact = exact
  large = large
  Call = {c1, c2}
  Merchant = {m1}
  Phi = {p1}
  Outpoint = {large}
  Sats <- MCSats
  Capacity = 1
  MinSats = 2
  MerchantFee = 2
  Free = Free
  ClientsLeave = FALSE
  MaxSeals = 1
  MaxResets = 0
  MaxRestarts = 0
SPECIFICATION Spec
INVARIANT Reconstructable
