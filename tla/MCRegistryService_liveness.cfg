\* Two calls at a time whose clients stay, a reset, no restart: deadlock and
\* starvation would show.  No symmetry, as the properties are temporal.
CONSTANTS
  Ops = {"merchant", "beneficiary", "finalize", "reset", "subscribe"}
  dust = dust
  exact = exact
  large = large
  Call = {c1, c2}
  Merchant = {m1}
  Phi = {p1}
  Outpoint = {large}
  Sats <- MCSats
  Capacity = 1
  MinSats = 2
  MerchantFee = 2
  Free = Free
  ClientsLeave = FALSE
  MaxSeals = 1
  MaxResets = 1
  MaxRestarts = 0
SPECIFICATION FairSpec
PROPERTIES
  CallsEnd
  SubscribersServed
