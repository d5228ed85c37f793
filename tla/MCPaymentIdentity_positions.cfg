\* Two merchants, one beneficiary, one route at a time, nothing lost or reset.
CONSTANTS
  Merchant = {m1, m2}
  Ben = {b1}
  Client = {}
  Task = {t1}
  None = None
  Capacity = 1
  SetSize = 1
  MinMerchants = 2
  MaxCredentials = 1
  MaxSeals = 1
  MaxResets = 0
  MaxTokens = 1
  MaxAccepted = 1
SPECIFICATION Spec
CONSTRAINT OneSide
INVARIANT RegisteredCanPay
CHECK_DEADLOCK FALSE
