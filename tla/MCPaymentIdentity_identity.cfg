\* Two merchants that may come in any order, two routes at a time, one beneficiary
\* that may be given two credentials, one reset; a client and two finalized sets.
CONSTANTS
  Merchant = {m1, m2}
  Ben = {b1, b2}
  Client = {k1}
  Task = {t1, t2}
  None = None
  Capacity = 2
  SetSize = 2
  MinMerchants = 1
  MaxCredentials = 2
  MaxSeals = 2
  MaxResets = 1
  MaxTokens = 1
  MaxAccepted = 1
SPECIFICATION Spec
CONSTRAINTS
  OneSide
  OneTurn
  OnePayment
SYMMETRY Symmetry
INVARIANTS
  TypeOK
  
  ReadyToProve
  EnrolledKept
  PhaseMatches
  LocalCrsMatches
  
  PaymentsMeet
CHECK_DEADLOCK FALSE
