\* Two wallet processes and the reset route, two of them at work at once; two blocks,
\* two outputs, two keys with two addresses, one payment with two attempts.
SPECIFICATION Spec
CONSTANTS
  Key = {k1, k2}
  Daemon = {d1, d2}
  App = app
  Payment = {p1}
  None = None
  Torn = Torn
  Value = {2}
  Amount = 1
  MaxCoins = 2
  MaxHeight = 2
  MaxIndex = 2
  MaxBusy = 2
  Tries = 2
SYMMETRY Symmetry
INVARIANTS TypeOK  RescanBeforeRefusal KeysKept
PROPERTIES AddressesFresh
CONSTRAINTS MoneyOrAddresses OneAtTheTop
