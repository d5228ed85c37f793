\* Sets of four, lists of two or three merchants, four challenges, two set ids, names
\* of up to two cells.
SPECIFICATION Spec
CONSTANTS
  Byte = 2
  MaxLen = 2
  SetSize = 4
  M = 2
  MerchantLists <- MCLists
  Me = Me
  Other = Other
  None = None
  Layouts <- MCLayouts
  Secret <- MCSecret
  ChildSecret <- MCChildSecret
  Blinding <- MCBlinding
  NameScalar <- MCNameScalar
  Coins <- MCCoins
  Challenge = {1, 2, 3, 4}
  NullifierHash = 3
  SetId = {d1, d2}
SYMMETRY Symmetry
INVARIANTS CrsRoundTrip PrefixesRefused ProofsOpen ProofsBound
CHECK_DEADLOCK FALSE
