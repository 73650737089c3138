\* The pool can be settled before the campaign ends.
SPECIFICATION Spec
CONSTANTS
  b1 = b1
  b2 = b2
  b3 = b3
  b4 = b4
  donor = donor
  Bettors = {b1, b2, b3}
  Donors = {donor}
  PoolToken = PoolToken
  InitialFunds <- MCInitialFunds
  Stakes = {2, 5}
  END_TS = 1
  MAX_I64 = 1
  MAX_U32 = 3
  MAX_U64 = 105
INVARIANT SettledAfterEnd
CHECK_DEADLOCK FALSE
