\* Four bettors for three places: every outcome and every order of claims.
SPECIFICATION FairSpec
CONSTANTS
  b1 = b1
  b2 = b2
  b3 = b3
  b4 = b4
  donor = donor
  Bettors = {b1, b2, b3, b4}
  Donors = {donor}
  PoolToken = PoolToken
  InitialFunds <- MCInitialFunds
  Stakes = {2, 3, 7}
  END_TS = 1
  MAX_I64 = 1
  MAX_U32 = 3
  MAX_U64 = 80
INVARIANTS
  TypeOK
  StakesMatch
  PoolSolvent
  WinnersNeverLose
  DustBounded
  PotConserved
  OnlyWidthStopsAClaim
PROPERTIES
  SettlementIsFinal
  WinnersGetPaid
CHECK_DEADLOCK FALSE
