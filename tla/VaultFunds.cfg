\* One vault, one creator: money in, yield and bonuses out, close.
SPECIFICATION FairSpec
CONSTANTS
  v1 = v1
  v2 = v2
  sponsor = sponsor
  treasury = treasury
  source = source
  alice = alice
  bob = bob
  carol = carol
  SponsorFunds = 149
  YieldFunds = 149
  Vaults = {v1}
  Wallets = {sponsor, treasury, source, alice}
  Creators = {alice}
  SponsorOf <- MCSponsorOf
  Treasury = treasury
  FEE_BPS = 200
  Indices = {0, 1}
  AnyCreator = AnyCreator
  MIN_CLIFF_SECONDS = 1
  MAX_I64 = 2
  MAX_U8 = 255
  MAX_U64 = 1000000
  InitialFunds <- MCInitialFunds
  Durations = {0, 1}
  Amounts = {0, 49, 100}
  Allocations = {10000}
  Scores = {60, 101}
  Thresholds = {0, 60}
  Payouts = {5000, 10000}
  Targets = {AnyCreator}
  Donors = {source}
INVARIANTS
  TypeOK
  PrincipalCovered
PROPERTIES
  ClosedIsFinal
  MilestonePaysOnce
  VaultEventuallyCloses
CHECK_DEADLOCK FALSE
