\* One vault, three creators, a full member_count at two: the squad and its yield.
SPECIFICATION Spec
CONSTANTS
  v1 = v1
  v2 = v2
  sponsor = sponsor
  treasury = treasury
  source = source
  alice = alice
  bob = bob
  carol = carol
  SponsorFunds = 0
  YieldFunds = 200
  Vaults = {v1}
  Wallets = {sponsor, treasury, source, alice, bob, carol}
  Creators = {alice, bob, carol}
  SponsorOf <- MCSponsorOf
  Treasury = treasury
  FEE_BPS = 200
  Indices = {}
  AnyCreator = AnyCreator
  MIN_CLIFF_SECONDS = 1
  MAX_I64 = 1
  MAX_U8 = 2
  MAX_U64 = 2000000
  InitialFunds <- MCInitialFunds
  Durations = {1}
  Amounts = {50, 100}
  Allocations = {0, 2500, 5000, 10000, 10001}
  Scores = {60}
  Thresholds = {60}
  Payouts = {5000}
  Targets = {AnyCreator}
  Donors = {source}
INVARIANTS
  SquadBooks
  YieldBooks
  YieldComesFromOutside
SYMMETRY MCSymmetry
CHECK_DEADLOCK FALSE
