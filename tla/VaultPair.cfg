\* Two vaults of one sponsor with their own cliffs, sharing the sponsor's wallet and the treasury.
SPECIFICATION Spec
CONSTANTS
  v1 = v1
  v2 = v2
  sponsor = sponsor
  treasury = treasury
  source = source
  alice = alice
  bob = bob
  carol = carol
  SponsorFunds = 100
  YieldFunds = 100
  Vaults = {v1, v2}
  Wallets = {sponsor, treasury, source, alice}
  Creators = {alice}
  SponsorOf <- MCSponsorOf
  Treasury = treasury
  FEE_BPS = 200
  Indices = {0}
  AnyCreator = AnyCreator
  MIN_CLIFF_SECONDS = 1
  MAX_I64 = 2
  MAX_U8 = 255
  MAX_U64 = 2000000
  InitialFunds <- MCInitialFunds
  Durations = {1, 2}
  Amounts = {49, 100}
  Allocations = {10000}
  Scores = {60}
  Thresholds = {0}
  Payouts = {5000}
  Targets = {AnyCreator}
  Donors = {source}
INVARIANTS
  NothingLeftBehind
  FeeWithinRate
PROPERTIES
  EscrowSpec
CHECK_DEADLOCK FALSE
