\* A milestone's payout reaches a creator it was not meant for.
SPECIFICATION Spec
CONSTANTS
  v1 = v1
  v2 = v2
  sponsor = sponsor
  treasury = treasury
  source = source
  alice = alice
  bob = bob
  carol = carol
  SponsorFunds = 100
  YieldFunds = 50
  Vaults = {v1}
  Wallets = {sponsor, treasury, source, alice, bob}
  Creators = {alice, bob}
  SponsorOf <- MCSponsorOf
  Treasury = treasury
  FEE_BPS = 200
  Indices = {0}
  AnyCreator = AnyCreator
  MIN_CLIFF_SECONDS = 1
  MAX_I64 = 2
  MAX_U8 = 255
  MAX_U64 = 2000000
  InitialFunds <- MCInitialFunds
  Durations = {1}
  Amounts = {50, 100}
  Allocations = {5000, 10000}
  Scores = {60}
  Thresholds = {0, 60}
  Payouts = {5000}
  Targets = {AnyCreator, alice}
  Donors = {source}
PROPERTY BonusGoesToTarget
CHECK_DEADLOCK FALSE
