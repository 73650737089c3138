\* All components on their smallest instance, with and without an older build's config.
SPECIFICATION FairSpec
CONSTANTS
  v1 = v1
  sponsor = sponsor
  treasury = treasury
  source = source
  alice = alice
  b1 = b1
  usdc = usdc
  donor = donor
  Vaults = {v1}
  Campaign = v1
  Wallets = {sponsor, treasury, source, alice}
  Creators = {alice}
  SponsorOf <- MCSponsorOf
  Treasury = treasury
  Indices = {0}
  AnyCreator = AnyCreator
  MIN_CLIFF_SECONDS = 1
  MAX_I64 = 1
  MAX_U8 = 255
  MAX_U32 = 3
  MAX_U64 = 2000000
  VaultFunds <- MCVaultFunds
  Durations = {1}
  Amounts = {50}
  Allocations = {10000}
  Scores = {60, 101}
  Thresholds = {60}
  Payouts = {10000}
  Targets = {AnyCreator}
  VaultDonors = {source}
  Bettors = {b1}
  PoolDonors = {donor}
  PoolToken = PoolToken
  PoolFunds <- MCPoolFunds
  Stakes = {2}
  Keys = {treasury}
  Mints = {usdc}
  MintLists <- MCMintLists
  NoKey = NoKey
  VaultMint = usdc
  Earnings = {10}
  MAX_CAMPAIGNS = 2
INVARIANTS
  FeeAsRecorded
  FundsNeverFrozen
PROPERTIES
  PoolEventuallySettled
  FundsArePaidOut
  ReputationCatchesUp
  PoolSpec
CHECK_DEADLOCK FALSE
