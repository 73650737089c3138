\* Both layouts, every mint list up to one too long, two keys that take every role.
SPECIFICATION FairSpec
CONSTANTS
  usdc = usdc
  usdt = usdt
  Keys = {admin, server}
  Mints = {usdc, usdt}
  MintLists <- MCMintLists
  NoKey = NoKey
  MAX_U64 = 0
INVARIANT TypeOK
PROPERTIES
  RecordSpec
  ConfigRecovers
CHECK_DEADLOCK FALSE
