\* A migrated config cannot be read until it is repaired.
SPECIFICATION Spec
CONSTANTS
  usdc = usdc
  usdt = usdt
  Keys = {admin, server}
  Mints = {usdc, usdt}
  MintLists <- MCMintLists
  NoKey = NoKey
  MAX_U64 = 0
INVARIANT MigratedIsReadable
CHECK_DEADLOCK FALSE
