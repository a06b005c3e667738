\* Lists of up to two tokens, twice in flight, with freezes and an epoch change
CONSTANTS
  a1 = a1  a2 = a2  b1 = b1  s1 = s1  s2 = s2
  ShardOf <- MCShardOf
  Accounts = {a1, a2, b1}
  Shards = {s1, s2}
  Contracts = {b1}
  Creators = {a1}
  Amounts = {2}
  MaxSupply = 4
  MaxVersion = 1
  MaxInFlight = 2
  MaxItems = 2
  MaxCoins = 2
  InOrder = TRUE
  Commands = {}
  Targets = {a1, b1, s2}
  EpochFlags <- OnceEpochs
SPECIFICATION MultiSpec
INVARIANTS MultiTypeOK Liquidity MetadataAvailable MultiLeftOutOnlyIfSent
PROPERTIES CoinFreezeKept ImplementsEscrow
CHECK_DEADLOCK FALSE
