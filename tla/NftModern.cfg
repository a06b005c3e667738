\* A semi-fungible token with all flags on: liquidity and metadata
CONSTANTS
  a1 = a1  a2 = a2  b1 = b1  b2 = b2  c1 = c1  s1 = s1  s2 = s2  s3 = s3
  ShardOf <- MCShardOf
  Accounts = {a1, a2, b1}
  Shards = {s1, s2}
  Contracts = {b1}
  Creators = {a1, b1}
  Amounts = {0, 1, 2}
  MaxSupply = 3
  MaxVersion = 2
  MaxInFlight = 2
  InOrder = FALSE
  Commands = {"freeze", "wipe", "pause"}
  EpochFlags <- ModernEpochs
SPECIFICATION Spec
INVARIANTS TypeOK Conservation Liquidity MetadataAvailable
PROPERTIES NonceFreezeKept
CHECK_DEADLOCK FALSE
