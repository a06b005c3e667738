\* Metadata is sent once to every shard: three shards, messages in order
CONSTANTS
  a1 = a1  a2 = a2  b1 = b1  b2 = b2  c1 = c1  s1 = s1  s2 = s2  s3 = s3
  ShardOf <- MCShardOf
  Accounts = {a1, b1, c1}
  Shards = {s1, s2, s3}
  Contracts = {b1}
  Creators = {a1}
  Amounts = {2}
  MaxSupply = 4
  MaxVersion = 2
  MaxInFlight = 2
  InOrder = TRUE
  Commands = {"metadata"}
  EpochFlags <- OnceEpochs
SPECIFICATION Spec
INVARIANTS Liquidity MetadataAvailable LeftOutOnlyIfSent
CHECK_DEADLOCK FALSE
