\* Holders from before SaveToSystemAccountFlag when all flags are on
CONSTANTS
  a1 = a1  a2 = a2  b1 = b1  b2 = b2  c1 = c1  s1 = s1  s2 = s2  s3 = s3
  ShardOf <- MCShardOf
  Accounts = {a1, b1, b2}
  Shards = {s1, s2}
  Contracts = {}
  Creators = {a1}
  Amounts = {1, 2, 3}
  MaxSupply = 3
  MaxVersion = 1
  MaxInFlight = 1
  InOrder = TRUE
  Commands = {}
  EpochFlags <- LegacyEpochs
SPECIFICATION Spec
INVARIANTS MetadataAvailable
CHECK_DEADLOCK FALSE
