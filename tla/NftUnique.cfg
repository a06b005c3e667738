\* A token with a single piece, whose metadata is updated on its way
CONSTANTS
  a1 = a1  a2 = a2  b1 = b1  b2 = b2  c1 = c1  s1 = s1  s2 = s2  s3 = s3
  ShardOf <- MCShardOf
  Accounts = {a1, a2, b1, c1}
  Shards = {s1, s2, s3}
  Contracts = {b1}
  Creators = {a1, b1, c1}
  Amounts = {1}
  MaxSupply = 1
  MaxVersion = 4
  MaxInFlight = 2
  InOrder = FALSE
  Commands = {"freeze", "freezeCollection"}
  EpochFlags <- ModernEpochs
SPECIFICATION Spec
INVARIANTS LatestMetadata
CHECK_DEADLOCK FALSE
