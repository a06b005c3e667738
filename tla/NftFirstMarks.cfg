\* The first epoch with entries and marks: holders from before it
CONSTANTS
  a1 = a1  a2 = a2  b1 = b1  b2 = b2  c1 = c1  s1 = s1  s2 = s2  s3 = s3
  ShardOf <- MCShardOf
  Accounts = {a1, b1, c1}
  Shards = {s1, s2, s3}
  Contracts = {b1}
  Creators = {a1}
  Amounts = {2}
  MaxSupply = 4
  MaxVersion = 2
  MaxInFlight = 2
  InOrder = TRUE
  Commands = {}
  EpochFlags <- FirstEpochs
SPECIFICATION Spec
INVARIANTS LeftOutOnlyIfSent
CHECK_DEADLOCK FALSE
