\* Storage, names, the owner and rewards while the gas schedule and the epoch change
CONSTANTS
  u = u  v = v  c = c  d = d  s1 = s1  s2 = s2
  value = value
  NoValue = NoValue  NoName = NoName  name = name  key = key  reserved = reserved
  Accounts = {u, v, c, d}
  Shards = {s1, s2}
  ShardOf <- MCShardOf
  Contracts = {c, d}
  Savers = {u}
  Named = {v}
  Owned = c
  Owners = {u, v, d}
  Dns = {c, d}
  DnsV2 = {c, d}
  Names = {name}
  Keys = {key, reserved}
  Protected = {reserved}
  Values = {value}
  LengthOf <- MCLengthOf
  Schedules <- MCSchedules
  Repriced = {"SetUserName"}
  EpochFlags <- MCEpochs
  WordSize = 3
  Budget = 7
  Provided <- MCProvided
  MaxPairs = 2
  MaxInFlight = 2
  MaxRewards = 1
SPECIFICATION Spec
INVARIANTS TypeOK RewardsConserved
PROPERTIES GasNeverGrows StoragePaid NameCostsOnce
