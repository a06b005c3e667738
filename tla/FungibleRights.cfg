\* Roles, limits and freezes change meanwhile, and what is in flight settles
CONSTANTS
  s1 = s1  s2 = s2
  alice = alice  vault = vault  bob = bob
  Accounts <- MCAccounts
  Shards = {s1, s2}
  ShardOf <- MCShardOf
  Contracts = {vault}
  NonPayable = {vault}
  SystemSC = SystemSC
  Slots = {m1}
  NoMsg = NoMsg
  Amounts = {1}
  MaxSupply = 1
  MaxTransferAddresses = 1
  MaxRoleCopies = 2
  Subjects = {{"limited", "transfer", "addresses"},
              {"freeze", "burnForAll", "localMint"}}
  EpochFlags <- AllEpochs
SPECIFICATION FairSpec
PROPERTIES LimitedTransferHonoured InFlightSettles
