\* Transfers between shards under freezes, pauses, wipes and an epoch change
CONSTANTS
  s1 = s1  s2 = s2
  alice = alice  vault = vault  bob = bob
  Accounts <- MCAccounts
  Shards = {s1, s2}
  ShardOf <- MCShardOf
  Contracts = {vault}
  NonPayable = {vault}
  SystemSC = SystemSC
  Slots = {m1, m2}
  NoMsg = NoMsg
  Amounts = {1, 2}
  MaxSupply = 2
  MaxTransferAddresses = 1
  MaxRoleCopies = 1
  Subjects = {{"freeze", "wipe", "paused"}}
  EpochFlags <- AllEpochs
SPECIFICATION Spec
INVARIANTS TypeOK Conservation
PROPERTIES LockedBalance FreezeOutlivesReturn ImplementsBank
