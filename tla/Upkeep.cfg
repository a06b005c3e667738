\* The gas schedule, the migration of a trie, guardians, the deletion of
\* metadata, the parsers and the creators of a collection, each on its own
CONSTANTS
  t1 = t1  t2 = t2
  Functions = {"DCDTTransfer", "GuardAccount", "MigrateDataTrie"}
  LockOf <- MCLockOf
  Removable = {"MigrateDataTrie"}
  Threads = {t1, t2}
  Notifier = Notifier
  NoOne = NoOne
  NoFunction = NoFunction
  MaxSchedule = 2
  Leaves = {"l1", "l2", "l3"}
  Branches = {"root"}
  Prices <- MCPrices
  Gas = {0, 2, 3, 4, 5, 7}
  MaxUint64 = 7
  Guarded = {"a"}
  Candidates = {"a", "g", "h", "sc"}
  SmartContracts = {"sc"}
  Unsigned = "unsigned"
  ActivationDelay = 2
  MaxEpoch = 5
  Tokens = {13, 14}
  Nonces = {1, 2, 3}
  Requests <- MCRequests
  MaxWord = 31
  Addresses = {20, 22, 23}
  Contracts = {22, 23}
  ShardOfAddress <- MCShardOfAddress
  Data <- MCData
  TwoTo64 = 16
  TwoTo256 = 100
  a1 = a1  a2 = a2  b1 = b1  s1 = s1  s2 = s2
  Accounts = {a1, a2, b1}
  ShardOf <- MCShardOf
  Nobody = Nobody
  MaxNonce = 3
  MaxInFlight = 2
  MaxLosses = 1
  SenderFromOutput = FALSE
  m0 = m0  m1 = m1
  Minters = {m0, m1}
  LastByte <- MCLastByte
  LastBytes = 2
  TopNonce = 7
  MaxGrants = 2
SPECIFICATION UpkeepSpec
INVARIANTS UpkeepTypeOK NoTornCall MigrationExact ParserAgrees NonceUnique OneCreator RoleInv NoncesApart
PROPERTIES ScheduleReachesAll GuardianKept DeletesListed RoleArrives
