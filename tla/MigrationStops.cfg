\* The migration of a trie: does a call go on while its gas pays for it?
CONSTANTS
  Leaves = {"l1", "l2", "l3"}
  Branches = {"root"}
  Prices <- MCPrices
  Gas = {0, 2, 3, 4, 5, 7}
  MaxUint64 = 7
SPECIFICATION MigrationSpec
INVARIANT MigratesWhilePaid
