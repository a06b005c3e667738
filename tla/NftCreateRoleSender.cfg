\* The hand-over comes from the SenderAddress that the code gives it (no nonce
\* is created: the states are finite)
CONSTANTS
  a1 = a1  a2 = a2  b1 = b1  s1 = s1  s2 = s2
  Accounts = {a1, a2, b1}
  ShardOf <- MCShardOf
  Nobody = Nobody
  MaxNonce = 0
  MaxInFlight = 2
  MaxLosses = 0
  SenderFromOutput = TRUE
SPECIFICATION FairSpec
PROPERTY RoleArrives
