----------------------------- MODULE MCAccount -----------------------------
(* User u and contract d on shard s1; user v and contract c, which has an  *)
(* owner, on s2.  Both contracts give names.                               *)
EXTENDS AccountCalls

CONSTANTS u, v, c, d, s1, s2, name, key, reserved, value

MCShardOf == [a \in Accounts |-> IF a \in {u, d} THEN s1 ELSE s2]

MCLengthOf == (NoValue :> 0) @@ (value :> 1)

Schedule(cost, perByte) ==
  [SaveKeyValue |-> cost, SetUserName |-> cost, DeleteUserName |-> cost,
   ClaimDeveloperRewards |-> cost, ChangeOwnerAddress |-> cost,
   PersistPerByte |-> 1, StorePerByte |-> perByte]

MCSchedules == <<Schedule(1, 2), Schedule(2, 2)>>

MCProvided ==
  [f \in Functions |-> CASE f = "SaveKeyValue" -> {2, 7}
                        [] f = "SetUserName" -> {1, 4}
                        [] OTHER -> {4}]

MCEpochs == <<{}, {"FixGasRemainingForSaveKeyValueFlag", "ChangeUsernameFlag",
                   "IsChangeOwnerAddressCrossShardThroughSCFlag"}>>
=============================================================================
