----------------------------- MODULE MCFungible -----------------------------
(* A user and a non-payable contract on shard s1, a user on shard s2.      *)
EXTENDS FungibleLedger

CONSTANTS s1, s2, alice, vault, bob

MCAccounts == {alice, vault, bob}
MCShardOf == [a \in MCAccounts |-> IF a = bob THEN s2 ELSE s1]

AllFlags == {"FixAsyncCallbackCheckFlag", "CheckFunctionArgumentFlag",
  "GlobalMintBurnFlag", "DCDTTransferRoleFlag", "SendAlwaysFlag",
  "CheckCorrectTokenIDForTransferRoleFlag"}

\* The first epoch of the chain, then one with every flag enabled
AllEpochs == <<{"GlobalMintBurnFlag"}, AllFlags>>
=============================================================================
