------------------------------ MODULE MCMulti ------------------------------
(* Accounts a1 and a2 on shard s1, b1 on s2; metadata is sent once, then   *)
(* always.                                                                 *)
EXTENDS MultiTransfer

CONSTANTS a1, a2, b1, s1, s2

MCShardOf == [a \in Accounts |-> IF a = b1 THEN s2 ELSE s1]

OnceFlags == {"SaveToSystemAccountFlag", "CheckTransferFlag", "CheckFrozenCollectionFlag"}

AllFlags ==
  OnceFlags \cup {"SendAlwaysFlag", "FixOldTokenLiquidityFlag",
                  "AlwaysSaveTokenMetaDataFlag", "WipeSingleNFTLiquidityDecreaseFlag"}

OnceEpochs == <<OnceFlags, AllFlags>>
=============================================================================
