------------------------------- MODULE MCNft -------------------------------
(* Accounts a1 and a2 on shard s1, b1 and b2 on s2, c1 on s3. *)
EXTENDS NftLedger

CONSTANTS a1, a2, b1, b2, c1, s1, s2, s3

MCShardOf ==
  [a \in Accounts |-> IF a \in {a1, a2} THEN s1 ELSE IF a = c1 THEN s3 ELSE s2]

\* Only metadata that is sent once to every shard (before SendAlwaysFlag)
OnceFlags == {"SaveToSystemAccountFlag", "CheckTransferFlag", "CheckFrozenCollectionFlag"}

\* All the flags of the repository that this component reads
AllFlags ==
  OnceFlags \cup {"SendAlwaysFlag", "FixOldTokenLiquidityFlag",
                  "AlwaysSaveTokenMetaDataFlag", "WipeSingleNFTLiquidityDecreaseFlag"}

ModernEpochs == <<AllFlags>>
OnceEpochs == <<OnceFlags, AllFlags>>
LegacyEpochs == <<{"CheckTransferFlag"}, AllFlags>>
FirstEpochs == <<{"CheckTransferFlag"}, OnceFlags>>
=============================================================================
