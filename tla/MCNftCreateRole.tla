-------------------------- MODULE MCNftCreateRole --------------------------
(* Two accounts on shard s1 and one on shard s2. *)
EXTENDS NftCreateRole

CONSTANTS a1, a2, b1, s1, s2

MCShardOf == [a \in {a1, a2, b1} |-> IF a = b1 THEN s2 ELSE s1]
=============================================================================
