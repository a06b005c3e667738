--------------------------- MODULE ShardCreators ---------------------------
(***************************************************************************)
(* A collection that is created on several shards at once: every creator   *)
(* has DCDTRoleNFTCreateMultiShard besides the create role, and numbers    *)
(* from a start of its own, which is computed from the last byte of its    *)
(* address.  DCDTSetRole and DCDTUnSetRole both store that start over the  *)
(* latest nonce of the account.                                            *)
(*                                                                         *)
(* External: the system contract never gives the role to an account that   *)
(* has it, nor to two accounts whose addresses end with the same byte.  It *)
(* may give it again to an account that it took it from, and the numbering *)
(* of that account then starts again.                                      *)
(***************************************************************************)
EXTENDS Integers

CONSTANTS
  Minters,      \* the accounts that may become creators
  LastByte,     \* the last byte of the address of a creator
  LastBytes,    \* how many values a byte has (256)
  TopNonce,     \* the largest nonce (math.MaxUint64)
  MaxGrants     \* no account is given the role more often (a bound)

ASSUME ShardCreatorsAssumption ==
  /\ LastBytes \in Nat \ {0} /\ TopNonce \in Nat /\ MaxGrants \in Nat
  /\ LastByte \in [Minters -> 0..(LastBytes - 1)]
  /\ \A a, b \in Minters : LastByte[a] = LastByte[b] => a = b

VARIABLES
  minted,       \* minted[a]: the nonce stored under the nonce key of a
  mayMint,      \* mayMint[a]: the create role is in the list of roles of a
  mayAdd,       \* mayAdd[a]: so is DCDTRoleNFTAddQuantity
  grants,       \* history: grants[a] is how often a was given the role
  minting       \* history: minting[n] is how often nonce n was created

shardVars == <<minted, mayMint, mayAdd, grants, minting>>

\* The nonces that belong to one last byte
RangeSize == TopNonce \div LastBytes

\* computeStartNonce
StartNonce(a) == RangeSize * LastByte[a]

RangeOf(a) == (StartNonce(a) + 1)..(StartNonce(a) + RangeSize)

ShardInit ==
  /\ minted = [a \in Minters |-> 0]
  /\ mayMint = [a \in Minters |-> FALSE]
  /\ mayAdd = [a \in Minters |-> FALSE]
  /\ grants = [a \in Minters |-> 0]
  /\ minting = [n \in 0..TopNonce |-> 0]

\* A mutant: the start is stored whatever the roles are.
NonceAfterAnyRoles(a, changed) == [minted EXCEPT ![a] = StartNonce(a)]

\* The roles changed decide whether the start is stored.
NonceAfterRoles(a, changed) ==
  IF "multiShard" \in changed THEN [minted EXCEPT ![a] = StartNonce(a)] ELSE minted

\* DCDTSetRole with the roles of a multi-shard creator
GrantMultiShard(a) ==
  /\ ~mayMint[a]
  /\ grants[a] < MaxGrants
  /\ grants' = [grants EXCEPT ![a] = @ + 1]
  /\ mayMint' = [mayMint EXCEPT ![a] = TRUE]
  /\ minted' = NonceAfterRoles(a, {"create", "multiShard"})
  /\ UNCHANGED <<mayAdd, minting>>

\* DCDTUnSetRole of the same: the start is stored again.
RevokeMultiShard(a) ==
  /\ mayMint[a]
  /\ mayMint' = [mayMint EXCEPT ![a] = FALSE]
  /\ minted' = NonceAfterRoles(a, {"create", "multiShard"})
  /\ UNCHANGED <<mayAdd, grants, minting>>

\* DCDTSetRole and DCDTUnSetRole of a role that has nothing to do with nonces
ChangeOtherRole(a, set) ==
  /\ mayAdd' = [mayAdd EXCEPT ![a] = set]
  /\ minted' = NonceAfterRoles(a, {"addQuantity"})
  /\ UNCHANGED <<mayMint, grants, minting>>

(* DCDTNFTCreate.  A creator never uses up its range (a bound, which the   *)
(* comment of computeStartNonce puts at 14 million years).                 *)
Mint(a) ==
  LET next == (minted[a] + 1) % (TopNonce + 1) IN
  /\ mayMint[a]
  /\ minted[a] < StartNonce(a) + RangeSize
  /\ minted' = [minted EXCEPT ![a] = next]
  /\ minting' = [minting EXCEPT ![next] = @ + 1]
  /\ UNCHANGED <<mayMint, mayAdd, grants>>

ShardNext ==
  \E a \in Minters :
    \/ GrantMultiShard(a) \/ RevokeMultiShard(a) \/ Mint(a)
    \/ \E set \in BOOLEAN : ChangeOtherRole(a, set)

ShardSpec == ShardInit /\ [][ShardNext]_shardVars
-----------------------------------------------------------------------------
(* Properties *)

ShardTypeOK ==
  /\ minted \in [Minters -> 0..TopNonce]
  /\ mayMint \in [Minters -> BOOLEAN]
  /\ mayAdd \in [Minters -> BOOLEAN]
  /\ grants \in [Minters -> Nat]
  /\ minting \in [0..TopNonce -> Nat]

(* NoncesApart: no nonce of the collection is created by two creators on   *)
(* different shards, none is zero, which is the nonce of fungible tokens,  *)
(* and a creator creates one of its own again only after the role was      *)
(* taken from it and given again; other roles that come and go in between  *)
(* do not rewind its numbering (computeStartNonce against what             *)
(* DCDTNFTCreate adds to it).                                              *)
NoncesApart ==
  /\ minting[0] = 0
  /\ \A n \in 0..TopNonce :
       minting[n] > 0 =>
         \E a \in Minters : n \in RangeOf(a) /\ minting[n] <= grants[a]

(* The invariant behind it: a creator is within its range, and what it has *)
(* not reached there was created in the times before this one only.        *)
ShardInv ==
  /\ ShardTypeOK
  /\ \A n \in 0..TopNonce : minting[n] > 0 => \E a \in Minters : n \in RangeOf(a)
  /\ \A a \in Minters :
       /\ \A n \in RangeOf(a) : minting[n] <= grants[a]
       /\ mayMint[a] =>
            /\ minted[a] \in StartNonce(a)..(StartNonce(a) + RangeSize)
            /\ \A n \in RangeOf(a) : n > minted[a] => minting[n] < grants[a]
=============================================================================
