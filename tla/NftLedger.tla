----------------------------- MODULE NftLedger -----------------------------
(***************************************************************************)
(* One nonce of one NFT (or semi-fungible) collection on several shards.   *)
(*                                                                         *)
(* Who holds how much is on the accounts.  The metadata was kept there     *)
(* too, and moved to one entry on the system account of each shard with    *)
(* SaveToSystemAccountFlag.  At first a shard sent the metadata along only *)
(* once to every other shard; since SendAlwaysFlag it is in every transfer *)
(* and the entry counts what the accounts of its shard hold, its           *)
(* liquidity: it is deleted when the last of it leaves.                    *)
(*                                                                         *)
(* A call that returns an error leaves no trace, except for the            *)
(* destination half of a transfer, which the node sends back.              *)
(***************************************************************************)
EXTENDS Integers, Sequences, SequencesExt

CONSTANTS
  Accounts,
  Shards,
  ShardOf,      \* Compute of the shard coordinator: the shard of an account
  Contracts,    \* accounts that may refuse a transfer: not payable, or the
                \* call that follows the transfer fails
  Creators,     \* accounts with the roles to create, add quantity and update
  Amounts,      \* the amounts that calls pass
  MaxSupply,    \* the supply does not exceed this (a bound)
  MaxVersion,   \* how many versions of the metadata there are (a bound)
  MaxInFlight,  \* how many messages are in flight at one time (a bound)
  InOrder,      \* messages between two shards are executed in order
  Commands,     \* what the system contract does in this instance
  EpochFlags    \* EpochFlags[e]: the flags enabled in epoch e

NoMeta == 0     \* a nil TokenMetaData; versions count from 1

ASSUME NftAssumption ==
  /\ ShardOf \in [Accounts -> Shards]
  /\ Contracts \subseteq Accounts /\ Creators \subseteq Accounts
  /\ Amounts \subseteq Nat
  /\ IsFiniteSet(Accounts)
  /\ MaxSupply \in Nat /\ MaxVersion \in Nat \ {0} /\ MaxInFlight \in Nat
  /\ InOrder \in BOOLEAN
  /\ DOMAIN EpochFlags \subseteq Nat /\ 1 \in DOMAIN EpochFlags

VARIABLES
  user,         \* user[a]: the record of account a under the token's key
  collFrozen,   \* collFrozen[a]: the whole collection is frozen for a
  sys,          \* sys[s]: the entry on the system account of shard s
  paused,       \* paused[s]: the collection is paused on shard s
  net,          \* the transfers in flight, in the order they were sent
  epoch,
  version,      \* history: the latest version of the metadata
  supply        \* history: created and added minus burnt and wiped

vars == <<user, collFrozen, sys, paused, net, epoch, version, supply>>

\* An account without a record; a record that is equal to it is not stored.
NoRecord == [value |-> 0, frozen |-> FALSE, meta |-> NoMeta]

(* A system account without an entry.  An entry always has metadata.       *)
(*   reserved  the entry counts the liquidity of its shard in value        *)
(*   sentTo    the shards whose byte is set in Properties                  *)
NoEntry == [value |-> 0, reserved |-> FALSE, meta |-> NoMeta, sentTo |-> {}]

Record == [value: Nat, frozen: BOOLEAN, meta: 0..MaxVersion]
Entry == [value: Nat, reserved: BOOLEAN, meta: 0..MaxVersion, sentTo: SUBSET Shards]
Message ==
  [from: Accounts, to: Accounts, value: Nat, meta: 0..MaxVersion, retErr: BOOLEAN]

Active(flag) == flag \in EpochFlags[epoch]

SaveToSystem == Active("SaveToSystemAccountFlag")
SendAlways == Active("SendAlwaysFlag")
FixOldTokenLiquidity == Active("FixOldTokenLiquidityFlag")
AlwaysSaveMetadata == Active("AlwaysSaveTokenMetaDataFlag")

-----------------------------------------------------------------------------
(* dcdtDataStorage: the record of an account and the entry of its shard.   *)

\* The metadata that GetDCDTNFTTokenOnSender returns with record u
MetaOf(u, e) == IF SaveToSystem /\ e.meta # NoMeta THEN e.meta ELSE u.meta

(* checkFrozenPauseProperties before a save on account a, frozen being the *)
(* flag in the data that is saved.                                         *)
MaySave(a, frozen, retErr) ==
  \/ retErr
  \/ /\ ~frozen /\ ~paused[ShardOf[a]]
     /\ ~(Active("CheckFrozenCollectionFlag") /\ collFrozen[a])

\* A mutant: an entry that is there is never written again.
RefreshedNever(e, m) == e

(* saveMetadataIfRequired: an entry that does not count liquidity takes    *)
(* the metadata of what arrives.                                           *)
Refreshed(e, m) ==
  IF AlwaysSaveMetadata /\ SendAlways /\ e # NoEntry /\ ~e.reserved
    THEN [e EXCEPT !.meta = m]
    ELSE e

(* saveDCDTMetaDataToSystemAccount with metadata m on shard self: u is the *)
(* stored record of the account (setReservedToNilForOldToken).             *)
WithMeta(e, u, m, senderShard, self, mustUpdate) ==
  IF ~SaveToSystem \/ m = NoMeta THEN e
  ELSE IF ~mustUpdate /\ e # NoEntry THEN Refreshed(e, m)
  ELSE [value |-> 0,
        reserved |-> /\ SendAlways /\ e = NoEntry
                     /\ ~(FixOldTokenLiquidity /\ u.meta # NoMeta),
        meta |-> m,
        sentTo |-> IF SendAlways THEN {} ELSE {self, senderShard}]

\* The record that SaveDCDTNFTToken stores
Stored(v, frozen, m) ==
  IF v = 0 THEN NoRecord
  ELSE [value |-> v, frozen |-> frozen, meta |-> IF SaveToSystem THEN NoMeta ELSE m]

CountsLiquidity == SaveToSystem /\ SendAlways

(* AddToLiquiditySystemAcc: does it fail, and what becomes of the entry?   *)
CanAddLiquidity(e, d) ==
  CountsLiquidity =>
    /\ e # NoEntry
    /\ e.reserved =>
         \/ FixOldTokenLiquidity /\ e.value = 0 /\ d < 0
         \/ e.value + d >= 0

\* A mutant: what arrives is not counted.
LiquidityOnlyLeaves(e, d) ==
  IF ~CountsLiquidity \/ ~e.reserved \/ d > 0 THEN e
  ELSE IF FixOldTokenLiquidity /\ e.value = 0 /\ d < 0
         THEN [e EXCEPT !.reserved = FALSE]
  ELSE IF e.value + d = 0 THEN NoEntry
  ELSE [e EXCEPT !.value = @ + d]

WithLiquidity(e, d) ==
  IF ~CountsLiquidity \/ ~e.reserved THEN e
  ELSE IF FixOldTokenLiquidity /\ e.value = 0 /\ d < 0
         THEN [e EXCEPT !.reserved = FALSE]
  ELSE IF e.value + d = 0 THEN NoEntry
  ELSE [e EXCEPT !.value = @ + d]

\* A mutant: a mark for any shard counts.
WasAlreadySentAnywhere(e, d) == SaveToSystem /\ ~SendAlways /\ e.sentTo # {}

\* WasAlreadySentToDestinationShardAndUpdateState, for another shard
WasAlreadySent(e, d) == SaveToSystem /\ ~SendAlways /\ d \in e.sentTo

Marked(e, d) ==
  IF SaveToSystem /\ ~SendAlways /\ e # NoEntry
    THEN [e EXCEPT !.sentTo = @ \cup {d}]
    ELSE e

-----------------------------------------------------------------------------
(* Calls on the shard of an account that has the token.                    *)

CheckTransferAmount(v) == Active("CheckTransferFlag") => v > 0

\* A mutant: the quantity is not compared with the balance.
CanTakeAnything(a, v) ==
  /\ user[a] # NoRecord
  /\ CheckTransferAmount(v)
  /\ MaySave(a, user[a].frozen, FALSE)

(* The sender's half of DCDTNFTTransfer up to the split: what is left, and *)
(* the entry of the shard after it.                                        *)
CanTake(a, v) ==
  /\ user[a] # NoRecord
  /\ user[a].value >= v
  /\ CheckTransferAmount(v)
  /\ MaySave(a, user[a].frozen, FALSE)

EntryAfterSave(a) ==
  LET s == ShardOf[a] IN
  WithMeta(sys[s], user[a], MetaOf(user[a], sys[s]), s, s, FALSE)

\* A mutant: the record is saved before the quantity is taken off it.
TakenTooLate(a, v) ==
  [user EXCEPT ![a] = Stored(@.value, @.frozen, MetaOf(@, sys[ShardOf[a]]))]

Taken(a, v) ==
  [user EXCEPT ![a] = Stored(@.value - v, @.frozen, MetaOf(@, sys[ShardOf[a]]))]

\* A mutant: the freeze of the destination is not looked at.
CanGiveToFrozen(b, retErr) ==
  /\ retErr \/ ~paused[ShardOf[b]]
  /\ MaySave(b, FALSE, retErr)

\* addNFTToDestination: the checks on the record of account b
CanGive(b, retErr) ==
  /\ retErr \/ (~user[b].frozen /\ ~paused[ShardOf[b]])
  /\ MaySave(b, FALSE, retErr)

\* A mutant: the liquidity is taken off before the shards are compared.
TransferInShardTakesLiquidity(a, b, v) ==
  LET s == ShardOf[a]
      m == MetaOf(user[a], sys[s])
      e == EntryAfterSave(a) IN
  /\ a # b /\ ShardOf[b] = s
  /\ CanTake(a, v) /\ CanAddLiquidity(e, -v)
  /\ CanGive(b, FALSE)
  /\ user' = [Taken(a, v) EXCEPT ![b] = Stored(@.value + v, FALSE, m)]
  /\ sys' = [sys EXCEPT ![s] = WithMeta(WithLiquidity(e, -v), user[b], m, s, s, FALSE)]
  /\ UNCHANGED <<collFrozen, paused, net, epoch, version, supply>>

(* processNFTTransferOnSenderShard with the destination in the shard.  The *)
(* record is saved with the properties of the sender's.                    *)
TransferInShard(a, b, v) ==
  LET s == ShardOf[a]
      m == MetaOf(user[a], sys[s])
      e == EntryAfterSave(a) IN
  /\ a # b /\ ShardOf[b] = s
  /\ CanTake(a, v)
  /\ CanGive(b, FALSE)
  /\ user' = [Taken(a, v) EXCEPT ![b] = Stored(@.value + v, FALSE, m)]
  /\ sys' = [sys EXCEPT ![s] = WithMeta(e, user[b], m, s, s, FALSE)]
  /\ UNCHANGED <<collFrozen, paused, net, epoch, version, supply>>

\* A mutant: what leaves the shard is not taken off its liquidity.
SendAcrossKeepsLiquidity(a, b, v) ==
  LET s == ShardOf[a]
      d == ShardOf[b]
      m == MetaOf(user[a], sys[s])
      e == EntryAfterSave(a)
      withMeta == ~WasAlreadySent(e, d) \/ v = 1 IN
  /\ s # d /\ Len(net) < MaxInFlight
  /\ CanTake(a, v)
  /\ user' = Taken(a, v)
  /\ sys' = [sys EXCEPT ![s] = Marked(e, d)]
  /\ net' = Append(net, [from |-> a, to |-> b, value |-> v, retErr |-> FALSE,
                         meta |-> IF withMeta THEN m ELSE NoMeta])
  /\ UNCHANGED <<collFrozen, paused, epoch, version, supply>>

(* ... and with the destination in another shard.  The shard is marked     *)
(* after the liquidity was taken off, and a single piece always carries    *)
(* its metadata (createNFTOutputTransfers).                                *)
SendAcross(a, b, v) ==
  LET s == ShardOf[a]
      d == ShardOf[b]
      m == MetaOf(user[a], sys[s])
      e == EntryAfterSave(a)
      left == WithLiquidity(e, -v)
      withMeta == ~WasAlreadySent(left, d) \/ v = 1 IN
  /\ s # d /\ Len(net) < MaxInFlight
  /\ CanTake(a, v)
  /\ CanAddLiquidity(e, -v)
  /\ user' = Taken(a, v)
  /\ sys' = [sys EXCEPT ![s] = Marked(left, d)]
  /\ net' = Append(net, [from |-> a, to |-> b, value |-> v, retErr |-> FALSE,
                         meta |-> IF withMeta THEN m ELSE NoMeta])
  /\ UNCHANGED <<collFrozen, paused, epoch, version, supply>>

-----------------------------------------------------------------------------
(* The destination half of DCDTNFTTransfer.                                *)

\* Message i may be executed next (external: the order is the node's).
Executable(i) ==
  InOrder => \A j \in 1..(i - 1) :
               \/ ShardOf[net[j].from] # ShardOf[net[i].from]
               \/ ShardOf[net[j].to] # ShardOf[net[i].to]

EntryAfterArrival(m) ==
  LET s == ShardOf[m.to] IN
  WithMeta(sys[s], user[m.to], m.meta, ShardOf[m.from], s, FALSE)

Accepts(m) ==
  /\ CanGive(m.to, m.retErr)
  /\ CanAddLiquidity(EntryAfterArrival(m), m.value)

Deliver(i) ==
  LET m == net[i] IN
  /\ Executable(i)
  /\ Accepts(m)
  /\ user' = [user EXCEPT ![m.to] = Stored(@.value + m.value, FALSE, m.meta)]
  /\ sys' = [sys EXCEPT ![ShardOf[m.to]] =
               WithLiquidity(EntryAfterArrival(m), m.value)]
  /\ net' = RemoveAt(net, i)
  /\ UNCHANGED <<collFrozen, paused, epoch, version, supply>>

SentBack(m) == [m EXCEPT !.from = m.to, !.to = m.from, !.retErr = TRUE]

\* A mutant: the metadata of a refused transfer is lost.
SavedOnErrorNever(m) == sys[ShardOf[m.to]]

(* SaveNFTMetaDataToSystemAccount, which the node calls for a transfer     *)
(* that failed: the sender's shard will not send the metadata again.       *)
SavedOnError(m) ==
  LET s == ShardOf[m.to] IN
  IF SendAlways THEN sys[s]
  ELSE WithMeta(sys[s], NoRecord, m.meta, ShardOf[m.from], s, TRUE)

(* The destination refuses, in the function or in the call that follows    *)
(* it, and the node sends the transfer back as it came (external).         *)
Refuse(i) ==
  LET m == net[i] IN
  /\ Executable(i)
  /\ ~m.retErr
  /\ ~Accepts(m) \/ m.to \in Contracts
  /\ sys' = [sys EXCEPT ![ShardOf[m.to]] = SavedOnError(m)]
  /\ net' = Append(RemoveAt(net, i), SentBack(m))
  /\ UNCHANGED <<user, collFrozen, paused, epoch, version, supply>>

-----------------------------------------------------------------------------
(* Creating, adding, burning and updating.                                 *)

\* DCDTNFTCreate of this nonce, which happens once (NftCreateRole)
Create(a, v) ==
  LET s == ShardOf[a]
      e == WithMeta(sys[s], user[a], 1, s, s, TRUE) IN
  /\ version = NoMeta
  /\ a \in Creators /\ v > 0 /\ v <= MaxSupply
  /\ MaySave(a, FALSE, FALSE)
  /\ CanAddLiquidity(e, v)
  /\ version' = 1
  /\ user' = [user EXCEPT ![a] = Stored(v, FALSE, 1)]
  /\ sys' = [sys EXCEPT ![s] = WithLiquidity(e, v)]
  /\ supply' = v
  /\ UNCHANGED <<collFrozen, paused, net, epoch>>

\* DCDTNFTAddQuantity (v > 0) and DCDTNFTBurn (v < 0) change the balance by v.
ChangeQuantity(a, v) ==
  LET s == ShardOf[a] IN
  /\ user[a] # NoRecord /\ user[a].value + v >= 0
  /\ MaySave(a, user[a].frozen, FALSE)
  /\ CanAddLiquidity(EntryAfterSave(a), v)
  /\ user' = Taken(a, -v)
  /\ sys' = [sys EXCEPT ![s] = WithLiquidity(EntryAfterSave(a), v)]
  /\ supply' = supply + v
  /\ UNCHANGED <<collFrozen, paused, net, epoch, version>>

AddQuantity(a, v) ==
  a \in Creators /\ supply + v <= MaxSupply /\ ChangeQuantity(a, v)

Burn(a, v) == ChangeQuantity(a, -v)

(* DCDTNFTUpdateAttributes and DCDTNFTAddURI write all the fields of the   *)
(* entry: it no longer counts liquidity.  They read the metadata without   *)
(* a nil check.                                                            *)
Update(a) ==
  LET s == ShardOf[a]
      new == version + 1 IN
  /\ a \in Creators /\ version < MaxVersion
  /\ user[a] # NoRecord
  /\ MetaOf(user[a], sys[s]) # NoMeta
  /\ MaySave(a, user[a].frozen, FALSE)
  /\ version' = new
  /\ user' = [user EXCEPT ![a] = Stored(@.value, @.frozen, new)]
  /\ sys' = [sys EXCEPT ![s] = WithMeta(@, user[a], new, s, s, TRUE)]
  /\ UNCHANGED <<collFrozen, paused, net, epoch, supply>>

-----------------------------------------------------------------------------
(* The commands of the system contract, and the epochs.                    *)

ToggleFreeze(a, freeze) ==
  /\ "freeze" \in Commands
  /\ user' = [user EXCEPT ![a].frozen = freeze]
  /\ UNCHANGED <<collFrozen, sys, paused, net, epoch, version, supply>>

\* The liquidity is taken off only since WipeSingleNFTLiquidityDecreaseFlag.
Wipe(a) ==
  LET s == ShardOf[a]
      d == IF Active("WipeSingleNFTLiquidityDecreaseFlag") THEN -user[a].value ELSE 0
      counted == Active("WipeSingleNFTLiquidityDecreaseFlag") IN
  /\ "wipe" \in Commands
  /\ user[a].frozen
  /\ counted => CanAddLiquidity(sys[s], d)
  /\ user' = [user EXCEPT ![a] = NoRecord]
  /\ sys' = [sys EXCEPT ![s] = IF counted THEN WithLiquidity(@, d) ELSE @]
  /\ supply' = supply - user[a].value
  /\ UNCHANGED <<collFrozen, paused, net, epoch, version>>

ToggleFreezeCollection(a, freeze) ==
  /\ "freezeCollection" \in Commands
  /\ collFrozen' = [collFrozen EXCEPT ![a] = freeze]
  /\ UNCHANGED <<user, sys, paused, net, epoch, version, supply>>

TogglePause(s, pause) ==
  /\ "pause" \in Commands
  /\ paused' = [paused EXCEPT ![s] = pause]
  /\ UNCHANGED <<user, collFrozen, sys, net, epoch, version, supply>>

(* DCDTDeleteMetadata for this nonce removes the entry of a shard without  *)
(* looking at what it counts.  External: the configuration address deletes *)
(* only where nobody holds some of it, and while no transfer without       *)
(* metadata is in flight.                                                  *)
DeleteMetadata(s) ==
  /\ "metadata" \in Commands
  /\ SendAlways
  /\ \A a \in Accounts : ShardOf[a] = s => user[a].value = 0
  /\ \A i \in DOMAIN net : net[i].meta # NoMeta
  /\ sys' = [sys EXCEPT ![s] = NoEntry]
  /\ UNCHANGED <<user, collFrozen, paused, net, epoch, version, supply>>

(* DCDTAddMetadata for this nonce, which refuses to replace metadata.  The *)
(* new entry does not count liquidity.  External: it is given the latest   *)
(* version.                                                                *)
AddMetadata(s) ==
  /\ "metadata" \in Commands
  /\ SendAlways
  /\ version # NoMeta
  /\ sys[s].meta = NoMeta
  /\ sys' = [sys EXCEPT ![s].meta = version]
  /\ UNCHANGED <<user, collFrozen, paused, net, epoch, version, supply>>

NextEpoch ==
  /\ epoch + 1 \in DOMAIN EpochFlags
  /\ epoch' = epoch + 1
  /\ UNCHANGED <<user, collFrozen, sys, paused, net, version, supply>>

Init ==
  /\ user = [a \in Accounts |-> NoRecord]
  /\ collFrozen = [a \in Accounts |-> FALSE]
  /\ sys = [s \in Shards |-> NoEntry]
  /\ paused = [s \in Shards |-> FALSE]
  /\ net = <<>>
  /\ epoch = 1
  /\ version = NoMeta
  /\ supply = 0

TransferStep ==
  \/ \E a, b \in Accounts, v \in Amounts : TransferInShard(a, b, v) \/ SendAcross(a, b, v)
  \/ \E i \in DOMAIN net : Deliver(i) \/ Refuse(i)

HolderStep ==
  \E a \in Accounts :
    \/ \E v \in Amounts : Create(a, v) \/ AddQuantity(a, v) \/ Burn(a, v)
    \/ Update(a)

CommandStep ==
  \/ \E a \in Accounts :
       \/ \E f \in BOOLEAN : ToggleFreeze(a, f) \/ ToggleFreezeCollection(a, f)
       \/ Wipe(a)
  \/ \E s \in Shards :
       \/ \E p \in BOOLEAN : TogglePause(s, p)
       \/ DeleteMetadata(s) \/ AddMetadata(s)

Next == TransferStep \/ HolderStep \/ CommandStep \/ NextEpoch

Spec == Init /\ [][Next]_vars
-----------------------------------------------------------------------------
(* Properties *)

TypeOK ==
  /\ user \in [Accounts -> Record]
  /\ collFrozen \in [Accounts -> BOOLEAN]
  /\ sys \in [Shards -> Entry]
  /\ paused \in [Shards -> BOOLEAN]
  /\ net \in Seq(Message)
  /\ epoch \in DOMAIN EpochFlags
  /\ version \in 0..MaxVersion
  /\ supply \in 0..MaxSupply

HeldIn(A) == SumFunction([a \in A |-> user[a].value])

(* Conservation: what the accounts hold and what is in flight add up to    *)
(* what was created and added, and not burnt or wiped, although the sender *)
(* reuses one record for what stays and for what goes                      *)
(* (processNFTTransferOnSenderShard).                                      *)
Conservation ==
  supply = HeldIn(Accounts) + SumFunction([i \in DOMAIN net |-> net[i].value])

(* Liquidity: an entry that counts liquidity counts exactly what the       *)
(* accounts of its shard hold, and is gone with the last of it             *)
(* (AddToLiquiditySystemAcc).                                              *)
Liquidity ==
  \A s \in Shards : sys[s].reserved =>
    /\ sys[s].value = HeldIn({a \in Accounts : ShardOf[a] = s})
    /\ sys[s].value > 0

(* MetadataAvailable: who holds some of the token reads its metadata: the  *)
(* entry of a shard is not deleted too early, and when the metadata was    *)
(* left out of a transfer, it is there already                             *)
(* (getDCDTMetaDataFromSystemAccount).                                     *)
MetadataAvailable ==
  \A a \in Accounts : user[a].value > 0 =>
    MetaOf(user[a], sys[ShardOf[a]]) # NoMeta

(* LatestMetadata: of a token with a single piece, the holder reads the    *)
(* latest version of the metadata, and what is in flight carries it,       *)
(* whatever old versions the pieces of its way have left on system         *)
(* accounts (saveMetadataIfRequired).                                      *)
LatestMetadata ==
  /\ \A a \in Accounts : user[a].value > 0 =>
       MetaOf(user[a], sys[ShardOf[a]]) = version
  /\ \A i \in DOMAIN net : net[i].value > 0 => net[i].meta = version

(* LeftOutOnlyIfSent: as long as metadata is sent once, it is left out of  *)
(* a transfer only if the destination's system account has it, or another  *)
(* message on its way there does                                           *)
(* (WasAlreadySentToDestinationShardAndUpdateState).                       *)
LeftOutOnlyIfSent ==
  ~SendAlways =>
    \A i \in DOMAIN net : net[i].meta = NoMeta =>
      LET d == ShardOf[net[i].to] IN
      \/ sys[d].meta # NoMeta
      \/ \E j \in DOMAIN net : ShardOf[net[j].to] = d /\ net[j].meta # NoMeta

(* NonceFreezeKept: what a frozen account holds of the nonce changes only  *)
(* by a wipe or by a transfer of its own that comes back, and only those   *)
(* two and an unfreeze end the freeze.  A transfer that comes back does    *)
(* end it, as the record is saved with the properties of what arrives, and *)
(* so does the creation of a nonce that was frozen before it existed       *)
(* (addNFTToDestination against toggleFreeze).                             *)
ComesBack(a) ==
  \E i \in DOMAIN net :
    /\ net[i].to = a /\ net[i].retErr
    /\ net' = RemoveAt(net, i)
    /\ user'[a].value = user[a].value + net[i].value

Wiped(a) == user'[a] = NoRecord /\ supply' = supply - user[a].value

NonceFreezeKept ==
  [][\A a \in Accounts : user[a].frozen /\ version # NoMeta =>
       \/ user'[a].value = user[a].value /\ UNCHANGED <<net, supply>>
       \/ user'[a] = user[a]
       \/ Wiped(a)
       \/ ComesBack(a)]_vars
=============================================================================
