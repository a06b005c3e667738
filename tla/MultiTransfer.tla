--------------------------- MODULE MultiTransfer ---------------------------
(***************************************************************************)
(* MultiDCDTNFTTransfer: several tokens in one call, within a shard or     *)
(* between shards.  Here they are a fungible token, the coin, and the      *)
(* nonce of NftLedger, and a call lists them in any order, repeatedly too. *)
(*                                                                         *)
(* The call works on one token after the other and returns an error at the *)
(* first that fails; the node then drops all its changes, or sends all the *)
(* tokens back.  The two halves treat the coin differently: the sender's   *)
(* uses the storage of NFTs, the destination's the one of DCDTTransfer.    *)
(* Transfers of one token (FungibleLedger, NftLedger) make no steps here.  *)
(***************************************************************************)
EXTENDS NftLedger, FiniteSets, Bags

CONSTANTS
  MaxItems,  \* how many tokens a call lists (a bound)
  MaxCoins,  \* how many coins there are (a bound)
  Targets    \* the accounts and shards whose coins the system contract
             \* freezes or pauses in this instance

ASSUME MultiAssumption == MaxItems \in Nat /\ MaxCoins \in 0..MaxSupply

VARIABLES
  coin,        \* coin[a]: the record of account a under the coin's key
  coinPaused,  \* coinPaused[s]: the coin is paused on shard s
  batches      \* the multi transfers in flight, in the order they were sent

coinVars == <<coin, coinPaused>>
multiVars == <<vars, coin, coinPaused, batches>>

\* meta is the metadata that the argument carries; a coin has none.
Item == [nft: BOOLEAN, value: Nat, meta: 0..MaxVersion]
Batch == [from: Accounts, to: Accounts, items: Seq(Item), retErr: BOOLEAN]

\* The lists of tokens that a call may be given
Lists ==
  BoundedSeq([nft: BOOLEAN, value: Amounts, meta: {NoMeta}], MaxItems) \ {<<>>}

NoCoins == [value |-> 0, frozen |-> FALSE]

(* A call at work on one shard: the accounts, the entry of the shard, what *)
(* it has put into the message so far, and whether all has gone well.      *)
Work(s) ==
  [ok |-> TRUE, coin |-> coin, user |-> user, entry |-> sys[s], out |-> <<>>]

-----------------------------------------------------------------------------
(* One token of the list.                                                  *)

\* checkFrozeAndPause for the record of the coin on account a
MayMoveCoin(w, a, retErr) ==
  retErr \/ (~w.coin[a].frozen /\ ~coinPaused[ShardOf[a]])

\* A mutant: the amount is not compared with the balance.
TakeCoinUnchecked(w, a, v) ==
  [w EXCEPT !.ok = @ /\ MayMoveCoin(w, a, FALSE), !.coin[a].value = @ - v]

TakeCoin(w, a, v) ==
  [w EXCEPT !.ok = @ /\ w.coin[a].value >= v /\ MayMoveCoin(w, a, FALSE),
            !.coin[a].value = @ - v]

\* addNFTToDestination with nonce 0: the properties are the sender's.
GiveCoin(w, b, v) ==
  [w EXCEPT !.ok = @ /\ MayMoveCoin(w, b, FALSE),
            !.coin[b] = [value |-> @.value + v, frozen |-> FALSE]]

\* A mutant: the destination half uses the storage of NFTs for the coin too.
CreditCoinWithProperties(w, b, v, retErr) ==
  [w EXCEPT !.ok = @ /\ MayMoveCoin(w, b, retErr),
            !.coin[b] = [value |-> @.value + v, frozen |-> FALSE]]

\* addToDCDTBalance on the destination's shard
CreditCoin(w, b, v, retErr) ==
  [w EXCEPT !.ok = @ /\ MayMoveCoin(w, b, retErr), !.coin[b].value = @ + v]

\* transferOneTokenOnSenderShard up to the split
TakeNft(w, a, v) ==
  LET u == w.user[a]
      m == MetaOf(u, w.entry)
      s == ShardOf[a] IN
  [w EXCEPT !.ok = @ /\ u.value >= v /\ MaySave(a, u.frozen, FALSE),
            !.user[a] = Stored(u.value - v, u.frozen, m),
            !.entry = WithMeta(@, u, m, s, s, FALSE)]

\* addNFTToDestination up to the liquidity
GiveNft(w, b, v, m, senderShard, retErr) ==
  LET u == w.user[b]
      s == ShardOf[b] IN
  [w EXCEPT !.ok = /\ @ /\ MaySave(b, FALSE, retErr)
                   /\ retErr \/ (~u.frozen /\ ~paused[s]),
            !.user[b] = Stored(u.value + v, FALSE, m),
            !.entry = WithMeta(@, u, m, senderShard, s, FALSE)]

Counted(w, d) ==
  [w EXCEPT !.ok = @ /\ CanAddLiquidity(w.entry, d), !.entry = WithLiquidity(@, d)]

-----------------------------------------------------------------------------
(* The whole list.                                                         *)

\* A mutant: the liquidity changes within the shard too.
MovedCounted(a, b, items) ==
  LET Move(w, it) ==
        IF it.nft
          THEN Counted(GiveNft(TakeNft(w, a, it.value), b, it.value,
                               MetaOf(w.user[a], w.entry), ShardOf[a], FALSE),
                       it.value)
          ELSE GiveCoin(TakeCoin(w, a, it.value), b, it.value) IN
  FoldLeft(Move, Work(ShardOf[a]), items)

\* Sender and destination are in the shard.
Moved(a, b, items) ==
  LET Move(w, it) ==
        IF it.nft
          THEN GiveNft(TakeNft(w, a, it.value), b, it.value,
                       MetaOf(w.user[a], w.entry), ShardOf[a], FALSE)
          ELSE GiveCoin(TakeCoin(w, a, it.value), b, it.value) IN
  FoldLeft(Move, Work(ShardOf[a]), items)

\* Only the sender is: each token with the metadata that was read with it.
TakenAll(a, items) ==
  LET Take(w, it) ==
        LET t == IF it.nft
                   THEN Counted(TakeNft(w, a, it.value), -it.value)
                   ELSE TakeCoin(w, a, it.value)
            m == IF it.nft THEN MetaOf(w.user[a], w.entry) ELSE NoMeta IN
        [t EXCEPT !.out = Append(@, [it EXCEPT !.meta = m])] IN
  FoldLeft(Take, Work(ShardOf[a]), items)

\* A mutant: the shard is marked before the list is looked through.
AddressedMarkedFirst(w, d) ==
  LET marked == Marked(w.entry, d)
      Addressed1(it) ==
        IF WasAlreadySent(marked, d) /\ it.value # 1 THEN [it EXCEPT !.meta = NoMeta]
        ELSE it IN
  [w EXCEPT !.entry = marked, !.out = [i \in DOMAIN @ |-> Addressed1(@[i])]]

(* createDCDTNFTOutputTransfers, after all tokens were taken: what the     *)
(* message to shard d carries, and the marks that are set for it.          *)
Addressed(w, d) ==
  LET Address(x, it) ==
        LET withMeta == ~WasAlreadySent(x.entry, d) \/ it.value = 1 IN
        IF ~it.nft THEN [x EXCEPT !.out = Append(@, it)]
        ELSE [x EXCEPT !.out = Append(@, IF withMeta THEN it ELSE [it EXCEPT !.meta = NoMeta]),
                       !.entry = Marked(@, d)] IN
  FoldLeft(Address, [w EXCEPT !.out = <<>>], w.out)

\* A mutant: a token that the destination refuses is left out.
ArrivedInPart(m) ==
  LET s == ShardOf[m.to]
      Arrive(w, it) ==
        LET t == IF it.nft
                   THEN Counted(GiveNft(w, m.to, it.value, it.meta, ShardOf[m.from], m.retErr),
                                it.value)
                   ELSE CreditCoin(w, m.to, it.value, m.retErr) IN
        IF t.ok THEN t ELSE w IN
  FoldLeft(Arrive, Work(s), m.items)

\* Only the destination is in the shard: message m is executed.
Arrived(m) ==
  LET s == ShardOf[m.to]
      Arrive(w, it) ==
        IF it.nft
          THEN Counted(GiveNft(w, m.to, it.value, it.meta, ShardOf[m.from], m.retErr),
                       it.value)
          ELSE CreditCoin(w, m.to, it.value, m.retErr) IN
  FoldLeft(Arrive, Work(s), m.items)

-----------------------------------------------------------------------------
Finish(w, s) ==
  /\ w.ok
  /\ coin' = w.coin
  /\ user' = w.user
  /\ sys' = [sys EXCEPT ![s] = w.entry]
  /\ UNCHANGED <<collFrozen, paused, net, epoch, version, supply, coinPaused>>

\* transferOneTokenOnSenderShard refuses an amount of zero at any epoch.
Transferable(items) == \A i \in DOMAIN items : items[i].value > 0

MultiInShard(a, b, items) ==
  /\ a # b /\ ShardOf[a] = ShardOf[b]
  /\ Transferable(items)
  /\ Finish(Moved(a, b, items), ShardOf[a])
  /\ UNCHANGED batches

MultiAcross(a, b, items) ==
  LET w == Addressed(TakenAll(a, items), ShardOf[b]) IN
  /\ ShardOf[a] # ShardOf[b] /\ Len(batches) < MaxInFlight
  /\ Transferable(items)
  /\ Finish(w, ShardOf[a])
  /\ batches' = Append(batches, [from |-> a, to |-> b, items |-> w.out, retErr |-> FALSE])

\* Message i may be executed next (external: the order is the node's).
BatchExecutable(i) ==
  InOrder => \A j \in 1..(i - 1) :
               \/ ShardOf[batches[j].from] # ShardOf[batches[i].from]
               \/ ShardOf[batches[j].to] # ShardOf[batches[i].to]

MultiDeliver(i) ==
  /\ BatchExecutable(i)
  /\ Finish(Arrived(batches[i]), ShardOf[batches[i].to])
  /\ batches' = RemoveAt(batches, i)

\* A mutant: only the metadata of the first token is saved.
MultiSavedOnErrorFirst(m) ==
  LET s == ShardOf[m.to] IN
  IF SendAlways THEN sys[s]
  ELSE WithMeta(sys[s], NoRecord, m.items[1].meta, ShardOf[m.from], s, TRUE)

\* addMetaDataToSystemAccountFromMultiTransfer
MultiSavedOnError(m) ==
  LET s == ShardOf[m.to]
      Save(e, it) == WithMeta(e, NoRecord, it.meta, ShardOf[m.from], s, TRUE) IN
  IF SendAlways THEN sys[s] ELSE FoldLeft(Save, sys[s], m.items)

\* The node sends a failed message back as it came (external).
MultiRefuse(i) ==
  LET m == batches[i] IN
  /\ BatchExecutable(i)
  /\ ~m.retErr
  /\ ~Arrived(m).ok \/ m.to \in Contracts
  /\ sys' = [sys EXCEPT ![ShardOf[m.to]] = MultiSavedOnError(m)]
  /\ batches' = Append(RemoveAt(batches, i),
                       [m EXCEPT !.from = m.to, !.to = m.from, !.retErr = TRUE])
  /\ UNCHANGED <<user, collFrozen, paused, net, epoch, version, supply, coinVars>>

-----------------------------------------------------------------------------
(* The coin, apart from multi transfers: FungibleLedger models it.         *)

IssueCoin(a, v) ==
  /\ batches = <<>>
  /\ SumFunction([b \in Accounts |-> coin[b].value]) + v <= MaxCoins
  /\ MayMoveCoin(Work(ShardOf[a]), a, FALSE)
  /\ coin' = [coin EXCEPT ![a].value = @ + v]
  /\ UNCHANGED <<vars, coinPaused, batches>>

ToggleFreezeCoin(a, freeze) ==
  /\ a \in Targets
  /\ coin' = [coin EXCEPT ![a].frozen = freeze]
  /\ UNCHANGED <<vars, coinPaused, batches>>

TogglePauseCoin(s, pause) ==
  /\ s \in Targets
  /\ coinPaused' = [coinPaused EXCEPT ![s] = pause]
  /\ UNCHANGED <<vars, coin, batches>>

MultiInit ==
  /\ Init
  /\ coin = [a \in Accounts |-> NoCoins]
  /\ coinPaused = [s \in Shards |-> FALSE]
  /\ batches = <<>>

MultiStep ==
  \/ \E a, b \in Accounts, items \in Lists :
       MultiInShard(a, b, items) \/ MultiAcross(a, b, items)
  \/ \E i \in DOMAIN batches : MultiDeliver(i) \/ MultiRefuse(i)

CoinStep ==
  \/ \E a \in Accounts :
       \/ \E v \in Amounts : IssueCoin(a, v)
       \/ \E f \in BOOLEAN : ToggleFreezeCoin(a, f)
  \/ \E s \in Shards, p \in BOOLEAN : TogglePauseCoin(s, p)

\* The steps of NftLedger that are not transfers
NftStep == (HolderStep \/ CommandStep \/ NextEpoch) /\ UNCHANGED <<coinVars, batches>>

MultiNext == MultiStep \/ CoinStep \/ NftStep

MultiSpec == MultiInit /\ [][MultiNext]_multiVars

-----------------------------------------------------------------------------
(* Properties *)

MultiTypeOK ==
  /\ TypeOK
  /\ coin \in [Accounts -> [value: Nat, frozen: BOOLEAN]]
  /\ coinPaused \in [Shards -> BOOLEAN]
  /\ batches \in Seq(Batch)

(* CoinFreezeKept: no multi transfer lifts the freeze of a coin, although  *)
(* its two halves store the record in two ways, one of them with the       *)
(* properties of another account (addNFTToDestination).                    *)
CoinFreezeKept ==
  [][\A a \in Accounts :
       coin[a].frozen /\ ~coin'[a].frozen => coin'[a].value = coin[a].value
                                             /\ UNCHANGED batches]_multiVars

(* MultiLeftOutOnlyIfSent: as long as metadata is sent once, an NFT in a   *)
(* batch comes without it only if the destination's system account has it, *)
(* or a token before it in the batch or in another one brings it           *)
(* (createDCDTNFTOutputTransfers).                                         *)
MultiLeftOutOnlyIfSent ==
  ~SendAlways =>
    \A m \in Range(batches) :
      (\E it \in Range(m.items) : it.nft /\ it.meta = NoMeta) =>
        LET d == ShardOf[m.to] IN
        \/ sys[d].meta # NoMeta
        \/ \E k \in Range(batches) :
             ShardOf[k.to] = d /\ \E it \in Range(k.items) : it.meta # NoMeta

(* MultiTransfer implements TokenEscrow: all the tokens of a call move     *)
(* together, to the destination or back to the sender.                     *)
AmountOf(m, nft) ==
  SumFunction([i \in DOMAIN m.items |->
                 IF m.items[i].nft = nft THEN m.items[i].value ELSE 0])

Payment(m) ==
  [payer |-> IF m.retErr THEN m.to ELSE m.from,
   payee |-> IF m.retErr THEN m.from ELSE m.to,
   amounts |-> [k \in BOOLEAN |-> AmountOf(m, k)],
   refused |-> m.retErr]

Payments ==
  LET payment == [i \in DOMAIN batches |-> Payment(batches[i])] IN
  [p \in Range(payment) |-> Cardinality({i \in DOMAIN batches : payment[i] = p})]

Escrow == INSTANCE TokenEscrow WITH
  Owners <- Accounts,
  Tokens <- BOOLEAN,
  Limit <- MaxSupply,
  holding <- [a \in Accounts |-> [k \in BOOLEAN |->
                IF k THEN user[a].value ELSE coin[a].value]],
  escrow <- Payments

ImplementsEscrow == Escrow!Spec
=============================================================================
