---------------------------- MODULE MultiProofs ----------------------------
(***************************************************************************)
(* Proofs about MultiTransfer: for any accounts, shards, amounts, flags    *)
(* and bounds, and for lists of tokens of any length.                      *)
(***************************************************************************)
EXTENDS MultiTransfer, NftProofs

USE DEF NoMeta

-----------------------------------------------------------------------------
(* A call at work: what it would leave is any number; the numbers are      *)
(* those of accounts when all has gone well.                               *)

Coins == [value: Nat, frozen: BOOLEAN]

WideCoins == [value: Int, frozen: BOOLEAN]
WideRecord == [value: Int, frozen: BOOLEAN, meta: Metas]
WideEntry == [value: Int, reserved: BOOLEAN, meta: Metas, sentTo: SUBSET Shards]
WideItem == [nft: BOOLEAN, value: Int, meta: Metas]
WideWork ==
  [ok: BOOLEAN, coin: [Accounts -> WideCoins], user: [Accounts -> WideRecord],
   entry: WideEntry, out: Seq(WideItem)]

LEMMA NarrowIsWide ==
  /\ Coins \subseteq WideCoins /\ Record \subseteq WideRecord
  /\ Entry \subseteq WideEntry /\ Item \subseteq WideItem
BY DEF Coins, WideCoins, Record, WideRecord, Entry, WideEntry, Item, WideItem, Metas

LEMMA WideFields ==
  ASSUME NEW w \in WideWork
  PROVE  /\ w.ok \in BOOLEAN /\ w.coin \in [Accounts -> WideCoins]
         /\ w.user \in [Accounts -> WideRecord] /\ w.entry \in WideEntry
         /\ w.out \in Seq(WideItem)
         /\ \A a \in Accounts :
              /\ w.coin[a].value \in Int /\ w.coin[a].frozen \in BOOLEAN
              /\ w.user[a].value \in Int /\ w.user[a].frozen \in BOOLEAN
              /\ w.user[a].meta \in Metas
BY DEF WideWork, WideCoins, WideRecord

(* The work that is left when some of its parts are replaced. *)
LEMMA WideReplaced ==
  ASSUME NEW w \in WideWork, NEW ok \in BOOLEAN, NEW c \in [Accounts -> WideCoins],
         NEW u \in [Accounts -> WideRecord], NEW e \in WideEntry
  PROVE  [ok |-> ok, coin |-> c, user |-> u, entry |-> e, out |-> w.out] \in WideWork
BY DEF WideWork

LEMMA WideStored ==
  ASSUME NEW v \in Int, NEW f \in BOOLEAN, NEW m \in Metas
  PROVE  Stored(v, f, m) \in WideRecord
BY NftAssumption DEF Stored, WideRecord, NoRecord, Metas

\* The record that is saved with the properties of what arrives
StoredUnfrozen(v, m) == Stored(v, FALSE, m)

LEMMA WideStoredUnfrozen ==
  ASSUME NEW v \in Int, NEW m \in Metas
  PROVE  StoredUnfrozen(v, m) \in WideRecord
BY NftAssumption DEF StoredUnfrozen, Stored, WideRecord, NoRecord, Metas

LEMMA StoredUnfrozenProperties ==
  ASSUME NEW v \in Nat, NEW m \in Metas
  PROVE  /\ StoredUnfrozen(v, m) \in Record
         /\ StoredUnfrozen(v, m).value = v
         /\ StoredUnfrozen(v, m).value = 0 => StoredUnfrozen(v, m).meta = NoMeta
         /\ SaveToSystem => StoredUnfrozen(v, m).meta = NoMeta
BY UnfrozenProperties, Zenon DEF StoredUnfrozen

LEMMA WideMetaOf ==
  ASSUME NEW u \in WideRecord, NEW e \in WideEntry
  PROVE  MetaOf(u, e) \in Metas
BY DEF MetaOf, WideRecord, WideEntry

LEMMA WideWithMeta ==
  ASSUME NEW e \in WideEntry, NEW u, NEW m \in Metas,
         NEW t \in Shards, NEW s \in Shards, NEW must
  PROVE  WithMeta(e, u, m, t, s, must) \in WideEntry
<1>1. Refreshed(e, m) \in WideEntry
  BY DEF Refreshed, WideEntry
<1>2. (SendAlways /\ e = NoEntry /\ ~(FixOldTokenLiquidity /\ u.meta # NoMeta)) \in BOOLEAN
  OBVIOUS
<1> QED
  BY <1>1, <1>2 DEF WithMeta, WideEntry

\* The entry after a save that need not write it
SavedEntry(e, u, m, t, s) == WithMeta(e, u, m, t, s, FALSE)

LEMMA SavedEntryType ==
  ASSUME NEW e \in Entry, NEW u, NEW m \in Metas, NEW t \in Shards, NEW s \in Shards
  PROVE  SavedEntry(e, u, m, t, s) \in Entry
<1>1. FALSE \in BOOLEAN
  OBVIOUS
<1> QED
  BY <1>1, WithMetaType, Zenon DEF SavedEntry

LEMMA WideLiquidity ==
  ASSUME NEW e \in WideEntry, NEW d \in Int
  PROVE  WithLiquidity(e, d) \in WideEntry
<1>1. NoEntry \in WideEntry
  BY NftAssumption DEF NoEntry, WideEntry, Metas
<1>2. [e EXCEPT !.reserved = FALSE] \in WideEntry
  BY DEF WideEntry
<1>3. [e EXCEPT !.value = @ + d] \in WideEntry
  BY DEF WideEntry
<1> QED
  BY <1>1, <1>2, <1>3 DEF WithLiquidity

LEMMA WideMarked ==
  ASSUME NEW e \in WideEntry, NEW d \in Shards
  PROVE  Marked(e, d) \in WideEntry
BY DEF Marked, WideEntry

-----------------------------------------------------------------------------
(* One token: what an operator leaves.                                     *)

LEMMA TakeCoinLeaves ==
  ASSUME NEW w \in WideWork, NEW a \in Accounts, NEW v \in Int,
         NEW r, r = TakeCoin(w, a, v)
  PROVE  /\ r \in WideWork
         /\ r.user = w.user /\ r.entry = w.entry /\ r.out = w.out
         /\ r.ok => /\ w.ok /\ w.coin[a].value >= v /\ ~w.coin[a].frozen
         /\ r.coin[a].value = w.coin[a].value - v
         /\ r.coin[a].frozen = w.coin[a].frozen
         /\ \A b \in Accounts \ {a} : r.coin[b] = w.coin[b]
<1> DEFINE c == [w.coin EXCEPT ![a].value = @ - v]
           ok == w.ok /\ w.coin[a].value >= v /\ MayMoveCoin(w, a, FALSE)
<1>1. w.coin \in [Accounts -> WideCoins]
  BY WideFields
<1>2. /\ c \in [Accounts -> WideCoins]
      /\ c[a] = [value |-> w.coin[a].value - v, frozen |-> w.coin[a].frozen]
      /\ \A b \in Accounts \ {a} : c[b] = w.coin[b]
  BY <1>1 DEF WideCoins
<1>3. r = [w EXCEPT !.ok = ok, !.coin = c]
  BY DEF TakeCoin
<1>4. ok \in BOOLEAN /\ (ok => w.ok /\ w.coin[a].value >= v /\ ~w.coin[a].frozen)
  BY DEF MayMoveCoin
<1> HIDE DEF c, ok
<1>5. r \in WideWork /\ r.ok = ok /\ r.coin = c
      /\ r.user = w.user /\ r.entry = w.entry /\ r.out = w.out
  BY <1>2, <1>3, <1>4 DEF WideWork
<1> QED
  BY <1>2, <1>4, <1>5

LEMMA GiveCoinLeaves ==
  ASSUME NEW w \in WideWork, NEW b \in Accounts, NEW v \in Int,
         NEW r, r = GiveCoin(w, b, v)
  PROVE  /\ r \in WideWork
         /\ r.user = w.user /\ r.entry = w.entry /\ r.out = w.out
         /\ r.ok => w.ok /\ ~w.coin[b].frozen
         /\ r.coin[b].value = w.coin[b].value + v
         /\ ~r.coin[b].frozen
         /\ \A a \in Accounts \ {b} : r.coin[a] = w.coin[a]
<1> DEFINE c == [w.coin EXCEPT ![b] = [value |-> @.value + v, frozen |-> FALSE]]
           ok == w.ok /\ MayMoveCoin(w, b, FALSE)
<1>1. w.coin \in [Accounts -> WideCoins]
  BY WideFields
<1>2. /\ c \in [Accounts -> WideCoins]
      /\ c[b].value = w.coin[b].value + v /\ ~c[b].frozen
      /\ \A a \in Accounts \ {b} : c[a] = w.coin[a]
  BY <1>1 DEF WideCoins
<1>3. r = [w EXCEPT !.ok = ok, !.coin = c]
  BY DEF GiveCoin
<1>4. ok \in BOOLEAN /\ (ok => w.ok /\ ~w.coin[b].frozen)
  BY DEF MayMoveCoin
<1> HIDE DEF c, ok
<1>5. r \in WideWork /\ r.ok = ok /\ r.coin = c
      /\ r.user = w.user /\ r.entry = w.entry /\ r.out = w.out
  BY <1>2, <1>3, <1>4 DEF WideWork
<1> QED
  BY <1>2, <1>4, <1>5

LEMMA CreditCoinLeaves ==
  ASSUME NEW w \in WideWork, NEW b \in Accounts, NEW v \in Int, NEW retErr \in BOOLEAN,
         NEW r, r = CreditCoin(w, b, v, retErr)
  PROVE  /\ r \in WideWork
         /\ r.user = w.user /\ r.entry = w.entry /\ r.out = w.out
         /\ r.ok => w.ok
         /\ r.coin[b].value = w.coin[b].value + v
         /\ r.coin[b].frozen = w.coin[b].frozen
         /\ \A a \in Accounts \ {b} : r.coin[a] = w.coin[a]
<1> DEFINE c == [w.coin EXCEPT ![b].value = @ + v]
           ok == w.ok /\ MayMoveCoin(w, b, retErr)
<1>1. w.coin \in [Accounts -> WideCoins]
  BY WideFields
<1>2. /\ c \in [Accounts -> WideCoins]
      /\ c[b].value = w.coin[b].value + v /\ c[b].frozen = w.coin[b].frozen
      /\ \A a \in Accounts \ {b} : c[a] = w.coin[a]
  BY <1>1 DEF WideCoins
<1>3. r = [w EXCEPT !.ok = ok, !.coin = c]
  BY DEF CreditCoin
<1>4. ok \in BOOLEAN /\ (ok => w.ok)
  OBVIOUS
<1> HIDE DEF c, ok
<1>5. r \in WideWork /\ r.ok = ok /\ r.coin = c
      /\ r.user = w.user /\ r.entry = w.entry /\ r.out = w.out
  BY <1>2, <1>3, <1>4 DEF WideWork
<1> QED
  BY <1>2, <1>4, <1>5

\* What is taken is at most what is there: the record is one of an account.
LEMMA TakeNftLeaves ==
  ASSUME NEW w \in WideWork, NEW a \in Accounts, NEW v \in Int,
         NEW r, r = TakeNft(w, a, v)
  PROVE  LET s == ShardOf[a]
             m == MetaOf(w.user[a], w.entry) IN
         /\ r \in WideWork /\ s \in Shards /\ m \in Metas
         /\ r.coin = w.coin /\ r.out = w.out
         /\ r.ok => w.ok /\ w.user[a].value >= v
         /\ r.user[a] = Stored(w.user[a].value - v, w.user[a].frozen, m)
         /\ \A b \in Accounts \ {a} : r.user[b] = w.user[b]
         /\ r.entry = SavedEntry(w.entry, w.user[a], m, s, s)
<1> DEFINE s == ShardOf[a]
           m == MetaOf(w.user[a], w.entry)
           stored == Stored(w.user[a].value - v, w.user[a].frozen, m)
           u == [w.user EXCEPT ![a] = stored]
           e == WithMeta(w.entry, w.user[a], m, s, s, FALSE)
           ok == w.ok /\ w.user[a].value >= v /\ MaySave(a, w.user[a].frozen, FALSE)
<1>1. /\ s \in Shards /\ w.user[a] \in WideRecord /\ w.entry \in WideEntry
      /\ w.user \in [Accounts -> WideRecord]
      /\ w.user[a].value - v \in Int /\ w.user[a].frozen \in BOOLEAN
  BY WideFields, NftAssumption
<1>2. m \in Metas
  BY <1>1, WideMetaOf
<1>3. r = [w EXCEPT !.ok = ok, !.user = u, !.entry = e]
  BY DEF TakeNft
<1> HIDE DEF s, m
<1>4. stored \in WideRecord
  BY <1>1, <1>2, WideStored
<1>5. e \in WideEntry
  BY <1>1, <1>2, WideWithMeta
<1>6. ok \in BOOLEAN
      /\ (ok => w.ok /\ w.user[a].value >= v)
  OBVIOUS
<1> HIDE DEF stored, e, ok
<1>7. /\ u \in [Accounts -> WideRecord] /\ u[a] = stored
      /\ \A b \in Accounts \ {a} : u[b] = w.user[b]
  BY <1>1, <1>4
<1> HIDE DEF u
<1>8. r \in WideWork /\ r.ok = ok /\ r.coin = w.coin
      /\ r.user = u /\ r.entry = e /\ r.out = w.out
  BY <1>3, <1>5, <1>6, <1>7 DEF WideWork
<1> QED
  BY <1>1, <1>2, <1>6, <1>7, <1>8 DEF s, m, stored, e, SavedEntry

LEMMA GiveNftLeaves ==
  ASSUME NEW w \in WideWork, NEW b \in Accounts, NEW v \in Int, NEW m \in Metas,
         NEW t \in Shards, NEW retErr \in BOOLEAN,
         NEW r, r = GiveNft(w, b, v, m, t, retErr)
  PROVE  /\ r \in WideWork
         /\ r.coin = w.coin /\ r.out = w.out
         /\ r.ok => w.ok /\ (retErr \/ ~w.user[b].frozen)
         /\ r.user[b] = StoredUnfrozen(w.user[b].value + v, m)
         /\ \A a \in Accounts \ {b} : r.user[a] = w.user[a]
         /\ r.entry = SavedEntry(w.entry, w.user[b], m, t, ShardOf[b])
<1> DEFINE s == ShardOf[b]
           stored == StoredUnfrozen(w.user[b].value + v, m)
           u == [w.user EXCEPT ![b] = stored]
           e == WithMeta(w.entry, w.user[b], m, t, s, FALSE)
           ok == /\ w.ok /\ MaySave(b, FALSE, retErr)
                 /\ retErr \/ (~w.user[b].frozen /\ ~paused[s])
<1>1. /\ s \in Shards /\ w.user[b] \in WideRecord /\ w.entry \in WideEntry
      /\ w.user \in [Accounts -> WideRecord]
      /\ w.user[b].value + v \in Int
  BY WideFields, NftAssumption
<1>3. r = [w EXCEPT !.ok = ok, !.user = u, !.entry = e]
  BY DEF GiveNft, StoredUnfrozen
<1> HIDE DEF s
<1>4. stored \in WideRecord
  BY <1>1, WideStoredUnfrozen
<1>5. e \in WideEntry
  BY <1>1, WideWithMeta
<1>6. ok \in BOOLEAN /\ (ok => w.ok /\ (retErr \/ ~w.user[b].frozen))
  OBVIOUS
<1> HIDE DEF stored, e, ok
<1>7. /\ u \in [Accounts -> WideRecord] /\ u[b] = stored
      /\ \A a \in Accounts \ {b} : u[a] = w.user[a]
  BY <1>1, <1>4
<1> HIDE DEF u
<1>8. r \in WideWork /\ r.ok = ok /\ r.coin = w.coin
      /\ r.user = u /\ r.entry = e /\ r.out = w.out
  BY <1>3, <1>5, <1>6, <1>7 DEF WideWork
<1> QED
  BY <1>6, <1>7, <1>8 DEF s, stored, e, SavedEntry

LEMMA CountedLeaves ==
  ASSUME NEW w \in WideWork, NEW d \in Int, NEW r, r = Counted(w, d)
  PROVE  /\ r \in WideWork
         /\ r.coin = w.coin /\ r.user = w.user /\ r.out = w.out
         /\ r.ok => w.ok /\ CanAddLiquidity(w.entry, d)
         /\ r.entry = WithLiquidity(w.entry, d)
<1> DEFINE e == WithLiquidity(w.entry, d)
           ok == w.ok /\ CanAddLiquidity(w.entry, d)
<1>1. e \in WideEntry
  BY WideFields, WideLiquidity
<1>2. r = [w EXCEPT !.ok = ok, !.entry = e]
  BY DEF Counted
<1>3. ok \in BOOLEAN /\ (ok => w.ok /\ CanAddLiquidity(w.entry, d))
  OBVIOUS
<1> HIDE DEF e, ok
<1>4. r \in WideWork /\ r.ok = ok /\ r.coin = w.coin
      /\ r.user = w.user /\ r.entry = e /\ r.out = w.out
  BY <1>1, <1>2, <1>3 DEF WideWork
<1> QED
  BY <1>3, <1>4 DEF e

-----------------------------------------------------------------------------
(* What a call that goes well leaves are records and an entry.             *)

NarrowWork(w) ==
  /\ w \in WideWork
  /\ w.coin \in [Accounts -> Coins] /\ w.user \in [Accounts -> Record]
  /\ w.entry \in Entry
  /\ \A c \in Accounts : w.user[c].value = 0 => w.user[c].meta = NoMeta

(* From work w to r, x of the nonce and y coins leave the accounts of      *)
(* givers, and as much comes to those of takers.                           *)
Shift(r, w, givers, takers, x, y) ==
  \A c \in Accounts :
    /\ r.user[c].value = w.user[c].value - (IF c \in givers THEN x ELSE 0)
                                         + (IF c \in takers THEN x ELSE 0)
    /\ r.coin[c].value = w.coin[c].value - (IF c \in givers THEN y ELSE 0)
                                         + (IF c \in takers THEN y ELSE 0)
    /\ r.coin[c].frozen = w.coin[c].frozen

LEMMA NarrowFields ==
  ASSUME NEW w, NarrowWork(w)
  PROVE  /\ w \in WideWork /\ w.entry \in Entry /\ w.out \in Seq(WideItem)
         /\ w.coin \in [Accounts -> Coins] /\ w.user \in [Accounts -> Record]
         /\ \A c \in Accounts :
              /\ w.coin[c] \in Coins /\ w.coin[c].value \in Nat
              /\ w.coin[c].frozen \in BOOLEAN
              /\ w.user[c] \in Record /\ w.user[c].value \in Nat
              /\ w.user[c].frozen \in BOOLEAN /\ w.user[c].meta \in Metas
              /\ w.user[c].value = 0 => w.user[c].meta = NoMeta
BY WideFields DEF NarrowWork, Coins, Record, Metas

LEMMA TakeCoinShift ==
  ASSUME NEW w, NarrowWork(w), NEW a \in Accounts, NEW v \in Nat,
         NEW r, r = TakeCoin(w, a, v), r.ok
  PROVE  w.ok /\ NarrowWork(r) /\ Shift(r, w, {a}, {}, 0, v)
<1>0. /\ w \in WideWork /\ w.coin \in [Accounts -> Coins]
      /\ \A c \in Accounts : /\ w.coin[c] \in Coins /\ w.coin[c].value \in Nat
                             /\ w.user[c].value \in Nat
  BY NarrowFields
<1>1. /\ r \in WideWork /\ r.user = w.user /\ r.entry = w.entry
      /\ w.ok /\ w.coin[a].value >= v
      /\ r.coin[a].value = w.coin[a].value - v
      /\ r.coin[a].frozen = w.coin[a].frozen
      /\ \A b \in Accounts \ {a} : r.coin[b] = w.coin[b]
  BY <1>0, TakeCoinLeaves
<1>2. r.coin \in [Accounts -> WideCoins]
  BY <1>1, WideFields
<1>3. \A c \in Accounts : r.coin[c] \in Coins
  BY <1>0, <1>1, <1>2 DEF Coins, WideCoins
<1>4. NarrowWork(r)
  BY <1>1, <1>2, <1>3 DEF NarrowWork
<1>5. Shift(r, w, {a}, {}, 0, v)
  BY <1>0, <1>1 DEF Shift
<1> QED
  BY <1>1, <1>4, <1>5

LEMMA GiveCoinShift ==
  ASSUME NEW w, NarrowWork(w), NEW b \in Accounts, NEW v \in Nat,
         NEW r, r = GiveCoin(w, b, v), r.ok
  PROVE  w.ok /\ NarrowWork(r) /\ Shift(r, w, {}, {b}, 0, v)
<1>0. /\ w \in WideWork /\ w.coin \in [Accounts -> Coins]
      /\ \A c \in Accounts : /\ w.coin[c] \in Coins /\ w.coin[c].value \in Nat
                             /\ w.coin[c].frozen \in BOOLEAN /\ w.user[c].value \in Nat
  BY NarrowFields
<1>1. /\ r \in WideWork /\ r.user = w.user /\ r.entry = w.entry
      /\ w.ok /\ ~w.coin[b].frozen
      /\ r.coin[b].value = w.coin[b].value + v /\ ~r.coin[b].frozen
      /\ \A a \in Accounts \ {b} : r.coin[a] = w.coin[a]
  <2>0. w \in WideWork
    BY <1>0
  <2>1. v \in Int
    OBVIOUS
  <2>2. /\ r \in WideWork
        /\ r.user = w.user /\ r.entry = w.entry /\ r.out = w.out
        /\ r.ok => w.ok /\ ~w.coin[b].frozen
        /\ r.coin[b].value = w.coin[b].value + v
        /\ ~r.coin[b].frozen
        /\ \A a \in Accounts \ {b} : r.coin[a] = w.coin[a]
    BY <2>0, <2>1, GiveCoinLeaves
  <2> QED
    BY <2>2, Zenon
<1>2. r.coin \in [Accounts -> WideCoins] /\ r.coin[b].frozen \in BOOLEAN
  BY <1>1, WideFields
<1>3. \A c \in Accounts : r.coin[c] \in Coins
  BY <1>0, <1>1, <1>2 DEF Coins, WideCoins
<1>4. NarrowWork(r)
  BY <1>1, <1>2, <1>3 DEF NarrowWork
<1>5. \A c \in Accounts : r.coin[c].frozen = w.coin[c].frozen
  BY <1>0, <1>1, <1>2, Zenon
<1>6. Shift(r, w, {}, {b}, 0, v)
  BY <1>0, <1>1, <1>5 DEF Shift
<1> QED
  BY <1>1, <1>4, <1>6

LEMMA CreditCoinShift ==
  ASSUME NEW w, NarrowWork(w), NEW b \in Accounts, NEW v \in Nat, NEW retErr \in BOOLEAN,
         NEW r, r = CreditCoin(w, b, v, retErr), r.ok
  PROVE  w.ok /\ NarrowWork(r) /\ Shift(r, w, {}, {b}, 0, v)
<1>0. /\ w \in WideWork /\ w.coin \in [Accounts -> Coins]
      /\ \A c \in Accounts : /\ w.coin[c] \in Coins /\ w.coin[c].value \in Nat
                             /\ w.user[c].value \in Nat
  BY NarrowFields
<1>1. /\ r \in WideWork /\ r.user = w.user /\ r.entry = w.entry /\ w.ok
      /\ r.coin[b].value = w.coin[b].value + v
      /\ r.coin[b].frozen = w.coin[b].frozen
      /\ \A a \in Accounts \ {b} : r.coin[a] = w.coin[a]
  BY <1>0, CreditCoinLeaves
<1>2. r.coin \in [Accounts -> WideCoins]
  BY <1>1, WideFields
<1>3. \A c \in Accounts : r.coin[c] \in Coins
  BY <1>0, <1>1, <1>2 DEF Coins, WideCoins
<1>4. NarrowWork(r)
  BY <1>1, <1>2, <1>3 DEF NarrowWork
<1>5. Shift(r, w, {}, {b}, 0, v)
  BY <1>0, <1>1 DEF Shift
<1> QED
  BY <1>1, <1>4, <1>5

LEMMA TakeNftShift ==
  ASSUME NEW w, NarrowWork(w), NEW a \in Accounts, NEW v \in Nat,
         NEW r, r = TakeNft(w, a, v), r.ok
  PROVE  w.ok /\ NarrowWork(r) /\ Shift(r, w, {a}, {}, v, 0)
<1> DEFINE s == ShardOf[a]
           m == MetaOf(w.user[a], w.entry)
           left == Stored(w.user[a].value - v, w.user[a].frozen, m)
<1>0. /\ w \in WideWork /\ w.user \in [Accounts -> Record] /\ w.entry \in Entry
      /\ w.coin \in [Accounts -> Coins]
      /\ \A c \in Accounts : /\ w.user[c] \in Record /\ w.user[c].value \in Nat
                             /\ w.user[c].frozen \in BOOLEAN /\ w.coin[c].value \in Nat
                             /\ w.user[c].value = 0 => w.user[c].meta = NoMeta
  BY NarrowFields
<1>1. /\ r \in WideWork /\ r.coin = w.coin /\ s \in Shards /\ m \in Metas
      /\ w.ok /\ w.user[a].value >= v
      /\ r.user[a] = left
      /\ \A b \in Accounts \ {a} : r.user[b] = w.user[b]
      /\ r.entry = SavedEntry(w.entry, w.user[a], m, s, s)
  <2>1. v \in Int
    OBVIOUS
  <2>0. w \in WideWork
    BY <1>0
  <2>2. /\ r \in WideWork /\ s \in Shards /\ m \in Metas
        /\ r.coin = w.coin /\ r.out = w.out
        /\ r.ok => w.ok /\ w.user[a].value >= v
        /\ r.user[a] = left
        /\ \A b \in Accounts \ {a} : r.user[b] = w.user[b]
        /\ r.entry = SavedEntry(w.entry, w.user[a], m, s, s)
    BY <2>0, <2>1, TakeNftLeaves
  <2> QED
    BY <2>2
<1> HIDE DEF m, s
<1>2. r.user \in [Accounts -> WideRecord]
  BY <1>1, WideFields
<1>3. left \in Record /\ left.value = w.user[a].value - v
      /\ (left.value = 0 => left.meta = NoMeta)
  <2>1. w.user[a].value - v \in Nat
    BY <1>0, <1>1
  <2> QED
    BY <1>0, <1>1, <2>1, StoredProperties
<1> HIDE DEF left
<1>4. r.entry \in Entry
  BY <1>0, <1>1, SavedEntryType
<1>5. /\ \A c \in Accounts : r.user[c] \in Record
      /\ \A c \in Accounts : r.user[c].value = 0 => r.user[c].meta = NoMeta
  BY <1>0, <1>1, <1>3
<1>6. NarrowWork(r)
  BY <1>0, <1>1, <1>2, <1>4, <1>5 DEF NarrowWork
<1>7. Shift(r, w, {a}, {}, v, 0)
  BY <1>0, <1>1, <1>3 DEF Shift
<1> QED
  BY <1>1, <1>6, <1>7

LEMMA GiveNftShift ==
  ASSUME NEW w, NarrowWork(w), NEW b \in Accounts, NEW v \in Nat, NEW m \in Metas,
         NEW t \in Shards, NEW retErr \in BOOLEAN,
         NEW r, r = GiveNft(w, b, v, m, t, retErr), r.ok
  PROVE  w.ok /\ NarrowWork(r) /\ Shift(r, w, {}, {b}, v, 0)
<1> DEFINE left == StoredUnfrozen(w.user[b].value + v, m)
<1>0. /\ w \in WideWork /\ w.user \in [Accounts -> Record] /\ w.entry \in Entry
      /\ w.coin \in [Accounts -> Coins] /\ ShardOf[b] \in Shards
      /\ \A c \in Accounts : /\ w.user[c] \in Record /\ w.user[c].value \in Nat
                             /\ w.coin[c].value \in Nat
                             /\ w.user[c].value = 0 => w.user[c].meta = NoMeta
  BY NarrowFields, NftAssumption
<1>1. /\ r \in WideWork /\ r.coin = w.coin /\ w.ok
      /\ r.user[b] = left
      /\ \A a \in Accounts \ {b} : r.user[a] = w.user[a]
      /\ r.entry = SavedEntry(w.entry, w.user[b], m, t, ShardOf[b])
  <2>1. v \in Int
    OBVIOUS
  <2>0. w \in WideWork
    BY <1>0
  <2>2. /\ r \in WideWork
        /\ r.coin = w.coin /\ r.out = w.out
        /\ r.ok => w.ok /\ (retErr \/ ~w.user[b].frozen)
        /\ r.user[b] = left
        /\ \A a \in Accounts \ {b} : r.user[a] = w.user[a]
        /\ r.entry = SavedEntry(w.entry, w.user[b], m, t, ShardOf[b])
    BY <2>0, <2>1, GiveNftLeaves
  <2> QED
    BY <2>2
<1>2. left \in Record /\ left.value = w.user[b].value + v
      /\ (left.value = 0 => left.meta = NoMeta)
  <2>1. w.user[b].value + v \in Nat
    BY <1>0
  <2> QED
    BY <2>1, StoredUnfrozenProperties
<1> HIDE DEF left
<1>3. r.user \in [Accounts -> WideRecord]
  BY <1>1, WideFields
<1>4. r.entry \in Entry
  BY <1>0, <1>1, SavedEntryType
<1>5. /\ \A c \in Accounts : r.user[c] \in Record
      /\ \A c \in Accounts : r.user[c].value = 0 => r.user[c].meta = NoMeta
  BY <1>0, <1>1, <1>2
<1>6. NarrowWork(r)
  BY <1>0, <1>1, <1>3, <1>4, <1>5 DEF NarrowWork
<1>7. Shift(r, w, {}, {b}, v, 0)
  BY <1>0, <1>1, <1>2 DEF Shift
<1> QED
  BY <1>1, <1>6, <1>7

LEMMA CountedShift ==
  ASSUME NEW w, NarrowWork(w), NEW d \in Int, NEW r, r = Counted(w, d), r.ok
  PROVE  w.ok /\ NarrowWork(r) /\ r.user = w.user /\ r.coin = w.coin
<1>0. w \in WideWork /\ w.entry \in Entry
  BY NarrowFields
<1>1. /\ r \in WideWork /\ r.coin = w.coin /\ r.user = w.user
      /\ w.ok /\ CanAddLiquidity(w.entry, d)
      /\ r.entry = WithLiquidity(w.entry, d)
  BY <1>0, CountedLeaves
<1>2. r.entry \in Entry
  BY <1>0, <1>1, WithLiquidityType
<1> QED
  BY <1>1, <1>2 DEF NarrowWork

-----------------------------------------------------------------------------
(* One token of a list.                                                    *)

NftNumber == [it \in Item |-> IF it.nft THEN it.value ELSE 0]
CoinNumber == [it \in Item |-> IF it.nft THEN 0 ELSE it.value]

MoveItem(w, a, b, it) ==
  IF it.nft
    THEN GiveNft(TakeNft(w, a, it.value), b, it.value,
                 MetaOf(w.user[a], w.entry), ShardOf[a], FALSE)
    ELSE GiveCoin(TakeCoin(w, a, it.value), b, it.value)

TakenItem(w, a, it) ==
  IF it.nft THEN Counted(TakeNft(w, a, it.value), -it.value)
  ELSE TakeCoin(w, a, it.value)

MetaWith(w, a, it) == IF it.nft THEN MetaOf(w.user[a], w.entry) ELSE NoMeta

TakeItem(w, a, it) ==
  [TakenItem(w, a, it) EXCEPT !.out = Append(@, [it EXCEPT !.meta = MetaWith(w, a, it)])]

ArriveItem(w, m, it) ==
  IF it.nft
    THEN Counted(GiveNft(w, m.to, it.value, it.meta, ShardOf[m.from], m.retErr), it.value)
    ELSE CreditCoin(w, m.to, it.value, m.retErr)

LEMMA ItemFields ==
  ASSUME NEW it \in Item
  PROVE  /\ it.nft \in BOOLEAN /\ it.value \in Nat /\ it.value \in Int /\ -it.value \in Int
         /\ it.meta \in Metas
         /\ NftNumber \in [Item -> Nat] /\ CoinNumber \in [Item -> Nat]
         /\ it.nft => NftNumber[it] = it.value /\ CoinNumber[it] = 0
         /\ ~it.nft => NftNumber[it] = 0 /\ CoinNumber[it] = it.value
BY DEF Item, NftNumber, CoinNumber, Metas

LEMMA ShiftTwice ==
  ASSUME NEW w, NarrowWork(w), NEW k, NarrowWork(k), NEW r, NarrowWork(r),
         NEW P, NEW Q, NEW x \in Nat, NEW y \in Nat,
         Shift(k, w, P, {}, x, y), Shift(r, k, {}, Q, x, y)
  PROVE  Shift(r, w, P, Q, x, y)
<1>1. /\ \A c \in Accounts : w.user[c].value \in Nat /\ w.coin[c].value \in Nat
      /\ \A c \in Accounts : k.user[c].value \in Nat /\ k.coin[c].value \in Nat
      /\ \A c \in Accounts : r.user[c].value \in Nat /\ r.coin[c].value \in Nat
  BY NarrowFields
<1> QED
  BY <1>1 DEF Shift

LEMMA MoveItemWide ==
  ASSUME NEW w \in WideWork, NEW a \in Accounts, NEW b \in Accounts, NEW it \in Item
  PROVE  MoveItem(w, a, b, it) \in WideWork
<1> DEFINE v == it.value
           m == MetaOf(w.user[a], w.entry)
           t == ShardOf[a]
<1>1. v \in Int /\ t \in Shards
  BY ItemFields, NftAssumption
<1>2. TakeNft(w, a, v) \in WideWork /\ TakeCoin(w, a, v) \in WideWork /\ m \in Metas
  BY <1>1, TakeNftLeaves, TakeCoinLeaves
<1> DEFINE k == TakeNft(w, a, v)
           g(retErr) == GiveNft(k, b, v, m, t, retErr)
<1> HIDE DEF k, m, t, v
<1>3. \A retErr \in BOOLEAN : GiveNft(k, b, v, m, t, retErr) \in WideWork
  BY <1>1, <1>2, GiveNftLeaves DEF k
<1>4. GiveNft(k, b, v, m, t, FALSE) \in WideWork
  <2>1. FALSE \in BOOLEAN
    OBVIOUS
  <2> QED
    BY <1>3, <2>1, Zenon
<1>5. GiveCoin(TakeCoin(w, a, v), b, v) \in WideWork
  BY <1>1, <1>2, GiveCoinLeaves
<1> QED
  BY <1>4, <1>5, Zenon DEF MoveItem, k, m, t, v

LEMMA MoveItemShift ==
  ASSUME NEW w, NarrowWork(w), NEW a \in Accounts, NEW b \in Accounts, NEW it \in Item,
         NEW r, r = MoveItem(w, a, b, it), r.ok
  PROVE  /\ w.ok /\ NarrowWork(r)
         /\ Shift(r, w, {a}, {b}, NftNumber[it], CoinNumber[it])
<1> DEFINE v == it.value
           m == MetaOf(w.user[a], w.entry)
           t == ShardOf[a]
<1>1. v \in Nat /\ v \in Int /\ t \in Shards /\ w \in WideWork
  BY ItemFields, NftAssumption, NarrowFields
<1>2. CASE it.nft
  <2> DEFINE k == TakeNft(w, a, v)
  <2>0. NftNumber[it] = v /\ CoinNumber[it] = 0
    BY <1>2, ItemFields
  <2>1. k \in WideWork /\ m \in Metas
    BY <1>1, TakeNftLeaves
  <2>2. r = GiveNft(k, b, v, m, t, FALSE)
    BY <1>2, Zenon DEF MoveItem
  <2> HIDE DEF k, m, t, v
  <2>3. k.ok
    <3>1. \A retErr \in BOOLEAN : r = GiveNft(k, b, v, m, t, retErr) => k.ok
      BY <1>1, <2>1, GiveNftLeaves
    <3>2. FALSE \in BOOLEAN
      OBVIOUS
    <3> QED
      BY <2>2, <3>1, <3>2, Zenon
  <2>4. w.ok /\ NarrowWork(k) /\ Shift(k, w, {a}, {}, v, 0)
    BY <1>1, <2>3, TakeNftShift DEF k
  <2>5. NarrowWork(r) /\ Shift(r, k, {}, {b}, v, 0)
    <3>1. \A retErr \in BOOLEAN : r = GiveNft(k, b, v, m, t, retErr)
            => NarrowWork(r) /\ Shift(r, k, {}, {b}, v, 0)
      BY <1>1, <2>1, <2>4, GiveNftShift
    <3>2. FALSE \in BOOLEAN
      OBVIOUS
    <3> QED
      BY <2>2, <3>1, <3>2, Zenon
  <2>6. Shift(r, w, {a}, {b}, v, 0)
    BY <1>1, <2>4, <2>5, ShiftTwice
  <2> QED
    BY <2>0, <2>4, <2>5, <2>6
<1>3. CASE ~it.nft
  <2> DEFINE k == TakeCoin(w, a, v)
  <2>0. NftNumber[it] = 0 /\ CoinNumber[it] = v
    BY <1>3, ItemFields
  <2>1. k \in WideWork
    BY <1>1, TakeCoinLeaves
  <2>2. r = GiveCoin(k, b, v)
    BY <1>3, Zenon DEF MoveItem
  <2> HIDE DEF k, v
  <2>3. k.ok
    BY <1>1, <2>1, <2>2, GiveCoinLeaves
  <2>4. w.ok /\ NarrowWork(k) /\ Shift(k, w, {a}, {}, 0, v)
    BY <1>1, <2>3, TakeCoinShift DEF k
  <2>5. NarrowWork(r) /\ Shift(r, k, {}, {b}, 0, v)
    BY <1>1, <2>2, <2>4, GiveCoinShift
  <2>6. Shift(r, w, {a}, {b}, 0, v)
    BY <1>1, <2>4, <2>5, ShiftTwice
  <2> QED
    BY <2>0, <2>4, <2>5, <2>6
<1> QED
  BY <1>2, <1>3, ItemFields

WithItemMeta(it, m) == [it EXCEPT !.meta = m]

LEMMA WithItemMetaFields ==
  ASSUME NEW it \in Item, NEW m \in Metas
  PROVE  /\ WithItemMeta(it, m) \in Item /\ WithItemMeta(it, m) \in WideItem
         /\ WithItemMeta(it, m).nft = it.nft /\ WithItemMeta(it, m).value = it.value
         /\ WithItemMeta(it, m).meta = m
         /\ NftNumber[WithItemMeta(it, m)] = NftNumber[it]
         /\ CoinNumber[WithItemMeta(it, m)] = CoinNumber[it]
<1>1. /\ WithItemMeta(it, m) \in Item
      /\ WithItemMeta(it, m).nft = it.nft /\ WithItemMeta(it, m).value = it.value
      /\ WithItemMeta(it, m).meta = m
  BY DEF WithItemMeta, Item, Metas
<1>2. WithItemMeta(it, m) \in WideItem
  BY <1>1, NarrowIsWide
<1>3. /\ NftNumber[WithItemMeta(it, m)] = NftNumber[it]
      /\ CoinNumber[WithItemMeta(it, m)] = CoinNumber[it]
  BY <1>1 DEF NftNumber, CoinNumber
<1> QED
  BY <1>1, <1>2, <1>3

LEMMA MetaWithType ==
  ASSUME NEW w \in WideWork, NEW a \in Accounts, NEW it \in Item
  PROVE  MetaWith(w, a, it) \in Metas
<1>1. w.user[a] \in WideRecord /\ w.entry \in WideEntry
  BY WideFields
<1>2. MetaOf(w.user[a], w.entry) \in Metas /\ NoMeta \in Metas
  BY <1>1, WideMetaOf, NftAssumption DEF Metas
<1> QED
  BY <1>2 DEF MetaWith

LEMMA TakenItemWide ==
  ASSUME NEW w \in WideWork, NEW a \in Accounts, NEW it \in Item
  PROVE  TakenItem(w, a, it) \in WideWork /\ TakenItem(w, a, it).out = w.out
<1> DEFINE v == it.value
           k == TakeNft(w, a, v)
<1>1. v \in Int /\ -v \in Int
  BY ItemFields
<1>2. k \in WideWork /\ k.out = w.out
  BY <1>1, TakeNftLeaves
<1>3. TakeCoin(w, a, v) \in WideWork /\ TakeCoin(w, a, v).out = w.out
  BY <1>1, TakeCoinLeaves
<1> HIDE DEF k, v
<1>4. Counted(k, -v) \in WideWork /\ Counted(k, -v).out = w.out
  BY <1>1, <1>2, CountedLeaves
<1> QED
  BY <1>3, <1>4 DEF TakenItem, k, v

LEMMA TakeItemLeaves ==
  ASSUME NEW w \in WideWork, NEW a \in Accounts, NEW it \in Item,
         NEW r, r = TakeItem(w, a, it)
  PROVE  /\ r \in WideWork
         /\ r.ok = TakenItem(w, a, it).ok /\ r.coin = TakenItem(w, a, it).coin
         /\ r.user = TakenItem(w, a, it).user /\ r.entry = TakenItem(w, a, it).entry
         /\ r.out = Append(w.out, WithItemMeta(it, MetaWith(w, a, it)))
<1> DEFINE k == TakenItem(w, a, it)
           x == WithItemMeta(it, MetaWith(w, a, it))
           o == Append(w.out, x)
<1>1. k \in WideWork /\ k.out = w.out
  BY TakenItemWide
<1>2. r = [k EXCEPT !.out = Append(k.out, x)]
  BY DEF TakeItem, WithItemMeta
<1>3. x \in WideItem
  BY MetaWithType, WithItemMetaFields
<1>4. w.out \in Seq(WideItem)
  BY WideFields
<1> HIDE DEF k, x
<1>5. o \in Seq(WideItem) /\ r = [k EXCEPT !.out = o]
  BY <1>1, <1>2, <1>3, <1>4
<1> HIDE DEF o
<1>6. /\ r \in WideWork
      /\ r.ok = k.ok /\ r.coin = k.coin /\ r.user = k.user
      /\ r.entry = k.entry /\ r.out = o
  BY <1>1, <1>5 DEF WideWork
<1> QED
  BY <1>6 DEF k, x, o

LEMMA TakeItemShift ==
  ASSUME NEW w, NarrowWork(w), NEW a \in Accounts, NEW it \in Item,
         NEW r, r = TakeItem(w, a, it), r.ok
  PROVE  /\ w.ok /\ NarrowWork(r)
         /\ Shift(r, w, {a}, {}, NftNumber[it], CoinNumber[it])
<1> DEFINE v == it.value
           t == TakenItem(w, a, it)
<1>1. v \in Nat /\ v \in Int /\ -v \in Int /\ w \in WideWork
  BY ItemFields, NarrowFields
<1>2. /\ r \in WideWork /\ t.ok
      /\ r.coin = t.coin /\ r.user = t.user /\ r.entry = t.entry
  BY <1>1, TakeItemLeaves
<1>3. w.ok /\ NarrowWork(t) /\ Shift(t, w, {a}, {}, NftNumber[it], CoinNumber[it])
  <2>1. CASE it.nft
    <3> DEFINE k == TakeNft(w, a, v)
    <3>0. NftNumber[it] = v /\ CoinNumber[it] = 0
      BY <2>1, ItemFields
    <3>1. k \in WideWork
      BY <1>1, TakeNftLeaves
    <3>2. t = Counted(k, -v)
      BY <2>1 DEF TakenItem
    <3> HIDE DEF k, t, v
    <3>3. k.ok
      BY <1>1, <1>2, <3>1, <3>2, CountedLeaves
    <3>4. w.ok /\ NarrowWork(k) /\ Shift(k, w, {a}, {}, v, 0)
      BY <1>1, <3>3, TakeNftShift DEF k
    <3>5. NarrowWork(t) /\ t.user = k.user /\ t.coin = k.coin
      BY <1>1, <1>2, <3>2, <3>4, CountedShift
    <3>6. Shift(t, w, {a}, {}, v, 0)
      BY <3>4, <3>5 DEF Shift
    <3> QED
      BY <3>0, <3>4, <3>5, <3>6
  <2>2. CASE ~it.nft
    <3>0. NftNumber[it] = 0 /\ CoinNumber[it] = v
      BY <2>2, ItemFields
    <3>1. t = TakeCoin(w, a, v)
      BY <2>2 DEF TakenItem
    <3> HIDE DEF t, v
    <3>2. w.ok /\ NarrowWork(t) /\ Shift(t, w, {a}, {}, 0, v)
      BY <1>1, <1>2, <3>1, TakeCoinShift
    <3> QED
      BY <3>0, <3>2
  <2> QED
    BY <2>1, <2>2, ItemFields
<1> HIDE DEF t
<1>4. NarrowWork(r) /\ Shift(r, w, {a}, {}, NftNumber[it], CoinNumber[it])
  <2>1. r.entry \in Entry
    BY <1>2, <1>3, NarrowFields
  <2> QED
    BY <1>2, <1>3, <2>1 DEF NarrowWork, Shift
<1> QED
  BY <1>3, <1>4

\* A batch whose fields are used as those of the message
LEMMA BatchFields ==
  ASSUME NEW m \in Batch
  PROVE  /\ m.from \in Accounts /\ m.to \in Accounts /\ m.retErr \in BOOLEAN
         /\ m.items \in Seq(Item)
         /\ ShardOf[m.from] \in Shards /\ ShardOf[m.to] \in Shards
BY NftAssumption DEF Batch

LEMMA ArriveItemWide ==
  ASSUME NEW w \in WideWork, NEW m \in Batch, NEW it \in Item
  PROVE  ArriveItem(w, m, it) \in WideWork
<1> DEFINE v == it.value
           k == GiveNft(w, m.to, v, it.meta, ShardOf[m.from], m.retErr)
<1>1. v \in Int /\ it.meta \in Metas
  BY ItemFields
<1>2. k \in WideWork
  BY <1>1, BatchFields, GiveNftLeaves
<1>3. CreditCoin(w, m.to, v, m.retErr) \in WideWork
  BY <1>1, BatchFields, CreditCoinLeaves
<1> HIDE DEF k, v
<1>4. Counted(k, v) \in WideWork
  BY <1>1, <1>2, CountedLeaves
<1> QED
  BY <1>3, <1>4 DEF ArriveItem, k, v

LEMMA ArriveItemShift ==
  ASSUME NEW w, NarrowWork(w), NEW m \in Batch, NEW it \in Item,
         NEW r, r = ArriveItem(w, m, it), r.ok
  PROVE  /\ w.ok /\ NarrowWork(r)
         /\ Shift(r, w, {}, {m.to}, NftNumber[it], CoinNumber[it])
<1> DEFINE v == it.value
           s == ShardOf[m.from]
<1>1. /\ v \in Nat /\ v \in Int /\ it.meta \in Metas /\ w \in WideWork /\ s \in Shards
      /\ m.to \in Accounts /\ m.retErr \in BOOLEAN
  BY ItemFields, BatchFields, NarrowFields
<1>2. CASE it.nft
  <2> DEFINE k == GiveNft(w, m.to, v, it.meta, s, m.retErr)
  <2>0. NftNumber[it] = v /\ CoinNumber[it] = 0
    BY <1>2, ItemFields
  <2>1. k \in WideWork
    BY <1>1, GiveNftLeaves
  <2>2. r = Counted(k, v)
    BY <1>2 DEF ArriveItem
  <2> HIDE DEF k, v, s
  <2>3. k.ok
    BY <1>1, <2>1, <2>2, CountedLeaves
  <2>4. w.ok /\ NarrowWork(k) /\ Shift(k, w, {}, {m.to}, v, 0)
    <3> DEFINE b == m.to
               e == m.retErr
               n == it.meta
    <3>1. b \in Accounts /\ e \in BOOLEAN /\ n \in Metas /\ k = GiveNft(w, b, v, n, s, e)
      BY <1>1 DEF k
    <3> HIDE DEF b, e, n
    <3>2. w.ok /\ NarrowWork(k) /\ Shift(k, w, {}, {b}, v, 0)
      BY <1>1, <2>3, <3>1, GiveNftShift
    <3> QED
      BY <3>2 DEF b
  <2>5. NarrowWork(r) /\ r.user = k.user /\ r.coin = k.coin
    BY <1>1, <2>2, <2>4, CountedShift
  <2>6. Shift(r, w, {}, {m.to}, v, 0)
    BY <2>4, <2>5 DEF Shift
  <2> QED
    BY <2>0, <2>4, <2>5, <2>6
<1>3. CASE ~it.nft
  <2>0. NftNumber[it] = 0 /\ CoinNumber[it] = v
    BY <1>3, ItemFields
  <2>1. r = CreditCoin(w, m.to, v, m.retErr)
    BY <1>3 DEF ArriveItem
  <2> HIDE DEF v
  <2>2. w.ok /\ NarrowWork(r) /\ Shift(r, w, {}, {m.to}, 0, v)
    BY <1>1, <2>1, CreditCoinShift
  <2> QED
    BY <2>0, <2>2
<1> QED
  BY <1>2, <1>3, ItemFields

-----------------------------------------------------------------------------
(* A whole list: the work before the first token and after each of them.   *)

LEMMA MovedPath ==
  ASSUME NEW a \in Accounts, NEW b \in Accounts, NEW items \in Seq(Item),
         Work(ShardOf[a]) \in WideWork
  PROVE  \E path \in [0..Len(items) -> WideWork] :
           /\ path[0] = Work(ShardOf[a]) /\ path[Len(items)] = Moved(a, b, items)
           /\ \A i \in 1..Len(items) : path[i] = MoveItem(path[i - 1], a, b, items[i])
<1> DEFINE S == DOMAIN items
           base == Work(ShardOf[a])
           F == [x \in WideWork \X S |-> MoveItem(x[1], a, b, items[x[2]])]
           Folds(h) == h = [T \in SUBSET S |->
                 IF T = {} THEN base
                 ELSE MoveItem(h[T \ {Max(T)}], a, b, items[Max(T)])]
           iter == CHOOSE h : Folds(h)
<1>1. IsFiniteSet(S) /\ S \subseteq Int /\ S = 1..Len(items) /\ Len(items) \in Nat
  <2>1. S = 1..Len(items) /\ Len(items) \in Nat
    OBVIOUS
  <2> QED
    BY <2>1, FS_Interval
<1>2. base \in WideWork
  OBVIOUS
<1>3. \A T \in SUBSET S : T # {} => Max(T) \in T
  BY <1>1, FS_Subset, MaxProperties
<1>4. \A w \in WideWork, i \in S : MoveItem(w, a, b, items[i]) \in WideWork
  BY <1>1, MoveItemWide
<1>5. F \in [WideWork \X S -> WideWork]
  BY <1>4
<1> HIDE DEF base, S
<1>6. PICK g \in [SUBSET S -> WideWork] : IsFoldOver(g, F, base, S)
  <2> HIDE DEF F
  <2> QED
    BY <1>1, <1>2, <1>5, FoldExists
<1>7. \A w \in WideWork, i \in S : F[<<w, i>>] = MoveItem(w, a, b, items[i])
  OBVIOUS
<1> HIDE DEF F
<1>8. Folds(g)
  <2>1. ASSUME NEW T \in SUBSET S, T # {}
        PROVE  F[<<g[T \ {Max(T)}], Max(T)>>]
                 = MoveItem(g[T \ {Max(T)}], a, b, items[Max(T)])
    <3>1. Max(T) \in S /\ g[T \ {Max(T)}] \in WideWork
      BY <1>3, <2>1
    <3> QED
      BY <1>7, <3>1
  <2> QED
    BY <1>6, <2>1 DEF IsFoldOver
<1>9. Folds(iter)
  <2> HIDE DEF Folds
  <2> QED
    BY <1>8
<1>10. Moved(a, b, items) = iter[S]
  BY DEF Moved, MoveItem, FoldLeft, MapThenFoldSet, iter, Folds, base, S
<1> HIDE DEF iter
<1>11. FoldsBy(iter, F, base, WideWork, S)
  <2>1. iter[{}] = base
    BY <1>9
  <2>2. ASSUME NEW T \in SUBSET S, T # {}, iter[T \ {Max(T)}] \in WideWork
        PROVE  iter[T] = F[<<iter[T \ {Max(T)}], Max(T)>>]
    <3>1. Max(T) \in S
      BY <1>3, <2>2
    <3>2. iter[T] = MoveItem(iter[T \ {Max(T)}], a, b, items[Max(T)])
      BY <1>9, <2>2
    <3> QED
      BY <1>7, <2>2, <3>1, <3>2
  <2> HIDE DEF Folds
  <2> QED
    BY <2>1, <2>2 DEF FoldsBy
<1> HIDE DEF Folds
<1>12. PICK path \in [0..Len(items) -> WideWork] :
        IsPath(path, F, base, Len(items)) /\ path[Len(items)] = iter[1..Len(items)]
  <2>1. FoldsTo(iter, F, base, Len(items), WideWork)
    BY <1>1, <1>5, <1>11 DEF FoldsTo
  <2> HIDE DEF iter, F, base
  <2>2. HasPath(F, base, Len(items), WideWork, iter[1..Len(items)])
    BY <1>1, <1>2, <2>1, FoldPath
  <2> QED
    BY <2>2 DEF HasPath
<1>13. path[0] = base /\ path[Len(items)] = Moved(a, b, items)
  BY <1>1, <1>10, <1>12 DEF IsPath
<1>14. ASSUME NEW i \in 1..Len(items) PROVE path[i] = MoveItem(path[i - 1], a, b, items[i])
  <2>1. path[i] = F[<<path[i - 1], i>>]
    BY <1>12 DEF IsPath
  <2>2. i \in S /\ i - 1 \in 0..Len(items)
    BY <1>1
  <2>3. path[i - 1] \in WideWork
    BY <2>2
  <2> QED
    BY <1>7, <2>1, <2>2, <2>3
<1> QED
  BY <1>13, <1>14 DEF base

LEMMA TakenPath ==
  ASSUME NEW a \in Accounts, NEW items \in Seq(Item),
         Work(ShardOf[a]) \in WideWork
  PROVE  \E path \in [0..Len(items) -> WideWork] :
           /\ path[0] = Work(ShardOf[a]) /\ path[Len(items)] = TakenAll(a, items)
           /\ \A i \in 1..Len(items) : path[i] = TakeItem(path[i - 1], a, items[i])
<1> DEFINE S == DOMAIN items
           base == Work(ShardOf[a])
           F == [x \in WideWork \X S |-> TakeItem(x[1], a, items[x[2]])]
           Folds(h) == h = [T \in SUBSET S |->
                 IF T = {} THEN base
                 ELSE TakeItem(h[T \ {Max(T)}], a, items[Max(T)])]
           iter == CHOOSE h : Folds(h)
<1>1. IsFiniteSet(S) /\ S \subseteq Int /\ S = 1..Len(items) /\ Len(items) \in Nat
  <2>1. S = 1..Len(items) /\ Len(items) \in Nat
    OBVIOUS
  <2> QED
    BY <2>1, FS_Interval
<1>2. base \in WideWork
  OBVIOUS
<1>3. \A T \in SUBSET S : T # {} => Max(T) \in T
  BY <1>1, FS_Subset, MaxProperties
<1>4. \A w \in WideWork, i \in S : TakeItem(w, a, items[i]) \in WideWork
  BY <1>1, TakeItemLeaves
<1>5. F \in [WideWork \X S -> WideWork]
  BY <1>4
<1> HIDE DEF base, S
<1>6. PICK g \in [SUBSET S -> WideWork] : IsFoldOver(g, F, base, S)
  <2> HIDE DEF F
  <2> QED
    BY <1>1, <1>2, <1>5, FoldExists
<1>7. \A w \in WideWork, i \in S : F[<<w, i>>] = TakeItem(w, a, items[i])
  OBVIOUS
<1> HIDE DEF F
<1>8. Folds(g)
  <2>1. ASSUME NEW T \in SUBSET S, T # {}
        PROVE  F[<<g[T \ {Max(T)}], Max(T)>>]
                 = TakeItem(g[T \ {Max(T)}], a, items[Max(T)])
    <3>1. Max(T) \in S /\ g[T \ {Max(T)}] \in WideWork
      BY <1>3, <2>1
    <3> QED
      BY <1>7, <3>1
  <2> QED
    BY <1>6, <2>1 DEF IsFoldOver
<1>9. Folds(iter)
  <2> HIDE DEF Folds
  <2> QED
    BY <1>8
<1>10. TakenAll(a, items) = iter[S]
  BY DEF TakenAll, TakeItem, TakenItem, MetaWith, FoldLeft, MapThenFoldSet, iter, Folds, base, S
<1> HIDE DEF iter
<1>11. FoldsBy(iter, F, base, WideWork, S)
  <2>1. iter[{}] = base
    BY <1>9
  <2>2. ASSUME NEW T \in SUBSET S, T # {}, iter[T \ {Max(T)}] \in WideWork
        PROVE  iter[T] = F[<<iter[T \ {Max(T)}], Max(T)>>]
    <3>1. Max(T) \in S
      BY <1>3, <2>2
    <3>2. iter[T] = TakeItem(iter[T \ {Max(T)}], a, items[Max(T)])
      BY <1>9, <2>2
    <3> QED
      BY <1>7, <2>2, <3>1, <3>2
  <2> HIDE DEF Folds
  <2> QED
    BY <2>1, <2>2 DEF FoldsBy
<1> HIDE DEF Folds
<1>12. PICK path \in [0..Len(items) -> WideWork] :
        IsPath(path, F, base, Len(items)) /\ path[Len(items)] = iter[1..Len(items)]
  <2>1. FoldsTo(iter, F, base, Len(items), WideWork)
    BY <1>1, <1>5, <1>11 DEF FoldsTo
  <2> HIDE DEF iter, F, base
  <2>2. HasPath(F, base, Len(items), WideWork, iter[1..Len(items)])
    BY <1>1, <1>2, <2>1, FoldPath
  <2> QED
    BY <2>2 DEF HasPath
<1>13. path[0] = base /\ path[Len(items)] = TakenAll(a, items)
  BY <1>1, <1>10, <1>12 DEF IsPath
<1>14. ASSUME NEW i \in 1..Len(items) PROVE path[i] = TakeItem(path[i - 1], a, items[i])
  <2>1. path[i] = F[<<path[i - 1], i>>]
    BY <1>12 DEF IsPath
  <2>2. i \in S /\ i - 1 \in 0..Len(items)
    BY <1>1
  <2>3. path[i - 1] \in WideWork
    BY <2>2
  <2> QED
    BY <1>7, <2>1, <2>2, <2>3
<1> QED
  BY <1>13, <1>14 DEF base

LEMMA ArrivedPath ==
  ASSUME NEW m \in Batch, Work(ShardOf[m.to]) \in WideWork
  PROVE  \E path \in [0..Len(m.items) -> WideWork] :
           /\ path[0] = Work(ShardOf[m.to]) /\ path[Len(m.items)] = Arrived(m)
           /\ \A i \in 1..Len(m.items) : path[i] = ArriveItem(path[i - 1], m, m.items[i])
<1> DEFINE S == DOMAIN m.items
           base == Work(ShardOf[m.to])
           F == [x \in WideWork \X S |-> ArriveItem(x[1], m, m.items[x[2]])]
           Folds(h) == h = [T \in SUBSET S |->
                 IF T = {} THEN base
                 ELSE ArriveItem(h[T \ {Max(T)}], m, m.items[Max(T)])]
           iter == CHOOSE h : Folds(h)
<1>1. IsFiniteSet(S) /\ S \subseteq Int /\ S = 1..Len(m.items) /\ Len(m.items) \in Nat
  <2>1. S = 1..Len(m.items) /\ Len(m.items) \in Nat
    BY BatchFields
  <2> QED
    BY <2>1, FS_Interval
<1>2. base \in WideWork
  OBVIOUS
<1>3. \A T \in SUBSET S : T # {} => Max(T) \in T
  BY <1>1, FS_Subset, MaxProperties
<1>4. \A w \in WideWork, i \in S : ArriveItem(w, m, m.items[i]) \in WideWork
  BY <1>1, ArriveItemWide, BatchFields
<1>5. F \in [WideWork \X S -> WideWork]
  BY <1>4
<1> HIDE DEF base, S
<1>6. PICK g \in [SUBSET S -> WideWork] : IsFoldOver(g, F, base, S)
  <2> HIDE DEF F
  <2> QED
    BY <1>1, <1>2, <1>5, FoldExists
<1>7. \A w \in WideWork, i \in S : F[<<w, i>>] = ArriveItem(w, m, m.items[i])
  OBVIOUS
<1> HIDE DEF F
<1>8. Folds(g)
  <2>1. ASSUME NEW T \in SUBSET S, T # {}
        PROVE  F[<<g[T \ {Max(T)}], Max(T)>>]
                 = ArriveItem(g[T \ {Max(T)}], m, m.items[Max(T)])
    <3>1. Max(T) \in S /\ g[T \ {Max(T)}] \in WideWork
      BY <1>3, <2>1
    <3> QED
      BY <1>7, <3>1
  <2> QED
    BY <1>6, <2>1 DEF IsFoldOver
<1>9. Folds(iter)
  <2> HIDE DEF Folds
  <2> QED
    BY <1>8
<1>10. Arrived(m) = iter[S]
  BY DEF Arrived, ArriveItem, FoldLeft, MapThenFoldSet, iter, Folds, base, S
<1> HIDE DEF iter
<1>11. FoldsBy(iter, F, base, WideWork, S)
  <2>1. iter[{}] = base
    BY <1>9
  <2>2. ASSUME NEW T \in SUBSET S, T # {}, iter[T \ {Max(T)}] \in WideWork
        PROVE  iter[T] = F[<<iter[T \ {Max(T)}], Max(T)>>]
    <3>1. Max(T) \in S
      BY <1>3, <2>2
    <3>2. iter[T] = ArriveItem(iter[T \ {Max(T)}], m, m.items[Max(T)])
      BY <1>9, <2>2
    <3> QED
      BY <1>7, <2>2, <3>1, <3>2
  <2> HIDE DEF Folds
  <2> QED
    BY <2>1, <2>2 DEF FoldsBy
<1> HIDE DEF Folds
<1>12. PICK path \in [0..Len(m.items) -> WideWork] :
        IsPath(path, F, base, Len(m.items)) /\ path[Len(m.items)] = iter[1..Len(m.items)]
  <2>1. FoldsTo(iter, F, base, Len(m.items), WideWork)
    BY <1>1, <1>5, <1>11 DEF FoldsTo
  <2> HIDE DEF iter, F, base
  <2>2. HasPath(F, base, Len(m.items), WideWork, iter[1..Len(m.items)])
    BY <1>1, <1>2, <2>1, FoldPath
  <2> QED
    BY <2>2 DEF HasPath
<1>13. path[0] = base /\ path[Len(m.items)] = Arrived(m)
  BY <1>1, <1>10, <1>12 DEF IsPath
<1>14. ASSUME NEW i \in 1..Len(m.items) PROVE path[i] = ArriveItem(path[i - 1], m, m.items[i])
  <2>1. path[i] = F[<<path[i - 1], i>>]
    BY <1>12 DEF IsPath
  <2>2. i \in S /\ i - 1 \in 0..Len(m.items)
    BY <1>1
  <2>3. path[i - 1] \in WideWork
    BY <2>2
  <2> QED
    BY <1>7, <2>1, <2>2, <2>3
<1> QED
  BY <1>13, <1>14 DEF base

AddressItem(x, d, it) ==
  IF ~it.nft THEN [x EXCEPT !.out = Append(@, it)]
  ELSE [x EXCEPT !.out = Append(@, IF ~WasAlreadySent(x.entry, d) \/ it.value = 1 THEN it
                                   ELSE [it EXCEPT !.meta = NoMeta]),
                 !.entry = Marked(@, d)]

SentItem(e, d, it) ==
  IF it.nft /\ WasAlreadySent(e, d) /\ it.value # 1 THEN WithItemMeta(it, NoMeta) ELSE it

LEMMA SentItemFields ==
  ASSUME NEW e, NEW d, NEW it \in Item
  PROVE  LET sent == SentItem(e, d, it) IN
         /\ sent \in Item /\ sent \in WideItem
         /\ sent.nft = it.nft /\ sent.value = it.value
         /\ sent.meta = IF it.nft /\ WasAlreadySent(e, d) /\ it.value # 1
                          THEN NoMeta ELSE it.meta
         /\ NftNumber[sent] = NftNumber[it] /\ CoinNumber[sent] = CoinNumber[it]
<1>1. NoMeta \in Metas /\ it \in WideItem
  BY NftAssumption, NarrowIsWide DEF Metas
<1> QED
  BY <1>1, WithItemMetaFields DEF SentItem

LEMMA AddressItemLeaves ==
  ASSUME NEW x \in WideWork, NEW d \in Shards, NEW it \in Item,
         NEW r, r = AddressItem(x, d, it)
  PROVE  /\ r \in WideWork
         /\ r.ok = x.ok /\ r.coin = x.coin /\ r.user = x.user
         /\ r.entry = IF it.nft THEN Marked(x.entry, d) ELSE x.entry
         /\ r.out = Append(x.out, SentItem(x.entry, d, it))
<1> DEFINE e == IF it.nft THEN Marked(x.entry, d) ELSE x.entry
           sent == SentItem(x.entry, d, it)
           o == Append(x.out, sent)
<1>1. x.entry \in WideEntry /\ x.out \in Seq(WideItem)
  BY WideFields
<1>2. e \in WideEntry
  BY <1>1, WideMarked
<1>3. sent \in WideItem
  BY SentItemFields
<1>4. r = [x EXCEPT !.out = o, !.entry = e]
  <2>1. CASE it.nft
    <3>1. sent = IF ~WasAlreadySent(x.entry, d) \/ it.value = 1 THEN it
                 ELSE [it EXCEPT !.meta = NoMeta]
      BY <2>1 DEF SentItem, WithItemMeta
    <3>2. e = Marked(x.entry, d)
      BY <2>1
    <3> HIDE DEF sent, e
    <3> QED
      BY <2>1, <3>1, <3>2 DEF AddressItem
  <2>2. CASE ~it.nft
    <3>1. sent = it /\ e = x.entry
      BY <2>2 DEF SentItem
    <3>2. r = [x EXCEPT !.out = o]
      BY <2>2, <3>1 DEF AddressItem
    <3> HIDE DEF sent, e, o
    <3> QED
      BY <3>1, <3>2 DEF WideWork
  <2> QED
    BY <2>1, <2>2
<1> HIDE DEF e, sent
<1>5. o \in Seq(WideItem)
  BY <1>1, <1>3
<1> HIDE DEF o
<1>6. /\ r \in WideWork /\ r.ok = x.ok /\ r.coin = x.coin /\ r.user = x.user
      /\ r.entry = e /\ r.out = o
  BY <1>2, <1>4, <1>5 DEF WideWork
<1> QED
  BY <1>6 DEF e, sent, o

LEMMA NothingOut ==
  ASSUME NEW k \in WideWork
  PROVE  /\ [k EXCEPT !.out = <<>>] \in WideWork
         /\ [k EXCEPT !.out = <<>>].ok = k.ok /\ [k EXCEPT !.out = <<>>].coin = k.coin
         /\ [k EXCEPT !.out = <<>>].user = k.user /\ [k EXCEPT !.out = <<>>].entry = k.entry
         /\ [k EXCEPT !.out = <<>>].out = <<>>
<1> DEFINE o == <<>>
<1>1. o \in Seq(WideItem)
  OBVIOUS
<1> HIDE DEF o
<1>2. /\ [k EXCEPT !.out = o] \in WideWork
      /\ [k EXCEPT !.out = o].ok = k.ok /\ [k EXCEPT !.out = o].coin = k.coin
      /\ [k EXCEPT !.out = o].user = k.user /\ [k EXCEPT !.out = o].entry = k.entry
      /\ [k EXCEPT !.out = o].out = o
  BY <1>1 DEF WideWork
<1> QED
  BY <1>2 DEF o

SaveItem(e, m, it) ==
  WithMeta(e, NoRecord, it.meta, ShardOf[m.from], ShardOf[m.to], TRUE)

LEMMA SaveItemType ==
  ASSUME NEW e \in Entry, NEW m \in Batch, NEW it \in Item
  PROVE  SaveItem(e, m, it) \in Entry
<1>1. TRUE \in BOOLEAN
  OBVIOUS
<1>2. it.meta \in Metas /\ ShardOf[m.from] \in Shards /\ ShardOf[m.to] \in Shards
  BY ItemFields, BatchFields
<1> QED
  BY <1>1, <1>2, WithMetaType, Zenon DEF SaveItem

LEMMA AddressedPath ==
  ASSUME NEW k \in WideWork, NEW d \in Shards, k.out \in Seq(Item)
  PROVE  \E path \in [0..Len(k.out) -> WideWork] :
           /\ path[0] = [k EXCEPT !.out = <<>>] /\ path[Len(k.out)] = Addressed(k, d)
           /\ \A i \in 1..Len(k.out) : path[i] = AddressItem(path[i - 1], d, k.out[i])
<1> DEFINE S == DOMAIN k.out
           base == [k EXCEPT !.out = <<>>]
           F == [x \in WideWork \X S |-> AddressItem(x[1], d, k.out[x[2]])]
           Folds(h) == h = [T \in SUBSET S |->
                 IF T = {} THEN base
                 ELSE AddressItem(h[T \ {Max(T)}], d, k.out[Max(T)])]
           iter == CHOOSE h : Folds(h)
<1>1. IsFiniteSet(S) /\ S \subseteq Int /\ S = 1..Len(k.out) /\ Len(k.out) \in Nat
  <2>1. S = 1..Len(k.out) /\ Len(k.out) \in Nat
    OBVIOUS
  <2> QED
    BY <2>1, FS_Interval
<1>2. base \in WideWork
  BY NothingOut
<1>3. \A T \in SUBSET S : T # {} => Max(T) \in T
  BY <1>1, FS_Subset, MaxProperties
<1>4. \A w \in WideWork, i \in S : AddressItem(w, d, k.out[i]) \in WideWork
  <2>1. \A i \in S : k.out[i] \in Item
    OBVIOUS
  <2> HIDE DEF S, base
  <2>2. \A w \in WideWork, it \in Item : AddressItem(w, d, it) \in WideWork
    BY AddressItemLeaves
  <2> QED
    BY <2>1, <2>2
<1>5. F \in [WideWork \X S -> WideWork]
  BY <1>4
<1> HIDE DEF base, S
<1>6. PICK g \in [SUBSET S -> WideWork] : IsFoldOver(g, F, base, S)
  <2> HIDE DEF F
  <2> QED
    BY <1>1, <1>2, <1>5, FoldExists
<1>7. \A w \in WideWork, i \in S : F[<<w, i>>] = AddressItem(w, d, k.out[i])
  OBVIOUS
<1> HIDE DEF F
<1>8. Folds(g)
  <2>1. ASSUME NEW T \in SUBSET S, T # {}
        PROVE  F[<<g[T \ {Max(T)}], Max(T)>>]
                 = AddressItem(g[T \ {Max(T)}], d, k.out[Max(T)])
    <3>1. Max(T) \in S /\ g[T \ {Max(T)}] \in WideWork
      BY <1>3, <2>1
    <3> QED
      BY <1>7, <3>1
  <2> QED
    BY <1>6, <2>1 DEF IsFoldOver
<1>9. Folds(iter)
  <2> HIDE DEF Folds
  <2> QED
    BY <1>8
<1>10. Addressed(k, d) = iter[S]
  BY DEF Addressed, AddressItem, FoldLeft, MapThenFoldSet, iter, Folds, base, S
<1> HIDE DEF iter
<1>11. FoldsBy(iter, F, base, WideWork, S)
  <2>1. iter[{}] = base
    BY <1>9
  <2>2. ASSUME NEW T \in SUBSET S, T # {}, iter[T \ {Max(T)}] \in WideWork
        PROVE  iter[T] = F[<<iter[T \ {Max(T)}], Max(T)>>]
    <3>1. Max(T) \in S
      BY <1>3, <2>2
    <3>2. iter[T] = AddressItem(iter[T \ {Max(T)}], d, k.out[Max(T)])
      BY <1>9, <2>2
    <3> QED
      BY <1>7, <2>2, <3>1, <3>2
  <2> HIDE DEF Folds
  <2> QED
    BY <2>1, <2>2 DEF FoldsBy
<1> HIDE DEF Folds
<1>12. PICK path \in [0..Len(k.out) -> WideWork] :
        IsPath(path, F, base, Len(k.out)) /\ path[Len(k.out)] = iter[1..Len(k.out)]
  <2>1. FoldsTo(iter, F, base, Len(k.out), WideWork)
    BY <1>1, <1>5, <1>11 DEF FoldsTo
  <2> HIDE DEF iter, F, base
  <2>2. HasPath(F, base, Len(k.out), WideWork, iter[1..Len(k.out)])
    BY <1>1, <1>2, <2>1, FoldPath
  <2> QED
    BY <2>2 DEF HasPath
<1>13. path[0] = base /\ path[Len(k.out)] = Addressed(k, d)
  BY <1>1, <1>10, <1>12 DEF IsPath
<1>14. ASSUME NEW i \in 1..Len(k.out) PROVE path[i] = AddressItem(path[i - 1], d, k.out[i])
  <2>1. path[i] = F[<<path[i - 1], i>>]
    BY <1>12 DEF IsPath
  <2>2. i \in S /\ i - 1 \in 0..Len(k.out)
    BY <1>1
  <2>3. path[i - 1] \in WideWork
    BY <2>2
  <2> QED
    BY <1>7, <2>1, <2>2, <2>3
<1> QED
  BY <1>13, <1>14 DEF base

LEMMA SavedOnErrorPath ==
  ASSUME NEW m \in Batch, sys[ShardOf[m.to]] \in Entry, ~SendAlways
  PROVE  \E path \in [0..Len(m.items) -> Entry] :
           /\ path[0] = sys[ShardOf[m.to]] /\ path[Len(m.items)] = MultiSavedOnError(m)
           /\ \A i \in 1..Len(m.items) : path[i] = SaveItem(path[i - 1], m, m.items[i])
<1> DEFINE S == DOMAIN m.items
           base == sys[ShardOf[m.to]]
           F == [x \in Entry \X S |-> SaveItem(x[1], m, m.items[x[2]])]
           Folds(h) == h = [T \in SUBSET S |->
                 IF T = {} THEN base
                 ELSE SaveItem(h[T \ {Max(T)}], m, m.items[Max(T)])]
           iter == CHOOSE h : Folds(h)
<1>1. IsFiniteSet(S) /\ S \subseteq Int /\ S = 1..Len(m.items) /\ Len(m.items) \in Nat
  <2>1. S = 1..Len(m.items) /\ Len(m.items) \in Nat
    BY BatchFields
  <2> QED
    BY <2>1, FS_Interval
<1>2. base \in Entry
  OBVIOUS
<1>3. \A T \in SUBSET S : T # {} => Max(T) \in T
  BY <1>1, FS_Subset, MaxProperties
<1>4. \A w \in Entry, i \in S : SaveItem(w, m, m.items[i]) \in Entry
  BY <1>1, SaveItemType, BatchFields
<1>5. F \in [Entry \X S -> Entry]
  BY <1>4
<1> HIDE DEF base, S
<1>6. PICK g \in [SUBSET S -> Entry] : IsFoldOver(g, F, base, S)
  <2> HIDE DEF F
  <2> QED
    BY <1>1, <1>2, <1>5, FoldExists
<1>7. \A w \in Entry, i \in S : F[<<w, i>>] = SaveItem(w, m, m.items[i])
  OBVIOUS
<1> HIDE DEF F
<1>8. Folds(g)
  <2>1. ASSUME NEW T \in SUBSET S, T # {}
        PROVE  F[<<g[T \ {Max(T)}], Max(T)>>]
                 = SaveItem(g[T \ {Max(T)}], m, m.items[Max(T)])
    <3>1. Max(T) \in S /\ g[T \ {Max(T)}] \in Entry
      BY <1>3, <2>1
    <3> QED
      BY <1>7, <3>1
  <2> QED
    BY <1>6, <2>1 DEF IsFoldOver
<1>9. Folds(iter)
  <2> HIDE DEF Folds
  <2> QED
    BY <1>8
<1>10. MultiSavedOnError(m) = iter[S]
  BY DEF MultiSavedOnError, SaveItem, FoldLeft, MapThenFoldSet, iter, Folds, base, S
<1> HIDE DEF iter
<1>11. FoldsBy(iter, F, base, Entry, S)
  <2>1. iter[{}] = base
    BY <1>9
  <2>2. ASSUME NEW T \in SUBSET S, T # {}, iter[T \ {Max(T)}] \in Entry
        PROVE  iter[T] = F[<<iter[T \ {Max(T)}], Max(T)>>]
    <3>1. Max(T) \in S
      BY <1>3, <2>2
    <3>2. iter[T] = SaveItem(iter[T \ {Max(T)}], m, m.items[Max(T)])
      BY <1>9, <2>2
    <3> QED
      BY <1>7, <2>2, <3>1, <3>2
  <2> HIDE DEF Folds
  <2> QED
    BY <2>1, <2>2 DEF FoldsBy
<1> HIDE DEF Folds
<1>12. PICK path \in [0..Len(m.items) -> Entry] :
        IsPath(path, F, base, Len(m.items)) /\ path[Len(m.items)] = iter[1..Len(m.items)]
  <2>1. FoldsTo(iter, F, base, Len(m.items), Entry)
    BY <1>1, <1>5, <1>11 DEF FoldsTo
  <2> HIDE DEF iter, F, base
  <2>2. HasPath(F, base, Len(m.items), Entry, iter[1..Len(m.items)])
    BY <1>1, <1>2, <2>1, FoldPath
  <2> QED
    BY <2>2 DEF HasPath
<1>13. path[0] = base /\ path[Len(m.items)] = MultiSavedOnError(m)
  BY <1>1, <1>10, <1>12 DEF IsPath
<1>14. ASSUME NEW i \in 1..Len(m.items) PROVE path[i] = SaveItem(path[i - 1], m, m.items[i])
  <2>1. path[i] = F[<<path[i - 1], i>>]
    BY <1>12 DEF IsPath
  <2>2. i \in S /\ i - 1 \in 0..Len(m.items)
    BY <1>1
  <2>3. path[i - 1] \in Entry
    BY <2>2
  <2> QED
    BY <1>7, <2>1, <2>2, <2>3
<1> QED
  BY <1>13, <1>14 DEF base

-----------------------------------------------------------------------------
(* What a whole list does: it moves the totals of its tokens.              *)

Total(h, s) == SumFunction(NumbersOf(h, s))
Prefix(s, i) == SubSeq(s, 1, i)

LEMMA TotalType ==
  ASSUME NEW h \in [Item -> Nat], NEW s \in Seq(Item)
  PROVE  Total(h, s) \in Nat
<1> DEFINE f == NumbersOf(h, s)
<1>0. h \in [Item -> Int]
  OBVIOUS
<1>1. Len(s) \in Nat /\ DOMAIN s = 1..Len(s)
  OBVIOUS
<1>2. f \in [1..Len(s) -> Nat]
  BY <1>1 DEF NumbersOf
<1>3. IsFiniteSet(1..Len(s))
  BY <1>1, FS_Interval
<1> HIDE DEF f
<1>4. SumFunction(f) \in Nat
  BY <1>2, <1>3, SumNat
<1> QED
  BY <1>4 DEF f, Total

LEMMA TotalAppend ==
  ASSUME NEW h \in [Item -> Nat], NEW s \in Seq(Item), NEW it \in Item
  PROVE  Total(h, Append(s, it)) = Total(h, s) + h[it]
<1>1. h \in [Item -> Int]
  OBVIOUS
<1> QED
  BY <1>1, SumNumbersAppend DEF Total

LEMMA TotalEmpty ==
  ASSUME NEW h, NEW s, DOMAIN s = {}
  PROVE  Total(h, s) = 0
<1> DEFINE f == NumbersOf(h, s)
<1>1. f \in [{} -> Int]
  BY DEF NumbersOf
<1> HIDE DEF f
<1>2. SumFunction(f) = 0
  BY <1>1, FS_EmptySet, SumType
<1> QED
  BY <1>2 DEF Total, f

LEMMA PrefixFields ==
  ASSUME NEW s \in Seq(Item)
  PROVE  /\ Len(s) \in Nat /\ \A i \in 1..Len(s) : s[i] \in Item
         /\ \A i \in 0..Len(s) : Prefix(s, i) \in Seq(Item)
         /\ DOMAIN Prefix(s, 0) = {} /\ Prefix(s, Len(s)) = s
         /\ \A i \in 1..Len(s) : Prefix(s, i) = Append(Prefix(s, i - 1), s[i])
<1>1. Len(s) \in Nat /\ \A i \in 1..Len(s) : s[i] \in Item
  OBVIOUS
<1>2. \A i \in 0..Len(s) : /\ Prefix(s, i) \in Seq(Item) /\ Len(Prefix(s, i)) = i
                           /\ \A j \in 1..i : Prefix(s, i)[j] = s[j]
  BY <1>1 DEF Prefix
<1>3. DOMAIN Prefix(s, 0) = {}
  BY <1>1, <1>2
<1>4. Prefix(s, Len(s)) = s
  <2>1. /\ Prefix(s, Len(s)) \in Seq(Item) /\ Len(Prefix(s, Len(s))) = Len(s)
        /\ \A j \in 1..Len(s) : Prefix(s, Len(s))[j] = s[j]
    BY <1>1, <1>2
  <2> QED
    BY <2>1
<1>5. ASSUME NEW i \in 1..Len(s) PROVE Prefix(s, i) = Append(Prefix(s, i - 1), s[i])
  <2> DEFINE p == Prefix(s, i)
             q == Prefix(s, i - 1)
  <2>1. /\ p \in Seq(Item) /\ Len(p) = i /\ \A j \in 1..i : p[j] = s[j]
        /\ q \in Seq(Item) /\ Len(q) = i - 1 /\ \A j \in 1..(i - 1) : q[j] = s[j]
        /\ s[i] \in Item /\ i \in Nat /\ i >= 1
    <3>1. i \in Nat /\ i >= 1 /\ i \in 0..Len(s) /\ i - 1 \in 0..Len(s)
      BY <1>1
    <3> HIDE DEF p, q
    <3>2. p \in Seq(Item) /\ Len(p) = i /\ \A j \in 1..i : p[j] = s[j]
      BY <1>2, <3>1 DEF p
    <3>3. q \in Seq(Item) /\ Len(q) = i - 1 /\ \A j \in 1..(i - 1) : q[j] = s[j]
      BY <1>2, <3>1 DEF q
    <3> QED
      BY <1>1, <3>1, <3>2, <3>3
  <2> HIDE DEF p, q
  <2>2. /\ Append(q, s[i]) \in Seq(Item) /\ Len(Append(q, s[i])) = i
        /\ \A j \in 1..i : Append(q, s[i])[j] = s[j]
    BY <2>1
  <2>3. p = Append(q, s[i])
    BY <2>1, <2>2
  <2> QED
    BY <2>3 DEF p, q
<1> QED
  BY <1>1, <1>2, <1>3, <1>4, <1>5

LEMMA TotalPrefix ==
  ASSUME NEW h \in [Item -> Nat], NEW s \in Seq(Item)
  PROVE  /\ Total(h, Prefix(s, 0)) = 0 /\ Total(h, Prefix(s, Len(s))) = Total(h, s)
         /\ \A i \in 0..Len(s) : Total(h, Prefix(s, i)) \in Nat
         /\ \A i \in 1..Len(s) :
              Total(h, Prefix(s, i)) = Total(h, Prefix(s, i - 1)) + h[s[i]]
<1>1. /\ Len(s) \in Nat /\ \A i \in 1..Len(s) : s[i] \in Item
      /\ \A i \in 0..Len(s) : Prefix(s, i) \in Seq(Item)
      /\ DOMAIN Prefix(s, 0) = {} /\ Prefix(s, Len(s)) = s
      /\ \A i \in 1..Len(s) : Prefix(s, i) = Append(Prefix(s, i - 1), s[i])
  BY PrefixFields
<1>2. Total(h, Prefix(s, 0)) = 0
  BY <1>1, TotalEmpty
<1>3. \A i \in 0..Len(s) : Total(h, Prefix(s, i)) \in Nat
  BY <1>1, TotalType
<1>4. ASSUME NEW i \in 1..Len(s)
      PROVE  Total(h, Prefix(s, i)) = Total(h, Prefix(s, i - 1)) + h[s[i]]
  <2>1. i - 1 \in 0..Len(s)
    BY <1>1
  <2>2. Prefix(s, i - 1) \in Seq(Item) /\ s[i] \in Item
        /\ Prefix(s, i) = Append(Prefix(s, i - 1), s[i])
    BY <1>1, <2>1
  <2> QED
    BY <2>2, TotalAppend
<1> QED
  BY <1>1, <1>2, <1>3, <1>4

(* Every step of a path that goes well moves the token of its number.      *)
StepsShift(path, s, givers, takers) ==
  \A i \in 1..Len(s) : path[i].ok =>
    /\ path[i - 1].ok
    /\ NarrowWork(path[i - 1]) =>
         /\ NarrowWork(path[i])
         /\ Shift(path[i], path[i - 1], givers, takers, NftNumber[s[i]], CoinNumber[s[i]])

LEMMA ShiftAgain ==
  ASSUME NEW w, NarrowWork(w), NEW k, NarrowWork(k), NEW r, NarrowWork(r),
         NEW P, NEW Q, NEW x \in Nat, NEW y \in Nat, NEW n \in Nat, NEW c \in Nat,
         Shift(k, w, P, Q, x, y), Shift(r, k, P, Q, n, c)
  PROVE  Shift(r, w, P, Q, x + n, y + c)
<1>1. /\ \A a \in Accounts : w.user[a].value \in Nat /\ w.coin[a].value \in Nat
      /\ \A a \in Accounts : k.user[a].value \in Nat /\ k.coin[a].value \in Nat
      /\ \A a \in Accounts : r.user[a].value \in Nat /\ r.coin[a].value \in Nat
  BY NarrowFields
<1> QED
  BY <1>1 DEF Shift

LEMMA PathShifts ==
  ASSUME NEW s \in Seq(Item), NEW path \in [0..Len(s) -> WideWork],
         NEW P, NEW Q, NarrowWork(path[0]), StepsShift(path, s, P, Q), path[Len(s)].ok
  PROVE  /\ NarrowWork(path[Len(s)])
         /\ Shift(path[Len(s)], path[0], P, Q, Total(NftNumber, s), Total(CoinNumber, s))
<1> DEFINE n(i) == Total(NftNumber, Prefix(s, i))
           c(i) == Total(CoinNumber, Prefix(s, i))
           G == {i \in 0..Len(s) : path[i].ok =>
                   NarrowWork(path[i]) /\ Shift(path[i], path[0], P, Q, n(i), c(i))}
<1>0. NftNumber \in [Item -> Nat] /\ CoinNumber \in [Item -> Nat]
  BY DEF NftNumber, CoinNumber, Item
<1>1. /\ Len(s) \in Nat /\ n(0) = 0 /\ c(0) = 0
      /\ n(Len(s)) = Total(NftNumber, s) /\ c(Len(s)) = Total(CoinNumber, s)
      /\ \A i \in 0..Len(s) : n(i) \in Nat /\ c(i) \in Nat
      /\ \A i \in 1..Len(s) : /\ n(i) = n(i - 1) + NftNumber[s[i]]
                              /\ c(i) = c(i - 1) + CoinNumber[s[i]]
                              /\ NftNumber[s[i]] \in Nat /\ CoinNumber[s[i]] \in Nat
  <2>1. /\ n(0) = 0 /\ n(Len(s)) = Total(NftNumber, s) /\ \A i \in 0..Len(s) : n(i) \in Nat
        /\ \A i \in 1..Len(s) : n(i) = n(i - 1) + NftNumber[s[i]]
    BY <1>0, TotalPrefix
  <2>2. /\ c(0) = 0 /\ c(Len(s)) = Total(CoinNumber, s) /\ \A i \in 0..Len(s) : c(i) \in Nat
        /\ \A i \in 1..Len(s) : c(i) = c(i - 1) + CoinNumber[s[i]]
    BY <1>0, TotalPrefix
  <2>3. Len(s) \in Nat /\ \A i \in 1..Len(s) : s[i] \in Item
    BY PrefixFields
  <2> HIDE DEF n, c
  <2> QED
    BY <1>0, <2>1, <2>2, <2>3
<1> HIDE DEF n, c
<1>2. 0 \in G
  <2>1. \A a \in Accounts : path[0].user[a].value \in Nat /\ path[0].coin[a].value \in Nat
    BY NarrowFields
  <2>2. Shift(path[0], path[0], P, Q, n(0), c(0))
    BY <1>1, <2>1 DEF Shift
  <2> QED
    BY <1>1, <2>2
<1>3. ASSUME NEW i \in 1..Len(s), i - 1 \in G PROVE i \in G
  <2>1. SUFFICES ASSUME path[i].ok
                 PROVE  NarrowWork(path[i]) /\ Shift(path[i], path[0], P, Q, n(i), c(i))
    BY <1>1
  <2>2. path[i - 1].ok /\ i - 1 \in 0..Len(s)
    BY <1>1, <2>1 DEF StepsShift
  <2>3. NarrowWork(path[i - 1]) /\ Shift(path[i - 1], path[0], P, Q, n(i - 1), c(i - 1))
    BY <1>3, <2>2
  <2>4. /\ NarrowWork(path[i])
        /\ Shift(path[i], path[i - 1], P, Q, NftNumber[s[i]], CoinNumber[s[i]])
    BY <2>1, <2>3 DEF StepsShift
  <2>5. n(i - 1) \in Nat /\ c(i - 1) \in Nat
        /\ NftNumber[s[i]] \in Nat /\ CoinNumber[s[i]] \in Nat
    BY <1>1, <2>2
  <2>6. Shift(path[i], path[0], P, Q, n(i - 1) + NftNumber[s[i]], c(i - 1) + CoinNumber[s[i]])
    BY <2>3, <2>4, <2>5, ShiftAgain
  <2> QED
    BY <1>1, <2>4, <2>6
<1> HIDE DEF G
<1>4. \A i \in 0..Len(s) : i \in G
  BY <1>1, <1>2, <1>3, IndexInduction
<1>5. Len(s) \in G
  BY <1>1, <1>4
<1> QED
  BY <1>1, <1>5 DEF G

LEMMA ItemsOk ==
  ASSUME NEW w \in WideWork, NEW it \in Item
  PROVE  /\ \A a, b \in Accounts : MoveItem(w, a, b, it).ok => w.ok
         /\ \A a \in Accounts : TakeItem(w, a, it).ok => w.ok
         /\ \A m \in Batch : ArriveItem(w, m, it).ok => w.ok
<1> DEFINE v == it.value
<1>0. v \in Int /\ -v \in Int /\ it.meta \in Metas
  BY ItemFields
<1>1. ASSUME NEW a \in Accounts
      PROVE  /\ TakeNft(w, a, v) \in WideWork /\ (TakeNft(w, a, v).ok => w.ok)
             /\ TakeCoin(w, a, v) \in WideWork /\ (TakeCoin(w, a, v).ok => w.ok)
             /\ MetaOf(w.user[a], w.entry) \in Metas /\ ShardOf[a] \in Shards
  BY <1>0, TakeNftLeaves, TakeCoinLeaves
<1> HIDE DEF v
<1>2. ASSUME NEW a \in Accounts, NEW b \in Accounts, MoveItem(w, a, b, it).ok PROVE w.ok
  <2> DEFINE k == TakeNft(w, a, v)
             q == TakeCoin(w, a, v)
             m == MetaOf(w.user[a], w.entry)
             t == ShardOf[a]
  <2>1. MoveItem(w, a, b, it) = IF it.nft THEN GiveNft(k, b, v, m, t, FALSE)
                                ELSE GiveCoin(q, b, v)
    BY Zenon DEF MoveItem, v
  <2>2. /\ k \in WideWork /\ (k.ok => w.ok) /\ q \in WideWork /\ (q.ok => w.ok)
        /\ m \in Metas /\ t \in Shards
    BY <1>1
  <2> HIDE DEF k, q, m, t
  <2>3. \A retErr \in BOOLEAN : GiveNft(k, b, v, m, t, retErr).ok => k.ok
    BY <1>0, <2>2, GiveNftLeaves
  <2>4. GiveCoin(q, b, v).ok => q.ok
    BY <1>0, <2>2, GiveCoinLeaves
  <2>5. GiveNft(k, b, v, m, t, FALSE).ok => k.ok
    <3>1. FALSE \in BOOLEAN
      OBVIOUS
    <3> QED
      BY <2>3, <3>1, Zenon
  <2> QED
    BY <1>2, <2>1, <2>2, <2>4, <2>5, Zenon
<1>3. ASSUME NEW a \in Accounts, TakeItem(w, a, it).ok PROVE w.ok
  <2> DEFINE k == TakeNft(w, a, v)
  <2>1. TakenItem(w, a, it).ok
    BY <1>3, TakeItemLeaves
  <2>2. TakenItem(w, a, it) = IF it.nft THEN Counted(k, -v) ELSE TakeCoin(w, a, v)
    BY DEF TakenItem, v
  <2>3. k \in WideWork /\ (k.ok => w.ok) /\ (TakeCoin(w, a, v).ok => w.ok)
    BY <1>1
  <2> HIDE DEF k
  <2>4. Counted(k, -v).ok => k.ok
    BY <1>0, <2>3, CountedLeaves
  <2> QED
    BY <2>1, <2>2, <2>3, <2>4
<1>4. ASSUME NEW m \in Batch, ArriveItem(w, m, it).ok PROVE w.ok
  <2> DEFINE k == GiveNft(w, m.to, v, it.meta, ShardOf[m.from], m.retErr)
             q == CreditCoin(w, m.to, v, m.retErr)
  <2>1. ArriveItem(w, m, it) = IF it.nft THEN Counted(k, v) ELSE q
    BY DEF ArriveItem, v
  <2>2. k \in WideWork /\ (k.ok => w.ok)
    BY <1>0, BatchFields, GiveNftLeaves
  <2>3. q.ok => w.ok
    <3> DEFINE b == m.to
               e == m.retErr
    <3>1. b \in Accounts /\ e \in BOOLEAN /\ q = CreditCoin(w, b, v, e)
      BY BatchFields
    <3> HIDE DEF b, e, q
    <3> QED
      BY <1>0, <3>1, CreditCoinLeaves
  <2> HIDE DEF k, q
  <2>4. Counted(k, v).ok => k.ok
    BY <1>0, <2>2, CountedLeaves
  <2> QED
    BY <1>4, <2>1, <2>2, <2>3, <2>4
<1> QED
  BY <1>2, <1>3, <1>4

(* Every step of a path puts one token of the same number in the message.  *)
StepsSend(path, s) ==
  \A i \in 1..Len(s) : \E it \in Item :
    /\ path[i].out = Append(path[i - 1].out, it)
    /\ NftNumber[it] = NftNumber[s[i]] /\ CoinNumber[it] = CoinNumber[s[i]]

LEMMA PathSends ==
  ASSUME NEW s \in Seq(Item), NEW path \in [0..Len(s) -> WideWork],
         path[0].out = <<>>, StepsSend(path, s)
  PROVE  /\ path[Len(s)].out \in Seq(Item)
         /\ Total(NftNumber, path[Len(s)].out) = Total(NftNumber, s)
         /\ Total(CoinNumber, path[Len(s)].out) = Total(CoinNumber, s)
<1> DEFINE n(i) == Total(NftNumber, Prefix(s, i))
           c(i) == Total(CoinNumber, Prefix(s, i))
           Sends(i) == /\ path[i].out \in Seq(Item)
                       /\ Total(NftNumber, path[i].out) = n(i)
                       /\ Total(CoinNumber, path[i].out) = c(i)
           G == {i \in 0..Len(s) : Sends(i)}
<1>0. NftNumber \in [Item -> Nat] /\ CoinNumber \in [Item -> Nat]
  BY DEF NftNumber, CoinNumber, Item
<1>1. /\ Len(s) \in Nat /\ n(0) = 0 /\ c(0) = 0
      /\ n(Len(s)) = Total(NftNumber, s) /\ c(Len(s)) = Total(CoinNumber, s)
      /\ \A i \in 1..Len(s) : /\ n(i) = n(i - 1) + NftNumber[s[i]]
                              /\ c(i) = c(i - 1) + CoinNumber[s[i]]
  <2>1. /\ n(0) = 0 /\ n(Len(s)) = Total(NftNumber, s)
        /\ \A i \in 1..Len(s) : n(i) = n(i - 1) + NftNumber[s[i]]
    BY <1>0, TotalPrefix
  <2>2. /\ c(0) = 0 /\ c(Len(s)) = Total(CoinNumber, s)
        /\ \A i \in 1..Len(s) : c(i) = c(i - 1) + CoinNumber[s[i]]
    BY <1>0, TotalPrefix
  <2>3. Len(s) \in Nat
    BY PrefixFields
  <2> HIDE DEF n, c
  <2> QED
    BY <2>1, <2>2, <2>3
<1> HIDE DEF n, c
<1>2. 0 \in G
  <2>1. path[0].out \in Seq(Item) /\ DOMAIN path[0].out = {}
    <3>1. <<>> \in Seq(Item) /\ DOMAIN <<>> = {}
      OBVIOUS
    <3> QED
      BY <3>1
  <2>2. \A h : Total(h, path[0].out) = 0
    BY <2>1, TotalEmpty
  <2>3. Total(NftNumber, path[0].out) = 0 /\ Total(CoinNumber, path[0].out) = 0
    BY <2>2, Zenon
  <2>4. Sends(0) /\ 0 \in 0..Len(s)
    BY <1>1, <2>1, <2>3
  <2> HIDE DEF Sends
  <2> QED
    BY <2>4
<1>3. ASSUME NEW i \in 1..Len(s), i - 1 \in G PROVE i \in G
  <2>1. PICK it \in Item :
          /\ path[i].out = Append(path[i - 1].out, it)
          /\ NftNumber[it] = NftNumber[s[i]] /\ CoinNumber[it] = CoinNumber[s[i]]
    BY DEF StepsSend
  <2>2. /\ path[i - 1].out \in Seq(Item)
        /\ Total(NftNumber, path[i - 1].out) = n(i - 1)
        /\ Total(CoinNumber, path[i - 1].out) = c(i - 1)
    BY <1>3
  <2> DEFINE o == path[i - 1].out
  <2>3. o \in Seq(Item)
    BY <2>2
  <2> HIDE DEF o
  <2>4. /\ Append(o, it) \in Seq(Item)
        /\ Total(NftNumber, Append(o, it)) = Total(NftNumber, o) + NftNumber[it]
        /\ Total(CoinNumber, Append(o, it)) = Total(CoinNumber, o) + CoinNumber[it]
    <3>1. \A h \in [Item -> Nat] : Total(h, Append(o, it)) = Total(h, o) + h[it]
      BY <2>3, TotalAppend
    <3>2. Append(o, it) \in Seq(Item)
      BY <2>3
    <3> QED
      BY <1>0, <3>1, <3>2
  <2>5. i \in 0..Len(s)
    BY <1>1
  <2>6. path[i].out = Append(o, it)
    BY <2>1 DEF o
  <2> QED
    BY <1>1, <2>1, <2>2, <2>4, <2>5, <2>6 DEF o
<1> HIDE DEF G
<1>4. \A i \in 0..Len(s) : i \in G
  BY <1>1, <1>2, <1>3, IndexInduction
<1>5. Len(s) \in G
  BY <1>1, <1>4
<1> QED
  BY <1>1, <1>5 DEF G

(* Before a call: the records of the accounts and the entry of the shard.  *)
Accounted ==
  /\ TypeInv /\ coin \in [Accounts -> Coins]
  /\ \A a \in Accounts : user[a].value = 0 => user[a].meta = NoMeta

LEMMA StartWork ==
  ASSUME Accounted, NEW s \in Shards
  PROVE  /\ NarrowWork(Work(s)) /\ Work(s) \in WideWork
         /\ Work(s).user = user /\ Work(s).coin = coin /\ Work(s).entry = sys[s]
         /\ Work(s).out = <<>>
<1> DEFINE o == <<>>
           w == [ok |-> TRUE, coin |-> coin, user |-> user, entry |-> sys[s], out |-> o]
<1>1. /\ coin \in [Accounts -> Coins] /\ user \in [Accounts -> Record] /\ sys[s] \in Entry
      /\ o \in Seq(WideItem) /\ TRUE \in BOOLEAN
  BY DEF Accounted, TypeInv
<1>2. /\ coin \in [Accounts -> WideCoins] /\ user \in [Accounts -> WideRecord]
      /\ sys[s] \in WideEntry
  BY <1>1, NarrowIsWide
<1> HIDE DEF o
<1>3. w \in WideWork
  BY <1>1, <1>2 DEF WideWork
<1>4. w.user = user /\ w.coin = coin /\ w.entry = sys[s] /\ w.out = o
  OBVIOUS
<1>5. NarrowWork(w)
  BY <1>1, <1>3, <1>4 DEF NarrowWork, Accounted
<1>6. Work(s) = w
  BY DEF Work, o
<1> HIDE DEF w
<1> QED
  BY <1>3, <1>4, <1>5, <1>6 DEF o

LEMMA MovedLeaves ==
  ASSUME Accounted, NEW a \in Accounts, NEW b \in Accounts, NEW items \in Seq(Item),
         NEW w, w = Moved(a, b, items), w.ok
  PROVE  /\ NarrowWork(w)
         /\ Shift(w, Work(ShardOf[a]), {a}, {b}, Total(NftNumber, items), Total(CoinNumber, items))
<1> DEFINE start == Work(ShardOf[a])
<1>1. NarrowWork(start) /\ start \in WideWork
  BY StartWork, NftAssumption
<1>2. PICK path \in [0..Len(items) -> WideWork] :
        /\ path[0] = start /\ path[Len(items)] = w
        /\ \A i \in 1..Len(items) : path[i] = MoveItem(path[i - 1], a, b, items[i])
  BY <1>1, MovedPath
<1> HIDE DEF start
<1>3. StepsShift(path, items, {a}, {b})
  <2>1. SUFFICES ASSUME NEW i \in 1..Len(items), path[i].ok
                 PROVE  /\ path[i - 1].ok
                        /\ NarrowWork(path[i - 1]) =>
                             /\ NarrowWork(path[i])
                             /\ Shift(path[i], path[i - 1], {a}, {b}, NftNumber[items[i]], CoinNumber[items[i]])
    BY DEF StepsShift
  <2> DEFINE k == path[i - 1]
             it == items[i]
             r == path[i]
  <2>2. k \in WideWork /\ it \in Item /\ r = MoveItem(k, a, b, it)
    <3>1. Len(items) \in Nat /\ i - 1 \in 0..Len(items)
      OBVIOUS
    <3> QED
      BY <1>2, <3>1
  <2>3. r.ok
    BY <2>1
  <2> HIDE DEF k, it, r
  <2>4. k.ok
    BY <2>2, <2>3, ItemsOk
  <2>5. NarrowWork(k) =>
          NarrowWork(r) /\ Shift(r, k, {a}, {b}, NftNumber[it], CoinNumber[it])
    BY <2>2, <2>3, MoveItemShift
  <2> QED
    BY <2>4, <2>5 DEF k, it, r
<1>4. path[Len(items)].ok /\ NarrowWork(path[0])
  BY <1>1, <1>2
<1>5. /\ NarrowWork(path[Len(items)])
      /\ Shift(path[Len(items)], path[0], {a}, {b}, Total(NftNumber, items), Total(CoinNumber, items))
  BY <1>3, <1>4, PathShifts
<1> QED
  BY <1>2, <1>5 DEF start

LEMMA TakenLeaves ==
  ASSUME Accounted, NEW a \in Accounts, NEW items \in Seq(Item),
         NEW w, w = TakenAll(a, items)
  PROVE  /\ w \in WideWork
         /\ w.out \in Seq(Item)
         /\ Total(NftNumber, w.out) = Total(NftNumber, items)
         /\ Total(CoinNumber, w.out) = Total(CoinNumber, items)
         /\ w.ok =>
              /\ NarrowWork(w)
              /\ Shift(w, Work(ShardOf[a]), {a}, {}, Total(NftNumber, items), Total(CoinNumber, items))
<1> DEFINE start == Work(ShardOf[a])
<1>1. NarrowWork(start) /\ start \in WideWork /\ start.out = <<>>
  BY StartWork, NftAssumption
<1>2. PICK path \in [0..Len(items) -> WideWork] :
        /\ path[0] = start /\ path[Len(items)] = w
        /\ \A i \in 1..Len(items) : path[i] = TakeItem(path[i - 1], a, items[i])
  BY <1>1, TakenPath
<1> HIDE DEF start
<1>3. StepsShift(path, items, {a}, {})
  <2>1. SUFFICES ASSUME NEW i \in 1..Len(items), path[i].ok
                 PROVE  /\ path[i - 1].ok
                        /\ NarrowWork(path[i - 1]) =>
                             /\ NarrowWork(path[i])
                             /\ Shift(path[i], path[i - 1], {a}, {}, NftNumber[items[i]], CoinNumber[items[i]])
    BY DEF StepsShift
  <2> DEFINE k == path[i - 1]
             it == items[i]
             r == path[i]
  <2>2. k \in WideWork /\ it \in Item /\ r = TakeItem(k, a, it)
    <3>1. Len(items) \in Nat /\ i - 1 \in 0..Len(items)
      OBVIOUS
    <3> QED
      BY <1>2, <3>1
  <2>3. r.ok
    BY <2>1
  <2> HIDE DEF k, it, r
  <2>4. k.ok
    BY <2>2, <2>3, ItemsOk
  <2>5. NarrowWork(k) =>
          NarrowWork(r) /\ Shift(r, k, {a}, {}, NftNumber[it], CoinNumber[it])
    BY <2>2, <2>3, TakeItemShift
  <2> QED
    BY <2>4, <2>5 DEF k, it, r
<1>4. StepsSend(path, items)
  <2>1. SUFFICES ASSUME NEW i \in 1..Len(items)
                 PROVE  \E it \in Item :
                          /\ path[i].out = Append(path[i - 1].out, it)
                          /\ NftNumber[it] = NftNumber[items[i]] /\ CoinNumber[it] = CoinNumber[items[i]]
    BY DEF StepsSend
  <2> DEFINE k == path[i - 1]
             it == items[i]
             r == path[i]
  <2>2. k \in WideWork /\ it \in Item /\ r = TakeItem(k, a, it)
    <3>1. Len(items) \in Nat /\ i - 1 \in 0..Len(items)
      OBVIOUS
    <3> QED
      BY <1>2, <3>1
  <2> DEFINE sent == WithItemMeta(it, MetaWith(k, a, it))
  <2> HIDE DEF k, it, r
  <2>3. r.out = Append(k.out, sent)
    BY <2>2, TakeItemLeaves
  <2>4. sent \in Item /\ NftNumber[sent] = NftNumber[it] /\ CoinNumber[sent] = CoinNumber[it]
    BY <2>2, MetaWithType, WithItemMetaFields
  <2> HIDE DEF sent
  <2> QED
    BY <2>3, <2>4 DEF k, it, r
<1>5. /\ path[Len(items)].out \in Seq(Item)
      /\ Total(NftNumber, path[Len(items)].out) = Total(NftNumber, items)
      /\ Total(CoinNumber, path[Len(items)].out) = Total(CoinNumber, items)
  <2>1. path[0].out = <<>>
    BY <1>1, <1>2
  <2> QED
    BY <1>4, <2>1, PathSends
<1>6. path[Len(items)].ok =>
        /\ NarrowWork(path[Len(items)])
        /\ Shift(path[Len(items)], path[0], {a}, {}, Total(NftNumber, items), Total(CoinNumber, items))
  <2>1. NarrowWork(path[0])
    BY <1>1, <1>2
  <2> QED
    BY <1>3, <2>1, PathShifts
<1>7. w \in WideWork
  <2>1. Len(items) \in 0..Len(items)
    OBVIOUS
  <2> QED
    BY <1>2, <2>1
<1> QED
  BY <1>2, <1>5, <1>6, <1>7 DEF start

LEMMA AddressedLeaves ==
  ASSUME NEW w \in WideWork, w.out \in Seq(Item), NEW d \in Shards,
         NEW r, r = Addressed(w, d)
  PROVE  /\ r \in WideWork
         /\ r.ok = w.ok /\ r.coin = w.coin /\ r.user = w.user
         /\ w.entry \in Entry => r.entry \in Entry
         /\ r.out \in Seq(Item)
         /\ Total(NftNumber, r.out) = Total(NftNumber, w.out)
         /\ Total(CoinNumber, r.out) = Total(CoinNumber, w.out)
<1> DEFINE s == w.out
           start == [w EXCEPT !.out = <<>>]
<1>1. PICK path \in [0..Len(s) -> WideWork] :
        /\ path[0] = start /\ path[Len(s)] = r
        /\ \A i \in 1..Len(s) : path[i] = AddressItem(path[i - 1], d, s[i])
  BY AddressedPath
<1>2. /\ start.ok = w.ok /\ start.coin = w.coin /\ start.user = w.user
      /\ start.entry = w.entry /\ start.out = <<>>
  BY NothingOut
<1>3. s \in Seq(Item) /\ Len(s) \in Nat
  OBVIOUS
<1> HIDE DEF start, s
<1>4. ASSUME NEW i \in 1..Len(s)
      PROVE  LET k == path[i - 1]
                 x == path[i]
                 it == SentItem(k.entry, d, s[i]) IN
             /\ i - 1 \in 0..Len(s) /\ it \in Item
             /\ NftNumber[it] = NftNumber[s[i]] /\ CoinNumber[it] = CoinNumber[s[i]]
             /\ x.ok = k.ok /\ x.coin = k.coin /\ x.user = k.user
             /\ x.entry = IF s[i].nft THEN Marked(k.entry, d) ELSE k.entry
             /\ x.out = Append(k.out, it)
  <2> DEFINE k == path[i - 1]
             x == path[i]
             y == s[i]
  <2>1. i - 1 \in 0..Len(s) /\ k \in WideWork /\ y \in Item /\ x = AddressItem(k, d, y)
    <3>1. i - 1 \in 0..Len(s) /\ y \in Item
      BY <1>3
    <3>2. k \in WideWork
      BY <3>1
    <3>3. x = AddressItem(k, d, y)
      BY <1>1
    <3> QED
      BY <3>1, <3>2, <3>3
  <2> HIDE DEF k, x, y
  <2> DEFINE it == SentItem(k.entry, d, y)
  <2>2. it \in Item /\ NftNumber[it] = NftNumber[y] /\ CoinNumber[it] = CoinNumber[y]
    BY <2>1, SentItemFields
  <2>3. /\ x.ok = k.ok /\ x.coin = k.coin /\ x.user = k.user
        /\ x.entry = IF y.nft THEN Marked(k.entry, d) ELSE k.entry
        /\ x.out = Append(k.out, it)
    <3>1. k \in WideWork /\ y \in Item /\ x = AddressItem(k, d, y)
      BY <2>1
    <3>2. \A r2 : r2 = AddressItem(k, d, y) =>
            /\ r2.ok = k.ok /\ r2.coin = k.coin /\ r2.user = k.user
            /\ r2.entry = IF y.nft THEN Marked(k.entry, d) ELSE k.entry
            /\ r2.out = Append(k.out, SentItem(k.entry, d, y))
      BY <3>1, AddressItemLeaves
    <3> QED
      BY <3>1, <3>2
  <2> QED
    BY <2>1, <2>2, <2>3 DEF k, x, y
<1>5. StepsSend(path, s) /\ path[0].out = <<>>
  BY <1>1, <1>2, <1>4 DEF StepsSend
<1>6. /\ path[Len(s)].out \in Seq(Item)
      /\ Total(NftNumber, path[Len(s)].out) = Total(NftNumber, s)
      /\ Total(CoinNumber, path[Len(s)].out) = Total(CoinNumber, s)
  BY <1>3, <1>5, PathSends
<1> DEFINE Same(x) == /\ x.ok = w.ok /\ x.coin = w.coin /\ x.user = w.user
                      /\ w.entry \in Entry => x.entry \in Entry
           G == {i \in 0..Len(s) : Same(path[i])}
<1>7. 0 \in G
  BY <1>1, <1>2, <1>3
<1>8. ASSUME NEW i \in 1..Len(s), i - 1 \in G PROVE i \in G
  <2> DEFINE k == path[i - 1]
             x == path[i]
  <2>1. Same(k) /\ i \in 0..Len(s)
    BY <1>3, <1>8
  <2>2. /\ x.ok = k.ok /\ x.coin = k.coin /\ x.user = k.user
        /\ x.entry = IF s[i].nft THEN Marked(k.entry, d) ELSE k.entry
    BY <1>4
  <2> HIDE DEF k, x
  <2>3. k.entry \in Entry => Marked(k.entry, d) \in Entry
    BY MarkedType
  <2>4. Same(x)
    BY <2>1, <2>2, <2>3
  <2> HIDE DEF Same
  <2> QED
    BY <2>1, <2>4 DEF x
<1> HIDE DEF G
<1>9. \A i \in 0..Len(s) : i \in G
  BY <1>3, <1>7, <1>8, IndexInduction
<1>10. Same(path[Len(s)]) /\ path[Len(s)] \in WideWork
  <2>1. Len(s) \in G /\ Len(s) \in 0..Len(s)
    BY <1>3, <1>9
  <2> QED
    BY <2>1 DEF G
<1> QED
  BY <1>1, <1>6, <1>10 DEF s

LEMMA ArrivedLeaves ==
  ASSUME Accounted, NEW m \in Batch, NEW w, w = Arrived(m), w.ok
  PROVE  /\ NarrowWork(w)
         /\ Shift(w, Work(ShardOf[m.to]), {}, {m.to},
                  Total(NftNumber, m.items), Total(CoinNumber, m.items))
<1> DEFINE start == Work(ShardOf[m.to])
           items == m.items
<1>1. NarrowWork(start) /\ start \in WideWork
  BY StartWork, BatchFields
<1>2. PICK path \in [0..Len(items) -> WideWork] :
        /\ path[0] = start /\ path[Len(items)] = w
        /\ \A i \in 1..Len(items) : path[i] = ArriveItem(path[i - 1], m, items[i])
  BY <1>1, ArrivedPath
<1>0. items \in Seq(Item)
  BY BatchFields
<1> HIDE DEF start, items
<1>3. StepsShift(path, items, {}, {m.to})
  <2>1. SUFFICES ASSUME NEW i \in 1..Len(items), path[i].ok
                 PROVE  /\ path[i - 1].ok
                        /\ NarrowWork(path[i - 1]) =>
                             /\ NarrowWork(path[i])
                             /\ Shift(path[i], path[i - 1], {}, {m.to}, NftNumber[items[i]], CoinNumber[items[i]])
    BY DEF StepsShift
  <2> DEFINE k == path[i - 1]
             it == items[i]
             r == path[i]
  <2>2. k \in WideWork /\ it \in Item /\ r = ArriveItem(k, m, it)
    <3>1. Len(items) \in Nat /\ i - 1 \in 0..Len(items) /\ it \in Item
      BY <1>0
    <3> QED
      BY <1>2, <3>1
  <2>3. r.ok
    BY <2>1
  <2> HIDE DEF k, it, r
  <2>4. k.ok
    BY <2>2, <2>3, ItemsOk
  <2>5. NarrowWork(k) =>
          NarrowWork(r) /\ Shift(r, k, {}, {m.to}, NftNumber[it], CoinNumber[it])
    BY <2>2, <2>3, ArriveItemShift
  <2> QED
    BY <2>4, <2>5 DEF k, it, r
<1>4. path[Len(items)].ok /\ NarrowWork(path[0])
  BY <1>1, <1>2
<1>5. /\ NarrowWork(path[Len(items)])
      /\ Shift(path[Len(items)], path[0], {}, {m.to}, Total(NftNumber, items), Total(CoinNumber, items))
  BY <1>0, <1>3, <1>4, PathShifts
<1> QED
  BY <1>2, <1>5 DEF start, items

-----------------------------------------------------------------------------
(* Types and conservation: what the accounts hold and what the batches     *)
(* carry, of the nonce and of the coin.                                    *)

CoinQuantities(c) == [b \in Accounts |-> c[b].value]

NftOf == [m \in Batch |-> Total(NftNumber, m.items)]
CoinOf == [m \in Batch |-> Total(CoinNumber, m.items)]
InBatches(h, n) == SumFunction(NumbersOf(h, n))

MultiInv ==
  /\ TypeInv /\ net = <<>>
  /\ coin \in [Accounts -> Coins] /\ coinPaused \in [Shards -> BOOLEAN]
  /\ batches \in Seq(Batch)
  /\ QuantityWith(InBatches(NftOf, batches))
  /\ SumFunction(CoinQuantities(coin)) + InBatches(CoinOf, batches) <= MaxCoins

LEMMA ListsAreItems ==
  ASSUME NEW items \in Lists
  PROVE  items \in Seq(Item)
<1> DEFINE T == [nft: BOOLEAN, value: Amounts, meta: {NoMeta}]
<1>1. items \in BoundedSeq(T, MaxItems)
  BY DEF Lists
<1>2. T \subseteq Item
  <2>1. NoMeta \in 0..MaxVersion /\ Amounts \subseteq Nat
    BY NftAssumption
  <2>2. \A it \in T : it \in Item
    BY <2>1 DEF Item
  <2> QED
    BY <2>2
<1> HIDE DEF T
<1>3. PICK n \in 0..MaxItems : items \in [1..n -> T]
  BY <1>1 DEF BoundedSeq, SeqOf
<1>4. n \in Nat
  BY <1>3, MultiAssumption
<1>5. items \in [1..n -> Item]
  BY <1>2, <1>3
<1> QED
  BY <1>4, <1>5, IsASeq

LEMMA BatchNumbers ==
  /\ NftOf \in [Batch -> Nat] /\ CoinOf \in [Batch -> Nat]
  /\ NftOf \in [Batch -> Int] /\ CoinOf \in [Batch -> Int]
  /\ \A m \in Batch : /\ NftOf[m] = Total(NftNumber, m.items)
                      /\ CoinOf[m] = Total(CoinNumber, m.items)
<1>1. NftNumber \in [Item -> Nat] /\ CoinNumber \in [Item -> Nat]
  BY DEF NftNumber, CoinNumber, Item
<1>2. \A m \in Batch : Total(NftNumber, m.items) \in Nat /\ Total(CoinNumber, m.items) \in Nat
  BY <1>1, TotalType, BatchFields
<1> QED
  BY <1>2 DEF NftOf, CoinOf

LEMMA InBatchesType ==
  ASSUME NEW h \in [Batch -> Nat], NEW n \in Seq(Batch)
  PROVE  /\ InBatches(h, n) \in Nat
         /\ \A i \in DOMAIN n : h[n[i]] <= InBatches(h, n)
<1> DEFINE f == NumbersOf(h, n)
<1>1. DOMAIN n = 1..Len(n) /\ Len(n) \in Nat /\ \A i \in DOMAIN n : n[i] \in Batch
  OBVIOUS
<1>2. f \in [DOMAIN n -> Nat] /\ \A i \in DOMAIN n : f[i] = h[n[i]]
  BY <1>1 DEF NumbersOf
<1>3. IsFiniteSet(DOMAIN n)
  <2>1. IsFiniteSet(1..Len(n))
    BY <1>1, FS_Interval
  <2> QED
    BY <1>1, <2>1
<1> HIDE DEF f
<1>4. SumFunction(f) \in Nat /\ \A i \in DOMAIN n : f[i] <= SumFunction(f)
  BY <1>2, <1>3, SumNat, SumBounds
<1> QED
  BY <1>2, <1>4 DEF f, InBatches

LEMMA InBatchesAppend ==
  ASSUME NEW h \in [Batch -> Nat], NEW n \in Seq(Batch), NEW m \in Batch
  PROVE  InBatches(h, Append(n, m)) = InBatches(h, n) + h[m]
<1>1. h \in [Batch -> Int]
  OBVIOUS
<1> QED
  BY <1>1, SumNumbersAppend DEF InBatches

LEMMA InBatchesRemoveAt ==
  ASSUME NEW h \in [Batch -> Nat], NEW n \in Seq(Batch), NEW i \in DOMAIN n
  PROVE  /\ InBatches(h, RemoveAt(n, i)) = InBatches(h, n) - h[n[i]]
         /\ RemoveAt(n, i) \in Seq(Batch) /\ n[i] \in Batch
<1>1. h \in [Batch -> Int]
  OBVIOUS
<1>2. i \in 1..Len(n) /\ n[i] \in Batch
  OBVIOUS
<1>3. SumFunction(NumbersOf(h, RemoveAt(n, i))) = SumFunction(NumbersOf(h, n)) - h[n[i]]
  BY <1>1, SumNumbersRemoveAt
<1>4. RemoveAt(n, i) \in Seq(Batch)
  BY <1>2, RemoveAtProperties
<1> QED
  BY <1>2, <1>3, <1>4 DEF InBatches

(* Numbers of accounts, of which x leave the givers and come to the takers. *)
Shifted(e, f, givers, takers, x) ==
  \A c \in Accounts :
    e[c] = f[c] - (IF c \in givers THEN x ELSE 0) + (IF c \in takers THEN x ELSE 0)

LEMMA SumGiven ==
  ASSUME NEW f \in [Accounts -> Int], NEW e \in [Accounts -> Int], NEW a \in Accounts,
         NEW x \in Int, Shifted(e, f, {a}, {}, x)
  PROVE  SumFunction(e) = SumFunction(f) - x
<1>0. IsFiniteSet(Accounts)
  BY NftAssumption
<1>1. e[a] = f[a] - x /\ \A c \in Accounts \ {a} : e[c] = f[c]
  BY DEF Shifted
<1>2. SumFunction(e) = SumFunction(f) + e[a] - f[a]
  BY <1>0, <1>1, SumUpdate
<1>3. SumFunction(f) \in Int /\ f[a] \in Int
  BY <1>0, SumType
<1> QED
  BY <1>1, <1>2, <1>3

LEMMA SumTaken ==
  ASSUME NEW f \in [Accounts -> Int], NEW e \in [Accounts -> Int], NEW a \in Accounts,
         NEW x \in Int, Shifted(e, f, {}, {a}, x)
  PROVE  SumFunction(e) = SumFunction(f) + x
<1>0. IsFiniteSet(Accounts)
  BY NftAssumption
<1>1. e[a] = f[a] + x /\ \A c \in Accounts \ {a} : e[c] = f[c]
  BY DEF Shifted
<1>2. SumFunction(e) = SumFunction(f) + e[a] - f[a]
  BY <1>0, <1>1, SumUpdate
<1>3. SumFunction(f) \in Int /\ f[a] \in Int
  BY <1>0, SumType
<1> QED
  BY <1>1, <1>2, <1>3

LEMMA SumMoved ==
  ASSUME NEW f \in [Accounts -> Int], NEW e \in [Accounts -> Int],
         NEW a \in Accounts, NEW b \in Accounts, NEW x \in Int, Shifted(e, f, {a}, {b}, x)
  PROVE  SumFunction(e) = SumFunction(f)
<1> DEFINE g == [c \in Accounts |-> IF c = a THEN f[a] - x ELSE f[c]]
<1>1. g \in [Accounts -> Int] /\ Shifted(g, f, {a}, {}, x) /\ Shifted(e, g, {}, {b}, x)
  BY DEF Shifted
<1> HIDE DEF g
<1>2. SumFunction(g) = SumFunction(f) - x /\ SumFunction(e) = SumFunction(g) + x
  BY <1>1, SumGiven, SumTaken
<1>3. SumFunction(f) \in Int
  BY NftAssumption, SumType
<1> QED
  BY <1>2, <1>3

\* A step takes the tokens of a list from the givers and brings them to the takers.
Moves(givers, takers, items) ==
  /\ Shifted(Quantities(user'), Quantities(user), givers, takers, Total(NftNumber, items))
  /\ Shifted(CoinQuantities(coin'), CoinQuantities(coin), givers, takers, Total(CoinNumber, items))

\* A step puts the tokens of a list, with the metadata that is sent, into a batch.
Sends(a, b, items) ==
  \E m \in Batch : /\ batches' = Append(batches, m)
                   /\ m.from = a /\ m.to = b /\ ~m.retErr
                   /\ Total(NftNumber, m.items) = Total(NftNumber, items)
                   /\ Total(CoinNumber, m.items) = Total(CoinNumber, items)

LEMMA MultiAccounted == MultiInv => Accounted
BY DEF MultiInv, Accounted, QuantityWith

LEMMA FinishType ==
  ASSUME MultiInv, NEW s \in Shards, NEW w, NarrowWork(w), Finish(w, s)
  PROVE  /\ TypeInv' /\ net' = <<>>
         /\ coin' \in [Accounts -> Coins] /\ coinPaused' \in [Shards -> BOOLEAN]
         /\ user' = w.user /\ coin' = w.coin /\ sys' = [sys EXCEPT ![s] = w.entry]
         /\ UNCHANGED <<version, supply, epoch, paused, collFrozen, coinPaused>>
         /\ \A a \in Accounts : user'[a].value = 0 => user'[a].meta = NoMeta
<1>1. /\ user' = w.user /\ coin' = w.coin /\ sys' = [sys EXCEPT ![s] = w.entry]
      /\ UNCHANGED <<collFrozen, paused, net, epoch, version, supply, coinPaused>>
  BY DEF Finish
<1>2. /\ w.coin \in [Accounts -> Coins] /\ w.user \in [Accounts -> Record]
      /\ w.entry \in Entry
      /\ \A c \in Accounts : w.user[c].value = 0 => w.user[c].meta = NoMeta
  BY NarrowFields
<1>3. TypeInv'
  BY <1>1, <1>2 DEF MultiInv, TypeInv
<1> QED
  BY <1>1, <1>2, <1>3 DEF MultiInv

LEMMA FinishShift ==
  ASSUME MultiInv, NEW s \in Shards, NEW w, NarrowWork(w), Finish(w, s),
         NEW P, NEW Q, NEW x, NEW y, Shift(w, Work(s), P, Q, x, y)
  PROVE  /\ Quantities(user) \in [Accounts -> Int] /\ Quantities(user') \in [Accounts -> Int]
         /\ CoinQuantities(coin) \in [Accounts -> Int]
         /\ CoinQuantities(coin') \in [Accounts -> Int]
         /\ Shifted(Quantities(user'), Quantities(user), P, Q, x)
         /\ Shifted(CoinQuantities(coin'), CoinQuantities(coin), P, Q, y)
         /\ \A c \in Accounts : coin'[c].frozen = coin[c].frozen
<1>1. /\ user' = w.user /\ coin' = w.coin /\ user' \in [Accounts -> Record]
      /\ coin' \in [Accounts -> Coins]
  BY FinishType DEF TypeInv
<1>2. Work(s).user = user /\ Work(s).coin = coin
  BY StartWork, MultiAccounted
<1>3. user \in [Accounts -> Record] /\ coin \in [Accounts -> Coins]
  BY DEF MultiInv, TypeInv
<1>4. \A c \in Accounts :
        /\ user'[c].value = user[c].value - (IF c \in P THEN x ELSE 0) + (IF c \in Q THEN x ELSE 0)
        /\ coin'[c].value = coin[c].value - (IF c \in P THEN y ELSE 0) + (IF c \in Q THEN y ELSE 0)
        /\ coin'[c].frozen = coin[c].frozen
  BY <1>1, <1>2 DEF Shift
<1>5. /\ Quantities(user) \in [Accounts -> Int] /\ Quantities(user') \in [Accounts -> Int]
      /\ CoinQuantities(coin) \in [Accounts -> Int]
      /\ CoinQuantities(coin') \in [Accounts -> Int]
  BY <1>1, <1>3 DEF Quantities, CoinQuantities, Record, Coins
<1>6. /\ Shifted(Quantities(user'), Quantities(user), P, Q, x)
      /\ Shifted(CoinQuantities(coin'), CoinQuantities(coin), P, Q, y)
  BY <1>4 DEF Shifted, Quantities, CoinQuantities
<1> QED
  BY <1>4, <1>5, <1>6

\* The sums before a step
LEMMA MultiSums ==
  ASSUME MultiInv
  PROVE  /\ SumFunction(Quantities(user)) \in Nat /\ SumFunction(CoinQuantities(coin)) \in Nat
         /\ InBatches(NftOf, batches) \in Nat /\ InBatches(CoinOf, batches) \in Nat
         /\ SumFunction(Sent(net)) = 0
         /\ supply = SumFunction(Quantities(user)) + InBatches(NftOf, batches)
         /\ supply <= MaxSupply /\ MaxCoins \in Nat
         /\ SumFunction(CoinQuantities(coin)) + InBatches(CoinOf, batches) <= MaxCoins
<1>1. user \in [Accounts -> Record] /\ net \in Seq(Message)
  BY DEF MultiInv, TypeInv
<1>2. SumFunction(Quantities(user)) \in Nat
  BY <1>1, SumsType
<1>3. CoinQuantities(coin) \in [Accounts -> Nat] /\ IsFiniteSet(Accounts)
  BY NftAssumption DEF MultiInv, CoinQuantities, Coins
<1>4. SumFunction(CoinQuantities(coin)) \in Nat
  BY <1>3, SumNat
<1>5. InBatches(NftOf, batches) \in Nat /\ InBatches(CoinOf, batches) \in Nat
  BY BatchNumbers, InBatchesType DEF MultiInv
<1>6. SumFunction(Sent(net)) = 0
  <2> DEFINE f == Sent(net)
  <2>1. f \in [{} -> Int]
    BY DEF MultiInv, Sent
  <2> HIDE DEF f
  <2>2. SumFunction(f) = 0
    BY <2>1, FS_EmptySet, SumType
  <2> QED
    BY <2>2 DEF f
<1>7. MaxCoins \in Nat
  BY MultiAssumption, NftAssumption
<1> QED
  BY <1>2, <1>4, <1>5, <1>6, <1>7 DEF MultiInv, QuantityWith

LEMMA MultiInvAfter ==
  ASSUME MultiInv, NEW s \in Shards, NEW w, NarrowWork(w), Finish(w, s),
         batches' \in Seq(Batch),
         SumFunction(Quantities(user')) + InBatches(NftOf, batches')
           = SumFunction(Quantities(user)) + InBatches(NftOf, batches),
         SumFunction(CoinQuantities(coin')) + InBatches(CoinOf, batches')
           = SumFunction(CoinQuantities(coin)) + InBatches(CoinOf, batches)
  PROVE  MultiInv'
<1>1. /\ TypeInv' /\ net' = <<>> /\ net' = net
      /\ coin' \in [Accounts -> Coins] /\ coinPaused' \in [Shards -> BOOLEAN]
      /\ version' = version /\ supply' = supply
      /\ \A a \in Accounts : user'[a].value = 0 => user'[a].meta = NoMeta
  BY FinishType DEF MultiInv
<1>2. /\ SumFunction(Sent(net')) = 0
      /\ supply = SumFunction(Quantities(user)) + InBatches(NftOf, batches)
      /\ SumFunction(CoinQuantities(coin)) + InBatches(CoinOf, batches) <= MaxCoins
  BY <1>1, MultiSums
<1>3. SumFunction(Quantities(user')) \in Nat /\ InBatches(NftOf, batches') \in Nat
  BY <1>1, SumsType, BatchNumbers, InBatchesType DEF TypeInv
<1>4. supply' = SumFunction(Quantities(user')) + SumFunction(Sent(net')) + InBatches(NftOf, batches')
  <2> DEFINE Q == SumFunction(Quantities(user'))
             N == InBatches(NftOf, batches')
             S == SumFunction(Sent(net'))
  <2>1. supply' = Q + N /\ S = 0 /\ Q \in Nat /\ N \in Nat
    BY <1>1, <1>2, <1>3
  <2> HIDE DEF Q, N, S
  <2>2. supply' = Q + S + N
    BY <2>1
  <2> QED
    BY <2>2 DEF Q, N, S
<1>5. supply' <= MaxSupply /\ (version' = NoMeta => supply' = 0)
  BY <1>1 DEF MultiInv, QuantityWith
<1>6. SumFunction(CoinQuantities(coin')) + InBatches(CoinOf, batches') <= MaxCoins
  BY <1>2
<1> QED
  BY <1>1, <1>4, <1>5, <1>6 DEF MultiInv, QuantityWith

LEMMA MultiInShardInv ==
  ASSUME MultiInv, NEW a \in Accounts, NEW b \in Accounts, NEW items \in Lists,
         MultiInShard(a, b, items)
  PROVE  /\ MultiInv' /\ Moves({a}, {b}, items)
         /\ \A c \in Accounts : coin'[c].frozen = coin[c].frozen
<1> DEFINE w == Moved(a, b, items)
           s == ShardOf[a]
           x == Total(NftNumber, items)
           y == Total(CoinNumber, items)
<1>1. items \in Seq(Item) /\ s \in Shards
  BY ListsAreItems, NftAssumption
<1>2. Finish(w, s) /\ w.ok /\ batches' = batches
  BY DEF MultiInShard, Finish
<1>3. x \in Nat /\ y \in Nat
  BY <1>1, TotalType DEF NftNumber, CoinNumber, Item
<1>4. NarrowWork(w) /\ Shift(w, Work(s), {a}, {b}, x, y)
  BY <1>1, <1>2, MovedLeaves, MultiAccounted
<1> HIDE DEF w, s, x, y
<1>5. /\ Quantities(user) \in [Accounts -> Int] /\ Quantities(user') \in [Accounts -> Int]
      /\ CoinQuantities(coin) \in [Accounts -> Int]
      /\ CoinQuantities(coin') \in [Accounts -> Int]
      /\ Shifted(Quantities(user'), Quantities(user), {a}, {b}, x)
      /\ Shifted(CoinQuantities(coin'), CoinQuantities(coin), {a}, {b}, y)
      /\ \A c \in Accounts : coin'[c].frozen = coin[c].frozen
  BY <1>1, <1>2, <1>4, FinishShift
<1>6. /\ SumFunction(Quantities(user')) = SumFunction(Quantities(user))
      /\ SumFunction(CoinQuantities(coin')) = SumFunction(CoinQuantities(coin))
  BY <1>3, <1>5, SumMoved
<1>7. batches' \in Seq(Batch)
  BY <1>2 DEF MultiInv
<1>8. MultiInv'
  BY <1>1, <1>2, <1>4, <1>6, <1>7, MultiInvAfter
<1>9. Moves({a}, {b}, items)
  BY <1>5 DEF Moves, x, y
<1> QED
  BY <1>5, <1>8, <1>9

LEMMA MultiAcrossInv ==
  ASSUME MultiInv, NEW a \in Accounts, NEW b \in Accounts, NEW items \in Lists,
         MultiAcross(a, b, items)
  PROVE  /\ MultiInv' /\ Moves({a}, {}, items) /\ Sends(a, b, items)
         /\ \A c \in Accounts : coin'[c].frozen = coin[c].frozen
<1> DEFINE k == TakenAll(a, items)
           d == ShardOf[b]
           w == Addressed(k, d)
           s == ShardOf[a]
           x == Total(NftNumber, items)
           y == Total(CoinNumber, items)
           m == [from |-> a, to |-> b, items |-> w.out, retErr |-> FALSE]
<1>1. items \in Seq(Item) /\ s \in Shards /\ d \in Shards
  BY ListsAreItems, NftAssumption
<1>2. Finish(w, s) /\ w.ok /\ batches' = Append(batches, m)
  BY DEF MultiAcross, Finish
<1>3. x \in Nat /\ y \in Nat
  BY <1>1, TotalType DEF NftNumber, CoinNumber, Item
<1>4. /\ k \in WideWork /\ k.out \in Seq(Item)
      /\ Total(NftNumber, k.out) = x /\ Total(CoinNumber, k.out) = y
      /\ k.ok => NarrowWork(k) /\ Shift(k, Work(s), {a}, {}, x, y)
  BY <1>1, TakenLeaves, MultiAccounted
<1> HIDE DEF k, d, s, x, y
<1>5. /\ w \in WideWork /\ w.ok = k.ok /\ w.coin = k.coin /\ w.user = k.user
      /\ k.entry \in Entry => w.entry \in Entry
      /\ w.out \in Seq(Item)
      /\ Total(NftNumber, w.out) = x /\ Total(CoinNumber, w.out) = y
  BY <1>1, <1>4, AddressedLeaves
<1>6. m \in Batch /\ m.items = w.out /\ m.from = a /\ m.to = b /\ ~m.retErr
  BY <1>5 DEF Batch
<1> HIDE DEF w, m
<1>7. NarrowWork(w) /\ Shift(w, Work(s), {a}, {}, x, y)
  <2>1. NarrowWork(k) /\ Shift(k, Work(s), {a}, {}, x, y)
    BY <1>2, <1>4, <1>5
  <2> QED
    BY <1>5, <2>1 DEF NarrowWork, Shift
<1>8. /\ Quantities(user) \in [Accounts -> Int] /\ Quantities(user') \in [Accounts -> Int]
      /\ CoinQuantities(coin) \in [Accounts -> Int]
      /\ CoinQuantities(coin') \in [Accounts -> Int]
      /\ Shifted(Quantities(user'), Quantities(user), {a}, {}, x)
      /\ Shifted(CoinQuantities(coin'), CoinQuantities(coin), {a}, {}, y)
      /\ \A c \in Accounts : coin'[c].frozen = coin[c].frozen
  BY <1>1, <1>2, <1>7, FinishShift
<1>9. /\ SumFunction(Quantities(user')) = SumFunction(Quantities(user)) - x
      /\ SumFunction(CoinQuantities(coin')) = SumFunction(CoinQuantities(coin)) - y
  BY <1>3, <1>8, SumGiven
<1>10. /\ InBatches(NftOf, batches') = InBatches(NftOf, batches) + x
       /\ InBatches(CoinOf, batches') = InBatches(CoinOf, batches) + y
       /\ batches' \in Seq(Batch)
  <2>1. batches \in Seq(Batch)
    BY DEF MultiInv
  <2>2. NftOf[m] = x /\ CoinOf[m] = y
    BY <1>5, <1>6, BatchNumbers
  <2>3. batches' \in Seq(Batch)
    BY <1>2, <1>6, <2>1
  <2> QED
    BY <1>2, <1>6, <2>1, <2>2, <2>3, BatchNumbers, InBatchesAppend
<1>11. /\ SumFunction(Quantities(user')) + InBatches(NftOf, batches')
            = SumFunction(Quantities(user)) + InBatches(NftOf, batches)
       /\ SumFunction(CoinQuantities(coin')) + InBatches(CoinOf, batches')
            = SumFunction(CoinQuantities(coin)) + InBatches(CoinOf, batches)
  BY <1>3, <1>9, <1>10, MultiSums
<1>12. MultiInv'
  BY <1>1, <1>2, <1>7, <1>10, <1>11, MultiInvAfter
<1>13. Moves({a}, {}, items)
  BY <1>8 DEF Moves, x, y
<1>14. Sends(a, b, items)
  BY <1>2, <1>5, <1>6 DEF Sends, x, y
<1> QED
  BY <1>8, <1>12, <1>13, <1>14

LEMMA MultiDeliverInv ==
  ASSUME MultiInv, NEW i \in DOMAIN batches, MultiDeliver(i)
  PROVE  /\ MultiInv' /\ Moves({}, {batches[i].to}, batches[i].items)
         /\ \A c \in Accounts : coin'[c].frozen = coin[c].frozen
<1> DEFINE m == batches[i]
           w == Arrived(m)
           s == ShardOf[m.to]
           b == m.to
           x == Total(NftNumber, m.items)
           y == Total(CoinNumber, m.items)
<1>0. batches \in Seq(Batch) /\ m \in Batch
  BY DEF MultiInv
<1>1. s \in Shards /\ b \in Accounts /\ m.items \in Seq(Item)
  BY <1>0, BatchFields
<1>2. Finish(w, s) /\ w.ok /\ batches' = RemoveAt(batches, i)
  BY DEF MultiDeliver, Finish
<1>3. x \in Nat /\ y \in Nat
  BY <1>1, TotalType DEF NftNumber, CoinNumber, Item
<1>4. NarrowWork(w) /\ Shift(w, Work(s), {}, {b}, x, y)
  BY <1>0, <1>2, ArrivedLeaves, MultiAccounted
<1>5. NftOf[m] = x /\ CoinOf[m] = y
  BY <1>0, BatchNumbers
<1> HIDE DEF w, s, x, y, b
<1>6. /\ Quantities(user) \in [Accounts -> Int] /\ Quantities(user') \in [Accounts -> Int]
      /\ CoinQuantities(coin) \in [Accounts -> Int]
      /\ CoinQuantities(coin') \in [Accounts -> Int]
      /\ Shifted(Quantities(user'), Quantities(user), {}, {b}, x)
      /\ Shifted(CoinQuantities(coin'), CoinQuantities(coin), {}, {b}, y)
      /\ \A c \in Accounts : coin'[c].frozen = coin[c].frozen
  BY <1>1, <1>2, <1>4, FinishShift
<1>7. /\ SumFunction(Quantities(user')) = SumFunction(Quantities(user)) + x
      /\ SumFunction(CoinQuantities(coin')) = SumFunction(CoinQuantities(coin)) + y
  <2>1. x \in Int /\ y \in Int
    BY <1>3
  <2>2. \A f, e \in [Accounts -> Int], z \in Int :
          Shifted(e, f, {}, {b}, z) => SumFunction(e) = SumFunction(f) + z
    BY <1>1, SumTaken
  <2> QED
    BY <1>6, <2>1, <2>2
<1>8. /\ InBatches(NftOf, batches') = InBatches(NftOf, batches) - x
      /\ InBatches(CoinOf, batches') = InBatches(CoinOf, batches) - y
      /\ batches' \in Seq(Batch)
  BY <1>0, <1>2, <1>5, BatchNumbers, InBatchesRemoveAt
<1>9. /\ SumFunction(Quantities(user')) + InBatches(NftOf, batches')
           = SumFunction(Quantities(user)) + InBatches(NftOf, batches)
      /\ SumFunction(CoinQuantities(coin')) + InBatches(CoinOf, batches')
           = SumFunction(CoinQuantities(coin)) + InBatches(CoinOf, batches)
  BY <1>3, <1>7, <1>8, MultiSums
<1>10. MultiInv'
  BY <1>1, <1>2, <1>4, <1>8, <1>9, MultiInvAfter
<1>11. Moves({}, {batches[i].to}, batches[i].items)
  BY <1>6 DEF Moves, x, y, b
<1> QED
  BY <1>6, <1>10, <1>11

LEMMA SavedOnErrorType ==
  ASSUME NEW m \in Batch, sys[ShardOf[m.to]] \in Entry, ~SendAlways
  PROVE  MultiSavedOnError(m) \in Entry
<1> DEFINE n == Len(m.items)
<1>1. n \in Nat
  BY BatchFields
<1>2. PICK path \in [0..n -> Entry] : path[n] = MultiSavedOnError(m)
  BY SavedOnErrorPath
<1>3. n \in 0..n
  BY <1>1
<1> QED
  BY <1>2, <1>3

LEMMA MultiRefuseInv ==
  ASSUME MultiInv, NEW i \in DOMAIN batches, MultiRefuse(i)
  PROVE  MultiInv' /\ UNCHANGED coin
<1> DEFINE m == batches[i]
           k == [m EXCEPT !.from = m.to, !.to = m.from, !.retErr = TRUE]
           s == ShardOf[m.to]
           e == MultiSavedOnError(m)
<1>0. batches \in Seq(Batch) /\ m \in Batch
  BY DEF MultiInv
<1>1. s \in Shards /\ m.to \in Accounts /\ m.from \in Accounts /\ m.items \in Seq(Item)
  BY <1>0, BatchFields, NftAssumption
<1>2. /\ batches' = Append(RemoveAt(batches, i), k) /\ sys' = [sys EXCEPT ![s] = e]
      /\ UNCHANGED <<user, collFrozen, paused, net, epoch, version, supply, coinVars>>
  BY DEF MultiRefuse
<1>3. k \in Batch /\ k.items = m.items
  BY <1>0 DEF Batch
<1>4. e \in Entry
  <2>1. sys[s] \in Entry
    BY <1>1 DEF MultiInv, TypeInv
  <2>2. CASE SendAlways
    BY <2>1, <2>2 DEF MultiSavedOnError
  <2>3. CASE ~SendAlways
    BY <1>0, <2>1, <2>3, SavedOnErrorType
  <2> QED
    BY <2>2, <2>3
<1> HIDE DEF k, e, s
<1>5. TypeInv'
  BY <1>1, <1>2, <1>4 DEF MultiInv, TypeInv
<1>6. /\ InBatches(NftOf, batches') = InBatches(NftOf, batches)
      /\ InBatches(CoinOf, batches') = InBatches(CoinOf, batches)
      /\ batches' \in Seq(Batch)
  <2> DEFINE r == RemoveAt(batches, i)
  <2>1. r \in Seq(Batch) /\ batches' = Append(r, k)
    BY <1>0, <1>2, InBatchesRemoveAt, BatchNumbers
  <2>2. /\ InBatches(NftOf, r) = InBatches(NftOf, batches) - NftOf[m]
        /\ InBatches(CoinOf, r) = InBatches(CoinOf, batches) - CoinOf[m]
    BY <1>0, InBatchesRemoveAt, BatchNumbers
  <2> HIDE DEF r
  <2>3. /\ InBatches(NftOf, batches') = InBatches(NftOf, r) + NftOf[k]
        /\ InBatches(CoinOf, batches') = InBatches(CoinOf, r) + CoinOf[k]
    BY <1>3, <2>1, InBatchesAppend, BatchNumbers
  <2>4. NftOf[k] = NftOf[m] /\ CoinOf[k] = CoinOf[m]
    BY <1>0, <1>3, BatchNumbers
  <2>5. /\ InBatches(NftOf, batches) \in Int /\ InBatches(CoinOf, batches) \in Int
        /\ NftOf[m] \in Int /\ CoinOf[m] \in Int
    BY <1>0, MultiSums, BatchNumbers
  <2>6. batches' \in Seq(Batch)
    BY <1>3, <2>1
  <2> QED
    BY <2>2, <2>3, <2>4, <2>5, <2>6
<1>7. UNCHANGED <<user, net, version, supply, coin, coinPaused>>
  BY <1>2 DEF coinVars
<1> QED
  BY <1>5, <1>6, <1>7 DEF MultiInv, QuantityWith

-----------------------------------------------------------------------------
(* Every step keeps the totals.                                            *)

LEMMA MultiInitInv == MultiInit => MultiInv
<1> SUFFICES ASSUME MultiInit PROVE MultiInv
  OBVIOUS
<1> DEFINE f == CoinQuantities(coin)
           p == NumbersOf(NftOf, batches)
           q == NumbersOf(CoinOf, batches)
<1>1. Init /\ coin = [a \in Accounts |-> NoCoins] /\ batches = <<>>
      /\ coinPaused = [s \in Shards |-> FALSE]
  BY DEF MultiInit
<1>2. TypeInv /\ QuantityInv /\ net = <<>> /\ net \in Seq(Message)
  BY <1>1, InitType, InitQuantity DEF Init
<1>3. coin \in [Accounts -> Coins] /\ coinPaused \in [Shards -> BOOLEAN]
      /\ batches \in Seq(Batch)
  BY <1>1 DEF NoCoins, Coins
<1>4. f \in [Accounts -> Int] /\ \A a \in Accounts : f[a] = 0
  BY <1>1 DEF CoinQuantities, NoCoins
<1>5. p \in [{} -> Int] /\ q \in [{} -> Int]
  BY <1>1 DEF NumbersOf
<1>6. IsFiniteSet(Accounts)
  BY NftAssumption
<1> HIDE DEF f, p, q
<1>7. SumFunction(f) = 0 /\ SumFunction(p) = 0 /\ SumFunction(q) = 0
  <2>1. SumFunction(f) = 0
    BY <1>4, <1>6, SumZero
  <2>2. SumFunction(p) = 0 /\ SumFunction(q) = 0
    BY <1>5, FS_EmptySet, SumType
  <2> QED
    BY <2>1, <2>2
<1>8. InBatches(NftOf, batches) = 0 /\ InBatches(CoinOf, batches) = 0
  BY <1>7 DEF InBatches, p, q
<1>9. MaxCoins \in Nat
  BY MultiAssumption, NftAssumption
<1>10. QuantityWith(0)
  <2>1. SumFunction(Quantities(user)) \in Nat /\ SumFunction(Sent(net)) \in Nat
    BY <1>2, SumsType DEF TypeInv
  <2> QED
    BY <1>2, <2>1 DEF QuantityInv, QuantityWith
<1>11. QuantityWith(InBatches(NftOf, batches))
  BY <1>8, <1>10
<1>12. SumFunction(CoinQuantities(coin)) + InBatches(CoinOf, batches) <= MaxCoins
  BY <1>7, <1>8, <1>9 DEF f
<1> QED
  BY <1>2, <1>3, <1>11, <1>12 DEF MultiInv

LEMMA IssueCoinInv ==
  ASSUME MultiInv, NEW a \in Accounts, NEW v \in Amounts, IssueCoin(a, v)
  PROVE  MultiInv' /\ (coin'[a].frozen = coin[a].frozen)
         /\ \A c \in Accounts : coin'[c].frozen = coin[c].frozen
<1> DEFINE f == CoinQuantities(coin)
           g == CoinQuantities(coin')
<1>1. /\ batches = <<>> /\ coin' = [coin EXCEPT ![a].value = @ + v]
      /\ SumFunction(f) + v <= MaxCoins
      /\ UNCHANGED <<vars, coinPaused, batches>>
  BY DEF IssueCoin, CoinQuantities
<1>2. coin \in [Accounts -> Coins] /\ v \in Nat /\ IsFiniteSet(Accounts)
  BY NftAssumption DEF MultiInv
<1>3. coin' \in [Accounts -> Coins] /\ \A c \in Accounts : coin'[c].frozen = coin[c].frozen
  BY <1>1, <1>2 DEF Coins
<1>4. /\ f \in [Accounts -> Int] /\ g \in [Accounts -> Int] /\ g[a] = f[a] + v
      /\ \A c \in Accounts \ {a} : g[c] = f[c]
  BY <1>1, <1>2, <1>3 DEF CoinQuantities, Coins
<1>5. InBatches(CoinOf, batches) = 0
  <2> DEFINE p == NumbersOf(CoinOf, batches)
  <2>1. p \in [{} -> Int]
    BY <1>1 DEF NumbersOf
  <2> HIDE DEF p
  <2>2. SumFunction(p) = 0
    BY <2>1, FS_EmptySet, SumType
  <2> QED
    BY <2>2 DEF p, InBatches
<1> HIDE DEF f, g
<1>6. SumFunction(g) = SumFunction(f) + g[a] - f[a]
  BY <1>2, <1>4, SumUpdate
<1>7. SumFunction(f) \in Int /\ f[a] \in Int /\ MaxCoins \in Nat
  BY <1>2, <1>4, SumType, MultiAssumption, NftAssumption
<1>8. SumFunction(g) + 0 <= MaxCoins
  BY <1>1, <1>2, <1>4, <1>6, <1>7
<1>9. batches' = batches /\ coinPaused' = coinPaused
      /\ UNCHANGED <<user, sys, collFrozen, paused, net, epoch, version, supply>>
  BY <1>1 DEF vars
<1>10. TypeInv'
  BY <1>9 DEF MultiInv, TypeInv
<1>11. SumFunction(CoinQuantities(coin')) + InBatches(CoinOf, batches') <= MaxCoins
  BY <1>5, <1>8, <1>9 DEF g
<1> QED
  BY <1>3, <1>9, <1>10, <1>11 DEF MultiInv, QuantityWith

\* The commands of the system contract about the coin
LEMMA CoinCommandInv ==
  ASSUME MultiInv,
         \/ \E a \in Accounts, f \in BOOLEAN : ToggleFreezeCoin(a, f)
         \/ \E s \in Shards, p \in BOOLEAN : TogglePauseCoin(s, p)
  PROVE  /\ MultiInv' /\ UNCHANGED batches
         /\ \A c \in Accounts : coin'[c].value = coin[c].value
<1>1. UNCHANGED <<user, sys, collFrozen, paused, net, epoch, version, supply, batches>>
  BY DEF ToggleFreezeCoin, TogglePauseCoin, vars
<1>2. coin \in [Accounts -> Coins] /\ coinPaused \in [Shards -> BOOLEAN]
  BY DEF MultiInv
<1>3. /\ coin' \in [Accounts -> Coins] /\ coinPaused' \in [Shards -> BOOLEAN]
      /\ \A c \in Accounts : coin'[c].value = coin[c].value
  <2>1. CASE \E a \in Accounts, f \in BOOLEAN : ToggleFreezeCoin(a, f)
    BY <1>2, <2>1 DEF ToggleFreezeCoin, Coins
  <2>2. CASE \E s \in Shards, p \in BOOLEAN : TogglePauseCoin(s, p)
    BY <1>2, <2>2 DEF TogglePauseCoin
  <2> QED
    BY <2>1, <2>2
<1>4. CoinQuantities(coin') = CoinQuantities(coin)
  BY <1>3 DEF CoinQuantities
<1>5. TypeInv'
  BY <1>1 DEF MultiInv, TypeInv
<1> QED
  BY <1>1, <1>3, <1>4, <1>5 DEF MultiInv, QuantityWith

LEMMA NftStepInv ==
  ASSUME MultiInv, NftStep
  PROVE  MultiInv' /\ UNCHANGED <<coin, batches>>
<1>1. [Next]_vars /\ UNCHANGED <<coin, coinPaused, batches>>
  BY DEF NftStep, Next, coinVars
<1>2. net' = net
  BY DEF NftStep, HolderStep, CommandStep, NextEpoch, Create, AddQuantity, Burn, ChangeQuantity,
         Update, ToggleFreeze, Wipe, ToggleFreezeCollection, TogglePause, DeleteMetadata,
         AddMetadata
<1>3. TypeInv'
  BY <1>1, StepType DEF MultiInv
<1>4. PICK o \in Nat : o = InBatches(NftOf, batches)
  BY MultiSums
<1>5. QuantityWith(o)'
  BY <1>1, <1>3, <1>4, StepQuantityWith DEF MultiInv
<1>6. o = InBatches(NftOf, batches')
  BY <1>1, <1>4
<1> QED
  BY <1>1, <1>2, <1>3, <1>5, <1>6 DEF MultiInv, QuantityWith

LEMMA MultiStutterInv ==
  ASSUME MultiInv, UNCHANGED multiVars
  PROVE  MultiInv'
BY DEF MultiInv, multiVars, vars, TypeInv, QuantityWith

LEMMA MultiStepInv == MultiInv /\ [MultiNext]_multiVars => MultiInv'
<1> SUFFICES ASSUME MultiInv, [MultiNext]_multiVars PROVE MultiInv'
  OBVIOUS
<1>1. CASE MultiStep
  BY <1>1, MultiInShardInv, MultiAcrossInv, MultiDeliverInv, MultiRefuseInv DEF MultiStep
<1>2. CASE CoinStep
  BY <1>2, IssueCoinInv, CoinCommandInv DEF CoinStep
<1>3. CASE NftStep
  BY <1>3, NftStepInv
<1>4. CASE UNCHANGED multiVars
  BY <1>4, MultiStutterInv
<1> QED
  BY <1>1, <1>2, <1>3, <1>4 DEF MultiNext

(* MultiTypeOKHolds: no list of tokens, of whatever length, repeated       *)
(* tokens included, and no order of batches makes a balance negative,      *)
(* although every token of the list is taken before the next is checked    *)
(* (transferOneTokenOnSenderShard).                                        *)
THEOREM MultiTypeOKHolds == MultiSpec => []MultiTypeOK
<1>1. MultiInv => MultiTypeOK
  <2> SUFFICES ASSUME MultiInv PROVE MultiTypeOK
    OBVIOUS
  <2>1. supply \in 0..MaxSupply
    <3>1. supply = SumFunction(Quantities(user)) + InBatches(NftOf, batches)
      BY MultiSums
    <3> QED
      BY <3>1, MultiSums, NftAssumption
  <2>2. TypeOK
    BY <2>1 DEF MultiInv, TypeOK, TypeInv, Metas
  <2> QED
    BY <2>2 DEF MultiInv, MultiTypeOK, Coins
<1> QED
  BY <1>1, MultiInitInv, MultiStepInv, PTL DEF MultiSpec

(* CoinFreezeKeptHolds: the call of the system contract is the only step   *)
(* that lifts the freeze of a coin, and it moves none.                     *)
THEOREM CoinFreezeKeptHolds == MultiSpec => CoinFreezeKept
<1> DEFINE Kept == \A a \in Accounts :
                     coin[a].frozen /\ ~coin'[a].frozen =>
                       coin'[a].value = coin[a].value /\ UNCHANGED batches
<1>1. MultiInv /\ [MultiNext]_multiVars => [Kept]_multiVars
  <2> SUFFICES ASSUME MultiInv, MultiNext PROVE Kept
    OBVIOUS
  <2>1. CASE MultiStep
    <3>1. \A c \in Accounts : coin'[c].frozen = coin[c].frozen
      BY <2>1, MultiInShardInv, MultiAcrossInv, MultiDeliverInv, MultiRefuseInv DEF MultiStep
    <3> QED
      BY <3>1
  <2>2. CASE CoinStep
    <3>1. CASE \E a \in Accounts, v \in Amounts : IssueCoin(a, v)
      BY <3>1, IssueCoinInv
    <3>2. CASE \/ \E a \in Accounts, f \in BOOLEAN : ToggleFreezeCoin(a, f)
               \/ \E s \in Shards, p \in BOOLEAN : TogglePauseCoin(s, p)
      BY <3>2, CoinCommandInv
    <3> QED
      BY <2>2, <3>1, <3>2 DEF CoinStep
  <2>3. CASE NftStep
    BY <2>3, NftStepInv
  <2> QED
    BY <2>1, <2>2, <2>3 DEF MultiNext
<1>2. MultiInv /\ [MultiNext]_multiVars => MultiInv'
  BY MultiStepInv
<1>3. MultiSpec => [][Kept]_multiVars
  <2> HIDE DEF Kept
  <2> QED
    BY <1>1, <1>2, MultiInitInv, PTL DEF MultiSpec
<1> QED
  BY <1>3 DEF CoinFreezeKept

-----------------------------------------------------------------------------
(* The escrow: a bag of payments, one for each batch.                     *)

\* The bag of the elements of a sequence
Count(q, p) == Cardinality({i \in DOMAIN q : q[i] = p})
BagOf(q) == [p \in Range(q) |-> Count(q, p)]

LEMMA CountType ==
  ASSUME NEW T, NEW q \in Seq(T), NEW p
  PROVE  /\ Count(q, p) \in Nat /\ IsFiniteSet({i \in DOMAIN q : q[i] = p})
         /\ Count(q, p) = 0 <=> p \notin Range(q)
<1> DEFINE S == {i \in DOMAIN q : q[i] = p}
<1>1. IsFiniteSet(DOMAIN q)
  <2>1. DOMAIN q = 1..Len(q) /\ Len(q) \in Nat
    OBVIOUS
  <2>2. IsFiniteSet(1..Len(q))
    BY <2>1, FS_Interval
  <2> QED
    BY <2>1, <2>2
<1>2. S \in SUBSET DOMAIN q /\ (S = {} <=> p \notin Range(q))
  BY DEF Range
<1> HIDE DEF S
<1>3. IsFiniteSet(S) /\ Cardinality(S) \in Nat /\ (Cardinality(S) = 0 <=> S = {})
  BY <1>1, <1>2, FS_Subset, FS_CardinalityType, FS_EmptySet
<1> QED
  BY <1>2, <1>3 DEF Count, S

LEMMA CountAppend ==
  ASSUME NEW T, NEW q \in Seq(T), NEW x \in T, NEW p
  PROVE  Count(Append(q, x), p) = Count(q, p) + (IF p = x THEN 1 ELSE 0)
<1> DEFINE S == {i \in DOMAIN q : q[i] = p}
           R == {i \in DOMAIN Append(q, x) : Append(q, x)[i] = p}
           n == Len(q) + 1
<1>1. IsFiniteSet(S) /\ n \notin S /\ Len(q) \in Nat
  <2>1. IsFiniteSet(S)
    BY CountType
  <2>2. n \notin S /\ Len(q) \in Nat
    OBVIOUS
  <2> QED
    BY <2>1, <2>2
<1>2. R = IF p = x THEN S \cup {n} ELSE S
  BY <1>1
<1>3. Count(q, p) = Cardinality(S) /\ Count(Append(q, x), p) = Cardinality(R)
  BY DEF Count
<1>4. Cardinality(S) \in Nat
  BY CountType DEF Count
<1> HIDE DEF S, R, n
<1>5. Cardinality(S \cup {n}) = Cardinality(S) + 1
  BY <1>1, FS_AddElement
<1> QED
  BY <1>2, <1>3, <1>4, <1>5

LEMMA CountRemoveAt ==
  ASSUME NEW T, NEW q \in Seq(T), NEW k \in 1..Len(q), NEW p
  PROVE  Count(RemoveAt(q, k), p) = Count(q, p) - (IF p = q[k] THEN 1 ELSE 0)
<1> DEFINE r == RemoveAt(q, k)
           S == {i \in 1..Len(q) : q[i] = p}
           R == {i \in 1..(Len(q) - 1) : r[i] = p}
           h == [i \in R |-> IF i < k THEN i ELSE i + 1]
           rest == S \ {k}
<1>1. /\ r \in Seq(T) /\ Len(r) = Len(q) - 1 /\ Len(q) \in Nat
      /\ \A j \in 1..(Len(q) - 1) : r[j] = IF j < k THEN q[j] ELSE q[j + 1]
  BY RemoveAtProperties
<1> HIDE DEF r
<1>2. DOMAIN q = 1..Len(q) /\ DOMAIN r = 1..(Len(q) - 1)
  BY <1>1
<1>3. Count(q, p) = Cardinality(S) /\ Count(r, p) = Cardinality(R)
  BY <1>2 DEF Count
<1>4. IsFiniteSet(S) /\ IsFiniteSet(R) /\ Cardinality(S) \in Nat
  BY <1>1, <1>2, <1>3, CountType
<1>5. h \in Bijection(R, rest)
  <2>1. h \in [R -> rest]
    BY <1>1
  <2>2. IsInjective(h)
    BY <1>1 DEF IsInjective
  <2>3. ASSUME NEW t \in rest PROVE \E s \in R : h[s] = t
    <3>1. CASE t < k
      <4>1. t \in R /\ h[t] = t
        BY <1>1, <3>1
      <4> QED
        BY <4>1
    <3>2. CASE t > k
      <4>1. t - 1 \in R /\ h[t - 1] = t
        BY <1>1, <3>2
      <4> QED
        BY <4>1
    <3> QED
      BY <3>1, <3>2
  <2> HIDE DEF h, R, rest
  <2> QED
    BY <2>1, <2>2, <2>3 DEF Bijection, Injection, Surjection
<1>6. k \in S <=> p = q[k]
  OBVIOUS
<1> HIDE DEF h, R, S
<1>7. Cardinality(rest) = Cardinality(R)
  <2>1. ExistsBijection(R, rest)
    BY <1>5 DEF ExistsBijection
  <2> HIDE DEF rest
  <2> QED
    BY <1>4, <2>1, FS_Bijection
<1>8. Cardinality(rest) = IF k \in S THEN Cardinality(S) - 1 ELSE Cardinality(S)
  BY <1>4, FS_RemoveElement
<1> QED
  BY <1>3, <1>4, <1>6, <1>7, <1>8 DEF r

LEMMA BagAppend ==
  ASSUME NEW T, NEW q \in Seq(T), NEW x \in T
  PROVE  BagOf(Append(q, x)) = BagOf(q) (+) SetToBag({x})
<1> DEFINE r == Append(q, x)
<1>1. Range(r) = Range(q) \cup {x}
  <2>1. DOMAIN r = DOMAIN q \cup {Len(q) + 1} /\ r[Len(q) + 1] = x
        /\ \A i \in DOMAIN q : r[i] = q[i]
    OBVIOUS
  <2> HIDE DEF r
  <2> QED
    BY <2>1 DEF Range
<1>2. \A p : /\ Count(r, p) = Count(q, p) + (IF p = x THEN 1 ELSE 0)
             /\ Count(q, p) \in Nat /\ (p \notin Range(q) => Count(q, p) = 0)
  <2>1. \A p : Count(r, p) = Count(q, p) + (IF p = x THEN 1 ELSE 0)
    BY CountAppend
  <2>2. \A p : Count(q, p) \in Nat /\ (Count(q, p) = 0 <=> p \notin Range(q))
    BY CountType
  <2> QED
    BY <2>1, <2>2
<1> HIDE DEF r
<1>3. ASSUME NEW p \in Range(r)
      PROVE  Count(r, p) = (IF p \in Range(q) THEN Count(q, p) ELSE 0)
                           + (IF p \in {x} THEN 1 ELSE 0)
  BY <1>2
<1> QED
  BY <1>1, <1>3 DEF BagOf, (+), SetToBag, r

LEMMA BagRemoveAt ==
  ASSUME NEW T, NEW q \in Seq(T), NEW k \in 1..Len(q)
  PROVE  BagOf(RemoveAt(q, k)) = BagOf(q) (-) SetToBag({q[k]})
<1> DEFINE r == RemoveAt(q, k)
           x == q[k]
           B == [p \in Range(q) |-> IF p \in {x} THEN Count(q, p) - 1 ELSE Count(q, p)]
<1>1. r \in Seq(T) /\ x \in Range(q)
  BY RemoveAtProperties DEF Range
<1>2. \A p : /\ Count(r, p) = Count(q, p) - (IF p = x THEN 1 ELSE 0)
             /\ Count(q, p) \in Nat /\ (p \notin Range(q) <=> Count(q, p) = 0)
  BY CountRemoveAt, CountType
<1>3. \A p : Count(r, p) \in Nat /\ (p \notin Range(r) <=> Count(r, p) = 0)
  BY <1>1, CountType
<1> HIDE DEF r, x
<1>4. \A p \in Range(q) : B[p] = Count(r, p)
  BY <1>2
<1>5. Range(r) = {p \in Range(q) : B[p] > 0}
  <2>1. \A p : p \in Range(r) => p \in Range(q)
    BY <1>1, <1>2, <1>3
  <2> HIDE DEF B
  <2> QED
    BY <1>3, <1>4, <2>1
<1>6. BagOf(r) = [p \in {d \in Range(q) : B[d] > 0} |-> B[p]]
  <2>1. BagOf(r) = [p \in Range(r) |-> Count(r, p)]
    BY DEF BagOf
  <2> HIDE DEF B
  <2> QED
    BY <1>4, <1>5, <2>1
<1>7. BagOf(q) (-) SetToBag({x}) = [p \in {d \in Range(q) : B[d] > 0} |-> B[p]]
  <2> DEFINE D == [e \in DOMAIN BagOf(q) |->
                     IF e \in DOMAIN SetToBag({x}) THEN BagOf(q)[e] - SetToBag({x})[e]
                     ELSE BagOf(q)[e]]
  <2>1. D = B
    BY DEF BagOf, SetToBag
  <2>2. BagOf(q) (-) SetToBag({x}) = [e \in {d \in DOMAIN D : D[d] > 0} |-> D[e]]
    BY DEF (-)
  <2>3. DOMAIN B = Range(q)
    OBVIOUS
  <2> HIDE DEF D, B
  <2> QED
    BY <2>1, <2>2, <2>3
<1> QED
  BY <1>6, <1>7 DEF r, x

-----------------------------------------------------------------------------
(* The escrow of a queue of batches, and what accounts hold.               *)

PaymentSet == {Payment(m) : m \in Batch}
PaymentList(n) == [i \in DOMAIN n |-> Payment(n[i])]
Holding ==
  [a \in Accounts |-> [k \in BOOLEAN |-> IF k THEN user[a].value ELSE coin[a].value]]
Pair(x, y) == [k \in BOOLEAN |-> IF k THEN x ELSE y]

LEMMA PaymentsBag ==
  /\ Payments = BagOf(PaymentList(batches))
  /\ Payments' = BagOf(PaymentList(batches'))
<1>1. DOMAIN PaymentList(batches) = DOMAIN batches
      /\ DOMAIN PaymentList(batches') = DOMAIN batches'
  BY DEF PaymentList
<1> QED
  BY <1>1 DEF Payments, BagOf, Count, PaymentList

LEMMA PaymentListType ==
  ASSUME NEW n \in Seq(Batch)
  PROVE  /\ PaymentList(n) \in Seq(PaymentSet) /\ Len(PaymentList(n)) = Len(n)
         /\ \A i \in 1..Len(n) : PaymentList(n)[i] = Payment(n[i])
BY DEF PaymentList, PaymentSet

LEMMA PaymentsAppend ==
  ASSUME NEW n \in Seq(Batch), NEW m \in Batch
  PROVE  BagOf(PaymentList(Append(n, m))) = BagOf(PaymentList(n)) (+) SetToBag({Payment(m)})
<1> DEFINE q == PaymentList(n)
           p == Payment(m)
<1>1. q \in Seq(PaymentSet) /\ p \in PaymentSet
  BY PaymentListType DEF PaymentSet
<1>2. PaymentList(Append(n, m)) = Append(q, p)
  BY DEF PaymentList
<1> HIDE DEF q, p
<1>3. BagOf(Append(q, p)) = BagOf(q) (+) SetToBag({p})
  BY <1>1, BagAppend
<1> QED
  BY <1>2, <1>3 DEF q, p

LEMMA PaymentsRemoveAt ==
  ASSUME NEW n \in Seq(Batch), NEW i \in 1..Len(n)
  PROVE  BagOf(PaymentList(RemoveAt(n, i)))
           = BagOf(PaymentList(n)) (-) SetToBag({Payment(n[i])})
<1> DEFINE q == PaymentList(n)
           r == RemoveAt(n, i)
           z == RemoveAt(q, i)
<1>1. q \in Seq(PaymentSet) /\ Len(q) = Len(n) /\ Len(n) \in Nat
      /\ \A j \in 1..Len(n) : q[j] = Payment(n[j])
  BY PaymentListType
<1>2. /\ r \in Seq(Batch) /\ Len(r) = Len(n) - 1
      /\ \A j \in 1..(Len(n) - 1) : r[j] = IF j < i THEN n[j] ELSE n[j + 1]
  BY RemoveAtProperties
<1>3. PaymentList(r) \in Seq(PaymentSet) /\ Len(PaymentList(r)) = Len(r)
      /\ \A j \in 1..Len(r) : PaymentList(r)[j] = Payment(r[j])
  BY <1>2, PaymentListType
<1> HIDE DEF q, r
<1>4. /\ z \in Seq(PaymentSet) /\ Len(z) = Len(n) - 1
      /\ \A j \in 1..(Len(n) - 1) : z[j] = IF j < i THEN q[j] ELSE q[j + 1]
  BY <1>1, RemoveAtProperties
<1> HIDE DEF z
<1>5. ASSUME NEW j \in 1..(Len(n) - 1) PROVE PaymentList(r)[j] = z[j]
  <2>1. j \in 1..Len(n) /\ j + 1 \in 1..Len(n) /\ j \in 1..Len(r)
    BY <1>1, <1>2
  <2>2. PaymentList(r)[j] = Payment(r[j])
    BY <1>3, <2>1
  <2>3. CASE j < i
    BY <1>1, <1>2, <1>4, <2>1, <2>2, <2>3
  <2>4. CASE ~(j < i)
    BY <1>1, <1>2, <1>4, <2>1, <2>2, <2>4
  <2> QED
    BY <2>3, <2>4
<1>6. PaymentList(r) = z
  BY <1>1, <1>2, <1>3, <1>4, <1>5
<1>7. BagOf(z) = BagOf(q) (-) SetToBag({q[i]})
  BY <1>1, BagRemoveAt DEF z
<1>8. q[i] = Payment(n[i])
  BY <1>1
<1> QED
  BY <1>6, <1>7, <1>8 DEF q, r

LEMMA PaymentAmounts ==
  ASSUME NEW m, m.items \in Seq(Item)
  PROVE  /\ Payment(m).amounts = Pair(Total(NftNumber, m.items), Total(CoinNumber, m.items))
         /\ Payment(m).payer = IF m.retErr THEN m.to ELSE m.from
         /\ Payment(m).payee = IF m.retErr THEN m.from ELSE m.to
         /\ Payment(m).refused = m.retErr
<1>1. \A i \in DOMAIN m.items : m.items[i] \in Item /\ m.items[i].nft \in BOOLEAN
  <2> DEFINE s == m.items
  <2>1. s \in Seq(Item)
    OBVIOUS
  <2> HIDE DEF s
  <2>2. \A i \in DOMAIN s : s[i] \in Item
    BY <2>1
  <2>3. \A it \in Item : it.nft \in BOOLEAN
    BY DEF Item
  <2> QED
    BY <2>2, <2>3 DEF s
<1>2. ASSUME NEW k \in BOOLEAN
      PROVE  AmountOf(m, k) = IF k THEN Total(NftNumber, m.items)
                                   ELSE Total(CoinNumber, m.items)
  <2> DEFINE f == [i \in DOMAIN m.items |->
                     IF m.items[i].nft = k THEN m.items[i].value ELSE 0]
  <2>1. AmountOf(m, k) = SumFunction(f)
    BY DEF AmountOf
  <2>2. CASE k
    <3>1. f = NumbersOf(NftNumber, m.items)
      BY <1>1, <2>2 DEF NumbersOf, NftNumber
    <3> HIDE DEF f
    <3> QED
      BY <2>1, <2>2, <3>1 DEF Total
  <2>3. CASE ~k
    <3>1. f = NumbersOf(CoinNumber, m.items)
      BY <1>1, <2>3 DEF NumbersOf, CoinNumber
    <3> HIDE DEF f
    <3> QED
      BY <2>1, <2>3, <3>1 DEF Total
  <2> QED
    BY <2>2, <2>3
<1>3. Payment(m).amounts = [k \in BOOLEAN |-> AmountOf(m, k)]
  BY DEF Payment
<1>4. [k \in BOOLEAN |-> AmountOf(m, k)]
        = Pair(Total(NftNumber, m.items), Total(CoinNumber, m.items))
  BY <1>2 DEF Pair
<1>5. /\ Payment(m).payer = IF m.retErr THEN m.to ELSE m.from
      /\ Payment(m).payee = IF m.retErr THEN m.from ELSE m.to
      /\ Payment(m).refused = m.retErr
  BY DEF Payment
<1> QED
  BY <1>3, <1>4, <1>5

LEMMA HoldingType ==
  ASSUME MultiInv
  PROVE  /\ \A c \in Accounts : user[c].value \in Nat /\ coin[c].value \in Nat
         /\ Holding \in [Accounts -> [BOOLEAN -> Nat]]
<1>1. user \in [Accounts -> Record] /\ coin \in [Accounts -> Coins]
  BY DEF MultiInv, TypeInv
<1>2. \A c \in Accounts : user[c].value \in Nat /\ coin[c].value \in Nat
  BY <1>1 DEF Record, Coins
<1> QED
  BY <1>2 DEF Holding

LEMMA HoldingIs ==
  ASSUME MultiInv', NEW h \in [Accounts -> [BOOLEAN -> Int]],
         \A c \in Accounts, k \in BOOLEAN :
           h[c][k] = IF k THEN user'[c].value ELSE coin'[c].value
  PROVE  Holding' = h
<1> DEFINE g == Holding'
<1>1. user' \in [Accounts -> Record] /\ coin' \in [Accounts -> Coins]
  BY DEF MultiInv, TypeInv
<1>2. \A c \in Accounts : user'[c].value \in Int /\ coin'[c].value \in Int
  BY <1>1 DEF Record, Coins
<1>3. /\ g \in [Accounts -> [BOOLEAN -> Int]]
      /\ \A c \in Accounts, k \in BOOLEAN : g[c][k] = h[c][k]
  BY <1>2 DEF Holding
<1> HIDE DEF g
<1>4. \A c \in Accounts : g[c] = h[c]
  BY <1>3
<1>5. g = h
  BY <1>3, <1>4
<1> QED
  BY <1>5 DEF g

LEMMA ShiftedValues ==
  ASSUME MultiInv, MultiInv', NEW P, NEW Q, NEW x, NEW y,
         Shifted(Quantities(user'), Quantities(user), P, Q, x),
         Shifted(CoinQuantities(coin'), CoinQuantities(coin), P, Q, y)
  PROVE  \A c \in Accounts :
           /\ user[c].value \in Nat /\ user'[c].value \in Nat
           /\ coin[c].value \in Nat /\ coin'[c].value \in Nat
           /\ user'[c].value
                = user[c].value - (IF c \in P THEN x ELSE 0) + (IF c \in Q THEN x ELSE 0)
           /\ coin'[c].value
                = coin[c].value - (IF c \in P THEN y ELSE 0) + (IF c \in Q THEN y ELSE 0)
<1>1. /\ user \in [Accounts -> Record] /\ coin \in [Accounts -> Coins]
      /\ user' \in [Accounts -> Record] /\ coin' \in [Accounts -> Coins]
  BY DEF MultiInv, TypeInv
<1>2. \A c \in Accounts :
        /\ user[c].value \in Nat /\ user'[c].value \in Nat
        /\ coin[c].value \in Nat /\ coin'[c].value \in Nat
  BY <1>1 DEF Record, Coins
<1> QED
  BY <1>2 DEF Shifted, Quantities, CoinQuantities

LEMMA HoldingPays ==
  ASSUME MultiInv, MultiInv', NEW a \in Accounts, NEW x \in Nat, NEW y \in Nat,
         Shifted(Quantities(user'), Quantities(user), {a}, {}, x),
         Shifted(CoinQuantities(coin'), CoinQuantities(coin), {a}, {}, y)
  PROVE  /\ x <= user[a].value /\ y <= coin[a].value
         /\ Escrow!CanPay(a, Pair(x, y)) /\ Holding' = Escrow!Pays(Holding, a, Pair(x, y))
<1>1. \A c \in Accounts :
        /\ user[c].value \in Nat /\ user'[c].value \in Nat
        /\ coin[c].value \in Nat /\ coin'[c].value \in Nat
        /\ user'[c].value = user[c].value - (IF c = a THEN x ELSE 0)
        /\ coin'[c].value = coin[c].value - (IF c = a THEN y ELSE 0)
  BY ShiftedValues
<1>2. x <= user[a].value /\ y <= coin[a].value
  BY <1>1
<1>3. Escrow!CanPay(a, Pair(x, y))
  BY <1>2 DEF Escrow!CanPay, Pair
<1> DEFINE h == Escrow!Pays(Holding, a, Pair(x, y))
<1>4. /\ h \in [Accounts -> [BOOLEAN -> Int]]
      /\ \A c \in Accounts, k \in BOOLEAN :
           h[c][k] = IF k THEN user'[c].value ELSE coin'[c].value
  BY <1>1 DEF Holding, Escrow!Pays, Pair
<1> HIDE DEF h
<1>5. Holding' = h
  BY <1>4, HoldingIs
<1> QED
  BY <1>2, <1>3, <1>5 DEF h

LEMMA HoldingReceives ==
  ASSUME MultiInv, MultiInv', NEW b \in Accounts, NEW x \in Nat, NEW y \in Nat,
         Shifted(Quantities(user'), Quantities(user), {}, {b}, x),
         Shifted(CoinQuantities(coin'), CoinQuantities(coin), {}, {b}, y)
  PROVE  Holding' = Escrow!Receives(Holding, b, Pair(x, y))
<1>1. \A c \in Accounts :
        /\ user[c].value \in Nat /\ user'[c].value \in Nat
        /\ coin[c].value \in Nat /\ coin'[c].value \in Nat
        /\ user'[c].value = user[c].value + (IF c = b THEN x ELSE 0)
        /\ coin'[c].value = coin[c].value + (IF c = b THEN y ELSE 0)
  BY ShiftedValues
<1> DEFINE h == Escrow!Receives(Holding, b, Pair(x, y))
<1>2. /\ h \in [Accounts -> [BOOLEAN -> Int]]
      /\ \A c \in Accounts, k \in BOOLEAN :
           h[c][k] = IF k THEN user'[c].value ELSE coin'[c].value
  BY <1>1 DEF Holding, Escrow!Receives, Pair
<1> HIDE DEF h
<1>3. Holding' = h
  BY <1>2, HoldingIs
<1> QED
  BY <1>3 DEF h

LEMMA HoldingPaysTo ==
  ASSUME MultiInv, MultiInv', NEW a \in Accounts, NEW b \in Accounts, a # b,
         NEW x \in Nat, NEW y \in Nat,
         Shifted(Quantities(user'), Quantities(user), {a}, {b}, x),
         Shifted(CoinQuantities(coin'), CoinQuantities(coin), {a}, {b}, y)
  PROVE  /\ x <= user[a].value /\ y <= coin[a].value
         /\ Escrow!CanPay(a, Pair(x, y))
         /\ Holding' = Escrow!Receives(Escrow!Pays(Holding, a, Pair(x, y)), b, Pair(x, y))
<1>1. \A c \in Accounts :
        /\ user[c].value \in Nat /\ user'[c].value \in Nat
        /\ coin[c].value \in Nat /\ coin'[c].value \in Nat
        /\ user'[c].value = user[c].value - (IF c = a THEN x ELSE 0) + (IF c = b THEN x ELSE 0)
        /\ coin'[c].value = coin[c].value - (IF c = a THEN y ELSE 0) + (IF c = b THEN y ELSE 0)
  BY ShiftedValues
<1>2. x <= user[a].value /\ y <= coin[a].value
  BY <1>1
<1>3. Escrow!CanPay(a, Pair(x, y))
  BY <1>2 DEF Escrow!CanPay, Pair
<1> DEFINE g == Escrow!Pays(Holding, a, Pair(x, y))
           h == Escrow!Receives(g, b, Pair(x, y))
<1>4. /\ g \in [Accounts -> [BOOLEAN -> Int]]
      /\ \A c \in Accounts, k \in BOOLEAN :
           g[c][k] = IF k THEN user[c].value - (IF c = a THEN x ELSE 0)
                          ELSE coin[c].value - (IF c = a THEN y ELSE 0)
  BY <1>1 DEF Holding, Escrow!Pays, Pair
<1> HIDE DEF g
<1>5. /\ h \in [Accounts -> [BOOLEAN -> Int]]
      /\ \A c \in Accounts, k \in BOOLEAN :
           h[c][k] = IF k THEN user'[c].value ELSE coin'[c].value
  BY <1>1, <1>4 DEF Escrow!Receives, Pair
<1> HIDE DEF h
<1>6. Holding' = h
  BY <1>5, HoldingIs
<1> QED
  BY <1>2, <1>3, <1>6 DEF g, h

LEMMA PairFits ==
  ASSUME NEW x \in 0..MaxSupply, NEW y \in 0..MaxSupply
  PROVE  Pair(x, y) \in Escrow!Sums
BY DEF Pair, Escrow!Sums

\* No account and no batch has more than there is.
LEMMA WithinSupply ==
  ASSUME MultiInv
  PROVE  /\ \A c \in Accounts : user[c].value \in 0..MaxSupply /\ coin[c].value \in 0..MaxSupply
         /\ \A i \in DOMAIN batches : /\ NftOf[batches[i]] \in 0..MaxSupply
                                      /\ CoinOf[batches[i]] \in 0..MaxSupply
<1> DEFINE q == CoinQuantities(coin)
<1>1. user \in [Accounts -> Record] /\ net \in Seq(Message) /\ batches \in Seq(Batch)
  BY DEF MultiInv, TypeInv
<1>2. MaxSupply \in Nat /\ MaxCoins \in Nat /\ MaxCoins <= MaxSupply
  BY NftAssumption, MultiAssumption
<1>3. \A c \in Accounts : user[c].value <= SumFunction(Quantities(user))
  BY <1>1, SumsType
<1>4. q \in [Accounts -> Nat] /\ IsFiniteSet(Accounts)
      /\ \A c \in Accounts : q[c] = coin[c].value
  BY NftAssumption DEF MultiInv, CoinQuantities, Coins
<1> HIDE DEF q
<1>5. \A c \in Accounts : q[c] <= SumFunction(q)
  BY <1>4, SumBounds
<1>6. /\ \A i \in DOMAIN batches : NftOf[batches[i]] <= InBatches(NftOf, batches)
      /\ \A i \in DOMAIN batches : CoinOf[batches[i]] <= InBatches(CoinOf, batches)
  BY <1>1, BatchNumbers, InBatchesType
<1>7. \A i \in DOMAIN batches : NftOf[batches[i]] \in Nat /\ CoinOf[batches[i]] \in Nat
  <2>1. \A i \in DOMAIN batches : batches[i] \in Batch
    BY <1>1
  <2> QED
    BY <2>1, BatchNumbers
<1>8. /\ SumFunction(Quantities(user)) \in Nat /\ SumFunction(q) \in Nat
      /\ InBatches(NftOf, batches) \in Nat /\ InBatches(CoinOf, batches) \in Nat
      /\ SumFunction(Quantities(user)) + InBatches(NftOf, batches) <= MaxSupply
      /\ SumFunction(q) + InBatches(CoinOf, batches) <= MaxCoins
  BY MultiSums DEF q
<1>9. \A c \in Accounts : user[c].value \in Nat /\ coin[c].value \in Nat
  BY HoldingType
<1> QED
  BY <1>2, <1>3, <1>4, <1>5, <1>6, <1>7, <1>8, <1>9

(* A step of NftLedger that is no transfer makes or destroys pieces of one *)
(* account, or changes no number.                                          *)
LEMMA NftStepNumbers ==
  ASSUME MultiInv, NftStep
  PROVE  \/ \A c \in Accounts : user'[c].value = user[c].value
         \/ \E a \in Accounts, x \in 0..MaxSupply :
              \/ \A c \in Accounts :
                   user'[c].value = user[c].value + (IF c = a THEN x ELSE 0)
              \/ \A c \in Accounts :
                   user'[c].value = user[c].value - (IF c = a THEN x ELSE 0)
<1> DEFINE Same == \A c \in Accounts : user'[c].value = user[c].value
           More(a, x) == \A c \in Accounts :
                           user'[c].value = user[c].value + (IF c = a THEN x ELSE 0)
           Less(a, x) == \A c \in Accounts :
                           user'[c].value = user[c].value - (IF c = a THEN x ELSE 0)
           Goal == Same \/ \E a \in Accounts, x \in 0..MaxSupply : More(a, x) \/ Less(a, x)
<1> SUFFICES Goal
  OBVIOUS
<1>1. /\ user \in [Accounts -> Record] /\ version \in Metas /\ TypeInv
      /\ \A c \in Accounts : /\ user[c].value \in Nat /\ user[c].value \in 0..MaxSupply
                             /\ user[c].frozen \in BOOLEAN
  BY HoldingType, WithinSupply DEF MultiInv, TypeInv, Record
<1>2. /\ supply \in Nat /\ supply <= MaxSupply /\ MaxSupply \in Nat
      /\ version = NoMeta => supply = 0
      /\ \A c \in Accounts : user[c].value <= supply
  <2>1. /\ SumFunction(Quantities(user)) \in Nat /\ InBatches(NftOf, batches) \in Nat
        /\ supply = SumFunction(Quantities(user)) + InBatches(NftOf, batches)
        /\ supply <= MaxSupply
    BY MultiSums
  <2>2. net \in Seq(Message)
    BY DEF MultiInv
  <2>3. \A c \in Accounts : user[c].value <= SumFunction(Quantities(user))
    BY <1>1, <2>2, SumsType
  <2>4. version = NoMeta => supply = 0
    BY DEF MultiInv, QuantityWith
  <2> QED
    BY <1>1, <2>1, <2>3, <2>4, NftAssumption
<1>3. Amounts \subseteq Nat
  BY NftAssumption
<1>4. ASSUME NEW a \in Accounts, NEW v \in Amounts, Create(a, v) PROVE Goal
  <2>1. /\ v \in Nat /\ v <= MaxSupply /\ supply = 0
        /\ user' = [user EXCEPT ![a] = Stored(v, FALSE, 1)]
    BY <1>2, <1>3, <1>4 DEF Create
  <2>2. 1 \in Metas
    BY NftAssumption DEF Metas
  <2>3. Stored(v, FALSE, 1).value = v
    BY <2>1, <2>2, UnfrozenProperties
  <2>4. user'[a].value = v /\ \A c \in Accounts \ {a} : user'[c] = user[c]
    BY <1>1, <2>1, <2>3
  <2>5. user[a].value = 0
    BY <1>1, <1>2, <2>1
  <2>6. More(a, v)
    <3>1. ASSUME NEW c \in Accounts
          PROVE  user'[c].value = user[c].value + (IF c = a THEN v ELSE 0)
      <4>0. v \in Nat
        BY <1>3
      <4>1. CASE c = a
        BY <2>4, <2>5, <4>0, <4>1
      <4>2. CASE c # a
        BY <1>1, <2>4, <4>2
      <4> QED
        BY <4>1, <4>2
    <3> QED
      BY <3>1
  <2>7. v \in 0..MaxSupply
    BY <1>2, <2>1
  <2> HIDE DEF More, Less, Same
  <2> QED
    BY <2>6, <2>7
<1>5. ASSUME NEW a \in Accounts, NEW v \in Int, ChangeQuantity(a, v)
      PROVE  \A c \in Accounts : user'[c].value = user[c].value + (IF c = a THEN v ELSE 0)
  <2>1. user[a].value - (-v) >= 0 /\ -v \in Int /\ user' = Taken(a, -v)
    BY <1>1, <1>5 DEF ChangeQuantity
  <2>2. /\ user'[a].value = user[a].value - (-v)
        /\ \A c \in Accounts \ {a} : user'[c] = user[c]
    BY <1>1, <2>1, TakenProperties
  <2> QED
    BY <1>1, <2>2
<1>6. ASSUME NEW a \in Accounts, NEW v \in Amounts, AddQuantity(a, v) PROVE Goal
  <2>1. v \in Nat /\ ChangeQuantity(a, v) /\ supply + v <= MaxSupply
    BY <1>3, <1>6 DEF AddQuantity
  <2>2. More(a, v) /\ v \in 0..MaxSupply
    BY <1>2, <1>5, <2>1
  <2> HIDE DEF More, Less, Same
  <2> QED
    BY <2>2
<1>7. ASSUME NEW a \in Accounts, NEW v \in Amounts, Burn(a, v) PROVE Goal
  <2>1. v \in Nat /\ -v \in Int /\ ChangeQuantity(a, -v)
    BY <1>3, <1>7 DEF Burn
  <2>2. user[a].value + -v >= 0
    BY <2>1 DEF ChangeQuantity
  <2>3. \A c \in Accounts : user'[c].value = user[c].value + (IF c = a THEN -v ELSE 0)
    BY <1>5, <2>1
  <2>4. Less(a, v) /\ v \in 0..MaxSupply
    BY <1>1, <1>2, <2>1, <2>2, <2>3
  <2> HIDE DEF More, Less, Same
  <2> QED
    BY <2>4
<1>8. ASSUME NEW a \in Accounts, Update(a) PROVE Goal
  <2> DEFINE u == Stored(user[a].value, user[a].frozen, version + 1)
  <2>1. version + 1 \in Metas /\ user' = [user EXCEPT ![a] = u]
    BY <1>1, <1>8, NftAssumption DEF Update, Metas
  <2>2. u.value = user[a].value
    BY <1>1, <2>1, StoredProperties
  <2> HIDE DEF u
  <2>3. Same
    BY <1>1, <2>1, <2>2
  <2> HIDE DEF More, Less, Same
  <2> QED
    BY <2>3
<1>9. ASSUME NEW a \in Accounts, Wipe(a) PROVE Goal
  <2> DEFINE x == user[a].value
  <2>1. x \in 0..MaxSupply /\ user' = [user EXCEPT ![a] = NoRecord]
    BY <1>1, <1>9 DEF Wipe
  <2>2. user'[a].value = 0 /\ \A c \in Accounts \ {a} : user'[c] = user[c]
    BY <1>1, <2>1 DEF NoRecord
  <2>3. Less(a, x)
    BY <1>1, <2>2
  <2> HIDE DEF More, Less, Same, x
  <2> QED
    BY <2>1, <2>3
<1>10. ASSUME NEW a \in Accounts, NEW f \in BOOLEAN, ToggleFreeze(a, f) PROVE Goal
  <2>1. Same
    BY <1>1, <1>10 DEF ToggleFreeze, Record
  <2> HIDE DEF More, Less, Same
  <2> QED
    BY <2>1
<1>11. CASE UNCHANGED user
  <2>1. Same
    BY <1>11
  <2> HIDE DEF More, Less, Same
  <2> QED
    BY <2>1
<1> HIDE DEF Goal
<1>12. ASSUME NEW a \in Accounts, NEW f \in BOOLEAN, ToggleFreezeCollection(a, f)
       PROVE  Goal
  BY <1>11, <1>12 DEF ToggleFreezeCollection
<1>13. ASSUME NEW s \in Shards, NEW p \in BOOLEAN,
              TogglePause(s, p) \/ DeleteMetadata(s) \/ AddMetadata(s)
       PROVE  Goal
  BY <1>11, <1>13 DEF TogglePause, DeleteMetadata, AddMetadata
<1>14. CASE NextEpoch
  BY <1>11, <1>14 DEF NextEpoch
<1>15. CASE HolderStep
  BY <1>4, <1>6, <1>7, <1>8, <1>15 DEF HolderStep
<1>16. CASE CommandStep
  BY <1>9, <1>10, <1>12, <1>13, <1>16 DEF CommandStep
<1> QED
  BY <1>14, <1>15, <1>16 DEF NftStep

\* A step that changes the numbers of one account and sends nothing
LEMMA EscrowOfOne ==
  ASSUME MultiInv, MultiInv', UNCHANGED batches, NEW a \in Accounts,
         NEW x \in 0..MaxSupply, NEW y \in 0..MaxSupply,
         \/ \A c \in Accounts :
              /\ user'[c].value = user[c].value + (IF c = a THEN x ELSE 0)
              /\ coin'[c].value = coin[c].value + (IF c = a THEN y ELSE 0)
         \/ \A c \in Accounts :
              /\ user'[c].value = user[c].value - (IF c = a THEN x ELSE 0)
              /\ coin'[c].value = coin[c].value - (IF c = a THEN y ELSE 0)
  PROVE  Escrow!Next
<1>1. Payments' = Payments
  BY PaymentsBag
<1>2. x \in Nat /\ y \in Nat /\ Pair(x, y) \in Escrow!Sums
  BY NftAssumption, PairFits
<1>3. \A c \in Accounts : user[c].value \in Nat /\ coin[c].value \in Nat
  BY HoldingType
<1>4. CASE \A c \in Accounts :
              /\ user'[c].value = user[c].value + (IF c = a THEN x ELSE 0)
              /\ coin'[c].value = coin[c].value + (IF c = a THEN y ELSE 0)
  <2>1. /\ Shifted(Quantities(user'), Quantities(user), {}, {a}, x)
        /\ Shifted(CoinQuantities(coin'), CoinQuantities(coin), {}, {a}, y)
    BY <1>2, <1>3, <1>4 DEF Shifted, Quantities, CoinQuantities
  <2>2. Holding' = Escrow!Receives(Holding, a, Pair(x, y))
    BY <1>2, <2>1, HoldingReceives
  <2>3. Escrow!Issue(a, Pair(x, y))
    BY <1>1, <2>2 DEF Escrow!Issue, Holding
  <2> QED
    BY <1>2, <2>3 DEF Escrow!Next
<1>5. CASE \A c \in Accounts :
              /\ user'[c].value = user[c].value - (IF c = a THEN x ELSE 0)
              /\ coin'[c].value = coin[c].value - (IF c = a THEN y ELSE 0)
  <2>1. /\ Shifted(Quantities(user'), Quantities(user), {a}, {}, x)
        /\ Shifted(CoinQuantities(coin'), CoinQuantities(coin), {a}, {}, y)
    BY <1>2, <1>3, <1>5 DEF Shifted, Quantities, CoinQuantities
  <2>2. Escrow!CanPay(a, Pair(x, y)) /\ Holding' = Escrow!Pays(Holding, a, Pair(x, y))
    BY <1>2, <2>1, HoldingPays
  <2>3. Escrow!Destroy(a, Pair(x, y))
    BY <1>1, <2>2 DEF Escrow!Destroy, Holding
  <2> QED
    BY <1>2, <2>3 DEF Escrow!Next
<1> QED
  BY <1>4, <1>5

\* A step that changes no number and sends nothing
LEMMA EscrowStutter ==
  ASSUME MultiInv, UNCHANGED batches,
         \A c \in Accounts : user'[c].value = user[c].value /\ coin'[c].value = coin[c].value
  PROVE  UNCHANGED Escrow!escrowVars
<1>1. Payments' = Payments
  BY PaymentsBag
<1>2. Holding' = Holding
  BY DEF Holding
<1> QED
  BY <1>1, <1>2 DEF Escrow!escrowVars, Holding

LEMMA InShardEscrow ==
  ASSUME MultiInv, NEW a \in Accounts, NEW b \in Accounts, NEW items \in Lists,
         MultiInShard(a, b, items)
  PROVE  Escrow!Next
<1> DEFINE x == Total(NftNumber, items)
           y == Total(CoinNumber, items)
           n == Pair(x, y)
<1>1. MultiInv' /\ Moves({a}, {b}, items)
  BY MultiInShardInv
<1>2. a # b /\ batches' = batches
  BY DEF MultiInShard
<1>3. x \in Nat /\ y \in Nat
  BY ListsAreItems, TotalType DEF NftNumber, CoinNumber, Item
<1>4. /\ Shifted(Quantities(user'), Quantities(user), {a}, {b}, x)
      /\ Shifted(CoinQuantities(coin'), CoinQuantities(coin), {a}, {b}, y)
  BY <1>1 DEF Moves
<1> HIDE DEF x, y
<1>5. x <= user[a].value /\ y <= coin[a].value
      /\ Escrow!CanPay(a, n)
      /\ Holding' = Escrow!Receives(Escrow!Pays(Holding, a, n), b, n)
  BY <1>1, <1>2, <1>3, <1>4, HoldingPaysTo
<1>6. x \in 0..MaxSupply /\ y \in 0..MaxSupply
  BY <1>3, <1>5, WithinSupply, NftAssumption
<1>7. n \in Escrow!Sums
  BY <1>6, PairFits
<1>8. Payments' = Payments
  BY <1>2, PaymentsBag
<1> HIDE DEF n
<1>9. Escrow!Pay(a, b, n)
  BY <1>5, <1>8 DEF Escrow!Pay, Holding
<1> QED
  BY <1>7, <1>9 DEF Escrow!Next

LEMMA AcrossEscrow ==
  ASSUME MultiInv, NEW a \in Accounts, NEW b \in Accounts, NEW items \in Lists,
         MultiAcross(a, b, items)
  PROVE  Escrow!Next
<1> DEFINE x == Total(NftNumber, items)
           y == Total(CoinNumber, items)
           n == Pair(x, y)
<1>1. MultiInv' /\ Moves({a}, {}, items) /\ Sends(a, b, items)
  BY MultiAcrossInv
<1>2. PICK m \in Batch : /\ batches' = Append(batches, m)
                         /\ m.from = a /\ m.to = b /\ ~m.retErr
                         /\ Total(NftNumber, m.items) = Total(NftNumber, items)
                         /\ Total(CoinNumber, m.items) = Total(CoinNumber, items)
  BY <1>1 DEF Sends
<1>3. x \in Nat /\ y \in Nat
  BY ListsAreItems, TotalType DEF NftNumber, CoinNumber, Item
<1>4. /\ Shifted(Quantities(user'), Quantities(user), {a}, {}, x)
      /\ Shifted(CoinQuantities(coin'), CoinQuantities(coin), {a}, {}, y)
  BY <1>1 DEF Moves
<1> HIDE DEF x, y
<1>5. /\ x <= user[a].value /\ y <= coin[a].value
      /\ Escrow!CanPay(a, n) /\ Holding' = Escrow!Pays(Holding, a, n)
  BY <1>1, <1>3, <1>4, HoldingPays
<1>6. x \in 0..MaxSupply /\ y \in 0..MaxSupply
  BY <1>3, <1>5, WithinSupply, NftAssumption
<1>7. n \in Escrow!Sums
  BY <1>6, PairFits
<1>8. Payment(m) = [payer |-> a, payee |-> b, amounts |-> n, refused |-> FALSE]
  <2>1. m.items \in Seq(Item) /\ m.retErr \in BOOLEAN
    BY BatchFields DEF Batch
  <2>2. /\ Payment(m).amounts = n /\ Payment(m).payer = a /\ Payment(m).payee = b
        /\ Payment(m).refused = FALSE
    BY <1>2, <2>1, PaymentAmounts DEF x, y
  <2>3. Payment(m) = [payer |-> Payment(m).payer, payee |-> Payment(m).payee,
                      amounts |-> Payment(m).amounts, refused |-> Payment(m).refused]
    BY DEF Payment
  <2> HIDE DEF n
  <2> QED
    BY <2>2, <2>3
<1>9. Payments' = Payments (+) SetToBag({Payment(m)})
  <2>1. batches \in Seq(Batch)
    BY DEF MultiInv
  <2>2. BagOf(PaymentList(Append(batches, m)))
          = BagOf(PaymentList(batches)) (+) SetToBag({Payment(m)})
    BY <2>1, PaymentsAppend
  <2> QED
    BY <1>2, <2>2, PaymentsBag
<1> HIDE DEF n
<1>10. Escrow!Deposit(a, b, n)
  <2> DEFINE p == [payer |-> a, payee |-> b, amounts |-> n, refused |-> FALSE]
  <2>1. Payments' = Payments (+) SetToBag({p})
    BY <1>8, <1>9
  <2> HIDE DEF p
  <2>2. Payments' = Escrow!(+)(Payments, Escrow!SetToBag({p}))
    BY <2>1 DEF (+), SetToBag, Escrow!(+), Escrow!SetToBag
  <2> QED
    BY <1>5, <2>2 DEF Escrow!Deposit, Holding, p
<1> QED
  BY <1>7, <1>10 DEF Escrow!Next

\* Every batch is a payment that waits in escrow.
LEMMA QueuedPayment ==
  ASSUME batches \in Seq(Batch), NEW i \in 1..Len(batches)
  PROVE  Payment(batches[i]) \in Escrow!BagToSet(Payments)
<1>1. Payments = BagOf(PaymentList(batches))
  BY PaymentsBag
<1>2. i \in DOMAIN PaymentList(batches) /\ PaymentList(batches)[i] = Payment(batches[i])
  BY DEF PaymentList
<1>3. Payment(batches[i]) \in Range(PaymentList(batches))
  BY <1>2 DEF Range
<1> QED
  BY <1>1, <1>3 DEF Escrow!BagToSet, BagOf

LEMMA DeliverEscrow ==
  ASSUME MultiInv, NEW i \in DOMAIN batches, MultiDeliver(i)
  PROVE  Escrow!Next
<1> DEFINE m == batches[i]
           x == Total(NftNumber, m.items)
           y == Total(CoinNumber, m.items)
           p == Payment(m)
<1>1. batches \in Seq(Batch) /\ m \in Batch /\ i \in 1..Len(batches)
  BY DEF MultiInv
<1>2. MultiInv' /\ Moves({}, {m.to}, m.items)
  BY MultiDeliverInv
<1>3. m.items \in Seq(Item) /\ m.to \in Accounts /\ m.retErr \in BOOLEAN
  BY <1>1, BatchFields DEF Batch
<1>4. x \in Nat /\ y \in Nat
  BY <1>3, TotalType DEF NftNumber, CoinNumber, Item
<1>5. /\ p.amounts = Pair(x, y)
      /\ (IF p.refused THEN p.payer ELSE p.payee) = m.to
  BY <1>3, PaymentAmounts
<1>6. /\ Shifted(Quantities(user'), Quantities(user), {}, {m.to}, x)
      /\ Shifted(CoinQuantities(coin'), CoinQuantities(coin), {}, {m.to}, y)
  BY <1>2 DEF Moves
<1>7. p \in Escrow!BagToSet(Payments)
  BY <1>1, QueuedPayment
<1>8. batches' = RemoveAt(batches, i)
  BY DEF MultiDeliver
<1> HIDE DEF m, x, y, p
<1>9. Holding' = Escrow!Receives(Holding, m.to, Pair(x, y))
  BY <1>2, <1>3, <1>4, <1>6, HoldingReceives
<1>10. Payments' = Payments (-) SetToBag({p})
  BY <1>1, <1>8, PaymentsRemoveAt, PaymentsBag DEF p, m
<1>11. Payments' = Escrow!(-)(Payments, Escrow!SetToBag({p}))
  BY <1>10 DEF (-), SetToBag, Escrow!(-), Escrow!SetToBag
<1>12. PICK q \in Escrow!BagToSet(Payments) : q = p
  BY <1>7
<1>13. Escrow!Settle(q)
  BY <1>5, <1>9, <1>11, <1>12 DEF Escrow!Settle, Holding
<1> QED
  BY <1>12, <1>13 DEF Escrow!Next

LEMMA RefuseEscrow ==
  ASSUME MultiInv, NEW i \in DOMAIN batches, MultiRefuse(i)
  PROVE  Escrow!Next
<1> DEFINE m == batches[i]
           k == [m EXCEPT !.from = m.to, !.to = m.from, !.retErr = TRUE]
           r == RemoveAt(batches, i)
           p == Payment(m)
           t == Payment(k)
<1>1. batches \in Seq(Batch) /\ m \in Batch /\ i \in 1..Len(batches)
  BY DEF MultiInv
<1>2. /\ ~m.retErr /\ batches' = Append(r, k) /\ user' = user /\ coin' = coin
  BY DEF MultiRefuse, coinVars
<1>3. k \in Batch /\ k.items = m.items /\ k.retErr /\ k.from = m.to /\ k.to = m.from
  BY <1>1 DEF Batch
<1>4. r \in Seq(Batch)
  BY <1>1, InBatchesRemoveAt, BatchNumbers
<1>5. p \in Escrow!BagToSet(Payments)
  BY <1>1, QueuedPayment
<1>6. ~p.refused /\ t = [p EXCEPT !.refused = TRUE]
  <2>1. /\ ~p.refused /\ t.refused
        /\ t.payer = p.payer /\ t.payee = p.payee /\ t.amounts = p.amounts
    <3>1. m.items \in Seq(Item) /\ k.items \in Seq(Item) /\ m.retErr \in BOOLEAN
      BY <1>1, <1>3, BatchFields DEF Batch
    <3> HIDE DEF k, m
    <3> QED
      BY <1>2, <1>3, <3>1, PaymentAmounts
  <2>2. /\ p = [payer |-> p.payer, payee |-> p.payee, amounts |-> p.amounts,
                 refused |-> p.refused]
        /\ t = [payer |-> t.payer, payee |-> t.payee, amounts |-> t.amounts,
                 refused |-> t.refused]
    BY DEF Payment
  <2>3. t.refused = TRUE
    <3>1. Payment(k).refused = k.retErr
      BY DEF Payment
    <3>2. k.retErr = TRUE
      BY <1>1 DEF Batch
    <3> QED
      BY <3>1, <3>2
  <2> HIDE DEF p, t
  <2> QED
    BY <2>1, <2>2, <2>3
<1> HIDE DEF k
<1>7. BagOf(PaymentList(r)) = Payments (-) SetToBag({p})
  BY <1>1, PaymentsRemoveAt, PaymentsBag
<1>8. BagOf(PaymentList(Append(r, k))) = BagOf(PaymentList(r)) (+) SetToBag({t})
  BY <1>3, <1>4, PaymentsAppend
<1> HIDE DEF m, r, p, t
<1>9. Payments' = (Payments (-) SetToBag({p})) (+) SetToBag({t})
  BY <1>2, <1>7, <1>8, PaymentsBag
<1>10. Payments' = Escrow!(+)(Escrow!(-)(Payments, Escrow!SetToBag({p})), Escrow!SetToBag({t}))
  BY <1>9 DEF (+), (-), SetToBag, Escrow!(+), Escrow!(-), Escrow!SetToBag
<1>11. Holding' = Holding
  BY <1>2 DEF Holding
<1>12. Escrow!Refuse(p)
  BY <1>6, <1>10, <1>11 DEF Escrow!Refuse, Holding
<1> QED
  BY <1>5, <1>12 DEF Escrow!Next

LEMMA IssueCoinEscrow ==
  ASSUME MultiInv, NEW a \in Accounts, NEW v \in Amounts, IssueCoin(a, v)
  PROVE  Escrow!Next
<1>1. MultiInv'
  BY IssueCoinInv
<1>2. /\ UNCHANGED <<user, batches>> /\ coin' = [coin EXCEPT ![a].value = @ + v]
  BY DEF IssueCoin, vars
<1>3. coin \in [Accounts -> Coins] /\ v \in Nat
  BY NftAssumption DEF MultiInv
<1>4. /\ \A c \in Accounts : user[c].value \in Nat /\ coin[c].value \in Nat
      /\ MaxSupply \in Nat
  BY HoldingType, NftAssumption
<1>5. \A c \in Accounts :
        /\ user'[c].value = user[c].value + (IF c = a THEN 0 ELSE 0)
        /\ coin'[c].value = coin[c].value + (IF c = a THEN v ELSE 0)
  BY <1>2, <1>3, <1>4 DEF Coins
<1>6. v \in 0..MaxSupply
  <2>1. SumFunction(CoinQuantities(coin)) \in Nat
    BY MultiSums
  <2>2. SumFunction(CoinQuantities(coin)) + v <= MaxCoins
    BY DEF IssueCoin, CoinQuantities
  <2>3. MaxCoins \in Nat /\ MaxCoins <= MaxSupply
    BY <1>4, MultiAssumption
  <2> QED
    BY <1>3, <1>4, <2>1, <2>2, <2>3
<1>7. 0 \in 0..MaxSupply
  BY <1>4
<1> QED
  BY <1>1, <1>2, <1>5, <1>6, <1>7, EscrowOfOne

LEMMA NftStepEscrow ==
  ASSUME MultiInv, NftStep
  PROVE  [Escrow!Next]_Escrow!escrowVars
<1>1. MultiInv' /\ UNCHANGED <<coin, batches>>
  BY NftStepInv
<1>2. /\ \A c \in Accounts : user[c].value \in Nat /\ coin[c].value \in Nat
      /\ 0 \in 0..MaxSupply
  BY HoldingType, NftAssumption
<1>3. CASE \A c \in Accounts : user'[c].value = user[c].value
  BY <1>1, <1>3, EscrowStutter
<1>4. ASSUME NEW a \in Accounts, NEW x \in 0..MaxSupply,
             \/ \A c \in Accounts :
                  user'[c].value = user[c].value + (IF c = a THEN x ELSE 0)
             \/ \A c \in Accounts :
                  user'[c].value = user[c].value - (IF c = a THEN x ELSE 0)
      PROVE  Escrow!Next
  <2>1. \/ \A c \in Accounts :
             /\ user'[c].value = user[c].value + (IF c = a THEN x ELSE 0)
             /\ coin'[c].value = coin[c].value + (IF c = a THEN 0 ELSE 0)
        \/ \A c \in Accounts :
             /\ user'[c].value = user[c].value - (IF c = a THEN x ELSE 0)
             /\ coin'[c].value = coin[c].value - (IF c = a THEN 0 ELSE 0)
    BY <1>1, <1>2, <1>4
  <2> QED
    BY <1>1, <1>2, <2>1, EscrowOfOne
<1> QED
  BY <1>3, <1>4, NftStepNumbers

LEMMA EscrowInit == MultiInit => Escrow!Init
<1> SUFFICES ASSUME MultiInit PROVE Escrow!Init
  OBVIOUS
<1>1. /\ user = [a \in Accounts |-> NoRecord] /\ coin = [a \in Accounts |-> NoCoins]
      /\ batches = <<>>
  BY DEF MultiInit, Init
<1>2. Holding = [a \in Accounts |-> [k \in BOOLEAN |-> 0]]
  BY <1>1 DEF Holding, NoRecord, NoCoins
<1>3. Payments = Escrow!EmptyBag
  <2>1. Range(PaymentList(batches)) = {}
    BY <1>1 DEF PaymentList, Range
  <2>2. BagOf(PaymentList(batches)) = Escrow!EmptyBag
    BY <2>1 DEF BagOf, Escrow!EmptyBag, Escrow!SetToBag
  <2> QED
    BY <2>2, PaymentsBag
<1> QED
  BY <1>2, <1>3 DEF Escrow!Init, Holding

LEMMA EscrowStep == MultiInv /\ [MultiNext]_multiVars => [Escrow!Next]_Escrow!escrowVars
<1> SUFFICES ASSUME MultiInv, [MultiNext]_multiVars PROVE [Escrow!Next]_Escrow!escrowVars
  OBVIOUS
<1>1. CASE MultiStep
  BY <1>1, InShardEscrow, AcrossEscrow, DeliverEscrow, RefuseEscrow DEF MultiStep
<1>2. CASE CoinStep
  <2>1. CASE \E a \in Accounts, v \in Amounts : IssueCoin(a, v)
    BY <2>1, IssueCoinEscrow
  <2>2. CASE \/ \E a \in Accounts, f \in BOOLEAN : ToggleFreezeCoin(a, f)
             \/ \E s \in Shards, p \in BOOLEAN : TogglePauseCoin(s, p)
    <3>1. UNCHANGED user
      BY <2>2 DEF ToggleFreezeCoin, TogglePauseCoin, vars
    <3>2. UNCHANGED batches /\ \A c \in Accounts : coin'[c].value = coin[c].value
      BY <2>2, CoinCommandInv
    <3> QED
      BY <3>1, <3>2, EscrowStutter
  <2> QED
    BY <1>2, <2>1, <2>2 DEF CoinStep
<1>3. CASE NftStep
  BY <1>3, NftStepEscrow
<1>4. CASE UNCHANGED multiVars
  <2>1. UNCHANGED <<user, coin, batches>>
    BY <1>4 DEF multiVars, vars
  <2> QED
    BY <2>1, EscrowStutter
<1> QED
  BY <1>1, <1>2, <1>3, <1>4 DEF MultiNext

(* MultiImplementsEscrow: whatever a call lists, all its tokens leave the  *)
(* sender in one step, wait in one batch, and come in one step to the      *)
(* destination, or back to the sender when the call is refused there       *)
(* (processDCDTNFTMultiTransferOnSenderShard, and ProcessBuiltinFunction   *)
(* of dcdtNFTMultiTransfer on the destination's shard).                    *)
THEOREM MultiImplementsEscrow == MultiSpec => ImplementsEscrow
BY MultiInitInv, MultiStepInv, EscrowInit, EscrowStep, PTL
   DEF MultiSpec, ImplementsEscrow, Escrow!Spec

-----------------------------------------------------------------------------
(* The metadata of the nonce, in batches.  As long as it is sent once, the *)
(* tokens of a batch are looked at in their order, and one that is left    *)
(* without metadata may rely on a token before it in the same batch.       *)

Brought(q) == \E k \in 1..Len(q) : q[k].meta # NoMeta
HasNft(q) == \E k \in 1..Len(q) : q[k].nft
OnlyNftsBring(q) == \A k \in 1..Len(q) : q[k].meta # NoMeta => q[k].nft

Carries(m, s, d) == ShardOf[m.from] = s /\ ShardOf[m.to] = d /\ Brought(m.items)

(* Until metadata is in every transfer: as Marks, for batches.  One that   *)
(* has only coins needs no metadata, and brings none.                      *)
BatchMarks(y, n) ==
  /\ \A s, d \in Shards : d \in y[s].sentTo =>
       y[d].meta # NoMeta \/ \E j \in 1..Len(n) : Carries(n[j], s, d)
  /\ \A i \in 1..Len(n) :
       LET s == ShardOf[n[i].from]
           d == ShardOf[n[i].to] IN
       HasNft(n[i].items) =>
         /\ y[s].meta # NoMeta
         /\ ~Brought(n[i].items) =>
              y[d].meta # NoMeta \/ \E j \in 1..(i - 1) : Carries(n[j], s, d)
  /\ \A i \in 1..Len(n) : OnlyNftsBring(n[i].items)

MultiMetadataInv == EntriesInv /\ (~SendAlways => BatchMarks(sys, batches))

LEMMA BroughtByNft ==
  ASSUME NEW q, OnlyNftsBring(q), Brought(q)
  PROVE  HasNft(q)
BY DEF OnlyNftsBring, Brought, HasNft

LEMMA BatchMarksKept ==
  ASSUME NEW y, NEW z, NEW n \in Seq(Batch), BatchMarks(y, n),
         \A s \in Shards : y[s].meta # NoMeta => z[s].meta # NoMeta,
         \A s, d \in Shards : d \in z[s].sentTo =>
           \/ d \in y[s].sentTo
           \/ z[d].meta # NoMeta
           \/ \E j \in 1..Len(n) : Carries(n[j], s, d)
  PROVE  BatchMarks(z, n)
<1>1. \A i \in 1..Len(n) : ShardOf[n[i].from] \in Shards /\ ShardOf[n[i].to] \in Shards
  <2>1. \A i \in 1..Len(n) : n[i] \in Batch
    OBVIOUS
  <2> QED
    BY <2>1, NftAssumption DEF Batch
<1> QED
  BY <1>1 DEF BatchMarks

LEMMA BatchMarksStay ==
  ASSUME NEW y, NEW z, NEW n \in Seq(Batch), BatchMarks(y, n), KeepsMarks(y, z)
  PROVE  BatchMarks(z, n)
<1>1. /\ \A s \in Shards : y[s].meta # NoMeta => z[s].meta # NoMeta
      /\ \A s, d \in Shards : d \in z[s].sentTo => d \in y[s].sentTo \/ z[d].meta # NoMeta
  BY DEF KeepsMarks
<1> QED
  BY <1>1, BatchMarksKept

LEMMA BatchMarksAppended ==
  ASSUME NEW y, NEW n \in Seq(Batch), BatchMarks(y, n), NEW m \in Batch,
         OnlyNftsBring(m.items),
         HasNft(m.items) => y[ShardOf[m.from]].meta # NoMeta,
         HasNft(m.items) /\ ~Brought(m.items) =>
           \/ y[ShardOf[m.to]].meta # NoMeta
           \/ \E j \in 1..Len(n) : Carries(n[j], ShardOf[m.from], ShardOf[m.to])
  PROVE  BatchMarks(y, Append(n, m))
<1> DEFINE p == Append(n, m)
<1>1. /\ Len(n) \in Nat /\ Len(p) = Len(n) + 1 /\ p[Len(n) + 1] = m
      /\ \A j \in 1..Len(n) : p[j] = n[j]
  OBVIOUS
<1> HIDE DEF p
<1>2. ASSUME NEW s \in Shards, NEW d \in Shards, d \in y[s].sentTo
      PROVE  y[d].meta # NoMeta \/ \E j \in 1..Len(p) : Carries(p[j], s, d)
  BY <1>1, <1>2 DEF BatchMarks
<1>3. ASSUME NEW i \in 1..Len(p), HasNft(p[i].items)
      PROVE  LET s == ShardOf[p[i].from]
                 d == ShardOf[p[i].to] IN
             /\ y[s].meta # NoMeta
             /\ ~Brought(p[i].items) =>
                  y[d].meta # NoMeta \/ \E j \in 1..(i - 1) : Carries(p[j], s, d)
  <2>1. CASE i \in 1..Len(n)
    <3>1. p[i] = n[i] /\ \A j \in 1..(i - 1) : p[j] = n[j]
      BY <1>1, <2>1
    <3> QED
      BY <1>3, <2>1, <3>1 DEF BatchMarks
  <2>2. CASE i = Len(n) + 1
    <3>1. p[i] = m /\ i - 1 = Len(n)
      BY <1>1, <2>2
    <3> QED
      BY <1>1, <1>3, <3>1
  <2> QED
    BY <1>1, <2>1, <2>2
<1>4. \A i \in 1..Len(p) : OnlyNftsBring(p[i].items)
  <2> TAKE i \in 1..Len(p)
  <2>1. i \in 1..Len(n) \/ i = Len(n) + 1
    BY <1>1
  <2> QED
    BY <1>1, <2>1 DEF BatchMarks
<1> QED
  BY <1>2, <1>3, <1>4 DEF BatchMarks, p

LEMMA BatchMarksRemoved ==
  ASSUME NEW y, NEW n \in Seq(Batch), BatchMarks(y, n), NEW i \in 1..Len(n),
         Brought(n[i].items) => y[ShardOf[n[i].to]].meta # NoMeta
  PROVE  BatchMarks(y, RemoveAt(n, i))
<1> DEFINE p == RemoveAt(n, i)
<1>1. /\ Len(n) \in Nat /\ Len(p) = Len(n) - 1
      /\ \A j \in 1..(Len(n) - 1) : p[j] = IF j < i THEN n[j] ELSE n[j + 1]
  BY RemoveAtProperties
<1> HIDE DEF p
<1>2. ASSUME NEW s, NEW d, NEW j \in 1..Len(n), Carries(n[j], s, d), j # i
      PROVE  \E k \in 1..Len(p) : Carries(p[k], s, d) /\ k <= j /\ (j > i => k < j)
  <2>1. CASE j < i
    <3>1. j \in 1..Len(p) /\ p[j] = n[j]
      BY <1>1, <2>1
    <3> QED
      BY <1>2, <2>1, <3>1
  <2>2. CASE j > i
    <3>1. j - 1 \in 1..Len(p) /\ p[j - 1] = n[j]
      BY <1>1, <2>2
    <3> QED
      BY <1>2, <2>2, <3>1
  <2> QED
    BY <1>1, <1>2, <2>1, <2>2
<1>3. ASSUME NEW s \in Shards, NEW d \in Shards, d \in y[s].sentTo, y[d].meta = NoMeta
      PROVE  \E k \in 1..Len(p) : Carries(p[k], s, d)
  <2>1. PICK j \in 1..Len(n) : Carries(n[j], s, d)
    BY <1>3 DEF BatchMarks
  <2>2. j # i
    BY <1>3, <2>1 DEF Carries
  <2> QED
    BY <1>2, <2>1, <2>2
<1>4. ASSUME NEW k \in 1..Len(p), HasNft(p[k].items)
      PROVE  LET s == ShardOf[p[k].from]
                 d == ShardOf[p[k].to] IN
             /\ y[s].meta # NoMeta
             /\ ~Brought(p[k].items) =>
                  y[d].meta # NoMeta \/ \E j \in 1..(k - 1) : Carries(p[j], s, d)
  <2> DEFINE o == IF k < i THEN k ELSE k + 1
             s == ShardOf[p[k].from]
             d == ShardOf[p[k].to]
  <2>1. o \in 1..Len(n) /\ p[k] = n[o] /\ o # i
    BY <1>1
  <2>2. /\ y[s].meta # NoMeta
        /\ ~Brought(p[k].items) =>
             y[d].meta # NoMeta \/ \E j \in 1..(o - 1) : Carries(n[j], s, d)
    BY <1>4, <2>1 DEF BatchMarks
  <2>3. ASSUME NEW j \in 1..(o - 1), Carries(n[j], s, d), y[d].meta = NoMeta
        PROVE  \E l \in 1..(k - 1) : Carries(p[l], s, d)
    <3>1. j \in 1..Len(n) /\ j # i
      BY <1>1, <2>1, <2>3 DEF Carries
    <3>2. PICK l \in 1..Len(p) : Carries(p[l], s, d) /\ l <= j /\ (j > i => l < j)
      BY <1>2, <2>3, <3>1
    <3>3. l < k
      BY <1>1, <2>1, <3>1, <3>2
    <3>4. l \in 1..(k - 1)
      BY <1>1, <3>3
    <3> QED
      BY <3>2, <3>4
  <2> HIDE DEF s, d
  <2>4. ~Brought(p[k].items) =>
          y[d].meta # NoMeta \/ \E j \in 1..(k - 1) : Carries(p[j], s, d)
    BY <2>2, <2>3
  <2> QED
    BY <2>2, <2>4 DEF s, d
<1>5. \A k \in 1..Len(p) : OnlyNftsBring(p[k].items)
  <2> TAKE k \in 1..Len(p)
  <2>1. PICK o \in 1..Len(n) : p[k] = n[o]
    BY <1>1
  <2> QED
    BY <2>1 DEF BatchMarks
<1> QED
  BY <1>3, <1>4, <1>5 DEF BatchMarks, p

(* A batch that may be executed finds the metadata that it does not bring. *)
LEMMA BatchFinds ==
  ASSUME MultiInv, BatchMarks(sys, batches), InOrder,
         NEW i \in 1..Len(batches), BatchExecutable(i), HasNft(batches[i].items)
  PROVE  /\ sys[ShardOf[batches[i].from]].meta # NoMeta
         /\ ~Brought(batches[i].items) => sys[ShardOf[batches[i].to]].meta # NoMeta
<1>1. i \in Int /\ Len(batches) \in Nat
  BY DEF MultiInv
<1>2. /\ sys[ShardOf[batches[i].from]].meta # NoMeta
      /\ ~Brought(batches[i].items) =>
           \/ sys[ShardOf[batches[i].to]].meta # NoMeta
           \/ \E j \in 1..(i - 1) : Carries(batches[j], ShardOf[batches[i].from], ShardOf[batches[i].to])
  BY DEF BatchMarks
<1> QED
  BY <1>2 DEF BatchExecutable, Carries

(* A step that puts no batch on its way *)
LEMMA BatchesKeep ==
  ASSUME MultiInv, MultiMetadataInv, EntriesStep, batches' = batches
  PROVE  MultiMetadataInv'
<1>1. EntryInv' /\ (~SendAlways' => ~SendAlways /\ OnceEntries' /\ KeepsMarks(sys, sys'))
  BY DEF EntriesStep
<1>2. ASSUME ~SendAlways' PROVE BatchMarks(sys', batches')
  <2> DEFINE z == sys'
  <2>1. batches \in Seq(Batch) /\ BatchMarks(sys, batches) /\ KeepsMarks(sys, z)
    BY <1>1, <1>2 DEF MultiInv, MultiMetadataInv
  <2> HIDE DEF z
  <2>2. BatchMarks(z, batches)
    BY <2>1, BatchMarksStay
  <2> QED
    BY <2>2 DEF z
<1> QED
  BY <1>1, <1>2 DEF MultiMetadataInv, EntriesInv

-----------------------------------------------------------------------------
(* What the accounts of a shard hold while a list is worked on, and what   *)
(* one token does to the entry.                                            *)

NoMetas(u) == \A c \in Accounts : u[c].meta = NoMeta

LEMMA ShiftTakesHeld ==
  ASSUME NEW w, NarrowWork(w), NEW r, NarrowWork(r), NEW a \in Accounts,
         NEW x \in Nat, NEW y, Shift(r, w, {a}, {}, x, y)
  PROVE  /\ Held(r.user, ShardOf[a]) = Held(w.user, ShardOf[a]) + (-x)
         /\ \A s \in Shards \ {ShardOf[a]} : Held(r.user, s) = Held(w.user, s)
<1>1. /\ w.user \in [Accounts -> Record] /\ r.user \in [Accounts -> Record]
      /\ \A c \in Accounts : w.user[c].value \in Nat /\ r.user[c].value \in Nat
  BY NarrowFields
<1>2. /\ -x \in Int /\ r.user[a].value = w.user[a].value + (-x)
      /\ \A c \in Accounts \ {a} : r.user[c].value = w.user[c].value
  BY <1>1 DEF Shift
<1>3. PICK n \in Int : n = -x
  BY <1>2
<1>4. r.user[a].value = w.user[a].value + n
  BY <1>2, <1>3
<1>5. /\ Held(r.user, ShardOf[a]) = Held(w.user, ShardOf[a]) + n
      /\ \A s \in Shards \ {ShardOf[a]} : Held(r.user, s) = Held(w.user, s)
  BY <1>1, <1>2, <1>4, HeldMoved
<1> QED
  BY <1>3, <1>5

LEMMA ShiftBringsHeld ==
  ASSUME NEW w, NarrowWork(w), NEW r, NarrowWork(r), NEW a \in Accounts,
         NEW x \in Nat, NEW y, Shift(r, w, {}, {a}, x, y)
  PROVE  /\ Held(r.user, ShardOf[a]) = Held(w.user, ShardOf[a]) + x
         /\ \A s \in Shards \ {ShardOf[a]} : Held(r.user, s) = Held(w.user, s)
<1>1. /\ w.user \in [Accounts -> Record] /\ r.user \in [Accounts -> Record]
      /\ \A c \in Accounts : w.user[c].value \in Nat /\ r.user[c].value \in Nat
  BY NarrowFields
<1>2. /\ x \in Int /\ r.user[a].value = w.user[a].value + x
      /\ \A c \in Accounts \ {a} : r.user[c].value = w.user[c].value
  BY <1>1 DEF Shift
<1> QED
  BY <1>1, <1>2, HeldMoved

LEMMA ShiftMovesHeld ==
  ASSUME NEW w, NarrowWork(w), NEW r, NarrowWork(r), NEW a \in Accounts, NEW b \in Accounts,
         a # b, ShardOf[b] = ShardOf[a],
         NEW x \in Nat, NEW y, Shift(r, w, {a}, {b}, x, y)
  PROVE  \A s \in Shards : Held(r.user, s) = Held(w.user, s)
<1> DEFINE u == w.user
           g == r.user
           k == [u EXCEPT ![a].value = g[a].value]
           t == ShardOf[a]
<1>1. /\ u \in [Accounts -> Record] /\ g \in [Accounts -> Record]
      /\ \A c \in Accounts : u[c].value \in Nat /\ g[c].value \in Nat
  BY NarrowFields
<1>2. /\ -x \in Int /\ x \in Int /\ g[a].value = u[a].value + (-x)
      /\ g[b].value = u[b].value + x
      /\ \A c \in Accounts \ {a, b} : g[c].value = u[c].value
  BY <1>1 DEF Shift
<1> HIDE DEF u, g
<1>3. /\ k \in [Accounts -> Record] /\ k[a].value = g[a].value
      /\ \A c \in Accounts \ {a} : k[c].value = u[c].value
  BY <1>1 DEF Record
<1> HIDE DEF k
<1>4. /\ Held(k, t) = Held(u, t) + (-x)
      /\ \A s \in Shards \ {t} : Held(k, s) = Held(u, s)
  <2>1. PICK n \in Int : n = -x
    BY <1>2
  <2>2. k[a].value = u[a].value + n
    BY <1>2, <1>3, <2>1
  <2>3. /\ Held(k, t) = Held(u, t) + n
        /\ \A s \in Shards \ {t} : Held(k, s) = Held(u, s)
    BY <1>1, <1>3, <2>2, HeldMoved
  <2> QED
    BY <2>1, <2>3
<1>5. /\ g[b].value = k[b].value + x
      /\ \A c \in Accounts \ {b} : g[c].value = k[c].value
  BY <1>2, <1>3
<1>6. /\ Held(g, t) = Held(k, t) + x
      /\ \A s \in Shards \ {t} : Held(g, s) = Held(k, s)
  BY <1>1, <1>2, <1>3, <1>5, HeldMoved
<1>7. Held(u, t) \in Nat
  BY <1>1, HeldType
<1> HIDE DEF t
<1>8. Held(g, t) = Held(u, t)
  BY <1>2, <1>4, <1>6, <1>7
<1> QED
  BY <1>4, <1>6, <1>8 DEF u, g

(* Saving the metadata of the entry again changes nothing.                 *)
LEMMA SavedAgain ==
  ASSUME SaveToSystem, NEW e \in Entry, e.meta # NoMeta, NEW u, NEW t, NEW s
  PROVE  SavedEntry(e, u, e.meta, t, s) = e /\ MetaOf(u, e) = e.meta
<1>1. e # NoEntry /\ Refreshed(e, e.meta) = e
  <2>1. [e EXCEPT !.meta = e.meta] = e
    BY DEF Entry
  <2> QED
    BY <2>1 DEF Refreshed, NoEntry
<1> QED
  BY <1>1 DEF SavedEntry, WithMeta, MetaOf

LEMMA TakeNftEntry ==
  ASSUME NEW w, NarrowWork(w), NEW a \in Accounts, NEW v \in Nat,
         NEW r, r = TakeNft(w, a, v), r.ok,
         SaveToSystem, NoMetas(w.user), w.entry.meta # NoMeta
  PROVE  /\ r.entry = w.entry /\ NoMetas(r.user)
         /\ MetaOf(w.user[a], w.entry) = w.entry.meta
<1> DEFINE s == ShardOf[a]
           m == MetaOf(w.user[a], w.entry)
           left == Stored(w.user[a].value - v, w.user[a].frozen, m)
<1>1. /\ w \in WideWork /\ w.entry \in Entry /\ w.user[a].value \in Nat
      /\ w.user[a].frozen \in BOOLEAN /\ v \in Int
  BY NarrowFields
<1>2. /\ s \in Shards /\ m \in Metas /\ w.user[a].value >= v
      /\ r.user[a] = left
      /\ \A b \in Accounts \ {a} : r.user[b] = w.user[b]
      /\ r.entry = SavedEntry(w.entry, w.user[a], m, s, s)
  BY <1>1, TakeNftLeaves
<1>3. SavedEntry(w.entry, w.user[a], w.entry.meta, s, s) = w.entry /\ m = w.entry.meta
  BY <1>1, SavedAgain
<1>4. left.meta = NoMeta
  <2>1. w.user[a].value - v \in Nat
    BY <1>1, <1>2
  <2> HIDE DEF m
  <2> QED
    BY <1>1, <1>2, <2>1, StoredProperties
<1> HIDE DEF left, m, s
<1>5. NoMetas(r.user)
  BY <1>2, <1>4 DEF NoMetas
<1> QED
  BY <1>2, <1>3, <1>5 DEF m

LEMMA GiveNftEntry ==
  ASSUME NEW w, NarrowWork(w), NEW b \in Accounts, NEW v \in Nat, NEW m \in Metas,
         NEW t \in Shards, NEW retErr \in BOOLEAN,
         NEW r, r = GiveNft(w, b, v, m, t, retErr),
         SaveToSystem, NoMetas(w.user)
  PROVE  r.entry = SavedEntry(w.entry, w.user[b], m, t, ShardOf[b]) /\ NoMetas(r.user)
<1> DEFINE left == StoredUnfrozen(w.user[b].value + v, m)
<1>1. w \in WideWork /\ w.user[b].value + v \in Nat /\ v \in Int
  <2>1. w \in WideWork /\ w.user[b].value \in Nat
    BY NarrowFields
  <2> QED
    BY <2>1
<1>2. /\ r.user[b] = left
      /\ \A a \in Accounts \ {b} : r.user[a] = w.user[a]
      /\ r.entry = SavedEntry(w.entry, w.user[b], m, t, ShardOf[b])
  BY <1>1, GiveNftLeaves
<1>3. left.meta = NoMeta
  BY <1>1, StoredUnfrozenProperties
<1> HIDE DEF left
<1> QED
  BY <1>2, <1>3 DEF NoMetas

\* A list that goes well goes well up to each of its tokens.
LEMMA PathStays ==
  ASSUME NEW n \in Nat, NEW path, NEW K, path[0] \in K,
         \A i \in 1..n : path[i].ok =>
           path[i - 1].ok /\ (path[i - 1] \in K => path[i] \in K),
         path[n].ok
  PROVE  path[n] \in K
<1> DEFINE G == {i \in 0..n : path[i].ok => path[i] \in K}
<1>1. 0 \in G
  OBVIOUS
<1>2. ASSUME NEW i \in 1..n, i - 1 \in G PROVE i \in G
  BY <1>2
<1> HIDE DEF G
<1>3. \A i \in 0..n : i \in G
  BY <1>1, <1>2, IndexInduction
<1> QED
  BY <1>3 DEF G

-----------------------------------------------------------------------------
(* Within a shard a list changes neither the entry nor what the shard      *)
(* holds.                                                                  *)

LEMMA MoveItemEntry ==
  ASSUME NEW w, NarrowWork(w), NEW a \in Accounts, NEW b \in Accounts,
         a # b, ShardOf[b] = ShardOf[a], NEW it \in Item, it.value > 0,
         NEW r, r = MoveItem(w, a, b, it), r.ok,
         SaveToSystem, NoMetas(w.user), Fits(w.entry, Held(w.user, ShardOf[a]))
  PROVE  /\ r.entry = w.entry /\ NoMetas(r.user)
         /\ \A x \in Shards : Held(r.user, x) = Held(w.user, x)
<1> DEFINE v == it.value
           m == MetaOf(w.user[a], w.entry)
           s == ShardOf[a]
<1>1. /\ v \in Nat /\ v \in Int /\ s \in Shards /\ w \in WideWork /\ w.entry \in Entry
      /\ w.user \in [Accounts -> Record]
  BY ItemFields, NftAssumption, NarrowFields
<1>2. \A x \in Shards : Held(r.user, x) = Held(w.user, x)
  <2>1. /\ NarrowWork(r) /\ Shift(r, w, {a}, {b}, NftNumber[it], CoinNumber[it])
    BY MoveItemShift
  <2>2. PICK n \in Nat : n = NftNumber[it]
    BY ItemFields
  <2>3. PICK c : c = CoinNumber[it]
    OBVIOUS
  <2>4. Shift(r, w, {a}, {b}, n, c)
    BY <2>1, <2>2, <2>3
  <2> QED
    BY <2>1, <2>4, ShiftMovesHeld
<1>3. CASE it.nft
  <2> DEFINE k == TakeNft(w, a, v)
  <2>1. /\ k \in WideWork /\ m \in Metas
        /\ k.ok => w.user[a].value >= v
    BY <1>1, TakeNftLeaves
  <2>2. r = GiveNft(k, b, v, m, s, FALSE)
    BY <1>3, Zenon DEF MoveItem
  <2> HIDE DEF k, m, s, v
  <2>3. k.ok
    <3>1. \A retErr \in BOOLEAN : r = GiveNft(k, b, v, m, s, retErr) => k.ok
      BY <1>1, <2>1, GiveNftLeaves
    <3>2. FALSE \in BOOLEAN
      OBVIOUS
    <3> QED
      BY <2>2, <3>1, <3>2, Zenon
  <2>4. NarrowWork(k)
    BY <1>1, <2>3, TakeNftShift DEF k
  <2>5. w.entry.meta # NoMeta
    <3>1. /\ Held(w.user, s) \in Nat
          /\ \A c \in ShardAccounts(s) : w.user[c].value <= Held(w.user, s)
      BY <1>1, HeldType
    <3>2. a \in ShardAccounts(s) /\ w.user[a].value \in Nat
      BY NarrowFields DEF ShardAccounts, s
    <3>3. Held(w.user, s) > 0
      BY <1>1, <2>1, <2>3, <3>1, <3>2 DEF v
    <3> QED
      BY <3>3 DEF Fits, CountsFor, s
  <2>6. k.entry = w.entry /\ NoMetas(k.user) /\ m = w.entry.meta
    BY <1>1, <2>3, <2>5, TakeNftEntry DEF k, m
  <2>7. r.entry = SavedEntry(k.entry, k.user[b], m, s, ShardOf[b]) /\ NoMetas(r.user)
    <3>1. \A retErr \in BOOLEAN : r = GiveNft(k, b, v, m, s, retErr) =>
            r.entry = SavedEntry(k.entry, k.user[b], m, s, ShardOf[b]) /\ NoMetas(r.user)
      BY <1>1, <2>1, <2>4, <2>6, GiveNftEntry
    <3>2. FALSE \in BOOLEAN
      OBVIOUS
    <3> QED
      BY <2>2, <3>1, <3>2, Zenon
  <2>8. \A u, x : SavedEntry(w.entry, u, w.entry.meta, s, x) = w.entry
    BY <1>1, <2>5, SavedAgain
  <2> QED
    BY <1>2, <2>6, <2>7, <2>8
<1>4. CASE ~it.nft
  <2> DEFINE k == TakeCoin(w, a, v)
  <2>1. k \in WideWork /\ k.user = w.user /\ k.entry = w.entry
    BY <1>1, TakeCoinLeaves
  <2>2. r = GiveCoin(k, b, v)
    BY <1>4, Zenon DEF MoveItem
  <2> HIDE DEF k, v
  <2>3. r.user = k.user /\ r.entry = k.entry
    <3>1. v \in Int /\ k \in WideWork
      BY <1>1, <2>1
    <3> QED
      BY <2>2, <3>1, GiveCoinLeaves
  <2> QED
    BY <1>2, <2>1, <2>3
<1> QED
  BY <1>3, <1>4, ItemFields

LEMMA MovedEntry ==
  ASSUME Accounted, SaveToSystem, EntryInv, NEW a \in Accounts, NEW b \in Accounts,
         a # b, ShardOf[b] = ShardOf[a], NEW items \in Seq(Item), Transferable(items),
         NEW w, w = Moved(a, b, items), w.ok
  PROVE  /\ w.entry = sys[ShardOf[a]] /\ NoMetas(w.user)
         /\ \A x \in Shards : Held(w.user, x) = Held(user, x)
<1> DEFINE s == ShardOf[a]
           start == Work(s)
           K == {k \in WideWork :
                   /\ NarrowWork(k) /\ NoMetas(k.user) /\ k.entry = sys[s]
                   /\ \A x \in Shards : Held(k.user, x) = Held(user, x)}
<1>1. /\ NarrowWork(start) /\ start \in WideWork /\ start.user = user /\ start.entry = sys[s]
      /\ s \in Shards
  BY StartWork, NftAssumption
<1>2. PICK path \in [0..Len(items) -> WideWork] :
        /\ path[0] = start /\ path[Len(items)] = w
        /\ \A i \in 1..Len(items) : path[i] = MoveItem(path[i - 1], a, b, items[i])
  BY <1>1, MovedPath
<1>3. Len(items) \in Nat /\ \A i \in 1..Len(items) : items[i] \in Item /\ items[i].value > 0
  BY DEF Transferable
<1> HIDE DEF start
<1>4. path[0] \in K
  BY <1>1, <1>2 DEF NoMetas, EntryInv
<1>5. ASSUME NEW i \in 1..Len(items), path[i].ok
      PROVE  path[i - 1].ok /\ (path[i - 1] \in K => path[i] \in K)
  <2> DEFINE k == path[i - 1]
             it == items[i]
             r == path[i]
  <2>1. k \in WideWork /\ r \in WideWork /\ it \in Item /\ it.value > 0
    <3>1. i - 1 \in 0..Len(items) /\ i \in 0..Len(items)
      BY <1>3
    <3> QED
      BY <1>3, <3>1
  <2>2. r = MoveItem(k, a, b, it) /\ r.ok
    BY <1>2, <1>5
  <2> HIDE DEF k, it, r
  <2>3. k.ok
    BY <2>1, <2>2, ItemsOk
  <2>4. ASSUME k \in K PROVE r \in K
    <3>1. /\ NarrowWork(k) /\ NoMetas(k.user) /\ k.entry = sys[s]
          /\ \A x \in Shards : Held(k.user, x) = Held(user, x)
      BY <2>4
    <3>2. Fits(k.entry, Held(k.user, s))
      BY <1>1, <3>1 DEF EntryInv
    <3>3. NarrowWork(r)
      BY <2>1, <2>2, <3>1, MoveItemShift
    <3>4. /\ r.entry = k.entry /\ NoMetas(r.user)
          /\ \A x \in Shards : Held(r.user, x) = Held(k.user, x)
      BY <2>1, <2>2, <3>1, <3>2, MoveItemEntry
    <3> QED
      BY <2>1, <3>1, <3>3, <3>4
  <2> HIDE DEF K
  <2> QED
    BY <2>3, <2>4 DEF k, r
<1>6. path[Len(items)].ok
  BY <1>2
<1> HIDE DEF K
<1>7. path[Len(items)] \in K
  BY <1>3, <1>4, <1>5, <1>6, PathStays
<1> QED
  BY <1>2, <1>7 DEF K

-----------------------------------------------------------------------------
(* What leaves the shard is taken off the liquidity, and each token is     *)
(* sent with the metadata of the entry.                                    *)

\* Each nonce of list q has metadata m, and no coin has any.
EachHas(q, m) ==
  \A j \in 1..Len(q) : IF q[j].nft THEN q[j].meta = m /\ m # NoMeta ELSE q[j].meta = NoMeta

LEMMA EachHasAppended ==
  ASSUME NEW q \in Seq(WideItem), NEW m, EachHas(q, m), NEW it \in WideItem,
         IF it.nft THEN it.meta = m /\ m # NoMeta ELSE it.meta = NoMeta
  PROVE  EachHas(Append(q, it), m)
BY DEF EachHas

LEMMA TakeItemEntry ==
  ASSUME NEW w, NarrowWork(w), NEW a \in Accounts, NEW it \in Item, it.value > 0,
         NEW r, r = TakeItem(w, a, it), r.ok,
         SaveToSystem, CountsLiquidity <=> SendAlways,
         NoMetas(w.user), Fits(w.entry, Held(w.user, ShardOf[a])),
         ~SendAlways => ~w.entry.reserved
  PROVE  /\ NoMetas(r.user) /\ Fits(r.entry, Held(r.user, ShardOf[a]))
         /\ ~SendAlways => r.entry = w.entry
         /\ it.nft => w.entry.meta # NoMeta
         /\ MetaWith(w, a, it) = IF it.nft THEN w.entry.meta ELSE NoMeta
<1> DEFINE v == it.value
           s == ShardOf[a]
           t == TakenItem(w, a, it)
<1>1. /\ v \in Nat /\ v \in Int /\ -v \in Int /\ w \in WideWork /\ w.entry \in Entry
      /\ s \in Shards /\ w.user \in [Accounts -> Record]
  BY ItemFields, NarrowFields, NftAssumption
<1>2. t.ok /\ r.user = t.user /\ r.entry = t.entry
  BY <1>1, TakeItemLeaves
<1>3. CASE it.nft
  <2> DEFINE k == TakeNft(w, a, v)
             h == Held(w.user, s)
             e == w.entry
  <2>1. k \in WideWork /\ (k.ok => w.user[a].value >= v)
    BY <1>1, TakeNftLeaves
  <2>2. t = Counted(k, -v)
    BY <1>3 DEF TakenItem
  <2>3. MetaWith(w, a, it) = MetaOf(w.user[a], w.entry)
    BY <1>3 DEF MetaWith
  <2> HIDE DEF k, t, v, s
  <2>4. k.ok /\ t.user = k.user /\ t.entry = WithLiquidity(k.entry, -v)
    BY <1>1, <1>2, <2>1, <2>2, CountedLeaves
  <2>5. NarrowWork(k) /\ Shift(k, w, {a}, {}, v, 0)
    BY <1>1, <2>4, TakeNftShift DEF k
  <2>6. h \in Nat /\ h > 0 /\ h + (-v) >= 0
    <3>1. /\ h \in Nat
          /\ \A c \in ShardAccounts(s) : w.user[c].value <= h
      BY <1>1, HeldType
    <3>2. a \in ShardAccounts(s) /\ w.user[a].value \in Nat
      BY NarrowFields DEF ShardAccounts, s
    <3>3. w.user[a].value <= h /\ w.user[a].value >= v /\ v > 0
      BY <2>1, <2>4, <3>1, <3>2 DEF v
    <3> HIDE DEF h
    <3> QED
      BY <1>1, <3>1, <3>2, <3>3
  <2>7. Fits(e, h)
    BY DEF s
  <2> HIDE DEF h
  <2>8. e.meta # NoMeta /\ CountsFor(e, h)
    BY <2>6, <2>7 DEF Fits, CountsFor
  <2>9. k.entry = e /\ NoMetas(k.user) /\ MetaOf(w.user[a], w.entry) = e.meta
    BY <1>1, <2>4, <2>8, TakeNftEntry DEF k
  <2>10. Held(k.user, s) = h + (-v)
    BY <1>1, <2>5, ShiftTakesHeld DEF s, h
  <2>11. e \in Entry /\ (~CountsLiquidity => ~e.reserved)
    BY <1>1
  <2> HIDE DEF e
  <2>12. Fits(WithLiquidity(e, -v), h + (-v))
    BY <1>1, <2>6, <2>8, <2>11, WithLiquidityFits
  <2>13. ~SendAlways => WithLiquidity(e, -v) = e
    BY DEF WithLiquidity
  <2> QED
    BY <1>2, <1>3, <2>3, <2>4, <2>8, <2>9, <2>10, <2>12, <2>13 DEF s, e
<1>4. CASE ~it.nft
  <2>1. t = TakeCoin(w, a, v)
    BY <1>4 DEF TakenItem
  <2> HIDE DEF t, v
  <2>2. t.user = w.user /\ t.entry = w.entry
    BY <1>1, <2>1, TakeCoinLeaves
  <2>3. MetaWith(w, a, it) = NoMeta
    BY <1>4 DEF MetaWith
  <2> QED
    BY <1>2, <1>4, <2>2, <2>3
<1> QED
  BY <1>3, <1>4, ItemFields

LEMMA TakenEntry ==
  ASSUME Accounted, SaveToSystem, CountsLiquidity <=> SendAlways, EntriesInv,
         NEW a \in Accounts, NEW items \in Seq(Item), Transferable(items),
         NEW w, w = TakenAll(a, items), w.ok
  PROVE  /\ NoMetas(w.user) /\ Fits(w.entry, Held(w.user, ShardOf[a]))
         /\ ~SendAlways => w.entry = sys[ShardOf[a]] /\ EachHas(w.out, sys[ShardOf[a]].meta)
         /\ \A x \in Shards \ {ShardOf[a]} : Held(w.user, x) = Held(user, x)
<1> DEFINE s == ShardOf[a]
           start == Work(s)
           K == {k \in WideWork :
                   /\ NarrowWork(k) /\ NoMetas(k.user) /\ Fits(k.entry, Held(k.user, s))
                   /\ ~SendAlways => k.entry = sys[s] /\ EachHas(k.out, sys[s].meta)}
<1>1. /\ NarrowWork(start) /\ start \in WideWork /\ start.user = user /\ start.entry = sys[s]
      /\ start.out = <<>> /\ s \in Shards
  BY StartWork, NftAssumption
<1>2. PICK path \in [0..Len(items) -> WideWork] :
        /\ path[0] = start /\ path[Len(items)] = w
        /\ \A i \in 1..Len(items) : path[i] = TakeItem(path[i - 1], a, items[i])
  BY <1>1, TakenPath
<1>3. Len(items) \in Nat /\ \A i \in 1..Len(items) : items[i] \in Item /\ items[i].value > 0
  BY DEF Transferable
<1>4. EntryInv /\ (~SendAlways => ~sys[s].reserved)
  BY <1>1 DEF EntriesInv, OnceEntries
<1>5. \A x \in Shards \ {s} : Held(w.user, x) = Held(user, x)
  <2> DEFINE n == Total(NftNumber, items)
             c == Total(CoinNumber, items)
  <2>1. n \in Nat
    BY TotalType DEF NftNumber, Item
  <2>2. NarrowWork(w) /\ Shift(w, start, {a}, {}, n, c)
    BY TakenLeaves
  <2> HIDE DEF n, c, start, s
  <2>3. \A x \in Shards \ {ShardOf[a]} : Held(w.user, x) = Held(start.user, x)
    BY <1>1, <2>1, <2>2, ShiftTakesHeld
  <2> QED
    BY <1>1, <2>3 DEF s
<1> HIDE DEF start
<1>6. path[0] \in K
  <2>1. EachHas(start.out, sys[s].meta)
    <3> DEFINE q == start.out
    <3>1. Len(q) = 0
      BY <1>1
    <3> HIDE DEF q
    <3> QED
      BY <3>1 DEF EachHas, q
  <2> QED
    BY <1>1, <1>2, <1>4, <2>1 DEF NoMetas, EntryInv
<1>7. ASSUME NEW i \in 1..Len(items), path[i].ok
      PROVE  path[i - 1].ok /\ (path[i - 1] \in K => path[i] \in K)
  <2> DEFINE k == path[i - 1]
             it == items[i]
             r == path[i]
  <2>1. k \in WideWork /\ r \in WideWork /\ it \in Item /\ it.value > 0
    <3>1. i - 1 \in 0..Len(items) /\ i \in 0..Len(items)
      BY <1>3
    <3> QED
      BY <1>3, <3>1
  <2>2. r = TakeItem(k, a, it) /\ r.ok
    BY <1>2, <1>7
  <2> HIDE DEF k, it, r
  <2>3. k.ok
    BY <2>1, <2>2, ItemsOk
  <2>4. ASSUME k \in K PROVE r \in K
    <3>1. /\ NarrowWork(k) /\ NoMetas(k.user) /\ Fits(k.entry, Held(k.user, s))
          /\ ~SendAlways => k.entry = sys[s] /\ EachHas(k.out, sys[s].meta)
      BY <2>4
    <3>2. ~SendAlways => ~k.entry.reserved
      BY <1>4, <3>1
    <3>3. NarrowWork(r)
      BY <2>1, <2>2, <3>1, TakeItemShift
    <3>4. /\ NoMetas(r.user) /\ Fits(r.entry, Held(r.user, s))
          /\ ~SendAlways => r.entry = k.entry
          /\ it.nft => k.entry.meta # NoMeta
          /\ MetaWith(k, a, it) = IF it.nft THEN k.entry.meta ELSE NoMeta
      BY <2>1, <2>2, <3>1, <3>2, TakeItemEntry
    <3>5. ASSUME ~SendAlways PROVE EachHas(r.out, sys[s].meta)
      <4> DEFINE y == WithItemMeta(it, MetaWith(k, a, it))
                 o == k.out
      <4>1. r.out = Append(o, y)
        BY <2>1, <2>2, TakeItemLeaves
      <4>2. y \in WideItem /\ y.nft = it.nft /\ y.meta = MetaWith(k, a, it)
        BY <2>1, MetaWithType, WithItemMetaFields
      <4>3. IF y.nft THEN y.meta = sys[s].meta /\ sys[s].meta # NoMeta ELSE y.meta = NoMeta
        BY <3>1, <3>4, <3>5, <4>2
      <4>4. o \in Seq(WideItem) /\ EachHas(o, sys[s].meta)
        BY <2>1, <3>1, <3>5, WideFields
      <4> HIDE DEF y, o
      <4> QED
        BY <4>1, <4>2, <4>3, <4>4, EachHasAppended
    <3> QED
      BY <2>1, <3>1, <3>3, <3>4, <3>5
  <2> HIDE DEF K
  <2> QED
    BY <2>3, <2>4 DEF k, r
<1>8. path[Len(items)].ok
  BY <1>2
<1> HIDE DEF K
<1>9. path[Len(items)] \in K
  BY <1>3, <1>6, <1>7, <1>8, PathStays
<1> QED
  BY <1>2, <1>5, <1>9 DEF K

-----------------------------------------------------------------------------
(* What the message carries: the first nonce in it goes with its metadata, *)
(* unless the shard it goes to was marked before.                          *)

LEMMA AppendBrings ==
  ASSUME NEW q \in Seq(WideItem), NEW it \in WideItem, NEW r, r = Append(q, it)
  PROVE  /\ HasNft(r) <=> HasNft(q) \/ it.nft
         /\ Brought(r) <=> Brought(q) \/ it.meta # NoMeta
         /\ OnlyNftsBring(r) <=> OnlyNftsBring(q) /\ (it.meta # NoMeta => it.nft)
<1>1. /\ Len(q) \in Nat /\ Len(r) = Len(q) + 1 /\ r[Len(q) + 1] = it
      /\ \A j \in 1..Len(q) : r[j] = q[j]
  OBVIOUS
<1>2. \A j \in 1..Len(r) : j \in 1..Len(q) \/ j = Len(q) + 1
  BY <1>1
<1>3. \A j \in 1..Len(q) : j \in 1..Len(r)
  BY <1>1
<1>4. Len(q) + 1 \in 1..Len(r)
  BY <1>1
<1> QED
  BY <1>1, <1>2, <1>3, <1>4 DEF HasNft, Brought, OnlyNftsBring

LEMMA NothingBrought ==
  ASSUME NEW q, Len(q) = 0
  PROVE  ~HasNft(q) /\ ~Brought(q) /\ OnlyNftsBring(q)
BY DEF HasNft, Brought, OnlyNftsBring

LEMMA MarkedOnce ==
  ASSUME NEW e \in WideEntry, NEW d \in Shards
  PROVE  /\ Marked(Marked(e, d), d) = Marked(e, d)
         /\ Marked(e, d).sentTo \subseteq e.sentTo \cup {d}
         /\ Marked(e, d).meta = e.meta
<1> DEFINE m == [e EXCEPT !.sentTo = @ \cup {d}]
<1>1. m.sentTo = e.sentTo \cup {d} /\ m.meta = e.meta /\ [m EXCEPT !.sentTo = @ \cup {d}] = m
  BY DEF WideEntry
<1> HIDE DEF m
<1>2. CASE SaveToSystem /\ ~SendAlways /\ e # NoEntry
  <2>1. Marked(e, d) = m
    BY <1>2 DEF Marked, m
  <2>2. Marked(m, d) = m
    BY <1>1 DEF Marked
  <2> QED
    BY <1>1, <2>1, <2>2
<1>3. CASE ~(SaveToSystem /\ ~SendAlways /\ e # NoEntry)
  <2>1. Marked(e, d) = e
    BY <1>3 DEF Marked
  <2> QED
    BY <2>1
<1> QED
  BY <1>2, <1>3

(* What message q to shard d tells of entry e, which was read before it,   *)
(* and f, which is left.                                                   *)
Tells(q, f, e, d) ==
  /\ OnlyNftsBring(q)
  /\ f = IF HasNft(q) THEN Marked(e, d) ELSE e
  /\ HasNft(q) => e.meta # NoMeta
  /\ HasNft(q) /\ ~Brought(q) => d \in e.sentTo

LEMMA AddressItemTells ==
  ASSUME NEW e \in WideEntry, NEW d \in Shards, NEW x \in WideWork, NEW it \in Item,
         IF it.nft THEN it.meta = e.meta /\ e.meta # NoMeta ELSE it.meta = NoMeta,
         Tells(x.out, x.entry, e, d), NEW r, r = AddressItem(x, d, it)
  PROVE  Tells(r.out, r.entry, e, d)
<1> DEFINE sent == SentItem(x.entry, d, it)
           q == x.out
           f == x.entry
<1>1. /\ r.entry = IF it.nft THEN Marked(f, d) ELSE f
      /\ r.out = Append(q, sent)
  BY AddressItemLeaves
<1>2. /\ sent \in WideItem /\ sent.nft = it.nft
      /\ sent.meta = IF it.nft /\ WasAlreadySent(f, d) /\ it.value # 1
                       THEN NoMeta ELSE it.meta
  BY SentItemFields
<1>3. q \in Seq(WideItem) /\ Tells(q, f, e, d)
  BY WideFields
<1> HIDE DEF sent, q, f
<1>4. /\ HasNft(r.out) <=> HasNft(q) \/ sent.nft
      /\ Brought(r.out) <=> Brought(q) \/ sent.meta # NoMeta
      /\ OnlyNftsBring(r.out) <=> OnlyNftsBring(q) /\ (sent.meta # NoMeta => sent.nft)
  BY <1>1, <1>2, <1>3, AppendBrings
<1>5. CASE ~it.nft
  BY <1>1, <1>2, <1>3, <1>4, <1>5 DEF Tells
<1>6. CASE it.nft
  <2>1. r.entry = Marked(e, d)
    BY <1>1, <1>3, <1>6, MarkedOnce DEF Tells
  <2>2. ASSUME ~Brought(r.out) PROVE d \in e.sentTo
    <3>1. ~Brought(q) /\ d \in f.sentTo
      BY <1>2, <1>4, <1>6, <2>2 DEF WasAlreadySent
    <3> QED
      BY <1>3, <3>1 DEF Tells
  <2> QED
    BY <1>2, <1>3, <1>4, <1>6, <2>1, <2>2 DEF Tells
<1> QED
  BY <1>5, <1>6, ItemFields

LEMMA AddressedTells ==
  ASSUME NEW w \in WideWork, w.out \in Seq(Item), NEW d \in Shards,
         NEW r, r = Addressed(w, d)
  PROVE  /\ r.entry = w.entry \/ r.entry = Marked(w.entry, d)
         /\ EachHas(w.out, w.entry.meta) => Tells(r.out, r.entry, w.entry, d)
<1> DEFINE s == w.out
           e == w.entry
           start == [w EXCEPT !.out = <<>>]
           Told(x) == /\ x.entry \in {e, Marked(e, d)}
                      /\ EachHas(s, e.meta) => Tells(x.out, x.entry, e, d)
<1>1. PICK path \in [0..Len(s) -> WideWork] :
        /\ path[0] = start /\ path[Len(s)] = r
        /\ \A i \in 1..Len(s) : path[i] = AddressItem(path[i - 1], d, s[i])
  BY AddressedPath
<1>2. start.entry = e /\ start.out = <<>>
  BY NothingOut
<1>3. s \in Seq(Item) /\ Len(s) \in Nat
  OBVIOUS
<1>4. e \in WideEntry
  BY WideFields
<1> HIDE DEF start, s, e
<1>5. Told(path[0])
  <2> DEFINE q == path[0].out
  <2>1. Len(q) = 0 /\ path[0].entry = e
    BY <1>1, <1>2
  <2> HIDE DEF q
  <2>2. ~HasNft(q) /\ ~Brought(q) /\ OnlyNftsBring(q)
    BY <2>1, NothingBrought
  <2> QED
    BY <2>1, <2>2 DEF Tells, q
<1>6. ASSUME NEW i \in 1..Len(s), Told(path[i - 1]) PROVE Told(path[i])
  <2> DEFINE k == path[i - 1]
             x == path[i]
             y == s[i]
  <2>1. k \in WideWork /\ y \in Item
    <3>1. i - 1 \in 0..Len(s)
      BY <1>3
    <3> QED
      BY <1>3, <3>1
  <2>2. x = AddressItem(k, d, y) /\ Told(k)
    BY <1>1, <1>6
  <2>3. EachHas(s, e.meta) =>
          IF y.nft THEN y.meta = e.meta /\ e.meta # NoMeta ELSE y.meta = NoMeta
    BY DEF EachHas
  <2> HIDE DEF k, x, y
  <2>4. x.entry = IF y.nft THEN Marked(k.entry, d) ELSE k.entry
    BY <2>1, <2>2, AddressItemLeaves
  <2>5. x.entry \in {e, Marked(e, d)}
    BY <1>4, <2>2, <2>4, MarkedOnce
  <2>6. ASSUME EachHas(s, e.meta) PROVE Tells(x.out, x.entry, e, d)
    BY <1>4, <2>1, <2>2, <2>3, <2>6, AddressItemTells
  <2> QED
    BY <2>5, <2>6 DEF x
<1> DEFINE G == {i \in 0..Len(s) : Told(path[i])}
<1> HIDE DEF Told
<1>7. 0 \in G
  BY <1>3, <1>5
<1>8. ASSUME NEW i \in 1..Len(s), i - 1 \in G PROVE i \in G
  BY <1>3, <1>6, <1>8
<1> HIDE DEF G
<1>9. \A i \in 0..Len(s) : i \in G
  BY <1>3, <1>7, <1>8, IndexInduction
<1>10. Told(path[Len(s)])
  <2>1. Len(s) \in 0..Len(s)
    BY <1>3
  <2> QED
    BY <1>9, <2>1 DEF G
<1> QED
  BY <1>1, <1>10 DEF Told, s, e

-----------------------------------------------------------------------------
(* A batch that arrives: its entry counts what comes, or, as long as       *)
(* metadata is sent once, has the metadata when a nonce has come.          *)

LEMMA ArriveNftLeaves ==
  ASSUME NEW w, NarrowWork(w), NEW m \in Batch, NEW it \in Item, it.nft,
         SaveToSystem, NoMetas(w.user),
         NEW r, r = ArriveItem(w, m, it), r.ok,
         NEW e, e = SavedEntry(w.entry, w.user[m.to], it.meta, ShardOf[m.from], ShardOf[m.to])
  PROVE  /\ e \in Entry /\ NoMetas(r.user)
         /\ CanAddLiquidity(e, it.value) /\ r.entry = WithLiquidity(e, it.value)
<1> DEFINE v == it.value
           b == m.to
           f == m.retErr
           n == it.meta
           t == ShardOf[m.from]
           d == ShardOf[b]
           k == GiveNft(w, b, v, n, t, f)
<1>1. /\ v \in Nat /\ v \in Int /\ n \in Metas /\ t \in Shards /\ d \in Shards
      /\ b \in Accounts /\ f \in BOOLEAN /\ w \in WideWork /\ w.entry \in Entry
  BY ItemFields, BatchFields, NarrowFields
<1>2. r = Counted(k, v) /\ e = SavedEntry(w.entry, w.user[b], n, t, d)
  BY DEF ArriveItem
<1> HIDE DEF v, b, f, n, t
<1>3. k \in WideWork
  BY <1>1, GiveNftLeaves
<1>4. k.entry = e /\ NoMetas(k.user)
  BY <1>1, <1>2, GiveNftEntry
<1> HIDE DEF k
<1>5. r.user = k.user /\ CanAddLiquidity(k.entry, v) /\ r.entry = WithLiquidity(k.entry, v)
  BY <1>1, <1>2, <1>3, CountedLeaves
<1>6. e \in Entry
  BY <1>1, <1>2, SavedEntryType
<1> QED
  BY <1>4, <1>5, <1>6 DEF v

LEMMA ArriveCoinLeaves ==
  ASSUME NEW w, NarrowWork(w), NEW m \in Batch, NEW it \in Item, ~it.nft,
         NEW r, r = ArriveItem(w, m, it)
  PROVE  r.entry = w.entry /\ r.user = w.user
<1> DEFINE v == it.value
           b == m.to
           f == m.retErr
<1>1. v \in Int /\ b \in Accounts /\ f \in BOOLEAN /\ w \in WideWork
  BY ItemFields, BatchFields, NarrowFields
<1>2. r = CreditCoin(w, b, v, f)
  BY DEF ArriveItem
<1> HIDE DEF v, b, f
<1> QED
  BY <1>1, <1>2, CreditCoinLeaves

LEMMA ArriveItemAlways ==
  ASSUME SaveToSystem, CountsLiquidity, NEW w, NarrowWork(w),
         NEW m \in Batch, NEW it \in Item, NEW r, r = ArriveItem(w, m, it), r.ok,
         NoMetas(w.user), Fits(w.entry, Held(w.user, ShardOf[m.to]))
  PROVE  NoMetas(r.user) /\ Fits(r.entry, Held(r.user, ShardOf[m.to]))
<1> DEFINE d == ShardOf[m.to]
           t == ShardOf[m.from]
           v == it.value
           h == Held(w.user, d)
           u == w.user[m.to]
           n == it.meta
           e == SavedEntry(w.entry, u, n, t, d)
<1>1. CASE it.nft
  <2>1. /\ e \in Entry /\ NoMetas(r.user)
        /\ CanAddLiquidity(e, v) /\ r.entry = WithLiquidity(e, v)
    BY <1>1, ArriveNftLeaves
  <2>2. /\ v \in Nat /\ n \in Metas /\ w.entry \in Entry /\ w.user \in [Accounts -> Record]
        /\ u.meta = NoMeta
    BY ItemFields, BatchFields, NarrowFields DEF NoMetas
  <2>3. h \in Nat
    BY <2>2, HeldType
  <2>4. Held(r.user, d) = h + v
    <3> DEFINE b == m.to
               c == CoinNumber[it]
    <3>1. NarrowWork(r) /\ Shift(r, w, {}, {b}, v, c) /\ b \in Accounts
      <4>1. NftNumber[it] = v
        BY <1>1, ItemFields
      <4> HIDE DEF v
      <4> QED
        BY <4>1, ArriveItemShift, BatchFields
    <3> HIDE DEF b, c, v
    <3>2. Held(r.user, ShardOf[b]) = Held(w.user, ShardOf[b]) + v
      BY <2>2, <3>1, ShiftBringsHeld
    <3> QED
      BY <3>2 DEF b
  <2>5. Fits(w.entry, h)
    OBVIOUS
  <2> HIDE DEF h, v, u, n, t
  <2>6. CountsFor(e, h)
    <3>1. \A must : must = FALSE => CountsFor(WithMeta(w.entry, u, n, t, d, must), h)
      BY <2>2, <2>3, <2>5, WithMetaCounted
    <3> QED
      BY <3>1, Zenon DEF SavedEntry
  <2> HIDE DEF e
  <2>7. e.meta # NoMeta
    BY <2>1, <2>6 DEF CanAddLiquidity, CountsFor
  <2>8. Fits(WithLiquidity(e, v), h + v)
    <3>1. v \in Int /\ h + v >= 0 /\ v >= 0
      BY <2>2, <2>3
    <3> QED
      BY <2>1, <2>3, <2>6, <2>7, <3>1, WithLiquidityFits
  <2> QED
    BY <2>1, <2>4, <2>8
<1>2. CASE ~it.nft
  BY <1>2, ArriveCoinLeaves
<1> QED
  BY <1>1, <1>2

\* An entry that counts nothing, with metadata or none at all
Plain(e) == ~e.reserved /\ (e.meta = NoMeta => e = NoEntry)

LEMMA PlainFits ==
  ASSUME NEW e, NEW h \in Nat, Plain(e), h > 0 => e.meta # NoMeta
  PROVE  Fits(e, h)
BY DEF Plain, Fits, CountsFor

LEMMA WithMetaPlain ==
  ASSUME ~SendAlways, SaveToSystem, NEW e \in Entry, Plain(e), NEW u, NEW m \in Metas,
         NEW t, NEW s, NEW must, NEW r, r = WithMeta(e, u, m, t, s, must)
  PROVE  /\ Plain(r) /\ TakesMarks(r, e, s, t)
         /\ e.meta # NoMeta => r.meta # NoMeta
         /\ m # NoMeta => r.meta # NoMeta
<1>1. ~r.reserved /\ TakesMarks(r, e, s, t) /\ (e.meta # NoMeta => r.meta # NoMeta)
  BY WithMetaOnce DEF Plain
<1>2. r = e \/ r.meta = m
  BY DEF WithMeta, Refreshed
<1>3. m # NoMeta => r.meta # NoMeta
  <2>1. CASE m # NoMeta /\ e # NoEntry
    BY <1>1, <1>2, <2>1 DEF Plain
  <2>2. CASE m # NoMeta /\ e = NoEntry
    BY <2>2 DEF WithMeta
  <2> QED
    BY <2>1, <2>2
<1>4. m = NoMeta => r = e
  BY DEF WithMeta
<1> QED
  BY <1>1, <1>2, <1>3, <1>4 DEF Plain

LEMMA TakesMarksAgain ==
  ASSUME NEW e, NEW k, NEW r, NEW s, NEW t,
         TakesMarks(k, e, s, t), TakesMarks(r, k, s, t), k.meta # NoMeta => r.meta # NoMeta
  PROVE  TakesMarks(r, e, s, t)
BY DEF TakesMarks

LEMMA ArriveItemOnce ==
  ASSUME SaveToSystem, ~SendAlways, NEW w, NarrowWork(w),
         NEW m \in Batch, NEW it \in Item, NEW r, r = ArriveItem(w, m, it), r.ok,
         NoMetas(w.user), Plain(w.entry)
  PROVE  /\ NoMetas(r.user) /\ Plain(r.entry)
         /\ TakesMarks(r.entry, w.entry, ShardOf[m.to], ShardOf[m.from])
         /\ w.entry.meta # NoMeta => r.entry.meta # NoMeta
         /\ it.nft /\ it.meta # NoMeta => r.entry.meta # NoMeta
         /\ ~it.nft => r.entry = w.entry /\ r.user = w.user
<1> DEFINE d == ShardOf[m.to]
           t == ShardOf[m.from]
           v == it.value
           u == w.user[m.to]
           n == it.meta
           e == SavedEntry(w.entry, u, n, t, d)
<1>1. CASE it.nft
  <2>1. e \in Entry /\ NoMetas(r.user) /\ r.entry = WithLiquidity(e, v)
    BY <1>1, ArriveNftLeaves
  <2>2. r.entry = e
    BY <2>1 DEF WithLiquidity, CountsLiquidity
  <2>3. n \in Metas /\ w.entry \in Entry
    BY ItemFields, NarrowFields
  <2> HIDE DEF u, n, t, d
  <2>4. /\ Plain(e) /\ TakesMarks(e, w.entry, d, t)
        /\ w.entry.meta # NoMeta => e.meta # NoMeta
        /\ n # NoMeta => e.meta # NoMeta
    <3>1. \A must, x : must = FALSE /\ x = WithMeta(w.entry, u, n, t, d, must) =>
            /\ Plain(x) /\ TakesMarks(x, w.entry, d, t)
            /\ w.entry.meta # NoMeta => x.meta # NoMeta
            /\ n # NoMeta => x.meta # NoMeta
      BY <2>3, WithMetaPlain
    <3> QED
      BY <3>1, Zenon DEF SavedEntry
  <2> HIDE DEF e
  <2> QED
    BY <1>1, <2>1, <2>2, <2>4 DEF d, t, n
<1>2. CASE ~it.nft
  <2>1. r.entry = w.entry /\ r.user = w.user
    BY <1>2, ArriveCoinLeaves
  <2> QED
    BY <1>2, <2>1 DEF TakesMarks
<1> QED
  BY <1>1, <1>2

LEMMA ArrivedAlways ==
  ASSUME Accounted, SaveToSystem, CountsLiquidity, EntryInv,
         NEW m \in Batch, NEW w, w = Arrived(m), w.ok
  PROVE  NoMetas(w.user) /\ Fits(w.entry, Held(w.user, ShardOf[m.to]))
<1> DEFINE d == ShardOf[m.to]
           items == m.items
           start == Work(d)
           K == {k \in WideWork :
                   NarrowWork(k) /\ NoMetas(k.user) /\ Fits(k.entry, Held(k.user, d))}
<1>1. /\ NarrowWork(start) /\ start \in WideWork /\ start.user = user /\ start.entry = sys[d]
      /\ d \in Shards
  BY StartWork, BatchFields
<1>2. PICK path \in [0..Len(items) -> WideWork] :
        /\ path[0] = start /\ path[Len(items)] = w
        /\ \A i \in 1..Len(items) : path[i] = ArriveItem(path[i - 1], m, items[i])
  BY <1>1, ArrivedPath
<1>3. Len(items) \in Nat /\ \A i \in 1..Len(items) : items[i] \in Item
  <2>1. items \in Seq(Item)
    BY BatchFields
  <2> HIDE DEF items
  <2> QED
    BY <2>1
<1> HIDE DEF start, items
<1>4. path[0] \in K
  BY <1>1, <1>2 DEF NoMetas, EntryInv
<1>5. ASSUME NEW i \in 1..Len(items), path[i].ok
      PROVE  path[i - 1].ok /\ (path[i - 1] \in K => path[i] \in K)
  <2> DEFINE k == path[i - 1]
             it == items[i]
             r == path[i]
  <2>1. k \in WideWork /\ r \in WideWork /\ it \in Item
    <3>1. i - 1 \in 0..Len(items) /\ i \in 0..Len(items)
      BY <1>3
    <3> QED
      BY <1>3, <3>1
  <2>2. r = ArriveItem(k, m, it) /\ r.ok
    BY <1>2, <1>5
  <2> HIDE DEF k, it, r
  <2>3. k.ok
    BY <2>1, <2>2, ItemsOk
  <2>4. ASSUME k \in K PROVE r \in K
    <3>1. NarrowWork(k) /\ NoMetas(k.user) /\ Fits(k.entry, Held(k.user, d))
      BY <2>4
    <3>2. NarrowWork(r)
      BY <2>1, <2>2, <3>1, ArriveItemShift
    <3>3. NoMetas(r.user) /\ Fits(r.entry, Held(r.user, d))
      BY <2>1, <2>2, <3>1, ArriveItemAlways
    <3> QED
      BY <2>1, <3>2, <3>3
  <2> HIDE DEF K
  <2> QED
    BY <2>3, <2>4 DEF k, r
<1>6. path[Len(items)].ok
  BY <1>2
<1> HIDE DEF K
<1>7. path[Len(items)] \in K
  BY <1>3, <1>4, <1>5, <1>6, PathStays
<1> QED
  BY <1>2, <1>7 DEF K

(* Entry e of shard d after some of the tokens q of message m.             *)
BringsTo(e, m, q, d) ==
  /\ Plain(e) /\ TakesMarks(e, sys[d], d, ShardOf[m.from])
  /\ sys[d].meta # NoMeta => e.meta # NoMeta
  /\ Brought(q) => e.meta # NoMeta
  /\ ~HasNft(q) => e = sys[d]

\* Where a nonce arrives, the shard then has the metadata.
LEMMA BringsFits ==
  ASSUME NEW e, NEW m \in Batch, NEW d, BringsTo(e, m, m.items, d), NEW h \in Nat,
         HasNft(m.items) /\ ~Brought(m.items) => sys[d].meta # NoMeta, HasNft(m.items)
  PROVE  Fits(e, h)
<1>1. Plain(e) /\ e.meta # NoMeta
  BY DEF BringsTo
<1> QED
  BY <1>1, PlainFits

LEMMA PrefixBrings ==
  ASSUME NEW s \in Seq(Item), NEW i \in 1..Len(s)
  PROVE  /\ HasNft(Prefix(s, i)) <=> HasNft(Prefix(s, i - 1)) \/ s[i].nft
         /\ Brought(Prefix(s, i)) <=> Brought(Prefix(s, i - 1)) \/ s[i].meta # NoMeta
<1> DEFINE p == Prefix(s, i - 1)
           q == Prefix(s, i)
           it == s[i]
<1>1. p \in Seq(Item) /\ it \in Item /\ q = Append(p, it)
  <2>1. i - 1 \in 0..Len(s)
    OBVIOUS
  <2> QED
    BY <2>1, PrefixFields
<1>2. it \in WideItem /\ p \in Seq(WideItem)
  <2>1. Item \subseteq WideItem
    BY NarrowIsWide
  <2> HIDE DEF p, it
  <2> QED
    BY <1>1, <2>1
<1> HIDE DEF p, q, it
<1>3. (HasNft(q) <=> HasNft(p) \/ it.nft) /\ (Brought(q) <=> Brought(p) \/ it.meta # NoMeta)
  BY <1>1, <1>2, AppendBrings
<1> QED
  BY <1>3 DEF p, q, it

\* One token more
LEMMA BringsMore ==
  ASSUME NEW e, NEW m, NEW d, NEW p, BringsTo(e, m, p, d), NEW it, NEW q,
         HasNft(q) <=> HasNft(p) \/ it.nft, Brought(q) <=> Brought(p) \/ it.meta # NoMeta,
         NEW r, Plain(r), TakesMarks(r, e, d, ShardOf[m.from]),
         e.meta # NoMeta => r.meta # NoMeta, it.meta # NoMeta => r.meta # NoMeta,
         ~it.nft => r = e
  PROVE  BringsTo(r, m, q, d)
<1>1. /\ TakesMarks(e, sys[d], d, ShardOf[m.from])
      /\ sys[d].meta # NoMeta => e.meta # NoMeta
      /\ Brought(p) => e.meta # NoMeta
      /\ ~HasNft(p) => e = sys[d]
  BY DEF BringsTo
<1>2. TakesMarks(r, sys[d], d, ShardOf[m.from])
  BY <1>1, TakesMarksAgain
<1> QED
  BY <1>1, <1>2 DEF BringsTo

LEMMA BringsNothing ==
  ASSUME EntriesInv, ~SendAlways, NEW m, NEW d \in Shards, NEW p, DOMAIN p = {}, p \in Seq(Item)
  PROVE  /\ Plain(sys[d]) /\ BringsTo(sys[d], m, p, d) /\ ~HasNft(p)
<1>1. ~HasNft(p) /\ ~Brought(p)
  <2>1. Len(p) = 0
    OBVIOUS
  <2> QED
    BY <2>1, NothingBrought
<1>2. Plain(sys[d])
  BY DEF EntriesInv, EntryInv, OnceEntries, Fits, CountsFor, Plain
<1> QED
  BY <1>1, <1>2 DEF BringsTo, TakesMarks

LEMMA ArrivedOnce ==
  ASSUME Accounted, SaveToSystem, ~SendAlways, EntriesInv,
         NEW m \in Batch, OnlyNftsBring(m.items), NEW w, w = Arrived(m), w.ok
  PROVE  /\ NoMetas(w.user) /\ BringsTo(w.entry, m, m.items, ShardOf[m.to])
         /\ ~HasNft(m.items) => w.user = user
<1> DEFINE d == ShardOf[m.to]
           items == m.items
           start == Work(d)
           Good(k, i) == /\ NarrowWork(k) /\ NoMetas(k.user)
                         /\ BringsTo(k.entry, m, Prefix(items, i), d)
                         /\ ~HasNft(Prefix(items, i)) => k.user = user
<1>1. /\ NarrowWork(start) /\ start \in WideWork /\ start.user = user /\ start.entry = sys[d]
      /\ d \in Shards
  BY StartWork, BatchFields
<1>2. PICK path \in [0..Len(items) -> WideWork] :
        /\ path[0] = start /\ path[Len(items)] = w
        /\ \A i \in 1..Len(items) : path[i] = ArriveItem(path[i - 1], m, items[i])
  BY <1>1, ArrivedPath
<1>3. items \in Seq(Item) /\ OnlyNftsBring(items)
  BY BatchFields
<1> HIDE DEF start, items
<1>4. /\ Len(items) \in Nat /\ \A i \in 1..Len(items) : items[i] \in Item
      /\ DOMAIN Prefix(items, 0) = {} /\ Prefix(items, 0) \in Seq(Item)
      /\ Prefix(items, Len(items)) = items
  <2>1. 0 \in 0..Len(items)
    BY <1>3
  <2> QED
    BY <1>3, <2>1, PrefixFields
<1>5. Good(path[0], 0)
  <2>1. BringsTo(sys[d], m, Prefix(items, 0), d)
    BY <1>1, <1>4, BringsNothing
  <2>2. NoMetas(user)
    BY DEF EntriesInv, EntryInv, NoMetas
  <2> QED
    BY <1>1, <1>2, <2>1, <2>2
<1>6. ASSUME NEW i \in 1..Len(items), path[i].ok
      PROVE  path[i - 1].ok /\ (Good(path[i - 1], i - 1) => Good(path[i], i))
  <2> DEFINE k == path[i - 1]
             it == items[i]
             r == path[i]
             p == Prefix(items, i - 1)
             q == Prefix(items, i)
  <2>1. k \in WideWork /\ r \in WideWork /\ it \in Item
    <3>1. i - 1 \in 0..Len(items) /\ i \in 0..Len(items)
      BY <1>4
    <3> QED
      BY <1>4, <3>1
  <2>2. r = ArriveItem(k, m, it) /\ r.ok
    BY <1>2, <1>6
  <2>3. it.meta # NoMeta => it.nft
    BY <1>3 DEF OnlyNftsBring
  <2>4. (HasNft(q) <=> HasNft(p) \/ it.nft) /\ (Brought(q) <=> Brought(p) \/ it.meta # NoMeta)
    BY <1>3, PrefixBrings
  <2> HIDE DEF k, it, r, p, q
  <2>5. k.ok
    BY <2>1, <2>2, ItemsOk
  <2>6. ASSUME /\ NarrowWork(k) /\ NoMetas(k.user) /\ BringsTo(k.entry, m, p, d)
               /\ ~HasNft(p) => k.user = user
        PROVE  /\ NarrowWork(r) /\ NoMetas(r.user) /\ BringsTo(r.entry, m, q, d)
               /\ ~HasNft(q) => r.user = user
    <3>1. NarrowWork(r)
      BY <2>1, <2>2, <2>6, ArriveItemShift
    <3>2. Plain(k.entry)
      BY <2>6 DEF BringsTo
    <3>3. /\ NoMetas(r.user) /\ Plain(r.entry)
          /\ TakesMarks(r.entry, k.entry, d, ShardOf[m.from])
          /\ k.entry.meta # NoMeta => r.entry.meta # NoMeta
          /\ it.nft /\ it.meta # NoMeta => r.entry.meta # NoMeta
          /\ ~it.nft => r.entry = k.entry /\ r.user = k.user
      BY <2>1, <2>2, <2>6, <3>2, ArriveItemOnce
    <3>4. BringsTo(r.entry, m, q, d)
      BY <2>3, <2>4, <2>6, <3>3, BringsMore
    <3> QED
      BY <2>4, <2>6, <3>1, <3>3, <3>4
  <2> QED
    BY <2>5, <2>6 DEF k, r, p, q
<1> DEFINE G == {i \in 0..Len(items) : path[i].ok => Good(path[i], i)}
<1> HIDE DEF Good
<1>7. 0 \in G
  BY <1>4, <1>5
<1>8. ASSUME NEW i \in 1..Len(items), i - 1 \in G PROVE i \in G
  BY <1>4, <1>6, <1>8
<1> HIDE DEF G
<1>9. \A i \in 0..Len(items) : i \in G
  BY <1>4, <1>7, <1>8, IndexInduction
<1>10. Good(w, Len(items))
  <2>1. Len(items) \in G
    BY <1>4, <1>9
  <2> QED
    BY <1>2, <2>1 DEF G
<1> QED
  BY <1>4, <1>10 DEF Good, items

(* The metadata of a batch that fails is saved as if it had arrived.       *)
LEMMA SavedBrings ==
  ASSUME TypeInv, SaveToSystem, ~SendAlways, EntriesInv,
         NEW m \in Batch, OnlyNftsBring(m.items), NEW e, e = MultiSavedOnError(m)
  PROVE  BringsTo(e, m, m.items, ShardOf[m.to])
<1> DEFINE d == ShardOf[m.to]
           items == m.items
<1>1. d \in Shards /\ sys[d] \in Entry
  BY BatchFields DEF TypeInv
<1>2. PICK path \in [0..Len(items) -> Entry] :
        /\ path[0] = sys[d] /\ path[Len(items)] = e
        /\ \A i \in 1..Len(items) : path[i] = SaveItem(path[i - 1], m, items[i])
  BY <1>1, SavedOnErrorPath
<1>3. items \in Seq(Item) /\ OnlyNftsBring(items)
  BY BatchFields
<1> HIDE DEF items
<1>4. /\ Len(items) \in Nat /\ \A i \in 1..Len(items) : items[i] \in Item
      /\ DOMAIN Prefix(items, 0) = {} /\ Prefix(items, 0) \in Seq(Item)
      /\ Prefix(items, Len(items)) = items
  <2>1. 0 \in 0..Len(items)
    BY <1>3
  <2> QED
    BY <1>3, <2>1, PrefixFields
<1>5. BringsTo(path[0], m, Prefix(items, 0), d)
  BY <1>1, <1>2, <1>4, BringsNothing
<1>6. ASSUME NEW i \in 1..Len(items), BringsTo(path[i - 1], m, Prefix(items, i - 1), d)
      PROVE  BringsTo(path[i], m, Prefix(items, i), d)
  <2> DEFINE k == path[i - 1]
             it == items[i]
             r == path[i]
             p == Prefix(items, i - 1)
             q == Prefix(items, i)
             t == ShardOf[m.from]
             n == it.meta
  <2>1. k \in Entry /\ it \in Item /\ n \in Metas
    <3>1. i - 1 \in 0..Len(items)
      BY <1>4
    <3> QED
      BY <1>4, <3>1, ItemFields
  <2>2. \E u, must : r = WithMeta(k, u, n, t, d, must)
    <3>1. r = SaveItem(k, m, it)
      BY <1>2
    <3> HIDE DEF k, r, it
    <3> QED
      BY <3>1, Zenon DEF SaveItem
  <2>3. it.meta # NoMeta => it.nft
    BY <1>3 DEF OnlyNftsBring
  <2>4. (HasNft(q) <=> HasNft(p) \/ it.nft) /\ (Brought(q) <=> Brought(p) \/ it.meta # NoMeta)
    BY <1>3, PrefixBrings
  <2>5. BringsTo(k, m, p, d)
    BY <1>6
  <2> HIDE DEF k, it, r, p, q, n
  <2>6. Plain(k)
    BY <2>5 DEF BringsTo
  <2>7. PICK u, must : r = WithMeta(k, u, n, t, d, must)
    BY <2>2
  <2>8. /\ Plain(r) /\ TakesMarks(r, k, d, t)
        /\ k.meta # NoMeta => r.meta # NoMeta
        /\ n # NoMeta => r.meta # NoMeta
    BY <2>1, <2>6, <2>7, WithMetaPlain
  <2>9. ~it.nft => r = k
    BY <2>3, <2>7 DEF WithMeta, n
  <2> HIDE DEF d
  <2>10. BringsTo(r, m, q, d)
    BY <2>4, <2>5, <2>8, <2>9, BringsMore DEF n
  <2> QED
    BY <2>10 DEF r, q
<1> DEFINE G == {i \in 0..Len(items) : BringsTo(path[i], m, Prefix(items, i), d)}
<1>7. 0 \in G
  BY <1>4, <1>5
<1>8. ASSUME NEW i \in 1..Len(items), i - 1 \in G PROVE i \in G
  BY <1>4, <1>6, <1>8
<1> HIDE DEF G
<1>9. \A i \in 0..Len(items) : i \in G
  BY <1>4, <1>7, <1>8, IndexInduction
<1>10. BringsTo(e, m, Prefix(items, Len(items)), d)
  <2>1. Len(items) \in G
    BY <1>4, <1>9
  <2> QED
    BY <1>2, <2>1 DEF G
<1> QED
  BY <1>4, <1>10 DEF items

-----------------------------------------------------------------------------
(* Every step keeps the entries and the marks right.                       *)

LEMMA FinishEntries ==
  ASSUME MultiInv, EntryInv, NEW s \in Shards, NEW w, Finish(w, s),
         NoMetas(w.user), Fits(w.entry, Held(w.user, s)),
         \A x \in Shards \ {s} : Held(w.user, x) = Held(user, x)
  PROVE  /\ EntryInv' /\ user' = w.user /\ epoch' = epoch
         /\ sys' = [sys EXCEPT ![s] = w.entry]
         /\ sys'[s] = w.entry /\ \A x \in Shards \ {s} : sys'[x] = sys[x]
<1>1. user' = w.user /\ sys' = [sys EXCEPT ![s] = w.entry] /\ epoch' = epoch
  BY DEF Finish
<1>2. sys'[s] = w.entry /\ \A x \in Shards \ {s} : sys'[x] = sys[x]
  BY <1>1 DEF MultiInv, TypeInv
<1>3. \A a \in Accounts : user'[a].meta = NoMeta
  BY <1>1 DEF NoMetas
<1>4. ASSUME NEW x \in Shards PROVE Fits(sys'[x], Held(user', x))
  <2>1. CASE x = s
    BY <1>1, <1>2, <2>1
  <2>2. CASE x # s
    BY <1>1, <1>2, <2>2 DEF EntryInv
  <2> QED
    BY <2>1, <2>2
<1>5. EntryInv'
  BY <1>3, <1>4 DEF EntryInv
<1> QED
  BY <1>1, <1>2, <1>5

LEMMA MultiInShardMetadata ==
  ASSUME SystemMetadata, MultiInv, MultiMetadataInv,
         NEW a \in Accounts, NEW b \in Accounts, NEW items \in Lists,
         MultiInShard(a, b, items)
  PROVE  MultiMetadataInv'
<1> DEFINE w == Moved(a, b, items)
           s == ShardOf[a]
<1>1. /\ items \in Seq(Item) /\ s \in Shards /\ SaveToSystem /\ Accounted
      /\ EntriesInv /\ EntryInv
  BY ListsAreItems, NftAssumption, FlagsStay, MultiAccounted
     DEF MultiInv, MultiMetadataInv, EntriesInv
<1>2. /\ a # b /\ ShardOf[b] = s /\ Transferable(items)
      /\ Finish(w, s) /\ w.ok /\ batches' = batches
  BY DEF MultiInShard, Finish
<1>3. /\ w.entry = sys[s] /\ NoMetas(w.user)
      /\ \A x \in Shards : Held(w.user, x) = Held(user, x)
  BY <1>1, <1>2, MovedEntry
<1> HIDE DEF w
<1>4. Fits(w.entry, Held(w.user, s))
  BY <1>1, <1>3 DEF EntryInv
<1>5. EntryInv' /\ epoch' = epoch /\ sys' = [sys EXCEPT ![s] = w.entry]
  BY <1>1, <1>2, <1>3, <1>4, FinishEntries
<1>6. sys' = sys
  BY <1>1, <1>3, <1>5 DEF MultiInv, TypeInv
<1>7. ~SendAlways' => ~SendAlways
  BY <1>5, SameEpoch
<1>8. EntriesStep
  BY <1>1, <1>5, <1>6, <1>7, EntriesUnchanged
<1> QED
  BY <1>2, <1>8, BatchesKeep

LEMMA MultiAcrossMetadata ==
  ASSUME SystemMetadata, MultiInv, MultiMetadataInv,
         NEW a \in Accounts, NEW b \in Accounts, NEW items \in Lists,
         MultiAcross(a, b, items)
  PROVE  MultiMetadataInv'
<1> DEFINE k == TakenAll(a, items)
           d == ShardOf[b]
           w == Addressed(k, d)
           s == ShardOf[a]
           m == [from |-> a, to |-> b, items |-> w.out, retErr |-> FALSE]
           n == Append(batches, m)
           e == sys[s]
<1>1. /\ items \in Seq(Item) /\ s \in Shards /\ d \in Shards
      /\ SaveToSystem /\ Accounted /\ EntriesInv /\ EntryInv
      /\ CountsLiquidity <=> SendAlways
  BY ListsAreItems, NftAssumption, FlagsStay, MultiAccounted
     DEF MultiInv, MultiMetadataInv, EntriesInv
<1>2. Finish(w, s) /\ w.ok /\ batches' = n /\ Transferable(items) /\ s # d
  BY DEF MultiAcross, Finish
<1>3. k \in WideWork /\ k.out \in Seq(Item) /\ (k.ok => k.entry \in Entry)
  BY <1>1, TakenLeaves, NarrowFields
<1> HIDE DEF d
<1>4. /\ k.ok /\ w.user = k.user /\ w.out \in Seq(Item)
      /\ w.entry = k.entry \/ w.entry = Marked(k.entry, d)
      /\ EachHas(k.out, k.entry.meta) => Tells(w.out, w.entry, k.entry, d)
  <2> HIDE DEF k
  <2> QED
    BY <1>1, <1>2, <1>3, AddressedLeaves, AddressedTells
<1>5. /\ NoMetas(k.user) /\ Fits(k.entry, Held(k.user, s))
      /\ ~SendAlways => k.entry = e /\ EachHas(k.out, e.meta)
      /\ \A x \in Shards \ {s} : Held(k.user, x) = Held(user, x)
  BY <1>1, <1>2, <1>4, TakenEntry
<1>6. m \in Batch /\ m.items = w.out /\ m.from = a /\ m.to = b
  BY <1>4 DEF Batch
<1> HIDE DEF k, w, m, n
<1>7. Fits(w.entry, Held(w.user, s))
  BY <1>3, <1>4, <1>5, MarkedFits
<1>8. /\ EntryInv' /\ epoch' = epoch
      /\ sys'[s] = w.entry /\ \A x \in Shards \ {s} : sys'[x] = sys[x]
  <2>1. NoMetas(w.user) /\ \A x \in Shards \ {s} : Held(w.user, x) = Held(user, x)
    BY <1>4, <1>5
  <2> HIDE DEF s
  <2> QED
    BY <1>1, <1>2, <1>7, <2>1, FinishEntries
<1>9. ASSUME ~SendAlways' PROVE OnceEntries' /\ BatchMarks(sys', batches')
  <2>1. ~SendAlways
    BY <1>8, <1>9, SameEpoch
  <2>2. /\ BatchMarks(sys, batches) /\ batches \in Seq(Batch) /\ OnceEntries
        /\ e \in Entry
    BY <1>1, <2>1 DEF MultiMetadataInv, EntriesInv, MultiInv, TypeInv
  <2>3. Tells(w.out, w.entry, e, d) /\ (w.entry = e \/ w.entry = Marked(e, d))
    BY <1>4, <1>5, <2>1
  <2>4. OnceEntries'
    <3>1. ~w.entry.reserved
      BY <1>1, <1>3, <1>4, <1>5, <2>1, <2>2, MarkedFits DEF OnceEntries
    <3> QED
      BY <1>8, <2>2, <3>1 DEF OnceEntries
  <2>5. /\ OnlyNftsBring(m.items)
        /\ HasNft(m.items) => e.meta # NoMeta
        /\ HasNft(m.items) /\ ~Brought(m.items) => d \in e.sentTo
    BY <1>6, <2>3 DEF Tells
  <2>6. d \in e.sentTo => sys[d].meta # NoMeta \/ \E j \in 1..Len(batches) : Carries(batches[j], s, d)
    BY <1>1, <2>2 DEF BatchMarks
  <2>7. BatchMarks(sys, n)
    <3>1. ShardOf[m.from] = s /\ ShardOf[m.to] = d
      BY <1>6 DEF d
    <3> HIDE DEF s, e
    <3>2. /\ HasNft(m.items) => sys[ShardOf[m.from]].meta # NoMeta
          /\ HasNft(m.items) /\ ~Brought(m.items) =>
               \/ sys[ShardOf[m.to]].meta # NoMeta
               \/ \E j \in 1..Len(batches) : Carries(batches[j], ShardOf[m.from], ShardOf[m.to])
      BY <2>5, <2>6, <3>1 DEF e
    <3> QED
      BY <1>6, <2>2, <2>5, <3>2, BatchMarksAppended DEF n
  <2>8. n \in Seq(Batch) /\ \A i \in 1..Len(batches) : i \in 1..Len(n) /\ n[i] = batches[i]
    BY <1>6, <2>2 DEF n
  <2>9. Len(n) \in 1..Len(n) /\ n[Len(n)] = m
    BY <1>6, <2>2 DEF n
  <2> DEFINE z == sys'
  <2>10. \A x \in Shards : sys[x].meta # NoMeta => z[x].meta # NoMeta
    <3>1. w.entry.meta = e.meta
      BY <1>1, <1>3, <1>4, <1>5, <2>1, MarkedFits
    <3> QED
      BY <1>8, <3>1
  <2>11. ASSUME NEW x \in Shards, NEW y \in Shards, y \in z[x].sentTo
         PROVE  \/ y \in sys[x].sentTo
                \/ z[y].meta # NoMeta
                \/ \E j \in 1..Len(n) : Carries(n[j], x, y)
    <3>1. CASE x # s
      BY <1>8, <2>11, <3>1
    <3>2. CASE x = s
      <4>1. y \in w.entry.sentTo
        BY <1>8, <2>11, <3>2
      <4>2. CASE HasNft(w.out)
        <5>1. y \in e.sentTo \/ y = d
          <6>1. e \in WideEntry
            BY <2>2, NarrowIsWide
          <6>2. w.entry.sentTo \subseteq e.sentTo \cup {d}
            BY <1>1, <2>3, <6>1, MarkedOnce
          <6> QED
            BY <4>1, <6>2
        <5>2. CASE y = d
          <6>1. CASE Brought(w.out)
            <7>1. Carries(n[Len(n)], x, y)
              BY <1>6, <2>9, <3>2, <5>2, <6>1 DEF Carries, d
            <7> QED
              BY <2>9, <7>1
          <6>2. CASE ~Brought(w.out)
            BY <1>6, <2>5, <3>2, <4>2, <5>2, <6>2
          <6> QED
            BY <6>1, <6>2
        <5> QED
          BY <3>2, <5>1, <5>2
      <4>3. CASE ~HasNft(w.out)
        BY <2>3, <3>2, <4>1, <4>3 DEF Tells
      <4> QED
        BY <4>2, <4>3
    <3> QED
      BY <3>1, <3>2
  <2> HIDE DEF z
  <2>12. BatchMarks(z, n)
    BY <2>7, <2>8, <2>10, <2>11, BatchMarksKept
  <2> QED
    BY <1>2, <2>4, <2>12 DEF z
<1> QED
  BY <1>8, <1>9 DEF MultiMetadataInv, EntriesInv

(* A batch that is executed brings its metadata, whether it is delivered   *)
(* or refused: who takes it and who gets it back then have the entry.      *)
LEMMA BatchEnds ==
  ASSUME SystemMetadata, MultiInv, MultiMetadataInv, ~SendAlways,
         NEW i \in 1..Len(batches), BatchExecutable(i), NEW m, m = batches[i],
         NEW e, BringsTo(e, m, m.items, ShardOf[m.to]),
         sys' = [sys EXCEPT ![ShardOf[m.to]] = e]
  PROVE  /\ OnceEntries' /\ BatchMarks(sys', RemoveAt(batches, i))
         /\ HasNft(m.items) =>
              /\ sys'[ShardOf[m.to]].meta # NoMeta /\ sys'[ShardOf[m.from]].meta # NoMeta
              /\ \A h \in Nat : Fits(e, h)
         /\ ~HasNft(m.items) => e = sys[ShardOf[m.to]]
         /\ OnlyNftsBring(m.items)
<1> DEFINE d == ShardOf[m.to]
           t == ShardOf[m.from]
           z == sys'
<1>1. /\ batches \in Seq(Batch) /\ m \in Batch /\ d \in Shards /\ t \in Shards
      /\ BatchMarks(sys, batches) /\ OnceEntries /\ TypeInv /\ InOrder
      /\ OnlyNftsBring(m.items)
  <2>1. batches \in Seq(Batch) /\ TypeInv
    BY DEF MultiInv
  <2>2. m \in Batch
    BY <2>1
  <2>3. BatchMarks(sys, batches) /\ OnceEntries
    BY DEF MultiMetadataInv, EntriesInv
  <2> QED
    BY <2>1, <2>2, <2>3, BatchFields, FlagsStay DEF BatchMarks
<1>2. HasNft(m.items) =>
        sys[t].meta # NoMeta /\ (~Brought(m.items) => sys[d].meta # NoMeta)
  <2>1. ASSUME HasNft(batches[i].items)
        PROVE  /\ sys[ShardOf[batches[i].from]].meta # NoMeta
               /\ ~Brought(batches[i].items) => sys[ShardOf[batches[i].to]].meta # NoMeta
    BY <1>1, <2>1, BatchFinds
  <2> QED
    BY <2>1
<1>3. /\ Plain(e) /\ TakesMarks(e, sys[d], d, t)
      /\ sys[d].meta # NoMeta => e.meta # NoMeta
      /\ Brought(m.items) => e.meta # NoMeta
      /\ ~HasNft(m.items) => e = sys[d]
  BY DEF BringsTo
<1>4. z[d] = e /\ \A x \in Shards \ {d} : z[x] = sys[x]
  BY <1>1 DEF TypeInv
<1>5. OnceEntries' /\ KeepsMarks(sys, z)
  <2>1. sys' = [sys EXCEPT ![d] = e] /\ ~e.reserved
    BY <1>3 DEF Plain
  <2> HIDE DEF d, t, z
  <2>2. CASE HasNft(m.items)
    BY <1>1, <1>2, <1>3, <2>1, <2>2, OnceStep DEF z
  <2>3. CASE ~HasNft(m.items)
    <3>1. TakesMarks(e, sys[d], d, d)
      BY <1>3, <2>3 DEF TakesMarks
    <3>2. d = d
      OBVIOUS
    <3> QED
      BY <1>1, <1>3, <2>1, <3>1, <3>2, OnceStep DEF z
  <2> QED
    BY <2>2, <2>3
<1> HIDE DEF z
<1>6. BatchMarks(z, batches)
  BY <1>1, <1>5, BatchMarksStay
<1>7. BatchMarks(z, RemoveAt(batches, i))
  <2>1. Brought(batches[i].items) => z[ShardOf[batches[i].to]].meta # NoMeta
    BY <1>3, <1>4
  <2> QED
    BY <1>1, <1>6, <2>1, BatchMarksRemoved
<1>8. ASSUME HasNft(m.items)
      PROVE  z[d].meta # NoMeta /\ z[t].meta # NoMeta /\ \A h \in Nat : Fits(e, h)
  <2>1. e.meta # NoMeta
    BY <1>2, <1>3, <1>8
  <2>2. z[t].meta # NoMeta
    BY <1>1, <1>2, <1>4, <1>8, <2>1
  <2>3. \A h \in Nat : Fits(e, h)
    BY <1>3, <2>1, PlainFits
  <2> QED
    BY <1>4, <2>1, <2>2, <2>3
<1> QED
  BY <1>1, <1>3, <1>5, <1>7, <1>8 DEF z

LEMMA MultiDeliverMetadata ==
  ASSUME SystemMetadata, MultiInv, MultiMetadataInv,
         NEW i \in DOMAIN batches, MultiDeliver(i)
  PROVE  MultiMetadataInv'
<1> DEFINE m == batches[i]
           w == Arrived(m)
           d == ShardOf[m.to]
           z == sys'
<1>1. /\ batches \in Seq(Batch) /\ m \in Batch /\ d \in Shards /\ i \in 1..Len(batches)
      /\ m.to \in Accounts /\ m.items \in Seq(Item)
      /\ SaveToSystem /\ Accounted /\ TypeInv /\ EntriesInv /\ EntryInv
      /\ CountsLiquidity <=> SendAlways
  <2>1. batches \in Seq(Batch) /\ TypeInv
    BY DEF MultiInv
  <2>2. m \in Batch /\ i \in 1..Len(batches)
    BY <2>1
  <2>3. EntriesInv /\ EntryInv
    BY DEF MultiMetadataInv, EntriesInv
  <2> QED
    BY <2>1, <2>2, <2>3, BatchFields, FlagsStay, MultiAccounted
<1>2. BatchExecutable(i) /\ Finish(w, d) /\ w.ok /\ batches' = RemoveAt(batches, i)
  BY DEF MultiDeliver, Finish
<1>3. NarrowWork(w) /\ \A x \in Shards \ {d} : Held(w.user, x) = Held(user, x)
  <2> DEFINE start == Work(d)
             n == Total(NftNumber, m.items)
             c == Total(CoinNumber, m.items)
             b == m.to
  <2>1. NarrowWork(start) /\ start.user = user
    BY <1>1, StartWork
  <2>2. n \in Nat
    BY <1>1, TotalType DEF NftNumber, Item
  <2>3. NarrowWork(w) /\ Shift(w, start, {}, {b}, n, c)
    BY <1>1, <1>2, ArrivedLeaves
  <2>4. b \in Accounts /\ d = ShardOf[b]
    BY <1>1
  <2> HIDE DEF n, c, start, b, w, d
  <2>5. \A x \in Shards \ {ShardOf[b]} : Held(w.user, x) = Held(start.user, x)
    BY <2>1, <2>2, <2>3, <2>4, ShiftBringsHeld
  <2> QED
    BY <2>1, <2>3, <2>4, <2>5
<1>4. Held(w.user, d) \in Nat
  BY <1>3, NarrowFields, HeldType
<1>5. sys' = [sys EXCEPT ![d] = w.entry] /\ epoch' = epoch
  BY <1>2 DEF Finish
<1>6. ~SendAlways =>
        /\ NoMetas(w.user) /\ BringsTo(w.entry, m, m.items, d)
        /\ ~HasNft(m.items) => w.user = user
  <2>1. ~SendAlways => OnlyNftsBring(m.items)
    BY <1>1 DEF MultiMetadataInv, BatchMarks
  <2> QED
    BY <1>1, <1>2, <2>1, ArrivedOnce
<1>7. SendAlways => NoMetas(w.user) /\ Fits(w.entry, Held(w.user, d))
  BY <1>1, <1>2, ArrivedAlways
<1> HIDE DEF w, m, d, z
<1>8. ~SendAlways =>
        /\ OnceEntries' /\ BatchMarks(z, RemoveAt(batches, i))
        /\ HasNft(m.items) => \A h \in Nat : Fits(w.entry, h)
        /\ ~HasNft(m.items) => w.entry = sys[d]
  BY <1>1, <1>2, <1>5, <1>6, BatchEnds DEF m, d, z
<1>9. NoMetas(w.user) /\ Fits(w.entry, Held(w.user, d))
  <2>1. CASE SendAlways
    BY <1>7, <2>1
  <2>2. CASE ~SendAlways /\ HasNft(m.items)
    BY <1>4, <1>6, <1>8, <2>2
  <2>3. CASE ~SendAlways /\ ~HasNft(m.items)
    BY <1>1, <1>6, <1>8, <2>3 DEF EntryInv
  <2> QED
    BY <2>1, <2>2, <2>3
<1>10. EntryInv'
  BY <1>1, <1>2, <1>3, <1>9, FinishEntries
<1>11. SendAlways' = SendAlways
  BY <1>5, SameEpoch
<1> QED
  BY <1>2, <1>8, <1>10, <1>11 DEF MultiMetadataInv, EntriesInv, z

LEMMA MultiRefuseMetadata ==
  ASSUME SystemMetadata, MultiInv, MultiInv', MultiMetadataInv,
         NEW i \in DOMAIN batches, MultiRefuse(i)
  PROVE  MultiMetadataInv'
<1> DEFINE m == batches[i]
           k == [m EXCEPT !.from = m.to, !.to = m.from, !.retErr = TRUE]
           d == ShardOf[m.to]
           e == MultiSavedOnError(m)
           z == sys'
           left == RemoveAt(batches, i)
<1>1. /\ batches \in Seq(Batch) /\ m \in Batch /\ d \in Shards /\ i \in 1..Len(batches)
      /\ SaveToSystem /\ TypeInv /\ EntriesInv /\ EntryInv
  <2>1. batches \in Seq(Batch) /\ TypeInv
    BY DEF MultiInv
  <2>2. m \in Batch /\ i \in 1..Len(batches)
    BY <2>1
  <2>3. EntriesInv /\ EntryInv
    BY DEF MultiMetadataInv, EntriesInv
  <2> QED
    BY <2>1, <2>2, <2>3, BatchFields, FlagsStay
<1>2. /\ BatchExecutable(i) /\ batches' = Append(left, k)
      /\ sys' = [sys EXCEPT ![d] = e] /\ user' = user /\ epoch' = epoch
  BY DEF MultiRefuse
<1>3. k \in Batch /\ k.items = m.items /\ k.from = m.to /\ k.to = m.from
  BY <1>1 DEF Batch
<1>4. left \in Seq(Batch)
  BY <1>1, RemoveAtProperties
<1>5. SendAlways => e = sys[d]
  BY DEF MultiSavedOnError
<1>6. ~SendAlways => OnlyNftsBring(m.items) /\ BringsTo(e, m, m.items, d)
  <2>1. ~SendAlways => OnlyNftsBring(m.items)
    BY <1>1 DEF MultiMetadataInv, BatchMarks
  <2> QED
    BY <1>1, <2>1, SavedBrings
<1> HIDE DEF m, k, d, e, z
<1>7. ~SendAlways =>
        /\ OnceEntries' /\ BatchMarks(z, left)
        /\ HasNft(m.items) =>
             /\ z[ShardOf[m.to]].meta # NoMeta /\ z[ShardOf[m.from]].meta # NoMeta
             /\ \A h \in Nat : Fits(e, h)
        /\ ~HasNft(m.items) => e = sys[d]
  BY <1>1, <1>2, <1>6, BatchEnds DEF m, d, z
<1> HIDE DEF left
<1>8. ~SendAlways => BatchMarks(z, Append(left, k))
  <2>1. /\ ShardOf[k.from] = ShardOf[m.to] /\ ShardOf[k.to] = ShardOf[m.from]
        /\ k.items = m.items
    BY <1>3
  <2> QED
    BY <1>3, <1>4, <1>6, <1>7, <2>1, BatchMarksAppended
<1>9. Fits(e, Held(user, d))
  <2>1. Fits(sys[d], Held(user, d)) /\ Held(user, d) \in Nat
    BY <1>1, HeldType DEF EntryInv, TypeInv
  <2>2. e = sys[d] \/ \A h \in Nat : Fits(e, h)
    BY <1>5, <1>7
  <2> QED
    BY <2>1, <2>2
<1>10. EntryInv'
  <2>1. \A s \in Shards : sys'[s] = IF s = d THEN e ELSE sys[s]
    BY <1>1, <1>2 DEF TypeInv
  <2>2. \A s \in Shards : Fits(sys'[s], Held(user, s))
    BY <1>1, <1>9, <2>1 DEF EntryInv
  <2>3. \A a \in Accounts : user'[a].value = user[a].value /\ user'[a].meta = NoMeta
    BY <1>1, <1>2 DEF EntryInv
  <2>4. TypeInv'
    BY DEF MultiInv
  <2> QED
    BY <1>1, <2>2, <2>3, <2>4, EntryStutter
<1>11. SendAlways' = SendAlways
  BY <1>2, SameEpoch
<1> QED
  BY <1>2, <1>7, <1>8, <1>10, <1>11 DEF MultiMetadataInv, EntriesInv, z

\* A step of the coin changes nothing of the nonce.
LEMMA CoinStepMetadata ==
  ASSUME MultiInv, MultiMetadataInv, CoinStep \/ UNCHANGED multiVars
  PROVE  MultiMetadataInv'
<1>1. UNCHANGED vars /\ batches' = batches
  BY DEF CoinStep, IssueCoin, ToggleFreezeCoin, TogglePauseCoin, multiVars
<1>2. UNCHANGED <<user, sys, epoch>>
  BY <1>1 DEF vars
<1>3. EntriesInv /\ EntryInv
  BY DEF MultiMetadataInv, EntriesInv
<1>4. EntryInv'
  BY <1>2, <1>3 DEF EntryInv
<1>5. ~SendAlways' => ~SendAlways
  BY <1>2, SameEpoch
<1>6. EntriesStep
  BY <1>2, <1>3, <1>4, <1>5, EntriesUnchanged
<1> QED
  BY <1>1, <1>6, BatchesKeep

LEMMA NftStepMetadata ==
  ASSUME SystemMetadata, MultiInv, MultiInv', MultiMetadataInv, NftStep
  PROVE  MultiMetadataInv'
<1>1. batches' = batches /\ (HolderStep \/ CommandStep \/ NextEpoch)
  BY DEF NftStep
<1>2. TypeInv /\ TypeInv' /\ EntriesInv
  BY DEF MultiInv, MultiMetadataInv
<1>3. ASSUME version = NoMeta, NEW a \in Accounts PROVE user[a].value = 0
  <2>1. /\ SumFunction(Quantities(user)) \in Nat
        /\ user[a].value <= SumFunction(Quantities(user))
    BY <1>2, SumsType DEF TypeInv
  <2>2. SumFunction(Quantities(user)) + InBatches(NftOf, batches) = 0
    BY <1>3, MultiSums DEF MultiInv, QuantityWith
  <2>3. user[a].value \in Nat /\ InBatches(NftOf, batches) \in Nat
    BY <1>2, MultiSums DEF TypeInv, Record
  <2> QED
    BY <2>1, <2>2, <2>3
<1>4. EntriesStep
  BY <1>1, <1>2, <1>3, OtherEntries
<1> QED
  BY <1>1, <1>4, BatchesKeep

LEMMA MultiInitMetadata == MultiInit => MultiMetadataInv
<1> SUFFICES ASSUME MultiInit PROVE MultiMetadataInv
  OBVIOUS
<1>1. MetadataInv
  BY InitMetadata DEF MultiInit
<1>2. EntriesInv
  BY <1>1, MetadataEntries
<1>3. \A s \in Shards : sys[s].sentTo = {}
  BY DEF MultiInit, Init, NoEntry
<1>4. Len(batches) = 0
  BY DEF MultiInit
<1>5. BatchMarks(sys, batches)
  BY <1>3, <1>4 DEF BatchMarks
<1> QED
  BY <1>2, <1>5 DEF MultiMetadataInv

LEMMA MultiStepMetadata ==
  ASSUME SystemMetadata, MultiInv, MultiMetadataInv, [MultiNext]_multiVars
  PROVE  MultiMetadataInv'
<1>1. MultiInv'
  BY MultiStepInv
<1>2. CASE MultiStep
  BY <1>1, <1>2, MultiInShardMetadata, MultiAcrossMetadata, MultiDeliverMetadata,
     MultiRefuseMetadata DEF MultiStep
<1>3. CASE CoinStep \/ UNCHANGED multiVars
  BY <1>3, CoinStepMetadata
<1>4. CASE NftStep
  BY <1>1, <1>4, NftStepMetadata
<1> QED
  BY <1>2, <1>3, <1>4 DEF MultiNext

(* MultiMetadataInvHolds: with lists of tokens too, of whatever length and *)
(* in whatever order, the entries stand for what their shards hold, and    *)
(* the marks for what the batches bring.                                   *)
THEOREM MultiMetadataInvHolds ==
  ASSUME SystemMetadata
  PROVE  MultiSpec => [](MultiInv /\ MultiMetadataInv)
<1>1. MultiInit => MultiInv /\ MultiMetadataInv
  BY MultiInitInv, MultiInitMetadata
<1>2. MultiInv /\ MultiMetadataInv /\ [MultiNext]_multiVars => (MultiInv /\ MultiMetadataInv)'
  BY MultiStepInv, MultiStepMetadata
<1> QED
  BY <1>1, <1>2, PTL DEF MultiSpec

(* MultiLeftOutOnlyIfSentHolds: a batch comes without the metadata of its  *)
(* nonces only if the destination's shard has it or a batch before it      *)
(* brings it, although the shard is marked while the batch is put together *)
(* (createDCDTNFTOutputTransfers).                                         *)
THEOREM MultiLeftOutOnlyIfSentHolds ==
  ASSUME SystemMetadata
  PROVE  MultiSpec => []MultiLeftOutOnlyIfSent
<1>1. MultiInv /\ MultiMetadataInv => MultiLeftOutOnlyIfSent
  <2> SUFFICES ASSUME MultiInv, MultiMetadataInv, ~SendAlways, NEW m \in Range(batches),
                      \E it \in Range(m.items) : it.nft /\ it.meta = NoMeta
               PROVE  LET d == ShardOf[m.to] IN
                      \/ sys[d].meta # NoMeta
                      \/ \E k \in Range(batches) :
                           ShardOf[k.to] = d /\ \E it \in Range(k.items) : it.meta # NoMeta
    BY DEF MultiLeftOutOnlyIfSent
  <2> DEFINE d == ShardOf[m.to]
             Metas1(k) == \E it \in Range(k.items) : it.meta # NoMeta
  <2>1. batches \in Seq(Batch) /\ DOMAIN batches = 1..Len(batches) /\ Len(batches) \in Nat
    BY DEF MultiInv
  <2>2. PICK i \in 1..Len(batches) : m = batches[i]
    BY <2>1 DEF Range
  <2>3. \A k \in Range(batches) : k \in Batch
    BY <2>1 DEF Range
  <2>4. \A k \in Batch : DOMAIN k.items = 1..Len(k.items)
    <3> TAKE k \in Batch
    <3>1. k.items \in Seq(Item)
      BY BatchFields
    <3> QED
      BY <3>1
  <2>5. HasNft(m.items)
    BY <2>3, <2>4 DEF Range, HasNft
  <2>6. \A k \in Batch : Brought(k.items) => Metas1(k)
    BY <2>4 DEF Range, Brought
  <2> HIDE DEF d, Metas1
  <2>7. \/ Brought(m.items)
        \/ sys[d].meta # NoMeta
        \/ \E j \in 1..(i - 1) : Carries(batches[j], ShardOf[m.from], d)
    BY <2>2, <2>5 DEF MultiMetadataInv, BatchMarks, d
  <2>8. \A j \in 1..(i - 1) : batches[j] \in Range(batches)
    <3>1. \A j \in 1..(i - 1) : j \in 1..Len(batches)
      BY <2>1
    <3> QED
      BY <2>1, <3>1 DEF Range
  <2>9. sys[d].meta # NoMeta \/ \E k \in Range(batches) : ShardOf[k.to] = d /\ Metas1(k)
    BY <2>3, <2>6, <2>7, <2>8 DEF Carries, d
  <2> QED
    BY <2>9 DEF d, Metas1
<1> QED
  BY <1>1, MultiMetadataInvHolds, PTL

(* MultiLiquidityHolds: an entry that counts liquidity counts what its     *)
(* shard holds, also when one call takes or brings a nonce several times   *)
(* (addNFTToDestination, transferOneTokenOnSenderShard).                   *)
THEOREM MultiLiquidityHolds ==
  ASSUME SystemMetadata
  PROVE  MultiSpec => []Liquidity
<1>1. MultiInv /\ MultiMetadataInv => Liquidity
  <2> SUFFICES ASSUME MultiMetadataInv, NEW s \in Shards, sys[s].reserved
               PROVE  sys[s].value = HeldIn({a \in Accounts : ShardOf[a] = s}) /\ sys[s].value > 0
    BY DEF Liquidity
  <2>1. sys[s].value = Held(user, s) /\ Held(user, s) > 0
    BY DEF MultiMetadataInv, EntriesInv, EntryInv, Fits, CountsFor
  <2>2. HeldIn({a \in Accounts : ShardOf[a] = s}) = Held(user, s)
    BY DEF HeldIn, Held, ShardAccounts
  <2> QED
    BY <2>1, <2>2
<1> QED
  BY <1>1, MultiMetadataInvHolds, PTL

(* MultiMetadataAvailableHolds: and who holds some of the nonce reads its  *)
(* metadata, whatever batch it came with                                   *)
(* (getDCDTMetaDataFromSystemAccount).                                     *)
THEOREM MultiMetadataAvailableHolds ==
  ASSUME SystemMetadata
  PROVE  MultiSpec => []MetadataAvailable
<1>1. MultiInv /\ MultiMetadataInv => MetadataAvailable
  <2> SUFFICES ASSUME MultiInv, MultiMetadataInv, NEW a \in Accounts, user[a].value > 0
               PROVE  MetaOf(user[a], sys[ShardOf[a]]) # NoMeta
    BY DEF MetadataAvailable
  <2> DEFINE s == ShardOf[a]
  <2>1. /\ s \in Shards /\ a \in ShardAccounts(s) /\ SaveToSystem
        /\ user \in [Accounts -> Record]
    BY FlagsStay, NftAssumption DEF ShardAccounts, MultiInv, TypeInv
  <2>2. Held(user, s) \in Nat /\ user[a].value <= Held(user, s) /\ user[a].value \in Nat
    BY <2>1, HeldType DEF Record
  <2>3. Held(user, s) > 0
    BY <2>2
  <2>4. sys[s].meta # NoMeta
    BY <2>1, <2>3 DEF MultiMetadataInv, EntriesInv, EntryInv, Fits, CountsFor
  <2> QED
    BY <2>1, <2>4 DEF MetaOf
<1> QED
  BY <1>1, MultiMetadataInvHolds, PTL
=============================================================================
