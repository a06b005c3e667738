----------------------------- MODULE NftProofs -----------------------------
(***************************************************************************)
(* Proofs about NftLedger, for any accounts, shards, amounts and bounds.   *)
(***************************************************************************)
EXTENDS NftLedger, SumTheorems

Metas == 0..MaxVersion

USE DEF NoMeta

-----------------------------------------------------------------------------
(* What the helpers of dcdtDataStorage return.                             *)

LEMMA StoredProperties ==
  ASSUME NEW v \in Nat, NEW frozen \in BOOLEAN, NEW m \in Metas
  PROVE  /\ Stored(v, frozen, m) \in Record
         /\ Stored(v, frozen, m).value = v
         /\ Stored(v, frozen, m).meta \in {NoMeta, m}
         /\ v = 0 => Stored(v, frozen, m).meta = NoMeta
         /\ SaveToSystem => Stored(v, frozen, m).meta = NoMeta
BY NftAssumption DEF Stored, Record, NoRecord, Metas

LEMMA UnfrozenProperties ==
  \A v \in Nat, m \in Metas :
    /\ Stored(v, FALSE, m) \in Record
    /\ Stored(v, FALSE, m).value = v
    /\ Stored(v, FALSE, m).value = 0 => Stored(v, FALSE, m).meta = NoMeta
    /\ SaveToSystem => Stored(v, FALSE, m).meta = NoMeta
<1> TAKE v \in Nat, m \in Metas
<1>1. FALSE \in BOOLEAN
  OBVIOUS
<1>2. /\ Stored(v, FALSE, m) \in Record
      /\ Stored(v, FALSE, m).value = v
      /\ v = 0 => Stored(v, FALSE, m).meta = NoMeta
      /\ SaveToSystem => Stored(v, FALSE, m).meta = NoMeta
  BY <1>1, StoredProperties
<1> QED
  BY <1>2

LEMMA MetaOfType ==
  ASSUME NEW u \in Record, NEW e \in Entry
  PROVE  MetaOf(u, e) \in Metas
BY DEF MetaOf, Record, Entry, Metas

LEMMA WithMetaType ==
  ASSUME NEW e \in Entry, NEW u, NEW m \in Metas,
         NEW t \in Shards, NEW s \in Shards, NEW must \in BOOLEAN
  PROVE  WithMeta(e, u, m, t, s, must) \in Entry
<1>1. Refreshed(e, m) \in Entry
  BY DEF Refreshed, Entry, Metas
<1>2. (SendAlways /\ e = NoEntry /\ ~(FixOldTokenLiquidity /\ u.meta # NoMeta)) \in BOOLEAN
  OBVIOUS
<1> QED
  BY <1>1, <1>2 DEF WithMeta, Entry, Metas

LEMMA WithLiquidityType ==
  ASSUME NEW e \in Entry, NEW d \in Int, CanAddLiquidity(e, d)
  PROVE  WithLiquidity(e, d) \in Entry
<1>1. NoEntry \in Entry
  BY NftAssumption DEF NoEntry, Entry
<1>2. e.value \in Nat /\ [e EXCEPT !.reserved = FALSE] \in Entry
  BY DEF Entry
<1>3. e.value + d >= 0 => [e EXCEPT !.value = @ + d] \in Entry
  BY <1>2 DEF Entry
<1> QED
  BY <1>1, <1>2, <1>3 DEF WithLiquidity, CanAddLiquidity

LEMMA MarkedType ==
  ASSUME NEW e \in Entry, NEW d \in Shards
  PROVE  Marked(e, d) \in Entry
BY DEF Marked, Entry

-----------------------------------------------------------------------------
(* The types: of the supply only that it is an integer.                    *)

TypeInv ==
  /\ user \in [Accounts -> Record]
  /\ collFrozen \in [Accounts -> BOOLEAN]
  /\ sys \in [Shards -> Entry]
  /\ paused \in [Shards -> BOOLEAN]
  /\ net \in Seq(Message)
  /\ epoch \in DOMAIN EpochFlags
  /\ version \in Metas
  /\ supply \in Int

LEMMA InitType == Init => TypeInv
<1>1. NoRecord \in Record /\ NoEntry \in Entry
  BY NftAssumption DEF NoRecord, Record, NoEntry, Entry
<1> QED
  BY <1>1, NftAssumption DEF Init, TypeInv, Metas

LEMMA EntryAfterSaveType ==
  ASSUME TypeInv, NEW a \in Accounts
  PROVE  /\ ShardOf[a] \in Shards
         /\ MetaOf(user[a], sys[ShardOf[a]]) \in Metas
         /\ EntryAfterSave(a) \in Entry
<1>1. ShardOf[a] \in Shards /\ user[a] \in Record /\ sys[ShardOf[a]] \in Entry
  BY NftAssumption DEF TypeInv
<1>2. MetaOf(user[a], sys[ShardOf[a]]) \in Metas
  BY <1>1, MetaOfType
<1> QED
  BY <1>1, <1>2, WithMetaType DEF EntryAfterSave

LEMMA EntryAfterArrivalType ==
  ASSUME TypeInv, NEW m \in Message
  PROVE  ShardOf[m.to] \in Shards /\ EntryAfterArrival(m) \in Entry
<1>1. /\ ShardOf[m.to] \in Shards /\ ShardOf[m.from] \in Shards
      /\ sys[ShardOf[m.to]] \in Entry /\ m.meta \in Metas
  BY NftAssumption DEF TypeInv, Message, Metas
<1> QED
  BY <1>1, WithMetaType DEF EntryAfterArrival

(* What is taken off an account is a number that it has. *)
LEMMA TakenProperties ==
  ASSUME TypeInv, NEW a \in Accounts, NEW v \in Int, user[a].value - v >= 0
  PROVE  /\ Taken(a, v) \in [Accounts -> Record]
         /\ Taken(a, v)[a].value = user[a].value - v
         /\ Taken(a, v)[a].value = 0 => Taken(a, v)[a].meta = NoMeta
         /\ SaveToSystem => Taken(a, v)[a].meta = NoMeta
         /\ \A b \in Accounts \ {a} : Taken(a, v)[b] = user[b]
<1> DEFINE left == Stored(user[a].value - v, user[a].frozen,
                          MetaOf(user[a], sys[ShardOf[a]]))
<1>1. user[a].value - v \in Nat /\ user[a].frozen \in BOOLEAN
  BY DEF TypeInv, Record
<1>2. MetaOf(user[a], sys[ShardOf[a]]) \in Metas
  BY EntryAfterSaveType
<1>3. /\ left \in Record /\ left.value = user[a].value - v
      /\ left.value = 0 => left.meta = NoMeta
      /\ SaveToSystem => left.meta = NoMeta
  BY <1>1, <1>2, StoredProperties
<1>4. Taken(a, v) = [user EXCEPT ![a] = left]
  BY DEF Taken
<1> HIDE DEF left
<1> QED
  BY <1>3, <1>4 DEF TypeInv

LEMMA StepType ==
  ASSUME TypeInv, [Next]_vars
  PROVE  TypeInv'
<1>0. /\ ShardOf \in [Accounts -> Shards] /\ Amounts \subseteq Nat
      /\ NoRecord \in Record /\ NoEntry \in Entry
  BY NftAssumption DEF NoRecord, Record, NoEntry, Entry
<1>1. ASSUME NEW a \in Accounts, NEW b \in Accounts, NEW v \in Amounts,
             TransferInShard(a, b, v)
      PROVE  TypeInv'
  <2>1. v \in Int /\ user[a].value - v >= 0
    BY <1>0, <1>1 DEF TransferInShard, CanTake, TypeInv, Record
  <2> DEFINE m == MetaOf(user[a], sys[ShardOf[a]])
             kept == Taken(a, v)
             got == Stored(kept[b].value + v, FALSE, m)
             e == WithMeta(EntryAfterSave(a), user[b], m, ShardOf[a], ShardOf[a], FALSE)
  <2>2. kept \in [Accounts -> Record] /\ m \in Metas /\ EntryAfterSave(a) \in Entry
    BY <2>1, TakenProperties, EntryAfterSaveType
  <2>3. kept[b].value + v \in Nat
    BY <1>0, <2>2 DEF Record
  <2>4. got \in Record /\ e \in Entry
    BY <1>0, <2>2, <2>3, StoredProperties, WithMetaType
  <2>5. /\ user' = [kept EXCEPT ![b] = got] /\ sys' = [sys EXCEPT ![ShardOf[a]] = e]
        /\ UNCHANGED <<collFrozen, paused, net, epoch, version, supply>>
    BY <1>1 DEF TransferInShard
  <2> HIDE DEF m, kept, got, e
  <2> QED
    BY <1>0, <2>2, <2>4, <2>5 DEF TypeInv
<1>2. ASSUME NEW a \in Accounts, NEW b \in Accounts, NEW v \in Amounts,
             SendAcross(a, b, v)
      PROVE  TypeInv'
  <2>1. v \in Int /\ user[a].value - v >= 0
    BY <1>0, <1>2 DEF SendAcross, CanTake, TypeInv, Record
  <2> DEFINE m == MetaOf(user[a], sys[ShardOf[a]])
             left == WithLiquidity(EntryAfterSave(a), -v)
             e == Marked(left, ShardOf[b])
             sent == [from |-> a, to |-> b, value |-> v, retErr |-> FALSE,
                      meta |-> IF ~WasAlreadySent(left, ShardOf[b]) \/ v = 1
                                 THEN m ELSE NoMeta]
  <2>2. Taken(a, v) \in [Accounts -> Record] /\ m \in Metas /\ EntryAfterSave(a) \in Entry
    BY <2>1, TakenProperties, EntryAfterSaveType
  <2>3. left \in Entry
    BY <1>2, <2>1, <2>2, WithLiquidityType DEF SendAcross
  <2>4. e \in Entry
    BY <1>0, <2>3, MarkedType
  <2>5. sent \in Message
    BY <1>0, <2>2, NftAssumption DEF Message, Metas
  <2>6. /\ user' = Taken(a, v) /\ sys' = [sys EXCEPT ![ShardOf[a]] = e]
        /\ net' = Append(net, sent)
        /\ UNCHANGED <<collFrozen, paused, epoch, version, supply>>
    BY <1>2 DEF SendAcross
  <2> HIDE DEF m, left, e, sent
  <2>7. net' \in Seq(Message)
    BY <2>5, <2>6 DEF TypeInv
  <2> QED
    BY <1>0, <2>2, <2>4, <2>6, <2>7 DEF TypeInv
<1>3. ASSUME NEW i \in DOMAIN net, Deliver(i)
      PROVE  TypeInv'
  <2> DEFINE m == net[i]
             e == EntryAfterArrival(m)
             got == Stored(user[m.to].value + m.value, FALSE, m.meta)
  <2>1. net \in Seq(Message) /\ i \in 1..Len(net) /\ m \in Message
    BY DEF TypeInv
  <2>2. /\ m.to \in Accounts /\ m.value \in Nat /\ m.meta \in Metas
        /\ ShardOf[m.to] \in Shards /\ e \in Entry
    BY <2>1, EntryAfterArrivalType DEF Message, Metas
  <2>3. user[m.to].value + m.value \in Nat
    BY <2>2 DEF TypeInv, Record
  <2>4. got \in Record
    BY <2>2, <2>3, StoredProperties
  <2>7. CanAddLiquidity(e, m.value)
    BY <1>3 DEF Deliver, Accepts
  <2>5. /\ user' = [user EXCEPT ![m.to] = got]
        /\ sys' = [sys EXCEPT ![ShardOf[m.to]] = WithLiquidity(e, m.value)]
        /\ net' = RemoveAt(net, i)
        /\ UNCHANGED <<collFrozen, paused, epoch, version, supply>>
    BY <1>3 DEF Deliver
  <2>6. net' \in Seq(Message)
    BY <2>1, <2>5, RemoveAtProperties
  <2> HIDE DEF m, e, got
  <2>8. WithLiquidity(e, m.value) \in Entry
    BY <2>2, <2>7, WithLiquidityType
  <2> QED
    BY <2>2, <2>4, <2>5, <2>6, <2>8 DEF TypeInv
<1>4. ASSUME NEW i \in DOMAIN net, Refuse(i)
      PROVE  TypeInv'
  <2> DEFINE m == net[i]
             rest == RemoveAt(net, i)
  <2>1. net \in Seq(Message) /\ i \in 1..Len(net) /\ m \in Message
    BY DEF TypeInv
  <2>2. /\ ShardOf[m.to] \in Shards /\ ShardOf[m.from] \in Shards
        /\ sys[ShardOf[m.to]] \in Entry /\ m.meta \in Metas
    BY <1>0, <2>1 DEF TypeInv, Message, Metas
  <2>3. SavedOnError(m) \in Entry /\ SentBack(m) \in Message
    BY <2>1, <2>2, WithMetaType DEF SavedOnError, SentBack, Message
  <2>4. rest \in Seq(Message)
    BY <2>1, RemoveAtProperties
  <2>5. /\ sys' = [sys EXCEPT ![ShardOf[m.to]] = SavedOnError(m)]
        /\ net' = Append(rest, SentBack(m))
        /\ UNCHANGED <<user, collFrozen, paused, epoch, version, supply>>
    BY <1>4 DEF Refuse
  <2> HIDE DEF m, rest
  <2> QED
    BY <2>2, <2>3, <2>4, <2>5 DEF TypeInv
<1>5. ASSUME NEW a \in Accounts, NEW v \in Amounts, Create(a, v)
      PROVE  TypeInv'
  <2> DEFINE e == WithMeta(sys[ShardOf[a]], user[a], 1, ShardOf[a], ShardOf[a], TRUE)
  <2>1. 1 \in Metas /\ v \in Nat /\ ShardOf[a] \in Shards /\ sys[ShardOf[a]] \in Entry
    BY <1>0, NftAssumption DEF Metas, TypeInv
  <2>2. e \in Entry /\ Stored(v, FALSE, 1) \in Record
    BY <2>1, WithMetaType, StoredProperties
  <2>3. CanAddLiquidity(e, v)
    BY <1>5 DEF Create
  <2>4. /\ user' = [user EXCEPT ![a] = Stored(v, FALSE, 1)]
        /\ sys' = [sys EXCEPT ![ShardOf[a]] = WithLiquidity(e, v)]
        /\ version' = 1 /\ supply' = v
        /\ UNCHANGED <<collFrozen, paused, net, epoch>>
    BY <1>5 DEF Create
  <2> HIDE DEF e
  <2>5. WithLiquidity(e, v) \in Entry /\ v \in Int
    BY <2>1, <2>2, <2>3, WithLiquidityType
  <2> QED
    BY <2>1, <2>2, <2>4, <2>5 DEF TypeInv
<1>6. ASSUME NEW a \in Accounts, NEW v \in Int, ChangeQuantity(a, v)
      PROVE  TypeInv'
  <2>1. user[a].value - (-v) >= 0 /\ -v \in Int
    BY <1>6 DEF ChangeQuantity, TypeInv, Record
  <2>2. Taken(a, -v) \in [Accounts -> Record] /\ EntryAfterSave(a) \in Entry
    BY <2>1, TakenProperties, EntryAfterSaveType
  <2>3. WithLiquidity(EntryAfterSave(a), v) \in Entry
    BY <1>6, <2>2, WithLiquidityType DEF ChangeQuantity
  <2> QED
    BY <1>0, <1>6, <2>2, <2>3 DEF ChangeQuantity, TypeInv
<1>7. ASSUME NEW a \in Accounts, Update(a)
      PROVE  TypeInv'
  <2> DEFINE new == version + 1
             e == WithMeta(sys[ShardOf[a]], user[a], new, ShardOf[a], ShardOf[a], TRUE)
             u == Stored(user[a].value, user[a].frozen, new)
  <2>1. /\ new \in Metas /\ ShardOf[a] \in Shards /\ sys[ShardOf[a]] \in Entry
        /\ user[a].value \in Nat /\ user[a].frozen \in BOOLEAN
    BY <1>0, <1>7, NftAssumption DEF Metas, TypeInv, Update, Record
  <2>2. e \in Entry /\ u \in Record
    BY <2>1, WithMetaType, StoredProperties
  <2>3. /\ user' = [user EXCEPT ![a] = u] /\ sys' = [sys EXCEPT ![ShardOf[a]] = e]
        /\ version' = new
        /\ UNCHANGED <<collFrozen, paused, net, epoch, supply>>
    BY <1>7 DEF Update
  <2> HIDE DEF new, e, u
  <2> QED
    BY <2>1, <2>2, <2>3 DEF TypeInv
<1>8. ASSUME NEW a \in Accounts, NEW f \in BOOLEAN,
             ToggleFreeze(a, f) \/ ToggleFreezeCollection(a, f)
      PROVE  TypeInv'
  BY <1>8 DEF ToggleFreeze, ToggleFreezeCollection, TypeInv, Record
<1>9. ASSUME NEW a \in Accounts, Wipe(a)
      PROVE  TypeInv'
  <2> DEFINE counted == Active("WipeSingleNFTLiquidityDecreaseFlag")
             d == IF counted THEN -user[a].value ELSE 0
             e == IF counted THEN WithLiquidity(sys[ShardOf[a]], d) ELSE sys[ShardOf[a]]
  <2>1. d \in Int /\ user[a].value \in Nat /\ ShardOf[a] \in Shards
        /\ sys[ShardOf[a]] \in Entry
    BY <1>0 DEF TypeInv, Record
  <2>2. e \in Entry
    BY <1>9, <2>1, WithLiquidityType DEF Wipe
  <2>3. /\ user' = [user EXCEPT ![a] = NoRecord]
        /\ sys' = [sys EXCEPT ![ShardOf[a]] = e]
        /\ supply' = supply - user[a].value
        /\ UNCHANGED <<collFrozen, paused, net, epoch, version>>
    BY <1>9 DEF Wipe
  <2> HIDE DEF counted, d, e
  <2> QED
    BY <1>0, <2>1, <2>2, <2>3 DEF TypeInv
<1>10. ASSUME NEW s \in Shards, NEW p \in BOOLEAN,
              TogglePause(s, p) \/ DeleteMetadata(s) \/ AddMetadata(s)
       PROVE  TypeInv'
  <2>1. CASE TogglePause(s, p) \/ DeleteMetadata(s)
    BY <1>0, <2>1 DEF TogglePause, DeleteMetadata, TypeInv
  <2>2. CASE AddMetadata(s)
    <3>1. sys[s] \in Entry /\ version \in Metas
      BY DEF TypeInv
    <3>2. [sys[s] EXCEPT !.meta = version] \in Entry
      BY <3>1 DEF Entry, Metas
    <3> QED
      BY <2>2, <3>2 DEF AddMetadata, TypeInv
  <2> QED
    BY <1>10, <2>1, <2>2
<1>11. CASE NextEpoch
  BY <1>11 DEF NextEpoch, TypeInv
<1>12. CASE UNCHANGED vars
  BY <1>12 DEF vars, TypeInv
<1>13. ASSUME NEW a \in Accounts, NEW v \in Amounts, AddQuantity(a, v) \/ Burn(a, v)
       PROVE  TypeInv'
  <2>1. v \in Int /\ -v \in Int
    BY <1>0
  <2> QED
    BY <1>6, <1>13, <2>1 DEF AddQuantity, Burn
<1> QED
  BY <1>1, <1>2, <1>3, <1>4, <1>5, <1>7, <1>8, <1>9, <1>10, <1>11, <1>12, <1>13
     DEF Next, TransferStep, HolderStep, CommandStep

-----------------------------------------------------------------------------
(* Conservation: sums over records and over messages.                      *)

Quantities(u) == [a \in Accounts |-> u[a].value]
Sent(n) == [i \in DOMAIN n |-> n[i].value]

LEMMA SentType ==
  ASSUME NEW n \in Seq(Message)
  PROVE  /\ Len(n) \in Nat /\ DOMAIN n = 1..Len(n)
         /\ \A i \in 1..Len(n) : n[i] \in Message /\ n[i].value \in Nat
         /\ Sent(n) \in [1..Len(n) -> Nat]
         /\ Sent(n) \in Seq(Int) /\ Len(Sent(n)) = Len(n)
         /\ \A i \in 1..Len(n) : Sent(n)[i] = n[i].value
<1>1. /\ Len(n) \in Nat /\ DOMAIN n = 1..Len(n)
      /\ \A i \in 1..Len(n) : n[i] \in Message
  OBVIOUS
<1>2. \A i \in 1..Len(n) : n[i].value \in Nat
  BY <1>1 DEF Message
<1> DEFINE f == Sent(n)
<1>3. f = [i \in 1..Len(n) |-> n[i].value]
  BY <1>1 DEF Sent
<1> HIDE DEF f
<1>4. f \in [1..Len(n) -> Nat] /\ f \in [1..Len(n) -> Int]
  BY <1>1, <1>2, <1>3
<1>5. f \in Seq(Int) /\ Len(f) = Len(n)
  BY <1>1, <1>4, IsASeq
<1> QED
  BY <1>1, <1>2, <1>3, <1>4, <1>5 DEF f

LEMMA SumsType ==
  ASSUME NEW u \in [Accounts -> Record], NEW n \in Seq(Message)
  PROVE  /\ SumFunction(Quantities(u)) \in Nat
         /\ SumFunction(Sent(n)) \in Nat
         /\ \A a \in Accounts : u[a].value <= SumFunction(Quantities(u))
         /\ \A i \in DOMAIN n : n[i].value <= SumFunction(Sent(n))
<1> DEFINE q == Quantities(u)
           f == Sent(n)
<1>1. q \in [Accounts -> Nat] /\ \A a \in Accounts : q[a] = u[a].value
  BY DEF Quantities, Record
<1>2. f \in [DOMAIN n -> Nat] /\ \A i \in DOMAIN n : f[i] = n[i].value
  BY SentType
<1>3. IsFiniteSet(DOMAIN n) /\ IsFiniteSet(Accounts)
  <2>1. DOMAIN n = 1..Len(n) /\ Len(n) \in Nat
    OBVIOUS
  <2>2. IsFiniteSet(1..Len(n))
    BY <2>1, FS_Interval
  <2> QED
    BY <2>1, <2>2, NftAssumption
<1> HIDE DEF q, f
<1>4. SumFunction(q) \in Nat /\ SumFunction(f) \in Nat
  BY <1>1, <1>2, <1>3, SumNat
<1>5. \A a \in Accounts : q[a] <= SumFunction(q)
  BY <1>1, <1>3, SumBounds
<1>6. \A i \in DOMAIN n : f[i] <= SumFunction(f)
  BY <1>2, <1>3, SumBounds
<1> QED
  BY <1>1, <1>2, <1>4, <1>5, <1>6 DEF q, f

LEMMA QuantityChanged ==
  ASSUME NEW u \in [Accounts -> Record], NEW w \in [Accounts -> Record],
         NEW a \in Accounts, \A b \in Accounts \ {a} : w[b].value = u[b].value
  PROVE  SumFunction(Quantities(w))
           = SumFunction(Quantities(u)) + w[a].value - u[a].value
<1> DEFINE q == Quantities(u)
           r == Quantities(w)
<1>1. /\ q \in [Accounts -> Int] /\ r \in [Accounts -> Int]
      /\ q[a] = u[a].value /\ r[a] = w[a].value
      /\ \A b \in Accounts \ {a} : r[b] = q[b]
  BY DEF Quantities, Record
<1> HIDE DEF q, r
<1>2. SumFunction(r) = SumFunction(q) + r[a] - q[a]
  BY <1>1, NftAssumption, SumUpdate
<1> QED
  BY <1>1, <1>2 DEF q, r

LEMMA QuantityKept ==
  ASSUME NEW u \in [Accounts -> Record], NEW w \in [Accounts -> Record],
         \A b \in Accounts : w[b].value = u[b].value
  PROVE  SumFunction(Quantities(w)) = SumFunction(Quantities(u))
<1>1. Quantities(w) = Quantities(u)
  BY DEF Quantities
<1> QED
  BY <1>1

(* Sent(n) are the numbers of the messages of n that Quantity gives.       *)
Quantity == [m \in Message |-> m.value]

LEMMA SentNumbers ==
  ASSUME NEW n \in Seq(Message)
  PROVE  Sent(n) = NumbersOf(Quantity, n)
<1>1. \A i \in DOMAIN n : n[i] \in Message
  OBVIOUS
<1> QED
  BY <1>1 DEF Sent, NumbersOf, Quantity

LEMMA SentAppended ==
  ASSUME NEW n \in Seq(Message), NEW m \in Message
  PROVE  SumFunction(Sent(Append(n, m))) = SumFunction(Sent(n)) + m.value
<1>1. Quantity \in [Message -> Int] /\ Quantity[m] = m.value
  BY DEF Quantity, Message
<1>2. Append(n, m) \in Seq(Message)
  OBVIOUS
<1> QED
  BY <1>1, <1>2, SentNumbers, SumNumbersAppend

LEMMA SentRemoved ==
  ASSUME NEW n \in Seq(Message), NEW i \in DOMAIN n
  PROVE  SumFunction(Sent(RemoveAt(n, i))) = SumFunction(Sent(n)) - n[i].value
<1>1. n[i] \in Message /\ i \in 1..Len(n)
  OBVIOUS
<1>2. Quantity \in [Message -> Int] /\ Quantity[n[i]] = n[i].value
  BY <1>1 DEF Quantity, Message
<1>3. RemoveAt(n, i) \in Seq(Message)
  BY <1>1, RemoveAtProperties
<1> QED
  BY <1>2, <1>3, SentNumbers, SumNumbersRemoveAt

(* What Conservation needs: the nonce is created once, when there is none  *)
(* of it, and a record without quantity has no metadata.                   *)
QuantityInv ==
  /\ supply = SumFunction(Quantities(user)) + SumFunction(Sent(net))
  /\ supply <= MaxSupply
  /\ version = NoMeta => supply = 0
  /\ \A a \in Accounts : user[a].value = 0 => user[a].meta = NoMeta

\* The same when other pieces of the token are elsewhere.
QuantityWith(other) ==
  /\ supply = SumFunction(Quantities(user)) + SumFunction(Sent(net)) + other
  /\ supply <= MaxSupply
  /\ version = NoMeta => supply = 0
  /\ \A a \in Accounts : user[a].value = 0 => user[a].meta = NoMeta

LEMMA InitQuantity == Init => QuantityInv
<1> SUFFICES ASSUME Init PROVE QuantityInv
  OBVIOUS
<1> DEFINE q == Quantities(user)
           f == Sent(net)
<1>1. q \in [Accounts -> Int] /\ \A a \in Accounts : q[a] = 0
  BY DEF Init, Quantities, NoRecord
<1>2. f \in [{} -> Int]
  BY DEF Init, Sent
<1> HIDE DEF q, f
<1>3. SumFunction(q) = 0
  BY <1>1, NftAssumption, SumZero
<1>4. SumFunction(f) = 0
  BY <1>2, FS_EmptySet, SumType
<1> QED
  BY <1>3, <1>4, NftAssumption DEF Init, QuantityInv, NoRecord, q, f

(* A step at one account a, with n more pieces of the token there.         *)
LEMMA QuantityAtOne ==
  ASSUME TypeInv, TypeInv', NEW a \in Accounts, NEW n \in Int,
         \A b \in Accounts : user[b].value = 0 => user[b].meta = NoMeta,
         user'[a].value = user[a].value + n,
         user'[a].value = 0 => user'[a].meta = NoMeta,
         \A b \in Accounts \ {a} : user'[b] = user[b]
  PROVE  /\ SumFunction(Quantities(user')) = SumFunction(Quantities(user)) + n
         /\ \A b \in Accounts : user'[b].value = 0 => user'[b].meta = NoMeta
<1>1. user \in [Accounts -> Record] /\ user' \in [Accounts -> Record]
  BY DEF TypeInv
<1>2. SumFunction(Quantities(user'))
        = SumFunction(Quantities(user)) + user'[a].value - user[a].value
  BY <1>1, QuantityChanged
<1>3. user[a].value \in Int
  BY <1>1 DEF Record
<1>4. SumFunction(Quantities(user)) \in Int
  BY <1>1, SumsType DEF TypeInv
<1> QED
  BY <1>2, <1>3, <1>4

LEMMA StepQuantityWith ==
  ASSUME TypeInv, TypeInv', NEW other \in Nat, QuantityWith(other), [Next]_vars
  PROVE  QuantityWith(other)'
<1> DEFINE Q == SumFunction(Quantities(user))
           N == SumFunction(Sent(net))
           newQ == SumFunction(Quantities(user'))
           newN == SumFunction(Sent(net'))
           NoEmpty == \A b \in Accounts : user'[b].value = 0 => user'[b].meta = NoMeta
           Goal == /\ supply' = newQ + newN + other /\ supply' <= MaxSupply
                   /\ version' = NoMeta => supply' = 0
                   /\ NoEmpty
<1> SUFFICES Goal
  BY DEF QuantityWith
<1>0. /\ user \in [Accounts -> Record] /\ user' \in [Accounts -> Record]
      /\ net \in Seq(Message) /\ net' \in Seq(Message)
      /\ supply \in Int /\ version \in Metas
  BY DEF TypeInv
<1>1. /\ Q \in Nat /\ N \in Nat
      /\ \A a \in Accounts : user[a].value <= Q /\ user[a].value \in Nat
  BY <1>0, SumsType DEF Record
<1>2. /\ supply = Q + N + other /\ supply <= MaxSupply /\ MaxSupply \in Nat
      /\ version = NoMeta => supply = 0
      /\ \A a \in Accounts : user[a].value = 0 => user[a].meta = NoMeta
  BY NftAssumption DEF QuantityWith
<1>3. Amounts \subseteq Nat
  BY NftAssumption
<1>4. ASSUME NEW a \in Accounts, NEW b \in Accounts, NEW v \in Amounts,
             TransferInShard(a, b, v)
      PROVE  Goal
  <2>1. a # b /\ v \in Int /\ user[a].value - v >= 0
    BY <1>1, <1>3, <1>4 DEF TransferInShard, CanTake
  <2> DEFINE m == MetaOf(user[a], sys[ShardOf[a]])
             kept == Taken(a, v)
             got == Stored(kept[b].value + v, FALSE, m)
  <2>2. /\ kept \in [Accounts -> Record] /\ m \in Metas
        /\ kept[a].value = user[a].value - v
        /\ kept[a].value = 0 => kept[a].meta = NoMeta
        /\ \A c \in Accounts \ {a} : kept[c] = user[c]
    BY <2>1, TakenProperties, EntryAfterSaveType
  <2>3. kept[b].value + v \in Nat
    BY <1>3, <2>2 DEF Record
  <2>4. got \in Record /\ got.value = kept[b].value + v
        /\ (got.value = 0 => got.meta = NoMeta)
    BY <2>2, <2>3, UnfrozenProperties
  <2>5. user' = [kept EXCEPT ![b] = got] /\ UNCHANGED <<net, version, supply>>
    BY <1>4 DEF TransferInShard
  <2> HIDE DEF m, kept, got
  <2>6. /\ user'[b] = got /\ \A c \in Accounts \ {b} : user'[c] = kept[c]
    BY <2>2, <2>4, <2>5
  <2>7. SumFunction(Quantities(kept)) = Q + kept[a].value - user[a].value
    BY <1>0, <2>2, QuantityChanged
  <2>8. newQ = SumFunction(Quantities(kept)) + user'[b].value - kept[b].value
    BY <1>0, <2>2, <2>6, QuantityChanged
  <2>9. newQ = Q
    <3>1. kept[b].value \in Int /\ user[a].value \in Int
      BY <1>1, <2>2 DEF Record
    <3> HIDE DEF Q, newQ
    <3> QED
      BY <1>1, <2>1, <2>2, <2>4, <2>6, <2>7, <2>8, <3>1
  <2>10. NoEmpty
    BY <1>2, <2>2, <2>4, <2>6
  <2>11. newN = N
    BY <2>5
  <2> HIDE DEF Q, newQ, N, newN, NoEmpty
  <2> QED
    BY <1>2, <2>5, <2>9, <2>10, <2>11
<1>5. ASSUME NEW a \in Accounts, NEW n \in Int,
             user'[a].value = user[a].value + n,
             user'[a].value = 0 => user'[a].meta = NoMeta,
             \A b \in Accounts \ {a} : user'[b] = user[b]
      PROVE  newQ = Q + n /\ NoEmpty
  BY <1>2, <1>5, QuantityAtOne
<1>6. ASSUME NEW a \in Accounts, NEW b \in Accounts, NEW v \in Amounts,
             SendAcross(a, b, v)
      PROVE  Goal
  <2>1. v \in Int /\ user[a].value - v >= 0
    BY <1>1, <1>3, <1>6 DEF SendAcross, CanTake
  <2>2. /\ user'[a].value = user[a].value - v
        /\ user'[a].value = 0 => user'[a].meta = NoMeta
        /\ \A c \in Accounts \ {a} : user'[c] = user[c]
    BY <1>6, <2>1, TakenProperties DEF SendAcross
  <2>3. newQ = Q - v /\ NoEmpty
    <3>1. -v \in Int /\ user'[a].value = user[a].value + (-v)
      BY <1>1, <2>1, <2>2
    <3>2. newQ = Q + (-v) /\ NoEmpty
      BY <1>5, <2>2, <3>1
    <3> QED
      BY <1>1, <2>1, <3>2
  <2> DEFINE sent == [from |-> a, to |-> b, value |-> v, retErr |-> FALSE,
                      meta |-> IF ~WasAlreadySent(WithLiquidity(EntryAfterSave(a), -v), ShardOf[b]) \/ v = 1
                                 THEN MetaOf(user[a], sys[ShardOf[a]]) ELSE NoMeta]
  <2>4. sent \in Message /\ sent.value = v
    BY <1>3, EntryAfterSaveType, NftAssumption DEF Message, Metas
  <2>5. net' = Append(net, sent) /\ UNCHANGED <<version, supply>>
    BY <1>6 DEF SendAcross
  <2> HIDE DEF sent
  <2>6. newN = N + v
    BY <1>0, <2>4, <2>5, SentAppended
  <2> HIDE DEF Q, newQ, N, newN, NoEmpty
  <2> QED
    BY <1>1, <1>2, <2>1, <2>3, <2>5, <2>6
<1>7. ASSUME NEW i \in DOMAIN net, Deliver(i)
      PROVE  Goal
  <2> DEFINE m == net[i]
             got == Stored(user[m.to].value + m.value, FALSE, m.meta)
  <2>0. net[i] \in Message
    BY <1>0
  <2>1. m.to \in Accounts /\ m.value \in Nat /\ m.meta \in Metas
    BY <2>0 DEF Message, Metas
  <2>2. user[m.to].value + m.value \in Nat
    BY <1>1, <2>1
  <2>3. /\ got.value = user[m.to].value + m.value
        /\ got.value = 0 => got.meta = NoMeta
    BY <2>1, <2>2, UnfrozenProperties
  <2>4. /\ user' = [user EXCEPT ![m.to] = got] /\ net' = RemoveAt(net, i)
        /\ UNCHANGED <<version, supply>>
    BY <1>7 DEF Deliver
  <2>5. newN = N - m.value
    BY <1>0, <2>4, SentRemoved
  <2> HIDE DEF m, got
  <2>6. user'[m.to] = got /\ \A b \in Accounts \ {m.to} : user'[b] = user[b]
    BY <1>0, <2>1, <2>4
  <2>7. newQ = Q + m.value /\ NoEmpty
    BY <1>5, <2>1, <2>3, <2>6
  <2> HIDE DEF Q, newQ, N, newN, NoEmpty
  <2> QED
    BY <1>1, <1>2, <2>1, <2>4, <2>5, <2>7
<1>8. ASSUME NEW i \in DOMAIN net, Refuse(i)
      PROVE  Goal
  <2> DEFINE rest == RemoveAt(net, i)
             back == SentBack(net[i])
  <2>0. net[i] \in Message
    BY <1>0
  <2>1. net[i] \in Message /\ net[i].value \in Nat
    BY <2>0 DEF Message
  <2>2. back \in Message /\ back.value = net[i].value
    BY <2>1 DEF SentBack, Message
  <2>3. net' = Append(rest, back) /\ UNCHANGED <<user, version, supply>>
    BY <1>8 DEF Refuse
  <2>4. rest \in Seq(Message)
    BY <1>0, RemoveAtProperties
  <2>5. SumFunction(Sent(rest)) = N - net[i].value
    BY <1>0, SentRemoved
  <2> HIDE DEF rest, back
  <2>6. newN = SumFunction(Sent(rest)) + back.value
    BY <2>2, <2>3, <2>4, SentAppended
  <2>7. newN = N
    BY <1>1, <2>1, <2>2, <2>5, <2>6
  <2>8. newQ = Q /\ NoEmpty
    BY <1>2, <2>3
  <2> HIDE DEF Q, newQ, N, newN, NoEmpty
  <2> QED
    BY <1>2, <2>3, <2>7, <2>8
<1>9. ASSUME NEW a \in Accounts, NEW v \in Amounts, Create(a, v)
      PROVE  Goal
  <2>1. /\ v \in Nat /\ v > 0 /\ v <= MaxSupply /\ supply = 0
        /\ user' = [user EXCEPT ![a] = Stored(v, FALSE, 1)]
        /\ net' = net /\ version' = 1 /\ supply' = v
    BY <1>2, <1>3, <1>9 DEF Create
  <2>0. 1 \in Metas
    BY NftAssumption DEF Metas
  <2>2. Stored(v, FALSE, 1).value = v
    BY <2>0, <2>1, StoredProperties
  <2>3. user'[a].value = v /\ \A b \in Accounts \ {a} : user'[b] = user[b]
    BY <1>0, <2>1, <2>2
  <2>4. Q = 0 /\ N = 0 /\ other = 0
    BY <1>1, <1>2, <2>1
  <2>5. user[a].value = 0
    <3>1. user[a].value <= Q /\ user[a].value \in Nat
      BY <1>1
    <3> HIDE DEF Q
    <3> QED
      BY <2>4, <3>1
  <2>8. user'[a].value = user[a].value + v /\ user'[a].value # 0 /\ v \in Int
    <3>1. v \in Nat /\ v > 0
      BY <2>1
    <3> QED
      BY <2>3, <2>5, <3>1
  <2>6. newQ = Q + v /\ NoEmpty
    BY <1>5, <2>3, <2>8
  <2>7. newN = N
    BY <2>1
  <2> HIDE DEF Q, newQ, N, newN, NoEmpty
  <2> QED
    BY <2>1, <2>4, <2>6, <2>7
<1>10. ASSUME NEW a \in Accounts, NEW v \in Int, ChangeQuantity(a, v),
              supply + v <= MaxSupply
       PROVE  Goal
  <2>1. user[a].value - (-v) >= 0 /\ -v \in Int
    BY <1>1, <1>10 DEF ChangeQuantity
  <2>2. /\ user' = Taken(a, -v) /\ supply' = supply + v
        /\ UNCHANGED <<net, version>>
        /\ user[a] # NoRecord /\ ~user[a].frozen
    BY <1>10 DEF ChangeQuantity, MaySave
  <2>3. /\ user'[a].value = user[a].value + v
        /\ user'[a].value = 0 => user'[a].meta = NoMeta
        /\ \A c \in Accounts \ {a} : user'[c] = user[c]
    BY <1>1, <2>1, <2>2, TakenProperties
  <2>4. newQ = Q + v /\ NoEmpty
    BY <1>5, <2>3
  <2>5. version # NoMeta
    <3>1. user[a].value # 0
      BY <1>0, <1>2, <2>2 DEF Record, NoRecord
    <3>2. user[a].value <= Q /\ user[a].value \in Nat
      BY <1>1
    <3> HIDE DEF Q, N
    <3> QED
      BY <1>1, <1>2, <3>1, <3>2
  <2>6. newN = N
    BY <2>2
  <2> HIDE DEF Q, newQ, N, newN, NoEmpty
  <2> QED
    BY <1>1, <1>2, <1>10, <2>2, <2>4, <2>5, <2>6
<1>11. ASSUME NEW a \in Accounts, NEW v \in Amounts, AddQuantity(a, v) \/ Burn(a, v)
       PROVE  Goal
  <2>1. v \in Int /\ -v \in Int
    BY <1>3
  <2>2. CASE AddQuantity(a, v)
    BY <1>10, <2>1, <2>2 DEF AddQuantity
  <2>3. CASE Burn(a, v)
    <3>1. supply + -v <= MaxSupply
      BY <1>0, <1>2, <1>3
    <3> QED
      BY <1>10, <2>1, <2>3, <3>1 DEF Burn
  <2> QED
    BY <1>11, <2>2, <2>3
<1>12. ASSUME NEW a \in Accounts, Update(a)
       PROVE  Goal
  <2> DEFINE u == Stored(user[a].value, user[a].frozen, version + 1)
  <2>1. /\ user[a].value \in Nat /\ user[a].frozen \in BOOLEAN /\ version + 1 \in Metas
        /\ user[a] # NoRecord /\ ~user[a].frozen
        /\ version' = version + 1 /\ user' = [user EXCEPT ![a] = u]
        /\ UNCHANGED <<net, supply>>
    BY <1>0, <1>1, <1>12, NftAssumption DEF Update, Record, Metas, MaySave
  <2>2. u.value = user[a].value
    BY <2>1, StoredProperties
  <2> HIDE DEF u
  <2>3. /\ user'[a].value = user[a].value + 0
        /\ \A b \in Accounts \ {a} : user'[b] = user[b]
    BY <1>0, <2>1, <2>2
  <2>4. user'[a].value # 0
    BY <1>0, <1>2, <2>1, <2>3 DEF Record, NoRecord
  <2>5. newQ = Q + 0 /\ NoEmpty
    BY <1>5, <2>3, <2>4
  <2>6. newN = N /\ version' # NoMeta
    BY <1>0, <2>1 DEF Metas
  <2> HIDE DEF Q, newQ, N, newN, NoEmpty
  <2> QED
    BY <1>1, <1>2, <2>1, <2>5, <2>6
<1>13. ASSUME NEW a \in Accounts, NEW f \in BOOLEAN, ToggleFreeze(a, f)
       PROVE  Goal
  <2>1. \A b \in Accounts : user'[b].value = user[b].value /\ user'[b].meta = user[b].meta
    BY <1>0, <1>13 DEF ToggleFreeze, Record
  <2>2. UNCHANGED <<net, version, supply>>
    BY <1>13 DEF ToggleFreeze
  <2>3. newQ = Q /\ newN = N /\ NoEmpty
    BY <1>0, <1>2, <2>1, <2>2, QuantityKept
  <2> HIDE DEF Q, newQ, N, newN, NoEmpty
  <2> QED
    BY <1>2, <2>2, <2>3
<1>14. ASSUME NEW a \in Accounts, Wipe(a)
       PROVE  Goal
  <2>1. /\ user' = [user EXCEPT ![a] = NoRecord]
        /\ supply' = supply - user[a].value
        /\ UNCHANGED <<net, version>>
    BY <1>14 DEF Wipe
  <2>2. /\ -user[a].value \in Int
        /\ user'[a].value = user[a].value + (-user[a].value)
        /\ user'[a].meta = NoMeta
        /\ \A b \in Accounts \ {a} : user'[b] = user[b]
    BY <1>0, <1>1, <2>1 DEF NoRecord
  <2>3. newQ = Q + (-user[a].value) /\ NoEmpty
    BY <1>5, <2>2
  <2> DEFINE x == user[a].value
  <2>4. /\ newN = N /\ x \in Nat /\ x <= Q
        /\ newQ = Q + (-x) /\ supply' = supply - x /\ version' = version
    BY <1>1, <2>1, <2>3
  <2> HIDE DEF Q, newQ, N, newN, NoEmpty, x
  <2> QED
    BY <1>1, <1>2, <2>3, <2>4
<1>15. CASE UNCHANGED <<user, net, version, supply>>
  <2>1. newQ = Q /\ newN = N /\ NoEmpty
    BY <1>2, <1>15
  <2> HIDE DEF Q, newQ, N, newN, NoEmpty
  <2> QED
    BY <1>2, <1>15, <2>1
<1> HIDE DEF Goal
<1>16. ASSUME NEW a \in Accounts, NEW f \in BOOLEAN, ToggleFreezeCollection(a, f)
       PROVE  Goal
  BY <1>15, <1>16 DEF ToggleFreezeCollection
<1>17. ASSUME NEW s \in Shards, NEW p \in BOOLEAN,
              TogglePause(s, p) \/ DeleteMetadata(s) \/ AddMetadata(s)
       PROVE  Goal
  BY <1>15, <1>17 DEF TogglePause, DeleteMetadata, AddMetadata
<1>18. CASE NextEpoch \/ UNCHANGED vars
  BY <1>15, <1>18 DEF NextEpoch, vars
<1> QED
  BY <1>4, <1>6, <1>7, <1>8, <1>9, <1>11, <1>12, <1>13, <1>14, <1>16, <1>17, <1>18
     DEF Next, TransferStep, HolderStep, CommandStep

LEMMA StepQuantity ==
  ASSUME TypeInv, TypeInv', QuantityInv, [Next]_vars
  PROVE  QuantityInv'
<1>1. /\ SumFunction(Quantities(user)) \in Nat /\ SumFunction(Sent(net)) \in Nat
      /\ SumFunction(Quantities(user')) \in Nat /\ SumFunction(Sent(net')) \in Nat
  BY SumsType DEF TypeInv
<1>2. QuantityWith(0)
  BY <1>1 DEF QuantityInv, QuantityWith
<1>3. QuantityWith(0)'
  <2>1. 0 \in Nat
    OBVIOUS
  <2> QED
    BY <1>2, <2>1, StepQuantityWith
<1> QED
  BY <1>1, <1>3 DEF QuantityInv, QuantityWith

(* TypeOKHolds: in particular no order of calls and messages makes a       *)
(* balance, the liquidity of a shard or the supply negative.               *)
THEOREM TypeOKHolds == Spec => []TypeOK
<1>1. Init => TypeInv /\ QuantityInv
  BY InitType, InitQuantity
<1>2. TypeInv /\ QuantityInv /\ [Next]_vars => (TypeInv /\ QuantityInv)'
  BY StepType, StepQuantity
<1>3. TypeInv /\ QuantityInv => TypeOK
  <2> SUFFICES ASSUME TypeInv, QuantityInv PROVE TypeOK
    OBVIOUS
  <2>1. SumFunction(Quantities(user)) \in Nat /\ SumFunction(Sent(net)) \in Nat
    BY SumsType DEF TypeInv
  <2>2. supply \in 0..MaxSupply
    BY <2>1, NftAssumption DEF QuantityInv
  <2> QED
    BY <2>2 DEF TypeInv, TypeOK, Metas
<1> QED
  BY <1>1, <1>2, <1>3, PTL DEF Spec

(* ConservationHolds: whatever the order of the calls and messages, what   *)
(* is held and what is in flight is what was created and not destroyed.    *)
THEOREM ConservationHolds == Spec => []Conservation
<1>1. Init => TypeInv /\ QuantityInv
  BY InitType, InitQuantity
<1>2. TypeInv /\ QuantityInv /\ [Next]_vars => (TypeInv /\ QuantityInv)'
  BY StepType, StepQuantity
<1>3. QuantityInv => Conservation
  BY DEF QuantityInv, Conservation, HeldIn, Quantities, Sent
<1> QED
  BY <1>1, <1>2, <1>3, PTL DEF Spec

-----------------------------------------------------------------------------
(* Entries, marks and liquidity of a nonce that was created with           *)
(* SaveToSystemAccountFlag.                                                *)

(* Instances: the metadata was never kept with the accounts, a flag that   *)
(* is active stays active, the wipe of a single nonce counts (or there is  *)
(* none), and messages between two shards arrive in order while the        *)
(* metadata is sent only once.                                             *)
CreatedSinceSaved ==
  \A e \in DOMAIN EpochFlags : "SaveToSystemAccountFlag" \in EpochFlags[e]

SendAlwaysStays ==
  \A e \in DOMAIN EpochFlags :
    "SendAlwaysFlag" \in EpochFlags[e] /\ e + 1 \in DOMAIN EpochFlags
      => "SendAlwaysFlag" \in EpochFlags[e + 1]

WipeCounts ==
  "wipe" \in Commands =>
    \A e \in DOMAIN EpochFlags :
      "SendAlwaysFlag" \in EpochFlags[e]
        => "WipeSingleNFTLiquidityDecreaseFlag" \in EpochFlags[e]

InOrderUnlessAlwaysSent ==
  InOrder \/ \A e \in DOMAIN EpochFlags : "SendAlwaysFlag" \in EpochFlags[e]

SystemMetadata ==
  /\ CreatedSinceSaved /\ SendAlwaysStays
  /\ WipeCounts /\ InOrderUnlessAlwaysSent

ShardAccounts(s) == {a \in Accounts : ShardOf[a] = s}
Held(u, s) == SumFunction([a \in ShardAccounts(s) |-> u[a].value])

(* Entry e stands for h pieces on the accounts of its shard: it counts     *)
(* liquidity only if that is h, and it is there if h is not zero.          *)
CountsFor(e, h) ==
  /\ e.meta = NoMeta => e = NoEntry
  /\ h > 0 => e.meta # NoMeta
  /\ e.reserved => e.value = h

\* ... and an entry that counts is deleted with the last piece.
Fits(e, h) == CountsFor(e, h) /\ (e.reserved => h > 0)

EntryInv ==
  /\ \A a \in Accounts : user[a].meta = NoMeta
  /\ \A s \in Shards : Fits(sys[s], Held(user, s))

Brings(m, s, d) == ShardOf[m.from] = s /\ ShardOf[m.to] = d /\ m.meta # NoMeta

(* Until metadata is in every transfer: a shard that is marked has the     *)
(* metadata or will get it from the shard that marked it; who sends has    *)
(* it; and a message without it comes after one that brings it.            *)
Marks(y, n) ==
  /\ \A s, d \in Shards : d \in y[s].sentTo =>
       y[d].meta # NoMeta \/ \E j \in 1..Len(n) : Brings(n[j], s, d)
  /\ \A i \in 1..Len(n) :
       LET s == ShardOf[n[i].from]
           d == ShardOf[n[i].to] IN
       /\ y[s].meta # NoMeta
       /\ n[i].meta = NoMeta =>
            y[d].meta # NoMeta \/ \E j \in 1..(i - 1) : Brings(n[j], s, d)

OnceEntries == \A s \in Shards : ~sys[s].reserved
OnceInv == OnceEntries /\ Marks(sys, net)

MetadataInv == EntryInv /\ (~SendAlways => OnceInv)

\* ... of the entries alone, whatever carries the messages
EntriesInv == EntryInv /\ (~SendAlways => OnceEntries)

\* No metadata goes, and a new mark is for a shard that has the metadata.
KeepsMarks(y, z) ==
  /\ \A s \in Shards : y[s].meta # NoMeta => z[s].meta # NoMeta
  /\ \A s, d \in Shards : d \in z[s].sentTo => d \in y[s].sentTo \/ z[d].meta # NoMeta

\* A step that keeps the entries right, and the marks while they count
EntriesStep ==
  /\ EntryInv'
  /\ ~SendAlways' => ~SendAlways /\ OnceEntries' /\ KeepsMarks(sys, sys')

LEMMA HeldType ==
  ASSUME NEW u \in [Accounts -> Record], NEW s
  PROVE  /\ IsFiniteSet(ShardAccounts(s))
         /\ [a \in ShardAccounts(s) |-> u[a].value] \in [ShardAccounts(s) -> Int]
         /\ Held(u, s) \in Nat
         /\ \A a \in ShardAccounts(s) : u[a].value <= Held(u, s)
<1> DEFINE S == ShardAccounts(s)
           f == [a \in S |-> u[a].value]
<1>1. IsFiniteSet(S) /\ S \subseteq Accounts
  BY NftAssumption, FS_Subset DEF ShardAccounts
<1>2. f \in [S -> Nat] /\ f \in [S -> Int]
  BY <1>1 DEF Record
<1>3. Held(u, s) = SumFunction(f)
  BY DEF Held
<1>4. \A a \in S : f[a] = u[a].value
  OBVIOUS
<1> HIDE DEF S, f
<1>5. SumFunction(f) \in Nat /\ \A a \in S : f[a] <= SumFunction(f)
  BY <1>1, <1>2, SumNat, SumBounds
<1> QED
  BY <1>1, <1>2, <1>3, <1>4, <1>5 DEF S, f

LEMMA HeldZero ==
  ASSUME NEW u \in [Accounts -> Record], NEW s,
         \A a \in ShardAccounts(s) : u[a].value = 0
  PROVE  Held(u, s) = 0
<1> DEFINE f == [a \in ShardAccounts(s) |-> u[a].value]
<1>1. IsFiniteSet(ShardAccounts(s)) /\ f \in [ShardAccounts(s) -> Int]
  BY HeldType
<1>2. \A a \in ShardAccounts(s) : f[a] = 0
  OBVIOUS
<1>3. Held(u, s) = SumFunction(f)
  BY DEF Held
<1> HIDE DEF f
<1> QED
  BY <1>1, <1>2, <1>3, SumZero

LEMMA HeldKept ==
  ASSUME NEW u \in [Accounts -> Record], NEW w \in [Accounts -> Record], NEW s,
         \A a \in ShardAccounts(s) : w[a].value = u[a].value
  PROVE  Held(w, s) = Held(u, s)
BY DEF Held

LEMMA HeldMoved ==
  ASSUME NEW u \in [Accounts -> Record], NEW w \in [Accounts -> Record],
         NEW a \in Accounts, NEW n \in Int, w[a].value = u[a].value + n,
         \A b \in Accounts \ {a} : w[b].value = u[b].value
  PROVE  /\ Held(w, ShardOf[a]) = Held(u, ShardOf[a]) + n
         /\ \A s \in Shards \ {ShardOf[a]} : Held(w, s) = Held(u, s)
<1> DEFINE S == ShardAccounts(ShardOf[a])
           f == [b \in S |-> u[b].value]
           g == [b \in S |-> w[b].value]
<1>1. /\ IsFiniteSet(S) /\ f \in [S -> Int] /\ g \in [S -> Int]
      /\ Held(u, ShardOf[a]) \in Int
  BY HeldType
<1>2. a \in S /\ S \subseteq Accounts
  BY DEF ShardAccounts
<1>3. f[a] = u[a].value /\ g[a] = w[a].value /\ \A b \in S \ {a} : g[b] = f[b]
  BY <1>2
<1>4. Held(u, ShardOf[a]) = SumFunction(f) /\ Held(w, ShardOf[a]) = SumFunction(g)
  BY DEF Held
<1>5. u[a].value \in Int
  BY DEF Record
<1> HIDE DEF S, f, g
<1>6. SumFunction(g) = SumFunction(f) + g[a] - f[a]
  <2>1. \A p, q \in [S -> Int] : (\A b \in S \ {a} : q[b] = p[b])
          => SumFunction(q) = SumFunction(p) + q[a] - p[a]
    BY <1>1, <1>2, SumUpdate
  <2> QED
    BY <1>1, <1>3, <2>1
<1>7. Held(w, ShardOf[a]) = Held(u, ShardOf[a]) + n
  BY <1>1, <1>3, <1>4, <1>5, <1>6
<1>8. ASSUME NEW s \in Shards \ {ShardOf[a]}
      PROVE  Held(w, s) = Held(u, s)
  <2>1. \A b \in ShardAccounts(s) : w[b].value = u[b].value
    BY DEF ShardAccounts
  <2> QED
    BY <2>1, HeldKept
<1> QED
  BY <1>7, <1>8

LEMMA HeldChanged ==
  ASSUME NEW u \in [Accounts -> Record], NEW w \in [Accounts -> Record],
         NEW a \in Accounts, NEW n \in Int, w[a].value = u[a].value + n,
         \A b \in Accounts \ {a} : w[b] = u[b]
  PROVE  /\ Held(w, ShardOf[a]) = Held(u, ShardOf[a]) + n
         /\ \A s \in Shards \ {ShardOf[a]} : Held(w, s) = Held(u, s)
<1>1. \A b \in Accounts \ {a} : w[b].value = u[b].value
  OBVIOUS
<1> QED
  BY <1>1, HeldMoved

-----------------------------------------------------------------------------
(* What the helpers do to an entry that fits.                              *)

LEMMA WithMetaCounted ==
  ASSUME NEW e \in Entry, NEW h \in Nat, Fits(e, h),
         NEW u, u.meta = NoMeta, NEW m \in Metas, NEW t, NEW s, NEW must,
         NEW r, r = WithMeta(e, u, m, t, s, must)
  PROVE  /\ CountsFor(r, h)
         /\ m # NoMeta /\ SaveToSystem => r.meta # NoMeta
         /\ e.meta # NoMeta => Fits(r, h) /\ r.meta # NoMeta
<1> DEFINE new == [value |-> 0,
                   reserved |-> SendAlways /\ e = NoEntry /\ ~(FixOldTokenLiquidity /\ u.meta # NoMeta),
                   meta |-> m,
                   sentTo |-> IF SendAlways THEN {} ELSE {s, t}]
<1>1. CASE ~SaveToSystem \/ m = NoMeta
  BY <1>1 DEF WithMeta, Fits
<1>2. CASE SaveToSystem /\ m # NoMeta /\ ~must /\ e # NoEntry
  <2>1. e.meta # NoMeta
    BY <1>2 DEF Fits, CountsFor
  <2>2. Fits(Refreshed(e, m), h) /\ Refreshed(e, m).meta # NoMeta
    <3>1. [e EXCEPT !.meta = m].reserved = e.reserved /\ [e EXCEPT !.meta = m].meta = m
      BY DEF Entry
    <3> QED
      BY <1>2, <2>1, <3>1 DEF Refreshed, Fits, CountsFor
  <2> QED
    BY <1>2, <2>2 DEF WithMeta, Fits
<1>3. CASE SaveToSystem /\ m # NoMeta /\ ~(~must /\ e # NoEntry)
  <2>1. r = new
    BY <1>3 DEF WithMeta
  <2>2. new.meta = m /\ new.value = 0 /\ (new.reserved => e = NoEntry)
    OBVIOUS
  <2>3. e = NoEntry => h = 0 /\ e.meta = NoMeta
    BY DEF Fits, CountsFor, NoEntry
  <2> HIDE DEF new
  <2> QED
    BY <1>3, <2>1, <2>2, <2>3 DEF Fits, CountsFor
<1> QED
  BY <1>1, <1>2, <1>3

LEMMA WithLiquidityFits ==
  ASSUME NEW e \in Entry, NEW h \in Nat, CountsFor(e, h), e.meta # NoMeta,
         ~CountsLiquidity => ~e.reserved,
         NEW n \in Int, h + n >= 0, h > 0 \/ n >= 0
  PROVE  Fits(WithLiquidity(e, n), h + n)
<1>1. CASE ~e.reserved
  BY <1>1 DEF WithLiquidity, Fits, CountsFor
<1>2. CASE e.reserved
  <2>1. CountsLiquidity /\ e.value = h
    BY <1>2 DEF CountsFor
  <2>2. ~(e.value = 0 /\ n < 0)
    BY <2>1
  <2>3. CASE h + n = 0
    <3>1. WithLiquidity(e, n) = NoEntry
      BY <1>2, <2>1, <2>2, <2>3 DEF WithLiquidity
    <3> QED
      BY <2>3, <3>1 DEF Fits, CountsFor, NoEntry
  <2>4. CASE h + n # 0
    <3> DEFINE r == [e EXCEPT !.value = @ + n]
    <3>1. WithLiquidity(e, n) = r
      BY <1>2, <2>1, <2>2, <2>4 DEF WithLiquidity
    <3>2. r.value = h + n /\ r.meta = e.meta
      BY <2>1 DEF Entry
    <3> HIDE DEF r
    <3> QED
      BY <2>4, <3>1, <3>2 DEF Fits, CountsFor
  <2> QED
    BY <2>3, <2>4
<1> QED
  BY <1>1, <1>2

LEMMA MarkedFits ==
  ASSUME NEW e \in Entry, NEW h, Fits(e, h), NEW d
  PROVE  /\ Fits(Marked(e, d), h)
         /\ Marked(e, d).meta = e.meta /\ Marked(e, d).reserved = e.reserved
<1>1. [e EXCEPT !.sentTo = @ \cup {d}].value = e.value
      /\ [e EXCEPT !.sentTo = @ \cup {d}].meta = e.meta
      /\ [e EXCEPT !.sentTo = @ \cup {d}].reserved = e.reserved
  BY DEF Entry
<1> QED
  BY <1>1 DEF Marked, Fits, CountsFor

-----------------------------------------------------------------------------
(* What keeps the marks right.                                             *)

LEMMA MarksKept ==
  ASSUME NEW y, NEW z, NEW n \in Seq(Message), Marks(y, n),
         \A s \in Shards : y[s].meta # NoMeta => z[s].meta # NoMeta,
         \A s, d \in Shards : d \in z[s].sentTo =>
           \/ d \in y[s].sentTo
           \/ z[d].meta # NoMeta
           \/ \E j \in 1..Len(n) : Brings(n[j], s, d)
  PROVE  Marks(z, n)
<1>1. \A i \in 1..Len(n) : ShardOf[n[i].from] \in Shards /\ ShardOf[n[i].to] \in Shards
  <2>1. \A i \in 1..Len(n) : n[i] \in Message
    OBVIOUS
  <2> QED
    BY <2>1, NftAssumption DEF Message
<1> QED
  BY <1>1 DEF Marks

LEMMA MarksAppended ==
  ASSUME NEW y, NEW n \in Seq(Message), Marks(y, n), NEW m \in Message,
         y[ShardOf[m.from]].meta # NoMeta,
         m.meta = NoMeta =>
           \/ y[ShardOf[m.to]].meta # NoMeta
           \/ \E j \in 1..Len(n) : Brings(n[j], ShardOf[m.from], ShardOf[m.to])
  PROVE  Marks(y, Append(n, m))
<1> DEFINE p == Append(n, m)
<1>1. /\ Len(n) \in Nat /\ Len(p) = Len(n) + 1 /\ p[Len(n) + 1] = m
      /\ \A j \in 1..Len(n) : p[j] = n[j]
  OBVIOUS
<1> HIDE DEF p
<1>2. ASSUME NEW s \in Shards, NEW d \in Shards, d \in y[s].sentTo
      PROVE  y[d].meta # NoMeta \/ \E j \in 1..Len(p) : Brings(p[j], s, d)
  BY <1>1, <1>2 DEF Marks
<1>3. ASSUME NEW i \in 1..Len(p)
      PROVE  LET s == ShardOf[p[i].from]
                 d == ShardOf[p[i].to] IN
             /\ y[s].meta # NoMeta
             /\ p[i].meta = NoMeta =>
                  y[d].meta # NoMeta \/ \E j \in 1..(i - 1) : Brings(p[j], s, d)
  <2>1. CASE i \in 1..Len(n)
    <3>1. p[i] = n[i] /\ \A j \in 1..(i - 1) : p[j] = n[j]
      BY <1>1, <2>1
    <3> QED
      BY <2>1, <3>1 DEF Marks
  <2>2. CASE i = Len(n) + 1
    <3>1. p[i] = m /\ i - 1 = Len(n)
      BY <1>1, <2>2
    <3> QED
      BY <1>1, <3>1
  <2> QED
    BY <1>1, <2>1, <2>2
<1> QED
  BY <1>2, <1>3 DEF Marks, p

LEMMA MarksRemoved ==
  ASSUME NEW y, NEW n \in Seq(Message), Marks(y, n), NEW i \in 1..Len(n),
         y[ShardOf[n[i].to]].meta # NoMeta
  PROVE  Marks(y, RemoveAt(n, i))
<1> DEFINE p == RemoveAt(n, i)
<1>1. /\ Len(n) \in Nat /\ Len(p) = Len(n) - 1
      /\ \A j \in 1..(Len(n) - 1) : p[j] = IF j < i THEN n[j] ELSE n[j + 1]
  BY RemoveAtProperties
<1> HIDE DEF p
<1>2. ASSUME NEW s, NEW d, NEW j \in 1..Len(n), Brings(n[j], s, d), j # i
      PROVE  \E k \in 1..Len(p) : Brings(p[k], s, d) /\ k <= j /\ (j > i => k < j)
  <2>1. CASE j < i
    <3>1. j \in 1..Len(p) /\ p[j] = n[j]
      BY <1>1, <2>1
    <3> QED
      BY <1>2, <2>1, <3>1
  <2>2. CASE j > i
    <3>1. j - 1 \in 1..Len(p) /\ p[j - 1] = n[j]
      BY <1>1, <2>2
    <3> QED
      BY <1>2, <2>2, <3>1
  <2> QED
    BY <1>1, <1>2, <2>1, <2>2
<1>3. ASSUME NEW s \in Shards, NEW d \in Shards, d \in y[s].sentTo, y[d].meta = NoMeta
      PROVE  \E k \in 1..Len(p) : Brings(p[k], s, d)
  <2>1. PICK j \in 1..Len(n) : Brings(n[j], s, d)
    BY <1>3 DEF Marks
  <2>2. j # i
    BY <1>3, <2>1 DEF Brings
  <2> QED
    BY <1>2, <2>1, <2>2
<1>4. ASSUME NEW k \in 1..Len(p)
      PROVE  LET s == ShardOf[p[k].from]
                 d == ShardOf[p[k].to] IN
             /\ y[s].meta # NoMeta
             /\ p[k].meta = NoMeta =>
                  y[d].meta # NoMeta \/ \E j \in 1..(k - 1) : Brings(p[j], s, d)
  <2> DEFINE o == IF k < i THEN k ELSE k + 1
             s == ShardOf[p[k].from]
             d == ShardOf[p[k].to]
  <2>1. o \in 1..Len(n) /\ p[k] = n[o] /\ o # i
    BY <1>1
  <2>2. /\ y[s].meta # NoMeta
        /\ p[k].meta = NoMeta =>
             y[d].meta # NoMeta \/ \E j \in 1..(o - 1) : Brings(n[j], s, d)
    BY <2>1 DEF Marks
  <2>3. ASSUME NEW j \in 1..(o - 1), Brings(n[j], s, d), y[d].meta = NoMeta
        PROVE  \E l \in 1..(k - 1) : Brings(p[l], s, d)
    <3>1. j \in 1..Len(n) /\ j # i
      BY <1>1, <2>1, <2>3 DEF Brings
    <3>2. PICK l \in 1..Len(p) : Brings(p[l], s, d) /\ l <= j /\ (j > i => l < j)
      BY <1>2, <2>3, <3>1
    <3>3. l < k
      BY <1>1, <2>1, <3>1, <3>2
    <3>4. l \in 1..(k - 1)
      BY <1>1, <3>3
    <3> QED
      BY <3>2, <3>4
  <2> HIDE DEF s, d
  <2>4. p[k].meta = NoMeta =>
          y[d].meta # NoMeta \/ \E j \in 1..(k - 1) : Brings(p[j], s, d)
    BY <2>2, <2>3
  <2> QED
    BY <2>2, <2>4 DEF s, d
<1> QED
  BY <1>3, <1>4 DEF Marks, p

-----------------------------------------------------------------------------
(* The invariant: what holds in a state that satisfies it.                 *)

LEMMA FlagsStay ==
  ASSUME SystemMetadata, TypeInv
  PROVE  /\ SaveToSystem
         /\ InOrder \/ SendAlways
         /\ CountsLiquidity <=> SendAlways
BY DEF SystemMetadata, CreatedSinceSaved, InOrderUnlessAlwaysSent, TypeInv,
       SaveToSystem, SendAlways, Active, CountsLiquidity

(* Who moves some of the token has some, and its shard has the entry.      *)
LEMMA MoverHolds ==
  ASSUME SystemMetadata, TypeInv, EntryInv, NEW a \in Accounts,
         user[a] # NoRecord, MaySave(a, user[a].frozen, FALSE)
  PROVE  LET s == ShardOf[a] IN
         /\ s \in Shards /\ user[a].value > 0
         /\ Held(user, s) \in Nat /\ user[a].value <= Held(user, s)
         /\ Fits(sys[s], Held(user, s)) /\ sys[s].meta # NoMeta
         /\ EntryAfterSave(a) = sys[s]
         /\ MetaOf(user[a], sys[s]) = sys[s].meta
         /\ \A u : WithMeta(sys[s], u, sys[s].meta, s, s, FALSE) = sys[s]
<1> DEFINE s == ShardOf[a]
<1>1. /\ s \in Shards /\ a \in ShardAccounts(s) /\ user[a] \in Record /\ sys[s] \in Entry
      /\ SaveToSystem
  BY FlagsStay, NftAssumption DEF TypeInv, ShardAccounts
<1>2. user[a].meta = NoMeta /\ ~user[a].frozen
  BY DEF EntryInv, MaySave
<1>3. user[a].value > 0 /\ user[a].value \in Nat
  <2>1. user[a].value # 0
    BY <1>1, <1>2 DEF Record, NoRecord
  <2>2. user[a].value \in Nat
    BY <1>1 DEF Record
  <2> QED
    BY <2>1, <2>2
<1>4. Held(user, s) \in Nat /\ user[a].value <= Held(user, s)
  BY <1>1, HeldType DEF TypeInv
<1>5. Fits(sys[s], Held(user, s))
  BY <1>1 DEF EntryInv
<1>6. Held(user, s) > 0
  BY <1>3, <1>4
<1>7. sys[s].meta # NoMeta
  BY <1>5, <1>6 DEF Fits, CountsFor
<1>8. MetaOf(user[a], sys[s]) = sys[s].meta
  BY <1>1, <1>7 DEF MetaOf
<1>9. sys[s] # NoEntry /\ Refreshed(sys[s], sys[s].meta) = sys[s]
  <2>1. [sys[s] EXCEPT !.meta = sys[s].meta] = sys[s]
    BY <1>1 DEF Entry
  <2> QED
    BY <1>7, <2>1 DEF Refreshed, NoEntry
<1>10. \A u : WithMeta(sys[s], u, sys[s].meta, s, s, FALSE) = sys[s]
  BY <1>1, <1>7, <1>9 DEF WithMeta
<1>11. EntryAfterSave(a) = sys[s]
  BY <1>8, <1>10 DEF EntryAfterSave
<1> QED
  BY <1>1, <1>3, <1>4, <1>5, <1>7, <1>8, <1>10, <1>11

(* A step that changes the pieces of one account and the entry of its      *)
(* shard.                                                                  *)
LEMMA EntryStep ==
  ASSUME TypeInv, TypeInv', EntryInv, NEW a \in Accounts, NEW n \in Int, NEW e,
         user'[a].value = user[a].value + n, user'[a].meta = NoMeta,
         \A b \in Accounts \ {a} : user'[b] = user[b],
         sys' = [sys EXCEPT ![ShardOf[a]] = e],
         Fits(e, Held(user, ShardOf[a]) + n)
  PROVE  EntryInv'
<1>1. /\ user \in [Accounts -> Record] /\ user' \in [Accounts -> Record]
      /\ ShardOf[a] \in Shards /\ sys \in [Shards -> Entry]
  BY NftAssumption DEF TypeInv
<1>2. \A b \in Accounts : user'[b].meta = NoMeta
  BY DEF EntryInv
<1>3. /\ Held(user', ShardOf[a]) = Held(user, ShardOf[a]) + n
      /\ \A s \in Shards \ {ShardOf[a]} : Held(user', s) = Held(user, s)
  BY <1>1, HeldChanged
<1>4. \A s \in Shards : Fits(sys'[s], Held(user', s))
  BY <1>1, <1>3 DEF EntryInv
<1> QED
  BY <1>2, <1>4 DEF EntryInv

(* ... and one that changes neither, apart from entries that still fit.    *)
LEMMA EntryStutter ==
  ASSUME TypeInv, TypeInv', EntryInv,
         \A a \in Accounts : user'[a].value = user[a].value /\ user'[a].meta = NoMeta,
         \A s \in Shards : Fits(sys'[s], Held(user, s))
  PROVE  EntryInv'
<1>1. user \in [Accounts -> Record] /\ user' \in [Accounts -> Record]
  BY DEF TypeInv
<1>2. \A s \in Shards : Held(user', s) = Held(user, s)
  BY <1>1, HeldKept DEF ShardAccounts
<1> QED
  BY <1>2 DEF EntryInv

(* Entry r has the marks of e, or metadata and the marks of two shards.    *)
TakesMarks(r, e, s, t) ==
  r.sentTo = e.sentTo \/ (r.meta # NoMeta /\ r.sentTo = {s, t})

(* What saving metadata does to an entry before SendAlwaysFlag.            *)
LEMMA WithMetaOnce ==
  ASSUME ~SendAlways, NEW e \in Entry, ~e.reserved,
         NEW u, NEW m \in Metas, NEW t, NEW s, NEW must,
         NEW r, r = WithMeta(e, u, m, t, s, must)
  PROVE  /\ ~r.reserved
         /\ e.meta # NoMeta => r.meta # NoMeta
         /\ TakesMarks(r, e, s, t)
BY DEF WithMeta, Refreshed, Entry, TakesMarks

(* The entry of shard s takes the marks of s and t, or keeps its own.      *)
LEMMA OnceStep ==
  ASSUME TypeInv, OnceEntries, NEW s \in Shards, NEW t \in Shards, NEW e,
         sys' = [sys EXCEPT ![s] = e],
         ~e.reserved, sys[s].meta # NoMeta => e.meta # NoMeta,
         TakesMarks(e, sys[s], s, t),
         t = s \/ sys[t].meta # NoMeta
  PROVE  OnceEntries' /\ KeepsMarks(sys, sys')
<1>1. sys'[s] = e /\ \A x \in Shards \ {s} : sys'[x] = sys[x]
  BY DEF TypeInv
<1>2. /\ \A x \in Shards : ~sys'[x].reserved
      /\ \A x \in Shards : sys[x].meta # NoMeta => sys'[x].meta # NoMeta
  BY <1>1 DEF OnceEntries
<1>3. ASSUME NEW x \in Shards, NEW d \in Shards, d \in sys'[x].sentTo
      PROVE  d \in sys[x].sentTo \/ sys'[d].meta # NoMeta
  <2>1. CASE x = s /\ e.sentTo # sys[s].sentTo
    <3>1. d \in {s, t} /\ e.meta # NoMeta
      BY <1>1, <1>3, <2>1 DEF TakesMarks
    <3> QED
      BY <1>1, <1>2, <3>1
  <2>2. CASE ~(x = s /\ e.sentTo # sys[s].sentTo)
    BY <1>1, <1>3, <2>2
  <2> QED
    BY <2>1, <2>2
<1> QED
  BY <1>2, <1>3 DEF OnceEntries, KeepsMarks

(* The messages are right for the entries that such a step leaves.         *)
LEMMA MarksStay ==
  ASSUME NEW y, NEW z, NEW n \in Seq(Message), Marks(y, n), KeepsMarks(y, z)
  PROVE  Marks(z, n)
<1>1. /\ \A s \in Shards : y[s].meta # NoMeta => z[s].meta # NoMeta
      /\ \A s, d \in Shards : d \in z[s].sentTo => d \in y[s].sentTo \/ z[d].meta # NoMeta
  BY DEF KeepsMarks
<1> QED
  BY <1>1, MarksKept

(* A step that changes no entry *)
LEMMA EntriesUnchanged ==
  ASSUME EntriesInv, EntryInv', sys' = sys, ~SendAlways' => ~SendAlways
  PROVE  EntriesStep
BY DEF EntriesInv, EntriesStep, OnceEntries, KeepsMarks

(* ... and one that puts no message on its way *)
LEMMA EntriesKeep ==
  ASSUME TypeInv, MetadataInv, EntriesStep, net' = net
  PROVE  MetadataInv'
<1>1. EntryInv' /\ (~SendAlways' => ~SendAlways /\ OnceEntries' /\ KeepsMarks(sys, sys'))
  BY DEF EntriesStep
<1>2. ASSUME ~SendAlways' PROVE Marks(sys', net')
  <2> DEFINE z == sys'
  <2>1. net \in Seq(Message) /\ Marks(sys, net) /\ KeepsMarks(sys, z)
    BY <1>1, <1>2 DEF TypeInv, MetadataInv, OnceInv
  <2> HIDE DEF z
  <2>2. Marks(z, net)
    BY <2>1, MarksStay
  <2> QED
    BY <2>2 DEF z
<1> QED
  BY <1>1, <1>2 DEF MetadataInv, OnceInv

LEMMA MetadataEntries == MetadataInv => EntriesInv
BY DEF MetadataInv, EntriesInv, OnceInv

LEMMA SameEpoch ==
  ASSUME epoch' = epoch
  PROVE  SendAlways' = SendAlways
BY DEF SendAlways, Active

(* A message that may be executed finds the metadata that it does not      *)
(* bring.                                                                  *)
LEMMA ExecutableFinds ==
  ASSUME TypeInv, OnceInv, InOrder, NEW i \in 1..Len(net), Executable(i)
  PROVE  /\ sys[ShardOf[net[i].from]].meta # NoMeta
         /\ net[i].meta = NoMeta => sys[ShardOf[net[i].to]].meta # NoMeta
<1>1. i \in Int /\ Len(net) \in Nat
  BY DEF TypeInv
<1>2. /\ sys[ShardOf[net[i].from]].meta # NoMeta
      /\ net[i].meta = NoMeta =>
           \/ sys[ShardOf[net[i].to]].meta # NoMeta
           \/ \E j \in 1..(i - 1) : Brings(net[j], ShardOf[net[i].from], ShardOf[net[i].to])
  BY DEF OnceInv, Marks
<1> QED
  BY <1>2 DEF Executable, Brings

-----------------------------------------------------------------------------
(* Every step keeps the invariant: one lemma for each kind of step that    *)
(* writes entries.                                                         *)

LEMMA TransferInShardEntries ==
  ASSUME SystemMetadata, TypeInv, TypeInv', EntriesInv,
         NEW a \in Accounts, NEW b \in Accounts, NEW v \in Amounts,
         TransferInShard(a, b, v)
  PROVE  EntriesStep
<1> DEFINE s == ShardOf[a]
           m == MetaOf(user[a], sys[s])
           kept == Taken(a, v)
           got == Stored(kept[b].value + v, FALSE, m)
<1>0. EntryInv /\ SaveToSystem /\ user \in [Accounts -> Record]
  BY FlagsStay DEF EntriesInv, TypeInv
<1>1. /\ a # b /\ ShardOf[b] = s /\ v \in Int /\ v \in Nat /\ -v \in Int
      /\ user[a] # NoRecord /\ MaySave(a, user[a].frozen, FALSE)
      /\ user[a].value - v >= 0
      /\ user' = [kept EXCEPT ![b] = got]
      /\ sys' = [sys EXCEPT ![s] = WithMeta(EntryAfterSave(a), user[b], m, s, s, FALSE)]
      /\ net' = net /\ epoch' = epoch
  <2>1. v \in Nat /\ user[a].value \in Nat
    BY <1>0, NftAssumption DEF Record
  <2>2. user[a].value >= v /\ user[a] # NoRecord /\ MaySave(a, user[a].frozen, FALSE)
    BY DEF TransferInShard, CanTake
  <2>3. /\ v \in Int /\ -v \in Int /\ user[a].value - v >= 0
    BY <2>1, <2>2
  <2> QED
    BY <2>1, <2>2, <2>3 DEF TransferInShard
<1>2. /\ s \in Shards /\ EntryAfterSave(a) = sys[s] /\ m = sys[s].meta
      /\ WithMeta(sys[s], user[b], sys[s].meta, s, s, FALSE) = sys[s]
  BY <1>0, <1>1, MoverHolds
<1>3. sys' = sys
  BY <1>1, <1>2 DEF TypeInv
<1>4. /\ kept \in [Accounts -> Record] /\ m \in Metas
      /\ kept[a].value = user[a].value - v
      /\ kept[a].meta = NoMeta
      /\ \A c \in Accounts \ {a} : kept[c] = user[c]
  BY <1>0, <1>1, TakenProperties, EntryAfterSaveType
<1>5. kept[b].value + v \in Nat /\ kept[a].value = user[a].value + (-v)
  BY <1>0, <1>1, <1>4 DEF Record
<1>6. got.value = kept[b].value + v /\ got.meta = NoMeta
  BY <1>0, <1>4, <1>5, UnfrozenProperties
<1> HIDE DEF kept, got, m
<1>7. /\ user' \in [Accounts -> Record] /\ user'[b] = got
      /\ \A c \in Accounts \ {b} : user'[c] = kept[c]
  BY <1>1, <1>4 DEF TypeInv
<1>8. /\ Held(kept, s) = Held(user, s) + (-v)
      /\ \A x \in Shards \ {s} : Held(kept, x) = Held(user, x)
  BY <1>0, <1>1, <1>4, <1>5, HeldChanged
<1>9. /\ Held(user', s) = Held(kept, s) + v
      /\ \A x \in Shards \ {s} : Held(user', x) = Held(kept, x)
  <2> DEFINE w == user'
  <2>1. /\ w \in [Accounts -> Record] /\ w[b].value = kept[b].value + v
        /\ \A c \in Accounts \ {b} : w[c] = kept[c]
    BY <1>6, <1>7
  <2> HIDE DEF w
  <2>2. /\ Held(w, ShardOf[b]) = Held(kept, ShardOf[b]) + v
        /\ \A x \in Shards \ {ShardOf[b]} : Held(w, x) = Held(kept, x)
    BY <1>1, <1>4, <2>1, HeldChanged
  <2> QED
    BY <1>1, <2>2 DEF w
<1>10. Held(user, s) \in Nat
  BY <1>0, HeldType
<1>11. ASSUME NEW x \in Shards
       PROVE  Held(user', x) = Held(user, x)
  <2>1. CASE x = s
    <3> DEFINE p == Held(user, s)
               q == Held(kept, s)
               r == Held(user', s)
    <3>1. q = p + (-v) /\ r = q + v /\ p \in Int /\ v \in Int
      BY <1>1, <1>8, <1>9, <1>10
    <3> HIDE DEF p, q, r
    <3>2. r = p
      BY <3>1
    <3> QED
      BY <2>1, <3>2 DEF p, r
  <2>2. CASE x # s
    BY <1>8, <1>9, <2>2
  <2> QED
    BY <2>1, <2>2
<1>12. \A c \in Accounts : user'[c].meta = NoMeta
  BY <1>0, <1>4, <1>6, <1>7 DEF EntryInv
<1> HIDE DEF s
<1>13. EntryInv'
  BY <1>0, <1>3, <1>11, <1>12 DEF EntryInv
<1> QED
  <2>1. ~SendAlways' => ~SendAlways
    BY <1>1, SameEpoch
  <2> QED
    BY <1>3, <1>13, <2>1, EntriesUnchanged

LEMMA SendAcrossMetadata ==
  ASSUME SystemMetadata, TypeInv, TypeInv', MetadataInv,
         NEW a \in Accounts, NEW b \in Accounts, NEW v \in Amounts,
         SendAcross(a, b, v)
  PROVE  MetadataInv'
<1> DEFINE s == ShardOf[a]
           d == ShardOf[b]
           left == WithLiquidity(EntryAfterSave(a), -v)
           sent == [from |-> a, to |-> b, value |-> v, retErr |-> FALSE,
                    meta |-> IF ~WasAlreadySent(left, d) \/ v = 1
                               THEN MetaOf(user[a], sys[s]) ELSE NoMeta]
<1>0. /\ EntryInv /\ SaveToSystem /\ user \in [Accounts -> Record] /\ net \in Seq(Message)
      /\ d \in Shards /\ sys \in [Shards -> Entry]
      /\ CountsLiquidity <=> SendAlways
  BY FlagsStay, NftAssumption DEF MetadataInv, TypeInv
<1>1. /\ v \in Int /\ v \in Nat /\ -v \in Int
      /\ user[a] # NoRecord /\ MaySave(a, user[a].frozen, FALSE)
      /\ user[a].value - v >= 0
      /\ CanAddLiquidity(EntryAfterSave(a), -v)
      /\ user' = Taken(a, v)
      /\ sys' = [sys EXCEPT ![s] = Marked(left, d)]
      /\ net' = Append(net, sent) /\ epoch' = epoch
  <2>1. v \in Nat /\ user[a].value \in Nat
    BY <1>0, NftAssumption DEF Record
  <2>2. user[a].value >= v /\ user[a] # NoRecord /\ MaySave(a, user[a].frozen, FALSE)
    BY DEF SendAcross, CanTake
  <2>3. /\ v \in Int /\ -v \in Int /\ user[a].value - v >= 0
    BY <2>1, <2>2
  <2> QED
    BY <2>1, <2>2, <2>3 DEF SendAcross
<1>2. /\ s \in Shards /\ user[a].value > 0
      /\ Held(user, s) \in Nat /\ user[a].value <= Held(user, s)
      /\ Fits(sys[s], Held(user, s)) /\ sys[s].meta # NoMeta
      /\ EntryAfterSave(a) = sys[s] /\ MetaOf(user[a], sys[s]) = sys[s].meta
  BY <1>0, <1>1, MoverHolds
<1>3. /\ user'[a].value = user[a].value + (-v) /\ user'[a].meta = NoMeta
      /\ \A c \in Accounts \ {a} : user'[c] = user[c]
  <2>1. /\ user'[a].value = user[a].value - v /\ user'[a].meta = NoMeta
        /\ \A c \in Accounts \ {a} : user'[c] = user[c]
    BY <1>0, <1>1, TakenProperties
  <2>2. user[a].value \in Int
    BY <1>0 DEF Record
  <2> QED
    BY <1>1, <2>1, <2>2
<1>4. sys[s] \in Entry /\ CountsFor(sys[s], Held(user, s)) /\ (~CountsLiquidity => ~sys[s].reserved)
  BY <1>0, <1>2 DEF MetadataInv, OnceInv, OnceEntries, Fits
<1>5. left \in Entry
  BY <1>1, <1>2, <1>4, WithLiquidityType
<1>6. Fits(left, Held(user, s) + (-v))
  <2>1. user[a].value \in Int
    BY <1>0 DEF Record
  <2>2. Held(user, s) + (-v) >= 0 /\ Held(user, s) > 0
    BY <1>1, <1>2, <2>1
  <2> QED
    BY <1>1, <1>2, <1>4, <2>2, WithLiquidityFits
<1>7. EntryInv'
  <2>1. Fits(Marked(left, d), Held(user, s) + (-v))
    BY <1>5, <1>6, MarkedFits
  <2> HIDE DEF left, sent
  <2> QED
    BY <1>0, <1>1, <1>3, <2>1, EntryStep
<1>8. ASSUME ~SendAlways
      PROVE  OnceInv'
  <2>1. OnceInv /\ left = sys[s]
    BY <1>0, <1>2, <1>8 DEF MetadataInv, WithLiquidity
  <2>2. /\ sent \in Message /\ sent.from = a /\ sent.to = b
        /\ sent.meta = NoMeta => d \in sys[s].sentTo
        /\ sent.meta \in {NoMeta, sys[s].meta}
    BY <1>0, <1>1, <1>2, <1>4, <2>1, NftAssumption DEF WasAlreadySent, Message, Entry, Metas
  <2> HIDE DEF left, sent
  <2>3. sent.meta = NoMeta =>
          sys[d].meta # NoMeta \/ \E j \in 1..Len(net) : Brings(net[j], s, d)
    BY <1>0, <1>2, <2>1, <2>2 DEF OnceInv, Marks
  <2> DEFINE z == sys'
             n == net'
  <2>4. n \in Seq(Message)
    BY DEF TypeInv
  <2>5. Marks(sys, n)
    <3>1. Marks(sys, net)
      BY <2>1 DEF OnceInv
    <3> QED
      BY <1>0, <1>1, <1>2, <2>2, <2>3, <3>1, MarksAppended
  <2>6. /\ z[s].meta = sys[s].meta /\ ~z[s].reserved
        /\ z[s].sentTo \subseteq sys[s].sentTo \cup {d}
        /\ \A x \in Shards \ {s} : z[x] = sys[x]
    <3>1. /\ Marked(sys[s], d).meta = sys[s].meta
          /\ Marked(sys[s], d).reserved = sys[s].reserved
      BY <1>2, <1>4, MarkedFits
    <3>2. Marked(sys[s], d).sentTo \subseteq sys[s].sentTo \cup {d}
      BY <1>4 DEF Marked, Entry
    <3>3. z[s] = Marked(sys[s], d) /\ \A x \in Shards \ {s} : z[x] = sys[x]
      BY <1>0, <1>1, <1>2, <2>1
    <3> HIDE DEF z
    <3> QED
      BY <1>0, <1>4, <1>8, <3>1, <3>2, <3>3
  <2>7. d \in sys[s].sentTo \/ \E j \in 1..Len(n) : Brings(n[j], s, d)
    <3>1. Len(net) + 1 \in 1..Len(n) /\ n[Len(net) + 1] = sent
      BY <1>0, <1>1
    <3>2. sent.meta # NoMeta => Brings(sent, s, d)
      BY <2>2 DEF Brings
    <3> HIDE DEF n
    <3> QED
      BY <2>2, <3>1, <3>2
  <2>8. \A x, y \in Shards : y \in z[x].sentTo =>
          \/ y \in sys[x].sentTo
          \/ z[y].meta # NoMeta
          \/ \E j \in 1..Len(n) : Brings(n[j], x, y)
    <3> HIDE DEF z, n
    <3> TAKE x, y \in Shards
    <3>1. CASE x = s /\ y = d
      BY <2>7, <3>1
    <3>2. CASE ~(x = s /\ y = d)
      BY <2>6, <3>2
    <3> QED
      BY <3>1, <3>2
  <2>9. /\ \A x \in Shards : sys[x].meta # NoMeta => z[x].meta # NoMeta
        /\ \A x \in Shards : ~z[x].reserved
    <3> HIDE DEF z
    <3> QED
      BY <2>1, <2>6 DEF OnceInv, OnceEntries
  <2> HIDE DEF z, n
  <2>10. Marks(z, n)
    BY <2>4, <2>5, <2>8, <2>9, MarksKept
  <2> QED
    BY <2>9, <2>10 DEF z, n, OnceInv, OnceEntries
<1> HIDE DEF left, sent, s, d
<1> QED
  BY <1>1, <1>7, <1>8, SameEpoch DEF MetadataInv

LEMMA DeliverMetadata ==
  ASSUME SystemMetadata, TypeInv, TypeInv', MetadataInv,
         NEW i \in DOMAIN net, Deliver(i)
  PROVE  MetadataInv'
<1> DEFINE m == net[i]
           s == ShardOf[m.from]
           d == ShardOf[m.to]
           e == EntryAfterArrival(m)
           h == Held(user, d)
           got == Stored(user[m.to].value + m.value, FALSE, m.meta)
<1>0. /\ EntryInv /\ SaveToSystem /\ user \in [Accounts -> Record] /\ net \in Seq(Message)
      /\ sys \in [Shards -> Entry] /\ (InOrder \/ SendAlways)
      /\ CountsLiquidity <=> SendAlways
  BY FlagsStay DEF MetadataInv, TypeInv
<1>1. i \in 1..Len(net) /\ m \in Message
  BY <1>0
<1>2. /\ m.to \in Accounts /\ m.from \in Accounts /\ m.value \in Nat /\ m.meta \in Metas
      /\ s \in Shards /\ d \in Shards /\ FALSE \in BOOLEAN
  BY <1>1, NftAssumption DEF Message, Metas
<1>3. /\ user' = [user EXCEPT ![m.to] = got]
      /\ sys' = [sys EXCEPT ![d] = WithLiquidity(e, m.value)]
      /\ net' = RemoveAt(net, i) /\ epoch' = epoch
      /\ Executable(i) /\ CanAddLiquidity(e, m.value)
  BY DEF Deliver, Accepts
<1>4. /\ user'[m.to].value = user[m.to].value + m.value /\ user'[m.to].meta = NoMeta
      /\ \A c \in Accounts \ {m.to} : user'[c] = user[c]
  <2>1. user[m.to].value + m.value \in Nat
    BY <1>0, <1>2 DEF Record
  <2>2. got.value = user[m.to].value + m.value /\ got.meta = NoMeta
    BY <1>0, <1>2, <2>1, UnfrozenProperties
  <2> HIDE DEF got, m
  <2> QED
    BY <1>0, <1>2, <1>3, <2>2
<1>5. /\ sys[d] \in Entry /\ Fits(sys[d], h) /\ h \in Nat
      /\ user[m.to].meta = NoMeta
  BY <1>0, <1>2, HeldType DEF EntryInv
<1>13. PICK f : e = WithMeta(sys[d], user[m.to], m.meta, s, d, f)
  BY Zenon DEF EntryAfterArrival
<1>6. e \in Entry
  BY <1>1, EntryAfterArrivalType
<1> HIDE DEF s, d, e, h, got, m
<1>7. CountsFor(e, h) /\ (m.meta # NoMeta => e.meta # NoMeta)
      /\ (sys[d].meta # NoMeta => e.meta # NoMeta)
  BY <1>0, <1>2, <1>5, <1>13, WithMetaCounted
<1>8. ASSUME ~SendAlways
      PROVE  /\ OnceInv /\ sys[s].meta # NoMeta
             /\ m.meta = NoMeta => sys[d].meta # NoMeta
             /\ ~e.reserved
             /\ TakesMarks(e, sys[d], d, s)
  <2>1. OnceInv /\ InOrder
    BY <1>0, <1>8 DEF MetadataInv
  <2>2. ~sys[d].reserved
    BY <1>2, <2>1 DEF OnceInv, OnceEntries
  <2>3. sys[s].meta # NoMeta /\ (m.meta = NoMeta => sys[d].meta # NoMeta)
    BY <1>1, <1>3, <2>1, ExecutableFinds DEF m, s, d
  <2>4. /\ ~e.reserved
        /\ TakesMarks(e, sys[d], d, s)
    BY <1>2, <1>5, <1>8, <1>13, <2>2, WithMetaOnce
  <2> QED
    BY <2>1, <2>3, <2>4
<1>9. e.meta # NoMeta
  <2>1. CASE SendAlways
    BY <1>0, <1>3, <1>7, <2>1 DEF CanAddLiquidity, CountsFor
  <2>2. CASE ~SendAlways
    BY <1>7, <1>8, <2>2
  <2> QED
    BY <2>1, <2>2
<1>10. Fits(WithLiquidity(e, m.value), h + m.value)
  <2>1. ~CountsLiquidity => ~e.reserved
    BY <1>0, <1>8
  <2>2. h + m.value >= 0 /\ m.value \in Int /\ m.value >= 0
    BY <1>2, <1>5
  <2> QED
    BY <1>5, <1>6, <1>7, <1>9, <2>1, <2>2, WithLiquidityFits
<1>11. EntryInv'
  <2>1. m.value \in Int
    BY <1>2
  <2> QED
    BY <1>0, <1>2, <1>3, <1>4, <1>10, <2>1, EntryStep DEF h, d
<1>12. ASSUME ~SendAlways
       PROVE  OnceInv'
  <2>1. WithLiquidity(e, m.value) = e
    BY <1>0, <1>12 DEF WithLiquidity
  <2>2. sys' = [sys EXCEPT ![d] = e]
    BY <1>3, <2>1
  <2>3. OnceEntries' /\ KeepsMarks(sys, sys')
    BY <1>2, <1>8, <1>9, <1>12, <2>2, OnceStep DEF OnceInv
  <2>4. sys'[d].meta # NoMeta
    BY <1>0, <1>2, <1>9, <2>2
  <2>5. Marks(sys', RemoveAt(net, i))
    <3> DEFINE z == sys'
    <3>1. KeepsMarks(sys, z) /\ z[ShardOf[net[i].to]].meta # NoMeta
      BY <2>3, <2>4 DEF d, m
    <3>3. Marks(sys, net)
      BY <1>8, <1>12 DEF OnceInv
    <3> HIDE DEF z
    <3>4. Marks(z, net)
      BY <1>0, <3>1, <3>3, MarksStay
    <3>2. Marks(z, RemoveAt(net, i))
      BY <1>0, <1>1, <3>1, <3>4, MarksRemoved
    <3> QED
      BY <3>2 DEF z
  <2> QED
    BY <1>3, <2>3, <2>5 DEF OnceInv
<1> QED
  BY <1>3, <1>11, <1>12, SameEpoch DEF MetadataInv

LEMMA RefuseMetadata ==
  ASSUME SystemMetadata, TypeInv, TypeInv', MetadataInv,
         NEW i \in DOMAIN net, Refuse(i)
  PROVE  MetadataInv'
<1> DEFINE m == net[i]
           s == ShardOf[m.from]
           d == ShardOf[m.to]
           e == SavedOnError(m)
           rest == RemoveAt(net, i)
           back == SentBack(m)
           h == Held(user, d)
<1>0. /\ EntryInv /\ SaveToSystem /\ user \in [Accounts -> Record] /\ net \in Seq(Message)
      /\ sys \in [Shards -> Entry] /\ (InOrder \/ SendAlways)
  BY FlagsStay DEF MetadataInv, TypeInv
<1>1. i \in 1..Len(net) /\ m \in Message
  BY <1>0
<1>2. /\ m.to \in Accounts /\ m.from \in Accounts /\ m.meta \in Metas
      /\ s \in Shards /\ d \in Shards
      /\ back \in Message /\ back.from = m.to /\ back.to = m.from /\ back.meta = m.meta
  <2>1. m.to \in Accounts /\ m.from \in Accounts /\ m.meta \in Metas
    BY <1>1 DEF Message, Metas
  <2>2. /\ back \in Message /\ back.from = m.to /\ back.to = m.from /\ back.meta = m.meta
    BY <1>1 DEF Message, SentBack
  <2> QED
    BY <2>1, <2>2, NftAssumption
<1>3. /\ user' = user /\ epoch' = epoch
      /\ sys' = [sys EXCEPT ![d] = e]
      /\ net' = Append(rest, back)
      /\ Executable(i)
  BY DEF Refuse
<1>4. /\ SendAlways => e = sys[d]
      /\ ~SendAlways => e = WithMeta(sys[d], NoRecord, m.meta, s, d, TRUE)
  BY DEF SavedOnError
<1>5. sys[d] \in Entry /\ Fits(sys[d], h) /\ h \in Nat
  BY <1>0, <1>2, HeldType DEF EntryInv
<1>6. rest \in Seq(Message)
  BY <1>0, <1>1, RemoveAtProperties
<1> HIDE DEF m, s, d, e, rest, back, h
<1>7. ASSUME ~SendAlways
      PROVE  /\ OnceInv /\ sys[s].meta # NoMeta
             /\ m.meta = NoMeta => sys[d].meta # NoMeta
             /\ ~e.reserved /\ e.meta # NoMeta /\ Fits(e, h)
             /\ TakesMarks(e, sys[d], d, s)
  <2>1. OnceInv /\ InOrder
    BY <1>0, <1>7 DEF MetadataInv
  <2>2. ~sys[d].reserved /\ NoRecord.meta = NoMeta /\ TRUE \in BOOLEAN
    BY <1>2, <2>1 DEF OnceInv, OnceEntries, NoRecord
  <2>3. sys[s].meta # NoMeta /\ (m.meta = NoMeta => sys[d].meta # NoMeta)
    BY <1>1, <1>3, <2>1, ExecutableFinds DEF m, s, d
  <2>4. /\ ~e.reserved
        /\ TakesMarks(e, sys[d], d, s)
        /\ CountsFor(e, h) /\ (m.meta # NoMeta => e.meta # NoMeta)
        /\ (sys[d].meta # NoMeta => e.meta # NoMeta)
    <3>1. PICK f : e = WithMeta(sys[d], NoRecord, m.meta, s, d, f)
      BY <1>4, <1>7, Zenon
    <3>2. /\ ~e.reserved
          /\ TakesMarks(e, sys[d], d, s)
      BY <1>2, <1>5, <1>7, <2>2, <3>1, WithMetaOnce
    <3>3. /\ CountsFor(e, h) /\ (m.meta # NoMeta => e.meta # NoMeta)
          /\ (sys[d].meta # NoMeta => e.meta # NoMeta)
      BY <1>0, <1>2, <1>5, <2>2, <3>1, WithMetaCounted
    <3> QED
      BY <3>2, <3>3
  <2> QED
    BY <2>1, <2>3, <2>4 DEF Fits
<1>8. EntryInv'
  <2>1. Fits(e, h)
    BY <1>4, <1>5, <1>7
  <2>2. \A x \in Shards : Fits(sys'[x], Held(user, x))
    BY <1>0, <1>2, <1>3, <2>1 DEF EntryInv, h
  <2> QED
    BY <1>0, <1>3, <2>2 DEF EntryInv
<1>9. ASSUME ~SendAlways
      PROVE  OnceInv'
  <2> DEFINE z == sys'
  <2>1. OnceEntries' /\ KeepsMarks(sys, z)
    BY <1>2, <1>3, <1>7, <1>9, OnceStep DEF OnceInv
  <2>2. z[d].meta # NoMeta /\ z[s].meta # NoMeta
    BY <1>0, <1>2, <1>3, <1>7, <1>9, <2>1 DEF KeepsMarks
  <2>5. Marks(sys, net)
    BY <1>7, <1>9 DEF OnceInv
  <2> HIDE DEF z
  <2>6. Marks(z, net)
    BY <1>0, <2>1, <2>5, MarksStay
  <2>3. Marks(z, rest)
    BY <1>0, <1>1, <2>2, <2>6, MarksRemoved DEF rest, d, m
  <2>4. Marks(z, Append(rest, back))
    BY <1>2, <1>6, <2>2, <2>3, MarksAppended DEF s, d
  <2> QED
    BY <1>3, <2>1, <2>4 DEF OnceInv, z
<1> QED
  BY <1>3, <1>8, <1>9, SameEpoch DEF MetadataInv

LEMMA CreateEntries ==
  ASSUME SystemMetadata, TypeInv, TypeInv', EntriesInv,
         NEW a \in Accounts, NEW v \in Amounts, Create(a, v), user[a].value = 0
  PROVE  EntriesStep
<1> DEFINE s == ShardOf[a]
           e == WithMeta(sys[s], user[a], 1, s, s, TRUE)
           h == Held(user, s)
<1>0. /\ EntryInv /\ SaveToSystem /\ user \in [Accounts -> Record]
      /\ sys \in [Shards -> Entry] /\ s \in Shards /\ 1 \in Metas
      /\ (CountsLiquidity <=> SendAlways) /\ TRUE \in BOOLEAN /\ FALSE \in BOOLEAN
  BY FlagsStay, NftAssumption DEF EntriesInv, TypeInv, Metas
<1>1. /\ version = NoMeta /\ v \in Nat /\ v > 0
      /\ user' = [user EXCEPT ![a] = Stored(v, FALSE, 1)]
      /\ sys' = [sys EXCEPT ![s] = WithLiquidity(e, v)]
      /\ net' = net /\ epoch' = epoch
  BY NftAssumption DEF Create
<1>3. /\ user'[a].value = user[a].value + v /\ user'[a].meta = NoMeta
      /\ \A c \in Accounts \ {a} : user'[c] = user[c]
  <2>1. Stored(v, FALSE, 1).value = v /\ Stored(v, FALSE, 1).meta = NoMeta
    BY <1>0, <1>1, StoredProperties, ZenonT(60)
  <2>2. user'[a] = Stored(v, FALSE, 1) /\ \A c \in Accounts \ {a} : user'[c] = user[c]
    BY <1>0, <1>1
  <2>4. v = 0 + v
    BY <1>1
  <2>3. user'[a].value = 0 + v /\ user'[a].meta = NoMeta
    BY <2>1, <2>2, <2>4, Zenon
  <2> QED
    BY <2>2, <2>3
<1>4. sys[s] \in Entry /\ Fits(sys[s], h) /\ h \in Nat /\ user[a].meta = NoMeta
  BY <1>0, HeldType DEF EntryInv
<1>5. e \in Entry
  BY <1>0, <1>4, WithMetaType
<1>10. PICK f : e = WithMeta(sys[s], user[a], 1, s, s, f)
  BY Zenon
<1> HIDE DEF s, e, h
<1>11. CountsFor(e, h) /\ e.meta # NoMeta
  <2>1. 1 # NoMeta
    OBVIOUS
  <2> QED
    BY <1>0, <1>4, <1>10, <2>1, WithMetaCounted
<1>6. ASSUME ~SendAlways
      PROVE  /\ OnceEntries /\ ~e.reserved
             /\ TakesMarks(e, sys[s], s, s)
  <2>1. OnceEntries /\ ~sys[s].reserved
    BY <1>0, <1>6 DEF EntriesInv, OnceEntries
  <2> QED
    BY <1>0, <1>4, <1>6, <1>10, <2>1, WithMetaOnce
<1>7. Fits(WithLiquidity(e, v), h + v)
  <2>1. ~CountsLiquidity => ~e.reserved
    BY <1>0, <1>6
  <2>2. h + v >= 0 /\ v \in Int /\ v >= 0
    BY <1>1, <1>4
  <2> QED
    BY <1>4, <1>5, <1>11, <2>1, <2>2, WithLiquidityFits
<1>8. EntryInv'
  <2>1. v \in Int
    BY <1>1
  <2> QED
    BY <1>0, <1>1, <1>3, <1>7, <2>1, EntryStep DEF h, s
<1>9. ASSUME ~SendAlways
      PROVE  OnceEntries' /\ KeepsMarks(sys, sys')
  <2>1. sys' = [sys EXCEPT ![s] = e]
    BY <1>0, <1>1, <1>9 DEF WithLiquidity
  <2> QED
    BY <1>0, <1>6, <1>9, <1>11, <2>1, OnceStep
<1> QED
  BY <1>1, <1>8, <1>9, SameEpoch DEF EntriesStep

LEMMA ChangeQuantityEntries ==
  ASSUME SystemMetadata, TypeInv, TypeInv', EntriesInv,
         NEW a \in Accounts, NEW v \in Int, ChangeQuantity(a, v)
  PROVE  EntriesStep
<1> DEFINE s == ShardOf[a]
           h == Held(user, s)
<1>0. /\ EntryInv /\ SaveToSystem /\ user \in [Accounts -> Record]
      /\ sys \in [Shards -> Entry] /\ (CountsLiquidity <=> SendAlways)
  BY FlagsStay DEF EntriesInv, TypeInv
<1>1. /\ user[a] # NoRecord /\ MaySave(a, user[a].frozen, FALSE)
      /\ user[a].value + v >= 0
      /\ user' = Taken(a, -v)
      /\ sys' = [sys EXCEPT ![s] = WithLiquidity(EntryAfterSave(a), v)]
      /\ net' = net /\ epoch' = epoch
  BY DEF ChangeQuantity
<1>2. /\ s \in Shards /\ user[a].value > 0 /\ h \in Nat /\ user[a].value <= h
      /\ Fits(sys[s], h) /\ sys[s].meta # NoMeta /\ EntryAfterSave(a) = sys[s]
  BY <1>0, <1>1, MoverHolds
<1>3. user[a].value \in Nat
  BY <1>0 DEF Record
<1>4. /\ user'[a].value = user[a].value + v /\ user'[a].meta = NoMeta
      /\ \A c \in Accounts \ {a} : user'[c] = user[c]
  <2>1. -v \in Int /\ user[a].value - (-v) >= 0 /\ user[a].value - (-v) = user[a].value + v
    BY <1>1, <1>3
  <2>2. /\ user'[a].value = user[a].value - (-v) /\ user'[a].meta = NoMeta
        /\ \A c \in Accounts \ {a} : user'[c] = user[c]
    BY <1>0, <1>1, <2>1, TakenProperties
  <2> QED
    BY <2>1, <2>2
<1>5. sys[s] \in Entry /\ CountsFor(sys[s], h) /\ (~CountsLiquidity => ~sys[s].reserved)
  BY <1>0, <1>2 DEF EntriesInv, OnceEntries, Fits
<1> HIDE DEF s, h
<1>6. Fits(WithLiquidity(sys[s], v), h + v)
  <2>1. h + v >= 0 /\ h > 0
    BY <1>1, <1>2, <1>3
  <2> QED
    BY <1>2, <1>5, <2>1, WithLiquidityFits
<1>7. EntryInv'
  BY <1>0, <1>1, <1>2, <1>4, <1>6, EntryStep DEF h, s
<1>8. ASSUME ~SendAlways
      PROVE  OnceEntries' /\ KeepsMarks(sys, sys')
  <2>1. WithLiquidity(sys[s], v) = sys[s]
    BY <1>0, <1>8 DEF WithLiquidity
  <2>2. sys' = sys
    BY <1>0, <1>1, <1>2, <2>1
  <2> QED
    BY <1>1, <1>8, <2>2 DEF EntriesInv, OnceEntries, KeepsMarks
<1> QED
  BY <1>1, <1>7, <1>8, SameEpoch DEF EntriesStep

LEMMA UpdateEntries ==
  ASSUME SystemMetadata, TypeInv, TypeInv', EntriesInv,
         NEW a \in Accounts, Update(a)
  PROVE  EntriesStep
<1> DEFINE s == ShardOf[a]
           new == version + 1
           e == WithMeta(sys[s], user[a], new, s, s, TRUE)
           h == Held(user, s)
           u == Stored(user[a].value, user[a].frozen, new)
<1>0. /\ EntryInv /\ SaveToSystem /\ user \in [Accounts -> Record]
      /\ sys \in [Shards -> Entry]
  BY FlagsStay DEF EntriesInv, TypeInv
<1>1. /\ user[a] # NoRecord /\ MaySave(a, user[a].frozen, FALSE) /\ version < MaxVersion
      /\ user' = [user EXCEPT ![a] = u]
      /\ sys' = [sys EXCEPT ![s] = e]
      /\ net' = net /\ epoch' = epoch
  BY DEF Update
<1>2. /\ s \in Shards /\ Fits(sys[s], h) /\ h \in Nat /\ sys[s].meta # NoMeta
  BY <1>0, <1>1, MoverHolds
<1>3. /\ user[a].value \in Nat /\ user[a].frozen \in BOOLEAN /\ user[a].meta = NoMeta
      /\ sys[s] \in Entry
  BY <1>0, <1>2 DEF Record, EntryInv
<1>4. new \in Metas /\ new # NoMeta
  BY <1>1, NftAssumption DEF TypeInv, Metas
<1>5. u.value = user[a].value /\ u.meta = NoMeta
  BY <1>0, <1>3, <1>4, StoredProperties
<1>6. PICK f : e = WithMeta(sys[s], user[a], new, s, s, f)
  BY Zenon
<1> HIDE DEF s, e, h, u, new
<1>7. Fits(e, h) /\ e.meta # NoMeta
  BY <1>0, <1>2, <1>3, <1>4, <1>6, WithMetaCounted
<1>8. EntryInv'
  <2>1. /\ 0 \in Int /\ user'[a].value = user[a].value + 0 /\ user'[a].meta = NoMeta
        /\ \A c \in Accounts \ {a} : user'[c] = user[c]
    BY <1>0, <1>1, <1>3, <1>5
  <2>2. Fits(e, h + 0)
    BY <1>2, <1>7
  <2> QED
    BY <1>0, <1>1, <2>1, <2>2, EntryStep DEF h, s
<1>9. ASSUME ~SendAlways
      PROVE  OnceEntries' /\ KeepsMarks(sys, sys')
  <2>1. OnceEntries /\ ~sys[s].reserved
    BY <1>2, <1>9 DEF EntriesInv, OnceEntries
  <2>2. ~e.reserved /\ TakesMarks(e, sys[s], s, s)
    BY <1>2, <1>3, <1>4, <1>6, <1>9, <2>1, WithMetaOnce
  <2> QED
    BY <1>1, <1>2, <1>7, <1>9, <2>1, <2>2, OnceStep
<1> QED
  BY <1>1, <1>8, <1>9, SameEpoch DEF EntriesStep

LEMMA WipeEntries ==
  ASSUME SystemMetadata, TypeInv, TypeInv', EntriesInv,
         NEW a \in Accounts, Wipe(a)
  PROVE  EntriesStep
<1> DEFINE s == ShardOf[a]
           h == Held(user, s)
           x == user[a].value
           counted == Active("WipeSingleNFTLiquidityDecreaseFlag")
           e == IF counted THEN WithLiquidity(sys[s], -x) ELSE sys[s]
<1>0. /\ EntryInv /\ SaveToSystem /\ user \in [Accounts -> Record]
      /\ sys \in [Shards -> Entry] /\ s \in Shards /\ a \in ShardAccounts(s)
      /\ (CountsLiquidity <=> SendAlways)
  BY FlagsStay, NftAssumption DEF EntriesInv, TypeInv, ShardAccounts
<1>1. /\ "wipe" \in Commands
      /\ counted => CanAddLiquidity(sys[s], -x)
      /\ user' = [user EXCEPT ![a] = NoRecord]
      /\ sys' = [sys EXCEPT ![s] = e]
      /\ net' = net /\ epoch' = epoch
  BY DEF Wipe
<1>2. SendAlways => counted
  BY <1>1 DEF SystemMetadata, WipeCounts, TypeInv, SendAlways, Active
<1>3. x \in Nat /\ h \in Nat /\ x <= h /\ -x \in Int
  <2>1. x \in Nat
    BY <1>0 DEF Record
  <2>2. h \in Nat /\ x <= h
    BY <1>0, HeldType
  <2> QED
    BY <2>1, <2>2
<1>4. /\ user'[a].value = x + (-x) /\ user'[a].meta = NoMeta
      /\ \A c \in Accounts \ {a} : user'[c] = user[c]
  BY <1>0, <1>1, <1>3 DEF NoRecord
<1>5. sys[s] \in Entry /\ Fits(sys[s], h)
  BY <1>0 DEF EntryInv
<1> HIDE DEF s, h, counted, e
<1>6. ASSUME ~SendAlways
      PROVE  e = sys[s] /\ OnceEntries /\ ~sys[s].reserved
  BY <1>0, <1>6 DEF EntriesInv, OnceEntries, WithLiquidity, e
<1>7. Fits(e, h + (-x))
  <2>1. CASE ~SendAlways
    <3> HIDE DEF x
    <3> QED
      BY <1>3, <1>5, <1>6, <2>1 DEF Fits, CountsFor
  <2>2. CASE SendAlways
    <3>1. CountsLiquidity /\ e = WithLiquidity(sys[s], -x) /\ CanAddLiquidity(sys[s], -x)
      BY <1>0, <1>1, <1>2, <2>2 DEF e
    <3>2. sys[s].meta # NoMeta /\ CountsFor(sys[s], h)
      BY <1>5, <3>1 DEF CanAddLiquidity, Fits, CountsFor
    <3> HIDE DEF x
    <3>3. h + (-x) >= 0 /\ (h > 0 \/ -x >= 0)
      BY <1>3
    <3> QED
      BY <1>3, <1>5, <3>1, <3>2, <3>3, WithLiquidityFits
  <2> QED
    BY <2>1, <2>2
<1>8. EntryInv'
  BY <1>0, <1>1, <1>3, <1>4, <1>7, EntryStep DEF h, s
<1>9. ASSUME ~SendAlways
      PROVE  OnceEntries' /\ KeepsMarks(sys, sys')
  <2>1. sys' = sys
    BY <1>0, <1>1, <1>6, <1>9
  <2> QED
    BY <1>1, <1>6, <1>9, <2>1 DEF OnceEntries, KeepsMarks
<1> HIDE DEF x
<1> QED
  BY <1>1, <1>8, <1>9, SameEpoch DEF EntriesStep

LEMMA CommandEntries ==
  ASSUME SystemMetadata, TypeInv, TypeInv', EntriesInv,
         NEW s \in Shards, DeleteMetadata(s) \/ AddMetadata(s)
  PROVE  EntriesStep
<1> DEFINE e == IF DeleteMetadata(s) THEN NoEntry ELSE [sys[s] EXCEPT !.meta = version]
           h == Held(user, s)
<1>0. /\ EntryInv /\ user \in [Accounts -> Record] /\ sys \in [Shards -> Entry]
      /\ Fits(sys[s], h) /\ h \in Nat
  BY HeldType DEF EntriesInv, TypeInv, EntryInv
<1>1. /\ SendAlways /\ user' = user /\ epoch' = epoch
      /\ sys' = [sys EXCEPT ![s] = e]
  BY DEF DeleteMetadata, AddMetadata
<1>2. Fits(e, h)
  <2>1. CASE DeleteMetadata(s)
    <3>1. h = 0
      BY <1>0, <2>1, HeldZero DEF DeleteMetadata, ShardAccounts
    <3> QED
      BY <2>1, <3>1 DEF Fits, CountsFor, NoEntry
  <2>2. CASE ~DeleteMetadata(s)
    <3>1. /\ sys[s].meta = NoMeta /\ version # NoMeta
          /\ e = [sys[s] EXCEPT !.meta = version]
      BY <2>2 DEF AddMetadata
    <3>2. sys[s] = NoEntry /\ h = 0
      BY <1>0, <3>1 DEF Fits, CountsFor
    <3>3. e.meta = version /\ ~e.reserved
      BY <3>1, <3>2 DEF NoEntry
    <3> HIDE DEF h, e
    <3> QED
      BY <3>1, <3>2, <3>3 DEF Fits, CountsFor
  <2> QED
    BY <2>1, <2>2
<1> HIDE DEF e
<1>3. \A x \in Shards : Fits(sys'[x], Held(user, x))
  BY <1>0, <1>1, <1>2 DEF EntryInv
<1>4. EntryInv'
  BY <1>0, <1>1, <1>3 DEF EntryInv
<1> QED
  BY <1>1, <1>4, SameEpoch DEF EntriesStep

LEMMA InitMetadata == Init => MetadataInv
<1> SUFFICES ASSUME Init PROVE MetadataInv
  OBVIOUS
<1>1. user \in [Accounts -> Record] /\ \A a \in Accounts : user[a].value = 0 /\ user[a].meta = NoMeta
  BY InitType DEF Init, NoRecord, TypeInv
<1>2. \A s \in Shards : Held(user, s) = 0
  BY <1>1, HeldZero DEF ShardAccounts
<1>3. \A s \in Shards : sys[s] = NoEntry
  BY DEF Init
<1>4. EntryInv
  BY <1>1, <1>2, <1>3 DEF EntryInv, Fits, CountsFor, NoEntry
<1>5. Len(net) = 0
  BY DEF Init
<1>6. OnceInv
  BY <1>3, <1>5 DEF OnceInv, OnceEntries, Marks, NoEntry
<1> QED
  BY <1>4, <1>6 DEF MetadataInv

(* A step that is no transfer *)
LEMMA OtherEntries ==
  ASSUME SystemMetadata, TypeInv, TypeInv', EntriesInv,
         version = NoMeta => \A a \in Accounts : user[a].value = 0,
         HolderStep \/ CommandStep \/ NextEpoch \/ UNCHANGED vars
  PROVE  EntriesStep /\ net' = net
<1>0. EntryInv
  BY DEF EntriesInv
<1>1. net' = net
  BY DEF HolderStep, CommandStep, NextEpoch, vars, Create, AddQuantity, Burn, ChangeQuantity,
         Update, ToggleFreeze, Wipe, ToggleFreezeCollection, TogglePause, DeleteMetadata,
         AddMetadata
<1>3. ASSUME NEW a \in Accounts, NEW v \in Amounts,
             Create(a, v) \/ AddQuantity(a, v) \/ Burn(a, v)
      PROVE  EntriesStep
  <2>1. v \in Int /\ -v \in Int
    BY NftAssumption
  <2>2. CASE Create(a, v)
    <3>1. user[a].value = 0
      BY <2>2 DEF Create
    <3> QED
      BY <2>2, <3>1, CreateEntries
  <2>3. CASE AddQuantity(a, v)
    BY <2>1, <2>3, ChangeQuantityEntries DEF AddQuantity
  <2>4. CASE Burn(a, v)
    BY <2>1, <2>4, ChangeQuantityEntries DEF Burn
  <2> QED
    BY <1>3, <2>2, <2>3, <2>4
<1>4. ASSUME NEW a \in Accounts, Update(a) \/ Wipe(a)
      PROVE  EntriesStep
  BY <1>4, UpdateEntries, WipeEntries
<1>5. ASSUME NEW s \in Shards, DeleteMetadata(s) \/ AddMetadata(s)
      PROVE  EntriesStep
  BY <1>5, CommandEntries
<1>6. ASSUME \A a \in Accounts : user'[a].value = user[a].value /\ user'[a].meta = user[a].meta,
             sys' = sys, ~SendAlways' => ~SendAlways
      PROVE  EntriesStep
  <2>1. \A a \in Accounts : user'[a].value = user[a].value /\ user'[a].meta = NoMeta
    BY <1>0, <1>6 DEF EntryInv
  <2>2. \A s \in Shards : Fits(sys'[s], Held(user, s))
    BY <1>0, <1>6 DEF EntryInv
  <2>3. EntryInv'
    BY <1>0, <2>1, <2>2, EntryStutter
  <2> QED
    BY <1>6, <2>3, EntriesUnchanged
<1>7. ASSUME NEW a \in Accounts, NEW f \in BOOLEAN,
             ToggleFreeze(a, f) \/ ToggleFreezeCollection(a, f)
      PROVE  EntriesStep
  <2>1. \A b \in Accounts : user'[b].value = user[b].value /\ user'[b].meta = user[b].meta
    <3>1. user \in [Accounts -> Record]
      BY DEF TypeInv
    <3>2. CASE ToggleFreeze(a, f)
      BY <3>1, <3>2 DEF ToggleFreeze, Record
    <3>3. CASE ToggleFreezeCollection(a, f)
      BY <3>3 DEF ToggleFreezeCollection
    <3> QED
      BY <1>7, <3>2, <3>3
  <2>2. UNCHANGED <<sys, epoch>>
    BY <1>7 DEF ToggleFreeze, ToggleFreezeCollection
  <2> QED
    BY <1>6, <2>1, <2>2, SameEpoch
<1>8. ASSUME NEW s \in Shards, NEW p \in BOOLEAN, TogglePause(s, p)
      PROVE  EntriesStep
  BY <1>6, <1>8, SameEpoch DEF TogglePause
<1>9. ASSUME UNCHANGED vars PROVE EntriesStep
  BY <1>6, <1>9, SameEpoch DEF vars
<1>10. ASSUME NextEpoch PROVE EntriesStep
  <2>1. ~SendAlways' => ~SendAlways
    BY <1>10 DEF NextEpoch, SystemMetadata, SendAlwaysStays, TypeInv, SendAlways, Active
  <2> QED
    BY <1>6, <1>10, <2>1 DEF NextEpoch
<1>11. EntriesStep
  BY <1>3, <1>4, <1>5, <1>7, <1>8, <1>9, <1>10 DEF HolderStep, CommandStep
<1> QED
  BY <1>1, <1>11

LEMMA NothingBeforeCreated ==
  ASSUME TypeInv, QuantityInv, version = NoMeta, NEW a \in Accounts
  PROVE  user[a].value = 0
<1>1. /\ SumFunction(Quantities(user)) \in Nat /\ SumFunction(Sent(net)) \in Nat
      /\ user[a].value <= SumFunction(Quantities(user))
  BY SumsType DEF TypeInv
<1>2. SumFunction(Quantities(user)) + SumFunction(Sent(net)) = 0
  BY DEF QuantityInv
<1>3. user[a].value \in Nat
  BY DEF TypeInv, Record
<1> QED
  BY <1>1, <1>2, <1>3

LEMMA StepMetadata ==
  ASSUME SystemMetadata, TypeInv, QuantityInv, MetadataInv, [Next]_vars
  PROVE  MetadataInv'
<1>0. TypeInv' /\ EntriesInv
  BY StepType, MetadataEntries
<1>1. ASSUME NEW a \in Accounts, NEW b \in Accounts, NEW v \in Amounts,
             TransferInShard(a, b, v) \/ SendAcross(a, b, v)
      PROVE  MetadataInv'
  <2>1. CASE TransferInShard(a, b, v)
    <3>1. EntriesStep /\ net' = net
      BY <1>0, <2>1, TransferInShardEntries DEF TransferInShard
    <3> QED
      BY <3>1, EntriesKeep
  <2>2. CASE SendAcross(a, b, v)
    BY <1>0, <2>2, SendAcrossMetadata
  <2> QED
    BY <1>1, <2>1, <2>2
<1>2. ASSUME NEW i \in DOMAIN net, Deliver(i) \/ Refuse(i)
      PROVE  MetadataInv'
  BY <1>0, <1>2, DeliverMetadata, RefuseMetadata
<1>3. CASE HolderStep \/ CommandStep \/ NextEpoch \/ UNCHANGED vars
  <2>1. version = NoMeta => \A a \in Accounts : user[a].value = 0
    BY NothingBeforeCreated
  <2>2. EntriesStep /\ net' = net
    BY <1>0, <1>3, <2>1, OtherEntries
  <2> QED
    BY <2>2, EntriesKeep
<1> QED
  BY <1>1, <1>2, <1>3 DEF Next, TransferStep

(* MetadataInvHolds: in such an instance the invariant holds always.       *)
THEOREM MetadataInvHolds ==
  ASSUME SystemMetadata
  PROVE  Spec => [](TypeInv /\ QuantityInv /\ MetadataInv)
<1>1. Init => TypeInv /\ QuantityInv /\ MetadataInv
  BY InitType, InitQuantity, InitMetadata
<1>2. TypeInv /\ QuantityInv /\ MetadataInv /\ [Next]_vars
        => (TypeInv /\ QuantityInv /\ MetadataInv)'
  BY StepType, StepQuantity, StepMetadata
<1> QED
  BY <1>1, <1>2, PTL DEF Spec

(* LiquidityHolds: whatever the order of transfers, refusals, wipes,       *)
(* updates and epochs, an entry that counts liquidity counts what its      *)
(* shard holds (AddToLiquiditySystemAcc).                                  *)
THEOREM LiquidityHolds ==
  ASSUME SystemMetadata
  PROVE  Spec => []Liquidity
<1>1. TypeInv /\ QuantityInv /\ MetadataInv => Liquidity
  <2> SUFFICES ASSUME MetadataInv, NEW s \in Shards, sys[s].reserved
               PROVE  sys[s].value = HeldIn({a \in Accounts : ShardOf[a] = s}) /\ sys[s].value > 0
    BY DEF Liquidity
  <2>1. sys[s].value = Held(user, s) /\ Held(user, s) > 0
    BY DEF MetadataInv, EntryInv, Fits, CountsFor
  <2>2. HeldIn({a \in Accounts : ShardOf[a] = s}) = Held(user, s)
    BY DEF HeldIn, Held, ShardAccounts
  <2> QED
    BY <2>1, <2>2
<1> QED
  BY <1>1, MetadataInvHolds, PTL

(* MetadataAvailableHolds: and who holds some of the token always reads    *)
(* its metadata (getDCDTMetaDataFromSystemAccount).                        *)
THEOREM MetadataAvailableHolds ==
  ASSUME SystemMetadata
  PROVE  Spec => []MetadataAvailable
<1>1. TypeInv /\ QuantityInv /\ MetadataInv => MetadataAvailable
  <2> SUFFICES ASSUME TypeInv, MetadataInv, NEW a \in Accounts, user[a].value > 0
               PROVE  MetaOf(user[a], sys[ShardOf[a]]) # NoMeta
    BY DEF MetadataAvailable
  <2> DEFINE s == ShardOf[a]
  <2>1. /\ s \in Shards /\ a \in ShardAccounts(s) /\ SaveToSystem
        /\ user \in [Accounts -> Record]
    BY FlagsStay, NftAssumption DEF ShardAccounts, TypeInv
  <2>2. Held(user, s) \in Nat /\ user[a].value <= Held(user, s) /\ user[a].value \in Nat
    BY <2>1, HeldType DEF Record
  <2>3. Held(user, s) > 0
    BY <2>2
  <2>4. sys[s].meta # NoMeta
    BY <2>1, <2>3 DEF MetadataInv, EntryInv, Fits, CountsFor
  <2> QED
    BY <2>1, <2>4 DEF MetaOf
<1> QED
  BY <1>1, MetadataInvHolds, PTL

(* LeftOutOnlyIfSentHolds: and metadata is left out of a transfer only     *)
(* when the destination's shard has it or will get it                      *)
(* (WasAlreadySentToDestinationShardAndUpdateState).                       *)
THEOREM LeftOutOnlyIfSentHolds ==
  ASSUME SystemMetadata
  PROVE  Spec => []LeftOutOnlyIfSent
<1>1. TypeInv /\ QuantityInv /\ MetadataInv => LeftOutOnlyIfSent
  <2> SUFFICES ASSUME TypeInv, MetadataInv, ~SendAlways,
                      NEW i \in DOMAIN net, net[i].meta = NoMeta
               PROVE  LET d == ShardOf[net[i].to] IN
                      \/ sys[d].meta # NoMeta
                      \/ \E j \in DOMAIN net : ShardOf[net[j].to] = d /\ net[j].meta # NoMeta
    BY DEF LeftOutOnlyIfSent
  <2>1. i \in 1..Len(net) /\ Len(net) \in Nat /\ DOMAIN net = 1..Len(net)
    BY DEF TypeInv
  <2>2. \/ sys[ShardOf[net[i].to]].meta # NoMeta
        \/ \E j \in 1..(i - 1) : Brings(net[j], ShardOf[net[i].from], ShardOf[net[i].to])
    BY <2>1 DEF MetadataInv, OnceInv, Marks
  <2>3. \A j \in 1..(i - 1) : j \in DOMAIN net
    BY <2>1
  <2> QED
    BY <2>2, <2>3 DEF Brings
<1> QED
  BY <1>1, MetadataInvHolds, PTL

-----------------------------------------------------------------------------
(* The metadata of a token with a single piece.                            *)

(* Instances: as above, with one piece, transfers of more than nothing,    *)
(* and metadata that is in every transfer and is always saved.             *)
UniqueMetadata ==
  /\ SystemMetadata
  /\ MaxSupply = 1
  /\ \A e \in DOMAIN EpochFlags :
       {"CheckTransferFlag", "SendAlwaysFlag", "AlwaysSaveTokenMetaDataFlag"}
         \subseteq EpochFlags[e]

LatestInv ==
  /\ \A a \in Accounts : user[a].value > 0 => sys[ShardOf[a]].meta = version
  /\ \A i \in 1..Len(net) : net[i].value > 0 /\ net[i].meta = version

LEMMA UniqueFlags ==
  ASSUME UniqueMetadata, TypeInv
  PROVE  /\ SystemMetadata /\ MaxSupply = 1
         /\ SaveToSystem /\ SendAlways /\ AlwaysSaveMetadata
         /\ \A v : CheckTransferAmount(v) => v > 0
<1>1. SystemMetadata /\ SaveToSystem
  BY FlagsStay DEF UniqueMetadata
<1>2. /\ "CheckTransferFlag" \in EpochFlags[epoch]
      /\ "SendAlwaysFlag" \in EpochFlags[epoch]
      /\ "AlwaysSaveTokenMetaDataFlag" \in EpochFlags[epoch]
  BY DEF UniqueMetadata, TypeInv
<1> QED
  BY <1>1, <1>2 DEF UniqueMetadata, SendAlways, AlwaysSaveMetadata, CheckTransferAmount, Active

(* The piece is at one place: on one account or in one message.            *)
LEMMA SinglePiece ==
  ASSUME UniqueMetadata, TypeInv, QuantityInv, LatestInv
  PROVE  /\ \A a \in Accounts : user[a].value > 0 =>
              /\ user[a].value = 1 /\ version # NoMeta
              /\ \A b \in Accounts \ {a} : user[b].value = 0
              /\ 1..Len(net) = {}
         /\ \A i \in 1..Len(net) :
              version # NoMeta /\ \A a \in Accounts : user[a].value = 0
<1> DEFINE f == Quantities(user)
           g == Sent(net)
           Q == SumFunction(f)
           N == SumFunction(g)
<1>1. /\ user \in [Accounts -> Record] /\ net \in Seq(Message) /\ IsFiniteSet(Accounts)
      /\ MaxSupply = 1
  BY NftAssumption DEF TypeInv, UniqueMetadata
<1>2. Q \in Nat /\ N \in Nat
  BY <1>1, SumsType
<1>3. Q + N <= 1 /\ (version = NoMeta => Q + N = 0)
  BY <1>1 DEF QuantityInv
<1>4. f \in [Accounts -> Nat] /\ \A a \in Accounts : f[a] = user[a].value
  BY <1>1 DEF Quantities, Record
<1>5. /\ Len(net) \in Nat /\ g \in [1..Len(net) -> Nat]
      /\ \A i \in 1..Len(net) : g[i] = net[i].value /\ g[i] > 0
  BY <1>1, SentType DEF LatestInv
<1>6. IsFiniteSet(1..Len(net))
  BY <1>5, FS_Interval
<1> HIDE DEF f, g
<1>7. \A a \in Accounts : f[a] <= Q /\ \A b \in Accounts \ {a} : f[a] + f[b] <= Q
  BY <1>1, <1>4, SumBounds
<1>8. \A i \in 1..Len(net) : g[i] <= N
  BY <1>5, <1>6, SumBounds
<1> HIDE DEF Q, N
<1>9. ASSUME NEW i \in 1..Len(net)
      PROVE  version # NoMeta /\ Q = 0 /\ N = 1
  <2>1. g[i] \in Nat /\ g[i] > 0 /\ g[i] <= N
    BY <1>5, <1>8
  <2> QED
    BY <1>2, <1>3, <2>1
<1>10. ASSUME NEW a \in Accounts, f[a] > 0
       PROVE  /\ f[a] = 1 /\ version # NoMeta
              /\ \A b \in Accounts \ {a} : f[b] = 0
              /\ 1..Len(net) = {}
  <2>1. f[a] \in Nat /\ f[a] <= Q
    BY <1>4, <1>7
  <2>2. f[a] = 1 /\ Q = 1 /\ N = 0 /\ version # NoMeta
    BY <1>2, <1>3, <1>10, <2>1
  <2>3. \A b \in Accounts \ {a} : f[b] = 0
    <3> TAKE b \in Accounts \ {a}
    <3>1. f[b] \in Nat /\ f[a] + f[b] <= Q
      BY <1>4, <1>7
    <3> QED
      BY <2>2, <3>1
  <2> QED
    BY <1>9, <2>2, <2>3
<1>11. ASSUME NEW i \in 1..Len(net), NEW a \in Accounts
       PROVE  f[a] = 0
  BY <1>4, <1>10
<1> QED
  BY <1>4, <1>9, <1>10, <1>11

LEMMA HolderReads ==
  ASSUME NEW u \in [Accounts -> Record], NEW y,
         \A s \in Shards : Fits(y[s], Held(u, s)),
         NEW a \in Accounts, u[a].value > 0
  PROVE  y[ShardOf[a]].meta # NoMeta
<1>1. ShardOf[a] \in Shards /\ a \in ShardAccounts(ShardOf[a])
  BY NftAssumption DEF ShardAccounts
<1>2. /\ Held(u, ShardOf[a]) \in Nat /\ u[a].value <= Held(u, ShardOf[a])
      /\ u[a].value \in Nat
  BY <1>1, HeldType DEF Record
<1>3. Held(u, ShardOf[a]) > 0
  BY <1>2
<1> QED
  BY <1>1, <1>3 DEF Fits, CountsFor

LEMMA WithLiquidityMeta ==
  ASSUME NEW e \in Entry, NEW n
  PROVE  WithLiquidity(e, n).meta \in {NoMeta, e.meta}
<1>1. /\ [e EXCEPT !.reserved = FALSE].meta = e.meta
      /\ [e EXCEPT !.value = @ + n].meta = e.meta
      /\ NoEntry.meta = NoMeta
  BY DEF Entry, NoEntry
<1> QED
  BY <1>1 DEF WithLiquidity

LEMMA StepLatest ==
  ASSUME UniqueMetadata, TypeInv, QuantityInv, MetadataInv, LatestInv, [Next]_vars
  PROVE  LatestInv'
<1> DEFINE Old(a) == user[a].value > 0
           Same == /\ \A c \in Accounts : user'[c].value > 0 =>
                        sys'[ShardOf[c]].meta \in {NoMeta, version'}
                   /\ \A i \in 1..Len(net') : net'[i].value > 0 /\ net'[i].meta = version'
<1>0. /\ SystemMetadata /\ SaveToSystem /\ SendAlways /\ AlwaysSaveMetadata
      /\ user \in [Accounts -> Record] /\ sys \in [Shards -> Entry]
      /\ net \in Seq(Message) /\ EntryInv
      /\ ShardOf \in [Accounts -> Shards] /\ Amounts \subseteq Nat
  BY UniqueFlags, NftAssumption DEF TypeInv, MetadataInv
<1>1. TypeInv' /\ MetadataInv'
  BY <1>0, StepType, StepMetadata
<1>2. \A c \in Accounts : user'[c].value > 0 => sys'[ShardOf[c]].meta # NoMeta
  <2> DEFINE w == user'
             y == sys'
  <2>1. w \in [Accounts -> Record] /\ \A s \in Shards : Fits(y[s], Held(w, s))
    BY <1>1 DEF TypeInv, MetadataInv, EntryInv
  <2> HIDE DEF w, y
  <2>2. \A c \in Accounts : w[c].value > 0 => y[ShardOf[c]].meta # NoMeta
    BY <2>1, HolderReads
  <2> QED
    BY <2>2 DEF w, y
<1>3. SUFFICES Same
  BY <1>2 DEF LatestInv
<1>4. /\ \A c \in Accounts : user[c].value \in Nat /\ user[c].meta = NoMeta
      /\ \A c \in Accounts : user[c].value > 0 =>
           /\ sys[ShardOf[c]].meta = version
           /\ user[c].value = 1 /\ version # NoMeta
           /\ \A b \in Accounts \ {c} : user[b].value = 0
           /\ 1..Len(net) = {}
      /\ \A i \in 1..Len(net) :
           /\ net[i].value > 0 /\ net[i].meta = version /\ version # NoMeta
           /\ \A c \in Accounts : user[c].value = 0
  BY <1>0, SinglePiece DEF LatestInv, Record, EntryInv
<1>5. ASSUME NEW a \in Accounts, user[a] # NoRecord, MaySave(a, user[a].frozen, FALSE)
      PROVE  /\ user[a].value > 0 /\ ShardOf[a] \in Shards
             /\ sys[ShardOf[a]] \in Entry /\ sys[ShardOf[a]].meta = version
             /\ EntryAfterSave(a) = sys[ShardOf[a]]
             /\ MetaOf(user[a], sys[ShardOf[a]]) = version
             /\ WithMeta(sys[ShardOf[a]], user[a], version, ShardOf[a], ShardOf[a], FALSE) = sys[ShardOf[a]]
  BY <1>0, <1>4, <1>5, MoverHolds
<1>6. ASSUME NEW a \in Accounts, NEW b \in Accounts, NEW v \in Amounts,
             TransferInShard(a, b, v)
      PROVE  Same
  <2> DEFINE s == ShardOf[a]
  <2>1. /\ user[a] # NoRecord /\ MaySave(a, user[a].frozen, FALSE)
        /\ sys' = [sys EXCEPT ![s] = WithMeta(EntryAfterSave(a), user[b],
                                              MetaOf(user[a], sys[s]), s, s, FALSE)]
        /\ ShardOf[b] = s
        /\ \A c \in Accounts \ {a, b} : user'[c] = user[c]
        /\ UNCHANGED <<net, version>>
    BY <1>0, <1>6 DEF TransferInShard, CanTake, Taken
  <2>2. user[a].value > 0 /\ sys[s].meta = version /\ s \in Shards
    BY <1>5, <2>1
  <2>3. sys' = sys
    <3>1. /\ EntryAfterSave(a) = sys[s]
          /\ MetaOf(user[a], sys[s]) = sys[s].meta
          /\ WithMeta(sys[s], user[b], sys[s].meta, s, s, FALSE) = sys[s]
      BY <1>0, <2>1, MoverHolds
    <3>2. sys' = [sys EXCEPT ![s] = sys[s]]
      BY <2>1, <3>1, Zenon
    <3> QED
      BY <1>0, <3>2
  <2> QED
    BY <1>4, <2>1, <2>2, <2>3
<1>7. ASSUME NEW a \in Accounts, NEW b \in Accounts, NEW v \in Amounts,
             SendAcross(a, b, v)
      PROVE  Same
  <2> DEFINE s == ShardOf[a]
             left == WithLiquidity(EntryAfterSave(a), -v)
             sent == [from |-> a, to |-> b, value |-> v, retErr |-> FALSE,
                      meta |-> IF ~WasAlreadySent(left, ShardOf[b]) \/ v = 1
                                 THEN MetaOf(user[a], sys[s]) ELSE NoMeta]
  <2>1. /\ user[a] # NoRecord /\ MaySave(a, user[a].frozen, FALSE)
        /\ user[a].value >= v /\ CheckTransferAmount(v)
        /\ user' = Taken(a, v)
        /\ net' = Append(net, sent)
        /\ version' = version
    BY <1>7 DEF SendAcross, CanTake
  <2>2. /\ user[a].value > 0 /\ sys[s].meta = version
        /\ MetaOf(user[a], sys[s]) = version
    BY <1>5, <2>1
  <2>3. v \in Nat /\ v > 0
    BY <1>0, <2>1, UniqueFlags
  <2>4. user[a].value = 1 /\ Len(net) = 0 /\ v = 1 /\ \A c \in Accounts \ {a} : user[c].value = 0
    BY <1>0, <1>4, <2>1, <2>2, <2>3
  <2>5. sent.value > 0 /\ sent.meta = version
    BY <2>2, <2>3, <2>4
  <2> HIDE DEF sent
  <2>6. \A i \in 1..Len(net') : net'[i].value > 0 /\ net'[i].meta = version'
    BY <1>0, <2>1, <2>4, <2>5
  <2>7. \A c \in Accounts : user'[c].value = 0
    <3>1. v \in Int /\ user[a].value - v >= 0 /\ user[a].value - v = 0
      BY <2>3, <2>4
    <3>2. /\ Taken(a, v)[a].value = user[a].value - v
          /\ \A c \in Accounts \ {a} : Taken(a, v)[c] = user[c]
      BY <3>1, TakenProperties
    <3> QED
      BY <2>1, <2>4, <3>1, <3>2
  <2> QED
    BY <2>6, <2>7
<1>8. ASSUME NEW i \in DOMAIN net, Deliver(i)
      PROVE  Same
  <2> DEFINE m == net[i]
             d == ShardOf[m.to]
             e == EntryAfterArrival(m)
  <2>1. i \in 1..Len(net) /\ net[i] \in Message
    BY <1>0
  <2>2. /\ m.to \in Accounts /\ m.from \in Accounts /\ d \in Shards
        /\ m.meta \in Metas /\ m.meta = version /\ version # NoMeta
        /\ \A c \in Accounts : user[c].value = 0
    BY <1>0, <1>4, <2>1 DEF Message, Metas
  <2>3. /\ \A c \in Accounts \ {m.to} : user'[c] = user[c]
        /\ sys' = [sys EXCEPT ![d] = WithLiquidity(e, m.value)]
        /\ net' = RemoveAt(net, i) /\ version' = version
    BY <1>0, <1>8, <2>2 DEF Deliver
  <2>4. e \in Entry
    BY <2>1, EntryAfterArrivalType
  <2>5. e.meta = version
    <3>1. ~sys[d].reserved
      <4>1. Held(user, d) = 0
        BY <1>0, <2>2, HeldZero DEF ShardAccounts
      <4> QED
        BY <1>0, <2>2, <4>1 DEF EntryInv, Fits
    <3>2. sys[d] \in Entry
      BY <1>0, <2>2
    <3>3. [sys[d] EXCEPT !.meta = m.meta].meta = m.meta
      BY <3>2 DEF Entry
    <3> HIDE DEF m, d
    <3>4. EntryAfterArrival(m).meta = m.meta
      BY <1>0, <2>2, <3>1, <3>3 DEF EntryAfterArrival, WithMeta, Refreshed, d
    <3> QED
      BY <2>2, <3>4
  <2> HIDE DEF e, m
  <2>6. sys'[d].meta \in {NoMeta, version}
    BY <1>0, <2>2, <2>3, <2>4, <2>5, WithLiquidityMeta
  <2>7. \A k \in 1..Len(net') : net'[k].value > 0 /\ net'[k].meta = version'
    <3>1. /\ Len(net) \in Nat /\ Len(net') = Len(net) - 1
          /\ \A j \in 1..(Len(net) - 1) : net'[j] = IF j < i THEN net[j] ELSE net[j + 1]
      BY <1>0, <2>1, <2>3, RemoveAtProperties
    <3> TAKE k \in 1..Len(net')
    <3>2. PICK l \in 1..Len(net) : net'[k] = net[l]
      BY <2>1, <3>1
    <3> QED
      BY <1>4, <2>3, <3>2
  <2>8. \A c \in Accounts : user'[c].value > 0 => c = m.to
    BY <2>2, <2>3
  <2> QED
    BY <2>3, <2>6, <2>7, <2>8
<1>9. ASSUME NEW i \in DOMAIN net, Refuse(i)
      PROVE  Same
  <2> DEFINE m == net[i]
             back == SentBack(m)
             rest == RemoveAt(net, i)
  <2>1. i \in 1..Len(net) /\ m \in Message
    BY <1>0
  <2>2. /\ m.value > 0 /\ m.meta = version
        /\ \A c \in Accounts : user[c].value = 0
    BY <1>4, <2>1
  <2>3. user' = user /\ net' = Append(rest, back) /\ version' = version
    BY <1>9 DEF Refuse
  <2>4. back.value > 0 /\ back.meta = version
    BY <2>1, <2>2 DEF SentBack, Message
  <2>5. /\ rest \in Seq(Message) /\ Len(net) \in Nat /\ Len(rest) = Len(net) - 1
        /\ \A j \in 1..(Len(net) - 1) : rest[j] = IF j < i THEN net[j] ELSE net[j + 1]
    <3>1. i \in 1..Len(net) /\ net \in Seq(Message) /\ Len(net) \in Nat
      BY <1>0, <2>1
    <3>2. rest = RemoveAt(net, i)
      OBVIOUS
    <3> HIDE DEF rest, back, m
    <3> QED
      BY <3>1, <3>2, RemoveAtProperties
  <2> HIDE DEF rest, back, m
  <2>6. \A k \in 1..Len(rest) : rest[k].value > 0 /\ rest[k].meta = version
    <3> TAKE k \in 1..Len(rest)
    <3>1. PICK l \in 1..Len(net) : rest[k] = net[l]
      BY <2>1, <2>5
    <3> QED
      BY <1>4, <3>1
  <2>7. \A k \in 1..Len(net') : net'[k].value > 0 /\ net'[k].meta = version'
    <3>1. /\ Len(net') = Len(rest) + 1 /\ net'[Len(rest) + 1] = back
          /\ \A k \in 1..Len(rest) : net'[k] = rest[k]
      BY <2>3, <2>5
    <3> TAKE k \in 1..Len(net')
    <3>2. k \in 1..Len(rest) \/ k = Len(rest) + 1
      BY <2>5, <3>1
    <3> QED
      BY <2>3, <2>4, <2>6, <3>1, <3>2
  <2> QED
    BY <2>2, <2>3, <2>7
<1>10. ASSUME NEW a \in Accounts, NEW v \in Amounts, Create(a, v)
       PROVE  Same
  <2> DEFINE s == ShardOf[a]
             e == WithMeta(sys[s], user[a], 1, s, s, TRUE)
  <2>1. /\ version = NoMeta /\ version' = 1 /\ net' = net
        /\ \A c \in Accounts \ {a} : user'[c] = user[c]
        /\ sys' = [sys EXCEPT ![s] = WithLiquidity(e, v)]
    BY <1>0, <1>10 DEF Create
  <2>2. s \in Shards /\ sys[s] \in Entry /\ 1 \in Metas
    BY <1>0, NftAssumption DEF Metas
  <2>3. e \in Entry
    BY <2>2, WithMetaType
  <2>4. e.meta = 1
    BY <1>0 DEF WithMeta
  <2> HIDE DEF e
  <2>5. sys'[s].meta \in {NoMeta, 1}
    BY <1>0, <2>1, <2>2, <2>3, <2>4, WithLiquidityMeta
  <2>6. \A c \in Accounts : user'[c].value > 0 => c = a
    BY <1>4, <2>1
  <2>7. \A i \in 1..Len(net') : FALSE
    BY <1>4, <2>1
  <2> QED
    BY <2>1, <2>5, <2>6, <2>7
<1>11. ASSUME NEW a \in Accounts, NEW v \in Int, ChangeQuantity(a, v)
       PROVE  Same
  <2> DEFINE s == ShardOf[a]
  <2>1. /\ user[a] # NoRecord /\ MaySave(a, user[a].frozen, FALSE)
        /\ \A c \in Accounts \ {a} : user'[c] = user[c]
        /\ sys' = [sys EXCEPT ![s] = WithLiquidity(EntryAfterSave(a), v)]
        /\ UNCHANGED <<net, version>>
    BY <1>0, <1>11 DEF ChangeQuantity, Taken
  <2>2. /\ user[a].value > 0 /\ s \in Shards /\ sys[s] \in Entry /\ sys[s].meta = version
        /\ EntryAfterSave(a) = sys[s]
    BY <1>5, <2>1
  <2>3. sys'[s].meta \in {NoMeta, version}
    BY <1>0, <2>1, <2>2, WithLiquidityMeta
  <2>4. \A c \in Accounts : user'[c].value > 0 => c = a
    BY <1>4, <2>1, <2>2
  <2> QED
    BY <1>4, <2>1, <2>3, <2>4
<1>12. ASSUME NEW a \in Accounts, NEW v \in Amounts, AddQuantity(a, v) \/ Burn(a, v)
       PROVE  Same
  <2>1. v \in Int /\ -v \in Int
    BY <1>0
  <2> QED
    BY <1>11, <1>12, <2>1 DEF AddQuantity, Burn
<1>13. ASSUME NEW a \in Accounts, Update(a)
       PROVE  Same
  <2> DEFINE s == ShardOf[a]
             new == version + 1
             e == WithMeta(sys[s], user[a], new, s, s, TRUE)
  <2>1. /\ user[a] # NoRecord /\ MaySave(a, user[a].frozen, FALSE)
        /\ \A c \in Accounts \ {a} : user'[c] = user[c]
        /\ sys' = [sys EXCEPT ![s] = e]
        /\ net' = net /\ version' = new
    BY <1>0, <1>13 DEF Update
  <2>2. user[a].value > 0 /\ s \in Shards
    BY <1>5, <2>1
  <2>3. e.meta = new
    <3>1. new # NoMeta
      BY DEF TypeInv, Metas
    <3> QED
      BY <1>0, <3>1 DEF WithMeta
  <2> HIDE DEF e
  <2>4. sys'[s].meta = version'
    BY <1>0, <2>1, <2>2, <2>3
  <2>5. \A c \in Accounts : user'[c].value > 0 => c = a
    BY <1>4, <2>1, <2>2
  <2> QED
    BY <1>4, <2>1, <2>2, <2>4, <2>5
<1>14. CASE /\ \A c \in Accounts : user'[c].value > 0 =>
                 /\ user[c].value > 0
                 /\ sys'[ShardOf[c]].meta \in {NoMeta, sys[ShardOf[c]].meta}
            /\ UNCHANGED <<net, version>>
  BY <1>4, <1>14
<1>15. ASSUME NEW a \in Accounts, NEW f \in BOOLEAN,
              ToggleFreeze(a, f) \/ ToggleFreezeCollection(a, f)
       PROVE  Same
  <2>1. CASE ToggleFreeze(a, f)
    <3>1. \A c \in Accounts : user'[c].value = user[c].value
      BY <1>0, <2>1 DEF ToggleFreeze, Record
    <3> QED
      BY <1>14, <2>1, <3>1 DEF ToggleFreeze
  <2>2. CASE ToggleFreezeCollection(a, f)
    BY <1>14, <2>2 DEF ToggleFreezeCollection
  <2> QED
    BY <1>15, <2>1, <2>2
<1>16. ASSUME NEW a \in Accounts, Wipe(a)
       PROVE  Same
  <2> DEFINE s == ShardOf[a]
             counted == Active("WipeSingleNFTLiquidityDecreaseFlag")
             x == IF counted THEN -user[a].value ELSE 0
  <2>1. /\ user' = [user EXCEPT ![a] = NoRecord]
        /\ sys' = [sys EXCEPT ![s] = IF counted THEN WithLiquidity(sys[s], x) ELSE sys[s]]
        /\ UNCHANGED <<net, version>>
    BY <1>16 DEF Wipe
  <2>2. s \in Shards /\ sys[s] \in Entry
    BY <1>0
  <2> HIDE DEF x, counted
  <2>3. WithLiquidity(sys[s], x).meta \in {NoMeta, sys[s].meta}
    BY <2>2, WithLiquidityMeta
  <2>4. \A y \in Shards : sys'[y].meta \in {NoMeta, sys[y].meta}
    BY <1>0, <2>1, <2>2, <2>3
  <2>5. \A c \in Accounts : user'[c].value > 0 => user[c].value > 0
    BY <1>0, <1>4, <2>1 DEF NoRecord
  <2> QED
    BY <1>0, <1>14, <2>1, <2>4, <2>5
<1>17. ASSUME NEW s \in Shards, DeleteMetadata(s) \/ AddMetadata(s)
       PROVE  Same
  <2>1. /\ \A y \in Shards \ {s} : sys'[y] = sys[y]
        /\ UNCHANGED <<user, net, version>>
    BY <1>0, <1>17 DEF DeleteMetadata, AddMetadata
  <2>2. \A c \in Accounts : ShardOf[c] = s => user[c].value = 0
    <3>1. CASE DeleteMetadata(s)
      BY <3>1 DEF DeleteMetadata
    <3>2. CASE AddMetadata(s)
      <4>1. sys[s].meta = NoMeta
        BY <3>2 DEF AddMetadata
      <4>2. \A c \in Accounts : user[c].value > 0 => sys[ShardOf[c]].meta # NoMeta
        BY <1>4
      <4>3. \A c \in Accounts : user[c].value \in Nat
        BY <1>4
      <4> QED
        BY <4>1, <4>2, <4>3
    <3> QED
      BY <1>17, <3>1, <3>2
  <2> QED
    BY <1>0, <1>14, <2>1, <2>2
<1>18. ASSUME NEW s \in Shards, NEW p \in BOOLEAN, TogglePause(s, p)
       PROVE  Same
  BY <1>14, <1>18 DEF TogglePause
<1>19. CASE NextEpoch \/ UNCHANGED vars
  BY <1>14, <1>19 DEF NextEpoch, vars
<1> HIDE DEF Same
<1> QED
  BY <1>6, <1>7, <1>8, <1>9, <1>10, <1>12, <1>13, <1>15, <1>16, <1>17, <1>18, <1>19
     DEF Next, TransferStep, HolderStep, CommandStep

(* LatestMetadataHolds: of a token with a single piece, the holder reads   *)
(* the latest version, whatever old ones its way has left on system        *)
(* accounts (saveMetadataIfRequired).                                      *)
THEOREM LatestMetadataHolds ==
  ASSUME UniqueMetadata
  PROVE  Spec => []LatestMetadata
<1>0. SystemMetadata
  BY DEF UniqueMetadata
<1>1. Spec => [](TypeInv /\ QuantityInv /\ MetadataInv)
  BY <1>0, MetadataInvHolds
<1>2. Init => LatestInv
  BY DEF Init, LatestInv, NoRecord
<1>3. TypeInv /\ QuantityInv /\ MetadataInv /\ LatestInv /\ [Next]_vars => LatestInv'
  BY StepLatest
<1>4. TypeInv /\ QuantityInv /\ MetadataInv /\ LatestInv => LatestMetadata
  <2> SUFFICES ASSUME TypeInv, QuantityInv, MetadataInv, LatestInv PROVE LatestMetadata
    OBVIOUS
  <2>1. ASSUME NEW a \in Accounts, user[a].value > 0
        PROVE  MetaOf(user[a], sys[ShardOf[a]]) = version
    <3>1. SaveToSystem /\ version # NoMeta /\ sys[ShardOf[a]].meta = version
      BY <2>1, UniqueFlags, SinglePiece DEF LatestInv
    <3> QED
      BY <3>1 DEF MetaOf
  <2>2. \A i \in DOMAIN net : i \in 1..Len(net)
    BY DEF TypeInv
  <2> QED
    BY <2>1, <2>2 DEF LatestMetadata, LatestInv
<1> QED
  BY <1>1, <1>2, <1>3, <1>4, PTL DEF Spec

-----------------------------------------------------------------------------
(* NonceFreezeHolds: no call changes what a frozen account holds, apart    *)
(* from its wipe and from its own transfer that comes back                 *)
(* (checkFrozenPauseProperties, addNFTToDestination).                      *)
THEOREM NonceFreezeHolds == Spec => NonceFreezeKept
<1> DEFINE Kept(a) ==
             \/ user'[a].value = user[a].value /\ UNCHANGED <<net, supply>>
             \/ user'[a] = user[a]
             \/ Wiped(a)
             \/ ComesBack(a)
           Goal == \A a \in Accounts : user[a].frozen /\ version # NoMeta => Kept(a)
<1>1. ASSUME TypeInv, [Next]_vars, NEW a \in Accounts, user[a].frozen, version # NoMeta
      PROVE  Kept(a)
  <2>0. user \in [Accounts -> Record] /\ net \in Seq(Message)
    BY <1>1 DEF TypeInv
  <2>1. ASSUME NEW x \in Accounts, NEW b \in Accounts, NEW v \in Amounts,
               TransferInShard(x, b, v) \/ SendAcross(x, b, v)
        PROVE  Kept(a)
    <3>1. CASE TransferInShard(x, b, v)
      <4>1. a # x /\ a # b
        BY <1>1, <3>1 DEF TransferInShard, CanTake, CanGive, MaySave
      <4> QED
        BY <2>0, <3>1, <4>1 DEF TransferInShard, Taken
    <3>2. CASE SendAcross(x, b, v)
      <4>1. a # x
        BY <1>1, <3>2 DEF SendAcross, CanTake, MaySave
      <4> QED
        BY <2>0, <3>2, <4>1 DEF SendAcross, Taken
    <3> QED
      BY <2>1, <3>1, <3>2
  <2>2. ASSUME NEW i \in DOMAIN net, Deliver(i)
        PROVE  Kept(a)
    <3> DEFINE m == net[i]
               got == Stored(user[m.to].value + m.value, FALSE, m.meta)
    <3>1. net[i] \in Message
      BY <2>0
    <3>2. m.to \in Accounts /\ m.value \in Nat /\ m.meta \in Metas
      BY <3>1 DEF Message, Metas
    <3>3. user' = [user EXCEPT ![m.to] = got] /\ net' = RemoveAt(net, i)
      BY <2>2 DEF Deliver
    <3>4. CASE m.to # a
      BY <2>0, <3>3, <3>4
    <3>5. CASE m.to = a
      <4>1. m.retErr
        BY <1>1, <2>2, <3>5 DEF Deliver, Accepts, CanGive
      <4>2. user[m.to].value + m.value \in Nat
        BY <2>0, <3>2 DEF Record
      <4>3. got.value = user[m.to].value + m.value
        BY <3>2, <4>2, UnfrozenProperties
      <4> HIDE DEF got
      <4>4. user'[a].value = user[a].value + m.value
        BY <2>0, <3>3, <3>5, <4>3
      <4> QED
        BY <3>3, <3>5, <4>1, <4>4 DEF ComesBack
    <3> QED
      BY <3>4, <3>5
  <2>3. ASSUME NEW i \in DOMAIN net, Refuse(i)
        PROVE  Kept(a)
    BY <2>3 DEF Refuse
  <2>4. ASSUME NEW x \in Accounts, NEW v, ChangeQuantity(x, v)
        PROVE  Kept(a)
    <3>1. a # x
      BY <1>1, <2>4 DEF ChangeQuantity, MaySave
    <3> QED
      BY <2>0, <2>4, <3>1 DEF ChangeQuantity, Taken
  <2>5. ASSUME NEW x \in Accounts, NEW v \in Amounts,
               Create(x, v) \/ AddQuantity(x, v) \/ Burn(x, v)
        PROVE  Kept(a)
    BY <1>1, <2>4, <2>5 DEF Create, AddQuantity, Burn
  <2>6. ASSUME NEW x \in Accounts, Update(x)
        PROVE  Kept(a)
    <3>1. a # x
      BY <1>1, <2>6 DEF Update, MaySave
    <3> QED
      BY <2>0, <2>6, <3>1 DEF Update
  <2>7. ASSUME NEW x \in Accounts, NEW f \in BOOLEAN,
               ToggleFreeze(x, f) \/ ToggleFreezeCollection(x, f)
        PROVE  Kept(a)
    <3>1. CASE ToggleFreeze(x, f)
      <4>1. user'[a].value = user[a].value
        BY <2>0, <3>1 DEF ToggleFreeze, Record
      <4> QED
        BY <3>1, <4>1 DEF ToggleFreeze
    <3>2. CASE ToggleFreezeCollection(x, f)
      BY <3>2 DEF ToggleFreezeCollection
    <3> QED
      BY <2>7, <3>1, <3>2
  <2>8. ASSUME NEW x \in Accounts, Wipe(x)
        PROVE  Kept(a)
    <3>1. CASE x = a
      BY <2>0, <2>8, <3>1 DEF Wipe, Wiped
    <3>2. CASE x # a
      BY <2>0, <2>8, <3>2 DEF Wipe
    <3> QED
      BY <3>1, <3>2
  <2>9. CASE UNCHANGED user
    BY <2>9
  <2>10. ASSUME NEW s \in Shards, NEW p \in BOOLEAN,
                TogglePause(s, p) \/ DeleteMetadata(s) \/ AddMetadata(s)
         PROVE  Kept(a)
    BY <2>9, <2>10 DEF TogglePause, DeleteMetadata, AddMetadata
  <2>11. CASE NextEpoch \/ UNCHANGED vars
    BY <2>9, <2>11 DEF NextEpoch, vars
  <2> HIDE DEF Kept
  <2> QED
    BY <1>1, <2>1, <2>2, <2>3, <2>5, <2>6, <2>7, <2>8, <2>10, <2>11
       DEF Next, TransferStep, HolderStep, CommandStep
<1>2. TypeInv /\ [Next]_vars => [Goal]_vars
  BY <1>1
<1>3. Spec => []TypeInv
  BY InitType, StepType, PTL DEF Spec
<1>4. NonceFreezeKept <=> [][Goal]_vars
  BY DEF NonceFreezeKept
<1> QED
  BY <1>2, <1>3, <1>4, PTL DEF Spec
=============================================================================
