--------------------------- MODULE FungibleProofs ---------------------------
(***************************************************************************)
(* Proofs about FungibleLedger, for every set of accounts, shards and      *)
(* slots, every amount and every schedule of epoch flags.  The type        *)
(* invariant is inductive; the action properties and the refinement need   *)
(* nothing more than it.                                                   *)
(***************************************************************************)
EXTENDS FungibleLedger, SumTheorems

Records == [Accounts -> [value: Nat, frozen: BOOLEAN]]

USE DEF EmptyRecord, Records

(* The records that a transfer step can build are messages.               *)
LEMMA TransferIsMessage ==
  ASSUME NEW from \in Accounts, NEW to \in Accounts, NEW v \in Amounts,
         NEW c \in Call, NEW t \in CallType
  PROVE  Transfer(from, to, v, c, t) \in Messages
BY LedgerAssumption DEF Transfer, Messages

(* A message that is sent back is a message again. *)
LEMMA SentBackIsMessage ==
  ASSUME NEW m \in Messages, NEW c \in Call
  PROVE  SentBack(m, c) \in Messages
BY DEF SentBack, Messages, CallType

(* A credit keeps the records well formed. *)
LEMMA CreditType ==
  ASSUME NEW d \in Records,
         NEW a \in Accounts, NEW v \in Nat
  PROVE  Credit(d, a, v) \in Records
BY DEF Credit

(* A debit of no more than the balance keeps the records well formed. *)
LEMMA DebitType ==
  ASSUME NEW d \in Records,
         NEW a \in Accounts, NEW v \in Nat, d[a].value >= v
  PROVE  Debit(d, a, v) \in Records
BY DEF Debit

(* TypeOK holds in the initial state. *)
LEMMA InitType == Init => TypeOK
BY LedgerAssumption, EpochAssumption DEF Init, TypeOK

(* TypeOK is kept by every step. *)
LEMMA NextType == TypeOK /\ [Next]_vars => TypeOK'
<1> SUFFICES ASSUME TypeOK, [Next]_vars PROVE TypeOK'
  OBVIOUS
<1> USE DEF TypeOK
<1>1. CASE TransferStep
  <2>1. PICK from \in Accounts, to \in Accounts, v \in Amounts,
             c \in Call, t \in CallType :
          \/ TransferInShard(Transfer(from, to, v, c, t))
          \/ \E i \in Slots : SendAcross(i, Transfer(from, to, v, c, t))
    BY <1>1 DEF TransferStep
  <2> DEFINE m == Transfer(from, to, v, c, t)
  <2>2. m \in Messages /\ m.from = from /\ m.to = to /\ m.value = v
    BY TransferIsMessage DEF Transfer
  <2>3. v \in Nat
    BY LedgerAssumption
  <2> HIDE DEF m
  <2>4. CASE TransferInShard(m)
    <3>1. Debit(dcdt, from, v) \in Records
      BY <2>2, <2>3, <2>4, DebitType DEF TransferInShard, CanDebit
    <3>2. dcdt' \in Records
      BY <2>2, <2>3, <2>4, <3>1, CreditType DEF TransferInShard
    <3> QED
      BY <2>4, <3>2 DEF TransferInShard, admin
  <2>5. ASSUME NEW i \in Slots, SendAcross(i, m) PROVE TypeOK'
    <3>1. dcdt' \in Records
      BY <2>2, <2>3, <2>5, DebitType DEF SendAcross, CanDebit
    <3>2. net' \in [Slots -> Messages \cup {NoMsg}]
      BY <2>2, <2>5 DEF SendAcross
    <3> QED
      BY <2>5, <3>1, <3>2 DEF SendAcross, admin
  <2> QED
    BY <2>1, <2>4, <2>5 DEF m
<1>2. CASE MessageStep
  <2>1. ASSUME NEW i \in Slots, Deliver(i) PROVE TypeOK'
    <3>1. net[i] \in Messages
      BY <2>1 DEF Deliver
    <3>2. dcdt' \in Records
      BY <2>1, <3>1, CreditType DEF Deliver, Messages
    <3> QED
      BY <2>1, <3>2 DEF Deliver, admin
  <2>2. ASSUME NEW i \in Slots, NEW c \in Call, Return(i, c) PROVE TypeOK'
    <3>1. SentBack(net[i], c) \in Messages
      BY <2>2, SentBackIsMessage DEF Return
    <3> QED
      BY <2>2, <3>1 DEF Return, admin
  <2> QED
    BY <1>2, <2>1, <2>2 DEF MessageStep
<1>3. CASE SupplyStep
  <2>1. PICK a \in Accounts, v \in Amounts :
          SystemMint(a, v) \/ LocalMint(a, v) \/ LocalBurn(a, v) \/ GlobalBurn(a, v)
    BY <1>3 DEF SupplyStep
  <2>2. v \in Nat
    BY LedgerAssumption
  <2>3. CASE SystemMint(a, v) \/ LocalMint(a, v)
    <3>1. /\ dcdt' = Credit(dcdt, a, v)
          /\ supply' = supply + v
          /\ UNCHANGED <<settings, addresses, roles, epoch, commands, net>>
      BY <2>3 DEF SystemMint, LocalMint, admin
    <3>2. dcdt' \in Records
      BY <2>2, <3>1, CreditType
    <3> QED
      BY <2>2, <3>1, <3>2
  <2>4. CASE LocalBurn(a, v) \/ GlobalBurn(a, v)
    <3>1. /\ dcdt[a].value >= v
          /\ dcdt' = Debit(dcdt, a, v)
          /\ supply' = supply - v
          /\ UNCHANGED <<settings, addresses, roles, epoch, commands, net>>
      BY <2>4 DEF LocalBurn, GlobalBurn, CanDebit, admin
    <3>2. dcdt' \in Records
      BY <2>2, <3>1, DebitType
    <3> QED
      BY <2>2, <3>1, <3>2
  <2> QED
    BY <2>1, <2>3, <2>4
<1>4. CASE AccountCommand
  <2>1. ASSUME NEW a \in Accounts, NEW freeze \in BOOLEAN, ToggleFreeze(a, freeze)
        PROVE  TypeOK'
    BY <2>1 DEF ToggleFreeze, admin
  <2>2. ASSUME NEW a \in Accounts, Wipe(a) PROVE TypeOK'
    BY <2>2 DEF Wipe, admin
  <2>3. ASSUME NEW a \in Accounts, NEW R \in SUBSET Roles, SetRoles(a, R)
        PROVE  TypeOK'
    BY <2>3, LedgerAssumption DEF SetRoles
  <2>4. ASSUME NEW a \in Accounts, NEW R \in SUBSET Roles, UnSetRoles(a, R)
        PROVE  TypeOK'
    BY <2>4, LedgerAssumption DEF UnSetRoles
  <2> QED
    BY <1>4, <2>1, <2>2, <2>3, <2>4 DEF AccountCommand
<1>5. CASE ShardCommand
  <2>1. ASSUME NEW s \in Shards, NEW f \in Settings, NEW set \in BOOLEAN,
               ToggleSetting(s, f, set)
        PROVE  TypeOK'
    BY <2>1 DEF ToggleSetting
  <2>2. ASSUME NEW s \in Shards, NEW A \in SUBSET Accounts,
               AddTransferAddresses(s, A) \/ DeleteTransferAddresses(s, A)
        PROVE  TypeOK'
    BY <2>2 DEF AddTransferAddresses, DeleteTransferAddresses
  <2> QED
    BY <1>5, <2>1, <2>2 DEF ShardCommand
<1>6. CASE NextEpoch
  BY <1>6 DEF NextEpoch
<1>7. CASE UNCHANGED vars
  BY <1>7 DEF vars
<1> QED
  BY <1>1, <1>2, <1>3, <1>4, <1>5, <1>6, <1>7 DEF Next

(* TypeCorrect: in particular no order of calls on the shards makes a      *)
(* balance negative (ErrInsufficientFunds of addToDCDTBalance).            *)
THEOREM TypeCorrect == Spec => []TypeOK
<1>1. Init => TypeOK
  BY InitType
<1>2. TypeOK /\ [Next]_vars => TypeOK'
  BY NextType
<1> QED
  BY <1>1, <1>2, PTL DEF Spec

-----------------------------------------------------------------------------
(* What a step does to one account.                                        *)

(* A debit leaves every account's freeze, and the other accounts' records, *)
(* as they are; so does a credit.                                          *)
LEMMA DebitEffect ==
  ASSUME NEW d \in Records,
         NEW a \in Accounts, NEW v \in Nat, NEW b \in Accounts
  PROVE  /\ Debit(d, a, v)[b].frozen = d[b].frozen
         /\ b # a => Debit(d, a, v)[b] = d[b]
         /\ b = a => Debit(d, a, v)[b].value = d[b].value - v
BY DEF Debit

LEMMA CreditEffect ==
  ASSUME NEW d \in Records,
         NEW a \in Accounts, NEW v \in Nat, NEW b \in Accounts
  PROVE  /\ Credit(d, a, v)[b].frozen = d[b].frozen
         /\ b # a => Credit(d, a, v)[b] = d[b]
         /\ b = a => Credit(d, a, v)[b].value = d[b].value + v
BY DEF Credit

(* A transfer within a shard never changes the record of an account that   *)
(* is frozen or on a paused shard.                                         *)
LEMMA TransferInShardRespectsLock ==
  ASSUME TypeOK, NEW m \in Messages, m.value \in Nat, TransferInShard(m),
         NEW b \in Accounts
  PROVE  /\ dcdt'[b].frozen = dcdt[b].frozen
         /\ Locked(b) => dcdt'[b].value = dcdt[b].value
<1> DEFINE debited == Debit(dcdt, m.from, m.value)
<1>1. m.from \in Accounts /\ m.to \in Accounts
  BY DEF Messages
<1>2. debited \in Records
  BY <1>1, DebitType DEF TransferInShard, CanDebit, TypeOK
<1>4. dcdt' = Credit(debited, m.to, m.value)
  BY DEF TransferInShard
<1>5. /\ debited[b].frozen = dcdt[b].frozen
      /\ b # m.from => debited[b] = dcdt[b]
  BY <1>1, DebitEffect DEF TypeOK
<1>6. debited[m.to].frozen = dcdt[m.to].frozen
  BY <1>1, DebitEffect DEF TypeOK
<1> HIDE DEF debited
<1>7. /\ dcdt'[b].frozen = debited[b].frozen
      /\ b # m.to => dcdt'[b] = debited[b]
  BY <1>1, <1>2, <1>4, CreditEffect
<1>8. ~Locked(m.from) /\ ~Locked(m.to)
  BY <1>6 DEF TransferInShard, CanDebit, CanCredit, MayMove, Locked, debited
<1> QED
  BY <1>5, <1>7, <1>8

(* The two properties about one account, for one step. *)
LockedStep(a) ==
  Locked(a) =>
    \/ dcdt'[a].value = dcdt[a].value
    \/ dcdt[a].frozen /\ dcdt'[a] = EmptyRecord
    \/ \E i \in Slots :
         /\ ReturnedTo(a, i)
         /\ dcdt'[a].value = dcdt[a].value + net[i].value

FreezeStep(a) ==
  dcdt[a].frozen /\ ~dcdt'[a].frozen =>
    \/ dcdt'[a].value = dcdt[a].value
    \/ dcdt'[a] = EmptyRecord /\ supply' = supply - dcdt[a].value

(* Every step respects the lock of every account: what moves tokens asks   *)
(* MayMove, and the returned transfers are the only ones it lets pass.     *)
LEMMA StepRespectsLock ==
  ASSUME TypeOK, [Next]_vars, NEW b \in Accounts
  PROVE  LockedStep(b) /\ FreezeStep(b)
<1> USE DEF LockedStep, FreezeStep
<1>0. dcdt \in Records
  BY DEF TypeOK
<1>1. CASE TransferStep
  <2>1. PICK from \in Accounts, to \in Accounts, v \in Amounts,
             c \in Call, t \in CallType :
          \/ TransferInShard(Transfer(from, to, v, c, t))
          \/ \E i \in Slots : SendAcross(i, Transfer(from, to, v, c, t))
    BY <1>1 DEF TransferStep
  <2> DEFINE m == Transfer(from, to, v, c, t)
  <2>2. m \in Messages /\ m.from = from /\ m.value = v
    BY TransferIsMessage DEF Transfer
  <2>3. v \in Nat
    BY LedgerAssumption
  <2> HIDE DEF m
  <2>4. CASE TransferInShard(m)
    BY <2>2, <2>3, <2>4, TransferInShardRespectsLock
  <2>5. ASSUME NEW i \in Slots, SendAcross(i, m)
        PROVE  LockedStep(b) /\ FreezeStep(b)
    <3>1. dcdt' = Debit(dcdt, from, v) /\ ~Locked(from)
      BY <2>2, <2>5 DEF SendAcross, CanDebit, MayMove, Locked
    <3> QED
      BY <1>0, <2>3, <3>1, DebitEffect
  <2> QED
    BY <2>1, <2>4, <2>5 DEF m
<1>2. CASE MessageStep
  <2>1. ASSUME NEW i \in Slots, Deliver(i)
        PROVE  LockedStep(b) /\ FreezeStep(b)
    <3>1. /\ net[i] \in Messages /\ net[i] # NoMsg /\ net'[i] = NoMsg
          /\ dcdt' = Credit(dcdt, net[i].to, net[i].value)
          /\ net[i].retErr \/ ~Locked(net[i].to)
      BY <2>1 DEF Deliver, Accepts, CanCredit, MayMove, Locked, TypeOK
    <3>2. /\ dcdt'[b].frozen = dcdt[b].frozen
          /\ b # net[i].to => dcdt'[b] = dcdt[b]
          /\ b = net[i].to => dcdt'[b].value = dcdt[b].value + net[i].value
      BY <1>0, <3>1, CreditEffect DEF Messages
    <3> QED
      BY <3>1, <3>2 DEF ReturnedTo
  <2>2. ASSUME NEW i \in Slots, NEW c \in Call, Return(i, c)
        PROVE  LockedStep(b) /\ FreezeStep(b)
    BY <2>2 DEF Return
  <2> QED
    BY <1>2, <2>1, <2>2 DEF MessageStep
<1>3. CASE SupplyStep
  <2>1. PICK a \in Accounts, v \in Amounts :
          SystemMint(a, v) \/ LocalMint(a, v) \/ LocalBurn(a, v) \/ GlobalBurn(a, v)
    BY <1>3 DEF SupplyStep
  <2>2. v \in Nat
    BY LedgerAssumption
  <2>3. CASE SystemMint(a, v) \/ LocalMint(a, v)
    <3>1. dcdt' = Credit(dcdt, a, v) /\ ~Locked(a)
      BY <2>3
         DEF SystemMint, LocalMint, Accepts, CanCredit, MayMove, Locked, Transfer
    <3> QED
      BY <1>0, <2>2, <3>1, CreditEffect
  <2>4. CASE LocalBurn(a, v) \/ GlobalBurn(a, v)
    <3>1. dcdt' = Debit(dcdt, a, v) /\ ~Locked(a)
      BY <2>4 DEF LocalBurn, GlobalBurn, CanDebit, MayMove, Locked
    <3> QED
      BY <1>0, <2>2, <3>1, DebitEffect
  <2> QED
    BY <2>1, <2>3, <2>4
<1>4. CASE AccountCommand
  <2>1. ASSUME NEW a \in Accounts, NEW freeze \in BOOLEAN, ToggleFreeze(a, freeze)
        PROVE  LockedStep(b) /\ FreezeStep(b)
    BY <1>0, <2>1 DEF ToggleFreeze
  <2>2. ASSUME NEW a \in Accounts, Wipe(a)
        PROVE  LockedStep(b) /\ FreezeStep(b)
    BY <1>0, <2>2 DEF Wipe
  <2>3. ASSUME NEW a \in Accounts, NEW R \in SUBSET Roles,
               SetRoles(a, R) \/ UnSetRoles(a, R)
        PROVE  LockedStep(b) /\ FreezeStep(b)
    BY <2>3 DEF SetRoles, UnSetRoles
  <2> QED
    BY <1>4, <2>1, <2>2, <2>3 DEF AccountCommand
<1>5. CASE ShardCommand
  BY <1>5
     DEF ShardCommand, ToggleSetting, AddTransferAddresses, DeleteTransferAddresses
<1>6. CASE NextEpoch
  BY <1>6 DEF NextEpoch
<1>7. CASE UNCHANGED vars
  BY <1>7 DEF vars
<1> QED
  BY <1>1, <1>2, <1>3, <1>4, <1>5, <1>6, <1>7 DEF Next

(* LockedBalanceHolds: a frozen account's balance, and every balance on a  *)
(* paused shard, is out of reach of everyone but the system contract and   *)
(* the account's own returned transfers.                                   *)
THEOREM LockedBalanceHolds == Spec => LockedBalance
<1>1. TypeOK /\ [Next]_vars => [\A a \in Accounts : LockedStep(a)]_vars
  BY StepRespectsLock
<1>2. Spec => [][\A a \in Accounts : LockedStep(a)]_vars
  BY <1>1, TypeCorrect, PTL DEF Spec
<1> QED
  BY <1>2 DEF LockedBalance, LockedStep

(* FreezeOutlivesReturnHolds: no transfer lifts a freeze. *)
THEOREM FreezeOutlivesReturnHolds == Spec => FreezeOutlivesReturn
<1>1. TypeOK /\ [Next]_vars => [\A a \in Accounts : FreezeStep(a)]_vars
  BY StepRespectsLock
<1>2. Spec => [][\A a \in Accounts : FreezeStep(a)]_vars
  BY <1>1, TypeCorrect, PTL DEF Spec
<1> QED
  BY <1>2 DEF FreezeOutlivesReturn, FreezeStep

-----------------------------------------------------------------------------
(* The ledger implements TokenBank. *)

(* Read as a bank, a state has a natural number of tokens with everyone.   *)
LEMMA HoldingType ==
  ASSUME TypeOK
  PROVE  /\ Holding \in [Accounts \cup Slots -> Nat]
         /\ \A a \in Accounts : Holding[a] = dcdt[a].value
         /\ \A i \in Slots : Holding[i] = InFlight(i)
BY NetAssumption DEF TypeOK, Holding, InFlight, Messages

(* The holding of an account is its balance, in the next state too. *)
LEMMA HoldingPointwise ==
  /\ Holding = [h \in Accounts \cup Slots |-> Holding[h]]
  /\ Holding' = [h \in Accounts \cup Slots |-> Holding'[h]]
  /\ \A a \in Accounts : Holding[a] = dcdt[a].value /\ Holding'[a] = dcdt'[a].value
  /\ \A i \in Slots : Holding[i] = InFlight(i) /\ Holding'[i] = InFlight(i)'
BY NetAssumption DEF Holding

(* Only the balances and the messages make the holdings. *)
LEMMA HoldingUnchanged ==
  ASSUME \A a \in Accounts : dcdt'[a].value = dcdt[a].value,
         \A i \in Slots : InFlight(i)' = InFlight(i)
  PROVE  Holding' = Holding
BY NetAssumption DEF Holding

(* A step that adds n to one holding, leaving the others, is a bank mint   *)
(* if it adds n to the supply; one that subtracts it is a bank burn.       *)
LEMMA MintIsBankMint ==
  ASSUME TypeOK, NEW a \in Accounts, NEW n \in Nat, supply + n <= MaxSupply,
         dcdt' = Credit(dcdt, a, n), supply' = supply + n, net' = net
  PROVE  Bank!Mint(a)
<1>1. n \in 0..(MaxSupply - supply)
  BY LedgerAssumption DEF TypeOK
<1>2. Holding' = [Holding EXCEPT ![a] = @ + n]
  BY NetAssumption DEF TypeOK, Holding, InFlight, Credit
<1> QED
  BY <1>1, <1>2 DEF Bank!Mint

LEMMA BurnIsBankBurn ==
  ASSUME TypeOK, NEW a \in Accounts, NEW n \in 0..dcdt[a].value,
         dcdt'[a].value = dcdt[a].value - n,
         \A b \in Accounts \ {a} : dcdt'[b] = dcdt[b],
         supply' = supply - n, net' = net
  PROVE  Bank!Burn(a)
<1>1. n \in 0..Holding[a]
  BY HoldingType
<1>2. Holding' = [Holding EXCEPT ![a] = @ - n]
  BY NetAssumption DEF TypeOK, Holding, InFlight
<1> QED
  BY <1>1, <1>2 DEF Bank!Burn

(* The three ways in which a transfer moves tokens. *)
LEMMA TransferInShardIsBankMove ==
  ASSUME TypeOK, NEW m \in Messages, TransferInShard(m)
  PROVE  [Bank!Next]_Bank!bank
<1> DEFINE debited == Debit(dcdt, m.from, m.value)
<1>1. /\ m.from \in Accounts /\ m.to \in Accounts /\ m.value \in Nat
      /\ dcdt \in Records
  BY DEF Messages, TypeOK
<1>2. /\ m.value <= dcdt[m.from].value
      /\ dcdt' = Credit(debited, m.to, m.value)
      /\ supply' = supply /\ net' = net
  BY <1>1 DEF TransferInShard, CanDebit
<1>3. debited \in Records
  BY <1>1, <1>2, DebitType
<1>4. /\ debited[m.from].value = dcdt[m.from].value - m.value
      /\ \A b \in Accounts \ {m.from} : debited[b] = dcdt[b]
  BY <1>1 DEF Debit
<1> HIDE DEF debited
<1>5. /\ dcdt'[m.to].value = debited[m.to].value + m.value
      /\ \A b \in Accounts \ {m.to} : dcdt'[b] = debited[b]
  BY <1>1, <1>2, <1>3 DEF Credit
<1>6. CASE m.from = m.to
  <2>1. \A a \in Accounts : dcdt'[a].value = dcdt[a].value
    BY <1>1, <1>4, <1>5, <1>6
  <2>2. Holding' = Holding
    BY <1>2, <2>1, HoldingUnchanged DEF InFlight
  <2> QED
    BY <1>2, <2>2 DEF Bank!bank
<1>7. CASE m.from # m.to
  <2>1. m.value \in 0..Holding[m.from]
    BY <1>1, <1>2, HoldingType
  <2>2. Holding' = [Holding EXCEPT ![m.from] = @ - m.value, ![m.to] = @ + m.value]
    <3>1. \A i \in Slots : InFlight(i)' = InFlight(i)
      BY <1>2 DEF InFlight
    <3>2. \A a \in Accounts : dcdt'[a].value =
            CASE a = m.from -> dcdt[a].value - m.value
              [] a = m.to -> dcdt[a].value + m.value
              [] OTHER -> dcdt[a].value
      BY <1>1, <1>4, <1>5, <1>7
    <3> QED
      BY <1>1, <1>7, <3>1, <3>2, HoldingPointwise
  <2>3. Bank!Move(m.from, m.to)
    BY <1>2, <1>7, <2>1, <2>2 DEF Bank!Move
  <2> QED
    BY <1>1, <2>3 DEF Bank!Next
<1> QED
  BY <1>6, <1>7

LEMMA SendAcrossIsBankMove ==
  ASSUME TypeOK, NEW m \in Messages, NEW i \in Slots, SendAcross(i, m)
  PROVE  Bank!Move(m.from, i)
<1>1. /\ m.from \in Accounts /\ m.value \in Nat /\ m # NoMsg
  BY NetAssumption DEF Messages
<1>2. /\ net[i] = NoMsg /\ net' = [net EXCEPT ![i] = m]
      /\ m.value <= dcdt[m.from].value
      /\ dcdt' = Debit(dcdt, m.from, m.value)
      /\ supply' = supply
  BY <1>1 DEF SendAcross, CanDebit, TypeOK
<1>3. m.from # i
  BY <1>1, NetAssumption
<1>4. m.value \in 0..Holding[m.from]
  BY <1>1, <1>2, HoldingType
<1>5. \A j \in Slots : InFlight(j)' = IF j = i THEN m.value ELSE InFlight(j)
  BY <1>1, <1>2 DEF InFlight, TypeOK
<1>6. InFlight(i) = 0
  BY <1>2 DEF InFlight
<1>7. \A a \in Accounts : dcdt'[a].value =
        IF a = m.from THEN dcdt[a].value - m.value ELSE dcdt[a].value
  BY <1>1, <1>2 DEF Debit, TypeOK
<1>8. Holding' = [Holding EXCEPT ![m.from] = @ - m.value, ![i] = @ + m.value]
  BY <1>1, <1>3, <1>5, <1>6, <1>7, HoldingPointwise, NetAssumption
<1> QED
  BY <1>2, <1>3, <1>4, <1>8 DEF Bank!Move

LEMMA DeliverIsBankMove ==
  ASSUME TypeOK, NEW i \in Slots, Deliver(i)
  PROVE  \E a \in Accounts : Bank!Move(i, a)
<1> DEFINE m == net[i]
<1>1. /\ m \in Messages /\ m # NoMsg /\ m.to \in Accounts /\ m.value \in Nat
  BY DEF Deliver, TypeOK, Messages
<1>2. /\ net' = [net EXCEPT ![i] = NoMsg]
      /\ dcdt' = Credit(dcdt, m.to, m.value)
      /\ supply' = supply
  BY DEF Deliver
<1>3. m.to # i
  BY <1>1, NetAssumption
<1>4. InFlight(i) = m.value
  BY <1>1 DEF InFlight
<1>5. \A j \in Slots : InFlight(j)' = IF j = i THEN 0 ELSE InFlight(j)
  BY <1>2 DEF InFlight, TypeOK
<1>6. \A a \in Accounts : dcdt'[a].value =
        IF a = m.to THEN dcdt[a].value + m.value ELSE dcdt[a].value
  BY <1>1, <1>2 DEF Credit, TypeOK
<1> HIDE DEF m
<1>7. m.value \in 0..Holding[i]
  BY <1>1, <1>4, HoldingType
<1>8. Holding' = [Holding EXCEPT ![i] = @ - m.value, ![m.to] = @ + m.value]
  BY <1>1, <1>3, <1>4, <1>5, <1>6, HoldingPointwise, NetAssumption
<1>9. Bank!Move(i, m.to)
  BY <1>2, <1>3, <1>7, <1>8 DEF Bank!Move
<1> QED
  BY <1>1, <1>9

(* A transfer that is sent back stays in its slot with its amount. *)
LEMMA ReturnIsStutter ==
  ASSUME TypeOK, NEW i \in Slots, NEW c \in Call, Return(i, c)
  PROVE  UNCHANGED Bank!bank
<1>1. SentBack(net[i], c) # NoMsg /\ net[i] # NoMsg
  BY SentBackIsMessage, NetAssumption DEF Return, TypeOK
<1>2. \A j \in Slots : InFlight(j)' = InFlight(j)
  BY <1>1 DEF Return, InFlight, SentBack, TypeOK
<1>3. dcdt' = dcdt /\ supply' = supply
  BY DEF Return
<1> QED
  BY <1>2, <1>3, HoldingUnchanged DEF Bank!bank

(* Every step of the ledger is a step of the bank, or leaves it alone.     *)
LEMMA StepIsBankStep ==
  ASSUME TypeOK, [Next]_vars
  PROVE  [Bank!Next]_Bank!bank
<1>1. CASE TransferStep
  <2>1. PICK from \in Accounts, to \in Accounts, v \in Amounts,
             c \in Call, t \in CallType :
          \/ TransferInShard(Transfer(from, to, v, c, t))
          \/ \E i \in Slots : SendAcross(i, Transfer(from, to, v, c, t))
    BY <1>1 DEF TransferStep
  <2> DEFINE m == Transfer(from, to, v, c, t)
  <2>2. m \in Messages /\ m.from = from
    BY TransferIsMessage DEF Transfer
  <2> HIDE DEF m
  <2>3. CASE TransferInShard(m)
    BY <2>2, <2>3, TransferInShardIsBankMove
  <2>4. ASSUME NEW i \in Slots, SendAcross(i, m) PROVE Bank!Next
    BY <2>2, <2>4, SendAcrossIsBankMove DEF Bank!Next
  <2> QED
    BY <2>1, <2>3, <2>4 DEF m
<1>2. CASE MessageStep
  <2>1. ASSUME NEW i \in Slots, Deliver(i) PROVE Bank!Next
    BY <2>1, DeliverIsBankMove DEF Bank!Next
  <2>2. ASSUME NEW i \in Slots, NEW c \in Call, Return(i, c)
        PROVE  UNCHANGED Bank!bank
    BY <2>2, ReturnIsStutter
  <2> QED
    BY <1>2, <2>1, <2>2 DEF MessageStep
<1>3. CASE SupplyStep
  <2>1. PICK a \in Accounts, v \in Amounts :
          SystemMint(a, v) \/ LocalMint(a, v) \/ LocalBurn(a, v) \/ GlobalBurn(a, v)
    BY <1>3 DEF SupplyStep
  <2>2. v \in Nat
    BY LedgerAssumption
  <2>3. CASE SystemMint(a, v) \/ LocalMint(a, v)
    <3>1. /\ supply + v <= MaxSupply /\ dcdt' = Credit(dcdt, a, v)
          /\ supply' = supply + v /\ net' = net
      BY <2>3 DEF SystemMint, LocalMint
    <3>2. Bank!Mint(a)
      BY <2>2, <3>1, MintIsBankMint
    <3> QED
      BY <3>2 DEF Bank!Next
  <2>4. CASE LocalBurn(a, v) \/ GlobalBurn(a, v)
    <3>1. /\ v <= dcdt[a].value /\ dcdt' = Debit(dcdt, a, v)
          /\ supply' = supply - v /\ net' = net
      BY <2>2, <2>4 DEF LocalBurn, GlobalBurn, CanDebit, TypeOK
    <3>2. v \in 0..dcdt[a].value
      BY <2>2, <3>1 DEF TypeOK
    <3>3. /\ dcdt'[a].value = dcdt[a].value - v
          /\ \A b \in Accounts \ {a} : dcdt'[b] = dcdt[b]
      BY <3>1 DEF Debit, TypeOK
    <3>4. Bank!Burn(a)
      BY <3>1, <3>2, <3>3, BurnIsBankBurn
    <3> QED
      BY <3>4 DEF Bank!Next
  <2> QED
    BY <2>1, <2>3, <2>4
<1>4. CASE AccountCommand
  <2>1. ASSUME NEW a \in Accounts, NEW freeze \in BOOLEAN, ToggleFreeze(a, freeze)
        PROVE  UNCHANGED Bank!bank
    <3>1. \A b \in Accounts : dcdt'[b].value = dcdt[b].value
      BY <2>1 DEF ToggleFreeze, TypeOK
    <3>2. net' = net /\ supply' = supply
      BY <2>1 DEF ToggleFreeze
    <3> QED
      BY <3>1, <3>2, HoldingUnchanged DEF Bank!bank, InFlight
  <2>2. ASSUME NEW a \in Accounts, Wipe(a) PROVE Bank!Next
    <3>1. dcdt[a].value \in 0..dcdt[a].value
      BY DEF TypeOK
    <3>2. /\ dcdt'[a].value = dcdt[a].value - dcdt[a].value
          /\ \A b \in Accounts \ {a} : dcdt'[b] = dcdt[b]
          /\ supply' = supply - dcdt[a].value /\ net' = net
      BY <2>2 DEF Wipe, TypeOK
    <3>3. Bank!Burn(a)
      BY <3>1, <3>2, BurnIsBankBurn
    <3> QED
      BY <3>3 DEF Bank!Next
  <2>3. ASSUME NEW a \in Accounts, NEW R \in SUBSET Roles,
               SetRoles(a, R) \/ UnSetRoles(a, R)
        PROVE  UNCHANGED Bank!bank
    BY <2>3, HoldingUnchanged DEF SetRoles, UnSetRoles, Bank!bank, InFlight
  <2> QED
    BY <1>4, <2>1, <2>2, <2>3 DEF AccountCommand
<1>5. CASE ShardCommand
  BY <1>5, HoldingUnchanged DEF ShardCommand, ToggleSetting,
     AddTransferAddresses, DeleteTransferAddresses, Bank!bank, InFlight
<1>6. CASE NextEpoch
  BY <1>6, HoldingUnchanged DEF NextEpoch, Bank!bank, InFlight
<1>7. CASE UNCHANGED vars
  BY <1>7, HoldingUnchanged DEF vars, Bank!bank, InFlight
<1> QED
  BY <1>1, <1>2, <1>3, <1>4, <1>5, <1>6, <1>7 DEF Next

(* LedgerImplementsBank: a transfer moves exactly its amount from the      *)
(* sender to the message and from the message to its destination or back,  *)
(* and nothing but a mint, a burn or a wipe changes the supply.            *)
THEOREM LedgerImplementsBank == Spec => ImplementsBank
<1>1. Init => Bank!Init
  <2>1. Init => Holding = [h \in Accounts \cup Slots |-> 0]
    BY NetAssumption DEF Init, Holding, InFlight
  <2> QED
    BY <2>1 DEF Init, Bank!Init
<1>2. TypeOK /\ [Next]_vars => [Bank!Next]_Bank!bank
  BY StepIsBankStep
<1> QED
  BY <1>1, <1>2, TypeCorrect, PTL DEF Spec, ImplementsBank, Bank!Spec

-----------------------------------------------------------------------------
(* Conservation *)

(* Every step of a bank changes the sum of what is held as much as the     *)
(* total.                                                                  *)
LEMMA BankStepConserves ==
  ASSUME TypeOK, TypeOK', [Bank!Next]_Bank!bank, Conservation
  PROVE  Conservation'
<1> DEFINE H == Accounts \cup Slots
           old == Holding
           new == Holding'
<1>1. IsFiniteSet(H)
  BY NetAssumption, FS_Union
<1>2. old \in [H -> Int] /\ new \in [H -> Int] /\ old \in [H -> Nat]
  <2>1. old \in [H -> Nat]
    BY HoldingType
  <2>2. TypeOK' => new \in [H -> Nat]
    BY NetAssumption DEF TypeOK, Holding, InFlight, Messages
  <2> HIDE DEF old, new
  <2> QED
    BY <2>1, <2>2
<1>3. supply \in Int /\ supply' \in Int
  BY DEF TypeOK
<1>4. supply = SumFunction(old)
  BY DEF Conservation
<1>5. SUFFICES supply' = SumFunction(new)
  BY DEF Conservation
<1>6. CASE UNCHANGED Bank!bank
  BY <1>4, <1>6 DEF Bank!bank
<1>7. ASSUME NEW h \in H, Bank!Mint(h) PROVE supply' = SumFunction(new)
  <2>1. PICK n \in 0..(MaxSupply - supply) :
          new = [old EXCEPT ![h] = @ + n] /\ supply' = supply + n
    BY <1>7 DEF Bank!Mint
  <2> HIDE DEF old, new, H
  <2>2. /\ n \in Int /\ old[h] \in Int
        /\ new[h] = old[h] + n /\ \A g \in H \ {h} : new[g] = old[g]
    BY <1>2, <1>3, <2>1, LedgerAssumption
  <2>3. SumFunction(new) = SumFunction(old) + new[h] - old[h]
    BY <1>1, <1>2, <2>2, SumUpdate
  <2> QED
    BY <1>3, <1>4, <2>1, <2>2, <2>3
<1>8. ASSUME NEW h \in H, Bank!Burn(h) PROVE supply' = SumFunction(new)
  <2>1. PICK n \in 0..old[h] :
          new = [old EXCEPT ![h] = @ - n] /\ supply' = supply - n
    BY <1>8 DEF Bank!Burn
  <2> HIDE DEF old, new, H
  <2>2. /\ n \in Int /\ old[h] \in Int
        /\ new[h] = old[h] - n /\ \A g \in H \ {h} : new[g] = old[g]
    BY <1>2, <1>3, <2>1
  <2>3. SumFunction(new) = SumFunction(old) + new[h] - old[h]
    BY <1>1, <1>2, <2>2, SumUpdate
  <2> QED
    BY <1>3, <1>4, <2>1, <2>2, <2>3
<1>9. ASSUME NEW g \in H, NEW h \in H, Bank!Move(g, h)
      PROVE  supply' = SumFunction(new)
  <2>1. PICK n \in 0..old[g] :
          new = [old EXCEPT ![g] = @ - n, ![h] = @ + n] /\ g # h /\ supply' = supply
    BY <1>9 DEF Bank!Move
  <2> HIDE DEF old, new, H
  <2> DEFINE mid == [old EXCEPT ![g] = @ - n]
  <2>2. /\ n \in Int /\ old[g] \in Int /\ old[h] \in Int /\ mid \in [H -> Int]
        /\ mid[g] = old[g] - n /\ \A k \in H \ {g} : mid[k] = old[k]
        /\ new[h] = mid[h] + n /\ \A k \in H \ {h} : new[k] = mid[k]
    BY <1>2, <2>1
  <2> HIDE DEF mid
  <2>3. SumFunction(mid) = SumFunction(old) + mid[g] - old[g]
    BY <1>1, <1>2, <2>2, SumUpdate
  <2>4. SumFunction(new) = SumFunction(mid) + new[h] - mid[h]
    BY <1>1, <1>2, <2>2, SumUpdate, ZenonT(60)
  <2>5. mid[h] \in Int /\ SumFunction(old) \in Int
    BY <1>1, <1>2, <2>2, SumType
  <2> QED
    BY <1>4, <2>1, <2>2, <2>3, <2>4, <2>5
<1> HIDE DEF old, new
<1> QED
  BY <1>6, <1>7, <1>8, <1>9 DEF Bank!Next

(* ConservationHolds: whatever the order of the calls and messages, the    *)
(* tokens of the accounts and of the messages are those that were issued.  *)
THEOREM ConservationHolds == Spec => []Conservation
<1>1. Init => Conservation
  <2> SUFFICES ASSUME Init PROVE Conservation
    OBVIOUS
  <2> DEFINE H == Accounts \cup Slots
             holds == Holding
  <2>1. IsFiniteSet(H)
    BY NetAssumption, FS_Union
  <2>2. holds \in [H -> Int] /\ \A h \in H : holds[h] = 0
    BY NetAssumption DEF Init, Holding, InFlight
  <2> HIDE DEF holds, H
  <2>3. SumFunction(holds) = 0
    BY <2>1, <2>2, SumZero
  <2> QED
    BY <2>3 DEF Init, Conservation, holds
<1>2. TypeOK /\ TypeOK' /\ [Next]_vars /\ Conservation => Conservation'
  BY StepIsBankStep, BankStepConserves
<1> QED
  BY <1>1, <1>2, TypeCorrect, PTL DEF Spec

-----------------------------------------------------------------------------
(* Limited transfers *)

LimitedStep(a, b) ==
  LET s == ShardOf[a] IN
  /\ SetOn("limited", s)
  /\ dcdt'[a].value < dcdt[a].value
  /\ Receives(b)
  => KnownToTransfer(s, a) \/ KnownToTransfer(s, b)

(* No step takes from a and gives to b where transfers are limited, unless *)
(* the sender's shard knows one of them to have the transfer role.         *)
LEMMA StepRespectsLimit ==
  ASSUME TypeOK, [Next]_vars, NEW a \in Accounts, NEW b \in Accounts
  PROVE  LimitedStep(a, b)
<1> SUFFICES ASSUME SetOn("limited", ShardOf[a]),
                    dcdt'[a].value < dcdt[a].value,
                    Receives(b)
             PROVE  KnownToTransfer(ShardOf[a], a) \/ KnownToTransfer(ShardOf[a], b)
  BY DEF LimitedStep
<1>0. dcdt \in Records
  BY DEF TypeOK
<1>1. CASE TransferStep
  <2>1. PICK from \in Accounts, to \in Accounts, v \in Amounts,
             c \in Call, t \in CallType :
          \/ TransferInShard(Transfer(from, to, v, c, t))
          \/ \E i \in Slots : SendAcross(i, Transfer(from, to, v, c, t))
    BY <1>1 DEF TransferStep
  <2> DEFINE m == Transfer(from, to, v, c, t)
  <2>2. m \in Messages /\ m.from = from /\ m.to = to /\ m.value = v
    BY TransferIsMessage DEF Transfer
  <2>3. v \in Nat
    BY LedgerAssumption
  <2> HIDE DEF m
  <2>4. SUFFICES a = from /\ b = to /\ LimitedTransferCanHappen(from, to)
    BY DEF LimitedTransferCanHappen, KnownToTransfer
  <2>5. CASE TransferInShard(m)
    <3> DEFINE debited == Debit(dcdt, from, v)
    <3>1. /\ debited \in Records
          /\ dcdt' = Credit(debited, to, v) /\ net' = net
          /\ LimitedTransferCanHappen(from, to)
      BY <1>0, <2>2, <2>3, <2>5, DebitType DEF TransferInShard, CanDebit
    <3>2. \A x \in Accounts :
            /\ x # from => debited[x] = dcdt[x]
            /\ x = from => debited[x].value = dcdt[x].value - v
      BY <1>0 DEF Debit
    <3> HIDE DEF debited
    <3>3. \A x \in Accounts :
            /\ x # to => dcdt'[x] = debited[x]
            /\ x = to => dcdt'[x].value = debited[x].value + v
      BY <2>3, <3>1, CreditEffect
    <3>4. a = from
      BY <1>0, <2>3, <3>2, <3>3
    <3>5. b = to
      BY <1>0, <2>3, <3>1, <3>2, <3>3 DEF Receives
    <3> QED
      BY <3>1, <3>4, <3>5
  <2>6. ASSUME NEW i \in Slots, SendAcross(i, m)
        PROVE  a = from /\ b = to /\ LimitedTransferCanHappen(from, to)
    <3>1. /\ dcdt' = Debit(dcdt, from, v)
          /\ net' = [net EXCEPT ![i] = m]
          /\ LimitedTransferCanHappen(from, to)
      BY <2>2, <2>6 DEF SendAcross
    <3>2. \A x \in Accounts :
            /\ x # from => dcdt'[x] = dcdt[x]
            /\ x = from => dcdt'[x].value = dcdt[x].value - v
      BY <1>0, <2>3, <3>1, DebitEffect
    <3>3. a = from
      BY <1>0, <2>3, <3>2
    <3>4. b = to
      BY <1>0, <2>2, <2>3, <3>1, <3>2 DEF Receives, TypeOK
    <3> QED
      BY <3>1, <3>3, <3>4
  <2> QED
    BY <2>1, <2>5, <2>6 DEF m
<1>2. CASE MessageStep
  <2>1. ASSUME NEW i \in Slots, Deliver(i) PROVE FALSE
    <3>1. /\ net[i].to \in Accounts /\ net[i].value \in Nat
          /\ dcdt' = Credit(dcdt, net[i].to, net[i].value)
      BY <2>1 DEF Deliver, TypeOK, Messages
    <3>2. dcdt \in Records /\ dcdt[a].value \in Nat
      BY <1>0
    <3>3. dcdt'[a] = dcdt[a] \/ dcdt'[a].value = dcdt[a].value + net[i].value
      BY <3>1, <3>2, CreditEffect
    <3> QED
      BY <1>0, <3>1, <3>2, <3>3
  <2>2. ASSUME NEW i \in Slots, NEW c \in Call, Return(i, c) PROVE FALSE
    BY <1>0, <2>2 DEF Return
  <2> QED
    BY <1>2, <2>1, <2>2 DEF MessageStep
<1>3. CASE SupplyStep
  <2>1. PICK x \in Accounts, v \in Amounts :
          SystemMint(x, v) \/ LocalMint(x, v) \/ LocalBurn(x, v) \/ GlobalBurn(x, v)
    BY <1>3 DEF SupplyStep
  <2>2. v \in Nat
    BY LedgerAssumption
  <2>3. CASE SystemMint(x, v) \/ LocalMint(x, v)
    <3>1. dcdt' = Credit(dcdt, x, v)
      BY <2>3 DEF SystemMint, LocalMint
    <3>2. dcdt \in Records /\ dcdt[a].value \in Nat
      BY <1>0
    <3>3. dcdt'[a] = dcdt[a] \/ dcdt'[a].value = dcdt[a].value + v
      BY <2>2, <3>1, <3>2, CreditEffect
    <3> QED
      BY <1>0, <2>2, <3>2, <3>3
  <2>4. CASE LocalBurn(x, v) \/ GlobalBurn(x, v)
    <3>1. dcdt' = Debit(dcdt, x, v) /\ net' = net
      BY <2>4 DEF LocalBurn, GlobalBurn
    <3>2. \A y \in Accounts :
            dcdt'[y].value \in Int /\ dcdt'[y].value <= dcdt[y].value
      BY <1>0, <2>2, <3>1 DEF Debit
    <3> QED
      BY <1>0, <2>2, <3>1, <3>2 DEF Receives
  <2> QED
    BY <2>1, <2>3, <2>4
<1>4. CASE AccountCommand
  <2>1. ASSUME NEW x \in Accounts, NEW freeze \in BOOLEAN, ToggleFreeze(x, freeze)
        PROVE  FALSE
    BY <1>0, <2>1 DEF ToggleFreeze
  <2>2. ASSUME NEW x \in Accounts, Wipe(x) PROVE FALSE
    BY <1>0, <2>2 DEF Wipe, Receives
  <2>3. ASSUME NEW x \in Accounts, NEW R \in SUBSET Roles,
               SetRoles(x, R) \/ UnSetRoles(x, R)
        PROVE  FALSE
    BY <1>0, <2>3 DEF SetRoles, UnSetRoles
  <2> QED
    BY <1>4, <2>1, <2>2, <2>3 DEF AccountCommand
<1>5. CASE ShardCommand
  <2>1. dcdt' = dcdt
    BY <1>5 DEF ShardCommand, ToggleSetting, AddTransferAddresses,
       DeleteTransferAddresses
  <2> QED
    BY <1>0, <2>1
<1>6. CASE NextEpoch
  BY <1>0, <1>6 DEF NextEpoch
<1>7. CASE UNCHANGED vars
  BY <1>0, <1>7 DEF vars
<1> QED
  BY <1>1, <1>2, <1>3, <1>4, <1>5, <1>6, <1>7 DEF Next

(* LimitedTransferHolds: the check on the sender's shard is enough, for    *)
(* transfers that end in another shard too.                                *)
THEOREM LimitedTransferHolds == Spec => LimitedTransferHonoured
<1>1. TypeOK /\ [Next]_vars => [\A a, b \in Accounts : LimitedStep(a, b)]_vars
  BY StepRespectsLimit
<1>2. Spec => [][\A a, b \in Accounts : LimitedStep(a, b)]_vars
  BY <1>1, TypeCorrect, PTL DEF Spec
<1> QED
  BY <1>2 DEF LimitedTransferHonoured, LimitedStep
=============================================================================
