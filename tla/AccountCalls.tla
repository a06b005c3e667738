---------------------------- MODULE AccountCalls ----------------------------
(***************************************************************************)
(* The functions on accounts that are not about tokens, and the gas they   *)
(* use: SaveKeyValue, SetUserName, DeleteUserName, ClaimDeveloperRewards   *)
(* and ChangeOwnerAddress, with both halves of a call between shards.      *)
(*                                                                         *)
(* The calls are made by one transaction after the other.  A call takes    *)
(* its gas from what the transaction has, and gives back what the function *)
(* leaves of it.  Gas is a word of WordSize bits: subtractions wrap.       *)
(***************************************************************************)
EXTENDS Integers, SequencesExt, FiniteSetsExt

CONSTANTS
  Accounts, Shards, ShardOf,
  Contracts,   \* the accounts that are smart contracts
  Savers, Named,  \* the users whose storage and whose name is modelled
  Owned,       \* the contract whose owner and rewards are modelled
  Owners,      \* the accounts that may own it
  Dns, DnsV2,  \* the contracts that give names, before and after the change
  Names, NoName,
  Keys, Protected,      \* the keys of storage, and those reserved
  Values, NoValue,      \* what is stored under a key
  LengthOf,             \* LengthOf[v]: the length of a value
  Schedules,   \* the gas schedules, a sequence of records
  Repriced,    \* the functions whose gas changes in this instance
  EpochFlags,  \* EpochFlags[e]: the flags that are active in epoch e
  WordSize,    \* the bits of gas
  Budget,      \* the gas of a transaction
  Provided,    \* Provided[f]: what gas a call of function f is given
  MaxPairs, MaxInFlight, MaxRewards  \* bounds

Functions == {"SaveKeyValue", "SetUserName", "DeleteUserName",
              "ClaimDeveloperRewards", "ChangeOwnerAddress"}

\* What a gas schedule gives a price
Priced == Functions \cup {"PersistPerByte", "StorePerByte"}

ASSUME AccountAssumption ==
  /\ IsFiniteSet(Accounts)
  /\ ShardOf \in [Accounts -> Shards]
  /\ Contracts \subseteq Accounts /\ Owned \in Contracts /\ Owners \subseteq Accounts
  /\ Savers \cup Named \subseteq Accounts \ Contracts
  /\ Dns \subseteq Contracts /\ DnsV2 \subseteq Contracts
  /\ Protected \subseteq Keys
  /\ LengthOf \in [Values \cup {NoValue} -> Nat] /\ LengthOf[NoValue] = 0
  /\ 2 ^ WordSize \in Nat \ {0}
  /\ Budget \in 0..(2 ^ WordSize - 1)
  /\ Provided \in [Functions -> SUBSET Nat]
  /\ Schedules \in Seq([Priced -> Nat]) /\ 1 \in DOMAIN Schedules
  /\ EpochFlags \in Seq(SUBSET STRING) /\ 1 \in DOMAIN EpochFlags

VARIABLES
  store,     \* store[a][k]: the value under key k of account a
  userName,  \* userName[a]
  owner,     \* the owner of contract Owned
  rewards,   \* the developer rewards it holds
  balance,   \* balance[a]: the rewards that a was paid
  earned,    \* history: all rewards so far
  schedule,  \* schedule[f]: the gas schedule that function f has
  gas,       \* what is left to the transaction
  net,       \* the calls and transfers in flight
  epoch

storageVars == <<store>>
nameVars == <<userName>>
ownerVars == <<owner, rewards, balance, earned>>
nodeVars == <<schedule, epoch>>
vars == <<storageVars, nameVars, ownerVars, nodeVars, gas, net>>

Word == 0..(2 ^ WordSize - 1)

\* A mutant: gas is a signed number.
AsSigned(n) == n

AsWord(n) == n % 2 ^ WordSize

Active(f) == f \in EpochFlags[epoch]
ChangeUsername == Active("ChangeUsernameFlag")
FixGasRemaining == Active("FixGasRemainingForSaveKeyValueFlag")
OwnerThroughContract == Active("IsChangeOwnerAddressCrossShardThroughSCFlag")

Price(f, item) == Schedules[schedule[f]][item]
Cost(f) == Price(f, f)

(* A call or transfer on its way.  carried: the node carries the call      *)
(* itself, no output transfer was emitted.  given and early: history, the  *)
(* gas that the sender's half was given, and whether it set a user name    *)
(* when that was still charged by the destination.                         *)
Message == [function: Functions \cup {"Transfer"}, from: Accounts, to: Accounts,
            arg: Names \cup {NoName} \cup Accounts, value: Nat, gas: Word,
            carried: BOOLEAN, given: Word, early: BOOLEAN]

Call(f, a, b, x, given, g) ==
  [function |-> f, from |-> a, to |-> b, arg |-> x, value |-> 0, gas |-> g,
   carried |-> FALSE, given |-> given,
   early |-> f = "SetUserName" /\ ~ChangeUsername]

\* The transaction gives p to a call and gets left back.
Spend(p, left) == p <= gas /\ gas' = AsWord(gas - p + left)
GiveBack(left) == gas' = AsWord(gas + left)

Send(m) == Len(net) < MaxInFlight /\ net' = Append(net, m)

SameShard(a, b) == ShardOf[a] = ShardOf[b]

-----------------------------------------------------------------------------
(* SaveKeyValue                                                            *)

Pair == [key: Keys, value: Values \cup {NoValue}]
Pairs == BoundedSeq(Pair, MaxPairs) \ {<<>>}

\* A mutant: only the last pair is paid for.
SavePairForgets(w, pair, p) ==
  LET growth == LengthOf[pair.value] - LengthOf[w.store[pair.key]]
      used == AsWord(Cost("SaveKeyValue")
              + Price("SaveKeyValue", "StorePerByte") * (IF growth > 0 THEN growth ELSE 0)) IN
  [ok |-> w.ok /\ pair.key \notin Protected /\ p >= used,
   used |-> used, store |-> [w.store EXCEPT ![pair.key] = pair.value]]

(* One pair of a call that is given gas p: an equal value is not stored,   *)
(* and then what was used is not compared with p.  A key has length 1.     *)
SavePair(w, pair, p) ==
  LET old == w.store[pair.key]
      growth == LengthOf[pair.value] - LengthOf[old]
      kept == AsWord(w.used
              + (1 + LengthOf[pair.value]) * Price("SaveKeyValue", "PersistPerByte"))
      used == AsWord(kept
              + Price("SaveKeyValue", "StorePerByte") * (IF growth > 0 THEN growth ELSE 0)) IN
  IF old = pair.value
    THEN [w EXCEPT !.ok = @ /\ pair.key \notin Protected, !.used = kept]
    ELSE [ok |-> w.ok /\ pair.key \notin Protected /\ p >= used,
          used |-> used, store |-> [w.store EXCEPT ![pair.key] = pair.value]]

\* A mutant: the check of FixGasRemainingForSaveKeyValueFlag is missing.
CanSubtractAlways(p, used) == TRUE

\* subtractGasFromVMoutput
CanSubtract(p, used) == FixGasRemaining => p >= used

\* All pairs of a call of account a
Saved(a, pairs, p) ==
  LET Save(w, pair) == SavePair(w, pair, p) IN
  FoldLeft(Save, [ok |-> TRUE, used |-> Cost("SaveKeyValue"), store |-> store[a]], pairs)

SaveKeyValue(a, pairs, p) ==
  LET saved == Saved(a, pairs, p) IN
  /\ a \in Savers
  /\ saved.ok /\ CanSubtract(p, saved.used)
  /\ store' = [store EXCEPT ![a] = saved.store]
  /\ Spend(p, AsWord(p - saved.used))
  /\ UNCHANGED <<nameVars, ownerVars, nodeVars, net>>

-----------------------------------------------------------------------------
(* SetUserName and DeleteUserName                                          *)

NamesFrom(d) == d \in (IF ChangeUsername THEN DnsV2 ELSE Dns)

MaySetName(a) == ChangeUsername \/ userName[a] = NoName

SetUserName(d, a, n, p) ==
  LET cost == Cost("SetUserName")
      call == Call("SetUserName", d, a, n, p, IF ChangeUsername THEN p - cost ELSE p) IN
  /\ NamesFrom(d) /\ p >= cost
  /\ \/ /\ SameShard(d, a) /\ MaySetName(a)
        /\ userName' = [userName EXCEPT ![a] = n]
        /\ Spend(p, p - cost) /\ UNCHANGED net
     \/ /\ ~SameShard(d, a)
        /\ Send(call)
        /\ Spend(p, 0) /\ UNCHANGED nameVars
  /\ UNCHANGED <<storageVars, ownerVars, nodeVars>>

DeleteUserName(d, a, p) ==
  LET cost == Cost("DeleteUserName")
      call == Call("DeleteUserName", d, a, NoName, p, p - cost) IN
  /\ ChangeUsername /\ d \in DnsV2 /\ p >= cost
  /\ \/ /\ SameShard(d, a)
        /\ userName' = [userName EXCEPT ![a] = NoName]
        /\ Spend(p, p - cost) /\ UNCHANGED net
     \/ /\ ~SameShard(d, a)
        /\ Send(call)
        /\ Spend(p, 0) /\ UNCHANGED nameVars
  /\ UNCHANGED <<storageVars, ownerVars, nodeVars>>

\* A mutant: the destination takes the gas too.
NameGasLeftCharged(m) == AsWord(m.gas - Cost(m.function))

(* What is left on the destination's shard: nothing is compared there, and *)
(* before the flag the cost may have risen since the call was sent.        *)
NameGasLeft(m) ==
  IF m.function = "DeleteUserName" \/ ChangeUsername THEN m.gas
  ELSE AsWord(m.gas - Cost(m.function))

ArriveName(m) ==
  /\ userName' = [userName EXCEPT ![m.to] = m.arg]
  /\ GiveBack(NameGasLeft(m))
  /\ UNCHANGED <<storageVars, ownerVars, nodeVars>>

-----------------------------------------------------------------------------
(* ClaimDeveloperRewards and ChangeOwnerAddress, of contract Owned         *)

GasRemaining(f, p) == IF p < Cost(f) THEN 0 ELSE p - Cost(f)

\* On the shard of Owned; a user's transfer in a shard is only a record.
ClaimDeveloperRewards(a, p) ==
  /\ SameShard(a, Owned)
  /\ a = owner /\ p >= Cost("ClaimDeveloperRewards")
  /\ rewards' = 0
  /\ balance' = [balance EXCEPT ![a] = @ + rewards]
  /\ Spend(p, GasRemaining("ClaimDeveloperRewards", p))
  /\ UNCHANGED <<storageVars, nameVars, owner, earned, nodeVars, net>>

\* On the shard of the sender only the gas is taken; the node carries the call.
ClaimAcross(a, p) ==
  /\ ~SameShard(a, Owned)
  /\ Send([Call("ClaimDeveloperRewards", a, Owned, NoName, p, p) EXCEPT !.carried = TRUE])
  /\ Spend(p, GasRemaining("ClaimDeveloperRewards", p))
  /\ UNCHANGED <<storageVars, nameVars, ownerVars, nodeVars>>

\* A mutant: the rewards are added to a balance and sent as well.
ArriveClaimTwice(m) ==
  /\ rewards' = 0
  /\ balance' = [balance EXCEPT ![m.from] = @ + rewards]
  /\ UNCHANGED <<storageVars, nameVars, owner, earned, nodeVars, gas>>

\* The claim is executed; the rewards go back as an output transfer.
ArriveClaim(m) ==
  /\ rewards' = 0
  /\ UNCHANGED <<storageVars, nameVars, owner, balance, earned, nodeVars, gas>>

\* What executing message m sends
Emitted(m) ==
  IF m.function # "ClaimDeveloperRewards" THEN <<>>
  ELSE <<[Call("Transfer", m.to, m.from, NoName, 0, 0) EXCEPT !.value = rewards]>>

ChangeOwnerAddress(a, new, p) ==
  LET left == GasRemaining("ChangeOwnerAddress", p)
      call == Call("ChangeOwnerAddress", a, Owned, new, p, left) IN
  /\ p >= Cost("ChangeOwnerAddress")
  /\ \/ /\ SameShard(a, Owned) /\ a = owner
        /\ owner' = new
        /\ Spend(p, left) /\ UNCHANGED net
     \/ /\ ~SameShard(a, Owned) /\ a \in Contracts
        /\ OwnerThroughContract
        /\ Send(call)
        /\ Spend(p, 0) /\ UNCHANGED owner
     \/ /\ ~SameShard(a, Owned) /\ a \in Contracts
        /\ ~OwnerThroughContract
        /\ Spend(p, left) /\ UNCHANGED <<owner, net>>
     \/ /\ ~SameShard(a, Owned) /\ a \notin Contracts
        /\ Send([call EXCEPT !.gas = p, !.carried = TRUE])
        /\ Spend(p, left) /\ UNCHANGED owner
  /\ UNCHANGED <<storageVars, nameVars, rewards, balance, earned, nodeVars>>

ArriveOwner(m) ==
  /\ owner' = m.arg
  /\ UNCHANGED <<storageVars, nameVars, rewards, balance, earned, nodeVars, gas>>

ArriveTransfer(m) ==
  /\ balance' = [balance EXCEPT ![m.to] = @ + m.value]
  /\ UNCHANGED <<storageVars, nameVars, owner, rewards, earned, nodeVars, gas>>

-----------------------------------------------------------------------------
(* Messages, the node and the chain.                                       *)

Accepts(m) ==
  CASE m.function = "SetUserName" -> NamesFrom(m.from) /\ MaySetName(m.to)
    [] m.function = "DeleteUserName" -> m.from \in DnsV2
    [] m.function = "Transfer" -> TRUE
    [] OTHER -> m.from = owner /\ m.gas >= Cost(m.function)

Deliver(i) ==
  LET m == net[i] IN
  /\ Accepts(m)
  /\ \/ m.function \in {"SetUserName", "DeleteUserName"} /\ ArriveName(m)
     \/ m.function = "ClaimDeveloperRewards" /\ ArriveClaim(m)
     \/ m.function = "ChangeOwnerAddress" /\ ArriveOwner(m)
     \/ m.function = "Transfer" /\ ArriveTransfer(m)
  /\ net' = RemoveAt(net, i) \o Emitted(m)

\* A call that fails uses up its gas (external).
Fail(i) ==
  /\ ~Accepts(net[i])
  /\ net' = RemoveAt(net, i)
  /\ UNCHANGED <<storageVars, nameVars, ownerVars, nodeVars, gas>>

\* The next transaction (external)
NextTransaction ==
  /\ net = <<>> /\ gas # Budget
  /\ gas' = Budget
  /\ UNCHANGED <<storageVars, nameVars, ownerVars, nodeVars, net>>

\* The contract is used by others (external).
EarnRewards ==
  /\ earned < MaxRewards
  /\ rewards' = rewards + 1 /\ earned' = earned + 1
  /\ UNCHANGED <<storageVars, nameVars, owner, balance, nodeVars, gas, net>>

\* GasScheduleChange reaches the functions one by one, between their calls.
SetNewGasConfig(f, i) ==
  /\ f \in Repriced /\ schedule[f] # i
  /\ schedule' = [schedule EXCEPT ![f] = i]
  /\ UNCHANGED <<storageVars, nameVars, ownerVars, epoch, gas, net>>

NextEpoch ==
  /\ epoch < Len(EpochFlags)
  /\ epoch' = epoch + 1
  /\ UNCHANGED <<storageVars, nameVars, ownerVars, schedule, gas, net>>

Init ==
  /\ store = [a \in Savers |-> [k \in Keys |-> NoValue]]
  /\ userName = [a \in Named |-> NoName]
  /\ owner \in Owners
  /\ rewards = 0 /\ earned = 0
  /\ balance = [a \in Accounts |-> 0]
  /\ schedule = [f \in Functions |-> 1]
  /\ gas = Budget /\ net = <<>> /\ epoch = 1

CallStep ==
  \E a \in Accounts :
    \/ \E p \in Provided["SaveKeyValue"], pairs \in Pairs : SaveKeyValue(a, pairs, p)
    \/ \E b \in Named :
         \/ \E p \in Provided["SetUserName"], n \in Names : SetUserName(a, b, n, p)
         \/ \E p \in Provided["DeleteUserName"] : DeleteUserName(a, b, p)
    \/ \E p \in Provided["ClaimDeveloperRewards"] :
         ClaimDeveloperRewards(a, p) \/ ClaimAcross(a, p)
    \/ \E p \in Provided["ChangeOwnerAddress"], new \in Owners :
         ChangeOwnerAddress(a, new, p)

NodeStep ==
  \/ \E i \in DOMAIN net : Deliver(i) \/ Fail(i)
  \/ \E f \in Functions, i \in DOMAIN Schedules : SetNewGasConfig(f, i)
  \/ NextTransaction \/ EarnRewards \/ NextEpoch

Next == CallStep \/ NodeStep

Spec == Init /\ [][Next]_vars

-----------------------------------------------------------------------------
(* Properties *)

TypeOK ==
  /\ store \in [Savers -> [Keys -> Values \cup {NoValue}]]
  /\ userName \in [Named -> Names \cup {NoName}]
  /\ owner \in Owners
  /\ rewards \in Nat /\ earned \in Nat
  /\ balance \in [Accounts -> Nat]
  /\ schedule \in [Functions -> DOMAIN Schedules]
  /\ gas \in Word
  /\ net \in Seq(Message)
  /\ epoch \in DOMAIN EpochFlags

(* GasNeverGrows: with both corrections active no call leaves more gas,    *)
(* here and in what it sends, than it was given: subtractions of gas do    *)
(* not wrap, on either shard, whenever the schedule changes.               *)
TotalGas ==
  gas + SumFunction([i \in DOMAIN net |-> IF net[i].carried THEN 0 ELSE net[i].gas])

GasNeverGrows ==
  [][FixGasRemaining /\ ChangeUsername /\ TotalGas' > TotalGas
       => net = <<>> /\ gas' = Budget]_vars

(* StoragePaid: once the gas remaining is fixed, SaveKeyValue takes the    *)
(* price of every byte by which the storage of an account grows in all,    *)
(* with keys repeated in a call, stored or not.                            *)
SizeOf(kv) == MapThenSumSet(LAMBDA k : LengthOf[kv[k]], Keys)

StoragePaid ==
  [][\A a \in Savers :
       LET growth == SizeOf(store'[a]) - SizeOf(store[a]) IN
       FixGasRemaining /\ growth > 0
         => gas - gas' >= growth * Price("SaveKeyValue", "StorePerByte")]_vars

(* NameCostsOnce: from the sender's half to the destination's, setting or  *)
(* deleting a user name takes exactly the price of one call, also when the *)
(* schedule changes between the halves: the price of the destination's     *)
(* half if the name was sent before ChangeUsernameFlag, that of some       *)
(* schedule if after.  One call is free, and takes exactly nothing: a name *)
(* sent before the flag that arrives after it, which neither half charges. *)
NameCostsOnce ==
  [][\A i \in DOMAIN net :
       LET m == net[i]
           charge == AsWord(m.given - (gas' - gas)) IN
       /\ m.function \in {"SetUserName", "DeleteUserName"}
       /\ net' = RemoveAt(net, i) /\ userName' # userName
       => IF m.early
            THEN charge = IF ChangeUsername THEN 0 ELSE AsWord(Cost("SetUserName"))
            ELSE \E s \in DOMAIN Schedules :
                   charge = AsWord(Schedules[s][m.function])]_vars

(* RewardsConserved: rewards are with the contract, on their way or paid,  *)
(* each in one place, whoever owns the contract when a claim arrives.      *)
RewardsConserved ==
  LET onTheWay == SumFunction([i \in DOMAIN net |-> net[i].value]) IN
  rewards + onTheWay + SumFunction(balance) = earned
=============================================================================
