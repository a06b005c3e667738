--------------------------- MODULE FungibleLedger ---------------------------
(***************************************************************************)
(* One fungible DCDT token on a chain of several shards.                   *)
(*                                                                         *)
(* Every shard runs the built-in functions on the accounts it hosts, and   *)
(* its own copy of the token's global settings on its system account.  A   *)
(* transfer between shards is two calls of the same function: one on the   *)
(* sender's shard (no destination account), then, when the message is      *)
(* executed, one on the destination's (no sender account).  A call that    *)
(* returns an error leaves no trace, so it is no step here, except for the *)
(* destination half of a transfer: the node sends the tokens back in a     *)
(* message that carries ReturnCallAfterError.                              *)
(***************************************************************************)
EXTENDS Integers, FiniteSets, Functions, PayableCheck

CONSTANTS
  Accounts,     \* users and contracts that may hold the token
  Shards,
  ShardOf,      \* Compute of the shard coordinator: the shard of an account
  Slots,        \* the messages that may be in flight at one time (a bound)
  NoMsg,        \* an empty slot
  Amounts,      \* the amounts that calls pass
  MaxSupply,    \* no mint exceeds this supply (a bound: big.Int has none)
  MaxTransferAddresses, \* maxNumOfAddressesForTransferRole of the creator
  MaxRoleCopies,        \* copies of one role in an account's list (a bound)
  Subjects,     \* sets of commands: a behaviour has those of one (a bound)
  EpochFlags    \* EpochFlags[e]: the flags enabled in epoch e

ASSUME LedgerAssumption ==
  /\ Contracts \subseteq Accounts
  /\ SystemSC \notin Accounts
  /\ ShardOf \in [Accounts -> Shards]
  /\ Amounts \subseteq Nat \ {0}
  /\ MaxSupply \in Nat
  /\ MaxTransferAddresses \in Nat
  /\ MaxRoleCopies \in Nat

Roles == {"localMint", "localBurn", "transfer"}
Settings == {"paused", "limited", "burnForAll"}

FlagGlobalMintBurn == "GlobalMintBurnFlag"
FlagTransferRole == "DCDTTransferRoleFlag"
FlagSendAlways == "SendAlwaysFlag"
FlagCorrectTokenID == "CheckCorrectTokenIDForTransferRoleFlag"

Messages ==
  [from: Accounts, to: Accounts, value: Nat \ {0},
   call: Call, callType: CallType, retErr: BOOLEAN]

ASSUME EpochAssumption == 1 \in DOMAIN EpochFlags /\ DOMAIN EpochFlags \subseteq Nat

ASSUME NetAssumption ==
  /\ NoMsg \notin Messages /\ Slots \cap Accounts = {}
  /\ IsFiniteSet(Accounts) /\ IsFiniteSet(Slots)

VARIABLES
  dcdt,       \* dcdt[a]: the DCDigitalToken record under the token's key
  settings,   \* settings[s]: the DCDTGlobalMetadata of shard s
  addresses,  \* addresses[s]: the transfer-role addresses kept on shard s
  roles,      \* roles[a][r]: how many times r is in a's list of roles
  net,        \* net[i]: the transfer in flight in slot i, or NoMsg
  epoch,      \* the current epoch
  commands,   \* external: what the system contract changes, from Subjects
  supply      \* history: tokens minted minus tokens burnt and wiped

vars == <<dcdt, settings, addresses, roles, net, epoch, commands, supply>>
admin == <<settings, addresses, roles, epoch, commands>>

(* An account without a record reads as the empty record, and saveDCDTData *)
(* removes a record that is equal to it: one value stands for both.        *)
EmptyRecord == [value |-> 0, frozen |-> FALSE]

active == EpochFlags[epoch]

SetOn(f, s) == settings[s][f]
HasRole(a, r) == roles[a][r] > 0

-----------------------------------------------------------------------------
(* addToDCDTBalance: first the frozen and paused checks, then the amount.  *)

\* A mutant: the pause of the shard is not looked at.
MayMoveIfNotFrozen(d, a, retErr) == retErr \/ ~d[a].frozen

\* checkFrozeAndPause (the exempt account DCDTSC holds no tokens here)
MayMove(d, a, retErr) ==
  retErr \/ (~d[a].frozen /\ ~SetOn("paused", ShardOf[a]))

CanCredit(d, a, retErr) == MayMove(d, a, retErr)

\* A mutant: the amount is not compared with the balance.
CanDebitAnything(d, a, v, retErr) == MayMove(d, a, retErr)

CanDebit(d, a, v, retErr) == MayMove(d, a, retErr) /\ d[a].value >= v

\* A mutant: the credit saves a fresh record.
CreditFresh(d, a, v) ==
  [d EXCEPT ![a] = [EmptyRecord EXCEPT !.value = d[a].value + v]]

\* A mutant: the credit replaces the balance.
CreditReplaces(d, a, v) == [d EXCEPT ![a].value = v]

Credit(d, a, v) == [d EXCEPT ![a].value = @ + v]
Debit(d, a, v) == [d EXCEPT ![a].value = @ - v]

(* checkIfTransferCanHappenWithLimitedTransfer, on the shard that holds    *)
(* the sender.  Before CheckCorrectTokenIDForTransferRoleFlag the roles    *)
(* and the addresses were looked up under a key that nothing is stored at. *)

\* A mutant: a destination account that is not in the shard passes the check.
LimitedTransferToAnotherShard(from, to) ==
  LET s == ShardOf[from] IN
  \/ ~SetOn("limited", s)
  \/ /\ FlagCorrectTokenID \in active
     /\ \/ from \in addresses[s] \/ to \in addresses[s]
        \/ HasRole(from, "transfer")
        \/ ShardOf[to] = s => HasRole(to, "transfer")

LimitedTransferCanHappen(from, to) ==
  LET s == ShardOf[from] IN
  \/ ~SetOn("limited", s)
  \/ /\ FlagCorrectTokenID \in active
     /\ \/ from \in addresses[s] \/ to \in addresses[s]
        \/ HasRole(from, "transfer")
        \/ ShardOf[to] = s /\ HasRole(to, "transfer")

Transfer(from, to, v, call, callType) ==
  [from |-> from, to |-> to, value |-> v,
   call |-> call, callType |-> callType, retErr |-> FALSE]

\* Only a contract makes calls of another type than a direct call.
CallerMayUse(from, callType) == callType = "direct" \/ from \in Contracts

-----------------------------------------------------------------------------
(* DCDTTransfer with both accounts in the shard.  Sender and destination   *)
(* may be the same account: the second half works on the result of the     *)
(* first.                                                                  *)
TransferInShard(m) ==
  LET debited == Debit(dcdt, m.from, m.value) IN
  /\ ShardOf[m.from] = ShardOf[m.to]
  /\ CallerMayUse(m.from, m.callType)
  /\ LimitedTransferCanHappen(m.from, m.to)
  /\ CanDebit(dcdt, m.from, m.value, FALSE)
  /\ CheckPayable(active, m)
  /\ CanCredit(debited, m.to, FALSE)
  /\ dcdt' = Credit(debited, m.to, m.value)
  /\ UNCHANGED <<admin, net, supply>>

\* A mutant: the sender's half leaves the balance alone.
SendAcrossKeepsBalance(i, m) ==
  /\ net[i] = NoMsg
  /\ ShardOf[m.from] # ShardOf[m.to]
  /\ CallerMayUse(m.from, m.callType)
  /\ LimitedTransferCanHappen(m.from, m.to)
  /\ CanDebit(dcdt, m.from, m.value, FALSE)
  /\ net' = [net EXCEPT ![i] = m]
  /\ UNCHANGED <<dcdt, admin, supply>>

\* DCDTTransfer on the sender's shard, the destination in another one
SendAcross(i, m) ==
  /\ net[i] = NoMsg
  /\ ShardOf[m.from] # ShardOf[m.to]
  /\ CallerMayUse(m.from, m.callType)
  /\ LimitedTransferCanHappen(m.from, m.to)
  /\ CanDebit(dcdt, m.from, m.value, FALSE)
  /\ dcdt' = Debit(dcdt, m.from, m.value)
  /\ net' = [net EXCEPT ![i] = m]
  /\ UNCHANGED <<admin, supply>>

(* The destination half of DCDTTransfer on message m: the same code for a  *)
(* transfer, for a transfer that comes back and for the system contract's. *)
Accepts(m) == CheckPayable(active, m) /\ CanCredit(dcdt, m.to, m.retErr)

Deliver(i) ==
  /\ net[i] # NoMsg
  /\ Accepts(net[i])
  /\ dcdt' = Credit(dcdt, net[i].to, net[i].value)
  /\ net' = [net EXCEPT ![i] = NoMsg]
  /\ UNCHANGED <<admin, supply>>

(* The destination half fails, in the function or in the contract call     *)
(* that follows it, and the node sends the tokens back (the node's part is *)
(* external).  The answer to an asynchronous call is its callback.  What   *)
(* arguments follow the token arguments is up to the node.                 *)
SentBack(m, call) ==
  [from |-> m.to, to |-> m.from, value |-> m.value, call |-> call,
   callType |-> IF m.callType = "async" THEN "callback" ELSE "direct",
   retErr |-> TRUE]

Return(i, call) ==
  /\ net[i] # NoMsg
  /\ ~net[i].retErr
  /\ ~Accepts(net[i]) \/ DetermineIsSCCallAfter(active, net[i])
  /\ net' = [net EXCEPT ![i] = SentBack(net[i], call)]
  /\ UNCHANGED <<dcdt, admin, supply>>

\* A transfer the system contract pays out on issue or mint
SystemMint(a, v) ==
  LET m == Transfer(SystemSC, a, v, "none", "direct") IN
  /\ supply + v <= MaxSupply
  /\ Accepts(m)
  /\ dcdt' = Credit(dcdt, a, v)
  /\ supply' = supply + v
  /\ UNCHANGED <<admin, net>>

-----------------------------------------------------------------------------
(* DCDTLocalMint, DCDTLocalBurn and DCDTBurn run on the caller's shard.    *)

LocalMint(a, v) ==
  /\ supply + v <= MaxSupply
  /\ HasRole(a, "localMint")
  /\ CanCredit(dcdt, a, FALSE)
  /\ dcdt' = Credit(dcdt, a, v)
  /\ supply' = supply + v
  /\ UNCHANGED <<admin, net>>

IsAllowedToBurn(a) ==
  SetOn("burnForAll", ShardOf[a]) \/ HasRole(a, "localBurn")

LocalBurn(a, v) ==
  /\ IsAllowedToBurn(a)
  /\ CanDebit(dcdt, a, v, FALSE)
  /\ dcdt' = Debit(dcdt, a, v)
  /\ supply' = supply - v
  /\ UNCHANGED <<admin, net>>

\* The tokens go to DCDTSC, which destroys them: the recipient must be DCDTSC.
GlobalBurn(a, v) ==
  /\ FlagGlobalMintBurn \in active
  /\ CanDebit(dcdt, a, v, FALSE)
  /\ dcdt' = Debit(dcdt, a, v)
  /\ supply' = supply - v
  /\ UNCHANGED <<admin, net>>

-----------------------------------------------------------------------------
(* The commands of the system contract.  Each one is a message of its own  *)
(* to an account or to the system account of one shard, so the shards      *)
(* learn of a new setting at different times.                              *)

ToggleFreeze(a, freeze) ==
  /\ "freeze" \in commands
  /\ dcdt' = [dcdt EXCEPT ![a].frozen = freeze]
  /\ UNCHANGED <<admin, net, supply>>

(* The whole record goes, the frozen flag with it.  A record with no       *)
(* amount is wiped too: removeLiquidity does nothing for nonce 0.          *)
Wipe(a) ==
  /\ "wipe" \in commands
  /\ dcdt[a].frozen
  /\ dcdt' = [dcdt EXCEPT ![a] = EmptyRecord]
  /\ supply' = supply - dcdt[a].value
  /\ UNCHANGED <<admin, net>>

\* Which settings function is active in which epoch (creator.go)
SettingActive(f) ==
  CASE f = "paused" -> TRUE
    [] f = "limited" -> FlagTransferRole \in active
    [] f = "burnForAll" -> FlagSendAlways \in active

ToggleSetting(s, f, set) ==
  /\ f \in commands
  /\ SettingActive(f)
  /\ settings' = [settings EXCEPT ![s][f] = set]
  /\ UNCHANGED <<dcdt, addresses, roles, net, epoch, commands, supply>>

\* DCDTSetRole appends its arguments to the list, whatever is in it.
SetRoles(a, granted) ==
  /\ \A r \in granted : roles[a][r] < MaxRoleCopies
  /\ roles' = [roles EXCEPT ![a] =
                 [r \in Roles |-> @[r] + (IF r \in granted THEN 1 ELSE 0)]]
  /\ UNCHANGED <<dcdt, settings, addresses, net, epoch, commands, supply>>

\* deleteRoles removes the first copy of each role that it finds.
UnSetRoles(a, revoked) ==
  /\ roles' = [roles EXCEPT ![a] =
                 [r \in Roles |->
                    IF r \in revoked /\ @[r] > 0 THEN @[r] - 1 ELSE @[r]]]
  /\ UNCHANGED <<dcdt, settings, addresses, net, epoch, commands, supply>>

AddTransferAddresses(s, new) ==
  /\ "addresses" \in commands
  /\ FlagSendAlways \in active
  /\ Cardinality(addresses[s] \cup new) <= MaxTransferAddresses
  /\ addresses' = [addresses EXCEPT ![s] = @ \cup new]
  /\ UNCHANGED <<dcdt, settings, roles, net, epoch, commands, supply>>

DeleteTransferAddresses(s, old) ==
  /\ "addresses" \in commands
  /\ FlagSendAlways \in active
  /\ addresses' = [addresses EXCEPT ![s] = @ \ old]
  /\ UNCHANGED <<dcdt, settings, roles, net, epoch, commands, supply>>

\* The node enters the next epoch (external: EpochConfirmed).
NextEpoch ==
  /\ epoch + 1 \in DOMAIN EpochFlags
  /\ epoch' = epoch + 1
  /\ UNCHANGED <<dcdt, settings, addresses, roles, net, commands, supply>>

-----------------------------------------------------------------------------
Init ==
  /\ dcdt = [a \in Accounts |-> EmptyRecord]
  /\ settings = [s \in Shards |-> [f \in Settings |-> FALSE]]
  /\ addresses = [s \in Shards |-> {}]
  /\ roles = [a \in Accounts |-> [r \in Roles |-> 0]]
  /\ net = [i \in Slots |-> NoMsg]
  /\ epoch = 1
  /\ commands \in Subjects
  /\ supply = 0

TransferStep ==
  \E from, to \in Accounts, v \in Amounts, c \in Call, t \in CallType :
    LET m == Transfer(from, to, v, c, t) IN
    \/ TransferInShard(m)
    \/ \E i \in Slots : SendAcross(i, m)

MessageStep ==
  \E i \in Slots : Deliver(i) \/ \E c \in Call : Return(i, c)

SupplyStep ==
  \E a \in Accounts, v \in Amounts :
    SystemMint(a, v) \/ LocalMint(a, v) \/ LocalBurn(a, v) \/ GlobalBurn(a, v)

AccountCommand ==
  \E a \in Accounts :
    \/ \E freeze \in BOOLEAN : ToggleFreeze(a, freeze)
    \/ Wipe(a)
    \/ \E R \in SUBSET (Roles \cap commands) : SetRoles(a, R) \/ UnSetRoles(a, R)

ShardCommand ==
  \E s \in Shards :
    \/ \E f \in Settings, set \in BOOLEAN : ToggleSetting(s, f, set)
    \/ \E A \in SUBSET Accounts :
         AddTransferAddresses(s, A) \/ DeleteTransferAddresses(s, A)

Next ==
  \/ TransferStep
  \/ MessageStep
  \/ SupplyStep
  \/ AccountCommand
  \/ ShardCommand
  \/ NextEpoch

Spec == Init /\ [][Next]_vars

(* The network delivers what is in flight: a message that a shard has      *)
(* received is executed, with one result or the other (external).          *)
Fairness ==
  \A i \in Slots : WF_vars(Deliver(i) \/ \E c \in Call : Return(i, c))

FairSpec == Spec /\ Fairness

-----------------------------------------------------------------------------
(* Properties *)

TypeOK ==
  /\ dcdt \in [Accounts -> [value: Nat, frozen: BOOLEAN]]
  /\ settings \in [Shards -> [Settings -> BOOLEAN]]
  /\ addresses \in [Shards -> SUBSET Accounts]
  /\ roles \in [Accounts -> [Roles -> 0..MaxRoleCopies]]
  /\ net \in [Slots -> Messages \cup {NoMsg}]
  /\ epoch \in DOMAIN EpochFlags
  /\ commands \in Subjects
  /\ supply \in Int

InFlight(i) == IF net[i] = NoMsg THEN 0 ELSE net[i].value

(* Who holds how much: the accounts, and the messages in flight.           *)
Holding ==
  [h \in Accounts \cup Slots |->
     IF h \in Accounts THEN dcdt[h].value ELSE InFlight(h)]

(* Conservation: whatever the order in which the shards execute, refuse    *)
(* and send back transfers, the balances and the amounts in flight add up  *)
(* to what was minted and not destroyed (addToDCDTBalance on both shards). *)
Conservation == supply = SumFunction(Holding)

Locked(a) == dcdt[a].frozen \/ SetOn("paused", ShardOf[a])

\* The transfer in slot i was sent back to a and is credited by this step.
ReturnedTo(a, i) ==
  /\ net[i] # NoMsg
  /\ net[i].retErr
  /\ net[i].to = a
  /\ net'[i] = NoMsg

(* LockedBalance: while an account is frozen, or the token is paused on    *)
(* its shard, the balance stays as it is, except for a wipe and for a      *)
(* transfer of its own that comes back (checkFrozeAndPause).               *)
LockedBalance ==
  [][\A a \in Accounts : Locked(a) =>
       \/ dcdt'[a].value = dcdt[a].value
       \/ dcdt[a].frozen /\ dcdt'[a] = EmptyRecord
       \/ \E i \in Slots :
            /\ ReturnedTo(a, i)
            /\ dcdt'[a].value = dcdt[a].value + net[i].value]_vars

(* FreezeOutlivesReturn: an account stops being frozen only when it is     *)
(* unfrozen, which leaves the amount, or wiped, which removes it: no       *)
(* credit, not even that of a returned transfer, lifts the freeze          *)
(* (addToDCDTBalance keeps the Properties of the record it found).         *)
FreezeOutlivesReturn ==
  [][\A a \in Accounts :
       dcdt[a].frozen /\ ~dcdt'[a].frozen =>
         \/ dcdt'[a].value = dcdt[a].value
         \/ dcdt'[a] = EmptyRecord /\ supply' = supply - dcdt[a].value]_vars

\* The step gives tokens to b, or sends them on their way to b.
Receives(b) ==
  \/ dcdt'[b].value > dcdt[b].value
  \/ \E i \in Slots : net[i] = NoMsg /\ net'[i] # NoMsg /\ net'[i].to = b

KnownToTransfer(s, a) == a \in addresses[s] \/ HasRole(a, "transfer")

(* LimitedTransferHonoured: where transfers are limited, tokens leave an   *)
(* account for another one only if one of the two is on the shard's list   *)
(* of transfer addresses or holds the transfer role; across shards too,    *)
(* although the destination shard makes no check                           *)
(* (checkIfTransferCanHappenWithLimitedTransfer).                          *)
LimitedTransferHonoured ==
  [][\A a, b \in Accounts :
       LET s == ShardOf[a] IN
       /\ SetOn("limited", s)
       /\ dcdt'[a].value < dcdt[a].value
       /\ Receives(b)
       => KnownToTransfer(s, a) \/ KnownToTransfer(s, b)]_vars

(* InFlightSettles: when returned transfers are exempt from the payable    *)
(* check (FixAsyncCallbackCheckFlag), every transfer in flight ends up     *)
(* with its destination or with its sender, whatever is frozen, paused or  *)
(* not payable in the meantime.                                            *)
InFlightSettles ==
  \A i \in Slots : FlagFixAsync \in active /\ net[i] # NoMsg ~> net[i] = NoMsg

(* The ledger implements TokenBank: its holders are the accounts and the   *)
(* slots of the network.                                                   *)
Bank == INSTANCE TokenBank WITH
  Holders <- Accounts \cup Slots, Limit <- MaxSupply,
  holding <- Holding, total <- supply

ImplementsBank == Bank!Spec
=============================================================================
