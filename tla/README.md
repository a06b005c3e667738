# A TLA+ model of the built-in functions

The library in `src/` is the part of a sharded chain's virtual machine that runs the
*built-in functions*: token transfers, minting and burning, NFTs, roles, settings, account
storage, guardians. It has no process of its own. A node calls a function with the accounts
that live on its shard; the function changes them and may emit *output transfers*, which the
node carries to another shard and executes there as a call of the same function. What is hard
is therefore hardly ever inside one call: it is in the two halves of a transfer on two shards,
in what happens to the accounts, settings and epochs in between, and in what is done when the
second half fails.

The modules below model the calls as actions, the chain as the set of messages in flight, and
the node, the system contract and the users as the environment that the code is written for.

## 1. Inventory

Paths are below `src/builtInFunctions/` unless they start with `src/`.

| Component | State it keeps | Operations | What makes it correct |
|---|---|---|---|
| Fungible transfers (`dcdtTransfer.go`, `payable.go`) | a balance and a frozen flag on each account | `DCDTTransfer` on the sender's shard, on the destination's, or on both at once | no token is lost or made, whatever happens between the halves; a locked balance stays; a refused transfer comes back; limited transfers stay limited |
| Fungible supply (`dcdtLocalMint.go`, `dcdtLocalBurn.go`, `dcdtBurn.go`) | the balance of the caller | mint, burn, burn towards the system contract | only the holder of a role changes the supply |
| Freeze and wipe (`dcdtFreezeWipe.go`) | the frozen flag, a record; the liquidity of an NFT | freeze, unfreeze, wipe | only an unfreeze or a wipe ends a freeze; a wipe leaves the counts right |
| Global settings (`dcdtGlobalSettings.go`, `dcdtMetaData.go`) | two bytes per token on the system account of **each shard** | pause, limited transfer, burn for all | the shards learn of a change at different times |
| Roles (`dcdtRoles.go`) | a list of roles per account and token | grant, revoke, check | roles may be listed twice; revocation removes one copy; creators on different shards number apart |
| Transfer-role addresses (`dcdtTransferRole.go`) | a list of addresses on each system account | add, delete | the limit on the list; used by limited transfers |
| NFT create role transfer (`dcdtNFTCreateRoleTransfer.go`) | the latest nonce and the create role | the change at the current owner, the change at the next owner | no nonce is created twice; one creator; the role arrives; what an account handed to itself loses is not made worse |
| NFT storage (`dcdtDataStorage.go`) | records on accounts; one entry per shard with the metadata, the liquidity, the marks of the shards that have it | read, save, count liquidity, mark, save after an error | who holds a piece reads its latest metadata; the entry lives exactly as long as it is needed |
| NFT operations (`dcdtNFTTransfer.go`, `dcdtNFTCreate.go`, `dcdtNFTAddQuantity.go`, `dcdtNFTBurn.go`, `updateNFTAttributes.go`, `dcdtNFTAddUri.go`) | through the NFT storage | create, transfer, add, burn, update, add a URI | pieces are conserved |
| Multi transfer (`multiDCDTNFTTransfer.go`) | through both of the above | several tokens in one call | all or none |
| Metadata maintenance (`dcdtDeleteMetadata.go`) | the entries | delete intervals of nonces, add metadata | the loops over words end; exactly the listed nonces are deleted; holders keep their metadata |
| Account storage (`keyValueStorage.go`) | the data trie of an account | `SaveKeyValue` | gas arithmetic, protected keys |
| User names (`saveUserName.go`, `deleteUserName.go`) | a name per account | save, delete, across shards | the gas of one call is taken once, in one of the two halves, except over the activation of a flag |
| Contract owner and rewards (`claimDeveloperRewards.go`, `changeOwnerAddress.go`) | owner, developer rewards | claim, change owner, across shards | rewards are paid once, to the owner |
| Guardians (`baseAccountGuarder.go`, `setGuardian.go`, `guardAccount.go`, `unGuardAccount.go`) | the guarded flag; guardians with epochs (in the node) | set, guard, unguard | a guarded account changes its guardian only co-signed, or after the full delay |
| Data trie migration (`migrateDataTrie.go`, `src/dataTrieMigrator/`) | the version of trie leaves, gas | migrate leaves while the gas pays for them | each leaf is moved and paid for once, none is lost |
| Container, flags, gas schedule (`creator.go`, `container.go`, `baseActiveHandler.go`, `flags.go`, `src/container/`) | the table of functions, gas costs under locks | look up, gas change, activation by epoch | no call is charged from two schedules; a schedule reaches every function |
| Parsers and builders (`src/parsers/`, `src/txDataBuilder/`) | none | text to arguments; who receives which tokens, and what is called then | what is parsed is what is executed, on both shards |
| Data types (`src/address.go`, `src/codeMetadata.go`, `src/output.go`, `logsAndEvents.go`, `errors.go`), interfaces, mocks | none | | |

How they interact. Every token function asks the *global settings* (paused, limited, burn for
all) and the *roles* before it changes a balance; settings are on the system account of the
shard that executes the call. Transfers ask the *payable check* for the destination. NFT
functions change accounts only through the *NFT storage*, which shares one entry per shard
between all holders of that shard. The *epoch flags* decide in every component which of the
historical behaviours runs. The *system contract* (on the metachain, not in this repository)
sends freeze, pause, role and hand-over commands as messages of their own. The *node* executes
messages, sends the tokens of a failed call back with `ReturnCallAfterError` set, and calls
`SaveNFTMetaDataToSystemAccount` for the metadata of a failed transfer.

What is hard to test, and listed line by line as hazards in `PROJECT.json`: settings that
differ between two shards; a freeze, pause or wipe between two halves; a return that is itself
refused; hand-over messages executed when the numbering has moved on; an entry deleted while
somebody needs it; metadata that is left out because the other shard "has it"; a flag activated
while tokens are in flight or on accounts in the old format; 64-bit arithmetic on gas, nonces
and counts; a gas schedule that changes under running calls; guardians that become active later;
arguments that the function and the parsers read independently.

## 2. Modules

### `PayableCheck`
Operators for `payable.go`: `MustVerifyPayable`, `CheckPayable`, `DetermineIsSCCallAfter`, with
the two flags that change them. A call argument is one of "none", "empty" and "fn", which is all
that the code tells apart. The flags of an epoch are a parameter.

### `FungibleLedger` (extends `PayableCheck`)
One fungible token on several shards.

| Variable | Code |
|---|---|
| `dcdt[a]` | the `DCDigitalToken` record under the token's key, `Value` and the frozen bit of `Properties` |
| `settings[s]` | the `DCDTGlobalMetadata` on the system account of shard `s` |
| `addresses[s]` | the `DCDTRoles` record of transfer-role addresses on that account |
| `roles[a][r]` | how often role `r` is in the `DCDTRoles` record of account `a` |
| `net[i]` | the `OutputTransfer` that was emitted and is not yet executed |
| `epoch` | what `IsFlagEnabled` depends on |
| `commands` | which commands the system contract sends in this behaviour (a bound, external) |
| `supply` | history: minted minus burnt and wiped |

Actions are the calls: `TransferInShard`, `SendAcross` and `Deliver` are the three ways
`dcdtTransfer.ProcessBuiltinFunction` runs (both accounts, only the sender, only the
destination); `Return` is the node's answer to a failed `Deliver`; `SystemMint` is a transfer of
the system contract; `LocalMint`, `LocalBurn`, `GlobalBurn`, `ToggleFreeze`, `Wipe`,
`ToggleSetting`, `SetRoles`, `UnSetRoles`, `AddTransferAddresses`, `DeleteTransferAddresses` are
the functions of those names; `NextEpoch` is `EpochConfirmed`. A call that returns an error is
undone by the node and is no step.

### `TokenBank`
The abstract specification: tokens sit with holders; a step mints, burns, or moves an amount from
one holder to another. `FungibleLedger!ImplementsBank` is its refinement: the holders are the
accounts and the slots of the network, so that a transfer across shards is two moves, and a
return is no move at all.

### `NftCreateRole`
The numbering of one collection and the hand-over of the create role. `latest[a]` is the number
under the nonce key, `hasRole[a]` the role in the list, `changes` the calls of the system
contract in flight, `handovers` the messages between owners, `owner` the register of the system
contract (external). The output transfer of the hand-over carries a `SenderAddress`;
`SenderFromOutput` says whether the node executes the message with that address as the caller
(what `src/output.go` documents) or with the account that emitted it (what the unit test assumes).

A next owner on the same shard is loaded by the function as a second account, written and saved;
the current owner, which the function was given, is saved by the node afterwards. For two
different accounts that is one step. If they are one, the second save overwrites the first: the
role is gone, the nonce is 0, and the next account that is handed the role numbers from one again.
`Reached` says when the second copy survives, and `losses` (history) counts how often it did not.
Nothing in the library refuses such a hand-over; whether the system contract asks for one is
external. `NonceUnique` and `RoleInv` are stated with it: a nonce is created once, and once more
at most for every loss.

### `ShardCreators`
The other way to number a collection: a creator on every shard. `minted[a]` is the number under
the nonce key, `mayMint[a]` the create role, `minting[n]` (history) how often nonce `n` was
created, `grants[a]` (history) how often `a` was given the role. `GrantMultiShard`, `RevokeMultiShard` and `ChangeOtherRole` are `dcdtRoles` with lists
that have `DCDTRoleNFTCreateMultiShard` or not, which is what decides whether `computeStartNonce`
is stored; `Mint` is `DCDTNFTCreate`. Words, bytes and their quotient are constants. External: the
system contract does not grant the role to two addresses with the same last byte. It may take the
role away and grant it again, and the numbering then starts anew, on nonces that exist;
`NoncesApart` bounds how often a nonce is created by the grants of the account it belongs to.

### `NftLedger`
One nonce of a collection. `user[a]` is the record of an account (`value`, the frozen bit, and
metadata in the format from before `SaveToSystemAccountFlag`); `sys[s]` is the entry on the
system account of a shard: the metadata as a version number, whether `Reserved` says that
`Value` counts liquidity, and the shards marked in `Properties`. The operators `MetaOf`,
`WithMeta`, `WithLiquidity`, `CanAddLiquidity`, `Refreshed`, `WasAlreadySent`, `Marked` are the
methods of `dcdtDataStorage`; the actions compose them in the order the functions call them,
with the flags `SaveToSystemAccountFlag`, `SendAlwaysFlag`, `FixOldTokenLiquidityFlag`,
`AlwaysSaveTokenMetaDataFlag`, `WipeSingleNFTLiquidityDecreaseFlag`, `CheckTransferFlag` and
`CheckFrozenCollectionFlag`. Roles, limited transfers and the payable check of NFTs are the code
that `FungibleLedger` and `PayableCheck` model; here `Creators` are the accounts with roles and
`Contracts` the accounts that may refuse. `DeleteMetadata` and `AddMetadata` are the functions of
`dcdtDeleteMetadata.go` on one nonce. The code deletes an entry whatever its liquidity and its
marks are; the model takes the system contract to do so only when no account of the shard holds a
piece and no transfer is on its way without metadata.

### `MultiTransfer` (extends `NftLedger`)
A call that lists several tokens: the nonce of `NftLedger`, and a fungible token, the coin
(`coin[a]`, `coinPaused[s]`). `batches` are the messages in flight. A call is a fold over its list:
`Work` is what it has done so far, and each operator on it is one function of
`multiDCDTNFTTransfer.go`: `TakeCoin`, `TakeNft` and `Counted` are
`transferOneTokenOnSenderShard`, `GiveCoin` and `GiveNft` are `addNFTToDestination`, `CreditCoin`
is `addToDCDTBalance`, `Addressed` is the second pass over the list, in
`createDCDTNFTOutputTransfers`. `MultiInShard`, `MultiAcross` and `MultiDeliver` are the three
ways the function runs; `MultiRefuse` is the node's answer to a failed `MultiDeliver`, with
`addMetaDataToSystemAccountFromMultiTransfer`. A fold whose `ok` is false is no step.

### `TokenEscrow`
The abstract specification of a transfer of several tokens: the amounts leave the payer together,
are in escrow, and are settled together, to the payee or, once it has refused, to the payer.
`MultiTransfer!ImplementsEscrow` maps a message to a payment with one amount per token. An amount
that is lost on the way, or a call of which only a part is made, is no step of the escrow.

### `AccountCalls`
The functions on accounts that are not about tokens. `store[a]` is the data trie of an account,
`userName[a]` its name, `owner` and `rewards` belong to one contract, `balance[a]` is what claims
have paid; `schedule[f]` is the gas schedule that function `f` was given, since
`GasScheduleChange` reaches the functions one by one. `gas` is what the running transaction has:
a call takes the gas it is given from it and gives back what the function leaves
(`VMOutput.GasRemaining`); gas on its way is in the messages. Gas is a word, and subtractions
wrap as in the code. A call to another shard for which the code emits no output transfer is
carried by the node itself (`carried`); its gas is not counted, because `computeGasRemaining`
leaves nothing of it at the destination. A message remembers, as history, what gas the sender's
half was `given` and whether it set a user name before `ChangeUsernameFlag` (`early`).

`NameCostsOnce` is exact: over both halves a user name takes the price of one call, no more and no
less, with one exception that it names. A name that is sent before `ChangeUsernameFlag` takes all
its gas along, to be charged at the destination; if it arrives when the flag is active the
destination charges nothing either, and the call is free.

### `GasSchedule`
`GasScheduleChange` of the creator against calls, in the steps between which the Go scheduler may
switch. `funcGasCost[f]` and `gasConfig[f]` say which schedule the two costs of a function are
from; `readers`, `writer` and `queued` are its `mutExecution`, a `sync.RWMutex` in which a waiting
writer keeps new readers out; `call[t]` is where a thread is in a call and which schedules it was
charged from; `change` is where the loop over the keys is. Functions differ in how they use
the lock (`LockOf`): most hold it for reading to their end, guardian functions for writing,
`MigrateDataTrie` only while it copies its costs. `RemoveFunction` is `Remove` of the container;
the loop stops at a key that is gone (`StopAtRemoved`), and the functions after it keep the old
schedule until the next change (`abandoned`).

### `TrieMigration`
`MigrateDataTrie` with the `dataTrieMigrator` that it gives to the account. The operators
`CanLoad`, `AfterLoad`, `LoadAgain`, `CanStore`, `Queues`, `AfterStore`, `StoreAgain` are
`ConsumeStorageLoadGas` and `AddLeafToMigrationQueue`; the account (external) loads the nodes in
any order and stops when it is told so. `SetNewPrices` may happen within a call. `MigrationExact`
says what the code does: a call that leaves some leaves has gas for no more than one load or one
store left (`<=`). `MigratesWhilePaid` says what the comments promise, that it has not enough for
one (`<`), and is violated (finding 4).

### `Guardians`
`SetGuardian`, `GuardAccount`, `UnGuardAccount`. `isGuarded[a]` is the bit of the code metadata.
The handler of the node, which keeps the guardians and their epochs, and the node's check of the
signatures are external and modelled from how the functions use them and from the names of the
interface; an epoch is a step of its own. A guardian remembers, as history, in which epoch it was
set (`setIn`), with whose signature besides the owner's (`signedBy`), and whether the account was
guarded then (`underGuard`), so that `GuardianKept` can ask for the signature or the full delay
themselves and not for the activation epoch that the handler computed.

### `MetadataIntervals`
`DCDTDeleteMetadata` on a whole sequence of arguments, one loop iteration per step: `ReadToken`,
`ReadInterval` and `DeleteNonce` are the loops of `deleteMetadata`,
`deleteMetadataForListIntervals` and `deleteMetadataForInterval`, with indices and nonces that
wrap at `MaxWord`. An argument has a number and may be a valid token; what a failing call has
deleted in memory is not saved.

### `TransferParsing`
A transaction or message is a function, two addresses and a sequence of byte strings; a byte
string is the number it reads as, its length, and whether it unmarshals to a token.
`ExecuteOnSender` and `ExecuteOnDestination` are the halves of the three transfer functions as far
as arguments go, `Message` is what the first writes for the second, `Parsed` is
`ParseDCDTTransfers`, and `Parse` and `ParseRelayed` are the data field parser. No address reads
as a number below 2^64; a token that is sent has metadata, so that its marshalled form is longer
than 32 bytes; the number of tokens is so small that three times it does not wrap.

### `MCFungible`, `MCNftCreateRole`, `MCNft`, `MCMulti`, `MCAccount`, `MCMigration`, `MCUpkeep`
The instances for TLC: which account is on which shard, the prices, and the flags of the epochs.
`MCUpkeep` decides at the start which one of
`GasSchedule`, `TrieMigration`, `Guardians`, `MetadataIntervals`, `TransferParsing`,
`NftCreateRole` and `ShardCreators` takes steps: seven parts that share nothing, next to each other
instead of multiplied with each other.

### `FungibleProofs`, `NftProofs`, `MultiProofs`, `AccountProofs`, `NftCreatorsProofs`, `UpkeepProofs`, `ParsingProofs`
The theorems (section 5). Each module extends the ones it is about: `MultiProofs` extends
`MultiTransfer` and `NftProofs`, `NftCreatorsProofs` extends `NftCreateRole` and `ShardCreators`,
and `UpkeepProofs` extends `MCUpkeep`, for its type invariant, and `NftCreatorsProofs`.

### `SumTheorems`
The lemmas the proofs share: induction over the subsets of a finite set, sums of functions over
finite sets, sums over sequences to which an element is appended or of which one is removed, and
the recursive function behind `FoldLeft`.

## 3. Runs

| Run | Checks | Shows |
|---|---|---|
| `FungibleTransfers` | `TypeOK`, `Conservation`, `LockedBalance`, `FreezeOutlivesReturn`, `ImplementsBank` | two transfers of up to two tokens in flight between two shards, while accounts are frozen, unfrozen and wiped, the shards are paused one after the other, and the payable check changes with the epoch |
| `FungibleRights` | `LimitedTransferHonoured`, `InFlightSettles` | the setting, the roles (with repeated entries), the lists of addresses and freezes change while a transfer is in flight, with local mints and burns at the same time: the limit is kept, and every transfer is credited or comes back |
| `NftModern` | `TypeOK`, `Conservation`, `Liquidity`, `MetadataAvailable`, `NonceFreezeKept` | all flags on, semi-fungible token, frozen, wiped and paused, messages in any order |
| `NftUnique` | `LatestMetadata` | all flags on, one piece, three shards, updated on its way, messages in any order |
| `NftOnce` | `Liquidity`, `MetadataAvailable`, `LeftOutOnlyIfSent` | metadata is sent once, transfers are refused, then `SendAlwaysFlag` is activated, and metadata is deleted and added |
| `MultiTransfer` | `MultiTypeOK`, `Liquidity`, `MetadataAvailable`, `MultiLeftOutOnlyIfSent`, `CoinFreezeKept`, `ImplementsEscrow` | lists of up to two tokens, also the same one twice; two of them in flight; refused and returned while accounts are frozen and a shard is paused; metadata is sent once, then always |
| `AccountCalls` | `TypeOK`, `RewardsConserved`, `GasNeverGrows`, `StoragePaid`, `NameCostsOnce` | lists of up to two pairs; names, claims and changes of the owner within a shard and between two, two in flight, while a cost and the epoch change |
| `Upkeep` | `UpkeepTypeOK`, `NoTornCall`, `MigrationExact`, `ParserAgrees`, `NonceUnique`, `OneCreator`, `RoleInv`, `NoncesApart`, `ScheduleReachesAll`, `GuardianKept`, `DeletesListed`, `RoleArrives` | two threads call three kinds of functions while two schedules arrive; a trie of three leaves is migrated call after call; guardians are named, replaced and dropped over six epochs; lists of intervals with wrong, zero and wrapping numbers; transfers of one and two tokens in every form, parsed and executed on both shards; repeated hand-overs of a create role within a shard, between shards and from an account to itself; two creators on two shards whose roles come, go and come back |
| `NftCreateRoleSender` | `RoleArrives` is violated | finding 1 |
| `NftLegacy` | `MetadataAvailable` is violated | finding 2 |
| `NftFirstMarks` | `LeftOutOnlyIfSent` is violated | finding 3 |
| `MigrationStops` | `MigratesWhilePaid` is violated | finding 4 |

The NFT runs and `MultiTransfer` do not check deadlock: a token of which all pieces were burnt,
with its bound of versions used up, may really stop. All other runs do.

**Bounds.** `Amounts`, `MaxSupply`: one or two pieces from a supply of at most two or three, so
that a balance can be split, emptied and not suffice. `Slots` / `MaxInFlight`: one or two
messages; two are needed for overtaking and for a transfer that meets the return of another.
`MaxNonce = 3`: enough to create a nonce before, between and after two hand-overs; `MaxInFlight = 2`
for the creator lets the redundant messages of two hand-overs be late at once; `MaxLosses = 1`
lets an account be handed its own role once, and the numbering start anew once. `NftCreateRoleSender`
creates no nonces, since there the role is lost at the first crossing.
`MaxVersion`: at least one update on every shard a piece visits. `MaxRoleCopies = 2` where
revocation of a repeated role matters. `MaxTransferAddresses`: the code's own limit, taken
small. Two shards, or three where a token must come back by another way; on each shard at most
two accounts, because the code knows an account's own shard, the other account's, and no more.
`Commands` lists what the system contract does in an instance, and `Subjects` the sets of commands
of which a behaviour of `FungibleLedger` has one (`commands`), to keep each question small;
`Targets` does so for the coin. In `MultiTransfer` an amount is always 2: an NFT with the amount 1
always carries its metadata, and the question is when it is left out; lists of two tokens are
enough because the code keeps no memory of a token but in what the next one reads.
In `AccountCalls` gas has `WordSize = 3` bits and a transaction has all of it, so that a call can
be short of gas by one, have just enough, or wrap; two prices for `SetUserName`; a value and a key
have length 1. `Savers`, `Named` and `Owners` say whose storage, name and contract the instance
is about.
In `FungibleRights` a behaviour is about limits or about supply and freezes, so that the rights of
both are not multiplied; one address is enough for the limit on the list of addresses.
`TopNonce = 7` with two last bytes gives every creator three nonces in ranges that meet;
`MaxGrants = 2` lets each be given the role again once. A creator does not use up its range, as the
comment in `computeStartNonce` argues (a bound in the guard of `Mint`).
In `Upkeep`: `MaxSchedule = 2`, since a call spans at most the end of one change and the begin of
another; `MaxUint64 = 7` with costs whose sum wraps, loads dearer and cheaper than stores, and gas
that does for nothing, one step, or all; `ActivationDelay = 2` and `MaxEpoch = 5`, so that a
guardian can become active under one that was named later; words of five bits in the intervals,
with an interval that ends at the last word and counts that do not fit their list or wrap the
index: these are executed, and `DeletesListed` leaves them out (`InRange`, `WellFormed`), since an
interval that ends at the last word is never left by the loop, and nothing says what a call with
wrong counts should delete; in the parsing, numbers of at least 16 play those
above 64 bits, numbers of at least 100 those longer than 32 bytes.

**Message order.** `InOrder` says that messages between the same two shards are executed in the
order they were sent. With `SendAlwaysFlag` nothing depends on it and the runs leave it out.
Before, it is necessary: a transfer without metadata must not overtake the one that brings it.

**Fairness.** The library has no scheduling. The only fairness assumed is the node's, and weak:
a message in flight is executed at some time (`Deliver` or `Return`, `ChangeAtCurrentOwner`,
`ChangeAtNextOwner`). `GasSchedule` assumes what Go gives its goroutines: a thread that can take a
step takes it (weak), and a writer that waits for a lock that is free again and again gets it
(strong, for `LockForChange` only: a `Mutex` hands itself to a waiter that has starved); no call
has to come, and no function has to be removed. A deletion of metadata that runs goes on (weak).
No user, no command and no epoch is ever forced to happen. Which of the
two outcomes a message has is decided by the code's guards.

## 4. Findings

1. **The hand-over names the system contract as its sender** (`NftCreateRoleSender`).
   `dcdtNFTCreateRoleTransfer.go:160` sets `SenderAddress: vmInput.CallerAddr`, which in that
   branch is the system contract. `src/output.go:98` says that "SenderAddress is the actual
   sender for the given output transfer". Executed with this caller, the message takes the
   branch of the current owner at the next owner, and is refused since the nonce is no address;
   the role and the numbering are lost. The unit test of the second half calls it with the
   current owner as the caller. Whether nodes use the field for this message is outside the
   repository; everything else about the role is checked and proved with the caller of the test.
2. **Liquidity next to old records** (`NftLegacy`). `setReservedToNilForOldToken` looks for an
   old record only on the account that is being saved. If the first transfer with
   the flags on arrives at another account of the shard, the entry counts only that account's
   pieces, is deleted when they leave, and the older holder is left without metadata when its
   own record has been moved to the system account.
3. **Marks for a shard that has nothing** (`NftFirstMarks`). An arriving transfer marks the
   sender's shard as having the metadata. For a transfer that was sent before
   `SaveToSystemAccountFlag` it has not, and the next transfer back leaves the metadata out.

4. **A migration stops one step early** (`MigrationStops`). The comments of
   `src/dataTrieMigrator/dataTrieMigrator.go` say that `ConsumeStorageLoadGas` and
   `AddLeafToMigrationQueue` return true "if there is enough gas remaining for another" load or
   migration, and `migrateDataTrie.go:46` that a call migrates as many leaves as possible. Both
   compare with `>` (lines 45 and 59), while the step itself would be taken with exactly its price
   left. No leaf is lost; the next call moves what this one left.

Findings 2 and 3 need tokens that were moved before the flags; with the flags on from the start
the same properties hold (`NftModern`, `NftOnce`).

What is not a finding, since nothing in the repository says otherwise: a hand-over of the create
role from an account to itself loses the role and the numbering; a user name that is in flight
when `ChangeUsernameFlag` is activated is free; an NFT that comes back lifts a freeze that was set
meanwhile (`NonceFreezeKept` leaves returns out), where a fungible token keeps it; metadata is
deleted whoever still needs it, so that what is checked about metadata holds for the order of
commands that the guard of `DeleteMetadata` assumes, and would not show another one; a loop over an
interval that ends at the largest word does not end. And before `FixGasRemainingForSaveKeyValueFlag` a `SaveKeyValue` that ends with
an equal value may leave more gas than it was given, and before `ChangeUsernameFlag` so may a user
name whose cost rises while it is in flight. The code keeps the first for compatibility and says
so (`keyValueStorage.go:115`); `GasNeverGrows` is therefore about the epochs with both flags.

## 5. Proofs

The proofs are for any accounts, shards, amounts, bounds and epoch flags that satisfy the named
assumptions of the modules: `LedgerAssumption`, `EpochAssumption`, `NetAssumption`,
`PayableAssumption`, `NftAssumption`, `AccountAssumption`, `RoleAssumption`,
`ShardCreatorsAssumption`, `GasScheduleAssumption`, `MigrationAssumption`, `GuardiansAssumption`,
`IntervalsAssumption`, `ParsingAssumption`. They say that constants have their types and that the
sets of accounts are finite; TLC evaluates them in the runs. What a theorem assumes beyond them is
in its statement, and is named below.

**Sums.** `SumFunction` and `FoldLeft` of the community modules are recursive functions over the
subsets of a set. `SubsetInduction` is the induction they need (from the theorem that the
proper-subset relation on a finite set is well founded); from it `SumRest`, `SumUpdate`,
`SumRenamed`, `SumAppend` and `SumRemoveAt` say how a sum changes when one summand does, and
`FoldExists` that a fold over a sequence is well defined and stays in a set.

**One fungible token** (`FungibleProofs`).
- `TypeCorrect`: `TypeOK` is inductive as it stands; the point is that no debit goes below zero.
- `ConservationHolds`: the sum over the accounts and the slots changes by what a step mints, burns
  or wipes; a transfer within a shard changes two summands, or none if both are one account.
- `LockedBalanceHolds`, `FreezeOutlivesReturnHolds`: action properties, from `TypeOK` and one
  lemma (`StepRespectsLock`) on what each action does to one account.
- `LimitedTransferHolds`: every action that takes tokens from one account and gives them to
  another, or puts them in flight, has passed the check on the sender's shard.
- `LedgerImplementsBank`: the refinement. Each action maps to a mint, a burn, a move or a
  stutter of `TokenBank`.

**One nonce of a collection** (`NftProofs`).
- `TypeOKHolds`, `ConservationHolds`: `TypeOK` is not inductive, since nothing in it keeps a burn
  or a wipe from making `supply` negative. `TypeInv` leaves the supply an integer, and
  `QuantityInv` says that it is the sum of what is held and what is in flight, is at most
  `MaxSupply`, is zero before the nonce is created, and that an account with a balance of zero has
  no metadata. The two together are inductive and give both theorems.
- `MetadataInvHolds`, and from it `LiquidityHolds`, `MetadataAvailableHolds` and
  `LeftOutOnlyIfSentHolds`. `EntryInv` says of every entry that it is there while its shard holds
  a piece, and that it counts, if it counts at all, exactly those; `OnceInv`, as long as metadata
  is sent once, that no entry counts (`OnceEntries`), that who sent a message still has the metadata,
  and (`Marks`) that every mark and every message without metadata is backed by an entry at the
  destination or by an *earlier* message between the same two shards that brings it. The place in
  the queue is what makes it inductive: with `InOrder` that message arrives first. The part about
  entries (`EntriesInv`) is kept apart from the messages, and so is what a step does to it
  (`EntriesStep`), so that `MultiProofs` can use both with batches instead.
- `LatestMetadataHolds`: of a token with a single piece. `LatestInv` says that wherever the piece
  is, on an account or in the one message in flight, the latest version is with it; `Conservation`
  is used to know that it is in one place.
- `NonceFreezeHolds`: an action property, from `TypeInv`.

`MetadataInvHolds` and the three that follow from it, and the four on metadata in `MultiProofs`,
assume `SystemMetadata`: the token was created with `SaveToSystemAccountFlag`; `SendAlwaysFlag`
stays active once it is, as `flags.go` has it, which compares the epoch with the one of
activation; where there is a wipe of a single NFT,
`WipeSingleNFTLiquidityDecreaseFlag` comes no later than `SendAlwaysFlag`; messages between two
shards are in order while metadata is sent only once. Without the first, findings 2 and 3 are
counterexamples; without the third the code itself, which introduced that flag to repair it; and
without the last a transfer overtakes the one that brings its metadata. `LatestMetadataHolds`
assumes `UniqueMetadata`: besides that, one piece and the flags with which metadata is in every
transfer and always saved. `NftModern` and `NftUnique` satisfy these hypotheses, `NftOnce` and
`MultiTransfer` those of `SystemMetadata`.

**Several tokens** (`MultiProofs`). For any number of tokens in a list, and any number of batches.
- A call is a fold over its list. `FoldPath` turns a fold into a path, a function from 0 to the
  number of tokens, on which an induction over numbers works: `MovedPath`, `TakenPath`,
  `AddressedPath`, `ArrivedPath`. In the middle of a call that fails a balance may be negative, so
  a path is in `WideWork`, where amounts are integers; `PathShifts` says that a path that ends
  well has shifted from one account to the other exactly the totals of its list.
- `MultiTypeOKHolds`: `MultiInv` says that the supply is what accounts hold and what is in
  batches, and that there are at most `MaxCoins` coins in both. It uses the steps of `NftProofs`
  with `QuantityWith`, which leaves room for pieces that are elsewhere.
- `CoinFreezeKeptHolds`: an action property. The half that saves a coin with the properties of
  the sender runs only for a destination that is not frozen.
- `MultiImplementsEscrow`: the refinement of `TokenEscrow`, under the mapping of `MultiTransfer`:
  `Holding` is what accounts have, and `Payments` a bag with one payment for each batch.
  `BagAppend` and `BagRemoveAt` say that a sequence that grows or shrinks adds or removes one copy
  in its bag. Each action has a lemma of its own: `InShardEscrow` (`Pay`), `AcrossEscrow`
  (`Deposit`), `DeliverEscrow` (`Settle`), `RefuseEscrow` (`Refuse`: the batch that is sent back is
  the same payment, refused), and `NftStepEscrow` and `IssueCoinEscrow` (`Issue`, `Destroy`, or no
  step). The amounts of a payment are those of the list although the metadata in it has changed.
- `MultiMetadataInvHolds`, and from it `MultiLeftOutOnlyIfSentHolds`, `MultiLiquidityHolds` and
  `MultiMetadataAvailableHolds`, under `SystemMetadata`. `MultiMetadataInv` is `EntriesInv` with
  `BatchMarks` for `Marks`: while metadata is sent once, a mark, or a batch with an NFT and no
  metadata, is backed by an entry at the destination or by an earlier batch between the same
  shards that brings it; a batch of coins alone needs no metadata and brings none
  (`OnlyNftsBring`). Along a path each token keeps the entry of its shard in step with what the
  accounts there hold (`MovedEntry`, `TakenEntry`, `ArrivedAlways`). While metadata is sent once
  that is not enough: the marks are set in a second pass over the list, so `AddressedTells` says
  that a batch with an NFT brings the metadata unless the entry had the destination's mark before
  the pass, and `ArrivedOnce` and `SavedBrings` that a batch which brings it leaves it in the
  entry of the shard it comes to, and one of coins alone leaves the entry as it was.
  `BatchEnds` gives the marks that are left when a batch leaves the queue, for a delivery and for
  a refusal, which sends the metadata back.

**Accounts** (`AccountProofs`).
- `TypeOKHolds`: a name and an owner are set from what a message carries, so the invariant says by
  the function of a message what its argument is (`WellFormed`).
- `RewardsConservedHolds`: the sum of rewards with the contract, on the way and paid (`Kept`).
- `GasNeverGrowsHolds`: every subtraction of gas is preceded by the comparison that keeps it
  from wrapping, for every schedule, and for lists of pairs of any length (`SavedType`).
- `StoragePaidHolds`, for lists of any length and any keys: along the pairs of a call (`SavedPath`),
  what is used pays for all growth so far (`PairsPaid`); what one pair adds to the size of a storage
  is a lemma on sums (`SizeChange`). It assumes `CallsFitWord`: the dearest call, with the longest
  values, is below the largest word. Without that the uint64 sum in `saveKeyValue.go` wraps and the
  claim is false; the three bits of the run hold just the calls of the run.
- `NameCostsOnceHolds` assumes `FlagStays`, that `ChangeUsernameFlag` stays active: a message in
  flight has paid a price of the schedule, or was sent before the flag and has paid nothing
  (`NetCharged`). The charge is a difference of words that may have wrapped: `WordDifference` and
  `WordCost` take it back to the difference of what was given and what was left, from the
  uniqueness of quotient and remainder (`ModUnique`). `NameCharge` is then the price of one call,
  or nothing for an early name that arrives under the flag.

**Numbering** (`NftCreatorsProofs`).
- `RoleInvHolds`: `NonceUnique` and `OneCreator` are not inductive. `RoleInv` is, with `TypeOK`:
  the numbering is in exactly one place, which is nowhere yet, an account with the role (`Held`),
  or a message that crosses shards (`HandedOver`). An account that was handed its own role has lost
  it (`Held` with a number of zero and a loss), and the numbering goes on from zero. A nonce up to
  the number kept in that place exists once for each time the numbering was started at most, one
  above it once less (`Numbered`). `NonceUniqueHolds` and `OneCreatorHolds` follow. All three assume
  `~SenderFromOutput`; finding 1 shows why they must.
- `NoncesApartHolds`, for any number of creators, last bytes and size of a word: `ShardInv` says
  that a creator is within the nonces of its last byte and that those above its latest one were
  created under earlier grants only; two ranges are apart because the last bytes differ (`RangesDisjoint`, the one step with
  multiplication).

**Upkeep** (`UpkeepProofs`, `ParsingProofs`).
- `NoTornCallHolds`: `GasInv` ties every place of a call and of the change to the lock that is
  held there, and says that the two costs of a function differ only between the two writes.
- `MigrationExactHolds`: `MigrationInv` adds that a leaf in the queue is in the old format and was
  visited, and that one still to be moved was not, or is the last, or the gas has run out.
- `GuardianKeptHolds`, for any delay of one epoch at least: `GuardInv` says that who is guarded
  has an active guardian, that all that is pending was named under the guard and waits for the full
  delay from then, and that no two guardians have one activation, so that a new active one is
  either signed in this step or was pending.
- `UpkeepTypeOKHolds`: the types of all seven parts, whichever steps; `IntervalsInv` keeps the
  indices within the arguments, and `ParsingInv` knows that what is under way is a transfer.
- `ParserAgreesHolds`: for any accounts and arguments within `ParsingAssumption`. `AgreesInv` adds
  what the sender's half has executed, and that the message is the one `Message` writes for it:
  only then does the destination read the same tokens and the same call again, in each of the
  forms of a value (an amount, an amount of a fungible token, a marshalled token).

Only model-checked: the liveness properties `InFlightSettles`, `RoleArrives`, `ScheduleReachesAll`
and `DeletesListed` (liveness under fairness and ENABLED are out of reach of the proof system).
Every invariant and every action property of a passing run is proved.
`ParserAgrees` and `TypeOK` are proved of recursive functions and folds, not of recursive operators:
no module that is proved about reaches one.

## 6. Not modelled

Logs and events, the texts of errors, the marshalled formats, and length limits of
arguments are left out of all modules; gas is left out of all but `AccountCalls`, `GasSchedule`
and `TrieMigration`. The texts that parsers split and decode, the parsers of deployments and storage
updates, the builders of transaction data, addresses, code metadata and outputs are conversions
without a state of their own; `TransferParsing` starts from the arguments. `Replace` and
`SetPayableHandler` run while a node is set up, before there are calls. A transfer of
value between two accounts of one shard is taken as a record of what `AddToBalance` has done, and
is not executed; the code empties the output accounts where that would not hold. `PROJECT.json` lists the components without a module and why.
A node that loses or repeats a message is not modelled: the code has no defence against it and
relies on the chain for exactly one execution. `DCDTSC` as a holder of tokens (exempt from
freezes) is left out since tokens sent there are destroyed.

## 7. Plan

Order of work, most important first:

1. *Done*: all modules of section 2, their runs, and the proofs of section 5.
2. Limited transfers and the payable check of NFTs and of lists, with the modules that have them
   for one fungible token.
