--------------------------- MODULE TrieMigration ---------------------------
(***************************************************************************)
(* MigrateDataTrie moves the leaves of an account's data trie from the old *)
(* format to the new one, as many as the gas of the call pays for; another *)
(* call goes on later.  The account walks through its trie (external) and  *)
(* asks the dataTrieMigrator before every step.  The costs are copied when *)
(* the call starts, and the gas schedule may change while it runs.         *)
(***************************************************************************)
EXTENDS Integers, FiniteSets

CONSTANTS
  Leaves,         \* the leaves of the trie, all in the old format at first
  Branches,       \* its other nodes
  Prices,         \* the costs [load, store] of the gas schedules
  Gas,            \* the gas that calls are given
  MaxUint64       \* the largest amount of gas

ASSUME MigrationAssumption ==
  /\ IsFiniteSet(Leaves) /\ Leaves \cap Branches = {}
  /\ MaxUint64 \in Nat
  /\ Prices \subseteq [load: 0..MaxUint64, store: 0..MaxUint64]
  /\ Gas \subseteq 0..MaxUint64

VARIABLES
  builtInCost,    \* the costs of the function now
  version,        \* version[l]: core.NotSpecified or core.AutoBalanceEnabled
  moves,          \* history: moves[l] is how often leaf l was moved
  migrator        \* the dataTrieMigrator of the call that runs, and its walk

migrationVars == <<builtInCost, version, moves, migrator>>

(* pc: idle, walk (between two nodes), leaf (a leaf was loaded), done.     *)
(*   cost      the costs of this call                                      *)
(*   provided  the gas that it was given; gas is what remains of it        *)
(*   queue     leavesToBeMigrated                                          *)
(*   toVisit   the nodes that were not loaded yet; leaf is the last loaded *)
(*   loads     history: how many loads were paid for                       *)
Idle == [pc |-> "idle"]

MigrationInit ==
  /\ builtInCost \in Prices
  /\ version = [l \in Leaves |-> "NotSpecified"]
  /\ moves = [l \in Leaves |-> 0]
  /\ migrator = Idle

-----------------------------------------------------------------------------
(* The dataTrieMigrator *)

\* ConsumeStorageLoadGas: the gas after it, and what it returns
CanLoad(m) == m.gas >= m.cost.load

\* A mutant: the gas is not compared with the cost.
AfterLoadUnchecked(m) == m.gas - m.cost.load

AfterLoad(m) == IF CanLoad(m) THEN m.gas - m.cost.load ELSE m.gas
LoadAgain(m) == CanLoad(m) /\ AfterLoad(m) > m.cost.load

\* A mutant: the costs of the latest schedule are taken.
StoreCostNow(m) == builtInCost.store

StoreCost(m) == m.cost.store

(* AddLeafToMigrationQueue: only leaves in the old format are queued, and  *)
(* paid for.                                                               *)
CanStore(m) == m.gas >= StoreCost(m)
Queues(m, l) == CanStore(m) /\ version[l] = "NotSpecified"
AfterStore(m, l) == IF Queues(m, l) THEN m.gas - StoreCost(m) ELSE m.gas
StoreAgain(m, l) == CanStore(m) /\ AfterStore(m, l) > StoreCost(m)

-----------------------------------------------------------------------------
(* A call *)

\* checkArgumentsForMigrateDataTrie adds the costs in 64 bits.
NewDataTrieMigrator(gas) ==
  [pc |-> "walk", cost |-> builtInCost, provided |-> gas, gas |-> gas, queue |-> {},
   toVisit |-> Leaves \cup Branches, leaf |-> {}, loads |-> 0]

StartMigration(gas) ==
  /\ migrator.pc = "idle"
  /\ gas >= (builtInCost.load + builtInCost.store) % (MaxUint64 + 1)
  /\ migrator' = NewDataTrieMigrator(gas)
  /\ UNCHANGED <<builtInCost, version, moves>>

\* The account loads node n (external: the order of the walk).
LoadNode(n) ==
  LET m == migrator IN
  /\ m.pc = "walk" /\ n \in m.toVisit
  /\ migrator' =
       [m EXCEPT !.gas = AfterLoad(m),
                 !.loads = IF CanLoad(m) THEN @ + 1 ELSE @,
                 !.toVisit = IF CanLoad(m) THEN @ \ {n} ELSE @,
                 !.leaf = {n} \cap Leaves,
                 !.pc = IF ~LoadAgain(m) THEN "done" ELSE IF n \in Leaves THEN "leaf" ELSE "walk"]
  /\ UNCHANGED <<builtInCost, version, moves>>

\* ... and queues it if it is a leaf.
AddLeaf(l) ==
  LET m == migrator IN
  /\ m.pc = "leaf" /\ l \in m.leaf
  /\ migrator' =
       [m EXCEPT !.gas = AfterStore(m, l),
                 !.queue = IF Queues(m, l) THEN @ \cup {l} ELSE @,
                 !.pc = IF StoreAgain(m, l) THEN "walk" ELSE "done"]
  /\ UNCHANGED <<builtInCost, version, moves>>

EndOfTrie ==
  /\ migrator.pc = "walk" /\ migrator.toVisit = {}
  /\ migrator' = [migrator EXCEPT !.pc = "done"]
  /\ UNCHANGED <<builtInCost, version, moves>>

(* The account saves the leaves of GetLeavesToBeMigrated in the new format *)
(* (external), and the call returns with GetGasRemaining.                  *)
EndMigration ==
  /\ migrator.pc = "done"
  /\ version' = [l \in Leaves |->
                   IF l \in migrator.queue THEN "AutoBalanceEnabled" ELSE version[l]]
  /\ moves' = [l \in Leaves |-> IF l \in migrator.queue THEN moves[l] + 1 ELSE moves[l]]
  /\ migrator' = Idle
  /\ UNCHANGED builtInCost

\* SetNewGasConfig, also while a call runs: it holds the lock only at first.
SetNewPrices(p) ==
  /\ builtInCost' = p
  /\ UNCHANGED <<version, moves, migrator>>

MigrationNext ==
  \/ \E gas \in Gas : StartMigration(gas)
  \/ \E n \in Leaves \cup Branches : LoadNode(n)
  \/ \E l \in Leaves : AddLeaf(l)
  \/ EndOfTrie \/ EndMigration
  \/ \E p \in Prices : SetNewPrices(p)

MigrationSpec == MigrationInit /\ [][MigrationNext]_migrationVars
-----------------------------------------------------------------------------
(* Properties *)

MigratorState ==
  [pc: {"walk", "leaf", "done"},
   cost: [load: 0..MaxUint64, store: 0..MaxUint64],
   provided: 0..MaxUint64, gas: 0..MaxUint64,
   queue: SUBSET Leaves, toVisit: SUBSET (Leaves \cup Branches),
   leaf: SUBSET Leaves, loads: Nat]

MigrationTypeOK ==
  /\ builtInCost \in Prices
  /\ version \in [Leaves -> {"NotSpecified", "AutoBalanceEnabled"}]
  /\ moves \in [Leaves -> Nat]
  /\ migrator \in {Idle} \cup MigratorState

\* The gas that a call has used is the cost of its loads and of its queue.
GasAccounted(m) ==
  m.provided = m.gas + m.loads * m.cost.load + Cardinality(m.queue) * m.cost.store

LeavesSome(m) == m.pc = "done" /\ \E l \in Leaves \ m.queue : version[l] = "NotSpecified"

\* It stops before the last leaf only when no more than one step can be paid.
StopsWithoutGas(m) == LeavesSome(m) => m.gas <= m.cost.load \/ m.gas <= m.cost.store

(* MigrationExact: whatever the gas of the calls and the changes of the    *)
(* schedule while they run, a call is charged exactly for the nodes it has *)
(* loaded and the leaves it moves, each leaf is moved, and paid for, once  *)
(* in all calls, and a call that leaves some of them for the next one has  *)
(* no more gas left than one load or one store costs.  With exactly that   *)
(* much it stops too, which the comments of the code promise it does not:  *)
(* see MigratesWhilePaid (ConsumeStorageLoadGas, AddLeafToMigrationQueue). *)
MigrationExact ==
  /\ \A l \in Leaves : moves[l] = IF version[l] = "NotSpecified" THEN 0 ELSE 1
  /\ migrator.pc # "idle" => GasAccounted(migrator) /\ StopsWithoutGas(migrator)

(* MigratesWhilePaid: a call leaves a leaf for the next one only when its  *)
(* gas does not do for another load or another store.  So say the comments *)
(* of ConsumeStorageLoadGas and AddLeafToMigrationQueue (true if there is  *)
(* enough gas remaining for another one), but both compare with >.         *)
MigratesWhilePaid ==
  LeavesSome(migrator) =>
    migrator.gas < migrator.cost.load \/ migrator.gas < migrator.cost.store

(* The invariant behind MigrationExact: a leaf that is queued is in the    *)
(* old format, and one that is still to be moved was not visited, or is    *)
(* the last.                                                               *)
MigrationInv ==
  /\ MigrationTypeOK
  /\ MigrationExact
  /\ migrator.pc # "idle" =>
       \A l \in Leaves :
         /\ l \in migrator.queue => version[l] = "NotSpecified" /\ l \notin migrator.toVisit
         /\ l \in migrator.leaf /\ migrator.pc = "leaf" =>
              /\ migrator.leaf = {l}
              /\ l \notin migrator.queue /\ l \notin migrator.toVisit
         /\ \/ l \in migrator.queue \cup migrator.toVisit
            \/ version[l] = "AutoBalanceEnabled"
            \/ l \in migrator.leaf /\ migrator.pc = "leaf"
            \/ migrator.pc = "done"
               /\ (migrator.gas <= migrator.cost.load \/ migrator.gas <= migrator.cost.store)
=============================================================================
