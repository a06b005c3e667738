---------------------------- MODULE UpkeepProofs ----------------------------
(***************************************************************************)
(* The parts that have nothing to do with each other, one after the other. *)
(* Gas: no call is charged with costs of two schedules, for any functions, *)
(* threads and number of schedules.  Migration: every leaf is moved once,  *)
(* and every call is charged for what it did, for any trie, any prices and *)
(* any gas.  Guardians: a guarded account keeps its guardian, for any      *)
(* accounts, any delay of at least an epoch, and any number of epochs.     *)
(* And the types of all seven parts.                                       *)
(***************************************************************************)
EXTENDS MCUpkeep, NftCreatorsProofs, FiniteSetTheorems

USE DEF costVars, lockVars, migrationVars, guardVars

-----------------------------------------------------------------------------
(* Gas: at first, no call runs                                             *)

LEMMA GasInitInv == GasInit => GasInv
<1> SUFFICES ASSUME GasInit PROVE GasInv
  OBVIOUS
<1>1. GasTypeOK
  <2>1. NoCall \in CallState
    BY DEF NoCall, CallState, CallStates
  <2>2. 1 \in 1..MaxSchedule
    BY GasScheduleAssumption
  <2>3. /\ registered \in SUBSET Functions
        /\ funcGasCost \in [Functions -> 1..MaxSchedule]
        /\ gasConfig \in [Functions -> 1..MaxSchedule]
        /\ schedule \in 1..MaxSchedule
    BY <2>2 DEF GasInit
  <2>4. /\ readers \in [Functions -> SUBSET Threads]
        /\ writer \in [Functions -> Threads \cup {Notifier, NoOne}]
        /\ queued \in [Functions -> SUBSET Threads]
    BY DEF GasInit
  <2>5. call \in [Threads -> CallState]
    BY <2>1 DEF GasInit
  <2>6. change \in [pc: ChangeStates, fn: Functions \cup {NoFunction}, left: SUBSET Functions]
    BY DEF GasInit, ChangeStates
  <2> QED BY <2>3, <2>4, <2>5, <2>6 DEF GasTypeOK, GasInit
<1>2. NoTornCall
  BY DEF GasInit, NoTornCall, NoCall
<1>3. ASSUME NEW t \in Threads PROVE CallInv(t)
  BY DEF GasInit, CallInv, NoCall
<1>4. ChangeInv /\ CostInv
  BY DEF GasInit, ChangeInv, CostInv
<1> QED BY <1>1, <1>2, <1>3, <1>4 DEF GasInv

-----------------------------------------------------------------------------
(* Gas: the steps of a call                                                *)

LEMMA CallKeepsInv ==
  ASSUME GasInv, NEW t \in Threads, NEW f \in Functions, Call(t, f)
  PROVE  GasInv'
<1>1. GasTypeOK'
  BY GasScheduleAssumption DEF GasInv, GasTypeOK, CallState, CallStates, Call
<1>2. NoTornCall'
  BY GasScheduleAssumption DEF GasInv, NoTornCall, Call
<1>3. ASSUME NEW u \in Threads PROVE CallInv(u)'
  BY GasScheduleAssumption DEF GasInv, CallInv, Call
<1>4. ChangeInv' /\ CostInv'
  BY GasScheduleAssumption DEF GasInv, CostInv, ChangeInv, Call
<1> QED BY <1>1, <1>2, <1>3, <1>4 DEF GasInv

LEMMA TakeLockKeepsInv ==
  ASSUME GasInv, NEW t \in Threads, TakeLock(t)
  PROVE  GasInv'
<1>1. GasTypeOK'
  <2>1. call[t] \in CallState /\ call[t].fn \in Functions
    BY DEF GasInv, GasTypeOK, CallInv, TakeLock, At
  <2>2. call' \in [Threads -> CallState]
    <3>1. PICK pc \in CallStates : call' = [call EXCEPT ![t].pc = pc] \/ call' = [call EXCEPT ![t] = NoCall]
      BY DEF TakeLock, Goes, CallStates
    <3>2. [call[t] EXCEPT !.pc = pc] \in CallState /\ NoCall \in CallState
      BY <2>1 DEF CallState, CallStates, NoCall
    <3>3. call' = [call EXCEPT ![t] = [call[t] EXCEPT !.pc = pc]] \/ call' = [call EXCEPT ![t] = NoCall]
      BY <3>1 DEF GasInv, GasTypeOK
    <3> QED BY <3>2, <3>3 DEF GasInv, GasTypeOK
  <2> QED BY <2>1, <2>2 DEF GasInv, GasTypeOK, TakeLock, Lock, RLock
<1>2. NoTornCall'
  BY GasScheduleAssumption DEF GasInv, NoTornCall, TakeLock, Goes
<1>3. ASSUME NEW u \in Threads PROVE CallInv(u)'
  <2>1. /\ call[t].pc = "arriving" /\ call[t].fn \in Functions /\ call[t].used = {}
        /\ call' = [call EXCEPT ![t] = [call[t] EXCEPT !.pc = "first"]]
        /\ UNCHANGED costVars
    BY DEF GasInv, CallInv, TakeLock, At, Goes
  <2>2. CASE u = t
    <3>1. call'[t] = [call[t] EXCEPT !.pc = "first"]
      BY <2>1 DEF GasInv, GasTypeOK
    <3>2. LockOf[call[t].fn] = "exclusive" => writer'[call[t].fn] = t
      BY <2>1 DEF TakeLock, Lock, GasInv, GasTypeOK
    <3>3. /\ call'[t].pc = "first" /\ call'[t].fn = call[t].fn /\ call'[t].used = {}
      BY <2>1, <3>1 DEF GasInv, GasTypeOK, CallState
    <3> QED BY <2>1, <2>2, <3>2, <3>3 DEF CallInv
  <2>3. CASE u # t
    <3>1. call'[u] = call[u] /\ CallInv(u) /\ call[u] \in CallState
      BY <2>1, <2>3 DEF GasInv, GasTypeOK
    <3>2. \A f \in Functions :
            /\ u \in readers[f] => u \in readers'[f]
            /\ writer[f] = u => writer'[f] = u
            /\ writer[f] = u /\ readers[f] = {} => readers'[f] = {}
      BY <2>1, GasScheduleAssumption DEF TakeLock, Lock, RLock, GasInv, GasTypeOK
    <3> QED BY <2>1, <3>1, <3>2 DEF CallInv
  <2> QED BY <2>2, <2>3
<1>4. ChangeInv' /\ CostInv'
  BY GasScheduleAssumption
     DEF GasInv, GasTypeOK, CostInv, ChangeInv, TakeLock, Lock, RLock
<1> QED BY <1>1, <1>2, <1>3, <1>4 DEF GasInv

LEMMA ReadFuncGasCostKeepsInv ==
  ASSUME GasInv, NEW t \in Threads, ReadFuncGasCost(t)
  PROVE  GasInv'
<1>1. GasTypeOK'
  <2>1. call[t] \in CallState /\ call[t].fn \in Functions
    BY DEF GasInv, GasTypeOK, CallInv, ReadFuncGasCost, At
  <2>2. call' \in [Threads -> CallState]
    <3>1. PICK n \in 1..MaxSchedule, pc \in CallStates : Reads(t, pc, n)
      BY <2>1 DEF GasInv, GasTypeOK, ReadFuncGasCost, CallStates
    <3>2. /\ [call[t] EXCEPT !.pc = pc, !.used = @ \cup {n}] \in CallState
          /\ call' = [call EXCEPT ![t] = [call[t] EXCEPT !.pc = pc, !.used = @ \cup {n}]]
      BY <2>1, <3>1 DEF CallState, Reads, GasTypeOK
    <3> QED BY <3>2 DEF GasInv, GasTypeOK
  <2> QED BY <2>1, <2>2 DEF GasInv, GasTypeOK, ReadFuncGasCost
<1>2. NoTornCall'
  BY GasScheduleAssumption
     DEF GasInv, GasTypeOK, NoTornCall, CallInv, ReadFuncGasCost, At, Reads
<1>3. ASSUME NEW u \in Threads PROVE CallInv(u)'
  <2>1. CASE u = t
    BY <2>1, GasScheduleAssumption
       DEF GasInv, GasTypeOK, CallInv, ReadFuncGasCost, At, Reads, MayRead, HasLock
  <2>2. CASE u # t
    <3>1. call'[u] = call[u]
      BY <2>2 DEF GasInv, GasTypeOK, ReadFuncGasCost, Reads
    <3> QED BY <3>1 DEF GasInv, CallInv, ReadFuncGasCost, At, HasLock
  <2> QED BY <2>1, <2>2
<1>4. ChangeInv' /\ CostInv'
  BY GasScheduleAssumption DEF GasInv, CostInv, ChangeInv, ReadFuncGasCost
<1> QED BY <1>1, <1>2, <1>3, <1>4 DEF GasInv

LEMMA ReadGasConfigKeepsInv ==
  ASSUME GasInv, NEW t \in Threads, ReadGasConfig(t)
  PROVE  GasInv'
<1>1. GasTypeOK'
  <2>1. call[t] \in CallState /\ call[t].fn \in Functions
    BY DEF GasInv, GasTypeOK, CallInv, ReadGasConfig, At
  <2>2. call' \in [Threads -> CallState]
    <3>1. PICK n \in 1..MaxSchedule, pc \in CallStates : Reads(t, pc, n)
      BY <2>1 DEF GasInv, GasTypeOK, ReadGasConfig, CallStates
    <3>2. /\ [call[t] EXCEPT !.pc = pc, !.used = @ \cup {n}] \in CallState
          /\ call' = [call EXCEPT ![t] = [call[t] EXCEPT !.pc = pc, !.used = @ \cup {n}]]
      BY <2>1, <3>1 DEF CallState, Reads, GasTypeOK
    <3> QED BY <3>2 DEF GasInv, GasTypeOK
  <2> QED BY <2>1, <2>2 DEF GasInv, GasTypeOK, ReadGasConfig
<1>2. NoTornCall'
  BY GasScheduleAssumption
     DEF GasInv, GasTypeOK, NoTornCall, CallInv, CostInv, ChangeInv,
         ReadGasConfig, At, Reads
<1>3. ASSUME NEW u \in Threads PROVE CallInv(u)'
  BY GasScheduleAssumption DEF GasInv, GasTypeOK, CallInv, ReadGasConfig, At, Reads
<1>4. ChangeInv' /\ CostInv'
  BY GasScheduleAssumption DEF GasInv, CostInv, ChangeInv, ReadGasConfig
<1> QED BY <1>1, <1>2, <1>3, <1>4 DEF GasInv

LEMMA GiveLockBackKeepsInv ==
  ASSUME GasInv, NEW t \in Threads, GiveLockBack(t)
  PROVE  GasInv'
<1>1. GasTypeOK'
  <2>1. call[t] \in CallState /\ call[t].fn \in Functions
    BY DEF GasInv, GasTypeOK, CallInv, GiveLockBack, At
  <2>2. call' \in [Threads -> CallState]
    <3>1. PICK pc \in CallStates : call' = [call EXCEPT ![t].pc = pc] \/ call' = [call EXCEPT ![t] = NoCall]
      BY DEF GiveLockBack, Goes, CallStates
    <3>2. [call[t] EXCEPT !.pc = pc] \in CallState /\ NoCall \in CallState
      BY <2>1 DEF CallState, CallStates, NoCall
    <3>3. call' = [call EXCEPT ![t] = [call[t] EXCEPT !.pc = pc]] \/ call' = [call EXCEPT ![t] = NoCall]
      BY <3>1 DEF GasInv, GasTypeOK
    <3> QED BY <3>2, <3>3 DEF GasInv, GasTypeOK
  <2> QED BY <2>1, <2>2 DEF GasInv, GasTypeOK, GiveLockBack, Unlock, RUnlock
<1>2. NoTornCall'
  BY GasScheduleAssumption, SMTT(60)
     DEF GasInv, GasTypeOK, CallState, CallStates, NoTornCall, GiveLockBack,
         Goes, RUnlock, NoCall
<1>3. ASSUME NEW u \in Threads PROVE CallInv(u)'
  BY GasScheduleAssumption, SMTT(60)
     DEF GasInv, GasTypeOK, CallState, CallInv, GiveLockBack, At, Goes, Unlock,
         RUnlock, NoCall
<1>4. ChangeInv' /\ CostInv'
  BY GasScheduleAssumption
     DEF GasInv, GasTypeOK, CallInv, CostInv, ChangeInv, GiveLockBack, At,
         Unlock, RUnlock
<1> QED BY <1>1, <1>2, <1>3, <1>4 DEF GasInv

LEMMA EndCallKeepsInv ==
  ASSUME GasInv, NEW t \in Threads, EndCall(t)
  PROVE  GasInv'
<1>1. GasTypeOK'
  BY GasScheduleAssumption
     DEF GasInv, GasTypeOK, CallState, CallStates, EndCall, NoCall
<1>2. NoTornCall'
  BY GasScheduleAssumption DEF GasInv, NoTornCall, EndCall, NoCall
<1>3. ASSUME NEW u \in Threads PROVE CallInv(u)'
  BY GasScheduleAssumption DEF GasInv, CallInv, EndCall, NoCall
<1>4. ChangeInv' /\ CostInv'
  BY GasScheduleAssumption DEF GasInv, CostInv, ChangeInv, EndCall
<1> QED BY <1>1, <1>2, <1>3, <1>4 DEF GasInv

-----------------------------------------------------------------------------
(* Gas: the steps of a change                                              *)

LEMMA GasScheduleChangeKeepsInv ==
  ASSUME GasInv, GasScheduleChange
  PROVE  GasInv'
<1>1. GasTypeOK'
  <2>1. schedule + 1 \in 1..MaxSchedule
    BY GasScheduleAssumption DEF GasInv, GasTypeOK, GasScheduleChange
  <2>2. [change EXCEPT !.pc = "next", !.left = registered]
          \in [pc: ChangeStates, fn: Functions \cup {NoFunction}, left: SUBSET Functions]
    BY DEF GasInv, GasTypeOK, ChangeStates
  <2> QED BY <2>1, <2>2 DEF GasInv, GasTypeOK, GasScheduleChange
<1>2. NoTornCall'
  BY GasScheduleAssumption DEF GasInv, NoTornCall, GasScheduleChange
<1>3. ASSUME NEW u \in Threads PROVE CallInv(u)'
  BY GasScheduleAssumption DEF GasInv, CallInv, GasScheduleChange
<1>4. ChangeInv' /\ CostInv'
  BY GasScheduleAssumption DEF GasInv, CostInv, ChangeInv, GasScheduleChange
<1> QED BY <1>1, <1>2, <1>3, <1>4 DEF GasInv

LEMMA NextFunctionKeepsInv ==
  ASSUME GasInv, NEW f \in Functions, NextFunction(f)
  PROVE  GasInv'
<1>1. GasTypeOK'
  BY GasScheduleAssumption DEF GasInv, GasTypeOK, ChangeStates, NextFunction
<1>2. NoTornCall'
  BY GasScheduleAssumption DEF GasInv, NoTornCall, NextFunction
<1>3. ASSUME NEW u \in Threads PROVE CallInv(u)'
  BY GasScheduleAssumption DEF GasInv, CallInv, NextFunction
<1>4. ChangeInv' /\ CostInv'
  BY GasScheduleAssumption DEF GasInv, CostInv, ChangeInv, NextFunction
<1> QED BY <1>1, <1>2, <1>3, <1>4 DEF GasInv

LEMMA StopAtRemovedKeepsInv ==
  ASSUME GasInv, NEW f \in Functions, StopAtRemoved(f)
  PROVE  GasInv'
<1>1. GasTypeOK'
  BY GasScheduleAssumption DEF GasInv, GasTypeOK, ChangeStates, StopAtRemoved
<1>2. NoTornCall'
  BY GasScheduleAssumption DEF GasInv, NoTornCall, StopAtRemoved
<1>3. ASSUME NEW u \in Threads PROVE CallInv(u)'
  BY GasScheduleAssumption DEF GasInv, CallInv, StopAtRemoved
<1>4. ChangeInv' /\ CostInv'
  BY GasScheduleAssumption DEF GasInv, CostInv, ChangeInv, StopAtRemoved
<1> QED BY <1>1, <1>2, <1>3, <1>4 DEF GasInv

LEMMA EndOfLoopKeepsInv ==
  ASSUME GasInv, EndOfLoop
  PROVE  GasInv'
<1>1. GasTypeOK'
  BY GasScheduleAssumption DEF GasInv, GasTypeOK, ChangeStates, EndOfLoop
<1>2. NoTornCall'
  BY GasScheduleAssumption DEF GasInv, NoTornCall, EndOfLoop
<1>3. ASSUME NEW u \in Threads PROVE CallInv(u)'
  BY GasScheduleAssumption DEF GasInv, CallInv, EndOfLoop
<1>4. ChangeInv' /\ CostInv'
  BY GasScheduleAssumption DEF GasInv, CostInv, ChangeInv, EndOfLoop
<1> QED BY <1>1, <1>2, <1>3, <1>4 DEF GasInv

LEMMA LockForChangeKeepsInv ==
  ASSUME GasInv, LockForChange
  PROVE  GasInv'
<1>1. GasTypeOK'
  BY GasScheduleAssumption DEF GasInv, GasTypeOK, ChangeStates, LockForChange, Lock
<1>2. NoTornCall'
  BY GasScheduleAssumption DEF GasInv, NoTornCall, LockForChange
<1>3. ASSUME NEW u \in Threads PROVE CallInv(u)'
  BY GasScheduleAssumption DEF GasInv, CallInv, LockForChange, Lock
<1>4. ChangeInv' /\ CostInv'
  BY GasScheduleAssumption
     DEF GasInv, GasTypeOK, CostInv, ChangeInv, LockForChange, Lock
<1> QED BY <1>1, <1>2, <1>3, <1>4 DEF GasInv

LEMMA WriteFuncGasCostKeepsInv ==
  ASSUME GasInv, WriteFuncGasCost
  PROVE  GasInv'
<1>1. GasTypeOK'
  BY GasScheduleAssumption DEF GasInv, GasTypeOK, ChangeStates, WriteFuncGasCost
<1>2. NoTornCall'
  BY GasScheduleAssumption DEF GasInv, NoTornCall, WriteFuncGasCost
<1>3. ASSUME NEW u \in Threads PROVE CallInv(u)'
  BY GasScheduleAssumption DEF GasInv, CallInv, WriteFuncGasCost, MayWrite, HasLock
<1>4. ChangeInv' /\ CostInv'
  BY GasScheduleAssumption
     DEF GasInv, GasTypeOK, CostInv, ChangeInv, WriteFuncGasCost, MayWrite, HasLock
<1> QED BY <1>1, <1>2, <1>3, <1>4 DEF GasInv

LEMMA WriteGasConfigKeepsInv ==
  ASSUME GasInv, WriteGasConfig
  PROVE  GasInv'
<1>1. GasTypeOK'
  BY GasScheduleAssumption DEF GasInv, GasTypeOK, ChangeStates, WriteGasConfig
<1>2. NoTornCall'
  BY GasScheduleAssumption DEF GasInv, NoTornCall, WriteGasConfig
<1>3. ASSUME NEW u \in Threads PROVE CallInv(u)'
  BY GasScheduleAssumption DEF GasInv, CallInv, WriteGasConfig
<1>4. ChangeInv' /\ CostInv'
  BY GasScheduleAssumption DEF GasInv, GasTypeOK, CostInv, ChangeInv, WriteGasConfig
<1> QED BY <1>1, <1>2, <1>3, <1>4 DEF GasInv

LEMMA UnlockAfterChangeKeepsInv ==
  ASSUME GasInv, UnlockAfterChange
  PROVE  GasInv'
<1>1. GasTypeOK'
  BY GasScheduleAssumption
     DEF GasInv, GasTypeOK, ChangeStates, UnlockAfterChange, Unlock
<1>2. NoTornCall'
  BY GasScheduleAssumption DEF GasInv, NoTornCall, UnlockAfterChange
<1>3. ASSUME NEW u \in Threads PROVE CallInv(u)'
  BY GasScheduleAssumption DEF GasInv, CallInv, ChangeInv, UnlockAfterChange, Unlock
<1>4. ChangeInv' /\ CostInv'
  BY GasScheduleAssumption DEF GasInv, CostInv, ChangeInv, UnlockAfterChange
<1> QED BY <1>1, <1>2, <1>3, <1>4 DEF GasInv

LEMMA RemoveKeepsInv ==
  ASSUME GasInv, NEW f \in Functions, RemoveFunction(f)
  PROVE  GasInv'
<1>1. GasTypeOK'
  BY GasScheduleAssumption DEF GasInv, GasTypeOK, RemoveFunction
<1>2. NoTornCall'
  BY GasScheduleAssumption DEF GasInv, NoTornCall, RemoveFunction
<1>3. ASSUME NEW u \in Threads PROVE CallInv(u)'
  BY GasScheduleAssumption DEF GasInv, CallInv, RemoveFunction
<1>4. ChangeInv' /\ CostInv'
  BY GasScheduleAssumption DEF GasInv, CostInv, ChangeInv, RemoveFunction
<1> QED BY <1>1, <1>2, <1>3, <1>4 DEF GasInv

-----------------------------------------------------------------------------
LEMMA GasNextKeepsInv == GasInv /\ [GasNext]_gasVars => GasInv'
<1> SUFFICES ASSUME GasInv, [GasNext]_gasVars PROVE GasInv'
  OBVIOUS
<1>1. CASE UNCHANGED gasVars
  BY <1>1 DEF gasVars, GasInv, GasTypeOK, NoTornCall, CallInv, ChangeInv, CostInv
<1>2. ASSUME NEW t \in Threads, CallStep(t) PROVE GasInv'
  BY <1>2, TakeLockKeepsInv, ReadFuncGasCostKeepsInv, ReadGasConfigKeepsInv,
     GiveLockBackKeepsInv, EndCallKeepsInv DEF CallStep
<1>3. ASSUME NEW t \in Threads, NEW f \in Functions, Call(t, f) PROVE GasInv'
  BY <1>3, CallKeepsInv
<1>4. CASE GasScheduleChange \/ LockForChange
  BY <1>4, GasScheduleChangeKeepsInv, LockForChangeKeepsInv
<1>5. CASE ChangeStep
  <2>1. change.left \subseteq Functions
    BY DEF GasInv, GasTypeOK
  <2>2. ASSUME NEW f \in change.left, NextFunction(f) \/ StopAtRemoved(f) PROVE GasInv'
    BY <2>1, <2>2, NextFunctionKeepsInv, StopAtRemovedKeepsInv
  <2> QED BY <1>5, <2>2, EndOfLoopKeepsInv, WriteFuncGasCostKeepsInv,
             WriteGasConfigKeepsInv, UnlockAfterChangeKeepsInv DEF ChangeStep
<1>6. ASSUME NEW f \in Functions, RemoveFunction(f) PROVE GasInv'
  BY <1>6, RemoveKeepsInv
<1> QED BY <1>1, <1>2, <1>3, <1>4, <1>5, <1>6 DEF GasNext

(* Who reads or writes the costs of a function has its lock.               *)
THEOREM GasInvHolds == GasSpec => []GasInv
BY GasInitInv, GasNextKeepsInv, PTL DEF GasSpec

(* All the costs that a call is charged with are from one schedule.        *)
THEOREM NoTornCallHolds == GasSpec => []NoTornCall
<1>1. GasInv => NoTornCall
  BY DEF GasInv
<1> QED BY <1>1, GasInvHolds, PTL

-----------------------------------------------------------------------------
(* Migration: arithmetic, and what the parts of the invariant say          *)

LEMMA OneMore == \A m, n \in Nat : (m + 1) * n = m * n + n
BY SMT

LEMMA CountOneMore ==
  ASSUME NEW Q \in SUBSET Leaves, NEW l \in Leaves, l \notin Q
  PROVE  /\ Cardinality(Q) \in Nat /\ Cardinality(Q \cup {l}) = Cardinality(Q) + 1
<1>1. IsFiniteSet(Q)
  BY MigrationAssumption, FS_Subset
<1> QED BY <1>1, FS_AddElement, FS_CardinalityType

OutOfGas(m) == m.gas <= m.cost.load \/ m.gas <= m.cost.store

\* What MigrationInv says of a leaf while a call runs
LeafInv(l, m) ==
  /\ l \in m.queue => version[l] = "NotSpecified" /\ l \notin m.toVisit
  /\ l \in m.leaf /\ m.pc = "leaf" =>
       m.leaf = {l} /\ l \notin m.queue /\ l \notin m.toVisit
  /\ \/ l \in m.queue \cup m.toVisit
     \/ version[l] = "AutoBalanceEnabled"
     \/ l \in m.leaf /\ m.pc = "leaf"
     \/ m.pc = "done" /\ OutOfGas(m)

MovedOnce == \A l \in Leaves : moves[l] = IF version[l] = "NotSpecified" THEN 0 ELSE 1

MigratorInv(m) == GasAccounted(m) /\ StopsWithoutGas(m) /\ \A l \in Leaves : LeafInv(l, m)

LEMMA InvByParts ==
  MigrationInv <=>
    /\ MigrationTypeOK /\ MovedOnce
    /\ migrator.pc # "idle" => MigratorInv(migrator)
BY DEF MigrationInv, MigrationExact, MovedOnce, MigratorInv, LeafInv, OutOfGas

\* The same of the next state
LEMMA InvByPartsNext ==
  ASSUME MigrationTypeOK', MovedOnce', (migrator.pc # "idle" => MigratorInv(migrator))'
  PROVE  MigrationInv'
BY DEF MigrationInv, MigrationExact, MovedOnce, MigratorInv, LeafInv, OutOfGas

(* While a call runs its state is a record of all the fields.              *)
LEMMA Running ==
  ASSUME MigrationInv, migrator.pc # "idle"
  PROVE  migrator \in MigratorState /\ MigratorInv(migrator)
BY InvByParts DEF MigrationTypeOK, Idle

-----------------------------------------------------------------------------
(* Migration: the steps                                                    *)

LEMMA MigrationInitInv == MigrationInit => MigrationInv
<1> SUFFICES ASSUME MigrationInit PROVE MigrationInv
  OBVIOUS
<1>1. MigrationTypeOK /\ MovedOnce
  BY DEF MigrationInit, MigrationTypeOK, MovedOnce
<1>2. migrator.pc = "idle"
  BY DEF MigrationInit, Idle
<1> QED BY <1>1, <1>2, InvByParts

LEMMA StartKeepsInv ==
  ASSUME MigrationInv, NEW gas \in Gas, StartMigration(gas)
  PROVE  MigrationInv'
<1> DEFINE m == NewDataTrieMigrator(gas)
<1>1. /\ migrator' = m /\ version' = version /\ moves' = moves
      /\ builtInCost' = builtInCost
  BY DEF StartMigration
<1>2. /\ builtInCost \in [load: 0..MaxUint64, store: 0..MaxUint64]
      /\ gas \in 0..MaxUint64 /\ MaxUint64 \in Nat
  BY MigrationAssumption DEF MigrationInv, MigrationTypeOK
<1>3. m \in MigratorState
  BY <1>2 DEF NewDataTrieMigrator, MigratorState
<1>4. MigrationTypeOK' /\ MovedOnce'
  BY <1>1, <1>3, InvByParts DEF MigrationTypeOK, MovedOnce
<1>5. GasAccounted(m)
  <2>1. Cardinality({}) = 0
    BY FS_EmptySet
  <2>2. 0 * builtInCost.load = 0 /\ 0 * builtInCost.store = 0
    BY <1>2
  <2> QED BY <1>2, <2>1, <2>2 DEF NewDataTrieMigrator, GasAccounted
<1>6. MigratorInv(migrator)'
  BY <1>1, <1>5
     DEF NewDataTrieMigrator, MigratorInv, LeafInv, StopsWithoutGas, LeavesSome, GasAccounted
<1> QED BY <1>4, <1>6, InvByPartsNext

LEMMA LoadKeepsInv ==
  ASSUME MigrationInv, NEW n \in Leaves \cup Branches, LoadNode(n)
  PROVE  MigrationInv'
<1> DEFINE m == migrator
           k == migrator'
<1>1. /\ m.pc = "walk" /\ n \in m.toVisit
      /\ m \in MigratorState /\ MigratorInv(m)
      /\ version' = version /\ moves' = moves /\ builtInCost' = builtInCost
      /\ MaxUint64 \in Nat
  BY Running, MigrationAssumption DEF LoadNode
<1>2. /\ k = [m EXCEPT !.gas = k.gas, !.loads = k.loads, !.toVisit = k.toVisit,
                       !.leaf = k.leaf, !.pc = k.pc]
      /\ k.gas = AfterLoad(m)
      /\ k.loads = IF CanLoad(m) THEN m.loads + 1 ELSE m.loads
      /\ k.toVisit = IF CanLoad(m) THEN m.toVisit \ {n} ELSE m.toVisit
      /\ k.leaf = {n} \cap Leaves
      /\ k.pc = IF ~LoadAgain(m) THEN "done" ELSE IF n \in Leaves THEN "leaf" ELSE "walk"
      /\ k.cost = m.cost /\ k.provided = m.provided /\ k.queue = m.queue
  BY <1>1 DEF LoadNode, MigratorState
<1>3. /\ m.gas \in 0..MaxUint64 /\ m.cost.load \in 0..MaxUint64
      /\ m.cost.store \in 0..MaxUint64 /\ m.loads \in Nat
      /\ m.provided \in 0..MaxUint64 /\ m.queue \in SUBSET Leaves
      /\ m.toVisit \in SUBSET (Leaves \cup Branches)
  BY <1>1 DEF MigratorState
<1>4. k.gas \in 0..MaxUint64 /\ k.loads \in Nat
  BY <1>1, <1>2, <1>3 DEF AfterLoad, CanLoad
<1>5. k \in MigratorState
  BY <1>1, <1>2, <1>3, <1>4 DEF MigratorState
<1>6. MigrationTypeOK' /\ MovedOnce'
  BY <1>1, <1>5, InvByParts DEF MigrationTypeOK, MovedOnce
<1>7. GasAccounted(k)
  <2> DEFINE L == m.loads * m.cost.load
             S == Cardinality(m.queue) * m.cost.store
  <2>1. Cardinality(m.queue) \in Nat
    BY <1>3, MigrationAssumption, FS_Subset, FS_CardinalityType
  <2>2. L \in Nat /\ S \in Nat
    BY <1>1, <1>3, <2>1
  <2>3. m.provided = m.gas + L + S
    BY <1>1 DEF MigratorInv, GasAccounted
  <2>4. (m.loads + 1) * m.cost.load = L + m.cost.load
    <3>1. m.cost.load \in Nat
      BY <1>1, <1>3
    <3>2. \A i, j \in Nat : (i + 1) * j = i * j + j
      BY OneMore
    <3> QED BY <1>3, <3>1, <3>2, Zenon
  <2> HIDE DEF L, S
  <2>5. CASE CanLoad(m)
    <3>1. m.provided = (m.gas - m.cost.load) + (L + m.cost.load) + S
      BY <1>1, <1>3, <2>2, <2>3
    <3>2. k.gas = m.gas - m.cost.load /\ k.loads = m.loads + 1
      BY <1>2, <2>5 DEF AfterLoad
    <3> QED BY <1>2, <2>4, <3>1, <3>2 DEF GasAccounted, S
  <2>6. CASE ~CanLoad(m)
    BY <1>2, <2>3, <2>6 DEF GasAccounted, AfterLoad, L, S
  <2> QED BY <2>5, <2>6
<1>8. k.pc = "done" => OutOfGas(k)
  BY <1>1, <1>2, <1>3 DEF OutOfGas, LoadAgain, AfterLoad, CanLoad
<1>9. ASSUME NEW l \in Leaves PROVE LeafInv(l, k)
  <2>1. LeafInv(l, m)
    BY <1>1 DEF MigratorInv
  <2>2. l \in k.queue => version[l] = "NotSpecified" /\ l \notin k.toVisit
    BY <1>2, <2>1 DEF LeafInv
  <2>3. k.pc = "leaf" => CanLoad(m)
    BY <1>2 DEF LoadAgain
  <2>4. l \in k.leaf /\ k.pc = "leaf" =>
          k.leaf = {l} /\ l \notin k.queue /\ l \notin k.toVisit
    BY <1>1, <1>2, <2>1, <2>3 DEF LeafInv
  <2>5. \/ l \in k.queue \cup k.toVisit
        \/ version[l] = "AutoBalanceEnabled"
        \/ l = n
    BY <1>1, <1>2, <2>1 DEF LeafInv
  <2>6. l = n => l \in k.leaf /\ (k.pc = "leaf" \/ k.pc = "done")
    BY <1>2
  <2> QED BY <1>8, <2>2, <2>4, <2>5, <2>6 DEF LeafInv
<1>10. MigratorInv(migrator)'
  BY <1>1, <1>2, <1>7, <1>8, <1>9
     DEF MigratorInv, LeafInv, StopsWithoutGas, LeavesSome, OutOfGas, GasAccounted
<1> QED BY <1>6, <1>10, InvByPartsNext

LEMMA AddLeafKeepsInv ==
  ASSUME MigrationInv, NEW l \in Leaves, AddLeaf(l)
  PROVE  MigrationInv'
<1> DEFINE m == migrator
           k == migrator'
<1>1. /\ m.pc = "leaf" /\ l \in m.leaf
      /\ m \in MigratorState /\ MigratorInv(m)
      /\ version' = version /\ moves' = moves /\ builtInCost' = builtInCost
      /\ MaxUint64 \in Nat
  BY Running, MigrationAssumption DEF AddLeaf
<1>2. /\ k = [m EXCEPT !.gas = k.gas, !.queue = k.queue, !.pc = k.pc]
      /\ k.gas = AfterStore(m, l)
      /\ k.queue = IF Queues(m, l) THEN m.queue \cup {l} ELSE m.queue
      /\ k.pc = IF StoreAgain(m, l) THEN "walk" ELSE "done"
      /\ k.cost = m.cost /\ k.provided = m.provided /\ k.loads = m.loads
      /\ k.toVisit = m.toVisit /\ k.leaf = m.leaf
  BY <1>1 DEF AddLeaf, MigratorState
<1>3. /\ m.gas \in 0..MaxUint64 /\ m.cost.load \in 0..MaxUint64
      /\ m.cost.store \in 0..MaxUint64 /\ m.loads \in Nat
      /\ m.provided \in 0..MaxUint64 /\ m.queue \in SUBSET Leaves
  BY <1>1 DEF MigratorState
<1>4. k.gas \in 0..MaxUint64 /\ k.queue \in SUBSET Leaves
  BY <1>1, <1>2, <1>3 DEF AfterStore, Queues, CanStore, StoreCost
<1>5. k \in MigratorState
  BY <1>1, <1>2, <1>4 DEF MigratorState
<1>6. MigrationTypeOK' /\ MovedOnce'
  BY <1>1, <1>5, InvByParts DEF MigrationTypeOK, MovedOnce
<1>7. l \notin m.queue
  BY <1>1 DEF MigratorInv, LeafInv
<1>8. GasAccounted(k)
  <2> DEFINE L == m.loads * m.cost.load
             C == Cardinality(m.queue)
             S == C * m.cost.store
  <2>1. C \in Nat /\ Cardinality(m.queue \cup {l}) = C + 1
    BY <1>3, <1>7, CountOneMore
  <2>2. L \in Nat /\ S \in Nat
    BY <1>1, <1>3, <2>1
  <2>3. m.provided = m.gas + L + S
    BY <1>1 DEF MigratorInv, GasAccounted
  <2>4. (C + 1) * m.cost.store = S + m.cost.store
    BY <1>1, <1>3, <2>1, OneMore
  <2> HIDE DEF L, S
  <2>5. CASE Queues(m, l)
    <3>1. m.provided = (m.gas - m.cost.store) + L + (S + m.cost.store)
      BY <1>1, <1>3, <2>2, <2>3
    <3>2. k.gas = m.gas - m.cost.store /\ k.queue = m.queue \cup {l}
      BY <1>2, <2>5 DEF AfterStore, StoreCost
    <3> QED BY <1>2, <2>1, <2>4, <3>1, <3>2 DEF GasAccounted, L
  <2>6. CASE ~Queues(m, l)
    BY <1>2, <2>3, <2>6 DEF GasAccounted, AfterStore, L, S
  <2> QED BY <2>5, <2>6
<1>9. k.pc = "done" => OutOfGas(k)
  BY <1>1, <1>2, <1>3
     DEF OutOfGas, StoreAgain, AfterStore, CanStore, StoreCost, Queues
<1>10. k.pc = "walk" => CanStore(m)
  BY <1>2 DEF StoreAgain
<1>11. version[l] \in {"NotSpecified", "AutoBalanceEnabled"}
  BY DEF MigrationInv, MigrationTypeOK
<1>12. ASSUME NEW j \in Leaves PROVE LeafInv(j, k)
  <2>1. LeafInv(j, m) /\ LeafInv(l, m)
    BY <1>1 DEF MigratorInv
  <2>2. j \in k.queue => version[j] = "NotSpecified" /\ j \notin k.toVisit
    BY <1>1, <1>2, <2>1 DEF LeafInv, Queues
  <2>3. m.leaf = {l}
    BY <1>1, <2>1 DEF LeafInv
  <2>4. CASE j = l
    BY <1>2, <1>9, <1>10, <1>11, <2>2, <2>4 DEF LeafInv, Queues
  <2>5. CASE j # l
    BY <1>1, <1>2, <2>1, <2>2, <2>3, <2>5 DEF LeafInv
  <2> QED BY <2>4, <2>5
<1>13. MigratorInv(migrator)'
  BY <1>1, <1>2, <1>8, <1>9, <1>12
     DEF MigratorInv, LeafInv, StopsWithoutGas, LeavesSome, OutOfGas, GasAccounted
<1> QED BY <1>6, <1>13, InvByPartsNext

LEMMA EndOfTrieKeepsInv ==
  ASSUME MigrationInv, EndOfTrie
  PROVE  MigrationInv'
<1> DEFINE m == migrator
           k == migrator'
<1>1. /\ m.pc = "walk" /\ m.toVisit = {}
      /\ m \in MigratorState /\ MigratorInv(m)
      /\ version' = version /\ moves' = moves /\ builtInCost' = builtInCost
      /\ k = [m EXCEPT !.pc = "done"]
  BY Running DEF EndOfTrie
<1>2. /\ k \in MigratorState /\ k.pc = "done"
      /\ k.gas = m.gas /\ k.cost = m.cost /\ k.provided = m.provided
      /\ k.loads = m.loads /\ k.queue = m.queue /\ k.toVisit = m.toVisit
      /\ k.leaf = m.leaf
  BY <1>1 DEF MigratorState
<1>3. MigrationTypeOK' /\ MovedOnce'
  BY <1>1, <1>2, InvByParts DEF MigrationTypeOK, MovedOnce
<1>4. \A l \in Leaves : l \in m.queue \/ version[l] = "AutoBalanceEnabled"
  BY <1>1 DEF MigratorInv, LeafInv
<1>5. StopsWithoutGas(k)
  BY <1>2, <1>4 DEF StopsWithoutGas, LeavesSome
<1>6. \A l \in Leaves : LeafInv(l, k)
  BY <1>1, <1>2, <1>4 DEF MigratorInv, LeafInv
<1>7. GasAccounted(k)
  BY <1>1, <1>2 DEF MigratorInv, GasAccounted
<1>8. MigratorInv(migrator)'
  BY <1>1, <1>5, <1>6, <1>7
     DEF MigratorInv, LeafInv, StopsWithoutGas, LeavesSome, GasAccounted, OutOfGas
<1> QED BY <1>3, <1>8, InvByPartsNext

LEMMA EndKeepsInv ==
  ASSUME MigrationInv, EndMigration
  PROVE  MigrationInv'
<1>1. migrator.pc = "done" /\ migrator \in MigratorState /\ MigratorInv(migrator)
  BY Running DEF EndMigration
<1>2. migrator' = Idle /\ migrator'.pc = "idle" /\ builtInCost' = builtInCost
  BY DEF EndMigration, Idle
<1>3. /\ version \in [Leaves -> {"NotSpecified", "AutoBalanceEnabled"}]
      /\ moves \in [Leaves -> Nat] /\ MovedOnce
  BY InvByParts DEF MigrationTypeOK
<1>4. \A l \in Leaves : l \in migrator.queue => moves[l] = 0 /\ moves'[l] = 1
  BY <1>1, <1>3 DEF MigratorInv, LeafInv, MovedOnce, EndMigration
<1>5. MovedOnce'
  BY <1>3, <1>4 DEF MovedOnce, EndMigration
<1>6. MigrationTypeOK'
  BY <1>2, <1>3, InvByParts DEF MigrationTypeOK, EndMigration
<1> QED BY <1>2, <1>5, <1>6, InvByPartsNext

(* The prices of a call that runs are its own.                             *)
LEMMA PricesKeepInv ==
  ASSUME MigrationInv, NEW p \in Prices, SetNewPrices(p)
  PROVE  MigrationInv'
<1>1. MigrationTypeOK' /\ MovedOnce'
  BY InvByParts DEF MigrationTypeOK, MovedOnce, SetNewPrices
<1>2. (migrator.pc # "idle" => MigratorInv(migrator))'
  BY InvByParts
     DEF SetNewPrices, MigratorInv, LeafInv, StopsWithoutGas, LeavesSome, GasAccounted, OutOfGas
<1> QED BY <1>1, <1>2, InvByPartsNext

LEMMA MigrationStepKeepsInv ==
  ASSUME MigrationInv, [MigrationNext]_migrationVars
  PROVE  MigrationInv'
<1>1. CASE MigrationNext
  BY <1>1, StartKeepsInv, LoadKeepsInv, AddLeafKeepsInv, EndOfTrieKeepsInv,
     EndKeepsInv,
     PricesKeepInv
     DEF MigrationNext
<1>2. CASE UNCHANGED migrationVars
  <2>1. MigrationTypeOK' /\ MovedOnce'
    BY <1>2, InvByParts DEF MigrationTypeOK, MovedOnce
  <2>2. (migrator.pc # "idle" => MigratorInv(migrator))'
    BY <1>2, InvByParts
       DEF MigratorInv, LeafInv, StopsWithoutGas, LeavesSome, GasAccounted, OutOfGas
  <2> QED BY <2>1, <2>2, InvByPartsNext
<1> QED BY <1>1, <1>2

(* What is queued is in the old format, and whatever is still to be moved  *)
(* was not visited yet (AddLeafToMigrationQueue, ConsumeStorageLoadGas).   *)
THEOREM MigrationInvHolds == MigrationSpec => []MigrationInv
<1>1. MigrationInv /\ [MigrationNext]_migrationVars => MigrationInv'
  BY MigrationStepKeepsInv
<1> QED BY <1>1, MigrationInitInv, PTL DEF MigrationSpec

(* Every leaf is moved and paid for once, and a call stops early only      *)
(* without gas for another step (dataTrieMigrator).                        *)
THEOREM MigrationExactHolds == MigrationSpec => []MigrationExact
<1>1. MigrationInv => MigrationExact
  BY DEF MigrationInv
<1> QED BY <1>1, MigrationInvHolds, PTL

-----------------------------------------------------------------------------
(* Guardians: which one is active                                          *)

LEMMA ActiveAtOnce ==
  ASSUME NEW e \in Nat, NEW n \in Guardian, n.activation = e
  PROVE  ActiveIn({n}, e) = {n}
BY DEF ActiveIn, Guardian

LEMMA ActiveOfActive ==
  ASSUME NEW G \in SUBSET Guardian, NEW e \in Nat
  PROVE  ActiveIn(ActiveIn(G, e), e) = ActiveIn(G, e)
BY DEF ActiveIn, Guardian

(* What waits does not disturb what is active.                             *)
LEMMA ActiveBesidesPending ==
  ASSUME NEW G \in SUBSET Guardian, NEW e \in Nat,
         NEW n \in Guardian, n.activation > e
  PROVE  ActiveIn(ActiveIn(G, e) \cup {n}, e) = ActiveIn(G, e)
BY DEF ActiveIn, Guardian

(* In the next epoch the same guardian is active, or one that has waited.  *)
LEMMA ActiveInNextEpoch ==
  ASSUME NEW G \in SUBSET Guardian, NEW e \in Nat, NEW g \in ActiveIn(G, e)
  PROVE  \E h \in ActiveIn(G, e + 1) :
           h = g \/ (h.activation = e + 1 /\ h \notin ActiveIn(G, e))
<1>1. CASE \E h \in G : h.activation = e + 1
  <2>1. PICK h \in G : h.activation = e + 1
    BY <1>1
  <2>2. h \in ActiveIn(G, e + 1) /\ h \notin ActiveIn(G, e)
    BY <2>1 DEF ActiveIn, Guardian
  <2> QED BY <2>1, <2>2
<1>2. CASE \A h \in G : h.activation # e + 1
  <2>1. \A h \in G : h.activation <= e + 1 => h.activation <= e
    BY <1>2 DEF Guardian
  <2>2. g \in ActiveIn(G, e + 1)
    BY <2>1 DEF ActiveIn, Guardian
  <2> QED BY <2>2
<1> QED BY <1>1, <1>2

(* Who is not active in the next epoch and waits, has waited before it.    *)
LEMMA PendingBefore ==
  ASSUME NEW G \in SUBSET Guardian, NEW e \in Nat, NEW g \in G, g.activation > e
  PROVE  g \notin ActiveIn(G, e)
BY DEF ActiveIn, Guardian

-----------------------------------------------------------------------------
(* Guardians: the invariant                                                *)

GuardedWell(a) ==
  /\ isGuarded[a] =>
       /\ GetActiveGuardian(a) # {}
       /\ \A g \in guardians[a] \ GetActiveGuardian(a) :
            g.activation > currentEpoch => g.underGuard
  /\ \A g \in guardians[a] :
       g.activation > currentEpoch => g.activation = g.setIn + ActivationDelay
  /\ \A g, h \in guardians[a] : g.activation = h.activation => g = h

LEMMA GuardInvByAccount == GuardInv <=> GuardTypeOK /\ \A a \in Guarded : GuardedWell(a)
BY DEF GuardInv, GuardedWell

LEMMA GuardInitInv == GuardInit => GuardInv
BY GuardiansAssumption DEF GuardInit, GuardInv, GuardTypeOK

LEMMA SetGuardianKeepsInv ==
  ASSUME GuardInv, NEW a \in Guarded, NEW c \in Candidates,
         NEW t \in Candidates \cup {Unsigned}, SetGuardian(a, c, t)
  PROVE  GuardInv'
<1> DEFINE new(e) == [address |-> c, activation |-> e, setIn |-> currentEpoch,
                      signedBy |-> t, underGuard |-> isGuarded[a]]
           G == guardians[a]
<1>1. /\ currentEpoch \in Nat /\ G \in SUBSET Guardian
      /\ currentEpoch' = currentEpoch /\ isGuarded' = isGuarded
      /\ isGuarded \in [Guarded -> BOOLEAN]
      /\ guardians \in [Guarded -> SUBSET Guardian]
  BY GuardiansAssumption DEF GuardInv, GuardTypeOK, SetGuardian
<1>2. /\ new(currentEpoch) \in Guardian
      /\ new(currentEpoch + ActivationDelay) \in Guardian
      /\ new(currentEpoch + ActivationDelay).activation > currentEpoch
  BY <1>1, GuardiansAssumption DEF GuardInv, GuardTypeOK, Guardian
<1>3. ASSUME NEW H \in SUBSET Guardian, guardians' = [guardians EXCEPT ![a] = H],
             isGuarded[a] => ActiveIn(H, currentEpoch) # {},
             isGuarded[a] => \A g \in H \ ActiveIn(H, currentEpoch) :
                               g.activation > currentEpoch => g.underGuard,
             \A g \in H : g.activation > currentEpoch =>
                           g.activation = g.setIn + ActivationDelay,
             \A g, h \in H : g.activation = h.activation => g = h
      PROVE  GuardInv'
  <2>1. GuardTypeOK'
    BY <1>1, <1>3 DEF GuardInv, GuardTypeOK, SetGuardian
  <2>2. ASSUME NEW b \in Guarded PROVE GuardedWell(b)'
    <3>1. CASE b = a
      <4>1. guardians'[a] = H
        BY <1>1, <1>3
      <4> QED BY <1>1, <1>3, <3>1, <4>1 DEF GuardedWell, GetActiveGuardian
    <3>2. CASE b # a
      <4>1. guardians'[b] = guardians[b]
        BY <1>1, <1>3, <3>2
      <4>2. GuardedWell(b)
        BY GuardInvByAccount
      <4> QED BY <1>1, <4>1, <4>2 DEF GuardedWell, GetActiveGuardian
    <3> QED BY <3>1, <3>2
  <2> QED BY <2>1, <2>2, GuardInvByAccount DEF GuardInv, GuardedWell
<1>4. GuardedWell(a)
  BY GuardInvByAccount
<1>5. ActiveIn(G, currentEpoch) \subseteq G
  BY DEF ActiveIn
<1>6. CASE guardians' = [guardians EXCEPT ![a] = {new(currentEpoch)}]
  <2> DEFINE n == new(currentEpoch)
             H == {n}
  <2>1. n \in Guardian /\ n.activation = currentEpoch
    BY <1>2
  <2>2. guardians' = [guardians EXCEPT ![a] = H]
    BY <1>6
  <2> HIDE DEF n
  <2>3. ActiveIn(H, currentEpoch) = H /\ \A g \in H : ~(g.activation > currentEpoch)
    BY <1>1, <2>1, ActiveAtOnce
  <2>4. H \in SUBSET Guardian /\ H # {} /\ \A g, h \in H : g = h
    BY <2>1
  <2> HIDE DEF H
  <2> QED BY <1>3, <2>2, <2>3, <2>4
<1>7. CASE guardians' = [guardians EXCEPT ![a] = ActiveIn(G, currentEpoch)]
  <2>1. ActiveIn(ActiveIn(G, currentEpoch), currentEpoch) = ActiveIn(G, currentEpoch)
    BY <1>1, ActiveOfActive
  <2> QED BY <1>1, <1>3, <1>4, <1>5, <1>7, <2>1 DEF GuardedWell, GetActiveGuardian
<1>8. CASE guardians' = [guardians EXCEPT ![a] =
             ActiveIn(G, currentEpoch) \cup {new(currentEpoch + ActivationDelay)}]
  <2> DEFINE n == new(currentEpoch + ActivationDelay)
             H == ActiveIn(G, currentEpoch) \cup {n}
  <2>1. /\ n \in Guardian /\ n.activation > currentEpoch /\ n.underGuard = isGuarded[a]
        /\ n.activation = n.setIn + ActivationDelay
    BY <1>2
  <2> HIDE DEF n
  <2>2. ActiveIn(H, currentEpoch) = ActiveIn(G, currentEpoch)
    BY <1>1, <2>1, ActiveBesidesPending
  <2>3. \A g \in ActiveIn(G, currentEpoch) : g.activation <= currentEpoch
    BY DEF ActiveIn
  <2>4. \A g, h \in H : g.activation = h.activation => g = h
    BY <1>1, <1>4, <1>5, <2>1, <2>3 DEF GuardedWell, Guardian
  <2>5. isGuarded[a] => ActiveIn(H, currentEpoch) # {}
    BY <1>4, <2>2 DEF GuardedWell, GetActiveGuardian
  <2>6. isGuarded[a] => \A g \in H \ ActiveIn(H, currentEpoch) : g.underGuard
    BY <2>1, <2>2
  <2>7. H \in SUBSET Guardian /\ guardians' = [guardians EXCEPT ![a] = H]
    BY <1>1, <1>5, <1>8, <2>1 DEF n
  <2>8. \A g \in H : g.activation > currentEpoch => g.activation = g.setIn + ActivationDelay
    BY <1>4, <1>5, <2>1 DEF GuardedWell
  <2> HIDE DEF H
  <2> QED BY <1>3, <2>4, <2>5, <2>6, <2>7, <2>8
<1> QED BY <1>6, <1>7, <1>8 DEF SetGuardian, HandlerSets, GetActiveGuardian

LEMMA GuardAccountKeepsInv ==
  ASSUME GuardInv, NEW a \in Guarded, GuardAccount(a)
  PROVE  GuardInv'
<1> DEFINE A == GetActiveGuardian(a)
<1>1. /\ currentEpoch \in Nat /\ guardians[a] \in SUBSET Guardian
      /\ currentEpoch' = currentEpoch
      /\ isGuarded' = [isGuarded EXCEPT ![a] = TRUE]
      /\ guardians' = [guardians EXCEPT ![a] = A]
      /\ isGuarded \in [Guarded -> BOOLEAN]
      /\ guardians \in [Guarded -> SUBSET Guardian]
      /\ A # {} /\ A \subseteq guardians[a]
  BY GuardiansAssumption
     DEF GuardInv, GuardTypeOK, GuardAccount, CleanOtherThanActive, GetActiveGuardian, ActiveIn
<1>2. ActiveIn(A, currentEpoch) = A
  BY <1>1, ActiveOfActive DEF GetActiveGuardian
<1>3. GuardTypeOK'
  BY <1>1 DEF GuardInv, GuardTypeOK
<1>4. ASSUME NEW b \in Guarded PROVE GuardedWell(b)'
  <2>1. GuardedWell(b)
    BY GuardInvByAccount
  <2>2. CASE b = a
    <3>1. guardians'[a] = A
      BY <1>1
    <3>2. GetActiveGuardian(a)' = A
      BY <1>1, <1>2, <3>1 DEF GetActiveGuardian
    <3> QED BY <1>1, <2>1, <2>2, <3>1, <3>2 DEF GuardedWell
  <2>3. CASE b # a
    <3>1. guardians'[b] = guardians[b] /\ isGuarded'[b] = isGuarded[b]
      BY <1>1, <2>3
    <3> QED BY <1>1, <2>1, <3>1 DEF GuardedWell, GetActiveGuardian
  <2> QED BY <2>2, <2>3
<1> QED BY <1>3, <1>4, GuardInvByAccount DEF GuardInv, GuardedWell

LEMMA UnGuardAccountKeepsInv ==
  ASSUME GuardInv, NEW a \in Guarded, NEW t, UnGuardAccount(a, t)
  PROVE  GuardInv'
BY DEF GuardInv, GuardTypeOK, UnGuardAccount, GetActiveGuardian

LEMMA EpochKeepsInv ==
  ASSUME GuardInv, EpochStarts
  PROVE  GuardInv'
<1>1. /\ currentEpoch \in Nat /\ currentEpoch' = currentEpoch + 1
      /\ isGuarded' = isGuarded /\ guardians' = guardians
      /\ guardians \in [Guarded -> SUBSET Guardian]
  BY GuardiansAssumption DEF GuardInv, GuardTypeOK, EpochStarts
<1>2. GuardTypeOK'
  BY GuardiansAssumption DEF GuardInv, GuardTypeOK, EpochStarts
<1>3. ASSUME NEW b \in Guarded PROVE GuardedWell(b)'
  <2>1. GuardedWell(b)
    BY GuardInvByAccount
  <2>2. isGuarded[b] => GetActiveGuardian(b)' # {}
    BY <1>1, <2>1, ActiveInNextEpoch DEF GuardedWell, GetActiveGuardian
  <2>3. ASSUME isGuarded[b], NEW g \in guardians[b], g.activation > currentEpoch + 1
        PROVE  g.underGuard
    <3>1. g.activation > currentEpoch
      BY <1>1, <2>3 DEF Guardian
    <3> QED BY <1>1, <2>1, <2>3, <3>1, PendingBefore DEF GuardedWell, GetActiveGuardian
  <2>4. ASSUME NEW g \in guardians[b], g.activation > currentEpoch + 1
        PROVE  g.activation = g.setIn + ActivationDelay
    <3>1. g.activation > currentEpoch
      BY <1>1, <2>4 DEF Guardian
    <3> QED BY <2>1, <2>4, <3>1 DEF GuardedWell
  <2> QED BY <1>1, <2>1, <2>2, <2>3, <2>4 DEF GuardedWell
<1> QED BY <1>2, <1>3, GuardInvByAccount DEF GuardInv, GuardedWell

LEMMA GuardStepKeepsInv ==
  ASSUME GuardInv, [GuardNext]_guardVars
  PROVE  GuardInv'
<1>1. CASE GuardNext
  BY <1>1, SetGuardianKeepsInv, GuardAccountKeepsInv, UnGuardAccountKeepsInv,
     EpochKeepsInv
     DEF GuardNext
<1>2. CASE UNCHANGED guardVars
  BY <1>2 DEF GuardInv, GuardTypeOK, GetActiveGuardian
<1> QED BY <1>1, <1>2

(* Who is guarded has one active guardian, and whoever waits to replace it *)
(* was named under the guard and waits for all epochs of the delay         *)
(* (GuardAccount, SetGuardian).                                            *)
THEOREM GuardInvHolds == GuardSpec => []GuardInv
<1>1. GuardInv /\ [GuardNext]_guardVars => GuardInv'
  BY GuardStepKeepsInv
<1> QED BY <1>1, GuardInitInv, PTL DEF GuardSpec

-----------------------------------------------------------------------------
(* Guardians: the active one is kept                                       *)

Kept(a) ==
  isGuarded[a] /\ isGuarded'[a] =>
    \E g \in GetActiveGuardian(a), h \in GetActiveGuardian(a)' :
      \/ g = h
      \/ h \notin guardians[a] /\ h.signedBy = g.address
      \/ h.underGuard /\ h.setIn + ActivationDelay <= currentEpoch'

(* An account that a step leaves as it is keeps its guardian.              *)
LEMMA SameIsKept ==
  ASSUME GuardInv, NEW a \in Guarded,
         guardians'[a] = guardians[a], currentEpoch' = currentEpoch
  PROVE  Kept(a)
BY DEF Kept, GuardInv, GetActiveGuardian

LEMMA SetGuardianKeeps ==
  ASSUME GuardInv, NEW a \in Guarded, NEW c \in Candidates,
         NEW t \in Candidates \cup {Unsigned}, SetGuardian(a, c, t)
  PROVE  Kept(a)
<1> DEFINE new(e) == [address |-> c, activation |-> e, setIn |-> currentEpoch,
                      signedBy |-> t, underGuard |-> isGuarded[a]]
           A == GetActiveGuardian(a)
<1> SUFFICES ASSUME isGuarded[a] PROVE Kept(a)
  BY DEF Kept
<1>1. /\ currentEpoch \in Nat /\ guardians[a] \in SUBSET Guardian
      /\ currentEpoch' = currentEpoch
      /\ guardians \in [Guarded -> SUBSET Guardian]
      /\ isGuarded[a] \in BOOLEAN
  BY GuardiansAssumption DEF GuardInv, GuardTypeOK, SetGuardian
<1>2. A # {}
  BY DEF GuardInv
<1>3. CASE \E g \in A : g.address = t
  <2>1. CASE guardians' = [guardians EXCEPT ![a] = {new(currentEpoch)}]
    <3>1. PICK g \in A : g.address = t
      BY <1>3
    <3>2. new(currentEpoch) \in Guardian
      BY <1>1, GuardiansAssumption DEF GuardInv, GuardTypeOK, Guardian
    <3>3. GetActiveGuardian(a)' = {new(currentEpoch)}
      BY <1>1, <2>1, <3>2, ActiveAtOnce DEF GetActiveGuardian
    <3> DEFINE h == new(currentEpoch)
    <3>4. h.signedBy = g.address /\ h.activation = currentEpoch /\ h \in GetActiveGuardian(a)'
      BY <3>1, <3>3
    <3> HIDE DEF h
    <3>5. CASE h \notin guardians[a]
      BY <3>1, <3>4, <3>5 DEF Kept
    <3>6. CASE h \in guardians[a]
      <4>1. g \in guardians[a] /\ g.activation = currentEpoch
        BY <1>1, <3>1, <3>4, <3>6 DEF GetActiveGuardian, ActiveIn, Guardian
      <4>2. g = h
        BY <3>4, <3>6, <4>1 DEF GuardInv
      <4> QED BY <3>1, <3>4, <4>2 DEF Kept
    <3> QED BY <3>5, <3>6
  <2>2. CASE guardians' # [guardians EXCEPT ![a] = {new(currentEpoch)}]
    <3>1. t = Unsigned /\ t \in Candidates
      BY <1>1, <1>3, <2>2
         DEF SetGuardian, HandlerSets, GetActiveGuardian, ActiveIn, Guardian
    <3> QED BY <3>1, GuardiansAssumption
  <2> QED BY <2>1, <2>2
<1>4. CASE ~ \E g \in A : g.address = t
  <2>1. \/ guardians' = [guardians EXCEPT ![a] = A]
        \/ guardians' = [guardians EXCEPT ![a] = A \cup {new(currentEpoch + ActivationDelay)}]
    BY <1>4 DEF SetGuardian, HandlerSets
  <2>2. /\ new(currentEpoch + ActivationDelay) \in Guardian
        /\ new(currentEpoch + ActivationDelay).activation > currentEpoch
    BY <1>1, GuardiansAssumption DEF GuardInv, GuardTypeOK, Guardian
  <2> DEFINE n == new(currentEpoch + ActivationDelay)
  <2>3. guardians'[a] = A \/ guardians'[a] = A \cup {n}
    BY <1>1, <2>1
  <2> HIDE DEF n
  <2>4. ActiveIn(A, currentEpoch) = A
    BY <1>1, ActiveOfActive DEF GetActiveGuardian
  <2>5. ActiveIn(A \cup {n}, currentEpoch) = A
    BY <1>1, <2>2, ActiveBesidesPending DEF GetActiveGuardian, n
  <2>6. GetActiveGuardian(a)' = A
    BY <1>1, <2>3, <2>4, <2>5 DEF GetActiveGuardian
  <2> QED BY <1>2, <2>6 DEF Kept
<1> QED BY <1>3, <1>4

LEMMA EpochKeeps ==
  ASSUME GuardInv, EpochStarts, NEW a \in Guarded
  PROVE  Kept(a)
<1> SUFFICES ASSUME isGuarded[a] PROVE Kept(a)
  BY DEF Kept
<1>1. /\ currentEpoch \in Nat /\ currentEpoch' = currentEpoch + 1
      /\ guardians' = guardians /\ guardians[a] \in SUBSET Guardian
  BY GuardiansAssumption DEF GuardInv, GuardTypeOK, EpochStarts
<1>2. PICK g \in GetActiveGuardian(a) : TRUE
  BY DEF GuardInv
<1>3. PICK h \in ActiveIn(guardians[a], currentEpoch + 1) :
        h = g \/ (h.activation = currentEpoch + 1 /\ h \notin GetActiveGuardian(a))
  BY <1>1, <1>2, ActiveInNextEpoch DEF GetActiveGuardian
<1>4. h \in GetActiveGuardian(a)'
  BY <1>1, <1>3 DEF GetActiveGuardian
<1>5. h \in guardians[a]
  BY <1>3 DEF ActiveIn
<1>6. h # g => h.underGuard /\ h.setIn + ActivationDelay <= currentEpoch'
  <2> SUFFICES ASSUME h # g
               PROVE  h.underGuard /\ h.setIn + ActivationDelay <= currentEpoch'
    OBVIOUS
  <2>1. h.activation = currentEpoch + 1 /\ h \in guardians[a] \ GetActiveGuardian(a)
    BY <1>3, <1>5
  <2>2. h.activation > currentEpoch
    BY <1>1, <2>1
  <2>3. h.underGuard /\ h.activation = h.setIn + ActivationDelay
    BY <2>1, <2>2 DEF GuardInv
  <2> QED BY <1>1, <2>1, <2>3
<1> QED BY <1>2, <1>4, <1>6 DEF Kept

LEMMA GuardStepKeeps ==
  ASSUME GuardInv, [GuardNext]_guardVars, NEW b \in Guarded
  PROVE  Kept(b)
<1>0. guardians \in [Guarded -> SUBSET Guardian]
  BY DEF GuardInv, GuardTypeOK
<1>1. ASSUME NEW a \in Guarded, NEW c \in Candidates,
             NEW t \in Candidates \cup {Unsigned}, SetGuardian(a, c, t)
      PROVE  Kept(b)
  <2>1. CASE b = a
    BY <1>1, <2>1, SetGuardianKeeps
  <2>2. CASE b # a
    <3>1. guardians'[b] = guardians[b] /\ currentEpoch' = currentEpoch
      BY <1>0, <1>1, <2>2 DEF SetGuardian, HandlerSets
    <3> QED BY <3>1, SameIsKept
  <2> QED BY <2>1, <2>2
<1>2. ASSUME NEW a \in Guarded, GuardAccount(a) PROVE Kept(b)
  <2>1. CASE b = a
    BY <1>2, <2>1 DEF GuardAccount, Kept
  <2>2. CASE b # a
    <3>1. guardians'[b] = guardians[b] /\ currentEpoch' = currentEpoch
      BY <1>0, <1>2, <2>2 DEF GuardAccount, CleanOtherThanActive
    <3> QED BY <3>1, SameIsKept
  <2> QED BY <2>1, <2>2
<1>3. ASSUME NEW a \in Guarded, NEW t, UnGuardAccount(a, t) PROVE Kept(b)
  BY <1>3, SameIsKept DEF UnGuardAccount
<1>4. CASE EpochStarts
  BY <1>4, EpochKeeps
<1>5. CASE UNCHANGED guardVars
  BY <1>5, SameIsKept
<1> QED BY <1>1, <1>2, <1>3, <1>4, <1>5 DEF GuardNext

(* While an account is guarded its active guardian changes only for one    *)
(* that the step sets with its signature, or for one that was named under  *)
(* the guard as many epochs ago as the delay has (SetGuardian,             *)
(* GuardAccount).                                                          *)
THEOREM GuardianKeptHolds == GuardSpec => GuardianKept
<1>1. GuardInv /\ [GuardNext]_guardVars =>
        [\A a \in Guarded :
           isGuarded[a] /\ isGuarded'[a] =>
             \E g \in GetActiveGuardian(a), h \in GetActiveGuardian(a)' :
               \/ g = h
               \/ h \notin guardians[a] /\ h.signedBy = g.address
               \/ h.underGuard /\ h.setIn + ActivationDelay <= currentEpoch']_guardVars
  BY GuardStepKeeps DEF Kept
<1> QED BY <1>1, GuardInvHolds, PTL DEF GuardSpec, GuardianKept

-----------------------------------------------------------------------------
(* Deletion: while nonces are deleted, deletion has an account             *)

IntervalsInv ==
  /\ IntervalsTypeOK
  /\ deletion.pc = "nonce" => {"pc", "account", "nonce"} \subseteq DOMAIN deletion

LEMMA IntervalsInitInv == IntervalsInit => IntervalsInv
BY DEF IntervalsInit, IntervalsInv, IntervalsTypeOK

LEMMA IntervalsStepKeepsInv ==
  ASSUME IntervalsInv, [IntervalsNext]_intervalVars
  PROVE  IntervalsInv'
<1>1. CASE StartDeletion
  BY <1>1 DEF StartDeletion, IntervalsInv, IntervalsTypeOK
<1>2. CASE ReadToken
  <2>1. metadata' \in SUBSET AllMetadata /\ request' = request
    BY <1>2 DEF ReadToken, Fails, IntervalsInv, IntervalsTypeOK
  <2>2. /\ deletion'.pc \in {"interval", "ended"}
        /\ deletion'.pc = "interval" =>
             deletion'.account = deletion.account /\ metadata' = metadata
    BY <1>2 DEF ReadToken, Fails
  <2>3. deletion.account \subseteq metadata
    BY <1>2 DEF ReadToken, IntervalsInv, IntervalsTypeOK
  <2> QED BY <2>1, <2>2, <2>3 DEF IntervalsInv, IntervalsTypeOK
<1>3. CASE ReadInterval
  <2>1. metadata' = metadata /\ request' = request
    BY <1>3 DEF ReadInterval, Fails
  <2>2. /\ deletion'.pc \in {"token", "nonce", "ended"}
        /\ deletion'.pc \in {"token", "nonce"} => deletion'.account = deletion.account
        /\ deletion'.pc = "nonce" => {"pc", "account", "nonce"} \subseteq DOMAIN deletion'
    BY <1>3 DEF ReadInterval, Fails
  <2>3. deletion.account \subseteq metadata
    BY <1>3 DEF ReadInterval, IntervalsInv, IntervalsTypeOK
  <2> QED BY <2>1, <2>2, <2>3 DEF IntervalsInv, IntervalsTypeOK
<1>4. CASE DeleteNonce
  <2>1. /\ metadata' = metadata /\ request' = request
        /\ deletion.pc = "nonce" /\ deletion.account \subseteq metadata
        /\ {"pc", "account", "nonce"} \subseteq DOMAIN deletion
    BY <1>4 DEF DeleteNonce, IntervalsInv, IntervalsTypeOK
  <2>2. CASE MoreNonces(deletion)
    <3>1. /\ deletion'.pc = "nonce" /\ DOMAIN deletion' = DOMAIN deletion
          /\ deletion'.account = deletion.account \ {<<deletion.token, deletion.nonce>>}
      BY <1>4, <2>1, <2>2 DEF DeleteNonce
    <3> QED BY <2>1, <3>1 DEF IntervalsInv, IntervalsTypeOK
  <2>3. CASE ~MoreNonces(deletion)
    <3>1. deletion'.pc = "interval" /\ deletion'.account = deletion.account
      BY <1>4, <2>3 DEF DeleteNonce
    <3> QED BY <2>1, <3>1 DEF IntervalsInv, IntervalsTypeOK
  <2> QED BY <2>2, <2>3
<1>5. CASE AddMissing
  BY <1>5 DEF AddMissing, IntervalsInv, IntervalsTypeOK
<1>6. CASE UNCHANGED intervalVars
  BY <1>6 DEF intervalVars, IntervalsInv, IntervalsTypeOK
<1> QED BY <1>1, <1>2, <1>3, <1>4, <1>5, <1>6 DEF IntervalsNext, DeletionStep

-----------------------------------------------------------------------------
(* Parsing: what is under way is a transfer of tokens                      *)

TransferFunctions == {"DCDTTransfer", "DCDTNFTTransfer", "MultiDCDTNFTTransfer"}

ParsingInv ==
  /\ ParsingTypeOK
  /\ half # "none" => tx.function \in TransferFunctions

LEMMA ExecutionEnds ==
  ASSUME NEW t, t.function \in TransferFunctions
  PROVE  ExecuteOnSender(t).ok \in BOOLEAN /\ ExecuteOnDestination(t).ok \in BOOLEAN
<1>1. Failed.ok \in BOOLEAN
  BY DEF Failed
<1>2. \A to, tokens, name : Transfers(to, tokens, name).ok \in BOOLEAN
  BY DEF Transfers
<1>3. ExecuteDCDTTransfer(t).ok \in BOOLEAN
  BY <1>1, <1>2, Zenon DEF ExecuteDCDTTransfer
<1>4. ExecuteNFTTransferOnSender(t).ok \in BOOLEAN
  BY <1>1, <1>2, Zenon DEF ExecuteNFTTransferOnSender
<1>5. ExecuteNFTTransferOnDestination(t).ok \in BOOLEAN
  BY <1>1, <1>2, Zenon DEF ExecuteNFTTransferOnDestination
<1>6. ExecuteMultiOnSender(t).ok \in BOOLEAN
  BY <1>1, <1>2, Zenon DEF ExecuteMultiOnSender
<1>7. ExecuteMultiOnDestination(t).ok \in BOOLEAN
  BY <1>1, <1>2, Zenon DEF ExecuteMultiOnDestination
<1> QED BY <1>3, <1>4, <1>5, <1>6, <1>7
        DEF ExecuteOnSender, ExecuteOnDestination, TransferFunctions

LEMMA ParsingInitInv == ParsingInit => ParsingInv
BY DEF ParsingInit, ParsingInv, ParsingTypeOK, NoTx, Failed

LEMMA ParsingStepKeepsInv ==
  ASSUME ParsingInv, [ParsingNext]_parsingVars
  PROVE  ParsingInv'
<1>1. CASE SendData
  BY <1>1, ParsingAssumption
     DEF SendData, ParsingInv, ParsingTypeOK, TransferFunctions
<1>2. CASE ExecuteHere
  BY <1>2, ExecutionEnds
     DEF ExecuteHere, ParsingInv, ParsingTypeOK, TransferFunctions
<1>3. CASE ExecuteAndForward
  <2>1. tx.function \in TransferFunctions /\ tx'.function = tx.function
    BY <1>3 DEF ExecuteAndForward, ParsingInv, Message
  <2>2. executed'.ok \in BOOLEAN /\ half' = "destination"
    BY <1>3, <2>1, ExecutionEnds DEF ExecuteAndForward
  <2> QED BY <2>1, <2>2 DEF ParsingInv, ParsingTypeOK, TransferFunctions
<1>4. CASE ExecuteArrived
  BY <1>4, ExecutionEnds
     DEF ExecuteArrived, ParsingInv, ParsingTypeOK, TransferFunctions
<1>5. CASE NextTransaction
  BY <1>5 DEF NextTransaction, ParsingInv, ParsingTypeOK, NoTx, Failed
<1>6. CASE UNCHANGED parsingVars
  BY <1>6 DEF parsingVars, ParsingInv, ParsingTypeOK
<1> QED BY <1>1, <1>2, <1>3, <1>4, <1>5, <1>6 DEF ParsingNext

-----------------------------------------------------------------------------
(* All parts together *)

UpkeepInv ==
  /\ GasInv /\ MigrationInv /\ GuardInv /\ IntervalsInv /\ ParsingInv
  /\ TypeOK /\ ShardInv

upkeepVars ==
  <<part, gasVars, migrationVars, guardVars, intervalVars, parsingVars, creatorVars>>

\* A step of one part is a stuttering step of every other.
LEMMA UpkeepStepOfParts ==
  ASSUME [UpkeepNext]_upkeepVars
  PROVE  /\ [GasNext]_gasVars /\ [MigrationNext]_migrationVars
         /\ [GuardNext]_guardVars /\ [IntervalsNext]_intervalVars
         /\ [ParsingNext]_parsingVars
         /\ [Next]_vars /\ [ShardNext]_shardVars
<1> USE DEF upkeepVars, gasVars, intervalVars, parsingVars, creatorVars
<1>1. CASE GasPart
  BY <1>1 DEF GasPart
<1>2. CASE MigrationPart
  BY <1>2 DEF MigrationPart
<1>3. CASE GuardiansPart
  BY <1>3 DEF GuardiansPart
<1>4. CASE IntervalsPart
  BY <1>4 DEF IntervalsPart
<1>5. CASE ParsingPart
  BY <1>5 DEF ParsingPart
<1>6. CASE CreatorPart
  BY <1>6 DEF CreatorPart
<1>7. CASE CreatorsPart
  BY <1>7 DEF CreatorsPart
<1>8. CASE UNCHANGED upkeepVars
  BY <1>8 DEF vars
<1> QED BY <1>1, <1>2, <1>3, <1>4, <1>5, <1>6, <1>7, <1>8 DEF UpkeepNext

(* UpkeepTypeOKHolds: every part keeps its types, whichever of them steps. *)
THEOREM UpkeepTypeOKHolds == UpkeepSpec => []UpkeepTypeOK
<1>1. UpkeepInit => UpkeepInv
  BY GasInitInv, MigrationInitInv, GuardInitInv, IntervalsInitInv, ParsingInitInv,
     InitType, InitInv
     DEF UpkeepInit, UpkeepInv
<1>2. UpkeepInv /\ [UpkeepNext]_upkeepVars => UpkeepInv'
  BY UpkeepStepOfParts, GasNextKeepsInv, MigrationStepKeepsInv, GuardStepKeepsInv,
     IntervalsStepKeepsInv, ParsingStepKeepsInv, StepType, NextKeepsInv
     DEF UpkeepInv
<1>3. UpkeepInv => UpkeepTypeOK
  BY DEF UpkeepInv, UpkeepTypeOK, GasInv, MigrationInv, GuardInv, IntervalsInv, ParsingInv,
         ShardInv
<1>4. UpkeepSpec => UpkeepInit /\ [][UpkeepNext]_upkeepVars
  BY DEF UpkeepSpec, upkeepVars
<1> QED BY <1>1, <1>2, <1>3, <1>4, PTL
=============================================================================
