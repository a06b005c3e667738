---------------------------- MODULE GasSchedule ----------------------------
(***************************************************************************)
(* The gas schedule reaches the functions of the container one by one      *)
(* (GasScheduleChange), while calls of them are executed.                  *)
(*                                                                         *)
(* Every function has a RWMutex, mutExecution.  Most calls hold it for     *)
(* reading until they return ("shared"), GuardAccount and UnGuardAccount   *)
(* for writing ("exclusive"), MigrateDataTrie only while it copies its     *)
(* costs ("copied").  SetNewGasConfig writes the cost of the function and  *)
(* the base costs with the lock held for writing.                          *)
(*                                                                         *)
(* As in Go, a writer that waits keeps new readers out, and the readers    *)
(* that came meanwhile go before the next writer.                          *)
(***************************************************************************)
EXTENDS Integers, FiniteSets

CONSTANTS
  Functions,      \* the names of the functions that are created
  LockOf,         \* how the calls of a function use mutExecution
  Removable,      \* external: functions that the node may remove
  Threads,        \* what executes calls
  Notifier,       \* what calls GasScheduleChange
  NoOne,          \* not a thread
  NoFunction,     \* not a function
  MaxSchedule     \* how many gas schedules there are (a bound)

ASSUME GasScheduleAssumption ==
  /\ LockOf \in [Functions -> {"shared", "exclusive", "copied"}]
  /\ Removable \in SUBSET Functions
  /\ Notifier \notin Threads
  /\ NoOne \notin Threads \cup {Notifier}
  /\ NoFunction \notin Functions
  /\ MaxSchedule \in Nat \ {0}

VARIABLES
  registered,     \* the keys of the function container
  funcGasCost,    \* funcGasCost[f]: the schedule that the cost of f is from
  gasConfig,      \* gasConfig[f]: the schedule that its base costs are from
  schedule,       \* the creator's gasConfig: the latest schedule
  readers,        \* readers[f]: who holds the lock of f for reading
  writer,         \* writer[f]: who holds it for writing, or waits for readers
  queued,         \* queued[f]: readers that wait for the writer
  call,           \* call[t]: where thread t is in a call
  change,         \* where GasScheduleChange is in its loop
  abandoned       \* history: the latest loop stopped at a removed function

gasVars == <<registered, funcGasCost, gasConfig, schedule, readers, writer,
             queued, call, change, abandoned>>
costVars == <<registered, funcGasCost, gasConfig, schedule, abandoned>>
lockVars == <<readers, writer, queued>>

(* pc: idle, arriving (before the lock is taken), first and second (the    *)
(* two reads), leaving (before the lock is given back), working (after).   *)
(* used: the schedules that the costs of this call are from.               *)
CallStates == {"idle", "arriving", "first", "second", "leaving", "working"}
NoCall == [pc |-> "idle", fn |-> NoFunction, used |-> {}]
CallState ==
  [pc: CallStates, fn: Functions \cup {NoFunction}, used: SUBSET (1..MaxSchedule)]

\* next: the function that is being changed; left: the keys not yet visited
ChangeStates == {"idle", "next", "locking", "first", "second", "unlocking"}

(* CreateBuiltInFunctionContainer: every function is registered, with the  *)
(* costs of the schedule that the creator was made with.                   *)
GasInit ==
  /\ registered = Functions
  /\ funcGasCost = [f \in Functions |-> 1]
  /\ gasConfig = [f \in Functions |-> 1]
  /\ schedule = 1
  /\ readers = [f \in Functions |-> {}]
  /\ writer = [f \in Functions |-> NoOne]
  /\ queued = [f \in Functions |-> {}]
  /\ call = [t \in Threads |-> NoCall]
  /\ change = [pc |-> "idle", fn |-> NoFunction, left |-> {}]
  /\ abandoned = FALSE

-----------------------------------------------------------------------------
(* sync.RWMutex (external)                                                 *)

\* A mutant: readers do not wait for a writer that waits.
RLockFirst(t, f) ==
  /\ IF writer[f] = NoOne \/ readers[f] # {}
       THEN readers' = [readers EXCEPT ![f] = @ \cup {t}] /\ UNCHANGED queued
       ELSE queued' = [queued EXCEPT ![f] = @ \cup {t}] /\ UNCHANGED readers
  /\ UNCHANGED writer

RLock(t, f) ==
  /\ IF writer[f] = NoOne
       THEN readers' = [readers EXCEPT ![f] = @ \cup {t}] /\ UNCHANGED queued
       ELSE queued' = [queued EXCEPT ![f] = @ \cup {t}] /\ UNCHANGED readers
  /\ UNCHANGED writer

RUnlock(t, f) ==
  /\ readers' = [readers EXCEPT ![f] = @ \ {t}]
  /\ UNCHANGED <<writer, queued>>

Lock(p, f) ==
  /\ writer[f] = NoOne
  /\ writer' = [writer EXCEPT ![f] = p]
  /\ UNCHANGED <<readers, queued>>

\* The readers that were there when the writer came have left.
HasLock(p, f) == writer[f] = p /\ readers[f] = {}

Unlock(f) ==
  /\ writer' = [writer EXCEPT ![f] = NoOne]
  /\ readers' = [readers EXCEPT ![f] = queued[f]]
  /\ queued' = [queued EXCEPT ![f] = {}]

-----------------------------------------------------------------------------
(* A call: the node gets the function from the container and executes it.  *)

At(t, pc) == call[t].pc = pc
Goes(t, pc) == call' = [call EXCEPT ![t].pc = pc]

Reads(t, pc, cost) ==
  call' = [call EXCEPT ![t].pc = pc, ![t].used = @ \cup {cost}]

Call(t, f) ==
  /\ At(t, "idle")
  /\ f \in registered
  /\ call' = [call EXCEPT ![t] = [pc |-> "arriving", fn |-> f, used |-> {}]]
  /\ UNCHANGED <<costVars, lockVars, change>>

TakeLock(t) ==
  LET f == call[t].fn IN
  /\ At(t, "arriving")
  /\ Goes(t, "first")
  /\ IF LockOf[f] = "exclusive" THEN Lock(t, f) ELSE RLock(t, f)
  /\ UNCHANGED <<costVars, change>>

MayRead(t) ==
  IF LockOf[call[t].fn] = "exclusive"
    THEN HasLock(t, call[t].fn)
    ELSE t \in readers[call[t].fn]

\* A guardian function has one cost, the others go on to the base costs.
ReadFuncGasCost(t) ==
  LET f == call[t].fn IN
  /\ At(t, "first") /\ MayRead(t)
  /\ Reads(t, IF LockOf[f] = "exclusive" THEN "leaving" ELSE "second", funcGasCost[f])
  /\ UNCHANGED <<costVars, lockVars, change>>

ReadGasConfig(t) ==
  /\ At(t, "second")
  /\ Reads(t, "leaving", gasConfig[call[t].fn])
  /\ UNCHANGED <<costVars, lockVars, change>>

\* A call that has copied its costs goes on without the lock.
GiveLockBack(t) ==
  LET f == call[t].fn IN
  /\ At(t, "leaving")
  /\ IF LockOf[f] = "exclusive" THEN Unlock(f) ELSE RUnlock(t, f)
  /\ IF LockOf[f] = "copied"
       THEN Goes(t, "working")
       ELSE call' = [call EXCEPT ![t] = NoCall]
  /\ UNCHANGED <<costVars, change>>

EndCall(t) ==
  /\ At(t, "working")
  /\ call' = [call EXCEPT ![t] = NoCall]
  /\ UNCHANGED <<costVars, lockVars, change>>

CallStep(t) ==
  \/ TakeLock(t) \/ ReadFuncGasCost(t) \/ ReadGasConfig(t)
  \/ GiveLockBack(t) \/ EndCall(t)

-----------------------------------------------------------------------------
(* GasScheduleChange.  External: the node's epoch notifier calls it again  *)
(* only after it has returned.  A schedule that cannot be read changes     *)
(* nothing (createGasConfig), and is no step here.                         *)

GasScheduleChange ==
  /\ change.pc = "idle"
  /\ schedule < MaxSchedule
  /\ schedule' = schedule + 1
  /\ change' = [change EXCEPT !.pc = "next", !.left = registered]
  /\ abandoned' = FALSE
  /\ UNCHANGED <<registered, funcGasCost, gasConfig, lockVars, call>>

\* The order of the keys is not defined.
NextFunction(f) ==
  /\ change.pc = "next" /\ f \in change.left
  /\ f \in registered
  /\ change' = [change EXCEPT !.pc = "locking", !.fn = f, !.left = @ \ {f}]
  /\ UNCHANGED <<costVars, lockVars, call>>

\* Get does not find a function that was removed, and the loop returns.
StopAtRemoved(f) ==
  /\ change.pc = "next" /\ f \in change.left
  /\ f \notin registered
  /\ change' = [change EXCEPT !.pc = "idle", !.left = {}]
  /\ abandoned' = TRUE
  /\ UNCHANGED <<registered, funcGasCost, gasConfig, schedule, lockVars, call>>

EndOfLoop ==
  /\ change.pc = "next" /\ change.left = {}
  /\ change' = [change EXCEPT !.pc = "idle"]
  /\ UNCHANGED <<costVars, lockVars, call>>

\* SetNewGasConfig of one function
LockForChange ==
  /\ change.pc = "locking"
  /\ Lock(Notifier, change.fn)
  /\ change' = [change EXCEPT !.pc = "first"]
  /\ UNCHANGED <<costVars, call>>

\* A mutant: the costs are written without waiting for the readers.
MayWriteAtOnce == writer[change.fn] = Notifier

MayWrite == HasLock(Notifier, change.fn)

WriteFuncGasCost ==
  /\ change.pc = "first" /\ MayWrite
  /\ funcGasCost' = [funcGasCost EXCEPT ![change.fn] = schedule]
  /\ change' = [change EXCEPT !.pc = "second"]
  /\ UNCHANGED <<registered, gasConfig, schedule, abandoned, lockVars, call>>

WriteGasConfig ==
  /\ change.pc = "second"
  /\ gasConfig' = [gasConfig EXCEPT ![change.fn] = schedule]
  /\ change' = [change EXCEPT !.pc = "unlocking"]
  /\ UNCHANGED <<registered, funcGasCost, schedule, abandoned, lockVars, call>>

UnlockAfterChange ==
  /\ change.pc = "unlocking"
  /\ Unlock(change.fn)
  /\ change' = [change EXCEPT !.pc = "next", !.fn = NoFunction]
  /\ UNCHANGED <<costVars, call>>

ChangeStep ==
  \/ \E f \in change.left : NextFunction(f) \/ StopAtRemoved(f)
  \/ EndOfLoop
  \/ WriteFuncGasCost \/ WriteGasConfig \/ UnlockAfterChange

\* Remove of the container
RemoveFunction(f) ==
  /\ f \in registered \cap Removable
  /\ registered' = registered \ {f}
  /\ UNCHANGED <<funcGasCost, gasConfig, schedule, abandoned, lockVars, call, change>>

GasNext ==
  \/ \E t \in Threads : CallStep(t) \/ \E f \in Functions : Call(t, f)
  \/ GasScheduleChange \/ LockForChange \/ ChangeStep
  \/ \E f \in Functions : RemoveFunction(f)

GasSpec == GasInit /\ [][GasNext]_gasVars

(* The Go scheduler runs every goroutine that can run, and a Mutex that is *)
(* contended hands itself to the one that has waited longest.              *)
GasFairness ==
  /\ \A t \in Threads : WF_gasVars(CallStep(t))
  /\ WF_gasVars(ChangeStep)
  /\ SF_gasVars(LockForChange)
-----------------------------------------------------------------------------
(* Properties *)

GasTypeOK ==
  /\ registered \in SUBSET Functions
  /\ funcGasCost \in [Functions -> 1..MaxSchedule]
  /\ gasConfig \in [Functions -> 1..MaxSchedule]
  /\ schedule \in 1..MaxSchedule
  /\ readers \in [Functions -> SUBSET Threads]
  /\ writer \in [Functions -> Threads \cup {Notifier, NoOne}]
  /\ queued \in [Functions -> SUBSET Threads]
  /\ call \in [Threads -> CallState]
  /\ change \in [pc: ChangeStates, fn: Functions \cup {NoFunction},
                 left: SUBSET Functions]
  /\ abandoned \in BOOLEAN

(* NoTornCall: the costs that one call is charged with are all from one    *)
(* schedule, whenever the schedule changes (mutExecution around the reads  *)
(* of ProcessBuiltinFunction and the writes of SetNewGasConfig).           *)
NoTornCall == \A t \in Threads : \A m, n \in call[t].used : m = n

(* ScheduleReachesAll: every change reaches every function that is still   *)
(* in the container, however many calls of it come, unless the loop met a  *)
(* function that was removed meanwhile (GasScheduleChange returns there).  *)
ScheduleReachesAll ==
  \A f \in Functions, n \in 1..MaxSchedule :
    schedule >= n ~>
      \/ funcGasCost[f] >= n /\ gasConfig[f] >= n
      \/ f \notin registered
      \/ abandoned

(* The invariant behind NoTornCall: who reads or writes the costs has the  *)
(* lock, and the two costs of a function differ only between two writes.   *)
CallInv(t) ==
  LET c == call[t]
      exclusive == LockOf[c.fn] = "exclusive" IN
  /\ c.pc # "idle" => c.fn \in Functions
  /\ c.pc \in {"idle", "arriving", "first"} => c.used = {}
  /\ c.pc = "second" => ~exclusive /\ c.used = {funcGasCost[c.fn]}
  /\ c.pc \in {"second", "leaving"} /\ ~exclusive => t \in readers[c.fn]
  /\ c.pc \in {"first", "leaving"} /\ exclusive => writer[c.fn] = t
  /\ c.pc = "leaving" /\ exclusive => readers[c.fn] = {}

ChangeInv ==
  /\ change.pc \notin {"idle", "next"} => change.fn \in Functions
  /\ change.pc \in {"first", "second", "unlocking"} => writer[change.fn] = Notifier
  /\ change.pc \in {"second", "unlocking"} => readers[change.fn] = {}
  /\ change.pc = "second" => funcGasCost[change.fn] = schedule

CostInv ==
  \A f \in Functions :
    funcGasCost[f] = gasConfig[f] \/ (change.pc = "second" /\ change.fn = f)

GasInv ==
  /\ GasTypeOK
  /\ NoTornCall
  /\ \A t \in Threads : CallInv(t)
  /\ ChangeInv
  /\ CostInv
=============================================================================
