---------------------------- MODULE PayableCheck ----------------------------
(***************************************************************************)
(* The checks of builtInFunctions/payable.go that every token transfer     *)
(* makes on its destination shard: may this account be credited, and does  *)
(* the credit continue as a call of the destination contract?              *)
(*                                                                         *)
(* A transfer is a record [from, to, call, callType, retErr, ...]:         *)
(*   call      the argument after the token arguments of the transfer:     *)
(*             missing ("none"), present but empty ("empty"), or the name  *)
(*             of a function ("fn");                                       *)
(*   callType  vmInput.CallType;                                           *)
(*   retErr    vmInput.ReturnCallAfterError.                               *)
(* An epoch flag is the name of the flag, and active is the set of the     *)
(* flags that IsFlagEnabled reports in the current epoch.                  *)
(***************************************************************************)

CONSTANTS
  Contracts,    \* the smart contract addresses (IsSmartContractAddress)
  NonPayable,   \* the contracts the node's PayableHandler answers FALSE for
  SystemSC      \* core.DCDTSCAddress, the token manager on the metachain

ASSUME PayableAssumption ==
  /\ NonPayable \subseteq Contracts
  /\ SystemSC \notin Contracts

Call == {"none", "empty", "fn"}
CallType == {"direct", "async", "callback", "execute"}

FlagFixAsync == "FixAsyncCallbackCheckFlag"
FlagCheckFunctionArgument == "CheckFunctionArgumentFlag"

\* The transfer has an argument that names a function to call.
HasFunctionArgument(active, m) ==
  \/ m.call = "fn"
  \/ m.call = "empty" /\ FlagCheckFunctionArgument \notin active

\* The call type that is exempt from the check changed with the flag.
ExemptCallTypes(active) ==
  {"execute", IF FlagFixAsync \in active THEN "callback" ELSE "async"}

\* A mutant: the return flag is no longer looked at.
MustVerifyPayableOnReturn(active, m) ==
  /\ m.callType \notin ExemptCallTypes(active)
  /\ m.from # SystemSC
  /\ ~HasFunctionArgument(active, m)

MustVerifyPayable(active, m) ==
  /\ ~(FlagFixAsync \in active /\ m.retErr)
  /\ m.callType \notin ExemptCallTypes(active)
  /\ m.from # SystemSC
  /\ ~HasFunctionArgument(active, m)

CheckPayable(active, m) ==
  MustVerifyPayable(active, m) => m.to \notin NonPayable

DetermineIsSCCallAfter(active, m) ==
  /\ HasFunctionArgument(active, m)
  /\ m.retErr => m.callType = "callback"
  /\ m.to \in Contracts
=============================================================================
