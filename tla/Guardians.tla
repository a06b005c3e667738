----------------------------- MODULE Guardians -----------------------------
(***************************************************************************)
(* An account may name a guardian, which is active some epochs later, and  *)
(* guard itself: from then on the node executes its transactions only when *)
(* the active guardian has signed them too, all but SetGuardian, which may *)
(* come without that signature and then waits as many epochs as at first.  *)
(*                                                                         *)
(* The functions SetGuardian, GuardAccount and UnGuardAccount are modelled *)
(* whole.  The guardians of an account and their epochs are kept by the    *)
(* node's GuardedAccountHandler, and the signatures are checked by the     *)
(* node (both external).                                                   *)
(***************************************************************************)
EXTENDS Integers

CONSTANTS
  Guarded,          \* the accounts that use these functions
  Candidates,       \* what may be named as a guardian
  SmartContracts,   \* those that are contracts
  Unsigned,         \* no TxGuardian: the transaction has one signature
  ActivationDelay,  \* external: the epochs until a guardian is active
  MaxEpoch          \* no epoch above this (a bound)

ASSUME GuardiansAssumption ==
  /\ SmartContracts \subseteq Candidates
  /\ Unsigned \notin Candidates
  /\ ActivationDelay \in Nat \ {0} /\ MaxEpoch \in Nat

VARIABLES
  isGuarded,        \* isGuarded[a]: the Guarded bit of the code metadata
  guardians,        \* guardians[a]: the guardians that are set, two at most
  currentEpoch

guardVars == <<isGuarded, guardians, currentEpoch>>

(* A guardian: who, and since when it is active.  History: in which epoch  *)
(* it was set, with whose signature besides the account's own, and whether *)
(* the account was guarded then.                                           *)
Guardian ==
  [address: Candidates, activation: 0..(MaxEpoch + ActivationDelay),
   setIn: 0..MaxEpoch, signedBy: Candidates \cup {Unsigned}, underGuard: BOOLEAN]

GuardInit ==
  /\ isGuarded = [a \in Guarded |-> FALSE]
  /\ guardians = [a \in Guarded |-> {}]
  /\ currentEpoch = 0

-----------------------------------------------------------------------------
(* GuardedAccountHandler (external)                                        *)

ActiveIn(G, e) ==
  {g \in G : g.activation <= e /\ \A h \in G : h.activation <= e => h.activation <= g.activation}

\* GetActiveGuardian: a set with the active guardian, if there is one
GetActiveGuardian(a) == ActiveIn(guardians[a], currentEpoch)

CleanOtherThanActive(a) == guardians' = [guardians EXCEPT ![a] = GetActiveGuardian(a)]

(* SetGuardian of the handler: with the signature of the active guardian   *)
(* the new one replaces all others at once.  Without it, the new one is    *)
(* pending besides the active one; if none is active yet, the pending one  *)
(* is not replaced.                                                        *)
HandlerSets(a, address, txGuardian) ==
  LET new(e) == [address |-> address, activation |-> e, setIn |-> currentEpoch,
                 signedBy |-> txGuardian, underGuard |-> isGuarded[a]]
      active == GetActiveGuardian(a) IN
  \/ /\ txGuardian # Unsigned
     /\ \E g \in active : g.address = txGuardian
     /\ guardians' = [guardians EXCEPT ![a] = {new(currentEpoch)}]
  \/ /\ txGuardian = Unsigned
     /\ guardians[a] = {} \/ active # {}
     /\ guardians' = [guardians EXCEPT ![a] =
          IF \E g \in active : g.address = address
            THEN active
            ELSE active \cup {new(currentEpoch + ActivationDelay)}]

(* The node: a transaction of a guarded account is signed by its active    *)
(* guardian, of another account by no guardian.                            *)
SignedFor(a, txGuardian) ==
  IF isGuarded[a]
    THEN \E g \in GetActiveGuardian(a) : g.address = txGuardian
    ELSE txGuardian = Unsigned

-----------------------------------------------------------------------------
(* The functions.  Their calls come from the account itself, to itself.    *)

\* checkSetGuardianArgs
MayBeGuardian(a, address) ==
  address \notin SmartContracts /\ address # a

SetGuardian(a, address, txGuardian) ==
  /\ SignedFor(a, txGuardian) \/ txGuardian = Unsigned
  /\ MayBeGuardian(a, address)
  /\ HandlerSets(a, address, txGuardian)
  /\ UNCHANGED <<isGuarded, currentEpoch>>

\* A mutant: guardians that are pending stay.
GuardAccountOnly(a) ==
  /\ SignedFor(a, Unsigned)
  /\ GetActiveGuardian(a) # {}
  /\ ~isGuarded[a]
  /\ isGuarded' = [isGuarded EXCEPT ![a] = TRUE]
  /\ UNCHANGED <<guardians, currentEpoch>>

\* The account is guarded by its active guardian, a pending one is dropped.
GuardAccount(a) ==
  /\ SignedFor(a, Unsigned)
  /\ GetActiveGuardian(a) # {}
  /\ ~isGuarded[a]
  /\ isGuarded' = [isGuarded EXCEPT ![a] = TRUE]
  /\ CleanOtherThanActive(a)
  /\ UNCHANGED currentEpoch

UnGuardAccount(a, txGuardian) ==
  /\ SignedFor(a, txGuardian)
  /\ GetActiveGuardian(a) # {}
  /\ isGuarded[a]
  /\ isGuarded' = [isGuarded EXCEPT ![a] = FALSE]
  /\ UNCHANGED <<guardians, currentEpoch>>

EpochStarts ==
  /\ currentEpoch < MaxEpoch
  /\ currentEpoch' = currentEpoch + 1
  /\ UNCHANGED <<isGuarded, guardians>>

GuardNext ==
  \/ \E a \in Guarded :
       \/ \E c \in Candidates, t \in Candidates \cup {Unsigned} : SetGuardian(a, c, t)
       \/ GuardAccount(a)
       \/ \E t \in Candidates : UnGuardAccount(a, t)
  \/ EpochStarts

GuardSpec == GuardInit /\ [][GuardNext]_guardVars
-----------------------------------------------------------------------------
(* Properties *)

GuardTypeOK ==
  /\ isGuarded \in [Guarded -> BOOLEAN]
  /\ guardians \in [Guarded -> SUBSET Guardian]
  /\ currentEpoch \in 0..MaxEpoch

(* GuardianKept: while an account is guarded it has an active guardian,    *)
(* and that one is replaced only by one that was set with its signature,   *)
(* in this very step, or by one that was named under the guard and has     *)
(* waited all epochs of the delay since: nothing that was set before       *)
(* GuardAccount takes effect after it, and the owner's key alone never     *)
(* does at once (CleanOtherThanActive in GuardAccount, the guards of       *)
(* SetGuardian).                                                           *)
GuardianKept ==
  [][\A a \in Guarded :
       isGuarded[a] /\ isGuarded'[a] =>
         \E g \in GetActiveGuardian(a), h \in GetActiveGuardian(a)' :
           \/ g = h
           \/ h \notin guardians[a] /\ h.signedBy = g.address
           \/ h.underGuard /\ h.setIn + ActivationDelay <= currentEpoch']_guardVars

(* The invariant behind it: who is guarded has one active guardian, and    *)
(* all that is pending was set under the guard; what is pending for any    *)
(* account waits for all epochs; of two guardians one is active.           *)
GuardInv ==
  /\ GuardTypeOK
  /\ \A a \in Guarded :
       /\ isGuarded[a] =>
            /\ GetActiveGuardian(a) # {}
            /\ \A g \in guardians[a] \ GetActiveGuardian(a) :
                 g.activation > currentEpoch => g.underGuard
       /\ \A g \in guardians[a] :
            g.activation > currentEpoch => g.activation = g.setIn + ActivationDelay
       /\ \A g, h \in guardians[a] : g.activation = h.activation => g = h
=============================================================================
