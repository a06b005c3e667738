--------------------------- MODULE NftCreateRole ---------------------------
(***************************************************************************)
(* The nonces of one NFT collection and the hand-over of its create role.  *)
(*                                                                         *)
(* The latest nonce is kept on the account that holds the create role      *)
(* (DCDTNFTCreate increments it).  DCDTNFTCreateRoleTransfer moves both in *)
(* two calls: one on the current owner's shard, asked for by the system    *)
(* contract, and one on the next owner's, asked for by the message the     *)
(* first call emits.  That message is emitted even when the next owner is  *)
(* in the same shard and was changed directly.                             *)
(*                                                                         *)
(* A next owner in the same shard is loaded a second time, written and     *)
(* saved; the current owner is saved after it, by the node.  If the two    *)
(* are one account, what was written to the second copy is overwritten:    *)
(* the role is lost and the numbering starts anew.                         *)
(***************************************************************************)
EXTENDS Integers, FiniteSets

CONSTANTS
  Accounts,
  ShardOf,    \* the shard of an account
  Nobody,     \* not an account
  MaxNonce,   \* no nonce above this is created (a bound: the code has 2^64)
  MaxInFlight, \* no transfer starts with more hand-overs in flight (a bound)
  MaxLosses,  \* no account is named its own successor more often (a bound)
  SenderFromOutput \* external: is the caller of the message the SenderAddress
                   \* of the output transfer, or the account that emitted it?

ASSUME RoleAssumption ==
  /\ Nobody \notin Accounts
  /\ MaxNonce \in Nat /\ MaxInFlight \in Nat /\ MaxLosses \in Nat
  /\ SenderFromOutput \in BOOLEAN

VARIABLES
  latest,     \* latest[a]: the nonce stored under the nonce key of account a
  hasRole,    \* hasRole[a]: NFTCreate is in the list of roles of account a
  owner,      \* external: who has the role in the system contract's register
  changes,    \* calls of the system contract on their way to current owners
  handovers,  \* messages on their way from current to next owners: equal
              \* ones are in one shard and refused, so a set is enough
  copies,     \* history: copies[n] is how often nonce n was created
  losses      \* history: how often an account was its own next owner

vars == <<latest, hasRole, owner, changes, handovers, copies, losses>>

SameShard(a, b) == ShardOf[a] = ShardOf[b]

Change == [owner: Accounts, next: Accounts]
Handover == [from: Accounts, to: Accounts, nonce: 0..MaxNonce]

Crossing == {h \in handovers : ~SameShard(h.from, h.to)}

Init ==
  /\ latest = [a \in Accounts |-> 0]
  /\ hasRole = [a \in Accounts |-> FALSE]
  /\ owner = Nobody
  /\ changes = {}
  /\ handovers = {}
  /\ copies = [n \in 1..MaxNonce |-> 0]
  /\ losses = 0

-----------------------------------------------------------------------------
\* A mutant: the latest nonce is not saved.
CreateWithoutSave(a) ==
  LET next == latest[a] + 1 IN
  /\ hasRole[a]
  /\ next <= MaxNonce
  /\ copies' = [copies EXCEPT ![next] = @ + 1]
  /\ UNCHANGED <<latest, hasRole, owner, changes, handovers, losses>>

\* DCDTNFTCreate with a as the account with roles
Create(a) ==
  LET next == latest[a] + 1 IN
  /\ hasRole[a]
  /\ next <= MaxNonce
  /\ copies' = [copies EXCEPT ![next] = @ + 1]
  /\ latest' = [latest EXCEPT ![a] = next]
  /\ UNCHANGED <<hasRole, owner, changes, handovers, losses>>

(* DCDTSetRole: the system contract grants the role of a collection that   *)
(* has no creator yet (its register is external).                          *)
SetRole(a) ==
  /\ owner = Nobody
  /\ owner' = a
  /\ hasRole' = [hasRole EXCEPT ![a] = TRUE]
  /\ UNCHANGED <<latest, changes, handovers, copies, losses>>

(* The system contract moves the role in its register and calls the        *)
(* current owner.  It waits until the hand-over before has arrived         *)
(* (external: the library cannot tell the two apart).                      *)
RequestTransfer(next) ==
  /\ owner # Nobody
  /\ changes = {} /\ Crossing = {}
  /\ Cardinality(handovers) <= MaxInFlight
  /\ next = owner => losses < MaxLosses
  /\ changes' = {[owner |-> owner, next |-> next]}
  /\ owner' = next
  /\ UNCHANGED <<latest, hasRole, handovers, copies, losses>>

(* What is written to the next owner in this call, and still there when    *)
(* the node has saved the current owner                                    *)
Reached(c) == SameShard(c.owner, c.next) /\ c.owner # c.next

\* A mutant: the current owner keeps the role.
ChangeAtCurrentOwnerKeepsRole(c) ==
  LET h == [from |-> c.owner, to |-> c.next, nonce |-> latest[c.owner]]
      cleared == [latest EXCEPT ![c.owner] = 0] IN
  /\ c \in changes
  /\ changes' = changes \ {c}
  /\ handovers' = handovers \cup {h}
  /\ IF Reached(c)
       THEN /\ latest' = [cleared EXCEPT ![c.next] = h.nonce]
            /\ hasRole' = [hasRole EXCEPT ![c.next] = TRUE]
       ELSE latest' = cleared /\ UNCHANGED hasRole
  /\ losses' = IF c.owner = c.next THEN losses + 1 ELSE losses
  /\ UNCHANGED <<owner, copies>>

(* executeTransferNFTCreateChangeAtCurrentOwner: the nonce is read, set to *)
(* zero, the role removed; a next owner in the same shard is changed here. *)
ChangeAtCurrentOwner(c) ==
  LET h == [from |-> c.owner, to |-> c.next, nonce |-> latest[c.owner]]
      cleared == [latest EXCEPT ![c.owner] = 0]
      removed == [hasRole EXCEPT ![c.owner] = FALSE] IN
  /\ c \in changes
  /\ changes' = changes \ {c}
  /\ handovers' = handovers \cup {h}
  /\ IF Reached(c)
       THEN /\ latest' = [cleared EXCEPT ![c.next] = h.nonce]
            /\ hasRole' = [removed EXCEPT ![c.next] = TRUE]
       ELSE latest' = cleared /\ hasRole' = removed
  /\ losses' = IF c.owner = c.next THEN losses + 1 ELSE losses
  /\ UNCHANGED <<owner, copies>>

\* A mutant: the call does not ask for a nil sender account.
AcceptsAnySender(h) == ~SenderFromOutput

(* The output transfer names the caller of the first call, which is the    *)
(* system contract, as its SenderAddress.  A message from the system       *)
(* contract is taken for its call to a current owner, and refused: the     *)
(* nonce does not have the length of an address.  A message from the old   *)
(* owner is refused if this account is in the shard (acntSnd is not nil).  *)
AcceptsHandover(h) == ~SenderFromOutput /\ ~SameShard(h.from, h.to)

\* A mutant: the next owner gets the nonce without the role.
ChangeAtNextOwnerForgetsRole(h) ==
  /\ h \in handovers
  /\ handovers' = handovers \ {h}
  /\ latest' = [latest EXCEPT ![h.to] = IF AcceptsHandover(h) THEN h.nonce ELSE @]
  /\ UNCHANGED <<hasRole, owner, changes, copies, losses>>

\* executeTransferNFTCreateChangeAtNextOwner
ChangeAtNextOwner(h) ==
  /\ h \in handovers
  /\ handovers' = handovers \ {h}
  /\ IF AcceptsHandover(h)
       THEN /\ latest' = [latest EXCEPT ![h.to] = h.nonce]
            /\ hasRole' = [hasRole EXCEPT ![h.to] = TRUE]
       ELSE UNCHANGED <<latest, hasRole>>
  /\ UNCHANGED <<owner, changes, copies, losses>>

Next ==
  \/ \E a \in Accounts : Create(a) \/ SetRole(a) \/ RequestTransfer(a)
  \/ \E c \in changes : ChangeAtCurrentOwner(c)
  \/ \E h \in handovers : ChangeAtNextOwner(h)

Spec == Init /\ [][Next]_vars

\* What is in flight is executed (external: the node delivers messages).
Fairness ==
  /\ WF_vars(\E c \in changes : ChangeAtCurrentOwner(c))
  /\ \A h \in Handover : WF_vars(ChangeAtNextOwner(h))

FairSpec == Spec /\ Fairness

-----------------------------------------------------------------------------
(* Properties *)

TypeOK ==
  /\ latest \in [Accounts -> 0..MaxNonce]
  /\ hasRole \in [Accounts -> BOOLEAN]
  /\ owner \in Accounts \cup {Nobody}
  /\ changes \in SUBSET Change
  /\ handovers \in SUBSET Handover
  /\ copies \in [1..MaxNonce -> Nat]
  /\ losses \in Nat

(* NonceUnique: no nonce of the collection is created twice, wherever the  *)
(* role is and whichever of the messages of earlier hand-overs are still   *)
(* on their way (getLatestNonce and saveLatestNonce on two shards), and    *)
(* once more at most for every time that the numbering was lost because an *)
(* account was handed the role that it had.                                *)
NonceUnique == \A n \in 1..MaxNonce : copies[n] <= 1 + losses

(* OneCreator: at most one account can create, and while a hand-over is    *)
(* between two shards none can.                                            *)
OneCreator ==
  /\ \A a, b \in Accounts : hasRole[a] /\ hasRole[b] => a = b
  /\ Crossing # {} => \A a \in Accounts : ~hasRole[a]

(* RoleArrives: when the system contract moves the role from one account   *)
(* to another, that one does get it: it is never lost between the two      *)
(* calls.  (From an account to itself it is lost, see Reached.)            *)
RoleArrives ==
  \A c \in Change : c.owner # c.next => (c \in changes ~> hasRole[c.next])

(* The numbering has reached n: every time it was lost and started anew,   *)
(* each nonce up to there was created once at most.                        *)
Numbered(n) ==
  \A k \in 1..MaxNonce : copies[k] <= IF k <= n THEN losses + 1 ELSE losses

(* Account a has the role, or lost it by a hand-over to itself.            *)
Held(a) ==
  /\ hasRole[a] \/ (losses > 0 /\ latest[a] = 0)
  /\ \A b \in Accounts \ {a} : ~hasRole[b]
  /\ Crossing = {}
  /\ Numbered(latest[a])
  /\ \/ changes = {} /\ owner = a
     \/ changes = {[owner |-> a, next |-> owner]} /\ owner \in Accounts

HandedOver(h) ==
  /\ \A a \in Accounts : ~hasRole[a]
  /\ Crossing = {h}
  /\ Numbered(h.nonce)
  /\ changes = {}
  /\ owner = h.to

NotGranted ==
  /\ \A a \in Accounts : ~hasRole[a] /\ latest[a] = 0
  /\ owner = Nobody
  /\ changes = {} /\ handovers = {}
  /\ losses = 0
  /\ Numbered(0)

(* RoleInv: the invariant behind both.  The numbering of the collection is *)
(* in one place: on the account that has the role, or had it and was       *)
(* handed it again, or in the hand-over that crosses the shards.           *)
RoleInv ==
  \/ NotGranted
  \/ \E a \in Accounts : Held(a)
  \/ \E h \in handovers : HandedOver(h)
=============================================================================
