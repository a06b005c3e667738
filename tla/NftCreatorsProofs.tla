------------------------- MODULE NftCreatorsProofs -------------------------
(***************************************************************************)
(* How often a nonce can be created, for any accounts, shards and bounds:  *)
(* by the one creator of a collection (NftCreateRole), and by the creators *)
(* that it has on several shards (ShardCreators), for any number of them,  *)
(* any width of a word and any number of last bytes.                       *)
(***************************************************************************)
EXTENDS NftCreateRole, ShardCreators, TLAPS

-----------------------------------------------------------------------------
(* One creator.  RoleInv says where the numbering of the collection is.    *)
(* It is inductive together with TypeOK, as long as the message of a       *)
(* hand-over is executed with the old owner as its caller                  *)
(* (~SenderFromOutput).                                                    *)

USE RoleAssumption

\* The initial state is typed.
LEMMA InitType == Init => TypeOK
  BY DEF Init, TypeOK

\* A step of the specification keeps the types.
LEMMA StepType == TypeOK /\ [Next]_vars => TypeOK'
<1> SUFFICES ASSUME TypeOK, [Next]_vars PROVE TypeOK'
  OBVIOUS
<1> USE DEF TypeOK
<1>1. ASSUME NEW a \in Accounts, Create(a) PROVE TypeOK'
  BY <1>1 DEF Create
<1>2. ASSUME NEW a \in Accounts, SetRole(a) PROVE TypeOK'
  BY <1>2 DEF SetRole
<1>3. ASSUME NEW a \in Accounts, RequestTransfer(a) PROVE TypeOK'
  <2>1. owner \in Accounts
    BY <1>3 DEF RequestTransfer
  <2>2. changes' \in SUBSET Change
    BY <1>3, <2>1 DEF RequestTransfer, Change
  <2> QED BY <1>3, <2>2 DEF RequestTransfer
<1>4. ASSUME NEW c \in changes, ChangeAtCurrentOwner(c) PROVE TypeOK'
  <2>1. c.owner \in Accounts /\ c.next \in Accounts
    BY DEF Change
  <2> DEFINE h == [from |-> c.owner, to |-> c.next, nonce |-> latest[c.owner]]
  <2>2. h \in Handover
    BY <2>1 DEF Handover
  <2>3. handovers' \in SUBSET Handover /\ changes' \in SUBSET Change
    BY <1>4, <2>2 DEF ChangeAtCurrentOwner
  <2>4. /\ latest' \in [Accounts -> 0..MaxNonce]
        /\ hasRole' \in [Accounts -> BOOLEAN]
    <3> DEFINE cleared == [latest EXCEPT ![c.owner] = 0]
               removed == [hasRole EXCEPT ![c.owner] = FALSE]
    <3>1. cleared \in [Accounts -> 0..MaxNonce] /\ latest[c.owner] \in 0..MaxNonce
      BY <2>1
    <3>2. removed \in [Accounts -> BOOLEAN]
      BY <2>1
    <3>3. \/ latest' = cleared
          \/ latest' = [cleared EXCEPT ![c.next] = latest[c.owner]]
      BY <1>4 DEF ChangeAtCurrentOwner
    <3>4. hasRole' = removed \/ hasRole' = [removed EXCEPT ![c.next] = TRUE]
      BY <1>4 DEF ChangeAtCurrentOwner
    <3> HIDE DEF cleared, removed
    <3> QED BY <2>1, <3>1, <3>2, <3>3, <3>4
  <2> QED BY <1>4, <2>3, <2>4 DEF ChangeAtCurrentOwner
<1>5. ASSUME NEW h \in handovers, ChangeAtNextOwner(h) PROVE TypeOK'
  BY <1>5 DEF ChangeAtNextOwner, Handover
<1>6. CASE UNCHANGED vars
  BY <1>6 DEF vars
<1> QED BY <1>1, <1>2, <1>3, <1>4, <1>5, <1>6 DEF Next

(* TypeCorrect: on every account the latest nonce stays in its range, and  *)
(* every call and message in flight is between accounts.                   *)
THEOREM TypeCorrect == Spec => []TypeOK
  BY InitType, StepType, PTL DEF Spec

-----------------------------------------------------------------------------
LEMMA InitRole == Init => RoleInv
  BY DEF Init, RoleInv, NotGranted, Numbered

\* DCDTNFTCreate: only the account that has the numbering creates.
LEMMA CreateRole ==
  ASSUME TypeOK, RoleInv, NEW a \in Accounts, Create(a) PROVE RoleInv'
<1>1. Held(a)
  <2>1. hasRole[a]
    BY DEF Create
  <2>2. ~NotGranted /\ \A h \in handovers : ~HandedOver(h)
    BY <2>1 DEF NotGranted, HandedOver
  <2>3. PICK b \in Accounts : Held(b)
    BY <2>2 DEF RoleInv
  <2> QED BY <2>1, <2>3 DEF Held
<1>2. latest[a] \in Nat /\ latest'[a] = latest[a] + 1 /\ latest[a] + 1 <= MaxNonce
  BY DEF TypeOK, Create
<1>3. copies' = [copies EXCEPT ![latest[a] + 1] = @ + 1]
  BY DEF Create
<1>4. Numbered(latest[a])'
  <2>1. /\ losses' = losses /\ losses \in Nat
        /\ copies \in [1..MaxNonce -> Nat]
    BY DEF Create, TypeOK
  <2>2. ASSUME NEW k \in 1..MaxNonce
        PROVE  copies'[k] <= IF k <= latest'[a] THEN losses + 1 ELSE losses
    <3>1. copies[k] <= IF k <= latest[a] THEN losses + 1 ELSE losses
      BY <1>1 DEF Held, Numbered
    <3>2. copies'[k] = IF k = latest[a] + 1 THEN copies[k] + 1 ELSE copies[k]
      BY <1>2, <1>3, <2>1
    <3> QED BY <1>2, <2>1, <3>1, <3>2
  <2> QED BY <2>1, <2>2 DEF Numbered
<1>5. Held(a)'
  BY <1>1, <1>4 DEF Held, Create, Crossing
<1> QED BY <1>5 DEF RoleInv

\* DCDTSetRole: only a collection without a creator is given one.
LEMMA SetRoleRole ==
  ASSUME TypeOK, RoleInv, NEW a \in Accounts, SetRole(a) PROVE RoleInv'
<1>1. NotGranted
  <2>1. \A b \in Accounts : ~Held(b)
    BY DEF SetRole, Held
  <2>2. \A h \in handovers : ~HandedOver(h)
    BY DEF SetRole, HandedOver, TypeOK, Handover
  <2> QED BY <2>1, <2>2 DEF RoleInv
<1>2. Held(a)'
  <2>1. hasRole'[a] /\ \A b \in Accounts \ {a} : ~hasRole'[b]
    BY <1>1 DEF NotGranted, SetRole, TypeOK
  <2>2. Numbered(latest[a])'
    BY <1>1 DEF NotGranted, SetRole, TypeOK, Numbered
  <2> QED BY <1>1, <2>1, <2>2 DEF NotGranted, SetRole, Held, Crossing
<1> QED BY <1>2 DEF RoleInv

\* The system contract asks for a transfer only when one account has the role.
LEMMA RequestTransferRole ==
  ASSUME TypeOK, RoleInv, NEW n \in Accounts, RequestTransfer(n) PROVE RoleInv'
<1>1. ~NotGranted
  BY DEF RequestTransfer, NotGranted
<1>2. \A h \in handovers : ~HandedOver(h)
  BY DEF RequestTransfer, HandedOver
<1>3. PICK a \in Accounts : Held(a)
  BY <1>1, <1>2 DEF RoleInv
<1>4. owner = a
  BY <1>3 DEF Held, RequestTransfer
<1>5. changes' = {[owner |-> a, next |-> owner']} /\ owner' \in Accounts
  BY <1>4 DEF RequestTransfer
<1>6. Numbered(latest[a])'
  BY <1>3 DEF Held, RequestTransfer, Numbered
<1>7. Held(a)'
  BY <1>3, <1>5, <1>6 DEF Held, RequestTransfer, Crossing
<1> QED BY <1>7 DEF RoleInv

\* The current owner is changed: the numbering moves, within the shard or out.
LEMMA CurrentOwnerRole ==
  ASSUME TypeOK, RoleInv, NEW c \in changes, ChangeAtCurrentOwner(c)
  PROVE  RoleInv'
<1>1. PICK a \in Accounts : Held(a)
  BY DEF RoleInv, NotGranted, HandedOver
<1>2. /\ c = [owner |-> a, next |-> owner] /\ owner \in Accounts
      /\ changes = {c}
  BY <1>1 DEF Held
<1>h. PICK h : h = [from |-> a, to |-> owner, nonce |-> latest[a]]
  OBVIOUS
<1>3. /\ changes' = {} /\ owner' = owner /\ copies' = copies
      /\ handovers' = handovers \cup {h}
  BY <1>h, <1>2 DEF ChangeAtCurrentOwner
<1>4. Crossing' = IF SameShard(a, owner) THEN {} ELSE {h}
  BY <1>h, <1>1, <1>3 DEF Held, Crossing
<1>5. CASE Reached(c)
  <2>1. hasRole'[owner] /\ \A b \in Accounts \ {owner} : ~hasRole'[b]
    BY <1>1, <1>2, <1>5 DEF Held, ChangeAtCurrentOwner, TypeOK
  <2>2. latest'[owner] = latest[a] /\ losses' = losses
    BY <1>2, <1>5 DEF ChangeAtCurrentOwner, TypeOK, Reached
  <2>3. Numbered(latest[owner])'
    BY <1>1, <1>3, <2>2 DEF Held, Numbered
  <2>4. Crossing' = {}
    BY <1>2, <1>4, <1>5 DEF Reached
  <2>5. Held(owner)'
    BY <1>3, <2>1, <2>3, <2>4 DEF Held
  <2> QED BY <1>2, <1>3, <2>5 DEF RoleInv
<1>6. CASE ~SameShard(a, owner)
  <2>1. ~Reached(c) /\ a # owner
    BY <1>2, <1>6 DEF Reached, SameShard
  <2>2. \A b \in Accounts : ~hasRole'[b]
    BY <1>1, <1>2, <2>1 DEF Held, ChangeAtCurrentOwner, TypeOK
  <2>3. losses' = losses
    BY <1>2, <2>1 DEF ChangeAtCurrentOwner
  <2>4. Numbered(h.nonce)'
    BY <1>h, <1>1, <1>3, <2>3 DEF Held, Numbered
  <2>5. HandedOver(h)'
    BY <1>h, <1>3, <1>4, <1>6, <2>2, <2>4 DEF HandedOver
  <2> QED BY <1>3, <2>5 DEF RoleInv
<1>7. CASE a = owner
  <2>1. ~Reached(c) /\ SameShard(a, owner)
    BY <1>2, <1>7 DEF Reached, SameShard
  <2>2. \A b \in Accounts : ~hasRole'[b]
    BY <1>1, <1>2, <2>1 DEF Held, ChangeAtCurrentOwner, TypeOK
  <2>3. latest'[a] = 0 /\ losses' = losses + 1 /\ losses \in Nat
    BY <1>2, <1>7, <2>1 DEF ChangeAtCurrentOwner, TypeOK
  <2>4. \A k \in 1..MaxNonce : copies[k] <= losses + 1
    BY <1>1, <2>3 DEF Held, Numbered, TypeOK
  <2>5. Numbered(latest[a])'
    BY <1>3, <2>3, <2>4 DEF Numbered
  <2>6. Crossing' = {}
    BY <1>4, <2>1
  <2>7. Held(a)'
    BY <1>3, <1>7, <2>2, <2>3, <2>5, <2>6 DEF Held
  <2> QED BY <2>7 DEF RoleInv
<1> QED BY <1>2, <1>5, <1>6, <1>7 DEF Reached

(* The next owner is changed, or refuses the message of a hand-over that   *)
(* was already made within its shard.                                      *)
LEMMA NextOwnerRole ==
  ASSUME ~SenderFromOutput,
         TypeOK, RoleInv, NEW h \in handovers, ChangeAtNextOwner(h)
  PROVE  RoleInv'
<1>1. handovers' = handovers \ {h} /\ UNCHANGED <<owner, changes, copies, losses>>
  BY DEF ChangeAtNextOwner
<1>2. CASE AcceptsHandover(h)
  <2>1. h \in Crossing
    BY <1>2 DEF AcceptsHandover, Crossing
  <2>2. HandedOver(h)
    <3>1. \A a \in Accounts : ~Held(a)
      BY <2>1 DEF Held
    <3>2. PICK g \in handovers : HandedOver(g)
      BY <3>1 DEF RoleInv, NotGranted
    <3> QED BY <2>1, <3>2 DEF HandedOver
  <2>3. h.to \in Accounts /\ h.nonce \in 0..MaxNonce
    BY DEF TypeOK, Handover
  <2>4. hasRole'[h.to] /\ \A b \in Accounts \ {h.to} : ~hasRole'[b]
    BY <1>2, <2>2, <2>3 DEF HandedOver, ChangeAtNextOwner, TypeOK
  <2>5. latest'[h.to] = h.nonce
    BY <1>2, <2>3 DEF ChangeAtNextOwner, TypeOK
  <2>6. Numbered(latest[h.to])'
    BY <1>1, <2>2, <2>5 DEF HandedOver, Numbered
  <2>7. Crossing' = {}
    BY <1>1, <2>2 DEF HandedOver, Crossing
  <2>8. Held(h.to)'
    BY <1>1, <2>2, <2>4, <2>6, <2>7 DEF HandedOver, Held
  <2> QED BY <2>3, <2>8 DEF RoleInv
<1>3. CASE ~AcceptsHandover(h)
  <2>1. h \notin Crossing
    BY <1>3 DEF AcceptsHandover, Crossing
  <2>2. Crossing' = Crossing /\ UNCHANGED <<latest, hasRole>>
    BY <1>1, <1>3, <2>1 DEF Crossing, ChangeAtNextOwner
  <2>3. ~NotGranted
    BY DEF NotGranted
  <2>4. ASSUME NEW a \in Accounts, Held(a) PROVE RoleInv'
    <3>1. Numbered(latest[a])'
      BY <1>1, <2>2, <2>4 DEF Held, Numbered
    <3>2. Held(a)'
      BY <1>1, <2>2, <2>4, <3>1 DEF Held
    <3> QED BY <3>2 DEF RoleInv
  <2>5. ASSUME NEW g \in handovers, HandedOver(g) PROVE RoleInv'
    <3>1. g \in handovers'
      BY <1>1, <2>1, <2>5 DEF HandedOver
    <3>2. Numbered(g.nonce)'
      BY <1>1, <2>5 DEF HandedOver, Numbered
    <3>3. HandedOver(g)'
      BY <1>1, <2>2, <2>5, <3>2 DEF HandedOver
    <3> QED BY <3>1, <3>3 DEF RoleInv
  <2> QED BY <2>3, <2>4, <2>5 DEF RoleInv
<1> QED BY <1>2, <1>3

LEMMA StutterRole ==
  ASSUME RoleInv, UNCHANGED vars PROVE RoleInv'
<1>1. Crossing' = Crossing
  BY DEF vars, Crossing
<1>2. \A n \in Nat : Numbered(n)' <=> Numbered(n)
  BY DEF vars, Numbered
<1>3. CASE NotGranted
  BY <1>3 DEF vars, NotGranted, Numbered, RoleInv
<1>4. ASSUME NEW a \in Accounts, Held(a) PROVE RoleInv'
  <2>1. Held(a)'
    BY <1>1, <1>4 DEF vars, Held, Numbered
  <2> QED BY <2>1 DEF RoleInv
<1>5. ASSUME NEW h \in handovers, HandedOver(h) PROVE RoleInv'
  <2>1. HandedOver(h)' /\ h \in handovers'
    BY <1>1, <1>5 DEF vars, HandedOver, Numbered
  <2> QED BY <2>1 DEF RoleInv
<1> QED BY <1>3, <1>4, <1>5 DEF RoleInv

(* RoleInvHolds: in every state the numbering of the collection is in one  *)
(* place, whatever the order of the calls and the messages; where the role *)
(* is missing, an account was handed the role that it had, or the hand-    *)
(* over is between two shards.                                             *)
THEOREM RoleInvHolds == ASSUME ~SenderFromOutput PROVE Spec => []RoleInv
<1>1. TypeOK /\ RoleInv /\ [Next]_vars => RoleInv'
  BY CreateRole, SetRoleRole, RequestTransferRole, CurrentOwnerRole,
     NextOwnerRole, StutterRole DEF Next
<1> QED BY InitRole, TypeCorrect, <1>1, PTL DEF Spec

(* NonceUniqueHolds: no nonce is ever created twice, for any number of     *)
(* accounts, shards and transfers of the role from one account to another  *)
(* (getLatestNonce and saveLatestNonce on two shards); every hand-over to  *)
(* the account that has the role lets it be created once more.             *)
THEOREM NonceUniqueHolds == ASSUME ~SenderFromOutput PROVE Spec => []NonceUnique
<1>1. TypeOK /\ RoleInv => NonceUnique
  <2>1. ASSUME TypeOK, NEW n, Numbered(n) PROVE NonceUnique
    BY <2>1 DEF TypeOK, Numbered, NonceUnique
  <2> QED BY <2>1 DEF RoleInv, NotGranted, Held, HandedOver
<1> QED BY <1>1, TypeCorrect, RoleInvHolds, PTL

(* OneCreatorHolds: at most one account can create, and none while the     *)
(* hand-over is between two shards (deleteCreateRoleFromAccount and        *)
(* addCreateRoleToAccount).                                                *)
THEOREM OneCreatorHolds == ASSUME ~SenderFromOutput PROVE Spec => []OneCreator
<1>1. RoleInv => OneCreator
  <2>1. NotGranted => OneCreator
    BY DEF NotGranted, OneCreator
  <2>2. \A a \in Accounts : Held(a) => OneCreator
    BY DEF Held, OneCreator
  <2>3. \A h \in handovers : HandedOver(h) => OneCreator
    BY DEF HandedOver, OneCreator
  <2> QED BY <2>1, <2>2, <2>3 DEF RoleInv
<1> QED BY <1>1, RoleInvHolds, PTL

-----------------------------------------------------------------------------
(* Creators on several shards: where the range of each of them ends, what  *)
(* is left of it, and that the ranges do not meet.                         *)

USE DEF shardVars

(* The ranges of numbers *)

(* The range of every creator ends before a word does: the multiplication  *)
(* of computeStartNonce and the numbering after it do not wrap.            *)
LEMMA RangeFits ==
  ASSUME NEW a \in Minters
  PROVE  /\ RangeSize \in Nat
         /\ StartNonce(a) \in Nat
         /\ StartNonce(a) + RangeSize <= TopNonce
<1> DEFINE L == LastByte[a]
<1>1. L \in 0..(LastBytes - 1) /\ LastBytes \in Nat \ {0} /\ TopNonce \in Nat
  BY ShardCreatorsAssumption
<1>2. RangeSize \in Nat /\ LastBytes * RangeSize <= TopNonce
  BY <1>1, SMT DEF RangeSize
<1> HIDE DEF L
<1>3. RangeSize * L \in Nat
  BY <1>1, <1>2
<1>4. RangeSize * L + RangeSize = RangeSize * (L + 1)
  BY <1>1, <1>2
<1>5. RangeSize * (L + 1) <= RangeSize * LastBytes
  <2>1. PICK d \in Nat : LastBytes = L + 1 + d
    <3>1. LastBytes = L + 1 + (LastBytes - (L + 1))
      BY <1>1
    <3>2. LastBytes - (L + 1) \in Nat
      BY <1>1
    <3> QED BY <3>1, <3>2
  <2>2. RangeSize * (L + 1 + d) = RangeSize * (L + 1) + RangeSize * d
    BY <1>1, <1>2
  <2>3. RangeSize * d \in Nat
    BY <1>2
  <2>4. RangeSize * (L + 1) \in Nat
    BY <1>1, <1>2
  <2> QED BY <2>1, <2>2, <2>3, <2>4
<1>6. RangeSize * LastBytes = LastBytes * RangeSize
  BY <1>1, <1>2
<1>7. RangeSize * (L + 1) \in Nat /\ RangeSize * LastBytes \in Nat
  BY <1>1, <1>2
<1> QED BY <1>1, <1>2, <1>3, <1>4, <1>5, <1>6, <1>7 DEF StartNonce, L

(* Of two ranges, the one with the smaller last byte ends first.           *)
LEMMA RangeBefore ==
  ASSUME NEW a \in Minters, NEW b \in Minters, LastByte[a] < LastByte[b]
  PROVE  StartNonce(a) + RangeSize <= StartNonce(b)
<1> DEFINE L == LastByte[a]
           M == LastByte[b]
<1>1. L \in Nat /\ M \in Nat /\ L < M /\ RangeSize \in Nat
  BY ShardCreatorsAssumption, RangeFits
<1> HIDE DEF L, M
<1>2. PICK d \in Nat : M = L + 1 + d
  <2>1. M = L + 1 + (M - (L + 1)) /\ M - (L + 1) \in Nat
    BY <1>1
  <2> QED BY <2>1
<1>3. RangeSize * M = (RangeSize * L + RangeSize) + RangeSize * d
  BY <1>1, <1>2
<1>4. RangeSize * d \in Nat /\ RangeSize * L \in Nat
  BY <1>1
<1> QED BY <1>1, <1>3, <1>4 DEF StartNonce, L, M

(* Two creators never number alike.                                        *)
LEMMA RangesDisjoint ==
  ASSUME NEW a \in Minters, NEW b \in Minters, a # b
  PROVE  RangeOf(a) \cap RangeOf(b) = {}
<1>1. LastByte[a] # LastByte[b] /\ LastByte[a] \in Nat /\ LastByte[b] \in Nat
  BY ShardCreatorsAssumption
<1>2. /\ RangeSize \in Nat /\ StartNonce(a) \in Nat /\ StartNonce(b) \in Nat
  BY RangeFits
<1>3. CASE LastByte[a] < LastByte[b]
  BY <1>2, <1>3, RangeBefore DEF RangeOf
<1>4. CASE LastByte[b] < LastByte[a]
  BY <1>2, <1>4, RangeBefore DEF RangeOf
<1> QED BY <1>1, <1>3, <1>4

(* Every number of a range is a nonce, and none is zero.                   *)
LEMMA RangeOfNonces ==
  ASSUME NEW a \in Minters, NEW n \in RangeOf(a)
  PROVE  n \in 0..TopNonce /\ n # 0
BY RangeFits, ShardCreatorsAssumption DEF RangeOf

-----------------------------------------------------------------------------
(* The invariant *)

LEMMA InitInv == ShardInit => ShardInv
<1> SUFFICES ASSUME ShardInit PROVE ShardInv
  OBVIOUS
<1>1. TopNonce \in Nat
  BY ShardCreatorsAssumption
<1>2. ShardTypeOK
  BY <1>1 DEF ShardInit, ShardTypeOK
<1>3. \A n \in 0..TopNonce : ~(minting[n] > 0)
  BY DEF ShardInit
<1>4. ASSUME NEW a \in Minters, NEW n \in RangeOf(a) PROVE minting[n] <= grants[a]
  <2>1. n \in 0..TopNonce
    BY RangeOfNonces
  <2> QED BY <2>1 DEF ShardInit
<1>5. \A a \in Minters : ~mayMint[a]
  BY DEF ShardInit
<1> QED BY <1>2, <1>3, <1>4, <1>5 DEF ShardInv

(* The account given the role starts its range: all that was created there *)
(* was created in the times before.                                        *)
LEMMA GrantKeepsInv ==
  ASSUME ShardInv, NEW a \in Minters, GrantMultiShard(a)
  PROVE  ShardInv'
<1>1. minted' = [minted EXCEPT ![a] = StartNonce(a)]
  BY DEF GrantMultiShard, NonceAfterRoles
<1>2. StartNonce(a) \in 0..TopNonce /\ StartNonce(a) \in StartNonce(a)..(StartNonce(a) + RangeSize)
  BY RangeFits, ShardCreatorsAssumption
<1>3. ShardTypeOK'
  BY <1>1, <1>2 DEF ShardInv, ShardTypeOK, GrantMultiShard
<1>4. /\ minting' = minting
      /\ grants' = [grants EXCEPT ![a] = @ + 1]
      /\ grants \in [Minters -> Nat] /\ minting \in [0..TopNonce -> Nat]
  BY DEF GrantMultiShard, ShardInv, ShardTypeOK
<1>5. \A n \in 0..TopNonce : minting'[n] > 0 => \E b \in Minters : n \in RangeOf(b)
  BY <1>4 DEF ShardInv
<1>6. ASSUME NEW b \in Minters, NEW n \in RangeOf(b)
      PROVE  minting'[n] <= grants'[b] /\ (b = a => minting'[n] < grants'[b])
  <2>1. minting[n] <= grants[b] /\ minting[n] \in Nat /\ grants[b] \in Nat
    BY <1>4, RangeOfNonces DEF ShardInv
  <2>2. CASE b = a
    BY <1>4, <2>1, <2>2
  <2>3. CASE b # a
    BY <1>4, <2>1, <2>3
  <2> QED BY <2>2, <2>3
<1>7. ASSUME NEW b \in Minters, mayMint'[b]
      PROVE  /\ minted'[b] \in StartNonce(b)..(StartNonce(b) + RangeSize)
             /\ \A n \in RangeOf(b) : n > minted'[b] => minting'[n] < grants'[b]
  <2>1. CASE b = a
    BY <1>1, <1>2, <1>6, <2>1 DEF ShardInv, ShardTypeOK
  <2>2. CASE b # a
    BY <1>1, <1>4, <1>7, <2>2 DEF ShardInv, ShardTypeOK, GrantMultiShard
  <2> QED BY <2>1, <2>2
<1> QED BY <1>3, <1>5, <1>6, <1>7 DEF ShardInv, RangeOf, StartNonce, RangeSize

LEMMA RevokeKeepsInv ==
  ASSUME ShardInv, NEW a \in Minters, RevokeMultiShard(a)
  PROVE  ShardInv'
<1>1. minted' = [minted EXCEPT ![a] = StartNonce(a)]
  BY DEF RevokeMultiShard, NonceAfterRoles
<1>2. StartNonce(a) \in 0..TopNonce
  BY RangeFits, ShardCreatorsAssumption
<1>3. ShardTypeOK'
  BY <1>1, <1>2 DEF ShardInv, ShardTypeOK, RevokeMultiShard
<1>4. minting' = minting /\ grants' = grants
  BY DEF RevokeMultiShard
<1>5. ASSUME NEW b \in Minters, mayMint'[b]
      PROVE  /\ minted'[b] \in StartNonce(b)..(StartNonce(b) + RangeSize)
             /\ \A n \in RangeOf(b) : n > minted'[b] => minting'[n] < grants'[b]
  <2>1. b # a /\ mayMint[b]
    BY <1>5 DEF RevokeMultiShard, ShardInv, ShardTypeOK
  <2> QED BY <1>1, <1>4, <2>1 DEF ShardInv, ShardTypeOK
<1> QED BY <1>3, <1>4, <1>5 DEF ShardInv, RangeOf, StartNonce, RangeSize

LEMMA OtherRoleKeepsInv ==
  ASSUME ShardInv, NEW a \in Minters, NEW set \in BOOLEAN, ChangeOtherRole(a, set)
  PROVE  ShardInv'
<1>1. minted' = minted
  BY DEF ChangeOtherRole, NonceAfterRoles
<1> QED
  BY <1>1 DEF ShardInv, ShardTypeOK, ChangeOtherRole, RangeOf, StartNonce, RangeSize

(* What is created next is in the creator's range, and was not reached     *)
(* since the role was given.                                               *)
LEMMA MintKeepsInv ==
  ASSUME ShardInv, NEW a \in Minters, Mint(a)
  PROVE  ShardInv'
<1> DEFINE next == minted[a] + 1
<1>1. /\ mayMint[a]
      /\ minted[a] \in StartNonce(a)..(StartNonce(a) + RangeSize)
      /\ minted[a] < StartNonce(a) + RangeSize
      /\ \A n \in RangeOf(a) : n > minted[a] => minting[n] < grants[a]
  BY DEF ShardInv, Mint
<1>2. RangeSize \in Nat /\ StartNonce(a) \in Nat /\ TopNonce \in Nat
      /\ StartNonce(a) + RangeSize <= TopNonce
  BY RangeFits, ShardCreatorsAssumption
<1>3. next \in RangeOf(a) /\ next > minted[a] /\ next <= TopNonce /\ next \in Nat
  BY <1>1, <1>2 DEF RangeOf
<1>4. (minted[a] + 1) % (TopNonce + 1) = next
  BY <1>2, <1>3
<1>5. /\ minted' = [minted EXCEPT ![a] = next]
      /\ minting' = [minting EXCEPT ![next] = @ + 1]
      /\ UNCHANGED <<mayMint, mayAdd, grants>>
  BY <1>4 DEF Mint
<1>6. next \in 0..TopNonce
  BY <1>3, RangeOfNonces
<1>7. minting[next] < grants[a] /\ minting[next] \in Nat /\ grants[a] \in Nat
  BY <1>1, <1>3, <1>6 DEF ShardInv, ShardTypeOK
<1> HIDE DEF next
<1>8. ShardTypeOK'
  <2>1. minted' \in [Minters -> 0..TopNonce]
    BY <1>5, <1>6 DEF ShardInv, ShardTypeOK
  <2>2. minting' \in [0..TopNonce -> Nat]
    BY <1>5, <1>6, <1>7 DEF ShardInv, ShardTypeOK
  <2> QED BY <1>5, <2>1, <2>2 DEF ShardInv, ShardTypeOK
<1>9. \A n \in 0..TopNonce :
        minting'[n] = IF n = next THEN minting[n] + 1 ELSE minting[n]
  BY <1>5, <1>6 DEF ShardInv, ShardTypeOK
<1>10. \A n \in 0..TopNonce : minting'[n] > 0 => \E b \in Minters : n \in RangeOf(b)
  BY <1>3, <1>9 DEF ShardInv
<1>11. ASSUME NEW b \in Minters, b # a, NEW n \in RangeOf(b)
       PROVE  minting'[n] = minting[n]
  <2>1. n # next /\ n \in 0..TopNonce
    BY <1>3, <1>11, RangesDisjoint, RangeOfNonces
  <2> QED BY <1>9, <2>1
<1>12. ASSUME NEW b \in Minters, NEW n \in RangeOf(b) PROVE minting'[n] <= grants'[b]
  <2>1. minting[n] <= grants[b] /\ n \in 0..TopNonce
    BY RangeOfNonces DEF ShardInv
  <2>2. CASE b = a
    BY <1>5, <1>7, <1>9, <2>1, <2>2
  <2>3. CASE b # a
    BY <1>5, <1>11, <2>1, <2>3
  <2> QED BY <2>2, <2>3
<1>13. ASSUME NEW b \in Minters, mayMint'[b]
       PROVE  /\ minted'[b] \in StartNonce(b)..(StartNonce(b) + RangeSize)
              /\ \A n \in RangeOf(b) : n > minted'[b] => minting'[n] < grants'[b]
  <2>1. CASE b = a
    <3>1. minted'[b] = next
      BY <1>5, <2>1 DEF ShardInv, ShardTypeOK
    <3>2. next \in StartNonce(b)..(StartNonce(b) + RangeSize)
      BY <1>1, <1>2, <1>3, <2>1 DEF RangeOf
    <3>3. ASSUME NEW n \in RangeOf(b), n > next PROVE minting'[n] < grants'[b]
      <4>1. n \in 0..TopNonce /\ n > minted[a] /\ n # next
        BY <1>1, <1>2, <1>3, <3>3, RangeOfNonces DEF RangeOf
      <4>2. minting[n] < grants[b]
        BY <1>1, <2>1, <4>1
      <4> QED BY <1>5, <1>9, <4>1, <4>2
    <3> QED BY <3>1, <3>2, <3>3
  <2>2. CASE b # a
    <3>1. minted'[b] = minted[b] /\ mayMint[b]
      BY <1>5, <1>13, <2>2 DEF ShardInv, ShardTypeOK
    <3> QED BY <1>5, <1>11, <2>2, <3>1 DEF ShardInv
  <2> QED BY <2>1, <2>2
<1> QED BY <1>8, <1>10, <1>12, <1>13 DEF ShardInv, RangeOf, StartNonce, RangeSize

LEMMA NextKeepsInv == ShardInv /\ [ShardNext]_shardVars => ShardInv'
<1> SUFFICES ASSUME ShardInv, [ShardNext]_shardVars PROVE ShardInv'
  OBVIOUS
<1>1. CASE UNCHANGED shardVars
  BY <1>1 DEF ShardInv, ShardTypeOK, RangeOf, StartNonce, RangeSize
<1>2. ASSUME NEW a \in Minters, GrantMultiShard(a) PROVE ShardInv'
  BY <1>2, GrantKeepsInv
<1>3. ASSUME NEW a \in Minters, RevokeMultiShard(a) PROVE ShardInv'
  BY <1>3, RevokeKeepsInv
<1>4. ASSUME NEW a \in Minters, Mint(a) PROVE ShardInv'
  BY <1>4, MintKeepsInv
<1>5. ASSUME NEW a \in Minters, NEW set \in BOOLEAN, ChangeOtherRole(a, set)
      PROVE  ShardInv'
  BY <1>5, OtherRoleKeepsInv
<1> QED BY <1>1, <1>2, <1>3, <1>4, <1>5 DEF ShardNext

(* Every creator numbers within the range of its last byte, and creates    *)
(* there what it has not reached since the role was given to it.           *)
THEOREM ShardInvHolds == ShardSpec => []ShardInv
BY InitInv, NextKeepsInv, PTL DEF ShardSpec

(* No nonce is created by two creators of a collection on several shards,  *)
(* none is zero, and none is created more often than its creator was given *)
(* the role.                                                               *)
THEOREM NoncesApartHolds == ShardSpec => []NoncesApart
<1>1. ShardInv => NoncesApart
  <2> SUFFICES ASSUME ShardInv PROVE NoncesApart
    OBVIOUS
  <2>1. 0 \in 0..TopNonce /\ minting \in [0..TopNonce -> Nat]
    BY ShardCreatorsAssumption DEF ShardInv, ShardTypeOK
  <2>2. \A a \in Minters : 0 \notin RangeOf(a)
    BY RangeOfNonces
  <2>3. minting[0] = 0
    BY <2>1, <2>2 DEF ShardInv
  <2> QED BY <2>3 DEF ShardInv, NoncesApart
<1> QED BY <1>1, ShardInvHolds, PTL
=============================================================================
