---------------------------- MODULE TokenEscrow ----------------------------
(***************************************************************************)
(* What a transfer of several tokens at once promises: its amounts leave   *)
(* the payer together and wait in escrow.  They go to the payee together,  *)
(* unless it refuses: then they go back to the payer together.             *)
(***************************************************************************)
EXTENDS Integers, Bags

CONSTANTS
  Owners,
  Tokens,
  Limit     \* no step changes a balance by more

VARIABLES
  holding,  \* holding[o][k]: what owner o has of token k
  escrow    \* a bag of payments

escrowVars == <<holding, escrow>>

Sums == [Tokens -> 0..Limit]

Pays(h, o, n) ==
  [h EXCEPT ![o] = [k \in Tokens |-> @[k] - n[k]]]

Receives(h, o, n) ==
  [h EXCEPT ![o] = [k \in Tokens |-> @[k] + n[k]]]

CanPay(o, n) == \A k \in Tokens : n[k] <= holding[o][k]

Init ==
  /\ holding = [o \in Owners |-> [k \in Tokens |-> 0]]
  /\ escrow = EmptyBag

Issue(o, n) == holding' = Receives(holding, o, n) /\ UNCHANGED escrow

Destroy(o, n) ==
  CanPay(o, n) /\ holding' = Pays(holding, o, n) /\ UNCHANGED escrow

Pay(o, payee, n) ==
  /\ CanPay(o, n)
  /\ holding' = Receives(Pays(holding, o, n), payee, n)
  /\ UNCHANGED escrow

Deposit(o, payee, n) ==
  /\ CanPay(o, n)
  /\ holding' = Pays(holding, o, n)
  /\ escrow' = escrow (+) SetToBag({[payer |-> o, payee |-> payee,
                                      amounts |-> n, refused |-> FALSE]})

Refuse(p) ==
  /\ ~p.refused
  /\ escrow' = (escrow (-) SetToBag({p})) (+) SetToBag({[p EXCEPT !.refused = TRUE]})
  /\ UNCHANGED holding

Settle(p) ==
  /\ holding' = Receives(holding, IF p.refused THEN p.payer ELSE p.payee, p.amounts)
  /\ escrow' = escrow (-) SetToBag({p})

Next ==
  \/ \E p \in BagToSet(escrow) : Refuse(p) \/ Settle(p)
  \/ \E o \in Owners, n \in Sums :
       \/ Issue(o, n) \/ Destroy(o, n)
       \/ \E payee \in Owners : Pay(o, payee, n) \/ Deposit(o, payee, n)

Spec == Init /\ [][Next]_escrowVars
=============================================================================
