------------------------------ MODULE TokenBank ------------------------------
(***************************************************************************)
(* What the fungible functions promise together: tokens sit with holders,  *)
(* a move takes from one holder exactly what it gives to another, and only *)
(* a mint or a burn changes the supply.  A holder is an account or a       *)
(* message in flight.                                                      *)
(***************************************************************************)
EXTENDS Integers

CONSTANTS
  Holders,  \* who may hold tokens
  Limit     \* the supply that no mint exceeds

VARIABLES
  holding,  \* holding[h]: the tokens of holder h
  total     \* the supply

bank == <<holding, total>>

Init ==
  /\ holding = [h \in Holders |-> 0]
  /\ total = 0

Mint(h) ==
  \E n \in 0..(Limit - total) :
    /\ holding' = [holding EXCEPT ![h] = @ + n]
    /\ total' = total + n

Burn(h) ==
  \E n \in 0..holding[h] :
    /\ holding' = [holding EXCEPT ![h] = @ - n]
    /\ total' = total - n

Move(from, to) ==
  \E n \in 0..holding[from] :
    /\ from # to
    /\ holding' = [holding EXCEPT ![from] = @ - n, ![to] = @ + n]
    /\ UNCHANGED total

Next ==
  \E h \in Holders : Mint(h) \/ Burn(h) \/ \E to \in Holders : Move(h, to)

Spec == Init /\ [][Next]_bank
=============================================================================
