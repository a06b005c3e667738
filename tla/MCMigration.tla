---------------------------- MODULE MCMigration ----------------------------
(* Loads cheaper and dearer than stores, and sums above MaxUint64. *)
EXTENDS TrieMigration

MCPrices == {[load |-> 1, store |-> 2], [load |-> 2, store |-> 1], [load |-> 5, store |-> 3]}
=============================================================================
