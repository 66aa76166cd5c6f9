------------------------------ MODULE MCSettle ------------------------------
(* The requests of the target are interchangeable. *)
EXTENDS Settle, TLC

Symmetry == Permutations(Requests)

=============================================================================
