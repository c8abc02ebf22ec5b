-------------------------- MODULE MCWarehouseStock --------------------------
(* Small instances of WarehouseStock for TLC. *)
EXTENDS WarehouseStock, TLC

CONSTANTS e1, e2, k1, k2, t1, t2

\* Lots, tickets and sessions are interchangeable.
Symmetry == Permutations(Lots) \cup Permutations(Tickets) \cup Permutations(Sessions)

=============================================================================
