------------------------ MODULE MCInventoryRetirement -----------------------
(* Small instances of InventoryRetirement for TLC. *)
EXTENDS InventoryRetirement, TLC

CONSTANTS i1, i2, r1, r2, t1, t2

\* Sessions and items are interchangeable; requests are not (one may be legacy).
Symmetry == Permutations(Sessions) \cup Permutations(Items)

=============================================================================
