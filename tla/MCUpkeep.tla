------------------------------ MODULE MCUpkeep ------------------------------
(* A small instance of Upkeep for TLC.  Only safety is checked, and no     *)
(* expression tells the members of these sets apart.  The configuration    *)
(* takes the technicians and the sessions of maintenance from the values   *)
(* of the items and the clerks of the inventory.                           *)
EXTENDS Upkeep, TLC

Symmetry == Permutations(Campaigns) \union Permutations(Items)
              \union Permutations(Clerks) \union Permutations(Offices)
=============================================================================
