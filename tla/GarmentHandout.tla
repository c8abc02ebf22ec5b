---------------------------- MODULE GarmentHandout ---------------------------
(***************************************************************************)
(* What VisteTec promises about its clothes: a garment is kept for one     *)
(* student at a time, is given only to the student it is kept for, and is  *)
(* given once.                                                             *)
(***************************************************************************)
CONSTANTS Garments, Students

VARIABLES
    kept,     \* the students each garment is kept for
    given     \* the students each garment was given to

HandoutInit ==
    /\ kept = [g \in Garments |-> {}]
    /\ given = [g \in Garments |-> {}]

Keep(g, u) ==
    /\ kept[g] = {} /\ given[g] = {}
    /\ kept' = [kept EXCEPT ![g] = {u}]
    /\ UNCHANGED given

Release(g) ==
    /\ kept[g] # {}
    /\ kept' = [kept EXCEPT ![g] = {}]
    /\ UNCHANGED given

Give(g, u) ==
    /\ kept[g] = {u}
    /\ kept' = [kept EXCEPT ![g] = {}]
    /\ given' = [given EXCEPT ![g] = {u}]

HandoutNext ==
    \E g \in Garments :
       \/ Release(g)
       \/ \E u \in Students : Keep(g, u) \/ Give(g, u)

HandoutSpec == HandoutInit /\ [][HandoutNext]_<<kept, given>>

=============================================================================
