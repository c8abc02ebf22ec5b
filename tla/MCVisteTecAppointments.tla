----------------------- MODULE MCVisteTecAppointments -----------------------
(* A small instance of VisteTecAppointments for TLC. *)
EXTENDS VisteTecAppointments, TLC

CONSTANTS s1, s2

\* One place in s1, two in s2.
SeatsOf == [s \in Slots |-> IF s = s1 THEN 1 ELSE 2]

Symmetry == Permutations(Sessions) \cup Permutations(Garments) \cup Permutations(Students)

=============================================================================
