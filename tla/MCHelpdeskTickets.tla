-------------------------- MODULE MCHelpdeskTickets -------------------------
(* A small instance of HelpdeskTickets for TLC. *)
EXTENDS HelpdeskTickets, TLC

CONSTANTS t1, t2

\* t1 attends DESARROLLO only; t2 attends both areas.
Roles == [u \in Techs |-> IF u = t1 THEN {"DESARROLLO"} ELSE Areas]

Symmetry == Permutations(Sessions)

=============================================================================
