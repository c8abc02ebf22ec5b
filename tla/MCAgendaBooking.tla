-------------------------- MODULE MCAgendaBooking --------------------------
(* Small instances of AgendaBooking for TLC. *)
EXTENDS AgendaBooking, TLC

CONSTANTS ana, beto, r1, r2, r3, t1, t2, t3, p1, p2

\* Requests and sessions are interchangeable; students too.
Symmetry == Permutations(Students) \cup Permutations(ReqIds) \cup Permutations(Sessions)

=============================================================================
