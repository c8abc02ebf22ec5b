--------------------------- MODULE TicketLifecycle --------------------------
(***************************************************************************)
(* What a ticket promises to the person who asked for it: it is attended,  *)
(* resolved and rated, in that order, or cancelled before it is resolved;  *)
(* a closed or cancelled ticket never changes again.  In maintenance a     *)
(* ticket returns to PENDING when its technicians leave it; in the         *)
(* helpdesk nothing does.                                                  *)
(***************************************************************************)
CONSTANTS Tickets, Reopens

VARIABLE status

Resolved == {"RESOLVED_SUCCESS", "RESOLVED_FAILED"}

\* The states a ticket may be in just before it enters s.
Before(s) ==
    CASE s = "PENDING" -> {"NONE"} \cup (IF Reopens THEN {"ASSIGNED", "IN_PROGRESS"} ELSE {})
      [] s = "ASSIGNED" -> {"PENDING"}
      [] s = "IN_PROGRESS" -> {"ASSIGNED"}
      [] s \in Resolved -> {"ASSIGNED", "IN_PROGRESS"}
      [] s = "CLOSED" -> Resolved
      [] s = "CANCELED" -> {"PENDING", "ASSIGNED", "IN_PROGRESS"}

LifecycleInit == status = [t \in Tickets |-> "NONE"]

Advance(t, s) ==
    /\ status[t] \in Before(s)
    /\ status' = [status EXCEPT ![t] = s]

LifecycleNext ==
    \E t \in Tickets, s \in Resolved \cup {"PENDING", "ASSIGNED", "IN_PROGRESS", "CLOSED",
                                           "CANCELED"} : Advance(t, s)

LifecycleSpec == LifecycleInit /\ [][LifecycleNext]_status

=============================================================================
