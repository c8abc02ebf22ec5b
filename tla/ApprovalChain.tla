--------------------------- MODULE ApprovalChain ----------------------------
(***************************************************************************)
(* What the retirement of equipment promises, apart from the signature     *)
(* rows and the two commits of the last signature: a request collects the  *)
(* signatures it lacks one after the other, a rejection sends it back to   *)
(* the start, and no equipment is retired unless some request has been     *)
(* approved (a legacy request is approved by the administrator alone).     *)
(***************************************************************************)
EXTENDS Naturals

CONSTANTS Requests, Items, Legacy

VARIABLES
    phase,      \* "draft", "legacy", "signing", "approved", "rejected" or "cancelled"
    left,       \* the signatures a request still lacks
    retired     \* the equipment that is retired

vars == <<phase, left, retired>>

Init ==
    /\ phase = [r \in Requests |-> IF r \in Legacy THEN "legacy" ELSE "draft"]
    /\ left = [r \in Requests |-> 0]
    /\ retired = {}

Move(r, from, to, n) ==
    /\ phase[r] \in from
    /\ phase' = [phase EXCEPT ![r] = to]
    /\ left' = [left EXCEPT ![r] = n]

\* The whole chain, or the Computer Centre alone for an attached document.
Submit(r) == \E n \in {1, 4} : Move(r, {"draft", "legacy"}, "signing", n) /\ UNCHANGED retired

Sign(r) ==
    /\ left[r] > 0
    /\ Move(r, {"signing"}, IF left[r] = 1 THEN "approved" ELSE "signing", left[r] - 1)
    /\ UNCHANGED retired

Reject(r) == Move(r, {"signing", "legacy"}, "rejected", 0) /\ UNCHANGED retired

Resubmit(r) == Move(r, {"rejected"}, "draft", 0) /\ UNCHANGED retired

Cancel(r) == Move(r, {"draft", "legacy"}, "cancelled", 0) /\ UNCHANGED retired

Approve(r) ==
    /\ Move(r, {"legacy"}, "approved", 0)
    /\ \E I \in SUBSET Items : retired' = retired \cup I

Retire(r) ==
    /\ phase[r] = "approved"
    /\ \E I \in SUBSET Items : retired' = retired \cup I
    /\ UNCHANGED <<phase, left>>

Next ==
    \E r \in Requests :
        \/ Submit(r) \/ Sign(r) \/ Reject(r) \/ Resubmit(r) \/ Cancel(r)
        \/ Approve(r) \/ Retire(r)

Spec == Init /\ [][Next]_vars

=============================================================================
