--------------------------- MODULE SlotAllocation ----------------------------
(***************************************************************************)
(* What the booking of AgendaTec promises about a slot, apart from how     *)
(* is_booked, the row locks and the unique index bring it about: a slot is *)
(* held by at most one request, a request takes a slot only while nobody   *)
(* holds it, it never holds two, and one decision changes the holder of    *)
(* one slot (the deletion of slots by a coordinator changes none).         *)
(***************************************************************************)
CONSTANTS Slots, ReqIds, Nobody

VARIABLE holder

TypeOK == holder \in [Slots -> ReqIds \cup {Nobody}]

Init == holder = [s \in Slots |-> Nobody]

Take(s, r) ==
    /\ holder[s] = Nobody
    /\ \A other \in Slots : holder[other] # r
    /\ holder' = [holder EXCEPT ![s] = r]

Release(s) ==
    /\ holder[s] # Nobody
    /\ holder' = [holder EXCEPT ![s] = Nobody]

Next == \E s \in Slots : Release(s) \/ \E r \in ReqIds : Take(s, r)

Spec == Init /\ [][Next]_holder

=============================================================================
