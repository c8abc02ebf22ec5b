------------------------ MODULE VisteTecAppointments ------------------------
(***************************************************************************)
(* VisteTec: appointments to try a donated garment on (appointment_service)*)
(* with the garments (garment_service) and the time slots                  *)
(* (time_slot_service) that they tie up.                                   *)
(*                                                                         *)
(* A handler reads the rows it needs, tests them and commits later; nothing*)
(* is locked, and a column is written with the value computed from what    *)
(* was read.  A booking reads the slot and the garment first and then, with*)
(* a query of its own, the last code, from which it makes the code of the  *)
(* new appointment.  The column code is UNIQUE: of two bookings that made  *)
(* the same code, the second to commit fails.                              *)
(*                                                                         *)
(* regime says how sessions interleave: one at a time ("turns"); bookings  *)
(* overlap each other, and only the window between the two reads of a      *)
(* booking is closed ("codes"); in any way ("overlap").                    *)
(***************************************************************************)
EXTENDS Naturals, Sequences, FiniteSets

CONSTANTS
    Students, Garments, Slots, Sessions,
    Seats,        \* max_appointments of each slot (nothing changes it later)
    MaxActive,    \* the scheduled appointments a student may have, 3
    MaxAppts,     \* bound: the appointments ever made
    Regimes       \* a subset of {"turns", "codes", "overlap"}

ASSUME VisteTecSeats == Seats \in [Slots -> Nat \ {0}]
ASSUME VisteTecBounds == MaxActive \in Nat /\ MaxAppts \in Nat
ASSUME VisteTecRegimes == Regimes \subseteq {"turns", "codes", "overlap"}

VARIABLES
    garment,   \* the status of each garment; "none" while it has no row
    slot,      \* current_appointments and is_active of each slot
    appts,     \* the appointments, by id
    session,   \* what each session has read and wants to write
    regime

vars == <<garment, slot, appts, session, regime>>

-----------------------------------------------------------------------------
\* "taken" and "returned" are the outcomes of a completed appointment.
Live == {"scheduled", "attended"}
ApptStatus == Live \cup {"no_show", "cancelled", "taken", "returned"}
GarmentStatus == {"none", "available", "reserved", "delivered", "withdrawn"}

Appointment == [student : Students, garment : Garments, slot : Slots, status : ApptStatus]

SlotRow == [current : Nat, active : BOOLEAN]

\* What a session is about to write: a new appointment with the count of its slot and its
\* code (num); a change of appointment at, with the count of its slot if it counts and
\* the status of its garment unless that is "none"; or one garment or slot.
Idle == [phase |-> "idle"]
Booking == [phase : {"code", "book"}, row : Appointment, count : Nat, num : 0 .. MaxAppts]
Change == [phase : {"change"}, at : 1 .. MaxAppts, status : ApptStatus,
           count : Nat, counts : BOOLEAN, cloth : GarmentStatus]
GarmentOp == [phase : {"withdraw", "delete"}, garment : Garments]
SlotOp == [phase : {"close"}, slot : Slots]

TypeOK ==
    /\ garment \in [Garments -> GarmentStatus]
    /\ slot \in [Slots -> SlotRow]
    /\ appts \in Seq(Appointment) /\ Len(appts) <= MaxAppts
    /\ session \in [Sessions -> {Idle} \cup Booking \cup Change \cup GarmentOp \cup SlotOp]
    /\ regime \in {"turns", "codes", "overlap"}

Init ==
    /\ garment = [g \in Garments |-> "none"]
    /\ slot = [s \in Slots |-> [current |-> 0, active |-> TRUE]]
    /\ appts = <<>>
    /\ session = [p \in Sessions |-> Idle]
    /\ regime \in Regimes

-----------------------------------------------------------------------------
(* Sessions.                                                                *)

Busy == {q \in Sessions : session[q].phase # "idle"}

MayStart(p, books) ==
    /\ session[p] = Idle
    /\ regime = "turns" => Busy = {}
    /\ regime = "codes" =>
          \A q \in Busy : books /\ session[q].phase \in {"code", "book"}

Start(p, s) ==
    /\ session' = [session EXCEPT ![p] = s]
    /\ UNCHANGED <<garment, slot, appts, regime>>

\* Nobody is between the two reads of a booking.
NoWindow == regime = "codes" => \A q \in Sessions : session[q].phase # "code"

Finish(p) ==
    /\ NoWindow
    /\ session' = [session EXCEPT ![p] = Idle]
    /\ UNCHANGED regime

\* An exception, a refusal, a rollback or the end of the process.
Abort(p) ==
    /\ session[p] # Idle
    /\ session' = [session EXCEPT ![p] = Idle]
    /\ UNCHANGED <<garment, slot, appts, regime>>

-----------------------------------------------------------------------------
(* Booking.                                                                 *)

ApptsWith(S) == {i \in 1 .. Len(appts) : appts[i].status \in S}

Scheduled(u) == {i \in ApptsWith({"scheduled"}) : appts[i].student = u}

\* active_count < 3
BelowLimit(u) == Cardinality(Scheduled(u)) < MaxActive

HasSeat(s) == slot[s].active /\ slot[s].current < Seats[s]

\* create_appointment up to the tests; the slot lies in the future.
ReadToBook(p, u, g, s) ==
    /\ MayStart(p, TRUE)
    /\ HasSeat(s)
    /\ garment[g] = "available"
    /\ \A i \in ApptsWith(Live) : appts[i].student = u => appts[i].garment # g
    /\ BelowLimit(u)
    /\ Start(p, [phase |-> "code",
                 row |-> [student |-> u, garment |-> g, slot |-> s, status |-> "scheduled"],
                 count |-> slot[s].current + 1, num |-> 0])

\* _generate_code: the number of the last code plus one; appointments are never deleted.
TakeCode(p) ==
    /\ session[p].phase = "code"
    /\ Len(appts) < MaxAppts
    /\ Start(p, [session[p] EXCEPT !.phase = "book", !.num = Len(appts) + 1])

CollidesSilently(p) ==   \* mutant: the code is not unique
    LET s == session[p] IN
    /\ s.phase = "book"
    /\ garment[s.row.garment] # "none"
    /\ Len(appts) < MaxAppts
    /\ appts' = Append(appts, s.row)
    /\ slot' = [slot EXCEPT ![s.row.slot].current = s.count]
    /\ garment' = [garment EXCEPT ![s.row.garment] = "reserved"]
    /\ Finish(p)

CommitBooking(p) ==
    LET s == session[p] IN
    /\ s.phase = "book"
    /\ s.num = Len(appts) + 1
    /\ garment[s.row.garment] # "none"
    /\ appts' = Append(appts, s.row)
    /\ slot' = [slot EXCEPT ![s.row.slot].current = s.count]
    /\ garment' = [garment EXCEPT ![s.row.garment] = "reserved"]
    /\ Finish(p)

-----------------------------------------------------------------------------
(* The appointment.  One SELECT reads it with its slot and its garment.     *)

\* A column whose new value is the one that was read is not written.
ReadToChange(p, i, status, count, cloth) ==
    LET a == appts[i] IN
    /\ MayStart(p, FALSE)
    /\ Start(p, [phase |-> "change", at |-> i, status |-> status, count |-> count,
                 counts |-> count # slot[a.slot].current,
                 cloth |-> IF cloth = garment[a.garment] THEN "none" ELSE cloth])

Count(i) == slot[appts[i].slot].current

\* cancel_appointment, by the student or by a volunteer of the slot.
ReadToCancel(p, i) ==
    /\ appts[i].status = "scheduled"
    /\ ReadToChange(p, i, "cancelled", IF Count(i) = 0 THEN 0 ELSE Count(i) - 1, "available")

\* mark_attendance; the garment of an attended appointment stays as it is.
ReadToMark(p, i, attended) ==
    /\ appts[i].status = "scheduled"
    /\ ReadToChange(p, i, IF attended THEN "attended" ELSE "no_show", Count(i),
                    IF attended THEN garment[appts[i].garment] ELSE "available")

CompletesScheduled(p, i, taken) ==   \* mutant: a missed appointment too
    /\ appts[i].status \in Live \cup {"no_show"}
    /\ ReadToChange(p, i, IF taken THEN "taken" ELSE "returned", Count(i),
                    IF taken THEN "delivered" ELSE "available")

\* complete_appointment
ReadToComplete(p, i, taken) ==
    /\ appts[i].status = "attended"
    /\ ReadToChange(p, i, IF taken THEN "taken" ELSE "returned", Count(i),
                    IF taken THEN "delivered" ELSE "available")

CommitChange(p) ==
    LET s == session[p]
        a == appts[s.at] IN
    /\ s.phase = "change"
    /\ appts' = [appts EXCEPT ![s.at].status = s.status]
    /\ slot' = IF s.counts THEN [slot EXCEPT ![a.slot].current = s.count] ELSE slot
    /\ garment' = [garment EXCEPT ![a.garment] = IF s.cloth = "none" THEN @ ELSE s.cloth]
    /\ Finish(p)

-----------------------------------------------------------------------------
(* The catalogue and the schedule.                                          *)

\* create_garment writes a row that no session has seen.
AddGarment(g) ==
    /\ garment[g] = "none"
    /\ Busy = {}
    /\ garment' = [garment EXCEPT ![g] = "available"]
    /\ UNCHANGED <<slot, appts, session, regime>>

WithdrawsDelivered(p, g) ==   \* mutant: the status is not tested
    /\ garment[g] # "none"
    /\ MayStart(p, FALSE)
    /\ Start(p, [phase |-> "withdraw", garment |-> g])

\* withdraw_garment, also of a garment that is reserved for an appointment.
ReadToWithdraw(p, g) ==
    /\ garment[g] \in {"available", "reserved"}
    /\ MayStart(p, FALSE)
    /\ Start(p, [phase |-> "withdraw", garment |-> g])

CommitWithdraw(p) ==
    LET s == session[p] IN
    /\ s.phase = "withdraw"
    /\ garment[s.garment] # "none"
    /\ garment' = [garment EXCEPT ![s.garment] = "withdrawn"]
    /\ Finish(p)
    /\ UNCHANGED <<slot, appts>>

ReadToDelete(p, g) ==
    /\ garment[g] # "none"
    /\ MayStart(p, FALSE)
    /\ Start(p, [phase |-> "delete", garment |-> g])

\* delete_garment; appointments.garment_id may not be NULL, so a garment that ever had
\* an appointment stays.
CommitDelete(p) ==
    LET s == session[p] IN
    /\ s.phase = "delete"
    /\ garment[s.garment] # "none"
    /\ \A i \in 1 .. Len(appts) : appts[i].garment # s.garment
    /\ garment' = [garment EXCEPT ![s.garment] = "none"]
    /\ Finish(p)
    /\ UNCHANGED <<slot, appts>>

\* cancel_slot
ReadToClose(p, s) ==
    /\ slot[s].current = 0
    /\ MayStart(p, FALSE)
    /\ Start(p, [phase |-> "close", slot |-> s])

CommitClose(p) ==
    /\ session[p].phase = "close"
    /\ slot' = [slot EXCEPT ![session[p].slot].active = FALSE]
    /\ Finish(p)
    /\ UNCHANGED <<garment, appts>>

-----------------------------------------------------------------------------
Next ==
    \/ \E g \in Garments : AddGarment(g)
    \/ \E p \in Sessions :
          \/ Abort(p)
          \/ \E u \in Students, g \in Garments, s \in Slots : ReadToBook(p, u, g, s)
          \/ TakeCode(p)
          \/ CommitBooking(p)
          \/ \E i \in 1 .. Len(appts) :
                \/ ReadToCancel(p, i)
                \/ \E b \in BOOLEAN : ReadToMark(p, i, b) \/ ReadToComplete(p, i, b)
          \/ CommitChange(p)
          \/ \E g \in Garments : ReadToWithdraw(p, g) \/ ReadToDelete(p, g)
          \/ CommitWithdraw(p)
          \/ CommitDelete(p)
          \/ \E s \in Slots : ReadToClose(p, s)
          \/ CommitClose(p)

Spec == Init /\ [][Next]_vars

-----------------------------------------------------------------------------
(* Properties.                                                              *)

\* The count of a slot is the number of its appointments that were not cancelled, it
\* never passes the limit, and a closed slot has none: three handlers write the count
\* from a value read earlier, and only the UNIQUE code stops the second of two bookings
\* (appointment_service 14-29, 137-151, 178).  Nor has a student more scheduled
\* appointments than allowed.
SeatsAgree ==
    regime # "overlap" =>
       /\ \A u \in Students : Cardinality(Scheduled(u)) <= MaxActive
       /\ \A s \in Slots :
          LET taken == {i \in ApptsWith(ApptStatus \ {"cancelled"}) : appts[i].slot = s} IN
          /\ slot[s].current = Cardinality(taken)
          /\ slot[s].current <= Seats[s]
          /\ ~slot[s].active => taken = {}

\* A garment is kept for one student at a time and given once, to that student.
KeptFor(g) ==
    IF regime = "overlap" THEN {}
    ELSE {appts[i].student : i \in {j \in ApptsWith(Live) : appts[j].garment = g}}
GivenTo(g) ==
    IF regime = "overlap" THEN {}
    ELSE {appts[i].student : i \in {j \in ApptsWith({"taken"}) : appts[j].garment = g}}

Handout == INSTANCE GarmentHandout
    WITH kept <- [g \in Garments |-> KeptFor(g)], given <- [g \in Garments |-> GivenTo(g)]
HandoutSpec == Handout!HandoutSpec

\* A garment that was given is out of the catalogue for good, and one that is kept for
\* somebody is not offered to anybody else: the status of the garment and those of its
\* appointments live in different tables.
CatalogueAgrees ==
    regime # "overlap" =>
       \A g \in Garments :
          /\ garment[g] = "delivered" <=> GivenTo(g) # {}
          /\ garment[g] = "available" => KeptFor(g) = {}
          /\ garment[g] = "reserved" => KeptFor(g) # {}

=============================================================================
