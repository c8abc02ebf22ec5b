--------------------------- MODULE VisteTecProofs ---------------------------
(***************************************************************************)
(* Proofs about VisteTecAppointments, for any students, garments, slots,   *)
(* sessions and bounds: the types in every regime, and what the counts,    *)
(* the catalogue and the appointments say of each other in the two regimes *)
(* that keep the window between the two reads of a booking closed.         *)
(***************************************************************************)
EXTENDS VisteTecAppointments, FiniteSetTheorems, TLAPS

-----------------------------------------------------------------------------
(* What the sessions in flight have read.                                   *)

Sure == regime # "overlap"

Books(q) == session[q].phase \in {"code", "book"}

\* Two sessions overlap only if both are booking.
Apart ==
    \A p, q \in Busy : p # q => regime = "codes" /\ Books(p) /\ Books(q)

\* The code a booking took has not been used yet.
CodeFree(q) == session[q].phase = "code" \/ session[q].num = Len(appts) + 1

BookingCurrent(s) ==
    /\ s.row.status = "scheduled"
    /\ s.count = slot[s.row.slot].current + 1
    /\ HasSeat(s.row.slot)
    /\ garment[s.row.garment] = "available"
    /\ BelowLimit(s.row.student)

BookingsCurrent ==
    \A q \in Sessions : Books(q) =>
        /\ session[q].phase = "book" => session[q].num <= Len(appts) + 1
        /\ CodeFree(q) => BookingCurrent(session[q])

\* a change ends an appointment in one of these ways
Cancels(s, a) ==
    /\ a.status = "scheduled" /\ s.status = "cancelled"
    /\ s.count = IF slot[a.slot].current = 0 THEN 0 ELSE slot[a.slot].current - 1
    /\ s.counts <=> s.count # slot[a.slot].current

Attends(s, a) ==
    /\ a.status = "scheduled" /\ s.status = "attended" /\ s.cloth = "none"

Outcome(s, a) ==
    \/ a.status = "scheduled" /\ s.status = "no_show"
    \/ a.status = "attended" /\ s.status \in {"taken", "returned"}

\* the status the garment of the appointment will have
ClothAfter(s, a) == IF s.cloth = "none" THEN garment[a.garment] ELSE s.cloth

ChangeCurrent(s) ==
    /\ s.at <= Len(appts)
    /\ Cancels(s, appts[s.at]) \/ Attends(s, appts[s.at]) \/ Outcome(s, appts[s.at])
    /\ s.status # "cancelled" => ~ s.counts
    /\ s.status = "taken" => ClothAfter(s, appts[s.at]) = "delivered"
    /\ s.status \in {"cancelled", "no_show", "returned"} =>
          ClothAfter(s, appts[s.at]) = "available"

OthersCurrent ==
    \A q \in Sessions :
        /\ session[q].phase = "change" => ChangeCurrent(session[q])
        /\ session[q].phase = "withdraw" => garment[session[q].garment] \in {"available", "reserved"}
        /\ session[q].phase = "close" => slot[session[q].slot].current = 0

-----------------------------------------------------------------------------
(* The appointments of a garment.                                           *)

On(g, S) == {i \in ApptsWith(S) : appts[i].garment = g}

GarmentAgrees(g) ==
    /\ \A i, j \in On(g, Live \cup {"taken"}) : i = j
    /\ garment[g] = "none" => On(g, ApptStatus) = {}
    /\ garment[g] = "delivered" <=> On(g, {"taken"}) # {}
    /\ garment[g] = "available" => On(g, Live) = {}
    /\ garment[g] = "reserved" => On(g, Live) # {}

SureInv ==
    Sure => /\ Apart /\ BookingsCurrent /\ OthersCurrent
            /\ \A g \in Garments : GarmentAgrees(g)
            /\ SeatsAgree

-----------------------------------------------------------------------------
(* The shape of a session, and of the steps that only read.                 *)

SessionRow == {Idle} \cup Booking \cup Change \cup GarmentOp \cup SlotOp

LEMMA Phases ==
    ASSUME NEW s \in SessionRow
    PROVE  /\ s.phase \in {"idle", "code", "book", "change", "withdraw", "delete", "close"}
           /\ s.phase = "idle" <=> s = Idle
           /\ s.phase \in {"code", "book"} => s \in Booking
           /\ s.phase = "change" => s \in Change
           /\ s.phase \in {"withdraw", "delete"} => s \in GarmentOp
           /\ s.phase = "close" => s \in SlotOp
BY DEF SessionRow, Idle, Booking, Change, GarmentOp, SlotOp

\* what a session reads is current when it reads it
Reads(p, s) ==
    /\ s \in SessionRow \ {Idle} /\ s.phase # "book"
    /\ MayStart(p, s.phase = "code") /\ Start(p, s)
    /\ s.phase = "code" => BookingCurrent(s)
    /\ s.phase = "change" => ChangeCurrent(s)
    /\ s.phase = "withdraw" => garment[s.garment] \in {"available", "reserved"}
    /\ s.phase = "close" => slot[s.slot].current = 0

LEMMA ApptRow ==
    ASSUME TypeOK, NEW i \in 1 .. Len(appts)
    PROVE  /\ appts[i] \in Appointment
           /\ appts[i].student \in Students /\ appts[i].garment \in Garments
           /\ appts[i].slot \in Slots /\ appts[i].status \in ApptStatus
           /\ Count(i) \in Nat /\ garment[appts[i].garment] \in GarmentStatus
<1>1. appts[i] \in Appointment
    BY DEF TypeOK
<1>2. appts[i].slot \in Slots /\ appts[i].garment \in Garments
    BY <1>1 DEF Appointment
<1>3. slot[appts[i].slot] \in SlotRow /\ garment[appts[i].garment] \in GarmentStatus
    BY <1>2 DEF TypeOK
<1>. QED BY <1>1, <1>3 DEF Appointment, Count, SlotRow

LEMMA ReadsBooking ==
    ASSUME TypeOK, NEW p \in Sessions, NEW u \in Students, NEW g \in Garments, NEW s \in Slots,
           ReadToBook(p, u, g, s)
    PROVE  \E r \in SessionRow : Reads(p, r)
<1> DEFINE row == [student |-> u, garment |-> g, slot |-> s, status |-> "scheduled"]
           r == [phase |-> "code", row |-> row, count |-> slot[s].current + 1, num |-> 0]
<1>1. row \in Appointment
    BY DEF Appointment, ApptStatus, Live
<1>2. slot[s].current + 1 \in Nat /\ 0 \in 0 .. MaxAppts
    BY VisteTecBounds DEF TypeOK, SlotRow
<1>3. r \in Booking
    BY <1>1, <1>2 DEF Booking
<1>4. r \in SessionRow \ {Idle}
    BY <1>3 DEF SessionRow, Idle, Booking
<1>5. BookingCurrent(r)
    BY DEF ReadToBook, BookingCurrent
<1>6. MayStart(p, TRUE) /\ Start(p, r)
    BY DEF ReadToBook
<1>. QED BY <1>4, <1>5, <1>6 DEF Reads

\* A change of appointment that reads its row, its slot and its garment.
LEMMA ReadsChange ==
    ASSUME TypeOK, NEW p \in Sessions, NEW i \in 1 .. Len(appts), NEW status \in ApptStatus,
           NEW count \in Nat, NEW cloth \in GarmentStatus,
           ReadToChange(p, i, status, count, cloth),
           \/ appts[i].status = "scheduled" /\ status \in {"cancelled", "attended", "no_show"}
           \/ appts[i].status = "attended" /\ status \in {"taken", "returned"},
           status = "cancelled" => count = IF Count(i) = 0 THEN 0 ELSE Count(i) - 1,
           status # "cancelled" => count = Count(i),
           status = "attended" => cloth = garment[appts[i].garment],
           status = "taken" => cloth = "delivered",
           status \in {"cancelled", "no_show", "returned"} => cloth = "available"
    PROVE  \E r \in SessionRow : Reads(p, r)
<1> DEFINE a == appts[i]
           counts == count # slot[a.slot].current
           cl == IF cloth = garment[a.garment] THEN "none" ELSE cloth
           r == [phase |-> "change", at |-> i, status |-> status, count |-> count,
                 counts |-> counts, cloth |-> cl]
<1>1. a \in Appointment /\ i \in 1 .. MaxAppts
    BY VisteTecBounds DEF TypeOK
<1>2. counts \in BOOLEAN /\ cl \in GarmentStatus
    BY DEF GarmentStatus
<1>3. MayStart(p, FALSE) /\ Start(p, r)
    BY DEF ReadToChange
<1>4. /\ counts <=> count # Count(i)
      /\ cl = "none" => cloth = garment[a.garment]
      /\ cl # "none" => cl = cloth
      /\ cloth = garment[a.garment] => cl = "none"
    BY DEF Count
<1> HIDE DEF counts, cl
<1>5. r \in SessionRow \ {Idle}
    BY <1>1, <1>2 DEF SessionRow, Change, Idle
<1>6. ChangeCurrent(r)
    <2>1. /\ r.at = i /\ r.status = status /\ r.count = count /\ r.cloth = cl
          /\ r.counts <=> counts
        OBVIOUS
    <2>2. r.at <= Len(appts)
        BY <2>1 DEF TypeOK
    <2>3. Cancels(r, a) \/ Attends(r, a) \/ Outcome(r, a)
        BY <1>4, <2>1 DEF Cancels, Attends, Outcome, Count
    <2>4. r.status # "cancelled" => ~ r.counts
        BY <1>4, <2>1
    <2>5. cloth # "none" => ClothAfter(r, a) = cloth
        BY <1>4, <2>1 DEF ClothAfter
    <2>. QED BY <2>1, <2>2, <2>3, <2>4, <2>5 DEF ChangeCurrent
<1>. QED BY <1>3, <1>5, <1>6 DEF Reads

LEMMA ReadShapes ==
    ASSUME TypeOK, Next
    PROVE  \/ \E g \in Garments : AddGarment(g)
           \/ \E p \in Sessions :
                 \/ Abort(p) \/ TakeCode(p) \/ CommitBooking(p) \/ CommitChange(p)
                 \/ CommitWithdraw(p) \/ CommitDelete(p) \/ CommitClose(p)
                 \/ \E s \in SessionRow : Reads(p, s)
<1>1. ASSUME NEW p \in Sessions, NEW i \in 1 .. Len(appts), ReadToCancel(p, i)
      PROVE  \E s \in SessionRow : Reads(p, s)
    <2>1. Count(i) \in Nat /\ (IF Count(i) = 0 THEN 0 ELSE Count(i) - 1) \in Nat
        BY ApptRow
    <2>2. "cancelled" \in ApptStatus /\ "available" \in GarmentStatus
        BY DEF ApptStatus, GarmentStatus
    <2>. QED BY <1>1, <2>1, <2>2, ReadsChange DEF ReadToCancel
<1>2. ASSUME NEW p \in Sessions, NEW i \in 1 .. Len(appts), NEW b \in BOOLEAN, ReadToMark(p, i, b)
      PROVE  \E s \in SessionRow : Reads(p, s)
    <2>1. Count(i) \in Nat /\ garment[appts[i].garment] \in GarmentStatus
        BY ApptRow
    <2>2. {"attended", "no_show"} \subseteq ApptStatus /\ "available" \in GarmentStatus
        BY DEF ApptStatus, GarmentStatus, Live
    <2>3. CASE b
        <3>1. ReadToChange(p, i, "attended", Count(i), garment[appts[i].garment])
              /\ appts[i].status = "scheduled"
            BY <1>2, <2>3 DEF ReadToMark
        <3>. QED BY <2>1, <2>2, <3>1, ReadsChange
    <2>4. CASE ~ b
        <3>1. ReadToChange(p, i, "no_show", Count(i), "available") /\ appts[i].status = "scheduled"
            BY <1>2, <2>4 DEF ReadToMark
        <3>. QED BY <2>1, <2>2, <3>1, ReadsChange
    <2>. QED BY <2>3, <2>4
<1>3. ASSUME NEW p \in Sessions, NEW i \in 1 .. Len(appts), NEW b \in BOOLEAN, ReadToComplete(p, i, b)
      PROVE  \E s \in SessionRow : Reads(p, s)
    <2>1. Count(i) \in Nat
        BY ApptRow
    <2>2. {"taken", "returned"} \subseteq ApptStatus /\ {"delivered", "available"} \subseteq GarmentStatus
        BY DEF ApptStatus, GarmentStatus
    <2>3. CASE b
        <3>1. ReadToChange(p, i, "taken", Count(i), "delivered") /\ appts[i].status = "attended"
            BY <1>3, <2>3 DEF ReadToComplete
        <3>. QED BY <2>1, <2>2, <3>1, ReadsChange
    <2>4. CASE ~ b
        <3>1. ReadToChange(p, i, "returned", Count(i), "available") /\ appts[i].status = "attended"
            BY <1>3, <2>4 DEF ReadToComplete
        <3>. QED BY <2>1, <2>2, <3>1, ReadsChange
    <2>. QED BY <2>3, <2>4
<1>4. ASSUME NEW p \in Sessions, NEW g \in Garments, ReadToWithdraw(p, g) \/ ReadToDelete(p, g)
      PROVE  \E s \in SessionRow : Reads(p, s)
    <2>1. PICK ph \in {"withdraw", "delete"} :
             /\ MayStart(p, FALSE) /\ Start(p, [phase |-> ph, garment |-> g])
             /\ ph = "withdraw" => garment[g] \in {"available", "reserved"}
        BY <1>4 DEF ReadToWithdraw, ReadToDelete
    <2> DEFINE r == [phase |-> ph, garment |-> g]
    <2>2. r \in SessionRow \ {Idle}
        BY DEF SessionRow, GarmentOp, Idle
    <2>. QED BY <2>1, <2>2 DEF Reads
<1>5. ASSUME NEW p \in Sessions, NEW s \in Slots, ReadToClose(p, s)
      PROVE  \E r \in SessionRow : Reads(p, r)
    <2> DEFINE r == [phase |-> "close", slot |-> s]
    <2>1. r \in SessionRow \ {Idle}
        BY DEF SessionRow, SlotOp, Idle
    <2>. QED BY <1>5, <2>1 DEF ReadToClose, Reads
<1>. QED BY <1>1, <1>2, <1>3, <1>4, <1>5, ReadsBooking DEF Next

-----------------------------------------------------------------------------
(* Types.                                                                   *)

LEMMA TypeInit == Init => TypeOK
<1>1. [current |-> 0, active |-> TRUE] \in SlotRow
    BY DEF SlotRow
<1>2. <<>> \in Seq(Appointment) /\ Len(<<>>) <= MaxAppts
    BY VisteTecBounds
<1>. QED BY <1>1, <1>2, VisteTecRegimes DEF Init, TypeOK, GarmentStatus

LEMMA TypedSessions == TypeOK => session \in [Sessions -> SessionRow]
BY DEF TypeOK, SessionRow

\* What each commit writes.
LEMMA BookingWrites ==
    ASSUME TypeOK, NEW p \in Sessions, CommitBooking(p)
    PROVE  LET s == session[p]
           IN /\ s \in Booking /\ s.row \in Appointment /\ s.num = Len(appts) + 1
              /\ s.row.slot \in Slots /\ s.row.garment \in Garments /\ s.row.student \in Students
              /\ Len(appts') = Len(appts) + 1
              /\ \A i \in 1 .. Len(appts) : appts'[i] = appts[i]
              /\ appts'[Len(appts) + 1] = s.row
              /\ slot' = [slot EXCEPT ![s.row.slot].current = s.count]
              /\ garment' = [garment EXCEPT ![s.row.garment] = "reserved"]
              /\ appts' \in Seq(Appointment) /\ Len(appts') <= MaxAppts
              /\ slot' \in [Slots -> SlotRow] /\ garment' \in [Garments -> GarmentStatus]
<1> DEFINE s == session[p]
<1>1. s \in SessionRow /\ s.phase = "book"
    BY TypedSessions DEF CommitBooking
<1>2. s \in Booking
    BY <1>1, Phases
<1>3. /\ s.row \in Appointment /\ s.count \in Nat /\ s.num \in 0 .. MaxAppts
    BY <1>2 DEF Booking
<1>4. s.row.slot \in Slots /\ s.row.garment \in Garments /\ s.row.student \in Students
    BY <1>3 DEF Appointment
<1>5. /\ s.num = Len(appts) + 1 /\ appts' = Append(appts, s.row)
      /\ slot' = [slot EXCEPT ![s.row.slot].current = s.count]
      /\ garment' = [garment EXCEPT ![s.row.garment] = "reserved"]
    BY DEF CommitBooking
<1> HIDE DEF s
<1>6. appts \in Seq(Appointment)
    BY DEF TypeOK
<1>7. /\ appts' \in Seq(Appointment) /\ Len(appts') = Len(appts) + 1
      /\ \A i \in 1 .. Len(appts) : appts'[i] = appts[i]
      /\ appts'[Len(appts) + 1] = s.row
    BY <1>3, <1>5, <1>6
<1>8. Len(appts') <= MaxAppts
    BY <1>3, <1>5, <1>7, VisteTecBounds
<1>9. slot' \in [Slots -> SlotRow]
    BY <1>3, <1>4, <1>5 DEF TypeOK, SlotRow
<1>10. garment' \in [Garments -> GarmentStatus]
    BY <1>4, <1>5 DEF TypeOK, GarmentStatus
<1>. QED BY <1>2, <1>3, <1>4, <1>5, <1>7, <1>8, <1>9, <1>10 DEF s

LEMMA ChangeWrites ==
    ASSUME TypeOK, NEW p \in Sessions, CommitChange(p)
    PROVE  LET s == session[p]
           IN /\ s \in Change
              /\ appts' \in Seq(Appointment) /\ Len(appts') = Len(appts)
              /\ \A i \in 1 .. Len(appts) : i # s.at => appts'[i] = appts[i]
              /\ s.at \in 1 .. Len(appts) =>
                    /\ appts'[s.at].student = appts[s.at].student
                    /\ appts'[s.at].garment = appts[s.at].garment
                    /\ appts'[s.at].slot = appts[s.at].slot
                    /\ appts'[s.at].status = s.status
                    /\ ~ s.counts => slot' = slot
                    /\ s.counts => slot' = [slot EXCEPT ![appts[s.at].slot].current = s.count]
                    /\ garment' = [garment EXCEPT ![appts[s.at].garment] = ClothAfter(s, appts[s.at])]
                    /\ slot' \in [Slots -> SlotRow] /\ garment' \in [Garments -> GarmentStatus]
<1> DEFINE s == session[p]
<1>1. s \in SessionRow /\ s.phase = "change"
    BY TypedSessions DEF CommitChange
<1>2. s \in Change
    BY <1>1, Phases
<1>3. s.status \in ApptStatus /\ s.at \in 1 .. MaxAppts /\ s.count \in Nat /\ s.counts \in BOOLEAN
    BY <1>2 DEF Change
<1>4. /\ appts' = [appts EXCEPT ![s.at].status = s.status]
      /\ slot' = IF s.counts THEN [slot EXCEPT ![appts[s.at].slot].current = s.count] ELSE slot
      /\ garment' = [garment EXCEPT ![appts[s.at].garment] = IF s.cloth = "none" THEN @ ELSE s.cloth]
    BY DEF CommitChange
<1> HIDE DEF s
<1>5. appts \in Seq(Appointment)
    BY DEF TypeOK
<1>6. CASE s.at \in 1 .. Len(appts)
    <2>1. appts[s.at] \in Appointment
        BY <1>6, ApptRow
    <2>2. /\ [appts[s.at] EXCEPT !.status = s.status] \in Appointment
          /\ [appts[s.at] EXCEPT !.status = s.status].status = s.status
          /\ [appts[s.at] EXCEPT !.status = s.status].student = appts[s.at].student
          /\ [appts[s.at] EXCEPT !.status = s.status].garment = appts[s.at].garment
          /\ [appts[s.at] EXCEPT !.status = s.status].slot = appts[s.at].slot
        BY <1>3, <2>1 DEF Appointment
    <2>3. appts' = [appts EXCEPT ![s.at] = [appts[s.at] EXCEPT !.status = s.status]]
        BY <1>4
    <2>4. /\ appts' \in Seq(Appointment) /\ Len(appts') = Len(appts)
          /\ \A i \in 1 .. Len(appts) : i # s.at => appts'[i] = appts[i]
          /\ appts'[s.at] = [appts[s.at] EXCEPT !.status = s.status]
        BY <1>5, <1>6, <2>2, <2>3
    <2>5. garment' = [garment EXCEPT ![appts[s.at].garment] = ClothAfter(s, appts[s.at])]
        BY <1>4 DEF ClothAfter
    <2>6. appts[s.at].slot \in Slots /\ appts[s.at].garment \in Garments
        BY <2>1 DEF Appointment
    <2>7. slot' \in [Slots -> SlotRow]
        BY <1>3, <1>4, <2>6 DEF TypeOK, SlotRow
    <2>8. s.cloth \in GarmentStatus
        BY <1>2 DEF Change
    <2>9. garment' \in [Garments -> GarmentStatus]
        BY <2>5, <2>6, <2>8 DEF TypeOK, ClothAfter
    <2>. QED BY <1>2, <1>4, <2>2, <2>4, <2>5, <2>7, <2>9 DEF s
<1>7. CASE s.at \notin 1 .. Len(appts)
    <2>1. appts' = appts
        BY <1>4, <1>5, <1>7
    <2>. QED BY <1>2, <1>5, <1>7, <2>1 DEF s
<1>. QED BY <1>6, <1>7

\* What a session becomes, when nothing but it is written.
LEMMA SessionSet ==
    ASSUME TypeOK, NEW p \in Sessions, NEW s \in SessionRow, session' = [session EXCEPT ![p] = s]
    PROVE  /\ session' \in [Sessions -> SessionRow]
           /\ session'[p] = s
           /\ \A q \in Sessions : q # p => session'[q] = session[q]
BY TypedSessions

LEMMA TakeCodeWrites ==
    ASSUME TypeOK, NEW p \in Sessions, TakeCode(p)
    PROVE  \E s \in SessionRow :
              /\ session' = [session EXCEPT ![p] = s]
              /\ session[p].phase = "code" /\ s.phase = "book"
              /\ s.row = session[p].row /\ s.count = session[p].count
              /\ s.num = Len(appts) + 1
              /\ UNCHANGED <<garment, slot, appts, regime>>
<1> DEFINE r == session[p]
           s == [r EXCEPT !.phase = "book", !.num = Len(appts) + 1]
<1>1. r \in SessionRow /\ r.phase = "code" /\ Len(appts) < MaxAppts
    BY TypedSessions DEF TakeCode
<1>2. r \in Booking
    BY <1>1, Phases
<1>3. Len(appts) + 1 \in 0 .. MaxAppts
    BY <1>1, VisteTecBounds DEF TypeOK
<1>4. Start(p, s)
    BY DEF TakeCode
<1> HIDE DEF r
<1>5. s \in Booking /\ s.phase = "book" /\ s.row = r.row /\ s.count = r.count /\ s.num = Len(appts) + 1
    BY <1>2, <1>3 DEF Booking
<1>6. s \in SessionRow
    BY <1>5 DEF SessionRow
<1>7. session' = [session EXCEPT ![p] = s] /\ UNCHANGED <<garment, slot, appts, regime>>
    BY <1>4 DEF Start
<1> HIDE DEF s
<1>. QED BY <1>1, <1>5, <1>6, <1>7 DEF r

LEMMA OthersWrite ==
    ASSUME TypeOK, NEW p \in Sessions
    PROVE  /\ CommitWithdraw(p) =>
                 /\ session[p].garment \in Garments /\ UNCHANGED <<slot, appts>> /\ Finish(p)
                 /\ garment' = [garment EXCEPT ![session[p].garment] = "withdrawn"]
                 /\ garment' \in [Garments -> GarmentStatus]
           /\ CommitDelete(p) =>
                 /\ session[p].garment \in Garments /\ UNCHANGED <<slot, appts>> /\ Finish(p)
                 /\ garment' = [garment EXCEPT ![session[p].garment] = "none"]
                 /\ garment' \in [Garments -> GarmentStatus]
           /\ CommitClose(p) =>
                 /\ session[p].slot \in Slots /\ UNCHANGED <<garment, appts>> /\ Finish(p)
                 /\ slot' = [slot EXCEPT ![session[p].slot].active = FALSE]
                 /\ slot' \in [Slots -> SlotRow]
<1>1. session[p] \in SessionRow
    BY TypedSessions
<1>2. session[p].phase \in {"withdraw", "delete"} => session[p].garment \in Garments
    BY <1>1, Phases DEF GarmentOp
<1>3. session[p].phase = "close" => session[p].slot \in Slots
    BY <1>1, Phases DEF SlotOp
<1>4. CommitWithdraw(p) => garment' \in [Garments -> GarmentStatus]
    BY <1>2 DEF CommitWithdraw, TypeOK, GarmentStatus
<1>5. CommitDelete(p) => garment' \in [Garments -> GarmentStatus]
    BY <1>2 DEF CommitDelete, TypeOK, GarmentStatus
<1>6. ASSUME CommitClose(p)
      PROVE  slot' \in [Slots -> SlotRow]
    <2>1. slot' = [slot EXCEPT ![session[p].slot].active = FALSE] /\ session[p].slot \in Slots
        BY <1>3, <1>6 DEF CommitClose
    <2>. QED BY <2>1 DEF TypeOK, SlotRow
<1>. QED BY <1>2, <1>3, <1>4, <1>5, <1>6 DEF CommitWithdraw, CommitDelete, CommitClose

\* Appointments are never deleted, so the one a change names is there when it commits.
NamesAppt == \A q \in Sessions : session[q].phase = "change" => session[q].at <= Len(appts)

TypeInv == TypeOK /\ NamesAppt

LEMMA TypeInvInit == Init => TypeInv
BY TypeInit DEF Init, TypeInv, NamesAppt, Idle

LEMMA NamesKept ==
    ASSUME TypeInv, NEW p \in Sessions, NEW s \in SessionRow,
           session' = [session EXCEPT ![p] = s], s.phase = "change" => s.at <= Len(appts),
           Len(appts') \in Nat, Len(appts') >= Len(appts)
    PROVE  NamesAppt' /\ session' \in [Sessions -> SessionRow]
<1>1. /\ session' \in [Sessions -> SessionRow]
      /\ session'[p] = s
      /\ \A q \in Sessions : q # p => session'[q] = session[q]
    BY SessionSet DEF TypeInv
<1>2. Len(appts) \in Nat
    BY DEF TypeInv, TypeOK
<1>3. ASSUME NEW q \in Sessions, session'[q].phase = "change"
      PROVE  session'[q].at <= Len(appts')
    <2>1. session'[q] \in Change
        BY <1>1, <1>3, Phases
    <2>2. session'[q].at \in Nat
        BY <2>1, VisteTecBounds DEF Change
    <2>3. session'[q].at <= Len(appts)
        BY <1>1, <1>3 DEF TypeInv, NamesAppt
    <2>. QED BY <1>2, <2>2, <2>3
<1>. QED BY <1>1, <1>3 DEF NamesAppt

LEMMA TypeStep ==
    ASSUME TypeInv, [Next]_vars
    PROVE  TypeInv'
<1>1. TypeOK /\ NamesAppt /\ appts \in Seq(Appointment) /\ Len(appts) <= MaxAppts /\ Len(appts) \in Nat
    BY DEF TypeInv, TypeOK
<1>2. Idle \in SessionRow /\ Idle.phase # "change"
    BY DEF SessionRow, Idle
<1>3. CASE UNCHANGED vars
    BY <1>1, <1>3 DEF vars, TypeInv, TypeOK, NamesAppt
<1>4. ASSUME NEW g \in Garments, AddGarment(g)
      PROVE  TypeInv'
    <2>1. garment' \in [Garments -> GarmentStatus]
        BY <1>1, <1>4 DEF AddGarment, TypeOK, GarmentStatus
    <2>. QED BY <1>1, <1>4, <2>1 DEF AddGarment, TypeInv, TypeOK, NamesAppt
<1>5. ASSUME NEW p \in Sessions, NEW s \in SessionRow,
             session' = [session EXCEPT ![p] = s], s.phase = "change" => s.at <= Len(appts),
             UNCHANGED regime,
             appts' \in Seq(Appointment), Len(appts') <= MaxAppts, Len(appts') >= Len(appts),
             slot' \in [Slots -> SlotRow], garment' \in [Garments -> GarmentStatus]
      PROVE  TypeInv'
    <2>1. Len(appts') \in Nat
        BY <1>5
    <2>2. NamesAppt' /\ session' \in [Sessions -> SessionRow]
        BY <1>5, <2>1, NamesKept
    <2>. QED BY <1>1, <1>5, <2>2 DEF TypeInv, TypeOK, SessionRow
<1>6. slot \in [Slots -> SlotRow] /\ garment \in [Garments -> GarmentStatus]
    BY <1>1 DEF TypeOK
<1>7. ASSUME NEW p \in Sessions, Finish(p) \/ Abort(p)
      PROVE  session' = [session EXCEPT ![p] = Idle] /\ UNCHANGED regime
    BY <1>7 DEF Finish, Abort
<1>8. ASSUME NEW p \in Sessions, Abort(p)
      PROVE  TypeInv'
    <2>1. UNCHANGED <<garment, slot, appts>>
        BY <1>8 DEF Abort
    <2>. QED BY <1>1, <1>2, <1>5, <1>6, <1>7, <1>8, <2>1
<1>9. ASSUME NEW p \in Sessions, TakeCode(p)
      PROVE  TypeInv'
    <2>1. PICK s \in SessionRow :
              /\ session' = [session EXCEPT ![p] = s]
              /\ s.phase = "book"
              /\ UNCHANGED <<garment, slot, appts, regime>>
        BY <1>1, <1>9, TakeCodeWrites
    <2>2. s.phase = "change" => s.at <= Len(appts)
        BY <2>1
    <2>3. /\ appts' \in Seq(Appointment) /\ Len(appts') <= MaxAppts /\ Len(appts') >= Len(appts)
          /\ slot' \in [Slots -> SlotRow] /\ garment' \in [Garments -> GarmentStatus]
        BY <1>1, <1>6, <2>1
    <2>. QED BY <1>5, <2>1, <2>2, <2>3
<1>10. ASSUME NEW p \in Sessions, NEW s \in SessionRow, Reads(p, s)
       PROVE  TypeInv'
    <2>1. session' = [session EXCEPT ![p] = s] /\ UNCHANGED <<garment, slot, appts, regime>>
        BY <1>10 DEF Reads, Start
    <2>2. s.phase = "change" => s.at <= Len(appts)
        BY <1>10 DEF Reads, ChangeCurrent
    <2>3. /\ appts' \in Seq(Appointment) /\ Len(appts') <= MaxAppts /\ Len(appts') >= Len(appts)
          /\ slot' \in [Slots -> SlotRow] /\ garment' \in [Garments -> GarmentStatus]
        BY <1>1, <1>6, <2>1
    <2>. QED BY <1>5, <2>1, <2>2, <2>3
<1>11. ASSUME NEW p \in Sessions, CommitBooking(p)
       PROVE  TypeInv'
    <2>1. Finish(p)
        BY <1>11 DEF CommitBooking
    <2>2. /\ appts' \in Seq(Appointment) /\ Len(appts') <= MaxAppts /\ Len(appts') = Len(appts) + 1
          /\ slot' \in [Slots -> SlotRow] /\ garment' \in [Garments -> GarmentStatus]
        BY <1>1, <1>11, BookingWrites
    <2>. QED BY <1>1, <1>2, <1>5, <1>7, <2>1, <2>2
<1>12. ASSUME NEW p \in Sessions, CommitChange(p)
       PROVE  TypeInv'
    <2>1. Finish(p) /\ session[p].phase = "change"
        BY <1>12 DEF CommitChange
    <2>2. session[p] \in Change
        BY <1>1, <1>12, ChangeWrites
    <2>3. session[p].at \in 1 .. Len(appts)
        BY <1>1, <2>1, <2>2, VisteTecBounds DEF Change, NamesAppt
    <2>4. /\ appts' \in Seq(Appointment) /\ Len(appts') = Len(appts)
          /\ slot' \in [Slots -> SlotRow] /\ garment' \in [Garments -> GarmentStatus]
        BY <1>1, <1>12, <2>3, ChangeWrites
    <2>. QED BY <1>1, <1>2, <1>5, <1>7, <2>1, <2>4
<1>13. ASSUME NEW p \in Sessions, CommitWithdraw(p) \/ CommitDelete(p) \/ CommitClose(p)
       PROVE  TypeInv'
    <2>1. /\ Finish(p) /\ UNCHANGED appts
          /\ slot' \in [Slots -> SlotRow] /\ garment' \in [Garments -> GarmentStatus]
        BY <1>1, <1>6, <1>13, OthersWrite
    <2>. QED BY <1>1, <1>2, <1>5, <1>7, <2>1
<1>. QED BY <1>1, <1>3, <1>4, <1>8, <1>9, <1>10, <1>11, <1>12, <1>13, ReadShapes

\* Every row keeps its shape in every regime, and a change names an appointment that is there
\* (appointments are never deleted: appointment_service).
THEOREM VisteTecTypeCorrect == Spec => []TypeOK
<1>1. TypeInv => TypeOK
    BY DEF TypeInv
<1>. QED BY <1>1, TypeInvInit, TypeStep, PTL DEF Spec

-----------------------------------------------------------------------------
(* What the sessions in flight have read stays current.                     *)

\* the appointments a slot counts
Taken(s) == {i \in ApptsWith(ApptStatus \ {"cancelled"}) : appts[i].slot = s}

SlotAgrees(s) ==
    /\ slot[s].current = Cardinality(Taken(s))
    /\ slot[s].current <= Seats[s]
    /\ ~ slot[s].active => Taken(s) = {}

StudentAgrees(u) == Cardinality(Scheduled(u)) <= MaxActive

LEMMA SeatsMean ==
    SeatsAgree <=> (Sure => /\ \A u \in Students : StudentAgrees(u)
                            /\ \A s \in Slots : SlotAgrees(s))
BY Zenon DEF SeatsAgree, Sure, Taken, SlotAgrees, StudentAgrees

\* The tables are as they were, so what was true of them is.
LEMMA TablesKept ==
    ASSUME UNCHANGED <<garment, slot, appts, regime>>
    PROVE  /\ Sure' <=> Sure
           /\ \A g \in Garments : GarmentAgrees(g) => GarmentAgrees(g)'
           /\ SeatsAgree => SeatsAgree'
           /\ \A s \in SessionRow : /\ BookingCurrent(s) => BookingCurrent(s)'
                                    /\ ChangeCurrent(s) => ChangeCurrent(s)'
<1>1. garment' = garment /\ slot' = slot /\ appts' = appts /\ regime' = regime
    OBVIOUS
<1>2. ASSUME NEW g \in Garments, GarmentAgrees(g)
      PROVE  GarmentAgrees(g)'
    BY <1>1, <1>2 DEF GarmentAgrees, On, ApptsWith
<1>3. ASSUME SeatsAgree
      PROVE  SeatsAgree'
    <2>1. /\ \A u \in Students : Scheduled(u)' = Scheduled(u)
          /\ \A s \in Slots : Taken(s)' = Taken(s)
        BY <1>1 DEF Scheduled, Taken, ApptsWith
    <2>2. SeatsAgree' <=> (Sure' => /\ \A u \in Students : StudentAgrees(u)'
                                    /\ \A s \in Slots : SlotAgrees(s)')
        BY Zenon DEF SeatsAgree, Sure, Taken, SlotAgrees, StudentAgrees
    <2>. QED BY <1>1, <1>3, <2>1, <2>2, SeatsMean DEF Sure, StudentAgrees, SlotAgrees
<1>4. ASSUME NEW s \in SessionRow, BookingCurrent(s)
      PROVE  BookingCurrent(s)'
    BY <1>1, <1>4 DEF BookingCurrent, HasSeat, BelowLimit, Scheduled, ApptsWith
<1>5. ASSUME NEW s \in SessionRow, ChangeCurrent(s)
      PROVE  ChangeCurrent(s)'
    BY <1>1, <1>5 DEF ChangeCurrent, Cancels, Attends, Outcome, ClothAfter
<1>. QED BY <1>1, <1>2, <1>3, <1>4, <1>5 DEF Sure

\* The same of what a session will have read.
LEMMA ReadThen ==
    ASSUME NEW q \in Sessions, NEW r \in SessionRow, session'[q] = r
    PROVE  /\ BookingCurrent(r)' => BookingCurrent(session[q])'
           /\ ChangeCurrent(r)' => ChangeCurrent(session[q])'
<1>1. BookingCurrent(r)' => BookingCurrent(session[q])'
    BY DEF BookingCurrent, HasSeat, BelowLimit, Scheduled, ApptsWith
<1>2. ChangeCurrent(r)' => ChangeCurrent(session[q])'
    BY DEF ChangeCurrent, Cancels, Attends, Outcome, ClothAfter
<1>. QED BY <1>1, <1>2

LEMMA BusyAre == TypeOK => \A q \in Sessions : (q \in Busy <=> session[q] # Idle)
BY TypedSessions, Phases DEF Busy, Idle

\* A session that starts, goes on or stops without writing a table.
LEMMA FlightKept ==
    ASSUME TypeInv, SureInv, Sure, NEW p \in Sessions, NEW s \in SessionRow,
           session' = [session EXCEPT ![p] = s], UNCHANGED <<garment, slot, appts, regime>>,
           \/ s = Idle
           \/ Books(p) /\ s.phase = "book"
           \/ MayStart(p, s.phase = "code") /\ s.phase # "book",
           s.phase \in {"code", "book"} => BookingCurrent(s),
           s.phase = "book" => s.num = Len(appts) + 1,
           s.phase = "change" => ChangeCurrent(s),
           s.phase = "withdraw" => garment[s.garment] \in {"available", "reserved"},
           s.phase = "close" => slot[s.slot].current = 0
    PROVE  SureInv'
<1>1. TypeOK /\ Apart /\ BookingsCurrent /\ OthersCurrent /\ SeatsAgree
      /\ \A g \in Garments : GarmentAgrees(g)
    BY DEF SureInv, TypeInv
<1>2. /\ session' \in [Sessions -> SessionRow] /\ session'[p] = s
      /\ \A q \in Sessions : q # p => session'[q] = session[q]
    BY <1>1, SessionSet
<1>3. garment' = garment /\ slot' = slot /\ appts' = appts /\ regime' = regime
    OBVIOUS
<1>4. /\ Sure' /\ SeatsAgree' /\ \A g \in Garments : GarmentAgrees(g)'
      /\ \A r \in SessionRow : /\ BookingCurrent(r) => BookingCurrent(r)'
                               /\ ChangeCurrent(r) => ChangeCurrent(r)'
    BY <1>1, TablesKept
<1>5. Apart'
    <2>1. ASSUME NEW q \in Busy', NEW r \in Busy', q # r
          PROVE  regime' = "codes" /\ Books(q)' /\ Books(r)'
        <3>1. q \in Sessions /\ r \in Sessions /\ session'[q].phase # "idle" /\ session'[r].phase # "idle"
            BY DEF Busy
        <3>2. CASE q # p /\ r # p
            <4>1. q \in Busy /\ r \in Busy
                BY <1>2, <3>1, <3>2 DEF Busy
            <4>. QED BY <1>1, <1>2, <1>3, <2>1, <3>1, <3>2, <4>1 DEF Apart, Books
        <3>3. ASSUME NEW t \in Sessions, t # p, session'[t].phase # "idle", s.phase # "idle"
              PROVE  regime = "codes" /\ session[t].phase \in {"code", "book"} /\ s.phase \in {"code", "book"}
            <4>1. t \in Busy
                BY <1>2, <3>3 DEF Busy
            <4>2. CASE Books(p) /\ s.phase = "book"
                <5>1. p \in Busy
                    BY <4>2 DEF Books, Busy
                <5>. QED BY <1>1, <3>3, <4>1, <4>2, <5>1 DEF Apart, Books
            <4>3. CASE MayStart(p, s.phase = "code") /\ s.phase # "book"
                <5>1. regime = "codes"
                    BY <1>1, <4>1, <4>3 DEF MayStart, Sure, TypeOK
                <5>. QED BY <4>1, <4>3, <5>1 DEF MayStart
            <4>. QED BY <3>3, <4>2, <4>3 DEF Idle
        <3>4. CASE q = p
            BY <1>2, <1>3, <2>1, <3>1, <3>3, <3>4 DEF Books
        <3>5. CASE r = p
            BY <1>2, <1>3, <2>1, <3>1, <3>3, <3>5 DEF Books
        <3>. QED BY <3>2, <3>4, <3>5
    <2>. QED BY <2>1 DEF Apart
<1>6. BookingsCurrent'
    <2>1. ASSUME NEW q \in Sessions, Books(q)'
          PROVE  /\ session'[q].phase = "book" => session'[q].num <= Len(appts') + 1
                 /\ CodeFree(q)' => BookingCurrent(session[q])'
        <3>0. Len(appts) \in Nat /\ session'[q] \in SessionRow
            BY <1>1, <1>2 DEF TypeOK
        <3>1. CASE q = p
            <4>1. session'[q] = s /\ s.phase \in {"code", "book"}
                BY <1>2, <2>1, <3>1 DEF Books
            <4>2. BookingCurrent(s)'
                BY <1>4, <4>1
            <4>3. BookingCurrent(session[q])'
                BY <4>1, <4>2, ReadThen
            <4>. QED BY <1>3, <3>0, <4>1, <4>3
        <3>2. CASE q # p
            <4>1. Books(q) /\ session'[q] = session[q] /\ (CodeFree(q)' <=> CodeFree(q))
                BY <1>2, <1>3, <2>1, <3>2 DEF Books, CodeFree
            <4>2. /\ session[q].phase = "book" => session[q].num <= Len(appts) + 1
                  /\ CodeFree(q) => BookingCurrent(session[q])
                BY <1>1, <4>1 DEF BookingsCurrent
            <4>3. PICK r \in SessionRow : r = session[q]
                BY <1>1, TypedSessions
            <4>4. session'[q] = r
                BY <4>1, <4>3
            <4>5. CodeFree(q) => BookingCurrent(r)
                BY <4>2, <4>3
            <4>6. CodeFree(q) => BookingCurrent(r)'
                BY <1>4, <4>4, <4>5
            <4>7. CodeFree(q)' => BookingCurrent(session[q])'
                BY <4>1, <4>4, <4>6, ReadThen
            <4>. QED BY <1>3, <4>1, <4>2, <4>7
        <3>. QED BY <3>1, <3>2
    <2>. QED BY <2>1 DEF BookingsCurrent
<1>7. OthersCurrent'
    <2>1. ASSUME NEW q \in Sessions
          PROVE  /\ session'[q].phase = "change" => ChangeCurrent(session[q])'
                 /\ session'[q].phase = "withdraw" =>
                       garment'[session'[q].garment] \in {"available", "reserved"}
                 /\ session'[q].phase = "close" => slot'[session'[q].slot].current = 0
        <3>1. session'[q] \in SessionRow
            BY <1>2
        <3>2. CASE q = p
            <4>1. s.phase = "change" => ChangeCurrent(session[q])'
                BY <1>2, <1>4, <3>2, ReadThen
            <4>. QED BY <1>2, <1>3, <3>2, <4>1
        <3>3. CASE q # p
            <4>0. PICK r \in SessionRow : r = session[q]
                BY <1>1, TypedSessions
            <4>1. /\ session'[q] = r
                  /\ r.phase = "change" => ChangeCurrent(r)
                  /\ r.phase = "withdraw" => garment[r.garment] \in {"available", "reserved"}
                  /\ r.phase = "close" => slot[r.slot].current = 0
                <5>1. session'[q] = session[q]
                    BY <1>2, <3>3
                <5>. QED BY <1>1, <4>0, <5>1 DEF OthersCurrent
            <4>2. r.phase = "change" => ChangeCurrent(session[q])'
                BY <1>4, <4>1, ReadThen
            <4>. QED BY <1>3, <4>1, <4>2
        <3>. QED BY <3>2, <3>3
    <2>. QED BY <2>1 DEF OthersCurrent
<1>. QED BY <1>4, <1>5, <1>6, <1>7 DEF SureInv

\* After a commit the others are idle, or are bookings whose code has just been used.
LEMMA CommitLeaves ==
    ASSUME TypeInv, SureInv, Sure, NEW p \in Sessions, session[p] # Idle, Finish(p),
           \/ ~ Books(p)
           \/ Len(appts') = Len(appts) + 1
    PROVE  Sure' /\ Apart' /\ BookingsCurrent' /\ OthersCurrent'
<1>1. TypeOK /\ Apart /\ BookingsCurrent
    BY DEF SureInv, TypeInv
<1>2. Idle \in SessionRow
    BY DEF SessionRow
<1>3. session' = [session EXCEPT ![p] = Idle] /\ regime' = regime /\ NoWindow
    BY DEF Finish
<1>4. /\ session' \in [Sessions -> SessionRow] /\ session'[p] = Idle
      /\ \A q \in Sessions : q # p => session'[q] = session[q]
    BY <1>1, <1>2, <1>3, SessionSet
<1>5. p \in Busy
    BY <1>1, BusyAre
<1>6. ASSUME NEW q \in Sessions, session'[q].phase # "idle"
      PROVE  /\ q # p /\ q \in Busy /\ session'[q] = session[q]
             /\ regime = "codes" /\ Books(p) /\ Books(q) /\ session[q].phase = "book"
    <2>1. q # p /\ q \in Busy /\ session'[q] = session[q]
        BY <1>4, <1>6 DEF Idle, Busy
    <2>2. regime = "codes" /\ Books(p) /\ Books(q)
        BY <1>1, <1>5, <2>1 DEF Apart
    <2>. QED BY <1>3, <2>1, <2>2 DEF NoWindow, Books
<1>7. Apart'
    <2>1. ASSUME NEW q \in Busy', NEW r \in Busy'
          PROVE  regime' = "codes" /\ Books(q)' /\ Books(r)'
        <3>1. q \in Sessions /\ r \in Sessions /\ session'[q].phase # "idle" /\ session'[r].phase # "idle"
            BY DEF Busy
        <3>. QED BY <1>3, <1>6, <3>1 DEF Books
    <2>. QED BY <2>1 DEF Apart
<1>8. BookingsCurrent'
    <2>1. ASSUME NEW q \in Sessions, Books(q)'
          PROVE  /\ session'[q].num <= Len(appts') + 1
                 /\ ~ CodeFree(q)'
        <3>1. session'[q].phase # "idle"
            BY <2>1 DEF Books
        <3>2. session'[q] = session[q] /\ Books(p) /\ Books(q) /\ session[q].phase = "book"
            BY <1>6, <3>1
        <3>3. session[q].num <= Len(appts) + 1
            BY <1>1, <3>2 DEF BookingsCurrent
        <3>4. session[q] \in Booking
            BY <1>1, <3>2, TypedSessions, Phases
        <3>5. session[q].num \in Nat /\ Len(appts) \in Nat
            BY <1>1, <3>4, VisteTecBounds DEF Booking, TypeOK
        <3>. QED BY <3>2, <3>3, <3>5 DEF CodeFree
    <2>. QED BY <2>1 DEF BookingsCurrent
<1>9. OthersCurrent'
    BY <1>6 DEF OthersCurrent
<1>. QED BY <1>3, <1>7, <1>8, <1>9 DEF Sure

\* Starting, going on with and giving up what writes no table.
LEMMA QuietKeeps ==
    ASSUME TypeInv, SureInv, Sure, NEW p \in Sessions,
           Abort(p) \/ TakeCode(p) \/ \E s \in SessionRow : Reads(p, s)
    PROVE  SureInv'
<1>1. TypeOK /\ BookingsCurrent
    BY DEF TypeInv, SureInv
<1>2. CASE Abort(p)
    <2>1. session' = [session EXCEPT ![p] = Idle] /\ UNCHANGED <<garment, slot, appts, regime>>
        BY <1>2 DEF Abort
    <2>2. Idle \in SessionRow /\ Idle.phase = "idle"
        BY DEF SessionRow, Idle
    <2>. QED BY <2>1, <2>2, FlightKept
<1>3. CASE TakeCode(p)
    <2>1. PICK s \in SessionRow :
              /\ session' = [session EXCEPT ![p] = s]
              /\ session[p].phase = "code" /\ s.phase = "book"
              /\ s.row = session[p].row /\ s.count = session[p].count
              /\ s.num = Len(appts) + 1
              /\ UNCHANGED <<garment, slot, appts, regime>>
        BY <1>1, <1>3, TakeCodeWrites
    <2>2. Books(p) /\ BookingCurrent(session[p])
        BY <1>1, <2>1 DEF Books, BookingsCurrent, CodeFree
    <2>3. BookingCurrent(s)
        BY <2>1, <2>2 DEF BookingCurrent
    <2>. QED BY <2>1, <2>2, <2>3, FlightKept
<1>4. ASSUME NEW s \in SessionRow, Reads(p, s)
      PROVE  SureInv'
    <2>1. session' = [session EXCEPT ![p] = s] /\ UNCHANGED <<garment, slot, appts, regime>>
        BY <1>4 DEF Reads, Start
    <2>2. /\ MayStart(p, s.phase = "code") /\ s.phase # "book"
          /\ s.phase = "code" => BookingCurrent(s)
          /\ s.phase = "change" => ChangeCurrent(s)
          /\ s.phase = "withdraw" => garment[s.garment] \in {"available", "reserved"}
          /\ s.phase = "close" => slot[s.slot].current = 0
        BY <1>4 DEF Reads
    <2>3. s.phase \in {"code", "book"} => BookingCurrent(s)
        BY <2>2
    <2>. QED BY <2>1, <2>2, <2>3, FlightKept
<1>. QED BY <1>2, <1>3, <1>4

-----------------------------------------------------------------------------
(* The garments and their appointments.                                     *)

LEMMA OnMembers ==
    \A g, S, i : (i \in On(g, S) <=> /\ i \in 1 .. Len(appts)
                                     /\ appts[i].status \in S /\ appts[i].garment = g)
BY DEF On, ApptsWith

\* The appointments of the garments after a booking.
LEMMA BookingOn ==
    ASSUME TypeInv, SureInv, Sure, NEW p \in Sessions, CommitBooking(p)
    PROVE  LET r == session[p].row
               n == Len(appts) + 1
           IN /\ r.garment \in Garments /\ r.student \in Students
              /\ garment[r.garment] = "available" /\ garment' = [garment EXCEPT ![r.garment] = "reserved"]
              /\ appts'[n] = r /\ \A i \in 1 .. Len(appts) : appts'[i] = appts[i]
              /\ \A g \in Garments : \A S :
                    /\ On(g, S) \subseteq 1 .. Len(appts)
                    /\ On(g, S)' = IF g = r.garment /\ "scheduled" \in S THEN On(g, S) \cup {n} ELSE On(g, S)
<1> DEFINE s == session[p]
           n == Len(appts) + 1
<1>1. TypeOK /\ BookingsCurrent
    BY DEF TypeInv, SureInv
<1>2. /\ s.row.garment \in Garments /\ s.row.student \in Students
      /\ Len(appts') = n
      /\ \A i \in 1 .. Len(appts) : appts'[i] = appts[i]
      /\ appts'[n] = s.row
      /\ garment' = [garment EXCEPT ![s.row.garment] = "reserved"]
      /\ s.num = n
    BY <1>1, BookingWrites
<1>3. s.row.status = "scheduled" /\ garment[s.row.garment] = "available"
    <2>1. Books(p) /\ CodeFree(p)
        BY <1>2 DEF CommitBooking, Books, CodeFree
    <2>. QED BY <1>1, <2>1 DEF BookingsCurrent, BookingCurrent
<1>4. Len(appts) \in Nat
    BY <1>1 DEF TypeOK
<1> HIDE DEF s
<1>5. ASSUME NEW g \in Garments, NEW S
      PROVE  /\ On(g, S) \subseteq 1 .. Len(appts)
             /\ On(g, S)' = IF g = s.row.garment /\ "scheduled" \in S THEN On(g, S) \cup {n} ELSE On(g, S)
    BY <1>2, <1>3, <1>4 DEF On, ApptsWith
<1>. QED BY <1>2, <1>3, <1>5 DEF s

LEMMA BookingGarments ==
    ASSUME TypeInv, SureInv, Sure, NEW p \in Sessions, CommitBooking(p)
    PROVE  \A g \in Garments : GarmentAgrees(g)'
<1> DEFINE r == session[p].row
           n == Len(appts) + 1
<1>1. garment \in [Garments -> GarmentStatus] /\ \A g \in Garments : GarmentAgrees(g)
    BY DEF TypeInv, TypeOK, SureInv
<1>2. /\ r.garment \in Garments /\ garment[r.garment] = "available"
      /\ garment' = [garment EXCEPT ![r.garment] = "reserved"]
      /\ \A g \in Garments : \A S :
            On(g, S)' = IF g = r.garment /\ "scheduled" \in S THEN On(g, S) \cup {n} ELSE On(g, S)
    BY BookingOn
<1> HIDE DEF r, n
<1>3. ASSUME NEW g \in Garments
      PROVE  GarmentAgrees(g)'
    <2>1. GarmentAgrees(g)
        BY <1>1
    <2>2. CASE g # r.garment
        <3>1. garment'[g] = garment[g]
            BY <1>1, <1>2, <2>2
        <3>2. \A S : On(g, S)' = On(g, S)
            BY <1>2, <2>2
        <3>. QED BY <2>1, <3>1, <3>2 DEF GarmentAgrees
    <2>3. CASE g = r.garment
        <3>1. garment'[g] = "reserved" /\ garment[g] = "available"
            BY <1>1, <1>2, <2>3
        <3>2. On(g, Live) = {} /\ On(g, {"taken"}) = {}
            BY <2>1, <3>1 DEF GarmentAgrees
        <3>3. On(g, Live \cup {"taken"}) = {}
            BY <3>2, OnMembers
        <3>4. On(g, Live)' = {n} /\ On(g, {"taken"})' = {} /\ On(g, Live \cup {"taken"})' = {n}
            BY <1>2, <2>3, <3>2, <3>3 DEF Live
        <3>. QED BY <3>1, <3>4 DEF GarmentAgrees
    <2>. QED BY <2>2, <2>3
<1>. QED BY <1>3

\* What an appointment that ends tells about the one a session changes.
LEMMA ChangeIs ==
    ASSUME TypeInv, SureInv, Sure, NEW p \in Sessions, CommitChange(p)
    PROVE  /\ session[p] \in Change /\ session[p].at \in 1 .. Len(appts)
           /\ appts[session[p].at] \in Appointment /\ ChangeCurrent(session[p])
<1>1. TypeOK /\ NamesAppt /\ OthersCurrent
    BY DEF TypeInv, SureInv
<1>2. session[p].phase = "change"
    BY DEF CommitChange
<1>3. session[p] \in Change
    BY <1>1, ChangeWrites
<1>4. session[p].at \in 1 .. Len(appts)
    BY <1>1, <1>2, <1>3, VisteTecBounds DEF Change, NamesAppt, TypeOK
<1>. QED BY <1>1, <1>2, <1>3, <1>4, ApptRow DEF OthersCurrent

\* The appointments of the garments after a change of appointment.
LEMMA ChangeOn ==
    ASSUME TypeInv, SureInv, Sure, NEW p \in Sessions, CommitChange(p)
    PROVE  LET s == session[p]
               a == appts[s.at]
           IN /\ a.garment \in Garments /\ a.student \in Students
              /\ appts'[s.at].student = a.student
              /\ \A i \in 1 .. Len(appts) : i # s.at => appts'[i] = appts[i]
              /\ \A g \in Garments : \A S :
                    /\ On(g, S) \subseteq 1 .. Len(appts)
                    /\ g # a.garment => On(g, S)' = On(g, S) /\ s.at \notin On(g, S)
              /\ \A g \in Garments : g = a.garment =>
                    /\ On(g, Live) = {s.at} /\ On(g, {"taken"}) = {}
                    /\ On(g, Live)' = IF s.status \in Live THEN {s.at} ELSE {}
                    /\ On(g, {"taken"})' = IF s.status = "taken" THEN {s.at} ELSE {}
                    /\ On(g, Live \cup {"taken"})' \subseteq {s.at}
<1> DEFINE s == session[p]
           k == s.at
           a == appts[k]
<1>1. TypeOK /\ \A h \in Garments : GarmentAgrees(h)
    BY DEF TypeInv, SureInv
<1>2. s \in Change /\ k \in 1 .. Len(appts) /\ a \in Appointment /\ ChangeCurrent(s)
    BY ChangeIs
<1>3. /\ Len(appts') = Len(appts)
      /\ \A i \in 1 .. Len(appts) : i # k => appts'[i] = appts[i]
      /\ appts'[k].garment = a.garment /\ appts'[k].status = s.status
      /\ appts'[k].student = a.student
    BY <1>1, <1>2, ChangeWrites
<1>4. a.garment \in Garments /\ a.student \in Students /\ a.status \in Live /\ Len(appts) \in Nat
    BY <1>1, <1>2 DEF Appointment, TypeOK, ChangeCurrent, Cancels, Attends, Outcome, Live
<1> HIDE DEF s, k, a
<1>5. ASSUME NEW h \in Garments, NEW S
      PROVE  /\ On(h, S) \subseteq 1 .. Len(appts)
             /\ \A i : i \in On(h, S)' <=> IF i = k THEN h = a.garment /\ s.status \in S ELSE i \in On(h, S)
             /\ k \in On(h, S) <=> h = a.garment /\ a.status \in S
    <2>1. \A i : i \in On(h, S)' <=> /\ i \in 1 .. Len(appts')
                                     /\ appts'[i].status \in S /\ appts'[i].garment = h
        BY DEF On, ApptsWith
    <2>2. k \in On(h, S) <=> h = a.garment /\ a.status \in S
        BY <1>2, OnMembers DEF a
    <2>3. \A i : i # k => (i \in On(h, S)' <=> i \in On(h, S))
        BY <1>2, <1>3, <2>1, OnMembers
    <2>4. k \in On(h, S)' <=> h = a.garment /\ s.status \in S
        BY <1>2, <1>3, <2>1
    <2>5. On(h, S) \subseteq 1 .. Len(appts)
        BY OnMembers
    <2>6. \A i : i \in On(h, S)' <=> IF i = k THEN h = a.garment /\ s.status \in S ELSE i \in On(h, S)
        BY <2>3, <2>4
    <2>. QED BY <2>2, <2>5, <2>6
<1>6. ASSUME NEW h \in Garments, NEW S, h # a.garment
      PROVE  On(h, S)' = On(h, S) /\ k \notin On(h, S)
    <2>1. k \notin On(h, S)
        BY <1>5, <1>6
    <2>2. \A i : i \in On(h, S)' <=> IF i = k THEN h = a.garment /\ s.status \in S ELSE i \in On(h, S)
        BY <1>5
    <2>3. \A i : i \in On(h, S)' <=> i \in On(h, S)
        BY <1>6, <2>1, <2>2
    <2>. QED BY <2>1, <2>3
<1>7. ASSUME NEW g \in Garments, g = a.garment
      PROVE  /\ On(g, Live) = {k} /\ On(g, {"taken"}) = {}
             /\ On(g, Live)' = IF s.status \in Live THEN {k} ELSE {}
             /\ On(g, {"taken"})' = IF s.status = "taken" THEN {k} ELSE {}
             /\ On(g, Live \cup {"taken"})' \subseteq {k}
    <2>1. k \in On(g, Live) /\ k \in On(g, Live \cup {"taken"}) /\ k \notin On(g, {"taken"})
        BY <1>4, <1>5, <1>7 DEF Live
    <2>2. On(g, Live \cup {"taken"}) = {k}
        BY <1>1, <2>1 DEF GarmentAgrees
    <2>3. On(g, Live) = {k} /\ On(g, {"taken"}) = {}
        <3>1. On(g, Live) \subseteq {k} /\ On(g, {"taken"}) \subseteq {k}
            BY <2>2, OnMembers
        <3>. QED BY <2>1, <3>1
    <2>4. On(g, Live \cup {"taken"})' \subseteq {k}
        <3>1. \A i : i \in On(g, Live \cup {"taken"})' /\ i # k => i \in On(g, Live \cup {"taken"})
            BY <1>5
        <3>. QED BY <2>2, <3>1
    <2>5. /\ On(g, Live)' = IF s.status \in Live THEN {k} ELSE {}
          /\ On(g, {"taken"})' = IF s.status = "taken" THEN {k} ELSE {}
        <3>1. ASSUME NEW S, On(g, S) \subseteq {k}
              PROVE  On(g, S)' = IF s.status \in S THEN {k} ELSE {}
            <4>1. \A i : i \in On(g, S)' <=> i = k /\ s.status \in S
                BY <1>5, <1>7, <3>1
            <4>. QED BY <4>1
        <3>. QED BY <2>3, <3>1
    <2>. QED BY <2>3, <2>4, <2>5
<1>8. \A g \in Garments : \A S :
         /\ On(g, S) \subseteq 1 .. Len(appts)
         /\ g # a.garment => On(g, S)' = On(g, S) /\ k \notin On(g, S)
    BY <1>5, <1>6
<1>9. \A g \in Garments : g = a.garment =>
         /\ On(g, Live) = {k} /\ On(g, {"taken"}) = {}
         /\ On(g, Live)' = IF s.status \in Live THEN {k} ELSE {}
         /\ On(g, {"taken"})' = IF s.status = "taken" THEN {k} ELSE {}
         /\ On(g, Live \cup {"taken"})' \subseteq {k}
    BY <1>7
<1>. QED BY <1>3, <1>4, <1>8, <1>9 DEF s, k, a

LEMMA ChangeGarments ==
    ASSUME TypeInv, SureInv, Sure, NEW p \in Sessions, CommitChange(p)
    PROVE  \A g \in Garments : GarmentAgrees(g)'
<1> DEFINE s == session[p]
           k == s.at
           a == appts[k]
<1>1. TypeOK /\ \A g \in Garments : GarmentAgrees(g)
    BY DEF TypeInv, SureInv
<1>2. k \in 1 .. Len(appts) /\ a \in Appointment /\ ChangeCurrent(s)
    BY ChangeIs
<1>3. garment' = [garment EXCEPT ![a.garment] = ClothAfter(s, a)]
    BY <1>1, <1>2, ChangeWrites
<1>4. garment \in [Garments -> GarmentStatus]
    BY <1>1 DEF TypeOK
<1>5. /\ \/ a.status = "scheduled" /\ s.status \in {"cancelled", "no_show"}
         \/ a.status = "scheduled" /\ s.status = "attended" /\ ClothAfter(s, a) = garment[a.garment]
         \/ a.status = "attended" /\ s.status \in {"taken", "returned"}
      /\ s.status = "taken" => ClothAfter(s, a) = "delivered"
      /\ s.status \in {"cancelled", "no_show", "returned"} => ClothAfter(s, a) = "available"
    BY <1>2 DEF ChangeCurrent, Cancels, Attends, Outcome, ClothAfter
<1>6. /\ a.garment \in Garments
      /\ \A g \in Garments : \A S : g # a.garment => On(g, S)' = On(g, S)
      /\ \A g \in Garments : g = a.garment =>
            /\ On(g, Live) = {k} /\ On(g, {"taken"}) = {}
            /\ On(g, Live)' = IF s.status \in Live THEN {k} ELSE {}
            /\ On(g, {"taken"})' = IF s.status = "taken" THEN {k} ELSE {}
            /\ On(g, Live \cup {"taken"})' \subseteq {k}
    BY ChangeOn
<1> HIDE DEF s, k, a
<1>7. ASSUME NEW g \in Garments
      PROVE  GarmentAgrees(g)'
    <2>1. GarmentAgrees(g)
        BY <1>1
    <2>2. CASE g # a.garment
        <3>1. garment'[g] = garment[g]
            BY <1>3, <1>4, <1>6, <2>2
        <3>. QED BY <1>6, <2>1, <2>2, <3>1 DEF GarmentAgrees
    <2>3. CASE g = a.garment
        <3>1. garment'[g] = ClothAfter(s, a)
            BY <1>3, <1>4, <2>3
        <3>2. k \in On(g, ApptStatus)
            BY <1>6, <2>3, OnMembers DEF ApptStatus
        <3>3. garment[g] \notin {"none", "delivered", "available"}
            BY <1>6, <2>1, <2>3, <3>2 DEF GarmentAgrees
        <3>4. garment'[g] # "none"
            BY <1>5, <2>3, <3>1, <3>3
        <3>5. \A i, j \in On(g, Live \cup {"taken"})' : i = j
            BY <1>6, <2>3
        <3>6. /\ garment'[g] = "delivered" <=> s.status = "taken"
              /\ garment'[g] = "available" => s.status \notin Live
              /\ garment'[g] = "reserved" => s.status \in Live
            BY <1>5, <2>3, <3>1, <3>3 DEF Live
        <3>. QED BY <1>6, <2>3, <3>4, <3>5, <3>6 DEF GarmentAgrees
    <2>. QED BY <2>2, <2>3
<1>. QED BY <1>7

\* Withdrawing, deleting and closing leave the appointments as they are.
LEMMA PlainGarments ==
    ASSUME TypeInv, SureInv, Sure,
           \/ \E g \in Garments : AddGarment(g)
           \/ \E p \in Sessions : CommitWithdraw(p) \/ CommitDelete(p) \/ CommitClose(p)
    PROVE  \A g \in Garments : GarmentAgrees(g)'
<1>1. TypeOK /\ OthersCurrent /\ \A g \in Garments : GarmentAgrees(g)
    BY DEF TypeInv, SureInv
<1>2. garment \in [Garments -> GarmentStatus]
    BY <1>1 DEF TypeOK
<1>3. appts' = appts
    BY DEF AddGarment, CommitWithdraw, CommitDelete, CommitClose
<1>4. \A g \in Garments : \A S : On(g, S)' = On(g, S)
    BY <1>3 DEF On, ApptsWith
<1>5. \/ garment' = garment
      \/ \E h \in Garments :
            \/ garment[h] = "none" /\ garment' = [garment EXCEPT ![h] = "available"]
            \/ garment[h] \in {"available", "reserved"} /\ garment' = [garment EXCEPT ![h] = "withdrawn"]
            \/ On(h, ApptStatus) = {} /\ garment' = [garment EXCEPT ![h] = "none"]
    <2>1. ASSUME NEW g \in Garments, AddGarment(g)
          PROVE  garment[g] = "none" /\ garment' = [garment EXCEPT ![g] = "available"]
        BY <2>1 DEF AddGarment
    <2>2. ASSUME NEW p \in Sessions, CommitWithdraw(p)
          PROVE  /\ session[p].garment \in Garments
                 /\ garment[session[p].garment] \in {"available", "reserved"}
                 /\ garment' = [garment EXCEPT ![session[p].garment] = "withdrawn"]
        <3>1. session[p].phase = "withdraw"
            BY <2>2 DEF CommitWithdraw
        <3>. QED BY <1>1, <2>2, <3>1, OthersWrite DEF OthersCurrent
    <2>3. ASSUME NEW p \in Sessions, CommitDelete(p)
          PROVE  /\ session[p].garment \in Garments
                 /\ On(session[p].garment, ApptStatus) = {}
                 /\ garment' = [garment EXCEPT ![session[p].garment] = "none"]
        <3>1. \A i \in 1 .. Len(appts) : appts[i].garment # session[p].garment
            BY <2>3 DEF CommitDelete
        <3>2. On(session[p].garment, ApptStatus) = {}
            BY <3>1, OnMembers
        <3>. QED BY <1>1, <2>3, <3>2, OthersWrite
    <2>4. ASSUME NEW p \in Sessions, CommitClose(p)
          PROVE  garment' = garment
        BY <2>4 DEF CommitClose
    <2>. QED BY <2>1, <2>2, <2>3, <2>4
<1>6. ASSUME NEW g \in Garments
      PROVE  GarmentAgrees(g)'
    <2>1. GarmentAgrees(g)
        BY <1>1
    <2>2. \/ garment'[g] = garment[g]
          \/ garment[g] = "none" /\ garment'[g] = "available"
          \/ garment[g] \in {"available", "reserved"} /\ garment'[g] = "withdrawn"
          \/ On(g, ApptStatus) = {} /\ garment'[g] = "none"
        <3>1. CASE garment' = garment
            BY <3>1
        <3>2. ASSUME NEW h \in Garments, garment[h] = "none", garment' = [garment EXCEPT ![h] = "available"]
              PROVE  \/ garment'[g] = garment[g]
                     \/ garment[g] = "none" /\ garment'[g] = "available"
            BY <1>2, <3>2
        <3>3. ASSUME NEW h \in Garments, garment[h] \in {"available", "reserved"},
                     garment' = [garment EXCEPT ![h] = "withdrawn"]
              PROVE  \/ garment'[g] = garment[g]
                     \/ garment[g] \in {"available", "reserved"} /\ garment'[g] = "withdrawn"
            BY <1>2, <3>3
        <3>4. ASSUME NEW h \in Garments, On(h, ApptStatus) = {}, garment' = [garment EXCEPT ![h] = "none"]
              PROVE  \/ garment'[g] = garment[g]
                     \/ On(g, ApptStatus) = {} /\ garment'[g] = "none"
            BY <1>2, <3>4
        <3>. QED BY <1>5, <3>1, <3>2, <3>3, <3>4
    <2>3. On(g, ApptStatus) = {} => On(g, Live) = {} /\ On(g, {"taken"}) = {}
        <3>1. On(g, Live) \subseteq On(g, ApptStatus) /\ On(g, {"taken"}) \subseteq On(g, ApptStatus)
            BY DEF On, ApptsWith, ApptStatus
        <3>. QED BY <3>1
    <2>4. "none" \notin {"available", "reserved"} /\ "delivered" \notin {"available", "reserved"}
        OBVIOUS
    <2> DEFINE before == garment[g]
               after == garment'[g]
    <2>5. /\ after = "none" => On(g, ApptStatus) = {}
          /\ after = "delivered" <=> On(g, {"taken"}) # {}
          /\ after = "available" => On(g, Live) = {}
          /\ after = "reserved" => On(g, Live) # {}
        <3>1. /\ before = "none" => On(g, ApptStatus) = {}
              /\ before = "delivered" <=> On(g, {"taken"}) # {}
              /\ before = "available" => On(g, Live) = {}
              /\ before = "reserved" => On(g, Live) # {}
            BY <2>1 DEF GarmentAgrees
        <3> HIDE DEF before, after
        <3>. QED BY <2>2, <2>3, <2>4, <3>1 DEF before, after
    <2>. QED BY <1>4, <2>1, <2>5 DEF GarmentAgrees
<1>. QED BY <1>6

-----------------------------------------------------------------------------
(* The seats of the slots and the appointments of the students.             *)

LEMMA ApptSetsFinite ==
    ASSUME TypeOK
    PROVE  /\ \A u : Scheduled(u) \subseteq 1 .. Len(appts) /\ IsFiniteSet(Scheduled(u))
           /\ \A s : Taken(s) \subseteq 1 .. Len(appts) /\ IsFiniteSet(Taken(s))
<1>1. Len(appts) \in Nat /\ 1 \in Int /\ Len(appts) \in Int
    BY DEF TypeOK
<1>2. IsFiniteSet(1 .. Len(appts))
    BY <1>1, FS_Interval
<1>3. \A u : Scheduled(u) \subseteq 1 .. Len(appts)
    BY DEF Scheduled, ApptsWith
<1>4. \A s : Taken(s) \subseteq 1 .. Len(appts)
    BY DEF Taken, ApptsWith
<1>5. \A S \in SUBSET (1 .. Len(appts)) : IsFiniteSet(S)
    BY <1>2, FS_Subset
<1>. QED BY <1>3, <1>4, <1>5

LEMMA BookingSeats ==
    ASSUME TypeInv, SureInv, Sure, NEW p \in Sessions, CommitBooking(p)
    PROVE  SeatsAgree'
<1> DEFINE s == session[p]
           n == Len(appts) + 1
<1>1. TypeOK /\ BookingsCurrent
    BY DEF TypeInv, SureInv
<1>2. /\ \A u \in Students : StudentAgrees(u)
      /\ \A t \in Slots : SlotAgrees(t)
    BY SeatsMean DEF SureInv
<1>3. /\ s.row \in Appointment /\ s.row.slot \in Slots /\ s.row.student \in Students
      /\ Len(appts') = n
      /\ \A i \in 1 .. Len(appts) : appts'[i] = appts[i]
      /\ appts'[n] = s.row
      /\ slot' = [slot EXCEPT ![s.row.slot].current = s.count]
      /\ s.num = n
    BY <1>1, BookingWrites
<1>4. /\ s.row.status = "scheduled" /\ s.count = slot[s.row.slot].current + 1
      /\ slot[s.row.slot].active /\ slot[s.row.slot].current < Seats[s.row.slot]
      /\ Cardinality(Scheduled(s.row.student)) < MaxActive
    <2>1. Books(p) /\ CodeFree(p)
        BY <1>3 DEF CommitBooking, Books, CodeFree
    <2>. QED BY <1>1, <2>1 DEF BookingsCurrent, BookingCurrent, HasSeat, BelowLimit
<1>5. Len(appts) \in Nat /\ slot \in [Slots -> SlotRow] /\ n \notin 1 .. Len(appts)
    BY <1>1 DEF TypeOK
<1>6. MaxActive \in Nat /\ \A t \in Slots : Seats[t] \in Nat
    BY VisteTecBounds, VisteTecSeats
<1> HIDE DEF s, n
<1>7. ASSUME NEW u \in Students
      PROVE  Scheduled(u)' = IF u = s.row.student THEN Scheduled(u) \cup {n} ELSE Scheduled(u)
    BY <1>3, <1>4, <1>5 DEF Scheduled, ApptsWith, n
<1>8. ASSUME NEW t \in Slots
      PROVE  Taken(t)' = IF t = s.row.slot THEN Taken(t) \cup {n} ELSE Taken(t)
    BY <1>3, <1>4, <1>5 DEF Taken, ApptsWith, ApptStatus, Live, n
<1>9. ASSUME NEW u \in Students
      PROVE  StudentAgrees(u)'
    <2>1. IsFiniteSet(Scheduled(u)) /\ n \notin Scheduled(u)
        BY <1>1, <1>5, ApptSetsFinite
    <2>2. Cardinality(Scheduled(u)) \in Nat /\ Cardinality(Scheduled(u) \cup {n}) = Cardinality(Scheduled(u)) + 1
        BY <2>1, FS_AddElement, FS_CardinalityType
    <2>. QED BY <1>2, <1>4, <1>6, <1>7, <2>2 DEF StudentAgrees
<1>10. ASSUME NEW t \in Slots
       PROVE  SlotAgrees(t)'
    <2>1. IsFiniteSet(Taken(t)) /\ n \notin Taken(t)
        BY <1>1, <1>5, ApptSetsFinite
    <2>2. Cardinality(Taken(t)) \in Nat /\ Cardinality(Taken(t) \cup {n}) = Cardinality(Taken(t)) + 1
        BY <2>1, FS_AddElement, FS_CardinalityType
    <2>3. SlotAgrees(t) /\ slot[t] \in SlotRow /\ Seats[t] \in Nat
        BY <1>2, <1>5, <1>6
    <2>4. CASE t = s.row.slot
        <3>1. slot'[t] = [slot[t] EXCEPT !.current = s.count]
            BY <1>3, <1>5, <2>4
        <3>2. slot'[t].current = slot[t].current + 1 /\ slot'[t].active = slot[t].active
            BY <1>4, <2>3, <2>4, <3>1 DEF SlotRow
        <3>3. slot[t].current \in Nat /\ slot[t].active /\ slot[t].current < Seats[t]
            BY <1>4, <2>3, <2>4 DEF SlotRow
        <3>4. Cardinality(Taken(t)') = Cardinality(Taken(t)) + 1
            BY <1>8, <2>2, <2>4
        <3>. QED BY <2>3, <3>2, <3>3, <3>4 DEF SlotAgrees
    <2>5. CASE t # s.row.slot
        <3>1. slot'[t] = slot[t] /\ Taken(t)' = Taken(t)
            BY <1>3, <1>5, <1>8, <2>5
        <3>. QED BY <2>3, <3>1 DEF SlotAgrees
    <2>. QED BY <2>4, <2>5
<1>11. SeatsAgree' <=> (Sure' => /\ \A u \in Students : StudentAgrees(u)'
                                 /\ \A t \in Slots : SlotAgrees(t)')
    BY Zenon DEF SeatsAgree, Sure, Taken, SlotAgrees, StudentAgrees
<1>. QED BY <1>9, <1>10, <1>11

LEMMA ChangeSeats ==
    ASSUME TypeInv, SureInv, Sure, NEW p \in Sessions, CommitChange(p)
    PROVE  SeatsAgree'
<1> DEFINE s == session[p]
           k == s.at
           a == appts[k]
<1>1. TypeOK
    BY DEF TypeInv
<1>2. s \in Change /\ k \in 1 .. Len(appts) /\ a \in Appointment /\ ChangeCurrent(s)
    BY ChangeIs
<1>3. /\ \A u \in Students : StudentAgrees(u)
      /\ \A t \in Slots : SlotAgrees(t)
    BY SeatsMean DEF SureInv
<1>4. /\ Len(appts') = Len(appts)
      /\ \A i \in 1 .. Len(appts) : i # k => appts'[i] = appts[i]
      /\ appts'[k].student = a.student /\ appts'[k].slot = a.slot /\ appts'[k].status = s.status
      /\ ~ s.counts => slot' = slot
      /\ s.counts => slot' = [slot EXCEPT ![a.slot].current = s.count]
    BY <1>1, <1>2, ChangeWrites
<1>5. /\ a.slot \in Slots /\ a.status \in ApptStatus /\ s.status \in ApptStatus
      /\ slot \in [Slots -> SlotRow] /\ Len(appts) \in Nat
    BY <1>1, <1>2 DEF Appointment, TypeOK, Change
<1>6. /\ a.status \in Live /\ s.status # "scheduled"
      /\ s.status # "cancelled" => ~ s.counts
      /\ s.status = "cancelled" =>
            /\ s.count = IF slot[a.slot].current = 0 THEN 0 ELSE slot[a.slot].current - 1
            /\ s.counts <=> s.count # slot[a.slot].current
    BY <1>2 DEF ChangeCurrent, Cancels, Attends, Outcome, Live
<1>7. MaxActive \in Nat /\ \A t \in Slots : Seats[t] \in Nat
    BY VisteTecBounds, VisteTecSeats
<1> HIDE DEF s, k, a
<1>8. ASSUME NEW u \in Students
      PROVE  Scheduled(u)' \subseteq Scheduled(u)
    BY <1>2, <1>4, <1>6 DEF Scheduled, ApptsWith
<1>9. ASSUME NEW t \in Slots
      PROVE  Taken(t)' = IF s.status = "cancelled" THEN Taken(t) \ {k} ELSE Taken(t)
    <2>1. \A i : i \in Taken(t) <=> /\ i \in 1 .. Len(appts)
                                    /\ appts[i].status \in ApptStatus \ {"cancelled"} /\ appts[i].slot = t
        BY DEF Taken, ApptsWith
    <2>2. \A i : i \in Taken(t)' <=> /\ i \in 1 .. Len(appts')
                                     /\ appts'[i].status \in ApptStatus \ {"cancelled"} /\ appts'[i].slot = t
        BY DEF Taken, ApptsWith
    <2>3. \A i : i # k => (i \in Taken(t)' <=> i \in Taken(t))
        BY <1>2, <1>4, <2>1, <2>2
    <2>4. k \in Taken(t)' <=> s.status # "cancelled" /\ a.slot = t
        BY <1>2, <1>4, <1>5, <2>2
    <2>5. k \in Taken(t) <=> a.slot = t
        BY <1>2, <1>5, <1>6, <2>1 DEF a, Live
    <2>. QED BY <2>3, <2>4, <2>5
<1>10. k \in Taken(a.slot)
    BY <1>2, <1>5, <1>6 DEF Taken, ApptsWith, a, Live
<1>11. ASSUME NEW u \in Students
       PROVE  StudentAgrees(u)'
    <2>1. IsFiniteSet(Scheduled(u))
        BY <1>1, ApptSetsFinite
    <2>2. /\ Cardinality(Scheduled(u)') <= Cardinality(Scheduled(u))
          /\ Cardinality(Scheduled(u)) \in Nat /\ Cardinality(Scheduled(u)') \in Nat
        BY <1>8, <2>1, FS_Subset, FS_CardinalityType
    <2>3. Cardinality(Scheduled(u)) <= MaxActive
        BY <1>3 DEF StudentAgrees
    <2>. QED BY <1>7, <2>2, <2>3 DEF StudentAgrees
<1>12. ASSUME NEW t \in Slots
       PROVE  SlotAgrees(t)'
    <2>1. IsFiniteSet(Taken(t)) /\ Cardinality(Taken(t)) \in Nat
        BY <1>1, ApptSetsFinite, FS_CardinalityType
    <2>2. SlotAgrees(t) /\ slot[t] \in SlotRow /\ Seats[t] \in Nat
        BY <1>3, <1>5, <1>7
    <2>3. CASE s.status # "cancelled" \/ t # a.slot
        <3>1. slot'[t] = slot[t]
            BY <1>4, <1>5, <1>6, <2>3
        <3>2. Taken(t)' = Taken(t)
            <4>1. CASE t # a.slot
                <5>1. k \notin Taken(t)
                    BY <4>1 DEF Taken, a
                <5>. QED BY <1>9, <5>1
            <4>. QED BY <1>9, <2>3, <4>1
        <3>. QED BY <2>2, <3>1, <3>2 DEF SlotAgrees
    <2>4. CASE s.status = "cancelled" /\ t = a.slot
        <3>1. Taken(t)' = Taken(t) \ {k} /\ k \in Taken(t)
            BY <1>9, <1>10, <2>4
        <3>2. Cardinality(Taken(t)') = Cardinality(Taken(t)) - 1
            BY <2>1, <3>1, FS_RemoveElement
        <3>3. Cardinality(Taken(t)) # 0
            BY <2>1, <3>1, FS_EmptySet
        <3>4. slot[t].current = Cardinality(Taken(t)) /\ slot[t].current <= Seats[t] /\ slot[t].active
            BY <2>2, <3>1 DEF SlotAgrees, SlotRow
        <3>5. s.count = slot[t].current - 1 /\ s.counts
            BY <1>6, <2>1, <2>4, <3>3, <3>4
        <3>6. slot'[t] = [slot[t] EXCEPT !.current = s.count]
            BY <1>4, <1>5, <2>4, <3>5
        <3>7. slot'[t].current = slot[t].current - 1 /\ slot'[t].active
            BY <2>2, <3>4, <3>5, <3>6 DEF SlotRow
        <3>. QED BY <2>1, <2>2, <3>2, <3>4, <3>7 DEF SlotAgrees
    <2>. QED BY <2>3, <2>4
<1>13. SeatsAgree' <=> (Sure' => /\ \A u \in Students : StudentAgrees(u)'
                                 /\ \A t \in Slots : SlotAgrees(t)')
    BY Zenon DEF SeatsAgree, Sure, Taken, SlotAgrees, StudentAgrees
<1>. QED BY <1>11, <1>12, <1>13

LEMMA PlainSeats ==
    ASSUME TypeInv, SureInv, Sure,
           \/ \E g \in Garments : AddGarment(g)
           \/ \E p \in Sessions : CommitWithdraw(p) \/ CommitDelete(p) \/ CommitClose(p)
    PROVE  SeatsAgree'
<1>1. TypeOK /\ OthersCurrent
    BY DEF TypeInv, SureInv
<1>2. /\ \A u \in Students : StudentAgrees(u)
      /\ \A t \in Slots : SlotAgrees(t)
    BY SeatsMean DEF SureInv
<1>3. slot \in [Slots -> SlotRow]
    BY <1>1 DEF TypeOK
<1>4. appts' = appts
    BY DEF AddGarment, CommitWithdraw, CommitDelete, CommitClose
<1>5. /\ \A u \in Students : Scheduled(u)' = Scheduled(u)
      /\ \A t \in Slots : Taken(t)' = Taken(t)
    BY <1>4 DEF Scheduled, Taken, ApptsWith
<1>6. \/ slot' = slot
      \/ \E h \in Slots : slot[h].current = 0 /\ slot' = [slot EXCEPT ![h].active = FALSE]
    <2>1. ASSUME NEW p \in Sessions, CommitClose(p)
          PROVE  /\ session[p].slot \in Slots /\ slot[session[p].slot].current = 0
                 /\ slot' = [slot EXCEPT ![session[p].slot].active = FALSE]
        <3>1. session[p].phase = "close"
            BY <2>1 DEF CommitClose
        <3>. QED BY <1>1, <2>1, <3>1, OthersWrite DEF OthersCurrent
    <2>. QED BY <2>1 DEF AddGarment, CommitWithdraw, CommitDelete
<1>7. ASSUME NEW t \in Slots
      PROVE  SlotAgrees(t)'
    <2>1. SlotAgrees(t) /\ slot[t] \in SlotRow
        BY <1>2, <1>3
    <2>2. CASE slot'[t] = slot[t]
        BY <1>5, <2>1, <2>2 DEF SlotAgrees
    <2>3. ASSUME NEW h \in Slots, slot[h].current = 0, slot' = [slot EXCEPT ![h].active = FALSE],
                 slot'[t] # slot[t]
          PROVE  SlotAgrees(t)'
        <3>1. h = t /\ slot'[t] = [slot[t] EXCEPT !.active = FALSE]
            BY <1>3, <2>3
        <3>2. slot'[t].current = slot[t].current /\ slot[t].current = 0
            BY <2>1, <2>3, <3>1 DEF SlotRow
        <3>3. Taken(t) = {}
            BY <1>1, <2>1, <3>2, ApptSetsFinite, FS_EmptySet DEF SlotAgrees
        <3>. QED BY <1>5, <2>1, <3>2, <3>3 DEF SlotAgrees
    <2>. QED BY <1>6, <2>2, <2>3
<1>8. \A u \in Students : StudentAgrees(u)'
    BY <1>2, <1>5 DEF StudentAgrees
<1>9. SeatsAgree' <=> (Sure' => /\ \A u \in Students : StudentAgrees(u)'
                                /\ \A t \in Slots : SlotAgrees(t)')
    BY Zenon DEF SeatsAgree, Sure, Taken, SlotAgrees, StudentAgrees
<1>. QED BY <1>7, <1>8, <1>9

-----------------------------------------------------------------------------
(* The invariant, and what it says.                                         *)

LEMMA SureInit == Init => SureInv
<1> SUFFICES ASSUME Init
             PROVE  SureInv
    OBVIOUS
<1>1. TypeOK
    BY TypeInit
<1>2. /\ appts = <<>> /\ Len(appts) = 0
      /\ \A q \in Sessions : session[q].phase = "idle"
      /\ \A g \in Garments : garment[g] = "none"
      /\ \A s \in Slots : slot[s].current = 0 /\ slot[s].active
    BY DEF Init, Idle
<1>3. Apart /\ BookingsCurrent /\ OthersCurrent
    BY <1>2 DEF Apart, BookingsCurrent, OthersCurrent, Books, Busy
<1>4. /\ \A g, S : On(g, S) = {}
      /\ \A u : Scheduled(u) = {}
      /\ \A s : Taken(s) = {}
    BY <1>2 DEF On, Scheduled, Taken, ApptsWith
<1>5. \A g \in Garments : GarmentAgrees(g)
    BY <1>2, <1>4 DEF GarmentAgrees
<1>6. Cardinality({}) = 0 /\ MaxActive \in Nat /\ \A s \in Slots : Seats[s] \in Nat
    BY FS_EmptySet, VisteTecBounds, VisteTecSeats
<1>7. SeatsAgree
    <2>1. \A u \in Students : StudentAgrees(u)
        BY <1>4, <1>6 DEF StudentAgrees
    <2>2. \A s \in Slots : slot[s].current = Cardinality(Taken(s)) /\ slot[s].current <= Seats[s]
        <3> SUFFICES ASSUME NEW s \in Slots
                     PROVE  slot[s].current = Cardinality(Taken(s)) /\ slot[s].current <= Seats[s]
            OBVIOUS
        <3>1. slot[s].current = 0 /\ Taken(s) = {} /\ Seats[s] \in Nat
            BY <1>2, <1>4, <1>6
        <3>2. Cardinality(Taken(s)) = 0
            BY <1>6, <3>1
        <3>. QED BY <3>1, <3>2
    <2>3. \A s \in Slots : SlotAgrees(s)
        BY <1>4, <2>2 DEF SlotAgrees
    <2>. QED BY <2>1, <2>3, SeatsMean
<1>. QED BY <1>3, <1>5, <1>7 DEF SureInv

LEMMA SureStep ==
    ASSUME TypeInv, SureInv, [Next]_vars
    PROVE  SureInv'
<1>1. TypeOK /\ (Sure => OthersCurrent)
    BY DEF TypeInv, SureInv
<1>2. CASE UNCHANGED vars
    <2>1. UNCHANGED <<garment, slot, appts, regime>> /\ session' = session
        BY <1>2 DEF vars
    <2>2. /\ Apart => Apart'
          /\ OthersCurrent => OthersCurrent'
        BY <2>1 DEF Apart, Books, Busy, OthersCurrent, ChangeCurrent, Cancels, Attends, Outcome, ClothAfter
    <2>3. BookingsCurrent => BookingsCurrent'
        BY <2>1 DEF BookingsCurrent, Books, CodeFree, BookingCurrent, HasSeat, BelowLimit, Scheduled,
                    ApptsWith
    <2>. QED BY <2>1, <2>2, <2>3, TablesKept DEF SureInv
<1>3. CASE Next
    <2>1. regime' = regime
        BY <1>1, <1>3, ReadShapes DEF AddGarment, Abort, TakeCode, CommitBooking, CommitChange,
           CommitWithdraw, CommitDelete, CommitClose, Reads, Start, Finish
    <2>2. CASE ~ Sure
        BY <2>1, <2>2 DEF Sure, SureInv
    <2>3. CASE Sure
        <3>1. ASSUME NEW g \in Garments, AddGarment(g)
              PROVE  SureInv'
            <4>1. Busy = {} /\ session' = session /\ regime' = regime
                BY <3>1 DEF AddGarment
            <4>2. \A q \in Sessions : session'[q].phase = "idle"
                BY <4>1 DEF Busy
            <4>3. Sure' /\ Apart' /\ BookingsCurrent' /\ OthersCurrent'
                BY <2>3, <4>1, <4>2 DEF Sure, Apart, Busy, BookingsCurrent, Books, OthersCurrent
            <4>. QED BY <2>3, <3>1, <4>3, PlainGarments, PlainSeats DEF SureInv
        <3>2. ASSUME NEW p \in Sessions, session[p].phase # "idle", Finish(p),
                     ~ Books(p) \/ Len(appts') = Len(appts) + 1
              PROVE  Sure' /\ Apart' /\ BookingsCurrent' /\ OthersCurrent'
            <4>1. session[p] # Idle
                BY <3>2 DEF Idle
            <4>. QED BY <2>3, <3>2, <4>1, CommitLeaves
        <3>3. ASSUME NEW p \in Sessions, CommitBooking(p)
              PROVE  SureInv'
            <4>1. session[p].phase # "idle" /\ Finish(p) /\ Len(appts') = Len(appts) + 1
                BY <1>1, <3>3, BookingWrites DEF CommitBooking
            <4>. QED BY <2>3, <3>2, <3>3, <4>1, BookingGarments, BookingSeats DEF SureInv
        <3>4. ASSUME NEW p \in Sessions, CommitChange(p)
              PROVE  SureInv'
            <4>1. session[p].phase # "idle" /\ Finish(p) /\ ~ Books(p)
                BY <3>4 DEF CommitChange, Books
            <4>. QED BY <2>3, <3>2, <3>4, <4>1, ChangeGarments, ChangeSeats DEF SureInv
        <3>5. ASSUME NEW p \in Sessions, CommitWithdraw(p) \/ CommitDelete(p) \/ CommitClose(p)
              PROVE  SureInv'
            <4>1. session[p].phase # "idle" /\ Finish(p) /\ ~ Books(p)
                BY <3>5 DEF CommitWithdraw, CommitDelete, CommitClose, Books
            <4>2. \A g \in Garments : GarmentAgrees(g)'
                BY <2>3, <3>5, PlainGarments
            <4>3. SeatsAgree'
                BY <2>3, <3>5, PlainSeats
            <4>. QED BY <3>2, <4>1, <4>2, <4>3 DEF SureInv
        <3>6. ASSUME NEW p \in Sessions, Abort(p) \/ TakeCode(p) \/ \E s \in SessionRow : Reads(p, s)
              PROVE  SureInv'
            BY <2>3, <3>6, QuietKeeps
        <3>. QED BY <1>1, <1>3, <3>1, <3>3, <3>4, <3>5, <3>6, ReadShapes
    <2>. QED BY <2>2, <2>3
<1>. QED BY <1>2, <1>3

LEMMA SureAlways == Spec => [](TypeInv /\ SureInv)
BY TypeInvInit, TypeStep, SureInit, SureStep, PTL DEF Spec

\* However bookings overlap while their codes are taken apart, and whatever else waits its
\* turn, the count of a slot is the number of its appointments, stays within its places, and a
\* closed slot has none; no student passes the limit (appointment_service 14-29, 137-151, 178).
THEOREM SeatsAgreeHolds == Spec => []SeatsAgree
<1>1. TypeInv /\ SureInv => SeatsAgree
    BY DEF SureInv, SeatsAgree, Sure
<1>. QED BY <1>1, SureAlways, PTL

LEMMA GivenMeans ==
    ASSUME Sure, NEW g \in Garments
    PROVE  /\ KeptFor(g) = {appts[i].student : i \in On(g, Live)}
           /\ GivenTo(g) = {appts[i].student : i \in On(g, {"taken"})}
BY DEF Sure, KeptFor, GivenTo, On

\* Under the same regimes the status of a garment and those of its appointments agree: what was
\* given is out of the catalogue, and what is offered is kept for nobody (appointment_service
\* 178-247, garment_service).
THEOREM CatalogueAgreesHolds == Spec => []CatalogueAgrees
<1>1. TypeInv /\ SureInv => CatalogueAgrees
    <2> SUFFICES ASSUME SureInv, Sure, NEW g \in Garments
                 PROVE  /\ garment[g] = "delivered" <=> GivenTo(g) # {}
                        /\ garment[g] = "available" => KeptFor(g) = {}
                        /\ garment[g] = "reserved" => KeptFor(g) # {}
        BY DEF CatalogueAgrees, Sure
    <2>1. GarmentAgrees(g)
        BY DEF SureInv
    <2>2. KeptFor(g) = {} <=> On(g, Live) = {}
        BY GivenMeans
    <2>3. GivenTo(g) = {} <=> On(g, {"taken"}) = {}
        BY GivenMeans
    <2>. QED BY <2>1, <2>2, <2>3 DEF GarmentAgrees
<1>. QED BY <1>1, SureAlways, PTL

-----------------------------------------------------------------------------
(* The garments are handed out as GarmentHandout promises.                  *)

StudentsOf(rows, I) == {rows[i].student : i \in I}

LEMMA SameStudents ==
    ASSUME NEW rows, NEW news, NEW I, \A i \in I : news[i] = rows[i]
    PROVE  StudentsOf(news, I) = StudentsOf(rows, I)
BY DEF StudentsOf

LEMMA OneStudent ==
    \A rows, n : StudentsOf(rows, {n}) = {rows[n].student} /\ StudentsOf(rows, {}) = {}
BY DEF StudentsOf

LEMMA HandsMean ==
    ASSUME Sure, Sure', NEW g \in Garments
    PROVE  /\ KeptFor(g) = StudentsOf(appts, On(g, Live))
           /\ GivenTo(g) = StudentsOf(appts, On(g, {"taken"}))
           /\ KeptFor(g)' = StudentsOf(appts', On(g, Live)')
           /\ GivenTo(g)' = StudentsOf(appts', On(g, {"taken"})')
BY DEF Sure, KeptFor, GivenTo, On, StudentsOf

LEMMA BookingHands ==
    ASSUME TypeInv, SureInv, Sure, Sure', NEW p \in Sessions, CommitBooking(p)
    PROVE  LET r == session[p].row
           IN /\ r.garment \in Garments /\ r.student \in Students
              /\ KeptFor(r.garment) = {} /\ GivenTo(r.garment) = {}
              /\ \A g \in Garments :
                    /\ KeptFor(g)' = IF g = r.garment THEN {r.student} ELSE KeptFor(g)
                    /\ GivenTo(g)' = GivenTo(g)
<1> DEFINE r == session[p].row
           n == Len(appts) + 1
<1>1. /\ r.garment \in Garments /\ r.student \in Students /\ garment[r.garment] = "available"
      /\ appts'[n] = r /\ \A i \in 1 .. Len(appts) : appts'[i] = appts[i]
      /\ \A g \in Garments : \A S :
            /\ On(g, S) \subseteq 1 .. Len(appts)
            /\ On(g, S)' = IF g = r.garment /\ "scheduled" \in S THEN On(g, S) \cup {n} ELSE On(g, S)
    BY BookingOn
<1> HIDE DEF r, n
<1>2. On(r.garment, Live) = {} /\ On(r.garment, {"taken"}) = {}
    BY <1>1 DEF SureInv, GarmentAgrees
<1>4. ASSUME NEW g \in Garments
      PROVE  GivenTo(g)' = GivenTo(g)
    <2>1. On(g, {"taken"})' = On(g, {"taken"}) /\ \A i \in On(g, {"taken"}) : appts'[i] = appts[i]
        BY <1>1
    <2>. QED BY <2>1, HandsMean, SameStudents
<1>5. ASSUME NEW g \in Garments
      PROVE  KeptFor(g)' = IF g = r.garment THEN {r.student} ELSE KeptFor(g)
    <2>1. CASE g = r.garment
        <3>1. On(g, Live)' = {n}
            BY <1>1, <1>2, <2>1 DEF Live
        <3>2. StudentsOf(appts', {n}) = {appts'[n].student} /\ appts'[n] = r
            BY <1>1, OneStudent
        <3>. QED BY <2>1, <3>1, <3>2, HandsMean
    <2>2. CASE g # r.garment
        <3>1. On(g, Live)' = On(g, Live) /\ \A i \in On(g, Live) : appts'[i] = appts[i]
            BY <1>1, <2>2
        <3>2. StudentsOf(appts', On(g, Live)) = StudentsOf(appts, On(g, Live))
            BY <3>1, SameStudents
        <3>. QED BY <2>2, <3>1, <3>2, HandsMean
    <2>. QED BY <2>1, <2>2
<1>6. KeptFor(r.garment) = {} /\ GivenTo(r.garment) = {}
    BY <1>1, <1>2, GivenMeans
<1>. QED BY <1>1, <1>4, <1>5, <1>6 DEF r

LEMMA ChangeHands ==
    ASSUME TypeInv, SureInv, Sure, Sure', NEW p \in Sessions, CommitChange(p)
    PROVE  LET s == session[p]
               a == appts[s.at]
           IN /\ a.garment \in Garments /\ a.student \in Students
              /\ KeptFor(a.garment) = {a.student} /\ GivenTo(a.garment) = {}
              /\ \A g \in Garments :
                    /\ KeptFor(g)' = IF g = a.garment /\ s.status \notin Live THEN {} ELSE KeptFor(g)
                    /\ GivenTo(g)' = IF g = a.garment /\ s.status = "taken" THEN {a.student} ELSE GivenTo(g)
<1> DEFINE s == session[p]
           k == s.at
           a == appts[k]
<1>1. /\ a.garment \in Garments /\ a.student \in Students
      /\ appts'[k].student = a.student
      /\ \A i \in 1 .. Len(appts) : i # k => appts'[i] = appts[i]
      /\ \A g \in Garments : \A S :
            /\ On(g, S) \subseteq 1 .. Len(appts)
            /\ g # a.garment => On(g, S)' = On(g, S) /\ k \notin On(g, S)
      /\ \A g \in Garments : g = a.garment =>
            /\ On(g, Live) = {k} /\ On(g, {"taken"}) = {}
            /\ On(g, Live)' = IF s.status \in Live THEN {k} ELSE {}
            /\ On(g, {"taken"})' = IF s.status = "taken" THEN {k} ELSE {}
    BY ChangeOn
<1>2. KeptFor(a.garment) = {a.student} /\ GivenTo(a.garment) = {}
    BY <1>1, GivenMeans
<1> HIDE DEF s, k, a
<1>4. ASSUME NEW g \in Garments, g # a.garment
      PROVE  KeptFor(g)' = KeptFor(g) /\ GivenTo(g)' = GivenTo(g)
    <2>1. /\ On(g, Live)' = On(g, Live) /\ \A i \in On(g, Live) : appts'[i] = appts[i]
          /\ On(g, {"taken"})' = On(g, {"taken"}) /\ \A i \in On(g, {"taken"}) : appts'[i] = appts[i]
        BY <1>1, <1>4
    <2>2. /\ StudentsOf(appts', On(g, Live)) = StudentsOf(appts, On(g, Live))
          /\ StudentsOf(appts', On(g, {"taken"})) = StudentsOf(appts, On(g, {"taken"}))
        BY <2>1, SameStudents
    <2>. QED BY <2>1, <2>2, HandsMean
<1>5. ASSUME NEW g \in Garments, g = a.garment
      PROVE  /\ KeptFor(g)' = IF s.status \in Live THEN {a.student} ELSE {}
             /\ GivenTo(g)' = IF s.status = "taken" THEN {a.student} ELSE {}
    <2>1. /\ On(g, Live)' = IF s.status \in Live THEN {k} ELSE {}
          /\ On(g, {"taken"})' = IF s.status = "taken" THEN {k} ELSE {}
        BY <1>1, <1>5
    <2>2. KeptFor(g)' = StudentsOf(appts', On(g, Live)') /\ GivenTo(g)' = StudentsOf(appts', On(g, {"taken"})')
        BY HandsMean
    <2>3. /\ StudentsOf(appts', {k}) = {appts'[k].student}
          /\ StudentsOf(appts', {}) = {}
        BY OneStudent
    <2>4. appts'[k].student = a.student
        BY <1>1
    <2>. QED BY <2>1, <2>2, <2>3, <2>4
<1>6. ASSUME NEW g \in Garments
      PROVE  /\ KeptFor(g)' = IF g = a.garment /\ s.status \notin Live THEN {} ELSE KeptFor(g)
             /\ GivenTo(g)' = IF g = a.garment /\ s.status = "taken" THEN {a.student} ELSE GivenTo(g)
    <2>1. CASE g = a.garment
        <3>1. KeptFor(g) = {a.student} /\ GivenTo(g) = {}
            BY <1>2, <2>1
        <3>. QED BY <1>5, <2>1, <3>1
    <2>2. CASE g # a.garment
        <3>1. KeptFor(g)' = KeptFor(g) /\ GivenTo(g)' = GivenTo(g)
            BY <1>4, <2>2
        <3>. QED BY <2>2, <3>1
    <2>. QED BY <2>1, <2>2
<1>. QED BY <1>1, <1>2, <1>6 DEF s, k, a

Kept == [g \in Garments |-> KeptFor(g)]
Given == [g \in Garments |-> GivenTo(g)]

LEMMA HandsStep ==
    ASSUME TypeInv, SureInv, [Next]_vars
    PROVE  [Handout!HandoutNext]_<<Kept, Given>>
<1>1. TypeOK
    BY DEF TypeInv
<1>2. regime' = regime
    BY <1>1, ReadShapes DEF AddGarment, Abort, TakeCode, CommitBooking, CommitChange,
       CommitWithdraw, CommitDelete, CommitClose, Reads, Start, Finish, vars
<1>3. SUFFICES ASSUME Sure, Sure'
               PROVE  [Handout!HandoutNext]_<<Kept, Given>>
    BY <1>2 DEF Sure, Kept, Given, KeptFor, GivenTo
<1>4. ASSUME appts' = appts
      PROVE  UNCHANGED <<Kept, Given>>
    BY <1>2, <1>4 DEF Kept, Given, KeptFor, GivenTo, ApptsWith
<1>5. ASSUME NEW p \in Sessions, CommitBooking(p)
      PROVE  Handout!HandoutNext
    <2>1. PICK g \in Garments, u \in Students :
             /\ KeptFor(g) = {} /\ GivenTo(g) = {}
             /\ \A h \in Garments : /\ KeptFor(h)' = IF h = g THEN {u} ELSE KeptFor(h)
                                    /\ GivenTo(h)' = GivenTo(h)
        BY <1>3, <1>5, BookingHands
    <2>2. Kept[g] = {} /\ Given[g] = {}
        BY <2>1 DEF Kept, Given
    <2>3. Kept' = [Kept EXCEPT ![g] = {u}] /\ Given' = Given
        BY <2>1 DEF Kept, Given
    <2>4. Handout!Keep(g, u)
        BY <2>2, <2>3 DEF Handout!Keep, Kept, Given
    <2>. QED BY <2>4 DEF Handout!HandoutNext
<1>6. ASSUME NEW p \in Sessions, CommitChange(p)
      PROVE  [Handout!HandoutNext]_<<Kept, Given>>
    <2> DEFINE st == session[p].status
    <2>1. PICK g \in Garments, u \in Students :
             /\ KeptFor(g) = {u} /\ GivenTo(g) = {}
             /\ \A h \in Garments :
                   /\ KeptFor(h)' = IF h = g /\ st \notin Live THEN {} ELSE KeptFor(h)
                   /\ GivenTo(h)' = IF h = g /\ st = "taken" THEN {u} ELSE GivenTo(h)
        BY <1>3, <1>6, ChangeHands
    <2> HIDE DEF st
    <2>2. Kept[g] = {u}
        BY <2>1 DEF Kept
    <2>3. CASE st \in Live
        <3>1. Kept' = Kept /\ Given' = Given
            BY <2>1, <2>3 DEF Kept, Given, Live
        <3>. QED BY <3>1
    <2>4. CASE st = "taken"
        <3>1. Kept' = [Kept EXCEPT ![g] = {}] /\ Given' = [Given EXCEPT ![g] = {u}]
            BY <2>1, <2>4 DEF Kept, Given, Live
        <3>2. Handout!Give(g, u)
            BY <2>2, <3>1 DEF Handout!Give, Kept, Given
        <3>. QED BY <3>2 DEF Handout!HandoutNext
    <2>5. CASE st \notin Live /\ st # "taken"
        <3>1. Kept' = [Kept EXCEPT ![g] = {}] /\ Given' = Given
            BY <2>1, <2>5 DEF Kept, Given
        <3>2. Handout!Release(g)
            BY <2>2, <3>1 DEF Handout!Release, Kept, Given
        <3>. QED BY <3>2 DEF Handout!HandoutNext
    <2>. QED BY <2>3, <2>4, <2>5
<1>7. ASSUME ~ \E p \in Sessions : CommitBooking(p) \/ CommitChange(p)
      PROVE  appts' = appts
    BY <1>1, <1>7, ReadShapes DEF AddGarment, Abort, TakeCode, CommitWithdraw, CommitDelete,
       CommitClose, Reads, Start, vars
<1>. QED BY <1>4, <1>5, <1>6, <1>7

\* A garment is kept for one student at a time, is given only to that student and once, and is
\* released before it is kept for another: every booking, cancellation, attendance and
\* completion is a step of GarmentHandout or changes nothing of it (appointment_service 103-247).
THEOREM HandoutRefined == Spec => HandoutSpec
<1>1. Init => Handout!HandoutInit
    <2> SUFFICES ASSUME Init
                 PROVE  Handout!HandoutInit
        OBVIOUS
    <2>1. \A S : ApptsWith(S) = {}
        BY DEF Init, ApptsWith
    <2>2. \A g \in Garments : KeptFor(g) = {} /\ GivenTo(g) = {}
        BY <2>1 DEF KeptFor, GivenTo
    <2>. QED BY <2>2 DEF Handout!HandoutInit
<1>2. TypeInv /\ SureInv /\ [Next]_vars => [Handout!HandoutNext]_<<Kept, Given>>
    BY HandsStep
<1>. QED BY <1>1, <1>2, SureAlways, PTL DEF Spec, HandoutSpec, Handout!HandoutSpec, Kept, Given

=============================================================================
