---------------------------- MODULE AgendaBooking ----------------------------
(***************************************************************************)
(* AgendaTec: requests, appointments and time slots under concurrent       *)
(* database sessions.                                                      *)
(*                                                                         *)
(* Four uvicorn workers serve the handlers, so several database sessions   *)
(* run at once, at PostgreSQL's READ COMMITTED level.  A session is a      *)
(* record in tx: what it is about to do and what it has read.  Between two *)
(* steps of a session any other session may move.  The ORM writes only the *)
(* columns whose new value differs from the value the session READ, as     *)
(* absolute values and by primary key: a write based on an old read wins.  *)
(* An error, a lost connection or a crash at any step is a rollback.        *)
(*                                                                         *)
(* An APPOINTMENT request and its appointment row (request_id is unique)   *)
(* are one record.  Slots are their ids here; their geometry, windows and  *)
(* career scope are left out.                                              *)
(***************************************************************************)
EXTENDS Naturals, FiniteSets

CONSTANTS
    Students, Slots, ReqIds, Periods, Sessions,
    InitialSlots,     \* the slots that exist at the start; the others are created by a split
    ClockSlots,       \* the slots whose start time may pass during a behaviour
    PeriodTargets,    \* the periods an administrator may switch to (NoPeriod: deactivate)
    Resolutions,      \* the resolved statuses staff uses
    SessionsOverlap,  \* may two sessions work for the same student at once?
    StaffRewrites,    \* may staff change the status of a CANCELED request?
    NoSlot, NoSession, NoPeriod, NoReq, NoStudent

ASSUME SlotsAssumption ==
    /\ Slots \subseteq Nat /\ NoSlot \notin Slots
    /\ InitialSlots \subseteq Slots /\ ClockSlots \subseteq Slots
ASSUME NamesAssumption ==
    /\ NoSession \notin Sessions /\ NoPeriod \notin Periods
    /\ NoReq \notin ReqIds /\ NoStudent \notin Students
    /\ PeriodTargets \subseteq Periods \cup {NoPeriod}
ASSUME ResolutionsAssumption ==
    Resolutions \subseteq {"RESOLVED_SUCCESS", "RESOLVED_NOT_COMPLETED", "ATTENDED_OTHER_SLOT"}
ASSUME SwitchesAssumption == SessionsOverlap \in BOOLEAN /\ StaffRewrites \in BOOLEAN

VARIABLES
    req,        \* the rows of agendatec_requests and agendatec_appointments
    slot,       \* time_slots: "absent" (not created yet), "free"/"booked" (is_booked), "gone"
    period,     \* the ACTIVE academic period
    past,       \* slots whose start time has passed
    rowLock,    \* who holds the row lock of a slot
    reqLock,    \* who holds the row lock of a request
    advisory,   \* who holds pg_advisory_xact_lock(coordinator, day)
    tx          \* the sessions

vars == <<req, slot, period, past, rowLock, reqLock, advisory, tx>>

-----------------------------------------------------------------------------
ReqStatus == {"PENDING", "RESOLVED_SUCCESS", "RESOLVED_NOT_COMPLETED",
              "NO_SHOW", "ATTENDED_OTHER_SLOT", "CANCELED"}
ApStatus == {"SCHEDULED", "DONE", "NO_SHOW", "CANCELED"}

\* The statuses the partial unique index on appointments(slot_id) covers.
IndexedStatus == {"SCHEDULED", "DONE"}

NoRow == [status |-> "NONE", student |-> NoStudent, period |-> NoPeriod,
          slot |-> NoSlot, ap |-> "NONE"]

Requests == [status : ReqStatus \cup {"NONE"}, student : Students \cup {NoStudent},
             period : Periods \cup {NoPeriod}, slot : Slots \cup {NoSlot},
             ap : ApStatus \cup {"NONE"}]

Idle == [pc |-> "idle", who |-> "none", student |-> NoStudent, period |-> NoPeriod,
         req |-> NoReq, slot |-> NoSlot, slots |-> {},
         newReq |-> "NONE", newAp |-> "NONE",
         seenReq |-> "NONE", seenAp |-> "NONE", seenBooked |-> FALSE]

Step == {"idle", "reserve", "insert", "insertDrop", "lock", "slot", "write",
         "advisory", "splitLock", "plan", "apply", "delete"}

\* A session that has read a request knows which one.
Transactions ==
    {t \in [pc : Step, who : {"none", "student", "coordinator", "admin"},
            student : Students \cup {NoStudent}, period : Periods \cup {NoPeriod},
            req : ReqIds \cup {NoReq}, slot : Slots \cup {NoSlot}, slots : SUBSET Slots,
            newReq : ReqStatus \cup {"NONE"}, newAp : ApStatus \cup {"NONE"},
            seenReq : ReqStatus \cup {"NONE"}, seenAp : ApStatus \cup {"NONE"},
            seenBooked : BOOLEAN] :
        t.pc \in {"lock", "slot", "write"} => t.req \in ReqIds}

Rows == {r \in ReqIds : req[r].status # "NONE"}

\* Every appointment a slot has ever had: what ON DELETE CASCADE would destroy.
History(s) == {r \in ReqIds : req[r].ap # "NONE" /\ req[r].slot = s}

\* The appointments of a slot the unique index counts.
Holders(s) == {r \in History(s) : req[r].ap \in IndexedStatus}

Exists(s) == slot[s] \in {"free", "booked"}

\* The bound on the number of requests: no creation starts without an id left.
RoomForRequest ==
    LET creating == {q \in Sessions : tx[q].pc \in {"reserve", "insert", "insertDrop"}}
    IN  Cardinality(creating) < Cardinality(ReqIds \ Rows)

\* Two sessions for one student (a double click, two tabs, staff and student).
MayStartFor(st) ==
    SessionsOverlap \/ \A q \in Sessions : tx[q].student # st

TypeOK ==
    /\ req \in [ReqIds -> Requests]
    /\ slot \in [Slots -> {"absent", "free", "booked", "gone"}]
    /\ period \in Periods \cup {NoPeriod}
    /\ past \subseteq Slots
    /\ rowLock \in [Slots -> Sessions \cup {NoSession}]
    /\ reqLock \in [ReqIds -> Sessions \cup {NoSession}]
    /\ advisory \in Sessions \cup {NoSession}
    /\ tx \in [Sessions -> Transactions]

Init ==
    /\ req = [r \in ReqIds |-> NoRow]
    /\ slot = [s \in Slots |-> IF s \in InitialSlots THEN "free" ELSE "absent"]
    /\ period \in Periods
    /\ past = {}
    /\ rowLock = [s \in Slots |-> NoSession]
    /\ reqLock = [r \in ReqIds |-> NoSession]
    /\ advisory = NoSession
    /\ tx = [p \in Sessions |-> Idle]

-----------------------------------------------------------------------------
(* End of a session: COMMIT and ROLLBACK release every lock it holds.       *)

FinishSessionLock(p) ==   \* mutant: pg_advisory_lock instead of pg_advisory_xact_lock
    /\ tx' = [tx EXCEPT ![p] = Idle]
    /\ rowLock' = [s \in Slots |-> IF rowLock[s] = p THEN NoSession ELSE rowLock[s]]
    /\ reqLock' = [r \in ReqIds |-> IF reqLock[r] = p THEN NoSession ELSE reqLock[r]]
    /\ UNCHANGED advisory

Finish(p) ==
    /\ tx' = [tx EXCEPT ![p] = Idle]
    /\ rowLock' = [s \in Slots |-> IF rowLock[s] = p THEN NoSession ELSE rowLock[s]]
    /\ reqLock' = [r \in ReqIds |-> IF reqLock[r] = p THEN NoSession ELSE reqLock[r]]
    /\ advisory' = IF advisory = p THEN NoSession ELSE advisory

Rollback(p) == Finish(p) /\ UNCHANGED <<req, slot, period, past>>

Advance(p, t) ==
    /\ tx' = [tx EXCEPT ![p] = t]
    /\ UNCHANGED <<req, slot, period, past, rowLock, reqLock, advisory>>

-----------------------------------------------------------------------------
(* Creating a request.                                                      *)

IndexAbsent(s, r) == FALSE   \* mutant: the migration of the index is not applied

IndexScheduledOnly(s, r) ==   \* mutant: the index covers SCHEDULED alone
    \E h \in Holders(s) \ {r} : req[h].ap = "SCHEDULED"

\* uq_agendatec_appointments_active_slot refuses an active appointment of request r.
IndexRefuses(s, r) == Holders(s) \ {r} # {}

HasPendingRequest(st) ==   \* mutant: only a PENDING request counts
    \E r \in Rows : req[r].student = st /\ req[r].period = period /\ req[r].status = "PENDING"

HasRequest(st) ==
    \E r \in Rows : req[r].student = st /\ req[r].period = period /\ req[r].status # "CANCELED"

\* create_appointment_request up to its try block: an active period, no other
\* request of the student in it, a slot that exists, is free and has not begun.
BeginAppointment(p, st, s) ==
    /\ tx[p].pc = "idle" /\ MayStartFor(st) /\ RoomForRequest
    /\ period # NoPeriod
    /\ ~HasRequest(st)
    /\ slot[s] = "free"
    /\ s \notin past
    /\ Advance(p, [Idle EXCEPT !.pc = "reserve", !.who = "student", !.student = st,
                               !.period = period, !.slot = s])

\* UPDATE time_slots SET is_booked = true WHERE id = s AND is_booked = false:
\* waits for the row lock, then matches the committed row or none.  The new
\* value is invisible to the other sessions until the commit.
ReserveSlot(p) ==
    LET s == tx[p].slot IN
    /\ tx[p].pc = "reserve"
    /\ rowLock[s] = NoSession
    /\ IF slot[s] = "free"
       THEN /\ rowLock' = [rowLock EXCEPT ![s] = p]
            /\ tx' = [tx EXCEPT ![p].pc = "insert"]
            /\ UNCHANGED <<req, slot, period, past, reqLock, advisory>>
       ELSE Rollback(p)

\* INSERT of the request and of its appointment, and COMMIT; the unique index
\* turns a second active appointment of the slot into an IntegrityError.
CommitAppointment(p) ==
    LET t == tx[p] IN
    /\ t.pc = "insert"
    /\ IF IndexRefuses(t.slot, NoReq)
       THEN Rollback(p)
       ELSE /\ \E r \in ReqIds \ Rows :
                 req' = [req EXCEPT ![r] = [status |-> "PENDING", student |-> t.student,
                                            period |-> t.period, slot |-> t.slot,
                                            ap |-> "SCHEDULED"]]
            /\ slot' = [slot EXCEPT ![t.slot] = "booked"]
            /\ Finish(p)
            /\ UNCHANGED <<period, past>>

BeginDrop(p, st) ==
    /\ tx[p].pc = "idle" /\ MayStartFor(st) /\ RoomForRequest
    /\ period # NoPeriod
    /\ ~HasRequest(st)
    /\ Advance(p, [Idle EXCEPT !.pc = "insertDrop", !.who = "student", !.student = st,
                               !.period = period])

CommitDrop(p) ==
    LET t == tx[p] IN
    /\ t.pc = "insertDrop"
    /\ \E r \in ReqIds \ Rows :
         req' = [req EXCEPT ![r] = [status |-> "PENDING", student |-> t.student,
                                    period |-> t.period, slot |-> NoSlot, ap |-> "NONE"]]
    /\ Finish(p)
    /\ UNCHANGED <<slot, period, past>>

-----------------------------------------------------------------------------
(* Changing the status of a request: four handlers read the request and its *)
(* appointment, then (to cancel) the slot, and write what changed.          *)

\* The appointment status the request status stands for, and back.
ApFor(status) ==
    CASE status \in {"NO_SHOW", "CANCELED"} -> status
      [] status = "PENDING" -> "SCHEDULED"
      [] OTHER -> "DONE"

ReqFor(ap) ==
    CASE ap \in {"NO_SHOW", "CANCELED"} -> ap
      [] ap = "SCHEDULED" -> "PENDING"
      [] OTHER -> "RESOLVED_SUCCESS"

\* What a session knows once it has read request r, about to write new statuses
\* (a DROP request has no appointment to write).
Reader(r, who, pc, newReq, newAp, seenReq) ==
    [pc |-> pc, who |-> who, student |-> req[r].student, period |-> NoPeriod,
     req |-> r, slot |-> req[r].slot, slots |-> {},
     newReq |-> newReq, newAp |-> IF req[r].ap = "NONE" THEN "NONE" ELSE newAp,
     seenReq |-> seenReq, seenAp |-> req[r].ap, seenBooked |-> FALSE]

\* The slot is read only on the way to CANCELED.
ReadRow(p, r, who, newReq, newAp) ==
    LET next == IF req[r].ap # "NONE" /\ newAp = "CANCELED" THEN "slot" ELSE "write" IN
    Advance(p, Reader(r, who, next, newReq, newAp, req[r].status))

\* PATCH /requests/{id}/cancel by the student.
BeginCancel(p, r) ==
    /\ tx[p].pc = "idle" /\ MayStartFor(req[r].student)
    /\ req[r].status = "PENDING"
    /\ req[r].period = period
    /\ ReadRow(p, r, "student", "CANCELED", "CANCELED")

StaffMayTouch(r) ==
    /\ MayStartFor(req[r].student)
    /\ StaffRewrites \/ req[r].status # "CANCELED"

\* PATCH /coord/appointments/{id}: no condition on the old status.
BeginPatchAppointment(p, r) ==
    /\ tx[p].pc = "idle" /\ StaffMayTouch(r)
    /\ req[r].ap # "NONE"
    /\ \E newAp \in ApStatus : ReadRow(p, r, "coordinator", ReqFor(newAp), newAp)

\* PATCH /coord/requests/{id}/status: no condition on the old status either.
BeginPatchRequest(p, r) ==
    /\ tx[p].pc = "idle" /\ r \in Rows /\ StaffMayTouch(r)
    /\ \E new \in Resolutions \cup {"NO_SHOW", "CANCELED"} :
         ReadRow(p, r, "coordinator", new, ApFor(new))

\* admin_change_request_status: the statement's snapshot of the appointment is
\* taken before the request's row lock is granted ...
BeginAdminChange(p, r) ==
    /\ tx[p].pc = "idle" /\ r \in Rows /\ StaffMayTouch(r)
    /\ \E new \in Resolutions \cup {"PENDING", "NO_SHOW", "CANCELED"} :
         Advance(p, Reader(r, "admin", "lock", new, ApFor(new), "NONE"))

\* ... and the request itself is read once it is (SELECT ... FOR UPDATE OF).
\* PENDING is neither an allowed target from PENDING nor from anything else.
AdminLock(p) ==
    LET t == tx[p] IN
    /\ t.pc = "lock"
    /\ reqLock[t.req] = NoSession
    /\ IF t.newReq = "PENDING"
       THEN Rollback(p)
       ELSE /\ reqLock' = [reqLock EXCEPT ![t.req] = p]
            /\ tx' = [tx EXCEPT ![p].pc = IF t.newAp = "CANCELED" THEN "slot" ELSE "write",
                                ![p].seenReq = req[t.req].status]
            /\ UNCHANGED <<req, slot, period, past, rowLock, advisory>>

\* slot = db.get(TimeSlot, ap.slot_id); the student may not cancel once it began.
ReadSlot(p) ==
    LET t == tx[p] IN
    /\ t.pc = "slot"
    /\ IF t.who = "student" /\ t.slot \in past
       THEN Rollback(p)
       ELSE Advance(p, [t EXCEPT !.pc = "write", !.seenBooked = slot[t.slot] = "booked"])

\* The flush writes a column when the new value differs from the one READ, and
\* frees the slot when it was READ as booked.  It locks row after row, in an order
\* the unit of work does not fix between the request (with its appointment) and
\* the slot.
WritesAp(t) == t.newAp # t.seenAp
WritesReq(t) == t.newReq # t.seenReq \/ WritesAp(t)

FreesUnlessAdmin(t) == t.seenBooked /\ t.who # "admin"   \* mutant: one of four paths forgets

FreesUnlessStudent(t) == t.seenBooked /\ t.who # "student"   \* mutant: another one does

FreesSlot(t) == t.seenBooked

FlushRequest(p) ==
    LET t == tx[p] IN
    /\ t.pc = "write" /\ WritesReq(t)
    /\ reqLock[t.req] = NoSession
    /\ reqLock' = [reqLock EXCEPT ![t.req] = p]
    /\ UNCHANGED <<req, slot, period, past, rowLock, advisory, tx>>

FlushSlot(p) ==
    LET t == tx[p] IN
    /\ t.pc = "write" /\ FreesSlot(t)
    /\ rowLock[t.slot] = NoSession
    /\ rowLock' = [rowLock EXCEPT ![t.slot] = p]
    /\ UNCHANGED <<req, slot, period, past, reqLock, advisory, tx>>

\* COMMIT, or the IntegrityError of a second active appointment on the slot.
CommitStatus(p) ==
    LET t == tx[p]
        clash == WritesAp(t) /\ t.newAp \in IndexedStatus /\ IndexRefuses(t.slot, t.req)
    IN
    /\ t.pc = "write"
    /\ WritesReq(t) => reqLock[t.req] = p
    /\ FreesSlot(t) => rowLock[t.slot] = p
    /\ IF clash
       THEN Rollback(p)
       ELSE /\ req' = [req EXCEPT
                 ![t.req].status = IF t.newReq # t.seenReq THEN t.newReq ELSE @,
                 ![t.req].ap = IF WritesAp(t) THEN t.newAp ELSE @]
            /\ slot' = IF FreesSlot(t) THEN [slot EXCEPT ![t.slot] = "free"] ELSE slot
            /\ Finish(p)
            /\ UNCHANGED <<period, past>>

\* The sessions whose row locks a flushing session still needs.
WaitsFor(p) ==
    LET t == tx[p] IN
    IF t.pc # "write" THEN {}
    ELSE {q \in Sessions \ {p} : \/ (WritesReq(t) /\ reqLock[t.req] = q)
                               \/ (FreesSlot(t) /\ rowLock[t.slot] = q)}

\* PostgreSQL detects the cycle (one session has the request and wants the slot,
\* the other the reverse) and rolls one of the two back.
DeadlockVictim(p) ==
    /\ \E q \in WaitsFor(p) : p \in WaitsFor(q)
    /\ Rollback(p)

-----------------------------------------------------------------------------
(* The coordinator's day configuration, on a range that covers the slots R. *)

\* POST /coord/day-config ...
BeginSplit(p, R) ==
    /\ tx[p].pc = "idle"
    /\ Advance(p, [Idle EXCEPT !.pc = "advisory", !.who = "coordinator", !.slots = R])

\* ... takes the advisory lock of (coordinator, day) ...
TakeAdvisoryLock(p) ==
    /\ tx[p].pc = "advisory"
    /\ advisory = NoSession
    /\ advisory' = p
    /\ tx' = [tx EXCEPT ![p].pc = "splitLock"]
    /\ UNCHANGED <<req, slot, period, past, rowLock, reqLock>>

\* ... then the rows of the range FOR UPDATE, one by one ORDER BY id, BEFORE it
\* plans: the rows the statement matched that still exist when their turn comes ...
SplitLockNone(p) ==   \* mutant: the planned rows are not locked first
    /\ tx[p].pc = "splitLock"
    /\ Advance(p, [tx[p] EXCEPT !.pc = "plan", !.slots = {s \in @ : Exists(s)}])

SplitLock(p) ==
    LET R == {s \in tx[p].slots : Exists(s)}
        wanted == {s \in R : rowLock[s] # p}
    IN
    /\ tx[p].pc = "splitLock"
    /\ \/ /\ wanted = {}
          /\ Advance(p, [tx[p] EXCEPT !.pc = "plan", !.slots = R])
       \/ \E s \in wanted :
            /\ \A other \in wanted : s <= other
            /\ rowLock[s] = NoSession
            /\ rowLock' = [rowLock EXCEPT ![s] = p]
            /\ UNCHANGED <<req, slot, period, past, reqLock, advisory, tx>>

\* ... plans to delete the free slots without history; the others survive ...
SplitPlan(p) ==
    /\ tx[p].pc = "plan"
    /\ Advance(p, [tx[p] EXCEPT !.pc = "apply",
                                !.slots = {s \in @ : slot[s] = "free" /\ History(s) = {}}])

\* Deleting a slot row destroys its appointments (ON DELETE CASCADE).
Cascade(D) ==
    [r \in ReqIds |-> IF req[r].ap # "NONE" /\ req[r].slot \in D
                      THEN [req[r] EXCEPT !.ap = "NONE", !.slot = NoSlot] ELSE req[r]]

\* ... and applies: DELETE ... AND is_booked = false must remove every planned
\* row (409 otherwise), and the slots that fill the gaps are created.
SplitApply(p) ==
    LET D == tx[p].slots IN
    /\ tx[p].pc = "apply"
    /\ \A s \in D : rowLock[s] \in {NoSession, p}
    /\ IF \E s \in D : slot[s] # "free"
       THEN Rollback(p)
       ELSE \E N \in SUBSET {s \in Slots : slot[s] = "absent"} :
              /\ slot' = [s \in Slots |-> IF s \in D THEN "gone"
                                          ELSE IF s \in N THEN "free" ELSE slot[s]]
              /\ req' = Cascade(D)
              /\ Finish(p)
              /\ UNCHANGED <<period, past>>

\* DELETE /coord/day-config takes no lock: it counts the booked slots ...
BeginDelete(p, R) ==
    /\ tx[p].pc = "idle"
    /\ \A s \in R : slot[s] # "booked"
    /\ Advance(p, [Idle EXCEPT !.pc = "delete", !.who = "coordinator", !.slots = R])

\* ... and then deletes the rows of the range that are free and have no history.
\* One DELETE is one step on what is committed.  PostgreSQL takes the history
\* from the snapshot in which the statement began and tests a row that changed
\* since again for is_booked only: that a slot is booked and cancelled while the
\* statement waits for another row is left out.
CommitDelete(p) ==
    LET D == {s \in tx[p].slots : slot[s] = "free" /\ History(s) = {}} IN
    /\ tx[p].pc = "delete"
    /\ \A s \in D : rowLock[s] = NoSession
    /\ slot' = [s \in Slots |-> IF s \in D THEN "gone" ELSE slot[s]]
    /\ req' = Cascade(D)
    /\ Finish(p)
    /\ UNCHANGED <<period, past>>

-----------------------------------------------------------------------------
(* The environment: a session dies (error, lost connection, deadlock victim *)
(* of PostgreSQL), time passes, an administrator changes the active period. *)

Abort(p) == tx[p].pc # "idle" /\ Rollback(p)

TimePasses(s) ==
    /\ s \in ClockSlots \ past
    /\ past' = past \cup {s}
    /\ UNCHANGED <<req, slot, period, rowLock, reqLock, advisory, tx>>

\* activate_period and deactivate_period (NoPeriod).
ActivatePeriod(q) ==
    /\ period' = q
    /\ UNCHANGED <<req, slot, past, rowLock, reqLock, advisory, tx>>

\* A session goes on once it has started.
Continue(p) ==
    \/ ReserveSlot(p) \/ CommitAppointment(p) \/ CommitDrop(p)
    \/ AdminLock(p) \/ ReadSlot(p)
    \/ FlushRequest(p) \/ FlushSlot(p) \/ CommitStatus(p) \/ DeadlockVictim(p)
    \/ TakeAdvisoryLock(p) \/ SplitLock(p) \/ SplitPlan(p) \/ SplitApply(p) \/ CommitDelete(p)

Begin(p) ==
    \/ \E st \in Students : BeginDrop(p, st) \/ \E s \in Slots : BeginAppointment(p, st, s)
    \/ \E r \in ReqIds : \/ BeginCancel(p, r) \/ BeginPatchAppointment(p, r)
                         \/ BeginPatchRequest(p, r) \/ BeginAdminChange(p, r)
    \/ \E R \in SUBSET Slots : BeginSplit(p, R) \/ BeginDelete(p, R)

Next ==
    \/ \E p \in Sessions : Begin(p) \/ Continue(p) \/ Abort(p)
    \/ \E s \in Slots : TimePasses(s)
    \/ \E q \in PeriodTargets \ {period} : ActivatePeriod(q)

Spec == Init /\ [][Next]_vars

\* PostgreSQL queues the waiters of a row or advisory lock in order of arrival,
\* so a wait for a lock that is released again and again ends: strong fairness.
\* (A step that waits for nothing stays enabled: for it this is weak fairness.)
Fairness == \A p \in Sessions : SF_vars(Continue(p))

FairSpec == Spec /\ Fairness

-----------------------------------------------------------------------------
(* Properties.                                                              *)

\* A slot never has two appointments that are SCHEDULED or DONE, whatever
\* students, coordinators and administrators do at once (migration 742c0440efa1:
\* the compare-and-set of is_booked alone would not give it).
OneActivePerSlot ==
    \A s \in Slots : \A r1, r2 \in Holders(s) : r1 = r2

\* No slot is left marked as booked with every appointment on it cancelled: no
\* interleaving of bookings and of the four cancellation paths loses a release.
NoLeakedSlot ==
    \A s \in Slots : slot[s] = "booked" => \E r \in History(s) : req[r].ap # "CANCELED"

\* No step ever destroys an appointment or moves it to another slot: what the
\* FOR UPDATE before the plan, the history test and the is_booked = false of the
\* DELETE are there for (the foreign key is ON DELETE CASCADE).  Cancelled
\* appointments are kept too, as far as one DELETE sees one state (CommitDelete).
HistoryKept ==
    [][\A r \in ReqIds : req[r].ap # "NONE" =>
          req'[r].ap # "NONE" /\ req'[r].slot = req[r].slot]_vars

\* A slot, its appointment and its request tell the same story: is_booked is true
\* exactly when an appointment on the slot is not cancelled, and the status of an
\* appointment follows that of its request.
BookedAgrees ==
    /\ \A s \in Slots : Exists(s) =>
          (slot[s] = "booked" <=> \E r \in History(s) : req[r].ap # "CANCELED")
    /\ \A r \in ReqIds : req[r].ap # "NONE" => req[r].ap = ApFor(req[r].status)

\* A student has at most one request that is not cancelled in a period.
OneRequestPerPeriod ==
    \A r1, r2 \in Rows :
        /\ req[r1].student = req[r2].student /\ req[r1].period = req[r2].period
        /\ req[r1].status # "CANCELED" /\ req[r2].status # "CANCELED"
        => r1 = r2

\* The holder of a slot: the request whose appointment is SCHEDULED or DONE.
Holder == [s \in Slots |-> IF Holders(s) = {} THEN NoReq ELSE CHOOSE r \in Holders(s) : TRUE]

Allocation == INSTANCE SlotAllocation WITH Nobody <- NoReq, holder <- Holder

\* The sessions implement the abstract allocation of slots to requests: every
\* step takes one slot nobody holds, releases one slot, or changes no holder.
AllocationSpec == Allocation!Spec

\* Every session that starts ends: the order in which the handlers take the
\* advisory, slot and request locks leaves nobody waiting for ever.
SessionsEnd == \A p \in Sessions : tx[p].pc # "idle" ~> tx[p].pc = "idle"

=============================================================================
