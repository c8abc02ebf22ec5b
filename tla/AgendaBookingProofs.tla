------------------------- MODULE AgendaBookingProofs -------------------------
(***************************************************************************)
(* Safety of AgendaBooking for every number of students, slots, requests,  *)
(* periods and sessions, and for both values of the two switches; the last *)
(* part adds what holds of them under the discipline the switches off mean.*)
(***************************************************************************)
EXTENDS AgendaBooking, TLAPS

-----------------------------------------------------------------------------
(* Lemmas about the ends and the steps of a session.                        *)

LEMMA IdleIsTransaction == Idle \in Transactions
BY DEF Idle, Transactions, Step

\* One field of a session at a time.
LEMMA SetPc ==
    ASSUME NEW t \in Transactions, NEW pc \in Step,
           pc \in {"lock", "slot", "write"} => t.req \in ReqIds
    PROVE  [t EXCEPT !.pc = pc] \in Transactions
BY DEF Transactions

LEMMA SetSlots ==
    ASSUME NEW t \in Transactions, NEW R \in SUBSET Slots
    PROVE  [t EXCEPT !.slots = R] \in Transactions
BY DEF Transactions

LEMMA SetSeenBooked ==
    ASSUME NEW t \in Transactions, NEW b \in BOOLEAN
    PROVE  [t EXCEPT !.seenBooked = b] \in Transactions
BY DEF Transactions

LEMMA SetSeenReq ==
    ASSUME NEW t \in Transactions, NEW status \in ReqStatus \cup {"NONE"}
    PROVE  [t EXCEPT !.seenReq = status] \in Transactions
BY DEF Transactions

LEMMA NoRowIsRequest == NoRow \in Requests
BY DEF NoRow, Requests

LEMMA FinishType ==
    ASSUME TypeOK, NEW p \in Sessions, Finish(p)
    PROVE  /\ tx' \in [Sessions -> Transactions]
           /\ rowLock' \in [Slots -> Sessions \cup {NoSession}]
           /\ reqLock' \in [ReqIds -> Sessions \cup {NoSession}]
           /\ advisory' \in Sessions \cup {NoSession}
BY IdleIsTransaction DEF TypeOK, Finish

LEMMA RollbackType == ASSUME TypeOK, NEW p \in Sessions, Rollback(p) PROVE TypeOK'
BY FinishType DEF TypeOK, Rollback

LEMMA AdvanceType ==
    ASSUME TypeOK, NEW p \in Sessions, NEW t \in Transactions, Advance(p, t)
    PROVE  TypeOK'
BY DEF TypeOK, Advance

LEMMA CascadeType == ASSUME TypeOK, NEW D PROVE Cascade(D) \in [ReqIds -> Requests]
<1>1. ASSUME NEW r \in ReqIds PROVE [req[r] EXCEPT !.ap = "NONE", !.slot = NoSlot] \in Requests
  BY <1>1 DEF TypeOK, Requests
<1> QED
  BY <1>1 DEF TypeOK, Cascade

LEMMA ApForType == ASSUME NEW status \in ReqStatus PROVE ApFor(status) \in ApStatus
BY DEF ApFor, ReqStatus, ApStatus

LEMMA ReqForType == ASSUME NEW ap \in ApStatus PROVE ReqFor(ap) \in ReqStatus
BY DEF ReqFor, ReqStatus, ApStatus

\* What a session knows after reading a request is well typed.
LEMMA ReaderType ==
    ASSUME TypeOK, NEW r \in ReqIds, NEW who \in {"student", "coordinator", "admin"},
           NEW pc \in Step, NEW newReq \in ReqStatus, NEW newAp \in ApStatus,
           NEW seenReq \in ReqStatus \cup {"NONE"}
    PROVE  Reader(r, who, pc, newReq, newAp, seenReq) \in Transactions
<1> DEFINE ap == IF req[r].ap = "NONE" THEN "NONE" ELSE newAp
<1>1. req[r] \in Requests
  BY DEF TypeOK
<1>2. ap \in ApStatus \cup {"NONE"}
  OBVIOUS
<1>3. Reader(r, who, pc, newReq, newAp, seenReq) =
        [pc |-> pc, who |-> who, student |-> req[r].student, period |-> NoPeriod,
         req |-> r, slot |-> req[r].slot, slots |-> {}, newReq |-> newReq, newAp |-> ap,
         seenReq |-> seenReq, seenAp |-> req[r].ap, seenBooked |-> FALSE]
  BY DEF Reader
<1> HIDE DEF ap
<1> QED
  BY <1>1, <1>2, <1>3 DEF Transactions, Requests

LEMMA ReadRowType ==
    ASSUME TypeOK, NEW p \in Sessions, NEW r \in ReqIds,
           NEW who \in {"student", "coordinator", "admin"},
           NEW newReq \in ReqStatus, NEW newAp \in ApStatus, ReadRow(p, r, who, newReq, newAp)
    PROVE  TypeOK'
<1> DEFINE next == IF req[r].ap # "NONE" /\ newAp = "CANCELED" THEN "slot" ELSE "write"
<1>1. next \in Step
  BY DEF Step
<1>2. req[r].status \in ReqStatus \cup {"NONE"}
  BY DEF TypeOK, Requests
<1>3. Advance(p, Reader(r, who, next, newReq, newAp, req[r].status))
  BY DEF ReadRow
<1> HIDE DEF next
<1>4. Reader(r, who, next, newReq, newAp, req[r].status) \in Transactions
  BY <1>1, <1>2, ReaderType
<1> QED
  BY <1>3, <1>4, AdvanceType

-----------------------------------------------------------------------------
(* Type correctness.                                                        *)

LEMMA InitType == Init => TypeOK
BY IdleIsTransaction, NoRowIsRequest, SlotsAssumption DEF Init, TypeOK

LEMMA BeginType == ASSUME TypeOK, NEW p \in Sessions, Begin(p) PROVE TypeOK'
<1>1. ASSUME NEW st \in Students, BeginDrop(p, st) PROVE TypeOK'
  <2> DEFINE t == [Idle EXCEPT !.pc = "insertDrop", !.who = "student", !.student = st,
                               !.period = period]
  <2>1. t \in Transactions
    BY DEF TypeOK, Idle, Transactions, Step
  <2> QED
    BY <1>1, <2>1, AdvanceType DEF BeginDrop
<1>2. ASSUME NEW st \in Students, NEW s \in Slots, BeginAppointment(p, st, s) PROVE TypeOK'
  <2> DEFINE t == [Idle EXCEPT !.pc = "reserve", !.who = "student", !.student = st,
                               !.period = period, !.slot = s]
  <2>1. t \in Transactions
    BY DEF TypeOK, Idle, Transactions, Step
  <2> QED
    BY <1>2, <2>1, AdvanceType DEF BeginAppointment
<1>3. ASSUME NEW r \in ReqIds, BeginCancel(p, r) PROVE TypeOK'
  BY <1>3, ReadRowType DEF BeginCancel, ReqStatus, ApStatus
<1>4. ASSUME NEW r \in ReqIds, BeginPatchAppointment(p, r) PROVE TypeOK'
  BY <1>4, ReadRowType, ReqForType DEF BeginPatchAppointment
<1>5. ASSUME NEW r \in ReqIds, BeginPatchRequest(p, r) PROVE TypeOK'
  <2>1. PICK new \in Resolutions \cup {"NO_SHOW", "CANCELED"} :
               ReadRow(p, r, "coordinator", new, ApFor(new))
    BY <1>5 DEF BeginPatchRequest
  <2>2. new \in ReqStatus
    BY ResolutionsAssumption DEF ReqStatus
  <2> QED
    BY <2>1, <2>2, ReadRowType, ApForType
<1>6. ASSUME NEW r \in ReqIds, BeginAdminChange(p, r) PROVE TypeOK'
  <2>1. PICK new \in Resolutions \cup {"PENDING", "NO_SHOW", "CANCELED"} :
               Advance(p, Reader(r, "admin", "lock", new, ApFor(new), "NONE"))
    BY <1>6 DEF BeginAdminChange
  <2>2. new \in ReqStatus /\ ApFor(new) \in ApStatus
    BY ResolutionsAssumption, ApForType DEF ReqStatus
  <2>3. Reader(r, "admin", "lock", new, ApFor(new), "NONE") \in Transactions
    BY <2>2, ReaderType DEF Step
  <2> QED
    BY <2>1, <2>3, AdvanceType
<1>7. ASSUME NEW R \in SUBSET Slots, BeginSplit(p, R) PROVE TypeOK'
  <2> DEFINE t == [Idle EXCEPT !.pc = "advisory", !.who = "coordinator", !.slots = R]
  <2>1. t \in Transactions
    BY DEF Idle, Transactions, Step
  <2> QED
    BY <1>7, <2>1, AdvanceType DEF BeginSplit
<1>8. ASSUME NEW R \in SUBSET Slots, BeginDelete(p, R) PROVE TypeOK'
  <2> DEFINE t == [Idle EXCEPT !.pc = "delete", !.who = "coordinator", !.slots = R]
  <2>1. t \in Transactions
    BY DEF Idle, Transactions, Step
  <2> QED
    BY <1>8, <2>1, AdvanceType DEF BeginDelete
<1> QED
  BY <1>1, <1>2, <1>3, <1>4, <1>5, <1>6, <1>7, <1>8 DEF Begin

LEMMA CommitStatusType == ASSUME TypeOK, NEW p \in Sessions, CommitStatus(p) PROVE TypeOK'
<1> DEFINE t == tx[p]
           row == [req[t.req] EXCEPT
                     !.status = IF t.newReq # t.seenReq THEN t.newReq ELSE req[t.req].status,
                     !.ap = IF WritesAp(t) THEN t.newAp ELSE req[t.req].ap]
<1>1. CASE WritesAp(t) /\ t.newAp \in IndexedStatus /\ IndexRefuses(t.slot, t.req)
  BY <1>1, RollbackType DEF CommitStatus
<1>2. CASE ~(WritesAp(t) /\ t.newAp \in IndexedStatus /\ IndexRefuses(t.slot, t.req))
  <2>1. t \in Transactions
    BY DEF TypeOK
  <2>2. /\ req' = [req EXCEPT
               ![t.req].status = IF t.newReq # t.seenReq THEN t.newReq ELSE @,
               ![t.req].ap = IF WritesAp(t) THEN t.newAp ELSE @]
        /\ slot' = IF FreesSlot(t) THEN [slot EXCEPT ![t.slot] = "free"] ELSE slot
        /\ Finish(p) /\ UNCHANGED <<period, past>>
    BY <1>2 DEF CommitStatus
  <2>3. req' \in [ReqIds -> Requests]
    <3>1. ASSUME NEW r \in ReqIds PROVE req'[r] \in Requests
      <4>1. CASE r # t.req
        BY <2>2, <3>1, <4>1 DEF TypeOK
      <4>2. CASE r = t.req
        <5> DEFINE status == IF t.newReq # t.seenReq THEN t.newReq ELSE req[r].status
                   ap == IF WritesAp(t) THEN t.newAp ELSE req[r].ap
        <5>1. req'[r] = [req[r] EXCEPT !.status = status, !.ap = ap]
          BY <2>2, <3>1, <4>2 DEF TypeOK
        <5>2. req[r] \in Requests
          BY <3>1 DEF TypeOK
        <5>3. status \in ReqStatus \cup {"NONE"} /\ ap \in ApStatus \cup {"NONE"}
          BY <2>1, <5>2 DEF Transactions, Requests
        <5> HIDE DEF status, ap
        <5> QED
          BY <5>1, <5>2, <5>3 DEF Requests
      <4> QED
        BY <4>1, <4>2
    <3>2. req' = [r \in ReqIds |-> req'[r]]
      BY <2>2 DEF TypeOK
    <3> QED
      BY <3>1, <3>2
  <2>4. slot' \in [Slots -> {"absent", "free", "booked", "gone"}]
    BY <2>2 DEF TypeOK
  <2> QED
    BY <2>2, <2>3, <2>4, FinishType DEF TypeOK
<1> QED
  BY <1>1, <1>2

LEMMA ContinueType == ASSUME TypeOK, NEW p \in Sessions, Continue(p) PROVE TypeOK'
<1>0. tx[p] \in Transactions
  BY DEF TypeOK
<1>1. CASE ReserveSlot(p)
  <2>1. CASE slot[tx[p].slot] = "free"
    <3>1. [tx[p] EXCEPT !.pc = "insert"] \in Transactions
      BY <1>0, SetPc DEF Step
    <3> QED
      BY <1>1, <2>1, <3>1 DEF ReserveSlot, TypeOK
  <2>2. CASE slot[tx[p].slot] # "free"
    BY <1>1, <2>2, RollbackType DEF ReserveSlot
  <2> QED
    BY <2>1, <2>2
<1>2. CASE CommitAppointment(p)
  <2>1. CASE IndexRefuses(tx[p].slot, NoReq)
    BY <1>2, <2>1, RollbackType DEF CommitAppointment
  <2>2. CASE ~IndexRefuses(tx[p].slot, NoReq)
    <3>1. PICK r \in ReqIds \ Rows :
             req' = [req EXCEPT ![r] = [status |-> "PENDING", student |-> tx[p].student,
                                        period |-> tx[p].period, slot |-> tx[p].slot,
                                        ap |-> "SCHEDULED"]]
      BY <1>2, <2>2 DEF CommitAppointment
    <3>2. req' \in [ReqIds -> Requests]
      BY <1>0, <3>1 DEF TypeOK, Transactions, Requests, ReqStatus, ApStatus
    <3>3. slot' \in [Slots -> {"absent", "free", "booked", "gone"}]
      BY <1>2, <2>2 DEF CommitAppointment, TypeOK
    <3> QED
      BY <1>2, <2>2, <3>2, <3>3, FinishType DEF CommitAppointment, TypeOK
  <2> QED
    BY <2>1, <2>2
<1>3. CASE CommitDrop(p)
  <2>1. PICK r \in ReqIds \ Rows :
           req' = [req EXCEPT ![r] = [status |-> "PENDING", student |-> tx[p].student,
                                      period |-> tx[p].period, slot |-> NoSlot, ap |-> "NONE"]]
    BY <1>3 DEF CommitDrop
  <2>2. req' \in [ReqIds -> Requests]
    BY <1>0, <2>1 DEF TypeOK, Transactions, Requests, ReqStatus, ApStatus
  <2> QED
    BY <1>3, <2>2, FinishType DEF CommitDrop, TypeOK
<1>4. CASE AdminLock(p)
  <2>1. CASE tx[p].newReq = "PENDING"
    BY <1>4, <2>1, RollbackType DEF AdminLock
  <2>2. CASE tx[p].newReq # "PENDING"
    <3> DEFINE pc == IF tx[p].newAp = "CANCELED" THEN "slot" ELSE "write"
               t == [tx[p] EXCEPT !.pc = pc]
    <3>1. tx[p].req \in ReqIds
      BY <1>0, <1>4 DEF AdminLock, Transactions
    <3>2. t \in Transactions
      <4>1. pc \in Step
        BY DEF Step
      <4> HIDE DEF pc
      <4> QED
        BY <1>0, <3>1, <4>1, SetPc
    <3>3. req[tx[p].req].status \in ReqStatus \cup {"NONE"}
      BY <3>1 DEF TypeOK, Requests
    <3>4. [t EXCEPT !.seenReq = req[tx[p].req].status] \in Transactions
      <4> HIDE DEF t
      <4> QED
        BY <3>2, <3>3, SetSeenReq
    <3>5. tx' = [tx EXCEPT ![p] = [t EXCEPT !.seenReq = req[tx[p].req].status]]
      BY <1>4, <2>2 DEF AdminLock, TypeOK
    <3> HIDE DEF t
    <3> QED
      BY <1>4, <2>2, <3>1, <3>4, <3>5 DEF AdminLock, TypeOK
  <2> QED
    BY <2>1, <2>2
<1>5. CASE ReadSlot(p)
  <2>1. CASE tx[p].who = "student" /\ tx[p].slot \in past
    BY <1>5, <2>1, RollbackType DEF ReadSlot
  <2>2. CASE ~(tx[p].who = "student" /\ tx[p].slot \in past)
    <3> DEFINE t == [tx[p] EXCEPT !.pc = "write", !.seenBooked = slot[tx[p].slot] = "booked"]
    <3>1. t \in Transactions
      <4> DEFINE b == slot[tx[p].slot] = "booked"
                 u == [tx[p] EXCEPT !.pc = "write"]
      <4>0. tx[p].req \in ReqIds
        BY <1>0, <1>5 DEF ReadSlot, Transactions
      <4>1. u \in Transactions
        BY <1>0, <4>0, SetPc DEF Step
      <4>2. b \in BOOLEAN
        OBVIOUS
      <4>3. t = [u EXCEPT !.seenBooked = b]
        OBVIOUS
      <4> HIDE DEF t, u, b
      <4> QED
        BY <4>1, <4>2, <4>3, SetSeenBooked
    <3> QED
      BY <1>5, <2>2, <3>1, AdvanceType DEF ReadSlot
  <2> QED
    BY <2>1, <2>2
<1>6. CASE FlushRequest(p)
  BY <1>6 DEF FlushRequest, TypeOK
<1>7. CASE FlushSlot(p)
  BY <1>7 DEF FlushSlot, TypeOK
<1>8. CASE CommitStatus(p)
  BY <1>8, CommitStatusType
<1>9. CASE DeadlockVictim(p)
  BY <1>9, RollbackType DEF DeadlockVictim
<1>10. CASE TakeAdvisoryLock(p)
  <2>1. [tx[p] EXCEPT !.pc = "splitLock"] \in Transactions
    BY <1>0, SetPc DEF Step
  <2> QED
    BY <1>10, <2>1 DEF TakeAdvisoryLock, TypeOK
<1>11. CASE SplitLock(p)
  <2> DEFINE R == {s \in tx[p].slots : Exists(s)}
             u == [tx[p] EXCEPT !.pc = "plan"]
             t == [tx[p] EXCEPT !.pc = "plan", !.slots = R]
  <2>1. t \in Transactions
    <3>1. u \in Transactions
      BY <1>0, SetPc DEF Step
    <3>2. R \in SUBSET Slots
      BY <1>0 DEF Transactions
    <3>3. t = [u EXCEPT !.slots = R]
      OBVIOUS
    <3> HIDE DEF t, u, R
    <3> QED
      BY <3>1, <3>2, <3>3, SetSlots
  <2>2. CASE Advance(p, t)
    BY <2>1, <2>2, AdvanceType
  <2>3. CASE \E s \in R : /\ rowLock' = [rowLock EXCEPT ![s] = p]
                          /\ UNCHANGED <<req, slot, period, past, reqLock, advisory, tx>>
    BY <2>3 DEF TypeOK
  <2> QED
    BY <1>11, <2>2, <2>3 DEF SplitLock
<1>12. CASE SplitPlan(p)
  <2> DEFINE D == {s \in tx[p].slots : slot[s] = "free" /\ History(s) = {}}
             u == [tx[p] EXCEPT !.pc = "apply"]
             t == [tx[p] EXCEPT !.pc = "apply", !.slots = D]
  <2>1. t \in Transactions
    <3>1. u \in Transactions
      BY <1>0, SetPc DEF Step
    <3>2. D \in SUBSET Slots
      BY <1>0 DEF Transactions
    <3>3. t = [u EXCEPT !.slots = D]
      OBVIOUS
    <3> HIDE DEF t, u, D
    <3> QED
      BY <3>1, <3>2, <3>3, SetSlots
  <2> QED
    BY <1>12, <2>1, AdvanceType DEF SplitPlan
<1>13. CASE SplitApply(p)
  <2>1. CASE Rollback(p)
    BY <2>1, RollbackType
  <2>2. CASE ~Rollback(p)
    <3>1. PICK N \in SUBSET Slots :
             /\ slot' = [s \in Slots |-> IF s \in tx[p].slots THEN "gone"
                                         ELSE IF s \in N THEN "free" ELSE slot[s]]
             /\ req' = Cascade(tx[p].slots)
             /\ Finish(p)
             /\ UNCHANGED <<period, past>>
      BY <1>13, <2>2 DEF SplitApply
    <3> QED
      BY <3>1, FinishType, CascadeType DEF TypeOK
  <2> QED
    BY <2>1, <2>2
<1>14. CASE CommitDelete(p)
  BY <1>14, FinishType, CascadeType DEF CommitDelete, TypeOK
<1> QED
  BY <1>1, <1>2, <1>3, <1>4, <1>5, <1>6, <1>7, <1>8, <1>9, <1>10, <1>11, <1>12, <1>13,
     <1>14 DEF Continue

LEMMA StepType == TypeOK /\ [Next]_vars => TypeOK'
<1> SUFFICES ASSUME TypeOK, [Next]_vars PROVE TypeOK'
  OBVIOUS
<1>1. ASSUME NEW p \in Sessions, Begin(p) \/ Continue(p) \/ Abort(p) PROVE TypeOK'
  BY <1>1, BeginType, ContinueType, RollbackType DEF Abort
<1>2. ASSUME NEW s \in Slots, TimePasses(s) PROVE TypeOK'
  BY <1>2 DEF TimePasses, TypeOK
<1>3. ASSUME NEW q \in PeriodTargets, ActivatePeriod(q) PROVE TypeOK'
  BY <1>3, NamesAssumption DEF ActivatePeriod, TypeOK
<1>4. CASE UNCHANGED vars
  BY <1>4 DEF vars, TypeOK
<1> QED
  BY <1>1, <1>2, <1>3, <1>4 DEF Next

\* Every reachable state is well typed, whatever the constants.
THEOREM TypeCorrect == Spec => []TypeOK
<1>1. Init => TypeOK
  BY InitType
<1>2. TypeOK /\ [Next]_vars => TypeOK'
  BY StepType
<1> QED
  BY <1>1, <1>2, PTL DEF Spec

-----------------------------------------------------------------------------
(* The inductive invariant.  Uniqueness of the active appointment is         *)
(* inductive by itself, thanks to the index.  That nothing is ever destroyed *)
(* needs what the locks protect: a slot a split is about to delete is locked *)
(* by it and has no appointment, and whoever inserts one holds that lock.    *)

\* An appointment belongs to a request that exists, and has a slot.
RowsAgree ==
    \A r \in ReqIds : req[r].ap # "NONE" => req[r].status # "NONE" /\ req[r].slot \in Slots

\* What a session holds while it inserts, plans and applies.
HoldsItsLocks(p) ==
    /\ tx[p].pc \in {"reserve", "insert"} => tx[p].slot \in Slots
    /\ tx[p].pc = "insert" => rowLock[tx[p].slot] = p
    /\ tx[p].pc \in {"plan", "apply"} => \A s \in tx[p].slots : rowLock[s] = p
    /\ tx[p].pc = "apply" => \A s \in tx[p].slots : History(s) = {}

LocksHeld == \A p \in Sessions : HoldsItsLocks(p)

\* A session that has read an appointment may write to it: it is still there.
ReadsARow(p) ==
    tx[p].pc \in {"lock", "slot", "write"} =>
        /\ tx[p].newReq # "NONE"
        /\ tx[p].newAp = "NONE" <=> tx[p].seenAp = "NONE"
        /\ tx[p].seenAp # "NONE" => /\ req[tx[p].req].ap # "NONE"
                                   /\ req[tx[p].req].slot = tx[p].slot

ReadersAgree == \A p \in Sessions : ReadsARow(p)

IInv == TypeOK /\ OneActivePerSlot /\ RowsAgree /\ LocksHeld /\ ReadersAgree

\* The step form of HistoryKept.
KeepsHistory ==
    \A r \in ReqIds : req[r].ap # "NONE" => req'[r].ap # "NONE" /\ req'[r].slot = req[r].slot

\* A step of p takes no lock from another session and changes no other session.
OthersStay(p) ==
    \A q \in Sessions \ {p} :
        /\ tx'[q] = tx[q]
        /\ \A s \in Slots : rowLock[s] = q => rowLock'[s] = q

\* A slot gets no appointment it did not have.
NoNewHistory(s) ==
    \A r \in ReqIds : req'[r].ap # "NONE" /\ req'[r].slot = s => r \in History(s)

LEMMA FinishStays ==
    ASSUME TypeOK, NEW p \in Sessions, Finish(p)
    PROVE  OthersStay(p) /\ tx'[p].pc = "idle"
BY DEF TypeOK, Finish, OthersStay, Idle

LEMMA AdvanceStays ==
    ASSUME TypeOK, NEW p \in Sessions, NEW t, Advance(p, t)
    PROVE  OthersStay(p) /\ tx'[p] = t /\ req' = req /\ rowLock' = rowLock
BY DEF TypeOK, Advance, OthersStay

LEMMA IdleHoldsNothing ==
    ASSUME NEW p \in Sessions, tx'[p].pc = "idle"
    PROVE  HoldsItsLocks(p)' /\ ReadsARow(p)'
BY DEF HoldsItsLocks, ReadsARow

\* The parts about the sessions, once the step has kept every appointment.
LEMMA SessionsKeep ==
    ASSUME IInv, TypeOK', NEW p \in Sessions, OthersStay(p), KeepsHistory,
           \A s \in Slots : rowLock[s] # p => NoNewHistory(s),
           HoldsItsLocks(p)', ReadsARow(p)'
    PROVE  LocksHeld' /\ ReadersAgree'
<1>1. ASSUME NEW q \in Sessions \ {p} PROVE HoldsItsLocks(q)'
  <2>0. /\ tx'[q] = tx[q] /\ tx[q] \in Transactions
        /\ \A s \in Slots : rowLock[s] = q => rowLock'[s] = q
    BY <1>1 DEF OthersStay, IInv, TypeOK
  <2>1. tx[q].slots \subseteq Slots
    BY <2>0 DEF Transactions
  <2>2. HoldsItsLocks(q)
    BY DEF IInv, LocksHeld
  <2>3. ASSUME tx[q].pc = "apply", NEW s \in tx[q].slots PROVE History(s)' = {}
    <3>1. rowLock[s] = q /\ History(s) = {}
      BY <2>2, <2>3 DEF HoldsItsLocks
    <3>2. NoNewHistory(s)
      BY <2>1, <3>1
    <3> QED
      BY <3>1, <3>2 DEF NoNewHistory, History
  <2> QED
    BY <2>0, <2>1, <2>2, <2>3 DEF HoldsItsLocks
<1>2. ASSUME NEW q \in Sessions \ {p} PROVE ReadsARow(q)'
  <2>0. tx'[q] = tx[q] /\ tx[q] \in Transactions
    BY <1>2 DEF OthersStay, IInv, TypeOK
  <2>1. ReadsARow(q)
    BY DEF IInv, ReadersAgree
  <2>2. tx[q].pc \in {"lock", "slot", "write"} => tx[q].req \in ReqIds
    BY <2>0 DEF Transactions
  <2> QED
    BY <2>0, <2>1, <2>2 DEF ReadsARow, KeepsHistory
<1> QED
  BY <1>1, <1>2 DEF LocksHeld, ReadersAgree

\* A step that changes no request.
LEMMA SameRequests ==
    ASSUME IInv, TypeOK', NEW p \in Sessions, OthersStay(p), req' = req,
           HoldsItsLocks(p)', ReadsARow(p)'
    PROVE  IInv' /\ KeepsHistory
<1>1. KeepsHistory /\ \A s \in Slots : NoNewHistory(s)
  BY DEF KeepsHistory, NoNewHistory, History
<1>2. LocksHeld' /\ ReadersAgree'
  BY <1>1, SessionsKeep
<1>3. \A s : Holders(s)' = Holders(s)
  BY DEF Holders, History
<1>4. OneActivePerSlot' /\ RowsAgree'
  BY <1>3 DEF IInv, OneActivePerSlot, RowsAgree
<1> QED
  BY <1>1, <1>2, <1>4 DEF IInv

LEMMA RollbackInv ==
    ASSUME IInv, NEW p \in Sessions, Rollback(p)
    PROVE  IInv' /\ KeepsHistory
BY RollbackType, FinishStays, IdleHoldsNothing, SameRequests DEF IInv, Rollback

\* A session that ends having deleted slots without history.
LEMMA CascadeOfNothing ==
    ASSUME TypeOK, NEW D \in SUBSET Slots, \A s \in D : History(s) = {}
    PROVE  Cascade(D) = req
<1>1. \A r \in ReqIds : ~(req[r].ap # "NONE" /\ req[r].slot \in D)
  BY DEF History
<1> QED
  BY <1>1 DEF Cascade, TypeOK

-----------------------------------------------------------------------------
(* Each step preserves the invariant and keeps every appointment.           *)

LEMMA ReadRowInv ==
    ASSUME IInv, NEW p \in Sessions, NEW r \in ReqIds,
           NEW who \in {"student", "coordinator", "admin"},
           NEW newReq \in ReqStatus, NEW newAp \in ApStatus,
           NEW seenReq \in ReqStatus \cup {"NONE"}, NEW pc \in {"lock", "slot", "write"},
           Advance(p, Reader(r, who, pc, newReq, newAp, seenReq))
    PROVE  IInv' /\ KeepsHistory
<1> DEFINE t == Reader(r, who, pc, newReq, newAp, seenReq)
<1>0. TypeOK
  BY DEF IInv
<1>1. /\ t.pc = pc /\ t.req = r /\ t.slot = req[r].slot /\ t.newReq = newReq
      /\ t.newAp = IF req[r].ap = "NONE" THEN "NONE" ELSE newAp
      /\ t.seenAp = req[r].ap
  BY DEF Reader
<1>2. t \in Transactions
  BY <1>0, ReaderType DEF Step
<1> HIDE DEF t
<1>3. TypeOK' /\ OthersStay(p) /\ tx'[p] = t /\ req' = req
  BY <1>0, <1>2, AdvanceType, AdvanceStays DEF t
<1>4. HoldsItsLocks(p)'
  BY <1>1, <1>3 DEF HoldsItsLocks
<1>5. newReq # "NONE" /\ newAp # "NONE"
  BY DEF ReqStatus, ApStatus
<1>6. ReadsARow(p)'
  BY <1>1, <1>3, <1>5 DEF ReadsARow
<1> QED
  BY <1>3, <1>4, <1>6, SameRequests

\* A session that starts without reading a request.
LEMMA StartInv ==
    ASSUME IInv, TypeOK', NEW p \in Sessions, NEW t, Advance(p, t),
           t.pc \in {"reserve", "insertDrop", "advisory", "delete"},
           t.pc = "reserve" => t.slot \in Slots
    PROVE  IInv' /\ KeepsHistory
<1>1. OthersStay(p) /\ tx'[p] = t /\ req' = req
  BY AdvanceStays DEF IInv
<1>2. HoldsItsLocks(p)' /\ ReadsARow(p)'
  BY <1>1 DEF HoldsItsLocks, ReadsARow
<1> QED
  BY <1>1, <1>2, SameRequests

LEMMA BeginInv ==
    ASSUME IInv, NEW p \in Sessions, Begin(p)
    PROVE  IInv' /\ KeepsHistory
<1>0. TypeOK /\ TypeOK'
  BY BeginType DEF IInv
<1>1. ASSUME NEW st \in Students, BeginDrop(p, st) PROVE IInv' /\ KeepsHistory
  <2> DEFINE t == [Idle EXCEPT !.pc = "insertDrop", !.who = "student", !.student = st,
                               !.period = period]
  <2>1. t.pc = "insertDrop" /\ Advance(p, t)
    BY <1>1 DEF BeginDrop, Idle
  <2> HIDE DEF t
  <2> QED
    BY <1>0, <2>1, StartInv
<1>2. ASSUME NEW st \in Students, NEW s \in Slots, BeginAppointment(p, st, s)
      PROVE  IInv' /\ KeepsHistory
  <2> DEFINE t == [Idle EXCEPT !.pc = "reserve", !.who = "student", !.student = st,
                               !.period = period, !.slot = s]
  <2>1. t.pc = "reserve" /\ t.slot = s /\ Advance(p, t)
    BY <1>2 DEF BeginAppointment, Idle
  <2> HIDE DEF t
  <2> QED
    BY <1>0, <2>1, StartInv
<1>3. ASSUME NEW r \in ReqIds, NEW who \in {"student", "coordinator", "admin"},
             NEW newReq \in ReqStatus, NEW newAp \in ApStatus, ReadRow(p, r, who, newReq, newAp)
      PROVE  IInv' /\ KeepsHistory
  <2> DEFINE next == IF req[r].ap # "NONE" /\ newAp = "CANCELED" THEN "slot" ELSE "write"
  <2>1. next \in {"lock", "slot", "write"}
    OBVIOUS
  <2>2. req[r].status \in ReqStatus \cup {"NONE"}
    BY <1>0 DEF TypeOK, Requests
  <2>3. Advance(p, Reader(r, who, next, newReq, newAp, req[r].status))
    BY <1>3 DEF ReadRow
  <2> HIDE DEF next
  <2> QED
    BY <2>1, <2>2, <2>3, ReadRowInv
<1>4. ASSUME NEW r \in ReqIds, BeginCancel(p, r) PROVE IInv' /\ KeepsHistory
  BY <1>3, <1>4 DEF BeginCancel, ReqStatus, ApStatus
<1>5. ASSUME NEW r \in ReqIds, BeginPatchAppointment(p, r) PROVE IInv' /\ KeepsHistory
  BY <1>3, <1>5, ReqForType DEF BeginPatchAppointment
<1>6. ASSUME NEW r \in ReqIds, BeginPatchRequest(p, r) PROVE IInv' /\ KeepsHistory
  <2>1. PICK new \in Resolutions \cup {"NO_SHOW", "CANCELED"} :
               ReadRow(p, r, "coordinator", new, ApFor(new))
    BY <1>6 DEF BeginPatchRequest
  <2>2. new \in ReqStatus
    BY ResolutionsAssumption DEF ReqStatus
  <2> QED
    BY <1>3, <2>1, <2>2, ApForType
<1>7. ASSUME NEW r \in ReqIds, BeginAdminChange(p, r) PROVE IInv' /\ KeepsHistory
  <2>1. PICK new \in Resolutions \cup {"PENDING", "NO_SHOW", "CANCELED"} :
               Advance(p, Reader(r, "admin", "lock", new, ApFor(new), "NONE"))
    BY <1>7 DEF BeginAdminChange
  <2>2. new \in ReqStatus /\ ApFor(new) \in ApStatus
    BY ResolutionsAssumption, ApForType DEF ReqStatus
  <2> QED
    BY <2>1, <2>2, ReadRowInv
<1>8. ASSUME NEW R \in SUBSET Slots, BeginSplit(p, R) PROVE IInv' /\ KeepsHistory
  <2> DEFINE t == [Idle EXCEPT !.pc = "advisory", !.who = "coordinator", !.slots = R]
  <2>1. t.pc = "advisory" /\ Advance(p, t)
    BY <1>8 DEF BeginSplit, Idle
  <2> HIDE DEF t
  <2> QED
    BY <1>0, <2>1, StartInv
<1>9. ASSUME NEW R \in SUBSET Slots, BeginDelete(p, R) PROVE IInv' /\ KeepsHistory
  <2> DEFINE t == [Idle EXCEPT !.pc = "delete", !.who = "coordinator", !.slots = R]
  <2>1. t.pc = "delete" /\ Advance(p, t)
    BY <1>9 DEF BeginDelete, Idle
  <2> HIDE DEF t
  <2> QED
    BY <1>0, <2>1, StartInv
<1> QED
  BY <1>1, <1>2, <1>4, <1>5, <1>6, <1>7, <1>8, <1>9 DEF Begin

\* A new request takes an unused id, which has no appointment yet.
LEMMA NewRequest ==
    ASSUME IInv, NEW r \in ReqIds \ Rows, NEW row, req' = [req EXCEPT ![r] = row]
    PROVE  /\ KeepsHistory /\ req[r].ap = "NONE" /\ req'[r] = row
           /\ \A other \in ReqIds \ {r} : req'[other] = req[other]
BY DEF IInv, TypeOK, RowsAgree, Rows, KeepsHistory

LEMMA CommitAppointmentInv ==
    ASSUME IInv, NEW p \in Sessions, CommitAppointment(p)
    PROVE  IInv' /\ KeepsHistory
<1> DEFINE t == tx[p]
<1>0. TypeOK /\ TypeOK'
  BY ContinueType DEF IInv, Continue
<1>1. CASE IndexRefuses(t.slot, NoReq)
  BY <1>1, RollbackInv DEF CommitAppointment
<1>2. CASE ~IndexRefuses(t.slot, NoReq)
  <2> DEFINE row == [status |-> "PENDING", student |-> t.student, period |-> t.period,
                     slot |-> t.slot, ap |-> "SCHEDULED"]
  <2>1. PICK r \in ReqIds \ Rows : req' = [req EXCEPT ![r] = row]
    BY <1>2 DEF CommitAppointment
  <2>2. t.slot \in Slots /\ rowLock[t.slot] = p
    BY DEF IInv, LocksHeld, HoldsItsLocks, CommitAppointment
  <2>3. row.status = "PENDING" /\ row.ap = "SCHEDULED" /\ row.slot = t.slot
    OBVIOUS
  <2> HIDE DEF row
  <2>4. /\ KeepsHistory /\ req'[r] = row
        /\ \A other \in ReqIds \ {r} : req'[other] = req[other]
    BY <2>1, NewRequest
  <2>5. Holders(t.slot) = {}
    BY <1>2, NamesAssumption DEF IndexRefuses, Holders, History
  <2>6. OneActivePerSlot'
    BY <2>3, <2>4, <2>5 DEF IInv, OneActivePerSlot, Holders, History
  <2>7. RowsAgree'
    BY <2>2, <2>3, <2>4 DEF IInv, RowsAgree
  <2>8. \A s \in Slots : rowLock[s] # p => NoNewHistory(s)
    BY <2>2, <2>3, <2>4 DEF NoNewHistory, History
  <2>9. OthersStay(p) /\ HoldsItsLocks(p)' /\ ReadsARow(p)'
    BY <1>0, <1>2, FinishStays, IdleHoldsNothing DEF CommitAppointment
  <2> QED
    BY <1>0, <2>4, <2>6, <2>7, <2>8, <2>9, SessionsKeep DEF IInv
<1> QED
  BY <1>1, <1>2

LEMMA CommitDropInv ==
    ASSUME IInv, NEW p \in Sessions, CommitDrop(p)
    PROVE  IInv' /\ KeepsHistory
<1> DEFINE row == [status |-> "PENDING", student |-> tx[p].student, period |-> tx[p].period,
                   slot |-> NoSlot, ap |-> "NONE"]
<1>0. TypeOK /\ TypeOK'
  BY ContinueType DEF IInv, Continue
<1>1. PICK r \in ReqIds \ Rows : req' = [req EXCEPT ![r] = row]
  BY DEF CommitDrop
<1>2. row.status = "PENDING" /\ row.ap = "NONE"
  OBVIOUS
<1> HIDE DEF row
<1>3. /\ KeepsHistory /\ req'[r] = row
      /\ \A other \in ReqIds \ {r} : req'[other] = req[other]
  BY <1>1, NewRequest
<1>4. OneActivePerSlot'
  BY <1>2, <1>3 DEF IInv, OneActivePerSlot, Holders, History
<1>5. RowsAgree'
  BY <1>2, <1>3 DEF IInv, RowsAgree
<1>6. \A s \in Slots : NoNewHistory(s)
  BY <1>2, <1>3 DEF NoNewHistory, History
<1>7. OthersStay(p) /\ HoldsItsLocks(p)' /\ ReadsARow(p)'
  BY <1>0, FinishStays, IdleHoldsNothing DEF CommitDrop
<1> QED
  BY <1>0, <1>3, <1>4, <1>5, <1>6, <1>7, SessionsKeep DEF IInv

\* What a status change writes: no appointment appears, disappears or moves.
LEMMA StatusWrites ==
    ASSUME IInv, NEW p \in Sessions, CommitStatus(p),
           ~(WritesAp(tx[p]) /\ tx[p].newAp \in IndexedStatus
                             /\ IndexRefuses(tx[p].slot, tx[p].req))
    PROVE  /\ tx[p].req \in ReqIds
           /\ \A r \in ReqIds : /\ req'[r].slot = req[r].slot
                                /\ req'[r].ap = "NONE" <=> req[r].ap = "NONE"
                                /\ req'[r].status = "NONE" => req[r].status = "NONE"
                                /\ r # tx[p].req => req'[r] = req[r]
           /\ req'[tx[p].req].ap = IF WritesAp(tx[p]) THEN tx[p].newAp ELSE req[tx[p].req].ap
           /\ WritesAp(tx[p]) => /\ req[tx[p].req].ap # "NONE"
                                 /\ req[tx[p].req].slot = tx[p].slot
<1> DEFINE t == tx[p]
           status == IF t.newReq # t.seenReq THEN t.newReq ELSE req[t.req].status
           ap == IF WritesAp(t) THEN t.newAp ELSE req[t.req].ap
<1>1. t.pc = "write" /\ t \in Transactions
  BY DEF CommitStatus, IInv, TypeOK
<1>2. t.req \in ReqIds
  BY <1>1 DEF Transactions
<1>3. /\ t.newReq # "NONE"
      /\ t.newAp = "NONE" <=> t.seenAp = "NONE"
      /\ t.seenAp # "NONE" => req[t.req].ap # "NONE" /\ req[t.req].slot = t.slot
  BY <1>1 DEF IInv, ReadersAgree, ReadsARow
<1>4. req' = [req EXCEPT ![t.req].status = IF t.newReq # t.seenReq THEN t.newReq ELSE @,
                         ![t.req].ap = IF WritesAp(t) THEN t.newAp ELSE @]
  BY DEF CommitStatus
<1>5. req'[t.req] = [req[t.req] EXCEPT !.status = status, !.ap = ap]
  BY <1>2, <1>4 DEF IInv, TypeOK
<1>6. req[t.req] \in Requests
  BY <1>2 DEF IInv, TypeOK
<1>7. ap = "NONE" <=> req[t.req].ap = "NONE"
  BY <1>3 DEF WritesAp
<1>8. status = "NONE" => req[t.req].status = "NONE"
  BY <1>3
<1>9. \A r \in ReqIds : r # t.req => req'[r] = req[r]
  BY <1>4 DEF IInv, TypeOK
<1>10. WritesAp(t) => req[t.req].ap # "NONE" /\ req[t.req].slot = t.slot
  BY <1>3 DEF WritesAp
<1> HIDE DEF status, ap
<1>11. /\ req'[t.req].status = status /\ req'[t.req].ap = ap
       /\ req'[t.req].slot = req[t.req].slot
  BY <1>5, <1>6 DEF Requests
<1>12. \A r \in ReqIds : /\ req'[r].slot = req[r].slot
                         /\ req'[r].ap = "NONE" <=> req[r].ap = "NONE"
                         /\ req'[r].status = "NONE" => req[r].status = "NONE"
                         /\ r # t.req => req'[r] = req[r]
  BY <1>7, <1>8, <1>9, <1>11
<1> QED
  BY <1>2, <1>10, <1>11, <1>12 DEF ap

LEMMA CommitStatusInv ==
    ASSUME IInv, NEW p \in Sessions, CommitStatus(p)
    PROVE  IInv' /\ KeepsHistory
<1> DEFINE t == tx[p]
           clash == WritesAp(t) /\ t.newAp \in IndexedStatus /\ IndexRefuses(t.slot, t.req)
<1>0. TypeOK /\ TypeOK'
  BY ContinueType DEF IInv, Continue
<1>1. CASE clash
  BY <1>1, RollbackInv DEF CommitStatus
<1>2. CASE ~clash
  <2>1. /\ t.req \in ReqIds
        /\ \A r \in ReqIds : /\ req'[r].slot = req[r].slot
                             /\ req'[r].ap = "NONE" <=> req[r].ap = "NONE"
                             /\ req'[r].status = "NONE" => req[r].status = "NONE"
                             /\ r # t.req => req'[r] = req[r]
        /\ req'[t.req].ap = IF WritesAp(t) THEN t.newAp ELSE req[t.req].ap
        /\ WritesAp(t) => req[t.req].ap # "NONE" /\ req[t.req].slot = t.slot
    BY <1>2, StatusWrites
  <2>2. KeepsHistory /\ RowsAgree' /\ \A s \in Slots : NoNewHistory(s)
    BY <2>1 DEF IInv, RowsAgree, KeepsHistory, NoNewHistory, History
  <2>3. OneActivePerSlot'
    <3>1. CASE ~(WritesAp(t) /\ t.newAp \in IndexedStatus)
      BY <2>1, <3>1 DEF IInv, OneActivePerSlot, Holders, History
    <3>2. CASE WritesAp(t) /\ t.newAp \in IndexedStatus
      <4>1. Holders(t.slot) \subseteq {t.req}
        BY <1>2, <3>2 DEF IndexRefuses
      <4>2. \A s : s = t.slot => \A r \in Holders(s)' : r = t.req
        BY <2>1, <4>1 DEF Holders, History
      <4>3. \A s : s # t.slot => Holders(s)' = Holders(s)
        BY <2>1, <3>2 DEF Holders, History
      <4> QED
        BY <4>2, <4>3 DEF IInv, OneActivePerSlot
    <3> QED
      BY <3>1, <3>2
  <2>4. OthersStay(p) /\ HoldsItsLocks(p)' /\ ReadsARow(p)'
    BY <1>0, <1>2, FinishStays, IdleHoldsNothing DEF CommitStatus
  <2> QED
    BY <1>0, <2>2, <2>3, <2>4, SessionsKeep DEF IInv
<1> QED
  BY <1>1, <1>2

\* Slots are deleted without their appointments: there are none.
LEMMA DeletionsKeep ==
    ASSUME IInv, NEW p \in Sessions, SplitApply(p) \/ CommitDelete(p)
    PROVE  req' = req /\ Finish(p)
<1>0. TypeOK /\ tx[p].slots \in SUBSET Slots
  BY DEF IInv, TypeOK, Transactions
<1>1. CASE SplitApply(p)
  <2>1. Rollback(p) \/ (req' = Cascade(tx[p].slots) /\ Finish(p))
    BY <1>1 DEF SplitApply
  <2>2. \A s \in tx[p].slots : History(s) = {}
    BY <1>1 DEF IInv, LocksHeld, HoldsItsLocks, SplitApply
  <2> QED
    BY <1>0, <2>1, <2>2, CascadeOfNothing DEF Rollback
<1>2. CASE CommitDelete(p)
  <2> DEFINE D == {s \in tx[p].slots : slot[s] = "free" /\ History(s) = {}}
  <2>1. D \in SUBSET Slots /\ \A s \in D : History(s) = {}
    BY <1>0
  <2>2. req' = Cascade(D) /\ Finish(p)
    BY <1>2 DEF CommitDelete
  <2> HIDE DEF D
  <2> QED
    BY <1>0, <2>1, <2>2, CascadeOfNothing
<1> QED
  BY <1>1, <1>2

LEMMA ContinueInv ==
    ASSUME IInv, NEW p \in Sessions, Continue(p)
    PROVE  IInv' /\ KeepsHistory
<1>0. TypeOK /\ TypeOK' /\ tx[p] \in Transactions
  BY ContinueType DEF IInv, TypeOK
<1>1. CASE ReserveSlot(p)
  <2>1. CASE slot[tx[p].slot] = "free"
    <3>1. tx[p].slot \in Slots
      BY <1>1 DEF IInv, LocksHeld, HoldsItsLocks, ReserveSlot
    <3>2. /\ tx'[p].pc = "insert" /\ tx'[p].slot = tx[p].slot
          /\ rowLock'[tx[p].slot] = p /\ req' = req
      BY <1>0, <1>1, <2>1, <3>1 DEF ReserveSlot, TypeOK, Transactions
    <3>3. OthersStay(p)
      BY <1>0, <1>1, <2>1, NamesAssumption DEF ReserveSlot, TypeOK, OthersStay
    <3>4. HoldsItsLocks(p)' /\ ReadsARow(p)'
      BY <3>1, <3>2 DEF HoldsItsLocks, ReadsARow
    <3> QED
      BY <1>0, <3>2, <3>3, <3>4, SameRequests
  <2>2. CASE slot[tx[p].slot] # "free"
    BY <1>1, <2>2, RollbackInv DEF ReserveSlot
  <2> QED
    BY <2>1, <2>2
<1>2. CASE AdminLock(p)
  <2>1. CASE tx[p].newReq = "PENDING"
    BY <1>2, <2>1, RollbackInv DEF AdminLock
  <2>2. CASE tx[p].newReq # "PENDING"
    <3>1. /\ tx'[p].pc \in {"slot", "write"} /\ tx[p].pc = "lock"
          /\ tx'[p].newReq = tx[p].newReq /\ tx'[p].newAp = tx[p].newAp
          /\ tx'[p].seenAp = tx[p].seenAp /\ tx'[p].req = tx[p].req
          /\ tx'[p].slot = tx[p].slot
      BY <1>0, <1>2, <2>2 DEF AdminLock, TypeOK, Transactions
    <3>2. req' = req /\ OthersStay(p)
      BY <1>0, <1>2, <2>2 DEF AdminLock, TypeOK, OthersStay
    <3>3. HoldsItsLocks(p)'
      BY <3>1 DEF HoldsItsLocks
    <3>4. ReadsARow(p)'
      BY <3>1, <3>2 DEF IInv, ReadersAgree, ReadsARow
    <3> QED
      BY <1>0, <3>2, <3>3, <3>4, SameRequests
  <2> QED
    BY <2>1, <2>2
<1>3. CASE ReadSlot(p)
  <2>1. CASE tx[p].who = "student" /\ tx[p].slot \in past
    BY <1>3, <2>1, RollbackInv DEF ReadSlot
  <2>2. CASE ~(tx[p].who = "student" /\ tx[p].slot \in past)
    <3> DEFINE b == slot[tx[p].slot] = "booked"
               t == [tx[p] EXCEPT !.pc = "write", !.seenBooked = b]
    <3>1. Advance(p, t) /\ tx[p].pc = "slot"
      BY <1>3, <2>2 DEF ReadSlot
    <3>2. /\ t.pc = "write" /\ t.newReq = tx[p].newReq /\ t.newAp = tx[p].newAp
          /\ t.seenAp = tx[p].seenAp /\ t.req = tx[p].req /\ t.slot = tx[p].slot
      <4> HIDE DEF b
      <4> QED
        BY <1>0 DEF Transactions
    <3> HIDE DEF t
    <3>3. OthersStay(p) /\ tx'[p] = t /\ req' = req
      BY <1>0, <3>1, AdvanceStays
    <3>4. HoldsItsLocks(p)'
      BY <3>2, <3>3 DEF HoldsItsLocks
    <3>5. ReadsARow(p)'
      BY <3>1, <3>2, <3>3 DEF IInv, ReadersAgree, ReadsARow
    <3> QED
      BY <1>0, <3>3, <3>4, <3>5, SameRequests
  <2> QED
    BY <2>1, <2>2
<1>4. CASE FlushRequest(p) \/ FlushSlot(p)
  <2>1. tx' = tx /\ req' = req /\ tx[p].pc = "write" /\ OthersStay(p)
    BY <1>0, <1>4, NamesAssumption DEF FlushRequest, FlushSlot, TypeOK, OthersStay
  <2>2. HoldsItsLocks(p)'
    BY <2>1 DEF HoldsItsLocks
  <2>3. ReadsARow(p)'
    BY <2>1 DEF IInv, ReadersAgree, ReadsARow
  <2> QED
    BY <1>0, <2>1, <2>2, <2>3, SameRequests
<1>5. CASE DeadlockVictim(p)
  BY <1>5, RollbackInv DEF DeadlockVictim
<1>6. CASE TakeAdvisoryLock(p)
  <2>1. /\ tx'[p].pc = "splitLock" /\ req' = req /\ OthersStay(p)
    BY <1>0, <1>6 DEF TakeAdvisoryLock, TypeOK, Transactions, OthersStay
  <2>2. HoldsItsLocks(p)' /\ ReadsARow(p)'
    BY <2>1 DEF HoldsItsLocks, ReadsARow
  <2> QED
    BY <1>0, <2>1, <2>2, SameRequests
<1>7. CASE SplitLock(p)
  <2> DEFINE R == {s \in tx[p].slots : Exists(s)}
             t == [tx[p] EXCEPT !.pc = "plan", !.slots = R]
  <2>1. CASE Advance(p, t) /\ {s \in R : rowLock[s] # p} = {}
    <3>1. t.pc = "plan" /\ t.slots = R
      <4> HIDE DEF R
      <4> QED
        BY <1>0 DEF Transactions
    <3>2. \A s \in R : rowLock[s] = p
      BY <2>1
    <3> HIDE DEF t, R
    <3>3. OthersStay(p) /\ tx'[p] = t /\ req' = req /\ rowLock' = rowLock
      BY <1>0, <2>1, AdvanceStays
    <3>4. HoldsItsLocks(p)' /\ ReadsARow(p)'
      BY <3>1, <3>2, <3>3 DEF HoldsItsLocks, ReadsARow
    <3> QED
      BY <1>0, <3>3, <3>4, SameRequests
  <2>2. CASE \E s \in R : /\ rowLock[s] = NoSession
                          /\ rowLock' = [rowLock EXCEPT ![s] = p]
                          /\ UNCHANGED <<req, slot, period, past, reqLock, advisory, tx>>
    <3>1. tx' = tx /\ req' = req /\ tx[p].pc = "splitLock"
      BY <1>7, <2>2 DEF SplitLock
    <3>2. OthersStay(p)
      BY <1>0, <2>2, NamesAssumption DEF TypeOK, OthersStay
    <3>3. HoldsItsLocks(p)' /\ ReadsARow(p)'
      BY <3>1 DEF HoldsItsLocks, ReadsARow
    <3> QED
      BY <1>0, <3>1, <3>2, <3>3, SameRequests
  <2> QED
    BY <1>7, <2>1, <2>2 DEF SplitLock
<1>8. CASE SplitPlan(p)
  <2> DEFINE D == {s \in tx[p].slots : slot[s] = "free" /\ History(s) = {}}
             t == [tx[p] EXCEPT !.pc = "apply", !.slots = D]
  <2>1. \A s \in D : rowLock[s] = p /\ History(s) = {}
    BY <1>8 DEF IInv, LocksHeld, HoldsItsLocks, SplitPlan
  <2>2. Advance(p, t)
    BY <1>8 DEF SplitPlan
  <2>3. t.pc = "apply" /\ t.slots = D
    <3> HIDE DEF D
    <3> QED
      BY <1>0 DEF Transactions
  <2> HIDE DEF t, D
  <2>4. OthersStay(p) /\ tx'[p] = t /\ req' = req /\ rowLock' = rowLock
    BY <1>0, <2>2, AdvanceStays
  <2>5. \A s \in D : History(s)' = {}
    BY <2>1, <2>4 DEF History
  <2>6. HoldsItsLocks(p)' /\ ReadsARow(p)'
    BY <2>1, <2>3, <2>4, <2>5 DEF HoldsItsLocks, ReadsARow
  <2> QED
    BY <1>0, <2>4, <2>6, SameRequests
<1>9. CASE SplitApply(p) \/ CommitDelete(p)
  <2>1. req' = req /\ Finish(p)
    BY <1>9, DeletionsKeep
  <2> QED
    BY <1>0, <2>1, FinishStays, IdleHoldsNothing, SameRequests
<1> QED
  BY <1>1, <1>2, <1>3, <1>4, <1>5, <1>6, <1>7, <1>8, <1>9, CommitAppointmentInv,
     CommitDropInv, CommitStatusInv DEF Continue

LEMMA StepInv == IInv /\ [Next]_vars => IInv' /\ KeepsHistory
<1> SUFFICES ASSUME IInv, [Next]_vars PROVE IInv' /\ KeepsHistory
  OBVIOUS
<1>0. TypeOK'
  BY StepType DEF IInv
<1>1. ASSUME NEW p \in Sessions, Begin(p) \/ Continue(p) \/ Abort(p) PROVE IInv' /\ KeepsHistory
  BY <1>1, BeginInv, ContinueInv, RollbackInv DEF Abort
<1>2. CASE UNCHANGED <<req, rowLock, tx>>
  <2>1. KeepsHistory
    BY <1>2 DEF KeepsHistory
  <2>2. \A s : History(s)' = History(s) /\ Holders(s)' = Holders(s)
    BY <1>2 DEF History, Holders
  <2>3. OneActivePerSlot' /\ RowsAgree'
    BY <1>2, <2>2 DEF IInv, OneActivePerSlot, RowsAgree
  <2>4. LocksHeld' /\ ReadersAgree'
    BY <1>2, <2>2 DEF IInv, LocksHeld, HoldsItsLocks, ReadersAgree, ReadsARow
  <2> QED
    BY <1>0, <2>1, <2>3, <2>4 DEF IInv
<1>3. ASSUME NEW s \in Slots, TimePasses(s) PROVE IInv' /\ KeepsHistory
  BY <1>2, <1>3 DEF TimePasses
<1>4. ASSUME NEW q \in PeriodTargets, ActivatePeriod(q) PROVE IInv' /\ KeepsHistory
  BY <1>2, <1>4 DEF ActivatePeriod
<1>5. CASE UNCHANGED vars
  BY <1>2, <1>5 DEF vars
<1> QED
  BY <1>1, <1>3, <1>4, <1>5 DEF Next

LEMMA InitInv == Init => IInv
<1> SUFFICES ASSUME Init PROVE IInv
  OBVIOUS
<1>1. \A r \in ReqIds : req[r].ap = "NONE"
  BY DEF Init, NoRow
<1>2. \A p \in Sessions : tx[p].pc = "idle"
  BY DEF Init, Idle
<1>3. OneActivePerSlot /\ RowsAgree
  BY <1>1 DEF OneActivePerSlot, Holders, History, RowsAgree
<1>4. LocksHeld /\ ReadersAgree
  BY <1>2 DEF LocksHeld, HoldsItsLocks, ReadersAgree, ReadsARow
<1> QED
  BY <1>3, <1>4, InitType DEF IInv

\* The inductive invariant holds in every reachable state.
THEOREM Invariant == Spec => []IInv
<1>1. IInv /\ [Next]_vars => IInv'
  BY StepInv
<1> QED
  BY <1>1, InitInv, PTL DEF Spec

\* No interleaving of bookings, cancellations, status changes, splits and deletions,
\* among any number of sessions, leaves two active appointments on a slot.
THEOREM OneActive == Spec => []OneActivePerSlot
<1>1. IInv => OneActivePerSlot
  BY DEF IInv
<1> QED
  BY <1>1, Invariant, PTL

\* No step ever destroys an appointment (ON DELETE CASCADE) or moves it.
THEOREM HistoryIsKept == Spec => HistoryKept
<1>1. IInv /\ [Next]_vars => [KeepsHistory]_vars
  BY StepInv
<1>2. [][KeepsHistory]_vars <=> HistoryKept
  BY PTL DEF KeepsHistory, HistoryKept
<1> QED
  BY <1>1, <1>2, Invariant, PTL DEF Spec

-----------------------------------------------------------------------------
(* AgendaBooking implements SlotAllocation.                                 *)

LEMMA HolderIs ==
    ASSUME OneActivePerSlot, NEW s \in Slots
    PROVE  /\ \A r \in Holders(s) : Holder[s] = r
           /\ Holders(s) = {} => Holder[s] = NoReq
<1>1. CASE Holders(s) = {}
  BY <1>1 DEF Holder
<1>2. CASE Holders(s) # {}
  <2>1. Holder[s] \in Holders(s)
    BY <1>2 DEF Holder
  <2> QED
    BY <1>2, <2>1 DEF OneActivePerSlot
<1> QED
  BY <1>1, <1>2

LEMMA NextHolderIs ==
    ASSUME OneActivePerSlot', NEW s \in Slots
    PROVE  /\ \A r \in Holders(s)' : Holder'[s] = r
           /\ Holders(s)' = {} => Holder'[s] = NoReq
<1>1. CASE Holders(s)' = {}
  BY <1>1 DEF Holder
<1>2. CASE Holders(s)' # {}
  <2>1. Holder'[s] \in Holders(s)'
    BY <1>2 DEF Holder
  <2> QED
    BY <1>2, <2>1 DEF OneActivePerSlot
<1> QED
  BY <1>1, <1>2

\* The holder of a slot changes only when the set of its holders does.
LEMMA HolderChanges ==
    ASSUME OneActivePerSlot, OneActivePerSlot', NEW s0 \in Slots, NEW h,
           \A s \in Slots : s # s0 => Holders(s)' = Holders(s),
           \/ Holders(s0)' = {} /\ h = NoReq
           \/ h \in Holders(s0)'
    PROVE  Holder' = [Holder EXCEPT ![s0] = h]
<1>1. Holder'[s0] = h
  BY NextHolderIs
<1>2. ASSUME NEW s \in Slots, s # s0 PROVE Holder'[s] = Holder[s]
  BY <1>2, HolderIs, NextHolderIs
<1>3. /\ Holder = [s \in Slots |-> Holder[s]]
      /\ Holder' = [s \in Slots |-> Holder'[s]]
  BY DEF Holder
<1> HIDE DEF Holder
<1> QED
  BY <1>1, <1>2, <1>3

LEMMA HolderStays ==
    ASSUME OneActivePerSlot, OneActivePerSlot',
           \A s \in Slots : Holders(s)' = Holders(s)
    PROVE  Holder' = Holder
<1>1. ASSUME NEW s \in Slots PROVE Holder'[s] = Holder[s]
  BY <1>1, HolderIs, NextHolderIs
<1>2. /\ Holder = [s \in Slots |-> Holder[s]]
      /\ Holder' = [s \in Slots |-> Holder'[s]]
  BY DEF Holder
<1> HIDE DEF Holder
<1> QED
  BY <1>1, <1>2

LEMMA BookingAllocates ==
    ASSUME IInv, IInv', NEW p \in Sessions, CommitAppointment(p)
    PROVE  [Allocation!Next]_Holder
<1> DEFINE t == tx[p]
<1>0. OneActivePerSlot /\ OneActivePerSlot' /\ TypeOK
  BY DEF IInv
<1>1. CASE IndexRefuses(t.slot, NoReq)
  <2>1. req' = req
    BY <1>1 DEF CommitAppointment, Rollback
  <2>2. \A s \in Slots : Holders(s)' = Holders(s)
    BY <2>1 DEF Holders, History
  <2> QED
    BY <1>0, <2>2, HolderStays
<1>2. CASE ~IndexRefuses(t.slot, NoReq)
  <2> DEFINE row == [status |-> "PENDING", student |-> t.student, period |-> t.period,
                     slot |-> t.slot, ap |-> "SCHEDULED"]
  <2>1. PICK r \in ReqIds \ Rows : req' = [req EXCEPT ![r] = row]
    BY <1>2 DEF CommitAppointment
  <2>2. PICK s0 \in Slots : s0 = t.slot
    BY DEF IInv, LocksHeld, HoldsItsLocks, CommitAppointment
  <2>3. row.ap = "SCHEDULED" /\ row.slot = s0
    BY <2>2
  <2> HIDE DEF row
  <2>4. /\ req[r].ap = "NONE" /\ req'[r] = row
        /\ \A other \in ReqIds \ {r} : req'[other] = req[other]
    BY <2>1, NewRequest
  <2>5. Holders(s0) = {}
    BY <1>2, <2>2, NamesAssumption DEF IndexRefuses, Holders, History
  <2>6. \A s \in Slots : s # s0 => Holders(s)' = Holders(s)
    BY <2>3, <2>4 DEF Holders, History
  <2>7. r \in Holders(s0)'
    BY <2>3, <2>4 DEF Holders, History, IndexedStatus
  <2>8. \A s \in Slots : Holder[s] # r
    <3>1. ASSUME NEW s \in Slots, Holder[s] = r PROVE FALSE
      <4>1. Holders(s) # {}
        BY <1>0, <3>1, HolderIs, NamesAssumption
      <4>2. r \in Holders(s)
        BY <1>0, <3>1, <4>1, HolderIs
      <4> QED
        BY <2>4, <4>2 DEF Holders, History
    <3> QED
      BY <3>1
  <2>9. Holder[s0] = NoReq /\ Holder' = [Holder EXCEPT ![s0] = r]
    BY <1>0, <2>5, <2>6, <2>7, HolderIs, HolderChanges
  <2> HIDE DEF Holder
  <2>10. Allocation!Take(s0, r)
    BY <2>8, <2>9 DEF Allocation!Take
  <2> QED
    BY <2>10 DEF Allocation!Next
<1> QED
  BY <1>1, <1>2

LEMMA StatusAllocates ==
    ASSUME IInv, IInv', NEW p \in Sessions, CommitStatus(p)
    PROVE  [Allocation!Next]_Holder
<1> DEFINE t == tx[p]
           clash == WritesAp(t) /\ t.newAp \in IndexedStatus /\ IndexRefuses(t.slot, t.req)
<1>0. OneActivePerSlot /\ OneActivePerSlot' /\ TypeOK
  BY DEF IInv
<1>1. CASE req' = req
  <2>1. \A s \in Slots : Holders(s)' = Holders(s)
    BY <1>1 DEF Holders, History
  <2> QED
    BY <1>0, <2>1, HolderStays
<1>2. CASE clash
  BY <1>1, <1>2 DEF CommitStatus, Rollback
<1>3. CASE ~clash
  <2> DEFINE r == t.req
  <2>1. /\ r \in ReqIds
        /\ \A o \in ReqIds : /\ req'[o].slot = req[o].slot
                             /\ o # r => req'[o] = req[o]
        /\ req'[r].ap = IF WritesAp(t) THEN t.newAp ELSE req[r].ap
        /\ WritesAp(t) => req[r].ap # "NONE" /\ req[r].slot = t.slot
    BY <1>3, StatusWrites
  <2>2. PICK r0 \in ReqIds : r0 = r
    BY <2>1
  <2>3. CASE ~WritesAp(t)
    <3>1. \A s \in Slots : Holders(s)' = Holders(s)
      BY <2>1, <2>3 DEF Holders, History
    <3> QED
      BY <1>0, <3>1, HolderStays
  <2>4. CASE WritesAp(t)
    <3>1. /\ req'[r0].ap = t.newAp /\ req[r0].ap # "NONE" /\ req[r0].slot = t.slot
      BY <2>1, <2>2, <2>4
    <3>2. PICK s0 \in Slots : s0 = t.slot
      BY <3>1 DEF IInv, RowsAgree
    <3>3. \A s \in Slots : s # s0 => Holders(s)' = Holders(s)
      BY <2>1, <2>2, <3>1, <3>2 DEF Holders, History
    <3>4. \A o \in ReqIds \ {r0} : o \in Holders(s0)' <=> o \in Holders(s0)
      BY <2>1, <2>2 DEF Holders, History
    <3>5. r0 \in Holders(s0) <=> req[r0].ap \in IndexedStatus
      BY <3>1, <3>2 DEF Holders, History
    <3>6. r0 \in Holders(s0)' <=> t.newAp \in IndexedStatus
      BY <2>1, <2>2, <3>1, <3>2 DEF Holders, History, IndexedStatus
    <3>7. \A s : Holders(s) \subseteq ReqIds /\ Holders(s)' \subseteq ReqIds
      BY DEF Holders, History
    <3>8. CASE t.newAp \notin IndexedStatus /\ r0 \in Holders(s0)
      <4>1. Holders(s0) = {r0}
        BY <1>0, <3>8 DEF OneActivePerSlot
      <4>2. Holders(s0)' = {}
        BY <3>4, <3>6, <3>7, <3>8, <4>1
      <4>3. Holder[s0] = r0 /\ Holder' = [Holder EXCEPT ![s0] = NoReq]
        BY <1>0, <3>3, <3>8, <4>2, HolderIs, HolderChanges
      <4> HIDE DEF Holder
      <4>4. Allocation!Release(s0)
        BY <4>3, NamesAssumption DEF Allocation!Release
      <4> QED
        BY <4>4 DEF Allocation!Next
    <3>9. CASE t.newAp \in IndexedStatus /\ r0 \notin Holders(s0)
      <4>1. Holders(s0) = {}
        BY <1>3, <2>2, <2>4, <3>2, <3>9 DEF IndexRefuses
      <4>2. \A s \in Slots : r0 \notin Holders(s)
        BY <3>1, <3>2, <3>9 DEF Holders, History
      <4>3. \A s \in Slots : Holder[s] # r0
        <5>1. ASSUME NEW s \in Slots, Holder[s] = r0 PROVE FALSE
          <6>1. Holders(s) # {}
            BY <1>0, <5>1, HolderIs, NamesAssumption
          <6> QED
            BY <1>0, <4>2, <5>1, <6>1, HolderIs
        <5> QED
          BY <5>1
      <4>4. Holder[s0] = NoReq /\ Holder' = [Holder EXCEPT ![s0] = r0]
        BY <1>0, <3>3, <3>6, <3>9, <4>1, HolderIs, HolderChanges
      <4> HIDE DEF Holder
      <4>5. Allocation!Take(s0, r0)
        BY <4>3, <4>4 DEF Allocation!Take
      <4> QED
        BY <4>5 DEF Allocation!Next
    <3>10. CASE t.newAp \in IndexedStatus <=> r0 \in Holders(s0)
      <4>1. Holders(s0)' = Holders(s0)
        BY <3>4, <3>6, <3>7, <3>10
      <4> QED
        BY <1>0, <3>3, <4>1, HolderStays
    <3> QED
      BY <3>8, <3>9, <3>10
  <2> QED
    BY <2>3, <2>4
<1> QED
  BY <1>2, <1>3

LEMMA StepAllocates == IInv /\ IInv' /\ [Next]_vars => [Allocation!Next]_Holder
<1> SUFFICES ASSUME IInv, IInv', [Next]_vars PROVE [Allocation!Next]_Holder
  OBVIOUS
<1>0. OneActivePerSlot /\ OneActivePerSlot'
  BY DEF IInv
<1>1. CASE \A s \in Slots : Holders(s)' = Holders(s)
  BY <1>0, <1>1, HolderStays
<1>2. CASE req' = req
  BY <1>1, <1>2 DEF Holders, History
<1>3. ASSUME NEW p \in Sessions, Begin(p) PROVE req' = req
  BY <1>3 DEF Begin, BeginDrop, BeginAppointment, BeginCancel, BeginPatchAppointment,
     BeginPatchRequest, BeginAdminChange, BeginSplit, BeginDelete, ReadRow, Advance
<1>4. ASSUME NEW p \in Sessions, CommitDrop(p) PROVE \A s \in Slots : Holders(s)' = Holders(s)
  <2> DEFINE row == [status |-> "PENDING", student |-> tx[p].student, period |-> tx[p].period,
                     slot |-> NoSlot, ap |-> "NONE"]
  <2>1. PICK r \in ReqIds \ Rows : req' = [req EXCEPT ![r] = row]
    BY <1>4 DEF CommitDrop
  <2>2. row.ap = "NONE"
    OBVIOUS
  <2> HIDE DEF row
  <2>3. /\ req[r].ap = "NONE" /\ req'[r] = row
        /\ \A other \in ReqIds \ {r} : req'[other] = req[other]
    BY <2>1, NewRequest
  <2> QED
    BY <2>2, <2>3 DEF Holders, History
<1>5. ASSUME NEW p \in Sessions,
             \/ ReserveSlot(p) \/ AdminLock(p) \/ ReadSlot(p) \/ FlushRequest(p) \/ FlushSlot(p)
             \/ DeadlockVictim(p) \/ TakeAdvisoryLock(p) \/ SplitLock(p) \/ SplitPlan(p)
             \/ Abort(p)
      PROVE  req' = req
  BY <1>5 DEF ReserveSlot, AdminLock, ReadSlot, FlushRequest, FlushSlot, DeadlockVictim,
     TakeAdvisoryLock, SplitLock, SplitPlan, Abort, Rollback, Advance
<1>6. ASSUME NEW p \in Sessions, SplitApply(p) \/ CommitDelete(p) PROVE req' = req
  BY <1>6, DeletionsKeep
<1>7. ASSUME NEW p \in Sessions, Begin(p) \/ Continue(p) \/ Abort(p)
      PROVE  [Allocation!Next]_Holder
  BY <1>1, <1>2, <1>3, <1>4, <1>5, <1>6, <1>7, BookingAllocates, StatusAllocates DEF Continue
<1>8. ASSUME NEW s \in Slots, TimePasses(s) PROVE req' = req
  BY <1>8 DEF TimePasses
<1>9. ASSUME NEW q \in PeriodTargets, ActivatePeriod(q) PROVE req' = req
  BY <1>9 DEF ActivatePeriod
<1>10. CASE UNCHANGED vars
  BY <1>2, <1>10 DEF vars
<1> QED
  BY <1>2, <1>7, <1>8, <1>9, <1>10 DEF Next

\* The sessions of AgendaTec implement the abstract allocation of slots: a step takes
\* one slot nobody holds, releases one slot, or changes no holder.
THEOREM ImplementsAllocation == Spec => AllocationSpec
<1>1. Init => Allocation!Init
  <2> SUFFICES ASSUME Init PROVE Allocation!Init
    OBVIOUS
  <2>1. \A s \in Slots : Holders(s) = {}
    BY DEF Init, NoRow, Holders, History
  <2>2. \A s \in Slots : Holder[s] = NoReq
    BY <2>1 DEF Holder
  <2>3. Holder = [s \in Slots |-> Holder[s]]
    BY DEF Holder
  <2> HIDE DEF Holder
  <2> QED
    BY <2>2, <2>3 DEF Allocation!Init
<1>2. IInv /\ [Next]_vars => [Allocation!Next]_Holder
  BY StepInv, StepAllocates
<1> HIDE DEF Holder
<1> QED
  BY <1>1, <1>2, Invariant, PTL DEF Spec, AllocationSpec, Allocation!Spec

-----------------------------------------------------------------------------
(* No slot leaks.  Whoever cancels an appointment frees the slot only when  *)
(* he READ it as booked; so some appointment of a booked slot must be one   *)
(* that nobody is about to cancel having read the slot as free.  The one    *)
(* that booked the slot is: the sessions that cancel it read the slot later.*)

\* A session about to cancel an appointment.
Cancels(t) == t.pc = "write" /\ t.newAp = "CANCELED" /\ t.seenAp # "CANCELED"

Anchors(r) ==
    /\ req[r].ap # "CANCELED"
    /\ \A q \in Sessions : Cancels(tx[q]) /\ tx[q].req = r => tx[q].seenBooked

BookedIsAnchored ==
    \A s \in Slots : slot[s] = "booked" => \E r \in History(s) : Anchors(r)

\* A step of p that changes no request and books no slot.
LEMMA AnchorsStay ==
    ASSUME BookedIsAnchored, NEW p \in Sessions, req' = req,
           \A s \in Slots : slot'[s] = "booked" => slot[s] = "booked",
           \A q \in Sessions \ {p} : tx'[q] = tx[q],
           \/ tx'[p] = tx[p]
           \/ Cancels(tx'[p]) => \/ tx'[p].seenBooked
                                 \/ slot'[req[tx'[p].req].slot] # "booked"
    PROVE  BookedIsAnchored'
<1> SUFFICES ASSUME NEW s \in Slots, slot'[s] = "booked"
             PROVE  \E r \in History(s)' : Anchors(r)'
  BY DEF BookedIsAnchored
<1>1. PICK r \in History(s) : Anchors(r)
  BY DEF BookedIsAnchored
<1>2. r \in History(s)' /\ req[r].slot = s /\ req'[r].ap # "CANCELED"
  BY <1>1 DEF History, Anchors
<1>3. ASSUME NEW q \in Sessions, Cancels(tx'[q]), tx'[q].req = r
      PROVE  tx'[q].seenBooked
  <2>1. CASE tx'[q] = tx[q]
    BY <1>1, <1>3, <2>1 DEF Anchors
  <2>2. CASE q = p
    BY <1>1, <1>2, <1>3, <2>1, <2>2
  <2> QED
    BY <2>1, <2>2
<1> QED
  BY <1>2, <1>3 DEF Anchors, Cancels

\* A session of p ends, leaving the appointment that anchors a slot.
LEMMA AnchorLeft ==
    ASSUME NEW p \in Sessions, NEW s \in Slots, NEW r \in History(s), Anchors(r),
           \A q \in Sessions \ {p} : tx'[q] = tx[q], tx'[p].pc = "idle",
           req'[r].ap \notin {"NONE", "CANCELED"}, req'[r].slot = s
    PROVE  r \in History(s)' /\ Anchors(r)'
<1>1. r \in History(s)'
  BY DEF History
<1>2. ASSUME NEW q \in Sessions, Cancels(tx'[q]), tx'[q].req = r
      PROVE  tx'[q].seenBooked
  BY <1>2 DEF Anchors, Cancels
<1> QED
  BY <1>1, <1>2 DEF Anchors, Cancels

LEMMA ReadRowAnchors ==
    ASSUME IInv, BookedIsAnchored, NEW p \in Sessions, NEW r, NEW who, NEW newReq, NEW newAp,
           ReadRow(p, r, who, newReq, newAp)
    PROVE  BookedIsAnchored'
<1> DEFINE next == IF req[r].ap # "NONE" /\ newAp = "CANCELED" THEN "slot" ELSE "write"
           t == Reader(r, who, next, newReq, newAp, req[r].status)
<1>1. Advance(p, t)
  BY DEF ReadRow
<1>2. t.pc = next /\ t.newAp = IF req[r].ap = "NONE" THEN "NONE" ELSE newAp
  BY DEF Reader
<1>3. ~Cancels(t)
  BY <1>2 DEF Cancels
<1> HIDE DEF t
<1>4. /\ tx'[p] = t /\ req' = req /\ slot' = slot /\ \A q \in Sessions \ {p} : tx'[q] = tx[q]
  BY <1>1 DEF Advance, IInv, TypeOK
<1> QED
  BY <1>3, <1>4, AnchorsStay

\* The other sessions, and the slots, of a step that only advances p.
LEMMA AdvanceAnchors ==
    ASSUME IInv, BookedIsAnchored, NEW p \in Sessions, NEW t, Advance(p, t),
           t.pc # "write" \/ t.newAp # "CANCELED"
    PROVE  BookedIsAnchored'
<1>1. /\ tx'[p] = t /\ req' = req /\ slot' = slot /\ \A q \in Sessions \ {p} : tx'[q] = tx[q]
  BY DEF Advance, IInv, TypeOK
<1> QED
  BY <1>1, AnchorsStay DEF Cancels

LEMMA EndAnchors ==
    ASSUME IInv, BookedIsAnchored, NEW p \in Sessions, Finish(p), req' = req,
           \A s \in Slots : slot'[s] = "booked" => slot[s] = "booked"
    PROVE  BookedIsAnchored'
<1>1. tx'[p].pc = "idle" /\ \A q \in Sessions \ {p} : tx'[q] = tx[q]
  BY DEF Finish, Idle, IInv, TypeOK
<1> QED
  BY <1>1, AnchorsStay DEF Cancels

LEMMA RollbackAnchors ==
    ASSUME IInv, BookedIsAnchored, NEW p \in Sessions, Rollback(p)
    PROVE  BookedIsAnchored'
BY EndAnchors DEF Rollback

LEMMA BeginAnchors ==
    ASSUME IInv, BookedIsAnchored, NEW p \in Sessions, Begin(p)
    PROVE  BookedIsAnchored'
<1>1. ASSUME NEW st \in Students, BeginDrop(p, st) PROVE BookedIsAnchored'
  <2> DEFINE t == [Idle EXCEPT !.pc = "insertDrop", !.who = "student", !.student = st,
                               !.period = period]
  <2>1. t.pc = "insertDrop" /\ Advance(p, t)
    BY <1>1 DEF BeginDrop, Idle
  <2> HIDE DEF t
  <2> QED
    BY <2>1, AdvanceAnchors
<1>2. ASSUME NEW st \in Students, NEW s \in Slots, BeginAppointment(p, st, s)
      PROVE  BookedIsAnchored'
  <2> DEFINE t == [Idle EXCEPT !.pc = "reserve", !.who = "student", !.student = st,
                               !.period = period, !.slot = s]
  <2>1. t.pc = "reserve" /\ Advance(p, t)
    BY <1>2 DEF BeginAppointment, Idle
  <2> HIDE DEF t
  <2> QED
    BY <2>1, AdvanceAnchors
<1>3. ASSUME NEW r \in ReqIds, \/ BeginCancel(p, r) \/ BeginPatchAppointment(p, r)
                               \/ BeginPatchRequest(p, r)
      PROVE  BookedIsAnchored'
  BY <1>3, ReadRowAnchors DEF BeginCancel, BeginPatchAppointment, BeginPatchRequest
<1>4. ASSUME NEW r \in ReqIds, BeginAdminChange(p, r) PROVE BookedIsAnchored'
  <2>1. PICK new : Advance(p, Reader(r, "admin", "lock", new, ApFor(new), "NONE"))
    BY <1>4 DEF BeginAdminChange
  <2> DEFINE t == Reader(r, "admin", "lock", new, ApFor(new), "NONE")
  <2>2. t.pc = "lock" /\ Advance(p, t)
    BY <2>1 DEF Reader
  <2> HIDE DEF t
  <2> QED
    BY <2>2, AdvanceAnchors
<1>5. ASSUME NEW R \in SUBSET Slots, BeginSplit(p, R) PROVE BookedIsAnchored'
  <2> DEFINE t == [Idle EXCEPT !.pc = "advisory", !.who = "coordinator", !.slots = R]
  <2>1. t.pc = "advisory" /\ Advance(p, t)
    BY <1>5 DEF BeginSplit, Idle
  <2> HIDE DEF t
  <2> QED
    BY <2>1, AdvanceAnchors
<1>6. ASSUME NEW R \in SUBSET Slots, BeginDelete(p, R) PROVE BookedIsAnchored'
  <2> DEFINE t == [Idle EXCEPT !.pc = "delete", !.who = "coordinator", !.slots = R]
  <2>1. t.pc = "delete" /\ Advance(p, t)
    BY <1>6 DEF BeginDelete, Idle
  <2> HIDE DEF t
  <2> QED
    BY <2>1, AdvanceAnchors
<1> QED
  BY <1>1, <1>2, <1>3, <1>4, <1>5, <1>6 DEF Begin

\* The appointment that books a slot anchors it: no session has read its request.
LEMMA BookingAnchors ==
    ASSUME IInv, IInv', BookedIsAnchored, NEW p \in Sessions, CommitAppointment(p)
    PROVE  BookedIsAnchored'
<1> DEFINE t == tx[p]
<1>1. CASE IndexRefuses(t.slot, NoReq)
  BY <1>1, RollbackAnchors DEF CommitAppointment
<1>2. CASE ~IndexRefuses(t.slot, NoReq)
  <2> DEFINE row == [status |-> "PENDING", student |-> t.student, period |-> t.period,
                     slot |-> t.slot, ap |-> "SCHEDULED"]
  <2>1. PICK r \in ReqIds \ Rows : req' = [req EXCEPT ![r] = row]
    BY <1>2 DEF CommitAppointment
  <2>2. row.ap = "SCHEDULED" /\ row.slot = t.slot
    OBVIOUS
  <2> HIDE DEF row
  <2>3. /\ KeepsHistory /\ req[r].ap = "NONE" /\ req'[r] = row
        /\ \A other \in ReqIds \ {r} : req'[other] = req[other]
    BY <2>1, NewRequest
  <2>4. /\ tx'[p].pc = "idle" /\ \A q \in Sessions \ {p} : tx'[q] = tx[q]
        /\ slot' = [slot EXCEPT ![t.slot] = "booked"]
    BY <1>2 DEF CommitAppointment, Finish, Idle, IInv, TypeOK
  <2>5. ASSUME NEW q \in Sessions, Cancels(tx'[q]) PROVE tx'[q].req # r
    <3>1. q # p /\ tx'[q] = tx[q]
      BY <2>4, <2>5 DEF Cancels
    <3>2. ReadsARow(q)
      BY DEF IInv, ReadersAgree
    <3> QED
      BY <2>3, <2>5, <3>1, <3>2 DEF ReadsARow, Cancels
  <2>6. ASSUME NEW s \in Slots, slot'[s] = "booked"
        PROVE  \E h \in History(s)' : Anchors(h)'
    <3>1. CASE s = t.slot
      <4>1. r \in History(s)'
        BY <2>2, <2>3, <3>1 DEF History
      <4>2. Anchors(r)'
        BY <2>2, <2>3, <2>5 DEF Anchors, Cancels
      <4> QED
        BY <4>1, <4>2
    <3>2. CASE s # t.slot
      <4>1. slot[s] = "booked"
        BY <2>4, <2>6, <3>2 DEF IInv, TypeOK
      <4>2. PICK h \in History(s) : Anchors(h)
        BY <4>1 DEF BookedIsAnchored
      <4>3. h # r /\ req'[h] = req[h] /\ req[h].slot = s
            /\ req[h].ap \notin {"NONE", "CANCELED"}
        BY <2>3, <4>2 DEF History, Anchors
      <4> QED
        BY <2>4, <4>2, <4>3, AnchorLeft
    <3> QED
      BY <3>1, <3>2
  <2> QED
    BY <2>6 DEF BookedIsAnchored
<1> QED
  BY <1>1, <1>2

LEMMA DropAnchors ==
    ASSUME IInv, BookedIsAnchored, NEW p \in Sessions, CommitDrop(p)
    PROVE  BookedIsAnchored'
<1> DEFINE row == [status |-> "PENDING", student |-> tx[p].student, period |-> tx[p].period,
                   slot |-> NoSlot, ap |-> "NONE"]
<1>1. PICK r \in ReqIds \ Rows : req' = [req EXCEPT ![r] = row]
  BY DEF CommitDrop
<1> HIDE DEF row
<1>2. req[r].ap = "NONE" /\ \A other \in ReqIds \ {r} : req'[other] = req[other]
  BY <1>1, NewRequest
<1>3. /\ tx'[p].pc = "idle" /\ slot' = slot /\ \A q \in Sessions \ {p} : tx'[q] = tx[q]
  BY DEF CommitDrop, Finish, Idle, IInv, TypeOK
<1>4. ASSUME NEW s \in Slots, slot'[s] = "booked"
      PROVE  \E h \in History(s)' : Anchors(h)'
  <2>1. PICK h \in History(s) : Anchors(h)
    BY <1>3, <1>4 DEF BookedIsAnchored
  <2>2. req'[h] = req[h] /\ req[h].slot = s /\ req[h].ap \notin {"NONE", "CANCELED"}
    BY <1>2, <2>1 DEF History, Anchors
  <2> QED
    BY <1>3, <2>1, <2>2, AnchorLeft
<1> QED
  BY <1>4 DEF BookedIsAnchored

LEMMA StatusAnchors ==
    ASSUME IInv, BookedIsAnchored, NEW p \in Sessions, CommitStatus(p)
    PROVE  BookedIsAnchored'
<1> DEFINE t == tx[p]
           clash == WritesAp(t) /\ t.newAp \in IndexedStatus /\ IndexRefuses(t.slot, t.req)
<1>1. CASE clash
  BY <1>1, RollbackAnchors DEF CommitStatus
<1>2. CASE ~clash
  <2>1. /\ t.req \in ReqIds
        /\ \A r \in ReqIds : /\ req'[r].slot = req[r].slot
                             /\ req'[r].ap = "NONE" <=> req[r].ap = "NONE"
                             /\ r # t.req => req'[r] = req[r]
        /\ req'[t.req].ap = IF WritesAp(t) THEN t.newAp ELSE req[t.req].ap
        /\ WritesAp(t) => req[t.req].slot = t.slot
    BY <1>2, StatusWrites
  <2>2. /\ tx'[p].pc = "idle" /\ \A q \in Sessions \ {p} : tx'[q] = tx[q]
        /\ t.pc = "write"
        /\ slot' = IF t.seenBooked THEN [slot EXCEPT ![t.slot] = "free"] ELSE slot
    BY <1>2 DEF CommitStatus, FreesSlot, Finish, Idle, IInv, TypeOK
  <2>3. ASSUME NEW s \in Slots, slot'[s] = "booked"
        PROVE  \E h \in History(s)' : Anchors(h)'
    <3>1. slot[s] = "booked" /\ (t.seenBooked => s # t.slot)
      BY <2>2, <2>3 DEF IInv, TypeOK
    <3>2. PICK h \in History(s) : Anchors(h)
      BY <3>1 DEF BookedIsAnchored
    <3>3. h \in ReqIds /\ req[h].slot = s /\ req[h].ap \notin {"NONE", "CANCELED"}
      BY <3>2 DEF History, Anchors
    <3>4. req'[h].slot = s /\ req'[h].ap # "NONE"
      BY <2>1, <3>3
    <3>5. req'[h].ap # "CANCELED"
      <4>1. ASSUME h = t.req, WritesAp(t), t.newAp = "CANCELED" PROVE FALSE
        <5>1. Cancels(t)
          BY <2>2, <4>1 DEF Cancels, WritesAp
        <5>2. t.seenBooked
          BY <3>2, <4>1, <5>1 DEF Anchors
        <5> QED
          BY <2>1, <3>1, <3>3, <4>1, <5>2
      <4> QED
        BY <2>1, <3>3, <4>1
    <3> QED
      BY <2>2, <3>2, <3>4, <3>5, AnchorLeft
  <2> QED
    BY <2>3 DEF BookedIsAnchored
<1> QED
  BY <1>1, <1>2

LEMMA ContinueAnchors ==
    ASSUME IInv, IInv', BookedIsAnchored, NEW p \in Sessions, Continue(p)
    PROVE  BookedIsAnchored'
<1>0. tx[p] \in Transactions /\ TypeOK
  BY DEF IInv, TypeOK
<1>1. CASE ReserveSlot(p)
  <2>1. CASE Rollback(p)
    BY <2>1, RollbackAnchors
  <2>2. CASE ~Rollback(p)
    <3>1. /\ tx' = [tx EXCEPT ![p].pc = "insert"] /\ req' = req /\ slot' = slot
      BY <1>1, <2>2 DEF ReserveSlot
    <3>2. tx'[p].pc = "insert" /\ \A q \in Sessions \ {p} : tx'[q] = tx[q]
      BY <1>0, <3>1 DEF TypeOK, Transactions
    <3> QED
      BY <3>1, <3>2, AnchorsStay DEF Cancels
  <2> QED
    BY <2>1, <2>2
<1>2. CASE AdminLock(p)
  <2>1. CASE tx[p].newReq = "PENDING"
    BY <1>2, <2>1, RollbackAnchors DEF AdminLock
  <2>2. CASE tx[p].newReq # "PENDING"
    <3>1. /\ tx'[p].pc = IF tx[p].newAp = "CANCELED" THEN "slot" ELSE "write"
          /\ tx'[p].newAp = tx[p].newAp /\ \A q \in Sessions \ {p} : tx'[q] = tx[q]
          /\ req' = req /\ slot' = slot
      BY <1>0, <1>2, <2>2 DEF AdminLock, TypeOK, Transactions
    <3> QED
      BY <3>1, AnchorsStay DEF Cancels
  <2> QED
    BY <2>1, <2>2
<1>3. CASE ReadSlot(p)
  <2>1. CASE tx[p].who = "student" /\ tx[p].slot \in past
    BY <1>3, <2>1, RollbackAnchors DEF ReadSlot
  <2>2. CASE ~(tx[p].who = "student" /\ tx[p].slot \in past)
    <3> DEFINE b == slot[tx[p].slot] = "booked"
               t == [tx[p] EXCEPT !.pc = "write", !.seenBooked = b]
    <3>1. Advance(p, t) /\ tx[p].pc = "slot"
      BY <1>3, <2>2 DEF ReadSlot
    <3>2. /\ t.req = tx[p].req /\ t.slot = tx[p].slot /\ t.newAp = tx[p].newAp
          /\ t.seenAp = tx[p].seenAp /\ (t.seenBooked <=> slot[tx[p].slot] = "booked")
      BY <1>0 DEF Transactions
    <3> HIDE DEF t, b
    <3>3. /\ tx'[p] = t /\ req' = req /\ slot' = slot
          /\ \A q \in Sessions \ {p} : tx'[q] = tx[q]
      BY <1>0, <3>1 DEF Advance, TypeOK
    <3>4. ReadsARow(p)
      BY DEF IInv, ReadersAgree
    <3>5. Cancels(t) => t.seenBooked \/ slot'[req[t.req].slot] # "booked"
      BY <3>1, <3>2, <3>3, <3>4 DEF Cancels, ReadsARow
    <3> QED
      BY <3>3, <3>5, AnchorsStay
  <2> QED
    BY <2>1, <2>2
<1>4. CASE FlushRequest(p) \/ FlushSlot(p)
  BY <1>4, AnchorsStay DEF FlushRequest, FlushSlot
<1>5. CASE DeadlockVictim(p)
  BY <1>5, RollbackAnchors DEF DeadlockVictim
<1>6. CASE TakeAdvisoryLock(p)
  <2>1. /\ tx'[p].pc = "splitLock" /\ req' = req /\ slot' = slot
        /\ \A q \in Sessions \ {p} : tx'[q] = tx[q]
    BY <1>0, <1>6 DEF TakeAdvisoryLock, TypeOK, Transactions
  <2> QED
    BY <2>1, AnchorsStay DEF Cancels
<1>7. CASE SplitLock(p)
  <2> DEFINE R == {s \in tx[p].slots : Exists(s)}
             t == [tx[p] EXCEPT !.pc = "plan", !.slots = R]
  <2>1. CASE Advance(p, t)
    <3>1. t.pc = "plan"
      <4> HIDE DEF R
      <4> QED
        BY <1>0 DEF Transactions
    <3> HIDE DEF t
    <3> QED
      BY <2>1, <3>1, AdvanceAnchors
  <2>2. CASE UNCHANGED <<req, slot, period, past, reqLock, advisory, tx>>
    BY <2>2, AnchorsStay
  <2> QED
    BY <1>7, <2>1, <2>2 DEF SplitLock
<1>8. CASE SplitPlan(p)
  <2> DEFINE D == {s \in tx[p].slots : slot[s] = "free" /\ History(s) = {}}
             t == [tx[p] EXCEPT !.pc = "apply", !.slots = D]
  <2>1. Advance(p, t)
    BY <1>8 DEF SplitPlan
  <2>2. t.pc = "apply"
    <3> HIDE DEF D
    <3> QED
      BY <1>0 DEF Transactions
  <2> HIDE DEF t
  <2> QED
    BY <2>1, <2>2, AdvanceAnchors
<1>9. CASE SplitApply(p) \/ CommitDelete(p)
  <2>1. req' = req /\ Finish(p)
    BY <1>9, DeletionsKeep
  <2>2. \A s \in Slots : slot'[s] = "booked" => slot[s] = "booked"
    BY <1>9 DEF SplitApply, CommitDelete, Rollback
  <2> QED
    BY <2>1, <2>2, EndAnchors
<1> QED
  BY <1>1, <1>2, <1>3, <1>4, <1>5, <1>6, <1>7, <1>8, <1>9, BookingAnchors, DropAnchors,
     StatusAnchors DEF Continue

LEMMA StepAnchors == IInv /\ IInv' /\ BookedIsAnchored /\ [Next]_vars => BookedIsAnchored'
<1> SUFFICES ASSUME IInv, IInv', BookedIsAnchored, [Next]_vars PROVE BookedIsAnchored'
  OBVIOUS
<1>1. ASSUME NEW p \in Sessions, Begin(p) \/ Continue(p) \/ Abort(p) PROVE BookedIsAnchored'
  BY <1>1, BeginAnchors, ContinueAnchors, RollbackAnchors DEF Abort
<1>2. CASE UNCHANGED <<req, slot, tx>>
  <2>1. \A s : History(s)' = History(s)
    BY <1>2 DEF History
  <2>2. \A r : Anchors(r) => Anchors(r)'
    BY <1>2 DEF Anchors
  <2> QED
    BY <1>2, <2>1, <2>2 DEF BookedIsAnchored
<1>3. ASSUME NEW s \in Slots, TimePasses(s) PROVE BookedIsAnchored'
  BY <1>2, <1>3 DEF TimePasses
<1>4. ASSUME NEW q \in PeriodTargets, ActivatePeriod(q) PROVE BookedIsAnchored'
  BY <1>2, <1>4 DEF ActivatePeriod
<1>5. CASE UNCHANGED vars
  BY <1>2, <1>5 DEF vars
<1> QED
  BY <1>1, <1>3, <1>4, <1>5 DEF Next

\* No interleaving of bookings and of the four cancellation paths loses a release: a
\* slot is never left booked with every appointment on it cancelled.
THEOREM NoLeak == Spec => []NoLeakedSlot
<1>1. Init => BookedIsAnchored
  BY DEF Init, BookedIsAnchored
<1>2. IInv /\ IInv' /\ BookedIsAnchored /\ [Next]_vars => BookedIsAnchored'
  BY StepAnchors
<1>3. BookedIsAnchored => NoLeakedSlot
  BY DEF BookedIsAnchored, NoLeakedSlot, Anchors
<1> QED
  BY <1>1, <1>2, <1>3, Invariant, PTL DEF Spec

-----------------------------------------------------------------------------
(* Discipline: what BookedAgrees and OneRequestPerPeriod need.  A student   *)
(* has one session at a time and staff leaves cancelled requests alone;     *)
(* what a session has read is then still so when it writes.                 *)

Disciplined == ~SessionsOverlap /\ ~StaffRewrites

OneSessionEach ==
    \A p, q \in Sessions : p # q /\ tx[p].student \in Students => tx[q].student # tx[p].student

Live(r) == req[r].ap \notin {"NONE", "CANCELED"}

\* What a session that creates a request has checked still holds.
Creates(p) ==
    tx[p].pc \in {"reserve", "insert", "insertDrop"} =>
        /\ tx[p].student \in Students
        /\ \A r \in Rows : req[r].student = tx[p].student /\ req[r].period = tx[p].period
                             => req[r].status = "CANCELED"
        /\ tx[p].pc = "insert" => slot[tx[p].slot] = "free"

\* What a session that changes a status has read still holds.
Changes(p) ==
    tx[p].pc \in {"lock", "slot", "write"} =>
        /\ tx[p].student \in Students /\ req[tx[p].req].student = tx[p].student
        /\ req[tx[p].req].status \notin {"NONE", "CANCELED"}
        /\ tx[p].seenAp = req[tx[p].req].ap
        /\ tx[p].pc # "lock" => tx[p].seenReq = req[tx[p].req].status
        /\ tx[p].newAp = IF tx[p].seenAp = "NONE" THEN "NONE" ELSE ApFor(tx[p].newReq)
        /\ tx[p].pc = "slot" => tx[p].newAp = "CANCELED"
        /\ tx[p].seenBooked <=> (tx[p].pc = "write" /\ tx[p].newAp = "CANCELED")

SlotsTell ==
    \A s \in Slots :
        /\ slot[s] = "booked" <=> \E r \in History(s) : Live(r)
        /\ \A r1, r2 \in History(s) : Live(r1) /\ Live(r2) => r1 = r2

ApTells == \A r \in ReqIds : req[r].ap # "NONE" => req[r].ap = ApFor(req[r].status)

RowsOwned == \A r \in Rows : req[r].student \in Students

Orderly ==
    /\ OneSessionEach /\ SlotsTell /\ ApTells /\ RowsOwned /\ OneRequestPerPeriod
    /\ \A p \in Sessions : Creates(p) /\ Changes(p)

LEMMA IdleIsOrderly ==
    ASSUME NEW p \in Sessions, tx'[p].pc \notin {"reserve", "insert", "insertDrop",
                                                 "lock", "slot", "write"}
    PROVE  Creates(p)' /\ Changes(p)'
BY DEF Creates, Changes

\* The student of p's session is the one it had, nobody, or one without a session.
TakesNoStudent(p) ==
    \/ tx'[p].student = tx[p].student
    \/ tx'[p].student \notin Students
    \/ \A q \in Sessions \ {p} : tx[q].student # tx'[p].student

LEMMA SessionEach ==
    ASSUME OneSessionEach, NEW p \in Sessions, TakesNoStudent(p),
           \A q \in Sessions \ {p} : tx'[q] = tx[q]
    PROVE  OneSessionEach'
<1> SUFFICES ASSUME NEW a \in Sessions, NEW b \in Sessions, a # b, tx'[a].student \in Students
             PROVE  tx'[b].student # tx'[a].student
  BY DEF OneSessionEach
<1>1. CASE a = p
  BY <1>1 DEF OneSessionEach, TakesNoStudent
<1>2. CASE b = p
  BY <1>2 DEF OneSessionEach, TakesNoStudent
<1>3. CASE a # p /\ b # p
  BY <1>3 DEF OneSessionEach
<1> QED
  BY <1>1, <1>2, <1>3

\* A step of p that changes no request and books or frees no slot.
LEMMA QuietStep ==
    ASSUME Orderly, NEW p \in Sessions, req' = req,
           \A s \in Slots : slot'[s] = "booked" <=> slot[s] = "booked",
           \A q \in Sessions \ {p} : /\ tx'[q] = tx[q]
                                     /\ tx[q].pc = "insert" => slot'[tx[q].slot] = "free",
           TakesNoStudent(p), Creates(p)', Changes(p)'
    PROVE  Orderly'
<1>1. /\ \A s : History(s)' = History(s)
      /\ Rows' = Rows /\ \A r : Live(r)' <=> Live(r)
  BY DEF History, Rows, Live
<1>2. SlotsTell'
  BY <1>1 DEF Orderly, SlotsTell
<1>3. ApTells' /\ RowsOwned' /\ OneRequestPerPeriod'
  BY <1>1 DEF Orderly, ApTells, RowsOwned, OneRequestPerPeriod
<1>4. OneSessionEach'
  BY SessionEach DEF Orderly
<1>5. ASSUME NEW q \in Sessions \ {p} PROVE Creates(q)' /\ Changes(q)'
  <2>1. tx'[q] = tx[q] /\ Creates(q) /\ Changes(q)
    BY DEF Orderly
  <2>2. Creates(q)'
    BY <1>1, <2>1 DEF Creates
  <2>3. Changes(q)'
    BY <2>1 DEF Changes
  <2> QED
    BY <2>2, <2>3
<1> QED
  BY <1>2, <1>3, <1>4, <1>5 DEF Orderly

LEMMA OrderlyInserts ==
    ASSUME Orderly, NEW q \in Sessions, tx[q].pc = "insert"
    PROVE  slot[tx[q].slot] = "free"
BY DEF Orderly, Creates

LEMMA AdvanceOrderly ==
    ASSUME IInv, Orderly, NEW p \in Sessions, NEW t, Advance(p, t),
           \/ t.student = tx[p].student
           \/ t.student \notin Students
           \/ \A q \in Sessions : tx[q].student # t.student,
           Creates(p)', Changes(p)'
    PROVE  Orderly'
<1>1. /\ tx'[p] = t /\ req' = req /\ slot' = slot /\ \A q \in Sessions \ {p} : tx'[q] = tx[q]
  BY DEF Advance, IInv, TypeOK
<1>2. TakesNoStudent(p)
  BY <1>1 DEF TakesNoStudent
<1> QED
  BY <1>1, <1>2, OrderlyInserts, QuietStep

\* A session that ends takes no student.
LEMMA FinishTakes ==
    ASSUME TypeOK, NEW p \in Sessions, Finish(p)
    PROVE  /\ tx'[p].pc = "idle" /\ TakesNoStudent(p)
           /\ \A q \in Sessions \ {p} : tx'[q] = tx[q]
<1>1. tx'[p] = Idle /\ \A q \in Sessions \ {p} : tx'[q] = tx[q]
  BY DEF TypeOK, Finish
<1>2. tx'[p].pc = "idle" /\ tx'[p].student = NoStudent
  BY <1>1 DEF Idle
<1> QED
  BY <1>1, <1>2, NamesAssumption DEF TakesNoStudent

LEMMA RollbackOrderly ==
    ASSUME IInv, Orderly, NEW p \in Sessions, Rollback(p)
    PROVE  Orderly'
<1>1. /\ tx'[p].pc = "idle" /\ TakesNoStudent(p) /\ req' = req /\ slot' = slot
      /\ \A q \in Sessions \ {p} : tx'[q] = tx[q]
  BY FinishTakes DEF IInv, Rollback
<1>2. Creates(p)' /\ Changes(p)'
  BY <1>1, IdleIsOrderly
<1> QED
  BY <1>1, <1>2, OrderlyInserts, QuietStep

-----------------------------------------------------------------------------
LEMMA ApOfStatus ==
    /\ \A status : ApFor(status) # "NONE" \/ status = "NONE"
    /\ \A status \in ReqStatus : ApFor(status) = "CANCELED" <=> status = "CANCELED"
    /\ \A ap \in ApStatus : ApFor(ReqFor(ap)) = ap
BY DEF ApFor, ReqFor, ApStatus, ReqStatus

\* The status of a request that exists and is not cancelled.
LEMMA LiveStatus ==
    ASSUME IInv, Orderly, NEW r \in ReqIds, req[r].status \notin {"NONE", "CANCELED"}
    PROVE  /\ req[r].ap # "CANCELED" /\ req[r].student \in Students
           /\ req[r].ap # "NONE" => /\ req[r].slot \in Slots /\ slot[req[r].slot] = "booked"
                                    /\ r \in History(req[r].slot) /\ Live(r)
<1>1. req[r].status \in ReqStatus
  BY DEF IInv, TypeOK, Requests
<1>2. req[r].ap # "CANCELED"
  BY <1>1, ApOfStatus DEF Orderly, ApTells
<1>3. req[r].student \in Students
  BY DEF Orderly, RowsOwned, Rows
<1>4. ASSUME req[r].ap # "NONE"
      PROVE  /\ req[r].slot \in Slots /\ slot[req[r].slot] = "booked"
             /\ r \in History(req[r].slot) /\ Live(r)
  <2>1. req[r].slot \in Slots
    BY <1>4 DEF IInv, RowsAgree
  <2>2. r \in History(req[r].slot) /\ Live(r)
    BY <1>2, <1>4 DEF History, Live
  <2> QED
    BY <2>1, <2>2 DEF Orderly, SlotsTell
<1> QED
  BY <1>2, <1>3, <1>4

\* A session that reads a request nobody else works on.
LEMMA ReaderOrderly ==
    ASSUME Disciplined, IInv, Orderly, NEW p \in Sessions, NEW r \in ReqIds,
           MayStartFor(req[r].student), req[r].status \notin {"NONE", "CANCELED"},
           NEW who, NEW pc \in {"lock", "slot", "write"}, NEW newReq, NEW newAp, NEW seenReq,
           req[r].ap # "NONE" => newAp = ApFor(newReq),
           pc # "lock" => seenReq = req[r].status,
           pc = "slot" => req[r].ap # "NONE" /\ newAp = "CANCELED",
           pc = "write" => req[r].ap = "NONE" \/ newAp # "CANCELED",
           Advance(p, Reader(r, who, pc, newReq, newAp, seenReq))
    PROVE  Orderly'
<1> DEFINE t == Reader(r, who, pc, newReq, newAp, seenReq)
<1>1. /\ t.pc = pc /\ t.req = r /\ t.newReq = newReq /\ t.student = req[r].student
      /\ t.newAp = IF req[r].ap = "NONE" THEN "NONE" ELSE newAp
      /\ t.seenAp = req[r].ap /\ t.seenReq = seenReq /\ t.seenBooked = FALSE
  BY DEF Reader
<1> HIDE DEF t
<1>2. tx'[p] = t /\ req' = req
  BY DEF Advance, IInv, TypeOK, t
<1>3. req[r].student \in Students
  BY LiveStatus
<1>4. Creates(p)'
  BY <1>1, <1>2 DEF Creates
<1>5. Changes(p)'
  BY <1>1, <1>2, <1>3 DEF Changes
<1>6. \A q \in Sessions : tx[q].student # t.student
  BY <1>1 DEF MayStartFor, Disciplined
<1> QED
  BY <1>4, <1>5, <1>6, AdvanceOrderly DEF t

LEMMA ReadRowOrderly ==
    ASSUME Disciplined, IInv, Orderly, NEW p \in Sessions, NEW r \in ReqIds,
           MayStartFor(req[r].student), req[r].status \notin {"NONE", "CANCELED"},
           NEW who, NEW newReq, NEW newAp,
           newAp = ApFor(newReq), ReadRow(p, r, who, newReq, newAp)
    PROVE  Orderly'
<1> DEFINE next == IF req[r].ap # "NONE" /\ newAp = "CANCELED" THEN "slot" ELSE "write"
<1>1. /\ next \in {"lock", "slot", "write"} /\ next # "lock"
      /\ next = "slot" => req[r].ap # "NONE" /\ newAp = "CANCELED"
      /\ next = "write" => req[r].ap = "NONE" \/ newAp # "CANCELED"
  OBVIOUS
<1>2. Advance(p, Reader(r, who, next, newReq, newAp, req[r].status))
  BY DEF ReadRow
<1> HIDE DEF next
<1> QED
  BY <1>1, <1>2, ReaderOrderly

LEMMA StartOrderly ==
    ASSUME IInv, Orderly, NEW p \in Sessions, NEW t, Advance(p, t),
           t.pc \notin {"reserve", "insert", "insertDrop", "lock", "slot", "write"},
           t.student = tx[p].student \/ t.student \notin Students
    PROVE  Orderly'
<1>1. tx'[p] = t
  BY DEF Advance, IInv, TypeOK
<1> QED
  BY <1>1, IdleIsOrderly, AdvanceOrderly

LEMMA CreateOrderly ==
    ASSUME Disciplined, IInv, Orderly, NEW p \in Sessions, NEW t, Advance(p, t),
           t.pc \in {"reserve", "insertDrop"}, t.student \in Students, t.period = period,
           MayStartFor(t.student), ~HasRequest(t.student)
    PROVE  Orderly'
<1>1. tx'[p] = t /\ req' = req
  BY DEF Advance, IInv, TypeOK
<1>2. Changes(p)'
  BY <1>1 DEF Changes
<1>3. \A r \in Rows : req[r].student = t.student /\ req[r].period = t.period
                        => req[r].status = "CANCELED"
  BY DEF HasRequest
<1>4. Rows' = Rows
  BY <1>1 DEF Rows
<1>5. Creates(p)'
  BY <1>1, <1>3, <1>4 DEF Creates
<1>6. \A q \in Sessions : tx[q].student # t.student
  BY DEF MayStartFor, Disciplined
<1> QED
  BY <1>2, <1>5, <1>6, AdvanceOrderly

LEMMA BeginOrderly ==
    ASSUME Disciplined, IInv, Orderly, NEW p \in Sessions, Begin(p)
    PROVE  Orderly'
<1>1. ASSUME NEW st \in Students, BeginDrop(p, st) PROVE Orderly'
  <2> DEFINE t == [Idle EXCEPT !.pc = "insertDrop", !.who = "student", !.student = st,
                               !.period = period]
  <2>1. t.pc = "insertDrop" /\ t.student = st /\ t.period = period
    BY DEF Idle
  <2>2. Advance(p, t) /\ MayStartFor(st) /\ ~HasRequest(st)
    BY <1>1 DEF BeginDrop
  <2> HIDE DEF t
  <2> QED
    BY <2>1, <2>2, CreateOrderly
<1>2. ASSUME NEW st \in Students, NEW s \in Slots, BeginAppointment(p, st, s) PROVE Orderly'
  <2> DEFINE t == [Idle EXCEPT !.pc = "reserve", !.who = "student", !.student = st,
                               !.period = period, !.slot = s]
  <2>1. t.pc = "reserve" /\ t.student = st /\ t.period = period
    BY DEF Idle
  <2>2. Advance(p, t) /\ MayStartFor(st) /\ ~HasRequest(st)
    BY <1>2 DEF BeginAppointment
  <2> HIDE DEF t
  <2> QED
    BY <2>1, <2>2, CreateOrderly
<1>3. ASSUME NEW r \in ReqIds, BeginCancel(p, r) PROVE Orderly'
  <2>1. MayStartFor(req[r].student) /\ req[r].status \notin {"NONE", "CANCELED"}
        /\ ReadRow(p, r, "student", "CANCELED", "CANCELED")
    BY <1>3 DEF BeginCancel
  <2>2. ApFor("CANCELED") = "CANCELED"
    BY DEF ApFor
  <2> QED
    BY <2>1, <2>2, ReadRowOrderly
<1>4. ASSUME NEW r \in ReqIds, BeginPatchAppointment(p, r) PROVE Orderly'
  <2>1. PICK newAp \in ApStatus : ReadRow(p, r, "coordinator", ReqFor(newAp), newAp)
    BY <1>4 DEF BeginPatchAppointment
  <2>2. /\ MayStartFor(req[r].student) /\ req[r].status # "CANCELED" /\ req[r].ap # "NONE"
    BY <1>4 DEF BeginPatchAppointment, StaffMayTouch, Disciplined
  <2>3. req[r].status # "NONE"
    BY <2>2 DEF IInv, RowsAgree
  <2> QED
    BY <2>1, <2>2, <2>3, ApOfStatus, ReadRowOrderly
<1>5. ASSUME NEW r \in ReqIds, BeginPatchRequest(p, r) PROVE Orderly'
  <2>1. PICK new : ReadRow(p, r, "coordinator", new, ApFor(new))
    BY <1>5 DEF BeginPatchRequest
  <2>2. MayStartFor(req[r].student) /\ req[r].status \notin {"NONE", "CANCELED"}
    BY <1>5 DEF BeginPatchRequest, StaffMayTouch, Disciplined, Rows
  <2> QED
    BY <2>1, <2>2, ReadRowOrderly
<1>6. ASSUME NEW r \in ReqIds, BeginAdminChange(p, r) PROVE Orderly'
  <2>1. PICK new : Advance(p, Reader(r, "admin", "lock", new, ApFor(new), "NONE"))
    BY <1>6 DEF BeginAdminChange
  <2>2. MayStartFor(req[r].student) /\ req[r].status \notin {"NONE", "CANCELED"}
    BY <1>6 DEF BeginAdminChange, StaffMayTouch, Disciplined, Rows
  <2> QED
    BY <2>1, <2>2, ReaderOrderly
<1>7. ASSUME NEW R \in SUBSET Slots, BeginSplit(p, R) PROVE Orderly'
  <2> DEFINE t == [Idle EXCEPT !.pc = "advisory", !.who = "coordinator", !.slots = R]
  <2>1. t.pc = "advisory" /\ t.student = NoStudent /\ Advance(p, t)
    BY <1>7 DEF BeginSplit, Idle
  <2> HIDE DEF t
  <2> QED
    BY <2>1, NamesAssumption, StartOrderly
<1>8. ASSUME NEW R \in SUBSET Slots, BeginDelete(p, R) PROVE Orderly'
  <2> DEFINE t == [Idle EXCEPT !.pc = "delete", !.who = "coordinator", !.slots = R]
  <2>1. t.pc = "delete" /\ t.student = NoStudent /\ Advance(p, t)
    BY <1>8 DEF BeginDelete, Idle
  <2> HIDE DEF t
  <2> QED
    BY <2>1, NamesAssumption, StartOrderly
<1> QED
  BY <1>1, <1>2, <1>3, <1>4, <1>5, <1>6, <1>7, <1>8 DEF Begin

-----------------------------------------------------------------------------
LEMMA ReserveOrderly ==
    ASSUME IInv, Orderly, NEW p \in Sessions, ReserveSlot(p)
    PROVE  Orderly'
<1>1. CASE slot[tx[p].slot] = "free"
  <2>1. tx[p] \in Transactions /\ TypeOK /\ tx[p].pc = "reserve"
    BY DEF IInv, TypeOK, ReserveSlot
  <2>2. /\ tx'[p].pc = "insert" /\ tx'[p].slot = tx[p].slot /\ tx'[p].student = tx[p].student
        /\ tx'[p].period = tx[p].period /\ req' = req /\ slot' = slot
        /\ \A q \in Sessions \ {p} : tx'[q] = tx[q]
    BY <1>1, <2>1 DEF ReserveSlot, TypeOK, Transactions
  <2>3. Creates(p) /\ Rows' = Rows
    BY <2>2 DEF Orderly, Rows
  <2>4. Creates(p)'
    BY <1>1, <2>1, <2>2, <2>3 DEF Creates
  <2>5. Changes(p)'
    BY <2>2 DEF Changes
  <2>6. TakesNoStudent(p)
    BY <2>2 DEF TakesNoStudent
  <2> QED
    BY <2>2, <2>4, <2>5, <2>6, OrderlyInserts, QuietStep
<1>2. CASE slot[tx[p].slot] # "free"
  BY <1>2, RollbackOrderly DEF ReserveSlot
<1> QED
  BY <1>1, <1>2

LEMMA AdminLockOrderly ==
    ASSUME IInv, Orderly, NEW p \in Sessions, AdminLock(p)
    PROVE  Orderly'
<1>1. CASE tx[p].newReq = "PENDING"
  BY <1>1, RollbackOrderly DEF AdminLock
<1>2. CASE tx[p].newReq # "PENDING"
  <2>1. tx[p] \in Transactions /\ TypeOK /\ tx[p].pc = "lock"
    BY DEF IInv, TypeOK, AdminLock
  <2>2. /\ tx'[p].pc = IF tx[p].newAp = "CANCELED" THEN "slot" ELSE "write"
        /\ tx'[p].seenReq = req[tx[p].req].status
        /\ tx'[p].req = tx[p].req /\ tx'[p].student = tx[p].student
        /\ tx'[p].newReq = tx[p].newReq /\ tx'[p].newAp = tx[p].newAp
        /\ tx'[p].seenAp = tx[p].seenAp /\ tx'[p].seenBooked = tx[p].seenBooked
        /\ req' = req /\ slot' = slot
        /\ \A q \in Sessions \ {p} : tx'[q] = tx[q]
    BY <1>2, <2>1 DEF AdminLock, TypeOK, Transactions
  <2>3. Changes(p)
    BY DEF Orderly
  <2>4. tx[p].seenBooked \in BOOLEAN
    BY <2>1 DEF Transactions
  <2>5. Changes(p)'
    BY <2>1, <2>2, <2>3, <2>4 DEF Changes
  <2>6. Creates(p)'
    BY <2>2 DEF Creates
  <2>7. TakesNoStudent(p)
    BY <2>2 DEF TakesNoStudent
  <2> QED
    BY <2>2, <2>5, <2>6, <2>7, OrderlyInserts, QuietStep
<1> QED
  BY <1>1, <1>2

LEMMA ReadSlotOrderly ==
    ASSUME IInv, Orderly, NEW p \in Sessions, ReadSlot(p)
    PROVE  Orderly'
<1>1. CASE tx[p].who = "student" /\ tx[p].slot \in past
  BY <1>1, RollbackOrderly DEF ReadSlot
<1>2. CASE ~(tx[p].who = "student" /\ tx[p].slot \in past)
  <2> DEFINE b == slot[tx[p].slot] = "booked"
             t == [tx[p] EXCEPT !.pc = "write", !.seenBooked = b]
  <2>1. tx[p] \in Transactions /\ TypeOK /\ tx[p].pc = "slot" /\ Advance(p, t)
    BY <1>2 DEF IInv, TypeOK, ReadSlot
  <2>2. /\ t.pc = "write" /\ t.seenReq = tx[p].seenReq /\ t.seenAp = tx[p].seenAp
        /\ t.req = tx[p].req /\ t.student = tx[p].student
        /\ t.newReq = tx[p].newReq /\ t.newAp = tx[p].newAp /\ t.seenBooked = b
    <3> HIDE DEF b
    <3> QED
      BY <2>1 DEF Transactions
  <2>3. Changes(p) /\ ReadsARow(p)
    BY DEF Orderly, IInv, ReadersAgree
  <2>4. tx[p].req \in ReqIds
    BY <2>1 DEF Transactions
  <2>5. /\ req[tx[p].req].status \notin {"NONE", "CANCELED"} /\ req[tx[p].req].ap # "NONE"
        /\ req[tx[p].req].slot = tx[p].slot /\ tx[p].newAp = "CANCELED"
    BY <2>1, <2>3 DEF Changes, ReadsARow
  <2>6. b
    BY <2>4, <2>5, LiveStatus
  <2> HIDE DEF t, b
  <2>7. tx'[p] = t /\ req' = req
    BY <2>1 DEF Advance, TypeOK
  <2>8. Changes(p)'
    BY <2>1, <2>2, <2>3, <2>5, <2>6, <2>7 DEF Changes
  <2>9. Creates(p)'
    BY <2>2, <2>7 DEF Creates
  <2> QED
    BY <2>1, <2>2, <2>8, <2>9, AdvanceOrderly
<1> QED
  BY <1>1, <1>2

\* Whoever inserts has the lock of a slot that is free: a deletion passes it by.
LEMMA DeletionsOrderly ==
    ASSUME IInv, Orderly, NEW p \in Sessions, SplitApply(p) \/ CommitDelete(p)
    PROVE  Orderly'
<1>1. req' = req /\ Finish(p)
  BY DeletionsKeep
<1>2. /\ tx'[p].pc = "idle" /\ TakesNoStudent(p) /\ \A q \in Sessions \ {p} : tx'[q] = tx[q]
  BY <1>1, FinishTakes DEF IInv
<1>3. Creates(p)' /\ Changes(p)'
  BY <1>2, IdleIsOrderly
<1>4. ASSUME NEW q \in Sessions \ {p}, tx[q].pc = "insert"
      PROVE  tx[q].slot \in Slots /\ slot[tx[q].slot] = "free" /\ rowLock[tx[q].slot] = q
  BY <1>4, OrderlyInserts DEF IInv, LocksHeld, HoldsItsLocks
<1>5. CASE SplitApply(p)
  <2>1. CASE slot' = slot
    BY <1>1, <1>2, <1>3, <1>4, <2>1, QuietStep
  <2>2. CASE slot' # slot
    <3>1. PICK N \in SUBSET {s \in Slots : slot[s] = "absent"} :
             slot' = [s \in Slots |-> IF s \in tx[p].slots THEN "gone"
                                      ELSE IF s \in N THEN "free" ELSE slot[s]]
      BY <1>5, <2>2 DEF SplitApply, Rollback
    <3>2. \A s \in tx[p].slots : slot[s] = "free" /\ rowLock[s] \in {NoSession, p}
      BY <1>5, <2>2 DEF SplitApply, Rollback
    <3>3. \A s \in Slots : slot'[s] = "booked" <=> slot[s] = "booked"
      BY <3>1, <3>2
    <3>4. ASSUME NEW q \in Sessions \ {p}, tx[q].pc = "insert" PROVE slot'[tx[q].slot] = "free"
      BY <1>4, <3>1, <3>2, <3>4, NamesAssumption
    <3> QED
      BY <1>1, <1>2, <1>3, <3>3, <3>4, QuietStep
  <2> QED
    BY <2>1, <2>2
<1>6. CASE CommitDelete(p)
  <2> DEFINE D == {s \in tx[p].slots : slot[s] = "free" /\ History(s) = {}}
  <2>1. /\ slot' = [s \in Slots |-> IF s \in D THEN "gone" ELSE slot[s]]
        /\ \A s \in D : slot[s] = "free" /\ rowLock[s] = NoSession
    BY <1>6 DEF CommitDelete
  <2> HIDE DEF D
  <2>2. \A s \in Slots : slot'[s] = "booked" <=> slot[s] = "booked"
    BY <2>1
  <2>3. ASSUME NEW q \in Sessions \ {p}, tx[q].pc = "insert" PROVE slot'[tx[q].slot] = "free"
    BY <1>4, <2>1, <2>3, NamesAssumption
  <2> QED
    BY <1>1, <1>2, <1>3, <2>2, <2>3, QuietStep
<1> QED
  BY <1>5, <1>6

-----------------------------------------------------------------------------
(* The three commits that write a request.                                  *)

\* The other sessions of a commit by p of a row of p's student.
LEMMA OthersOrderly ==
    ASSUME IInv, Orderly, NEW p \in Sessions, tx[p].student \in Students, NEW r \in ReqIds,
           req[r].status = "NONE" \/ req[r].student = tx[p].student,
           req'[r].student = tx[p].student,
           \A o \in ReqIds \ {r} : req'[o] = req[o],
           NEW q \in Sessions \ {p}, tx'[q] = tx[q],
           tx[q].pc = "insert" => slot'[tx[q].slot] = "free"
    PROVE  Creates(q)' /\ Changes(q)'
<1>1. tx[q].student # tx[p].student /\ Creates(q) /\ Changes(q) /\ tx[q] \in Transactions
  BY DEF Orderly, OneSessionEach, IInv, TypeOK
<1>2. \A o \in Rows' : o # r => o \in Rows /\ req'[o] = req[o]
  BY DEF Rows
<1>3. Creates(q)'
  BY <1>1, <1>2 DEF Creates
<1>4. tx[q].pc \in {"lock", "slot", "write"} => tx[q].req \in ReqIds /\ tx[q].req # r
  BY <1>1 DEF Changes, Transactions
<1>5. Changes(q)'
  BY <1>1, <1>4 DEF Changes
<1> QED
  BY <1>3, <1>5

\* What a new request leaves of the parts about requests.
LEMMA NewOrderly ==
    ASSUME IInv, Orderly, NEW p \in Sessions,
           tx[p].pc \in {"insert", "insertDrop"}, NEW r \in ReqIds \ Rows, NEW row,
           req' = [req EXCEPT ![r] = row],
           row.status = "PENDING", row.student = tx[p].student, row.period = tx[p].period,
           row.ap \in {"NONE", "SCHEDULED"}
    PROVE  ApTells' /\ RowsOwned' /\ OneRequestPerPeriod'
<1>1. /\ req'[r] = row /\ \A o \in ReqIds \ {r} : req'[o] = req[o]
  BY NewRequest
<1>2. /\ tx[p].student \in Students
      /\ \A o \in Rows : req[o].student = tx[p].student /\ req[o].period = tx[p].period
                           => req[o].status = "CANCELED"
  BY DEF Orderly, Creates
<1>3. Rows' = Rows \cup {r}
  BY <1>1 DEF Rows
<1>4. ApTells'
  BY <1>1 DEF Orderly, ApTells, ApFor
<1>5. RowsOwned'
  BY <1>1, <1>2, <1>3 DEF Orderly, RowsOwned, Rows
<1>6. \A o \in Rows : o # r /\ req'[o] = req[o]
  BY <1>1 DEF Rows
<1>7. OneRequestPerPeriod'
  BY <1>1, <1>2, <1>3, <1>6 DEF Orderly, OneRequestPerPeriod
<1> QED
  BY <1>4, <1>5, <1>7

LEMMA CommitAppointmentOrderly ==
    ASSUME IInv, Orderly, NEW p \in Sessions, CommitAppointment(p)
    PROVE  Orderly'
<1> DEFINE t == tx[p]
<1>1. CASE IndexRefuses(t.slot, NoReq)
  BY <1>1, RollbackOrderly DEF CommitAppointment
<1>2. CASE ~IndexRefuses(t.slot, NoReq)
  <2> DEFINE row == [status |-> "PENDING", student |-> t.student, period |-> t.period,
                     slot |-> t.slot, ap |-> "SCHEDULED"]
  <2>1. PICK r \in ReqIds \ Rows : req' = [req EXCEPT ![r] = row]
    BY <1>2 DEF CommitAppointment
  <2>2. /\ row.status = "PENDING" /\ row.student = t.student /\ row.period = t.period
        /\ row.slot = t.slot /\ row.ap = "SCHEDULED"
    OBVIOUS
  <2> HIDE DEF row
  <2>3. /\ tx[p].pc = "insert" /\ Finish(p) /\ slot' = [slot EXCEPT ![t.slot] = "booked"]
    BY <1>2 DEF CommitAppointment
  <2>4. /\ t.slot \in Slots /\ rowLock[t.slot] = p /\ slot[t.slot] = "free"
    BY <2>3, OrderlyInserts DEF IInv, LocksHeld, HoldsItsLocks
  <2>5. ApTells' /\ RowsOwned' /\ OneRequestPerPeriod'
    BY <2>1, <2>2, <2>3, NewOrderly
  <2>6. /\ req'[r] = row /\ req[r].ap = "NONE" /\ \A o \in ReqIds \ {r} : req'[o] = req[o]
    BY <2>1, NewRequest
  <2>7. \A h \in History(t.slot) : ~Live(h)
    BY <2>4 DEF Orderly, SlotsTell
  <2>8. SlotsTell'
    <3> SUFFICES ASSUME NEW s \in Slots
                 PROVE  /\ slot'[s] = "booked" <=> \E h \in History(s)' : Live(h)'
                        /\ \A r1, r2 \in History(s)' : Live(r1)' /\ Live(r2)' => r1 = r2
      BY DEF SlotsTell
    <3>1. \A o \in ReqIds \ {r} : /\ o \in History(s)' <=> o \in History(s)
                                  /\ Live(o)' <=> Live(o)
      BY <2>6 DEF History, Live
    <3>2. History(s)' \subseteq ReqIds /\ History(s) \subseteq ReqIds \ {r}
      BY <2>6 DEF History
    <3>3. CASE s = t.slot
      <4>1. r \in History(s)' /\ Live(r)'
        BY <2>2, <2>6, <3>3 DEF History, Live
      <4>2. \A h \in History(s)' : Live(h)' => h = r
        BY <2>7, <3>1, <3>2, <3>3
      <4>3. slot'[s] = "booked"
        BY <2>3, <3>3 DEF IInv, TypeOK
      <4> QED
        BY <4>1, <4>2, <4>3
    <3>4. CASE s # t.slot
      <4>1. slot'[s] = slot[s]
        BY <2>3, <3>4 DEF IInv, TypeOK
      <4>2. r \notin History(s)'
        BY <2>2, <2>6, <3>4 DEF History
      <4>3. /\ slot[s] = "booked" <=> \E h \in History(s) : Live(h)
            /\ \A r1, r2 \in History(s) : Live(r1) /\ Live(r2) => r1 = r2
        BY DEF Orderly, SlotsTell
      <4> QED
        BY <3>1, <3>2, <4>1, <4>2, <4>3
    <3> QED
      BY <3>3, <3>4
  <2>9. /\ tx'[p].pc = "idle" /\ TakesNoStudent(p) /\ \A q \in Sessions \ {p} : tx'[q] = tx[q]
    BY <2>3, FinishTakes DEF IInv
  <2>10. OneSessionEach'
    BY <2>9, SessionEach DEF Orderly
  <2>11. tx[p].student \in Students
    BY <2>3 DEF Orderly, Creates
  <2>12. ASSUME NEW q \in Sessions \ {p} PROVE Creates(q)' /\ Changes(q)'
    <3>1. ASSUME tx[q].pc = "insert" PROVE slot'[tx[q].slot] = "free"
      <4>1. tx[q].slot \in Slots /\ rowLock[tx[q].slot] = q /\ slot[tx[q].slot] = "free"
        BY <3>1, OrderlyInserts DEF IInv, LocksHeld, HoldsItsLocks
      <4> QED
        BY <2>3, <2>4, <4>1 DEF IInv, TypeOK
    <3>2. req[r].status = "NONE" /\ req'[r].student = tx[p].student
      BY <2>1, <2>2, <2>6 DEF Rows
    <3> QED
      BY <2>6, <2>9, <2>11, <3>1, <3>2, OthersOrderly
  <2>13. Creates(p)' /\ Changes(p)'
    BY <2>9, IdleIsOrderly
  <2> QED
    BY <2>5, <2>8, <2>10, <2>12, <2>13 DEF Orderly
<1> QED
  BY <1>1, <1>2

LEMMA CommitDropOrderly ==
    ASSUME IInv, Orderly, NEW p \in Sessions, CommitDrop(p)
    PROVE  Orderly'
<1> DEFINE row == [status |-> "PENDING", student |-> tx[p].student, period |-> tx[p].period,
                   slot |-> NoSlot, ap |-> "NONE"]
<1>1. PICK r \in ReqIds \ Rows : req' = [req EXCEPT ![r] = row]
  BY DEF CommitDrop
<1>2. /\ row.status = "PENDING" /\ row.student = tx[p].student /\ row.period = tx[p].period
      /\ row.ap = "NONE"
  OBVIOUS
<1> HIDE DEF row
<1>3. tx[p].pc = "insertDrop" /\ Finish(p) /\ slot' = slot
  BY DEF CommitDrop
<1>4. ApTells' /\ RowsOwned' /\ OneRequestPerPeriod'
  BY <1>1, <1>2, <1>3, NewOrderly
<1>5. /\ req'[r] = row /\ req[r].ap = "NONE" /\ \A o \in ReqIds \ {r} : req'[o] = req[o]
  BY <1>1, NewRequest
<1>6. /\ \A s : History(s)' = History(s)
      /\ \A o \in ReqIds : Live(o)' <=> Live(o)
  BY <1>2, <1>5 DEF History, Live
<1>7. \A s : History(s) \subseteq ReqIds
  BY DEF History
<1>8. SlotsTell'
  BY <1>3, <1>6, <1>7 DEF Orderly, SlotsTell
<1>9. /\ tx'[p].pc = "idle" /\ TakesNoStudent(p) /\ \A q \in Sessions \ {p} : tx'[q] = tx[q]
  BY <1>3, FinishTakes DEF IInv
<1>10. OneSessionEach'
  BY <1>9, SessionEach DEF Orderly
<1>11. tx[p].student \in Students
  BY <1>3 DEF Orderly, Creates
<1>12. ASSUME NEW q \in Sessions \ {p} PROVE Creates(q)' /\ Changes(q)'
  <2>1. tx[q].pc = "insert" => slot'[tx[q].slot] = "free"
    BY <1>3, OrderlyInserts
  <2>2. req[r].status = "NONE" /\ req'[r].student = tx[p].student
    BY <1>1, <1>2, <1>5 DEF Rows
  <2> QED
    BY <1>5, <1>9, <1>11, <2>1, <2>2, OthersOrderly
<1>13. Creates(p)' /\ Changes(p)'
  BY <1>9, IdleIsOrderly
<1> QED
  BY <1>4, <1>8, <1>10, <1>12, <1>13 DEF Orderly

\* With nothing changed since it read, a session writes both statuses it meant to.
LEMMA StatusWritten ==
    ASSUME IInv, Orderly, NEW p \in Sessions, CommitStatus(p),
           ~(WritesAp(tx[p]) /\ tx[p].newAp \in IndexedStatus
                             /\ IndexRefuses(tx[p].slot, tx[p].req))
    PROVE  LET r == tx[p].req IN
           /\ r \in ReqIds /\ \A o \in ReqIds \ {r} : req'[o] = req[o]
           /\ req'[r].status = tx[p].newReq /\ req'[r].ap = tx[p].newAp
           /\ req'[r].student = req[r].student /\ req'[r].period = req[r].period
           /\ req'[r].slot = req[r].slot
<1> DEFINE t == tx[p]
           status == IF t.newReq # t.seenReq THEN t.newReq ELSE req[t.req].status
           ap == IF WritesAp(t) THEN t.newAp ELSE req[t.req].ap
<1>1. t.pc = "write" /\ t \in Transactions /\ Changes(p)
  BY DEF CommitStatus, IInv, TypeOK, Orderly
<1>2. t.req \in ReqIds
  BY <1>1 DEF Transactions
<1>3. status = t.newReq /\ ap = t.newAp
  BY <1>1 DEF Changes, WritesAp
<1>4. req' = [req EXCEPT ![t.req].status = IF t.newReq # t.seenReq THEN t.newReq ELSE @,
                         ![t.req].ap = IF WritesAp(t) THEN t.newAp ELSE @]
  BY DEF CommitStatus
<1>5. req'[t.req] = [req[t.req] EXCEPT !.status = status, !.ap = ap]
  BY <1>2, <1>4 DEF IInv, TypeOK
<1>6. req[t.req] \in Requests
  BY <1>2 DEF IInv, TypeOK
<1>7. \A o \in ReqIds \ {t.req} : req'[o] = req[o]
  BY <1>4 DEF IInv, TypeOK
<1> HIDE DEF status, ap
<1>8. /\ req'[t.req].status = status /\ req'[t.req].ap = ap
      /\ req'[t.req].slot = req[t.req].slot /\ req'[t.req].student = req[t.req].student
      /\ req'[t.req].period = req[t.req].period
  BY <1>5, <1>6 DEF Requests
<1> QED
  BY <1>2, <1>3, <1>7, <1>8

LEMMA CommitStatusOrderly ==
    ASSUME IInv, Orderly, NEW p \in Sessions, CommitStatus(p)
    PROVE  Orderly'
<1> DEFINE t == tx[p]
           clash == WritesAp(t) /\ t.newAp \in IndexedStatus /\ IndexRefuses(t.slot, t.req)
<1>1. CASE clash
  BY <1>1, RollbackOrderly DEF CommitStatus
<1>2. CASE ~clash
  <2>1. PICK r \in ReqIds :
          /\ r = t.req /\ \A o \in ReqIds \ {r} : req'[o] = req[o]
          /\ req'[r].status = t.newReq /\ req'[r].ap = t.newAp
          /\ req'[r].student = req[r].student /\ req'[r].period = req[r].period
          /\ req'[r].slot = req[r].slot
    BY <1>2, StatusWritten
  <2>2. /\ t.pc = "write" /\ Finish(p)
        /\ slot' = IF t.seenBooked THEN [slot EXCEPT ![t.slot] = "free"] ELSE slot
    BY <1>2 DEF CommitStatus, FreesSlot
  <2>3. /\ t.student \in Students /\ req[r].student = t.student
        /\ req[r].status \notin {"NONE", "CANCELED"} /\ t.seenAp = req[r].ap
        /\ t.newAp = IF req[r].ap = "NONE" THEN "NONE" ELSE ApFor(t.newReq)
        /\ t.seenBooked <=> t.newAp = "CANCELED"
    BY <2>1, <2>2 DEF Orderly, Changes
  <2>4. /\ req[r].ap # "NONE" => req[r].slot = t.slot
        /\ t.newReq # "NONE" /\ (t.newAp = "NONE" <=> req[r].ap = "NONE")
    BY <2>1, <2>2, <2>3 DEF IInv, ReadersAgree, ReadsARow
  <2>5. ApTells'
    BY <2>1, <2>3 DEF Orderly, ApTells
  <2>6. Rows' = Rows /\ r \in Rows
    BY <2>1, <2>3, <2>4 DEF Rows
  <2>7. RowsOwned'
    BY <2>1, <2>6 DEF Orderly, RowsOwned, Rows
  <2>8. OneRequestPerPeriod'
    <3> SUFFICES ASSUME NEW r1 \in Rows, NEW r2 \in Rows,
                        req'[r1].student = req'[r2].student, req'[r1].period = req'[r2].period,
                        req'[r1].status # "CANCELED", req'[r2].status # "CANCELED"
                 PROVE  r1 = r2
      BY <2>6 DEF OneRequestPerPeriod
    <3>1. \A o \in Rows : /\ req'[o].student = req[o].student /\ req'[o].period = req[o].period
                          /\ req'[o].status # "CANCELED" => req[o].status # "CANCELED"
      BY <2>1, <2>3 DEF Rows
    <3> QED
      BY <3>1 DEF Orderly, OneRequestPerPeriod
  <2>9. SlotsTell'
    <3> SUFFICES ASSUME NEW s \in Slots
                 PROVE  /\ slot'[s] = "booked" <=> \E h \in History(s)' : Live(h)'
                        /\ \A r1, r2 \in History(s)' : Live(r1)' /\ Live(r2)' => r1 = r2
      BY DEF SlotsTell
    <3>1. /\ slot[s] = "booked" <=> \E h \in History(s) : Live(h)
          /\ \A r1, r2 \in History(s) : Live(r1) /\ Live(r2) => r1 = r2
      BY DEF Orderly, SlotsTell
    <3>2. /\ History(s)' = History(s) /\ History(s) \subseteq ReqIds
          /\ \A o \in ReqIds \ {r} : Live(o)' <=> Live(o)
      BY <2>1, <2>4 DEF History, Live
    <3>3. CASE t.newAp = "CANCELED"
      <4>1. /\ req[r].slot = t.slot /\ t.slot \in Slots /\ r \in History(t.slot) /\ Live(r)
        BY <2>3, <2>4, <3>3, LiveStatus
      <4>2. ~Live(r)'
        BY <2>1, <3>3 DEF Live
      <4>3. slot' = [slot EXCEPT ![t.slot] = "free"]
        BY <2>2, <2>3, <3>3
      <4>4. CASE s = t.slot
        <5>1. \A h \in History(s) : ~Live(h)'
          BY <3>1, <3>2, <4>1, <4>2, <4>4
        <5>2. slot'[s] = "free"
          BY <4>3, <4>4 DEF IInv, TypeOK
        <5> QED
          BY <3>2, <5>1, <5>2
      <4>5. CASE s # t.slot
        <5>1. r \notin History(s) /\ slot'[s] = slot[s]
          BY <4>1, <4>3, <4>5 DEF History, IInv, TypeOK
        <5> QED
          BY <3>1, <3>2, <5>1
      <4> QED
        BY <4>4, <4>5
    <3>4. CASE t.newAp # "CANCELED"
      <4>1. slot' = slot
        BY <2>2, <2>3, <3>4
      <4>2. Live(r)' <=> Live(r)
        BY <2>1, <2>3, <2>4, <3>4, LiveStatus DEF Live
      <4> QED
        BY <3>1, <3>2, <4>1, <4>2
    <3> QED
      BY <3>3, <3>4
  <2>10. /\ tx'[p].pc = "idle" /\ TakesNoStudent(p) /\ \A q \in Sessions \ {p} : tx'[q] = tx[q]
    BY <2>2, FinishTakes DEF IInv
  <2>11. OneSessionEach'
    BY <2>10, SessionEach DEF Orderly
  <2>12. ASSUME NEW q \in Sessions \ {p} PROVE Creates(q)' /\ Changes(q)'
    <3>1. ASSUME tx[q].pc = "insert" PROVE slot'[tx[q].slot] = "free"
      <4>1. tx[q].slot \in Slots /\ slot[tx[q].slot] = "free"
        BY <3>1, OrderlyInserts DEF IInv, LocksHeld, HoldsItsLocks
      <4> QED
        BY <2>2, <4>1 DEF IInv, TypeOK
    <3>2. req[r].student = tx[p].student /\ req'[r].student = tx[p].student
      BY <2>1, <2>3
    <3> QED
      BY <2>1, <2>3, <2>10, <3>1, <3>2, OthersOrderly
  <2>13. Creates(p)' /\ Changes(p)'
    BY <2>10, IdleIsOrderly
  <2> QED
    BY <2>5, <2>7, <2>8, <2>9, <2>11, <2>12, <2>13 DEF Orderly
<1> QED
  BY <1>1, <1>2

-----------------------------------------------------------------------------
\* The steps that leave the rows and the sessions' own variables alone.
LEMMA UnchangedOrderly ==
    ASSUME Orderly, UNCHANGED <<req, slot, tx>>
    PROVE  Orderly'
<1>1. /\ \A s : History(s)' = History(s)
      /\ Rows' = Rows /\ \A r : Live(r)' <=> Live(r)
  BY DEF History, Rows, Live
<1>2. SlotsTell' /\ ApTells' /\ RowsOwned' /\ OneRequestPerPeriod' /\ OneSessionEach'
  BY <1>1 DEF Orderly, SlotsTell, ApTells, RowsOwned, OneRequestPerPeriod, OneSessionEach
<1>3. ASSUME NEW q \in Sessions PROVE Creates(q)' /\ Changes(q)'
  <2>1. Creates(q)'
    BY <1>1 DEF Orderly, Creates
  <2>2. Changes(q)'
    BY DEF Orderly, Changes
  <2> QED
    BY <2>1, <2>2
<1> QED
  BY <1>2, <1>3 DEF Orderly

LEMMA ContinueOrderly ==
    ASSUME IInv, Orderly, NEW p \in Sessions, Continue(p)
    PROVE  Orderly'
<1>1. CASE FlushRequest(p) \/ FlushSlot(p)
  BY <1>1, UnchangedOrderly DEF FlushRequest, FlushSlot
<1>2. CASE DeadlockVictim(p)
  BY <1>2, RollbackOrderly DEF DeadlockVictim
<1>3. CASE TakeAdvisoryLock(p)
  <2>1. /\ tx'[p].pc = "splitLock" /\ tx'[p].student = tx[p].student
        /\ req' = req /\ slot' = slot /\ \A q \in Sessions \ {p} : tx'[q] = tx[q]
    BY <1>3 DEF TakeAdvisoryLock, IInv, TypeOK, Transactions
  <2>2. Creates(p)' /\ Changes(p)' /\ TakesNoStudent(p)
    BY <2>1, IdleIsOrderly DEF TakesNoStudent
  <2> QED
    BY <2>1, <2>2, OrderlyInserts, QuietStep
<1>4. CASE SplitLock(p)
  <2> DEFINE R == {s \in tx[p].slots : Exists(s)}
             t == [tx[p] EXCEPT !.pc = "plan", !.slots = R]
  <2>1. CASE Advance(p, t)
    <3>1. t.pc = "plan" /\ t.student = tx[p].student
      <4> HIDE DEF R
      <4> QED
        BY DEF IInv, TypeOK, Transactions
    <3> HIDE DEF t
    <3> QED
      BY <2>1, <3>1, StartOrderly
  <2>2. CASE UNCHANGED <<req, slot, period, past, reqLock, advisory, tx>>
    BY <2>2, UnchangedOrderly
  <2> QED
    BY <1>4, <2>1, <2>2 DEF SplitLock
<1>5. CASE SplitPlan(p)
  <2> DEFINE D == {s \in tx[p].slots : slot[s] = "free" /\ History(s) = {}}
             t == [tx[p] EXCEPT !.pc = "apply", !.slots = D]
  <2>1. Advance(p, t)
    BY <1>5 DEF SplitPlan
  <2>2. t.pc = "apply" /\ t.student = tx[p].student
    <3> HIDE DEF D
    <3> QED
      BY DEF IInv, TypeOK, Transactions
  <2> HIDE DEF t
  <2> QED
    BY <2>1, <2>2, StartOrderly
<1> QED
  BY <1>1, <1>2, <1>3, <1>4, <1>5, ReserveOrderly, CommitAppointmentOrderly,
     CommitDropOrderly, AdminLockOrderly, ReadSlotOrderly, CommitStatusOrderly,
     DeletionsOrderly DEF Continue

LEMMA StepOrderly == Disciplined /\ IInv /\ Orderly /\ [Next]_vars => Orderly'
<1> SUFFICES ASSUME Disciplined, IInv, Orderly, [Next]_vars PROVE Orderly'
  OBVIOUS
<1>1. ASSUME NEW p \in Sessions, Begin(p) \/ Continue(p) \/ Abort(p) PROVE Orderly'
  BY <1>1, BeginOrderly, ContinueOrderly, RollbackOrderly DEF Abort
<1>2. CASE UNCHANGED <<req, slot, tx>>
  BY <1>2, UnchangedOrderly
<1>3. ASSUME NEW s \in Slots, TimePasses(s) PROVE Orderly'
  BY <1>2, <1>3 DEF TimePasses
<1>4. ASSUME NEW q \in PeriodTargets, ActivatePeriod(q) PROVE Orderly'
  BY <1>2, <1>4 DEF ActivatePeriod
<1>5. CASE UNCHANGED vars
  BY <1>2, <1>5 DEF vars
<1> QED
  BY <1>1, <1>3, <1>4, <1>5 DEF Next

LEMMA InitOrderly == Init => Orderly
<1> SUFFICES ASSUME Init PROVE Orderly
  OBVIOUS
<1>1. \A r \in ReqIds : req[r].status = "NONE" /\ req[r].ap = "NONE"
  BY DEF Init, NoRow
<1>2. Rows = {} /\ \A s : History(s) = {}
  BY <1>1 DEF Rows, History
<1>3. \A s \in Slots : slot[s] # "booked"
  BY DEF Init
<1>4. SlotsTell /\ ApTells /\ RowsOwned /\ OneRequestPerPeriod
  BY <1>1, <1>2, <1>3 DEF SlotsTell, ApTells, RowsOwned, OneRequestPerPeriod
<1>5. \A p \in Sessions : tx[p].pc = "idle" /\ tx[p].student = NoStudent
  BY DEF Init, Idle
<1>6. OneSessionEach /\ \A p \in Sessions : Creates(p) /\ Changes(p)
  BY <1>5, NamesAssumption DEF OneSessionEach, Creates, Changes
<1> QED
  BY <1>4, <1>6 DEF Orderly

DisciplineOrders == Disciplined => Orderly

LEMMA OrderlyAlways == Spec => []DisciplineOrders
<1>1. Init => DisciplineOrders
  BY InitOrderly DEF DisciplineOrders
<1>2. IInv /\ DisciplineOrders /\ [Next]_vars => DisciplineOrders'
  <2> SUFFICES ASSUME Disciplined, IInv, Orderly, [Next]_vars PROVE Orderly'
    BY DEF DisciplineOrders, Disciplined
  <2> QED
    BY StepOrderly
<1> QED
  BY <1>1, <1>2, Invariant, PTL DEF Spec

\* As long as a student has one session at a time and staff leaves cancelled requests
\* alone, a slot is booked exactly when one of its appointments is not cancelled, and
\* an appointment has the status its request stands for, whatever the bookings, the
\* four ways to change a status and the day configuration do at once.
THEOREM BookedAgreesHolds == Spec => [](Disciplined => BookedAgrees)
<1>1. DisciplineOrders => (Disciplined => BookedAgrees)
  <2> SUFFICES ASSUME Orderly PROVE BookedAgrees
    BY DEF DisciplineOrders
  <2>1. \A s \in Slots : \A r \in History(s) : Live(r) <=> req[r].ap # "CANCELED"
    BY DEF History, Live
  <2> QED
    BY <2>1 DEF Orderly, SlotsTell, ApTells, BookedAgrees
<1> QED
  BY <1>1, OrderlyAlways, PTL

\* Under the same discipline a student never has two requests of one period that are
\* not cancelled: the check made before a request is created still holds when it is
\* committed, and no later change revives a second one.
THEOREM OneRequestHolds == Spec => [](Disciplined => OneRequestPerPeriod)
<1>1. DisciplineOrders => (Disciplined => OneRequestPerPeriod)
  BY DEF DisciplineOrders, Orderly
<1> QED
  BY <1>1, OrderlyAlways, PTL

=============================================================================
