---------------------------- MODULE UpkeepProofs ----------------------------
(***************************************************************************)
(* Proofs about MaintTickets and InventoryCampaigns, for any tickets,      *)
(* technicians, campaigns, equipment and number of sessions.               *)
(*                                                                         *)
(* Maintenance: every reading step is first reduced to one shape (lemma    *)
(* Shapes), which leaves five steps.  WorkHasTechnician is not inductive:  *)
(* Steady adds what a session in flight may still count on (a ticket read  *)
(* in work keeps a technician as long as no removal overlaps it).          *)
(***************************************************************************)
EXTENDS Upkeep, SequenceTheorems, TLAPS

-----------------------------------------------------------------------------
(* The shape of a read.                                                     *)

Fresh == {"NONE", "PENDING"}

FollowsFrom(v, w) ==
    \/ w.status = v.status
    \/ w.status # "NONE" /\ v.status \in Lifecycle!Before(w.status)

\* What a handler that touches no technician may leave in its copy w of the row v.
PlainWant(v, w) ==
    /\ w.status \in InWork => v.status \in InWork
    /\ w.status \in Fresh => v.status \in Fresh
    /\ v.status = "NONE" => v.files # "kept" \/ w.status = "PENDING"
    /\ v.status # "NONE" => w.status # "NONE"
    /\ v.status \in Terminal => w.status \in Terminal
    /\ w.files # "kept" => v.files # "kept" \/ w.status \in Terminal
    /\ FollowsFrom(v, w)

ReadShape(p, t, op, ph, w, a) ==
    /\ Read(p, t, op, ph, w, a)
    /\ \/ /\ op = "other" /\ ph = "commit" /\ a = <<>>
          /\ PlainWant(ticket[t], w)
          /\ \/ ticket[t].status # "NONE"
             \/ ticket[t].files # "kept"
             \/ \A q \in Sessions : session[q].ticket # t
       \/ /\ op = "assign" /\ ph = "rows" /\ w = ticket[t]
          /\ ticket[t].status \in Unresolved
       \/ /\ op = "unassign" /\ ph = "rows" /\ w = ticket[t]
          /\ ticket[t].status \in InWork

Ops == {"assign", "unassign", "other"}
Phases2 == {"rows", "commit"}

\* A handler that touches no technician has the shape.
LEMMA PlainShape ==
    ASSUME TypeOK, NEW p \in Sessions, NEW t \in Tickets, NEW w \in TicketRow,
           ReadPlain(p, t, w), PlainWant(ticket[t], w),
           \/ ticket[t].status # "NONE"
           \/ ticket[t].files # "kept"
           \/ \A q \in Sessions : session[q].ticket # t
    PROVE \E op \in Ops, ph \in Phases2, v \in TicketRow, a \in Seq(Techs) :
             ReadShape(p, t, op, ph, v, a)
<1>1. <<>> \in Seq(Techs)
    OBVIOUS
<1>2. ReadShape(p, t, "other", "commit", w, <<>>)
    BY DEF ReadShape, ReadPlain
<1>. QED BY <1>1, <1>2 DEF Ops, Phases2

\* Every step is a commit, an abort, a choice of technicians or a read of that shape.
LEMMA Shapes ==
    ASSUME TypeOK, MaintNext
    PROVE \E p \in Sessions :
             \/ Commit(p)
             \/ Abort(p)
             \/ PickNew(p)
             \/ PickRow(p)
             \/ \E t \in Tickets, op \in Ops, ph \in Phases2, w \in TicketRow, a \in Seq(Techs) :
                   ReadShape(p, t, op, ph, w, a)
<1>1. PICK p \in Sessions :
         \/ Commit(p) \/ Abort(p) \/ PickNew(p) \/ PickRow(p)
         \/ \E t \in Tickets :
               \/ ReadToCreate(p, t)
               \/ \E u, v \in Techs : ReadToAssign(p, t, <<u>>) \/ ReadToAssign(p, t, <<u, v>>)
               \/ \E u \in Techs : ReadToUnassign(p, t, u)
               \/ ReadToStart(p, t)
               \/ \E s \in Resolved : ReadToResolve(p, t, s)
               \/ ReadToRate(p, t)
               \/ ReadToCancel(p, t)
               \/ ReadToMark(p, t)
               \/ ReadToPurge(p, t)
    BY DEF MaintNext
<1>2. SUFFICES ASSUME NEW t \in Tickets,
                      \/ ReadToCreate(p, t)
                      \/ \E u, v \in Techs : \/ ReadToAssign(p, t, <<u>>)
                                             \/ ReadToAssign(p, t, <<u, v>>)
                      \/ \E u \in Techs : ReadToUnassign(p, t, u)
                      \/ ReadToStart(p, t)
                      \/ \E s \in Resolved : ReadToResolve(p, t, s)
                      \/ ReadToRate(p, t)
                      \/ ReadToCancel(p, t)
                      \/ ReadToMark(p, t)
                      \/ ReadToPurge(p, t)
               PROVE \E op \in Ops, ph \in Phases2, w \in TicketRow, a \in Seq(Techs) :
                        ReadShape(p, t, op, ph, w, a)
    BY <1>1, Zenon
<1>t. ticket[t] \in TicketRow
    BY DEF TypeOK
<1>3. CASE ReadToCreate(p, t)
    <2> DEFINE w == [ticket[t] EXCEPT !.status = "PENDING"]
    <2>1. w \in TicketRow
        BY <1>t DEF TicketRow, Status, Unresolved
    <2>2. PlainWant(ticket[t], w)
        BY <1>3, <1>t DEF ReadToCreate, PlainWant, FollowsFrom, TicketRow, InWork, Fresh, Terminal,
           Resolved, Lifecycle!Before, Lifecycle!Resolved
    <2>3. ReadPlain(p, t, w) /\ \A q \in Sessions : session[q].ticket # t
        BY <1>3 DEF ReadToCreate
    <2>. QED BY <2>1, <2>2, <2>3, PlainShape
<1>4. CASE \E u, v \in Techs : ReadToAssign(p, t, <<u>>) \/ ReadToAssign(p, t, <<u, v>>)
    <2>0. \A u, v \in Techs : <<u>> \in Seq(Techs) /\ <<u, v>> \in Seq(Techs)
        OBVIOUS
    <2>1. PICK a \in Seq(Techs) : ReadToAssign(p, t, a)
        BY <1>4, <2>0, Zenon
    <2>2. ReadShape(p, t, "assign", "rows", ticket[t], a)
        BY <2>1 DEF ReadToAssign, ReadShape
    <2>. QED BY <1>t, <2>2 DEF Ops, Phases2
<1>5. CASE \E u \in Techs : ReadToUnassign(p, t, u)
    <2>1. PICK u \in Techs : ReadToUnassign(p, t, u)
        BY <1>5
    <2>2. ReadShape(p, t, "unassign", "rows", ticket[t], <<u>>)
        BY <2>1 DEF ReadToUnassign, ReadShape
    <2>3. <<u>> \in Seq(Techs)
        BY <2>1, SMT
    <2>. QED BY <1>t, <2>2, <2>3 DEF Ops, Phases2
<1>6. CASE ReadToStart(p, t)
    <2> DEFINE w == [ticket[t] EXCEPT !.status = "IN_PROGRESS"]
    <2>1. w \in TicketRow
        BY <1>t DEF TicketRow, Status, Unresolved, InWork
    <2>2. PlainWant(ticket[t], w) /\ ReadPlain(p, t, w) /\ ticket[t].status # "NONE"
        BY <1>6, <1>t DEF ReadToStart, PlainWant, FollowsFrom, TicketRow, InWork, Fresh, Terminal,
           Resolved, Lifecycle!Before, Lifecycle!Resolved
    <2>. QED BY <2>1, <2>2, PlainShape
<1>7. CASE \E s \in Resolved : ReadToResolve(p, t, s)
    <2>0. PICK s \in Resolved : ReadToResolve(p, t, s)
        BY <1>7
    <2> DEFINE w == [ticket[t] EXCEPT !.status = s]
    <2>1. w \in TicketRow
        BY <1>t DEF TicketRow, Status, Terminal
    <2>2. PlainWant(ticket[t], w) /\ ReadPlain(p, t, w) /\ ticket[t].status # "NONE"
        BY <2>0, <1>t DEF ReadToResolve, PlainWant, FollowsFrom, TicketRow, InWork, Fresh, Terminal,
           Resolved, Lifecycle!Before, Lifecycle!Resolved
    <2>. QED BY <2>1, <2>2, PlainShape
<1>8. CASE ReadToRate(p, t)
    <2> DEFINE w == [ticket[t] EXCEPT !.status = "CLOSED", !.rated = TRUE]
    <2>1. w \in TicketRow
        BY <1>t DEF TicketRow, Status, Terminal
    <2>2. PlainWant(ticket[t], w) /\ ReadPlain(p, t, w) /\ ticket[t].status # "NONE"
        BY <1>8, <1>t DEF ReadToRate, PlainWant, FollowsFrom, TicketRow, InWork, Fresh, Terminal,
           Resolved, Lifecycle!Before, Lifecycle!Resolved
    <2>. QED BY <2>1, <2>2, PlainShape
<1>9. CASE ReadToCancel(p, t)
    <2> DEFINE w == [ticket[t] EXCEPT !.status = "CANCELED"]
    <2>1. w \in TicketRow
        BY <1>t DEF TicketRow, Status, Terminal
    <2>2. PlainWant(ticket[t], w) /\ ReadPlain(p, t, w) /\ ticket[t].status # "NONE"
        BY <1>9, <1>t DEF ReadToCancel, PlainWant, FollowsFrom, TicketRow, InWork, Fresh, Terminal,
           Unresolved, Resolved, Lifecycle!Before, Lifecycle!Resolved
    <2>. QED BY <2>1, <2>2, PlainShape
<1>10. CASE ReadToMark(p, t)
    <2> DEFINE w == [ticket[t] EXCEPT !.files = "marked"]
    <2>1. w \in TicketRow
        BY <1>t DEF TicketRow
    <2>2. PlainWant(ticket[t], w) /\ ReadPlain(p, t, w) /\ ticket[t].status # "NONE"
        BY <1>10, <1>t DEF ReadToMark, PlainWant, FollowsFrom, TicketRow, Terminal, Resolved
    <2>. QED BY <2>1, <2>2, PlainShape
<1>11. CASE ReadToPurge(p, t)
    <2> DEFINE w == [ticket[t] EXCEPT !.files = "purged"]
    <2>1. w \in TicketRow
        BY <1>t DEF TicketRow
    <2>2. PlainWant(ticket[t], w) /\ ReadPlain(p, t, w) /\ ticket[t].files # "kept"
        BY <1>11, <1>t DEF ReadToPurge, PlainWant, FollowsFrom, TicketRow
    <2>. QED BY <2>1, <2>2, PlainShape
<1>. QED BY <1>2, <1>3, <1>4, <1>5, <1>6, <1>7, <1>8, <1>9, <1>10, <1>11

-----------------------------------------------------------------------------
(* The rows of the technicians.                                             *)

After(r, i, us) == Closed(r, i) \o Rows(us)

LEMMA ClosedRows ==
    ASSUME NEW r \in Seq(TechnicianRow), NEW i \in 0 .. Len(r)
    PROVE /\ Closed(r, i) \in Seq(TechnicianRow)
          /\ Len(Closed(r, i)) = Len(r)
          /\ \A j \in 1 .. Len(r) : Closed(r, i)[j].active <=> r[j].active /\ j # i
<1>1. CASE i = 0
    <2>1. Closed(r, i) = r
        BY <1>1 DEF Closed
    <2>2. \A j \in 1 .. Len(r) : r[j] \in TechnicianRow /\ j # i
        BY <1>1
    <2>3. \A j \in 1 .. Len(r) : r[j].active \in BOOLEAN
        BY <2>2 DEF TechnicianRow
    <2>. QED BY <2>1, <2>2, <2>3
<1>2. CASE i # 0
    <2>1. i \in 1 .. Len(r)
        BY <1>2
    <2>2. r[i] \in TechnicianRow
        BY <2>1
    <2>3. [r[i] EXCEPT !.active = FALSE] \in TechnicianRow
        BY <2>2 DEF TechnicianRow
    <2>4. Closed(r, i) = [r EXCEPT ![i] = [r[i] EXCEPT !.active = FALSE]]
        BY <1>2 DEF Closed
    <2>5. Closed(r, i) \in Seq(TechnicianRow) /\ Len(Closed(r, i)) = Len(r)
        BY <2>1, <2>3, <2>4, ExceptSeq
    <2>6. ASSUME NEW j \in 1 .. Len(r)
          PROVE Closed(r, i)[j].active <=> r[j].active /\ j # i
        <3>1. r[j] \in TechnicianRow /\ DOMAIN r = 1 .. Len(r)
            OBVIOUS
        <3>. QED BY <2>1, <2>4, <3>1 DEF TechnicianRow
    <2>. QED BY <2>5, <2>6
<1>. QED BY <1>1, <1>2

LEMMA NewRows ==
    ASSUME NEW us \in Seq(Techs)
    PROVE /\ Rows(us) \in Seq(TechnicianRow)
          /\ Len(Rows(us)) = Len(us)
          /\ \A k \in 1 .. Len(us) : Rows(us)[k].active = TRUE
<1>1. \A k \in 1 .. Len(us) : [user |-> us[k], active |-> TRUE] \in TechnicianRow
    BY DEF TechnicianRow
<1>2. Len(us) \in Nat
    OBVIOUS
<1>3. Rows(us) \in [1 .. Len(us) -> TechnicianRow]
    BY <1>1 DEF Rows
<1>4. Rows(us) \in Seq(TechnicianRow)
    BY <1>2, <1>3, SeqDef, Zenon
<1>d. DOMAIN Rows(us) = 1 .. Len(us) /\ DOMAIN Rows(us) = 1 .. Len(Rows(us))
    BY <1>4, LenProperties, Zenon DEF Rows
<1>n. Len(Rows(us)) \in Nat
    BY <1>4, LenProperties, Zenon
<1>5. Len(Rows(us)) = Len(us)
    BY <1>2, <1>d, <1>n
<1>6. \A k \in 1 .. Len(us) : Rows(us)[k].active = TRUE
    BY DEF Rows
<1>. QED BY <1>4, <1>5, <1>6

\* The rows of a ticket after a commit, and which of them are active.
LEMMA RowsAfter ==
    ASSUME NEW r \in Seq(TechnicianRow), NEW i \in 0 .. Len(r), NEW us \in Seq(Techs)
    PROVE /\ After(r, i, us) \in Seq(TechnicianRow)
          /\ Len(After(r, i, us)) = Len(r) + Len(us)
          /\ us = <<>> => ActiveRows(After(r, i, us)) = ActiveRows(r) \ {i}
          /\ i = 0 => ActiveRows(r) \subseteq ActiveRows(After(r, i, us))
          /\ us # <<>> => ActiveRows(After(r, i, us)) # {}
<1> DEFINE c == Closed(r, i)
           n == After(r, i, us)
<1>1. c \in Seq(TechnicianRow) /\ Len(c) = Len(r)
    BY ClosedRows
<1>2. \A j \in 1 .. Len(r) : c[j].active <=> r[j].active /\ j # i
    BY ClosedRows
<1>3. Rows(us) \in Seq(TechnicianRow) /\ Len(Rows(us)) = Len(us)
    BY NewRows
<1>4. \A k \in 1 .. Len(us) : Rows(us)[k].active = TRUE
    BY NewRows
<1>5. n = c \o Rows(us)
    BY DEF After
<1> HIDE DEF c, n
<1>s. n \in Seq(TechnicianRow) /\ Len(n) = Len(c) + Len(Rows(us))
    BY <1>1, <1>3, <1>5, ConcatProperties, Zenon
<1>6. n \in Seq(TechnicianRow) /\ Len(n) = Len(r) + Len(us)
    BY <1>1, <1>3, <1>s
<1>7. \A j \in 1 .. Len(r) : n[j] = c[j]
    BY <1>1, <1>3, <1>5
<1>8. Len(r) \in Nat /\ Len(us) \in Nat
    OBVIOUS
<1>9. us # <<>> => ActiveRows(n) # {}
    <2>1. SUFFICES ASSUME us # <<>> PROVE ActiveRows(n) # {}
        OBVIOUS
    <2>2. Len(us) > 0
        BY <2>1
    <2>3. n[Len(r) + 1] = Rows(us)[1]
        BY <1>1, <1>3, <1>5, <2>2
    <2>4. n[Len(r) + 1].active /\ Len(r) + 1 \in 1 .. Len(n)
        BY <1>4, <1>6, <1>8, <2>2, <2>3
    <2>. QED BY <2>4 DEF ActiveRows
<1>10. us = <<>> => ActiveRows(n) = ActiveRows(r) \ {i}
    <2>1. SUFFICES ASSUME us = <<>> PROVE ActiveRows(n) = ActiveRows(r) \ {i}
        OBVIOUS
    <2>2. Len(n) = Len(r)
        BY <1>6, <1>8, <2>1
    <2>. QED BY <1>2, <1>7, <2>2 DEF ActiveRows
<1>11. i = 0 => ActiveRows(r) \subseteq ActiveRows(n)
    <2>1. SUFFICES ASSUME i = 0, NEW j \in ActiveRows(r) PROVE j \in ActiveRows(n)
        OBVIOUS
    <2>2. j \in 1 .. Len(r) /\ r[j].active /\ j # i
        BY <2>1 DEF ActiveRows
    <2>3. n[j].active /\ j \in 1 .. Len(n)
        BY <1>2, <1>6, <1>7, <1>8, <2>2
    <2>. QED BY <2>3 DEF ActiveRows
<1>. QED BY <1>6, <1>9, <1>10, <1>11 DEF n

-----------------------------------------------------------------------------
(* Types.                                                                   *)

LEMMA ColumnsTyped ==
    ASSUME NEW v \in TicketRow, NEW s \in TicketRow, NEW w \in TicketRow
    PROVE ChangedColumns(v, s, w) \in TicketRow
BY DEF ChangedColumns, TicketRow

\* A session in flight is at a ticket, and the row it is about to close exists.
InFlight ==
    \A p \in Sessions : session[p].phase # "idle" =>
       /\ session[p].ticket \in Tickets
       /\ session[p].op \in Ops
       /\ session[p].close \in 0 .. Len(rows[session[p].ticket])

LEMMA MaintTypeInit == MaintInit => TypeOK /\ InFlight
<1>1. Absent \in TicketRow
    BY DEF Absent, TicketRow, Status
<1>2. Idle \in SessionRecord
    BY <1>1, MaintBounds DEF Idle, SessionRecord
<1>3. MaintInit => TypeOK
    BY <1>1, <1>2, MaintBounds, MaintRegimes DEF MaintInit, TypeOK
<1>. QED BY <1>3 DEF MaintInit, InFlight, Idle

LEMMA MaintTypeStep ==
    ASSUME TypeOK, InFlight, [MaintNext]_mvars
    PROVE TypeOK' /\ InFlight'
<1>1. CASE UNCHANGED mvars
    BY <1>1 DEF TypeOK, InFlight, mvars
<1>2. ASSUME MaintNext PROVE TypeOK' /\ InFlight'
    <2>a. Absent \in TicketRow
        BY DEF Absent, TicketRow, Status
    <2>i. Idle \in SessionRecord /\ Idle.phase = "idle"
        BY <2>a, MaintBounds DEF Idle, SessionRecord
    <2>l. \A t \in Tickets : Len(rows[t]) \in Nat /\ Len(rows[t]) <= MaxRows
        BY DEF TypeOK
    <2>1. PICK p \in Sessions :
             \/ Commit(p)
             \/ Abort(p)
             \/ PickNew(p)
             \/ PickRow(p)
             \/ \E t \in Tickets, op \in Ops, ph \in Phases2, w \in TicketRow, a \in Seq(Techs) :
                   ReadShape(p, t, op, ph, w, a)
        BY <1>2, Shapes
    <2>2. CASE Commit(p)
        <3> DEFINE s == session[p]
                   r == After(rows[s.ticket], s.close, s.add)
        <3>1. /\ s \in SessionRecord /\ s.ticket \in Tickets /\ s.snap \in TicketRow
              /\ s.want \in TicketRow /\ s.add \in Seq(Techs)
              /\ s.close \in 0 .. Len(rows[s.ticket])
              /\ rows[s.ticket] \in Seq(TechnicianRow)
            BY <2>2 DEF Commit, TypeOK, InFlight, SessionRecord
        <3>2. ticket' \in [Tickets -> TicketRow]
            BY <2>2, <3>1, ColumnsTyped DEF Commit, TypeOK
        <3>3. session' = [session EXCEPT ![p] = Idle] /\ session' \in [Sessions -> SessionRecord]
            BY <2>2, <2>i DEF Commit, TypeOK
        <3>4. rows' = [rows EXCEPT ![s.ticket] = r]
            BY <2>2 DEF Commit, After
        <3>5. r \in Seq(TechnicianRow) /\ Len(r) = Len(rows[s.ticket]) + Len(s.add)
            <4> DEFINE now == rows[s.ticket]
                       i == s.close
                       us == s.add
            <4>1. now \in Seq(TechnicianRow) /\ i \in 0 .. Len(now) /\ us \in Seq(Techs)
                BY <3>1
            <4> HIDE DEF now, i, us, s
            <4>2. /\ After(now, i, us) \in Seq(TechnicianRow)
                  /\ Len(After(now, i, us)) = Len(now) + Len(us)
                BY <4>1, RowsAfter
            <4>. QED BY <4>2 DEF now, i, us
        <3> HIDE DEF r
        <3>6. Len(rows[s.ticket]) + Len(s.add) <= MaxRows
            BY <2>2 DEF Commit
        <3>a. /\ Len(r) \in Nat /\ Len(r) <= MaxRows /\ Len(r) >= Len(rows[s.ticket])
            <4>1. Len(rows[s.ticket]) \in Nat /\ Len(s.add) \in Nat
                BY <3>1
            <4> DEFINE old == Len(rows[s.ticket])
                       new == Len(s.add)
            <4>2. old \in Nat /\ new \in Nat /\ Len(r) = old + new /\ old + new <= MaxRows
                BY <3>5, <3>6, <4>1
            <4> HIDE DEF old, new
            <4>3. Len(r) \in Nat /\ Len(r) <= MaxRows /\ Len(r) >= old
                BY <4>2, MaintBounds
            <4>. QED BY <4>3 DEF old
        <3>7. TypeOK'
            <4>1. rows' \in [Tickets -> Seq(TechnicianRow)]
                BY <3>4, <3>5 DEF TypeOK
            <4>2. \A t \in Tickets : Len(rows'[t]) <= MaxRows
                BY <3>4, <3>a DEF TypeOK
            <4>3. regime' = regime
                BY <2>2 DEF Commit
            <4>. QED BY <3>2, <3>3, <4>1, <4>2, <4>3 DEF TypeOK
        <3>8. \A t \in Tickets : Len(rows'[t]) \in Nat /\ Len(rows'[t]) >= Len(rows[t])
            BY <3>1, <3>4, <3>a, <2>l DEF TypeOK
        <3>9. InFlight'
            BY <3>3, <3>8, <2>l, <2>i DEF InFlight, TypeOK
        <3>. QED BY <3>7, <3>9
    <2>3. CASE Abort(p)
        BY <2>3, <2>i DEF Abort, TypeOK, InFlight
    <2>4. CASE PickNew(p)
        <3> DEFINE s == session[p]
                   w == [s.want EXCEPT !.status = IF @ = "PENDING" THEN "ASSIGNED" ELSE @]
                   new == NewTechs(s.add, rows[s.ticket])
        <3>0. PICK n \in 1 .. Len(s.add) : \E f \in [1 .. n -> new] :
                 session' = [session EXCEPT ![p] =
                    [s EXCEPT !.phase = "commit", !.add = [a \in 1 .. n |-> s.add[f[a]]],
                              !.want = w]]
            BY <2>4 DEF PickNew
        <3>1. PICK f \in [1 .. n -> new] :
                 session' = [session EXCEPT ![p] =
                    [s EXCEPT !.phase = "commit", !.add = [a \in 1 .. n |-> s.add[f[a]]],
                              !.want = w]]
            BY <3>0
        <3>2. s \in SessionRecord /\ s.phase = "rows" /\ s.add \in Seq(Techs) /\ s.want \in TicketRow
            BY <2>4 DEF PickNew, TypeOK, SessionRecord
        <3> DEFINE add == [a \in 1 .. n |-> s.add[f[a]]]
        <3>3. add \in [1 .. n -> Techs]
            BY <3>1, <3>2 DEF NewTechs
        <3>4. n \in Nat
            BY <3>0
        <3>5. add \in Seq(Techs)
            BY <3>3, <3>4, SeqDef, Zenon
        <3>6. w \in TicketRow
            BY <3>2 DEF TicketRow, Status, Unresolved, InWork
        <3> HIDE DEF add, w
        <3>7. [s EXCEPT !.phase = "commit", !.add = add, !.want = w] \in SessionRecord
            BY <3>2, <3>5, <3>6 DEF SessionRecord
        <3>8. session' = [session EXCEPT ![p] =
                             [s EXCEPT !.phase = "commit", !.add = add, !.want = w]]
            BY <3>1 DEF add, w
        <3>9. UNCHANGED <<ticket, rows, regime>>
            BY <2>4 DEF PickNew
        <3>10. TypeOK'
            BY <3>7, <3>8, <3>9 DEF TypeOK
        <3>11. /\ session'[p].ticket = s.ticket /\ session'[p].close = s.close
               /\ session'[p].op = s.op
            BY <3>2, <3>8 DEF TypeOK, SessionRecord
        <3>12. \A q \in Sessions \ {p} : session'[q] = session[q]
            BY <3>8 DEF TypeOK
        <3>13. InFlight'
            BY <3>2, <3>9, <3>11, <3>12 DEF InFlight
        <3>. QED BY <3>10, <3>13
    <2>5. CASE PickRow(p)
        <3> DEFINE s == session[p]
                   r == rows[s.ticket]
        <3>1. PICK i \in ActiveRows(r) :
                 session' = [session EXCEPT ![p] =
                    [s EXCEPT !.phase = "commit", !.add = <<>>, !.close = i,
                              !.want.status = IF ActiveRows(r) = {i} THEN "PENDING" ELSE @]]
            BY <2>5 DEF PickRow
        <3>2. /\ s \in SessionRecord /\ s.phase = "rows" /\ s.want \in TicketRow
              /\ s.ticket \in Tickets
            BY <2>5 DEF PickRow, TypeOK, SessionRecord, InFlight
        <3>3. i \in 0 .. Len(r) /\ i \in 0 .. MaxRows
            BY <3>2, <2>l, MaintBounds DEF ActiveRows
        <3> DEFINE x == IF ActiveRows(r) = {i} THEN "PENDING" ELSE s.want.status
        <3>4. x \in Status
            BY <3>2 DEF TicketRow, Status, Unresolved
        <3>5. [s EXCEPT !.phase = "commit", !.add = <<>>, !.close = i, !.want.status = x]
                 \in SessionRecord
            <4> HIDE DEF x
            <4>1. [s.want EXCEPT !.status = x] \in TicketRow
                BY <3>2, <3>4 DEF TicketRow
            <4>2. <<>> \in Seq(Techs)
                OBVIOUS
            <4>. QED BY <3>2, <3>3, <4>1, <4>2 DEF SessionRecord
        <3>6. session' = [session EXCEPT ![p] =
                 [s EXCEPT !.phase = "commit", !.add = <<>>, !.close = i, !.want.status = x]]
            BY <3>1
        <3> HIDE DEF x
        <3>7. UNCHANGED <<ticket, rows, regime>>
            BY <2>5 DEF PickRow
        <3>8. TypeOK'
            BY <3>5, <3>6, <3>7 DEF TypeOK
        <3>9. /\ session'[p].ticket = s.ticket /\ session'[p].close = i
              /\ session'[p].op = s.op
            BY <3>2, <3>6 DEF TypeOK, SessionRecord
        <3>10. \A q \in Sessions \ {p} : session'[q] = session[q]
            BY <3>6 DEF TypeOK
        <3>11. InFlight'
            BY <3>2, <3>3, <3>7, <3>9, <3>10 DEF InFlight
        <3>. QED BY <3>8, <3>11
    <2>6. CASE \E t \in Tickets, op \in Ops, ph \in Phases2, w \in TicketRow, a \in Seq(Techs) :
                  ReadShape(p, t, op, ph, w, a)
        <3>1. PICK t \in Tickets, op \in Ops, ph \in Phases2, w \in TicketRow, a \in Seq(Techs) :
                  ReadShape(p, t, op, ph, w, a)
            BY <2>6
        <3> DEFINE n == [phase |-> ph, op |-> op, ticket |-> t, snap |-> ticket[t], want |-> w,
                         add |-> a, close |-> 0]
        <3>2. n \in SessionRecord /\ n.ticket = t /\ n.close = 0 /\ n.op = op
            BY <3>1, MaintBounds DEF TypeOK, SessionRecord, Ops, Phases2
        <3>3. session' = [session EXCEPT ![p] = n] /\ UNCHANGED <<ticket, rows, regime>>
            BY <3>1 DEF ReadShape, Read
        <3> HIDE DEF n
        <3>. QED BY <3>2, <3>3, <2>l DEF TypeOK, InFlight
    <2>. QED BY <2>1, <2>2, <2>3, <2>4, <2>5, <2>6
<1>. QED BY <1>1, <1>2

\* The tickets, the rows of their technicians and the sessions keep their types.
THEOREM MaintTypeCorrect == MaintSpec => []TypeOK
<1>1. TypeOK /\ InFlight /\ [MaintNext]_mvars => (TypeOK /\ InFlight)'
    BY MaintTypeStep
<1>. QED BY MaintTypeInit, <1>1, PTL DEF MaintSpec

-----------------------------------------------------------------------------
(* The technicians of a ticket in work.                                     *)

\* The row v of a ticket and the rows r of its technicians agree.
TicketSound(v, r) ==
    /\ v.status \in InWork => ActiveRows(r) # {}
    /\ v.status \in Fresh => ActiveRows(r) = {}
    /\ v.status = "NONE" => v.files = "kept"

\* A session s that does not remove anybody.
JoinSound(s) ==
    /\ s.close = 0
    /\ s.op = "assign" => s.snap.status \in Unresolved
    /\ s.phase = "rows" => s.op = "assign" /\ s.want = s.snap
    /\ s.phase = "commit" =>
          IF s.op = "assign"
          THEN s.add # <<>> /\ s.want.status \in InWork
          ELSE /\ s.add = <<>>
               /\ s.want.status \in InWork => s.snap.status \in InWork
               /\ s.want.status \in Fresh => s.snap.status \in Fresh

\* A session s that removes a technician of a ticket with the rows r.
LeaveSound(s, r) ==
    /\ s.snap.status \in InWork
    /\ s.phase = "rows" => s.want = s.snap /\ s.close = 0
    /\ s.phase = "commit" =>
          /\ s.add = <<>> /\ s.close \in ActiveRows(r)
          /\ s.want.status = IF ActiveRows(r) = {s.close} THEN "PENDING" ELSE s.snap.status

\* What a session s may count on, v being the ticket it is at and r its rows.
SessionSound(s, v, r) ==
    /\ IF s.op = "unassign" THEN LeaveSound(s, r) /\ v.status = s.snap.status ELSE JoinSound(s)
    /\ IF s.snap.status = "NONE"
       THEN s.op = "other" /\ v.status = "NONE" /\ s.want.status = "PENDING"
       ELSE v.status # "NONE" /\ s.want.status # "NONE"
    /\ s.snap.status \in InWork => v.status \notin Fresh /\ ActiveRows(r) # {}

\* Two sessions at one ticket: nobody is created or removed there, and it is not their turn.
Together(p, q) ==
    /\ regime # "turns"
    /\ session[p].op # "unassign" /\ session[q].op # "unassign"
    /\ session[p].snap.status # "NONE" /\ session[q].snap.status # "NONE"

Steady ==
    regime # "overlap" =>
       /\ \A t \in Tickets : TicketSound(ticket[t], rows[t])
       /\ \A p \in Sessions : session[p].phase # "idle" =>
             SessionSound(session[p], ticket[session[p].ticket], rows[session[p].ticket])
       /\ \A p, q \in Sessions :
             (/\ p # q /\ session[p].phase # "idle" /\ session[q].phase # "idle"
              /\ session[p].ticket = session[q].ticket) => Together(p, q)

\* A commit of a session that keeps everybody leaves the ticket sound, and the other
\* sessions at the ticket with what they count on.
LEMMA JoinCommit ==
    ASSUME NEW v \in TicketRow, NEW r \in Seq(TechnicianRow), NEW s \in SessionRecord,
           s.op # "unassign", s.phase = "commit", SessionSound(s, v, r), TicketSound(v, r)
    PROVE /\ TicketSound(ChangedColumns(v, s.snap, s.want), After(r, s.close, s.add))
          /\ ActiveRows(r) \subseteq ActiveRows(After(r, s.close, s.add))
          /\ s.snap.status # "NONE" =>
                /\ ChangedColumns(v, s.snap, s.want).status # "NONE"
                /\ v.status \notin Fresh => ChangedColumns(v, s.snap, s.want).status \notin Fresh
<1> DEFINE w == ChangedColumns(v, s.snap, s.want)
           n == After(r, s.close, s.add)
<1>1. /\ s.close = 0 /\ s.add \in Seq(Techs) /\ 0 \in 0 .. Len(r)
      /\ s.want \in TicketRow /\ s.snap \in TicketRow
    BY DEF SessionSound, JoinSound, SessionRecord
<1>2. /\ s.add = <<>> => ActiveRows(n) = ActiveRows(r) \ {0}
      /\ ActiveRows(r) \subseteq ActiveRows(n)
      /\ s.add # <<>> => ActiveRows(n) # {}
    BY <1>1, RowsAfter
<1>3. s.add = <<>> => ActiveRows(n) = ActiveRows(r)
    BY <1>2 DEF ActiveRows
<1> HIDE DEF n
<1>4. /\ w.status = IF s.want.status = s.snap.status THEN v.status ELSE s.want.status
      /\ w.files = IF s.want.files = s.snap.files THEN v.files ELSE s.want.files
    BY DEF ChangedColumns
<1>5. w \in TicketRow /\ v.status \in Status /\ s.want.status \in Status
    BY <1>1, ColumnsTyped DEF TicketRow
<1> HIDE DEF w
<1>6. CASE s.snap.status = "NONE"
    <2>1. s.op = "other" /\ v.status = "NONE" /\ s.want.status = "PENDING" /\ s.add = <<>>
        BY <1>6 DEF SessionSound, JoinSound
    <2>2. w.status = "PENDING" /\ ActiveRows(n) = {}
        BY <1>3, <1>4, <1>6, <2>1 DEF TicketSound, Fresh
    <2>3. TicketSound(w, n)
        BY <2>2 DEF TicketSound, InWork, Fresh
    <2>. QED BY <1>2, <1>6, <2>3 DEF w, n
<1>7. CASE s.snap.status # "NONE"
    <2>1. v.status # "NONE" /\ s.want.status # "NONE"
        BY <1>7 DEF SessionSound
    <2>2. w.status # "NONE"
        BY <1>4, <2>1
    <2>3. s.want.status \in Fresh => s.want.status = "PENDING"
        BY <2>1 DEF Fresh
    <2>4. v.status \notin Fresh => w.status \notin Fresh
        <3>1. SUFFICES ASSUME v.status \notin Fresh, s.want.status # s.snap.status
                       PROVE s.want.status \notin Fresh
            BY <1>4
        <3>2. CASE s.op = "assign"
            BY <3>2 DEF SessionSound, JoinSound, InWork, Fresh
        <3>3. CASE s.op # "assign"
            BY <1>7, <2>1, <3>1, <3>3 DEF SessionSound, JoinSound, Fresh
        <3>. QED BY <3>2, <3>3
    <2>5. w.status \in InWork => ActiveRows(n) # {}
        <3>1. SUFFICES ASSUME w.status \in InWork PROVE ActiveRows(n) # {}
            OBVIOUS
        <3>2. CASE s.want.status = s.snap.status
            <4>1. ActiveRows(r) # {}
                BY <1>4, <3>1, <3>2 DEF TicketSound
            <4>. QED BY <1>2, <4>1
        <3>3. CASE s.want.status # s.snap.status /\ s.add = <<>>
            <4>1. s.op # "assign" /\ s.want.status \in InWork
                BY <1>4, <3>1, <3>3 DEF SessionSound, JoinSound
            <4>2. s.snap.status \in InWork
                BY <4>1 DEF SessionSound, JoinSound
            <4>3. ActiveRows(r) # {}
                BY <4>2 DEF SessionSound
            <4>. QED BY <1>2, <4>3
        <3>4. CASE s.add # <<>>
            BY <1>2, <3>4
        <3>. QED BY <3>2, <3>3, <3>4
    <2>6. w.status \in Fresh => ActiveRows(n) = {}
        <3>1. SUFFICES ASSUME w.status \in Fresh PROVE ActiveRows(n) = {}
            OBVIOUS
        <3>2. v.status \in Fresh
            BY <2>4, <3>1
        <3>3. ActiveRows(r) = {} /\ s.snap.status \notin InWork
            BY <3>2 DEF TicketSound, SessionSound
        <3>4. CASE s.op = "assign"
            <4>1. s.want.status \in InWork /\ s.want.status # s.snap.status
                BY <3>3, <3>4 DEF SessionSound, JoinSound
            <4>. QED BY <1>4, <3>1, <4>1 DEF InWork, Fresh
        <3>5. CASE s.op # "assign"
            <4>1. s.add = <<>>
                BY <3>5 DEF SessionSound, JoinSound
            <4>. QED BY <1>3, <3>3, <4>1
        <3>. QED BY <3>4, <3>5
    <2>7. TicketSound(w, n)
        BY <2>2, <2>5, <2>6 DEF TicketSound
    <2>. QED BY <1>2, <2>2, <2>4, <2>7 DEF w, n
<1>. QED BY <1>6, <1>7

\* So does the commit of a session that removes somebody and is alone at the ticket.
LEMMA LeaveCommit ==
    ASSUME NEW v \in TicketRow, NEW r \in Seq(TechnicianRow), NEW s \in SessionRecord,
           s.op = "unassign", s.phase = "commit", SessionSound(s, v, r), TicketSound(v, r)
    PROVE TicketSound(ChangedColumns(v, s.snap, s.want), After(r, s.close, s.add))
<1> DEFINE w == ChangedColumns(v, s.snap, s.want)
           n == After(r, s.close, s.add)
<1>1. /\ s.add = <<>> /\ s.close \in ActiveRows(r) /\ s.add \in Seq(Techs)
      /\ s.want.status = IF ActiveRows(r) = {s.close} THEN "PENDING" ELSE s.snap.status
      /\ s.snap.status \in InWork /\ v.status = s.snap.status
    BY DEF SessionSound, LeaveSound, SessionRecord
<1>2. s.close \in 0 .. Len(r)
    BY <1>1 DEF ActiveRows
<1>3. ActiveRows(n) = ActiveRows(r) \ {s.close}
    BY <1>1, <1>2, RowsAfter
<1> HIDE DEF n
<1>4. w.status = IF s.want.status = s.snap.status THEN v.status ELSE s.want.status
    BY DEF ChangedColumns
<1> HIDE DEF w
<1>5. w.status = s.want.status
    BY <1>1, <1>4
<1>6. CASE ActiveRows(r) = {s.close}
    BY <1>1, <1>3, <1>5, <1>6 DEF TicketSound, InWork, n, w
<1>7. CASE ActiveRows(r) # {s.close}
    <2>1. ActiveRows(n) # {} /\ w.status \in InWork
        BY <1>1, <1>3, <1>5, <1>7
    <2>. QED BY <2>1 DEF TicketSound, InWork, Fresh, n, w
<1>. QED BY <1>6, <1>7

\* What another session at the ticket counts on outlives such a commit.
LEMMA OthersKeep ==
    ASSUME NEW s, NEW v, NEW r, NEW v2, NEW r2,
           SessionSound(s, v, r), s.op # "unassign", s.snap.status # "NONE",
           v2.status # "NONE", v.status \notin Fresh => v2.status \notin Fresh,
           ActiveRows(r) \subseteq ActiveRows(r2)
    PROVE SessionSound(s, v2, r2)
BY DEF SessionSound

LEMMA SteadyStep ==
    ASSUME TypeOK, InFlight, Steady, MaintNext
    PROVE Steady'
<1>. SUFFICES ASSUME regime' # "overlap"
              PROVE /\ \A t \in Tickets : TicketSound(ticket'[t], rows'[t])
                    /\ \A q \in Sessions : session'[q].phase # "idle" =>
                          SessionSound(session'[q], ticket'[session'[q].ticket],
                                       rows'[session'[q].ticket])
                    /\ \A q, o \in Sessions :
                          (/\ q # o /\ session'[q].phase # "idle" /\ session'[o].phase # "idle"
                           /\ session'[q].ticket = session'[o].ticket) => Together(q, o)'
    BY DEF Steady
<1>1. PICK p \in Sessions :
         \/ Commit(p)
         \/ Abort(p)
         \/ PickNew(p)
         \/ PickRow(p)
         \/ \E t \in Tickets, op \in Ops, ph \in Phases2, w \in TicketRow, a \in Seq(Techs) :
               ReadShape(p, t, op, ph, w, a)
    BY Shapes
<1>r. regime' = regime
    BY <1>1 DEF Commit, Abort, PickNew, PickRow, ReadShape, Read
<1>i. /\ \A t \in Tickets : TicketSound(ticket[t], rows[t])
      /\ \A q \in Sessions : session[q].phase # "idle" =>
            SessionSound(session[q], ticket[session[q].ticket], rows[session[q].ticket])
    BY <1>r DEF Steady
<1>o. \A q, o \in Sessions :
         (/\ q # o /\ session[q].phase # "idle" /\ session[o].phase # "idle"
          /\ session[q].ticket = session[o].ticket) => Together(q, o)
    BY <1>r DEF Steady
<1>x. Idle.phase = "idle"
    BY DEF Idle
<1>2. CASE Commit(p)
    <2> DEFINE s == session[p]
               k == s.ticket
               w == ChangedColumns(ticket[k], s.snap, s.want)
               n == After(rows[k], s.close, s.add)
    <2>1. /\ s.phase = "commit" /\ k \in Tickets /\ s \in SessionRecord
          /\ ticket[k] \in TicketRow /\ rows[k] \in Seq(TechnicianRow)
        BY <1>2 DEF Commit, TypeOK, InFlight
    <2>2. SessionSound(s, ticket[k], rows[k]) /\ TicketSound(ticket[k], rows[k])
        BY <1>i, <2>1
    <2>3. /\ ticket' = [ticket EXCEPT ![k] = w]
          /\ rows' = [rows EXCEPT ![k] = n]
          /\ session' = [session EXCEPT ![p] = Idle]
        BY <1>2 DEF Commit, After
    <2>4. TicketSound(w, n)
        <3>1. CASE s.op = "unassign"
            BY <2>1, <2>2, <3>1, LeaveCommit
        <3>2. CASE s.op # "unassign"
            BY <2>1, <2>2, <3>2, JoinCommit
        <3>. QED BY <3>1, <3>2
    <2>j. s.op # "unassign" =>
             /\ ActiveRows(rows[k]) \subseteq ActiveRows(n)
             /\ s.snap.status # "NONE" =>
                   w.status # "NONE" /\ (ticket[k].status \notin Fresh => w.status \notin Fresh)
        BY <2>1, <2>2, JoinCommit
    <2>k. ticket'[k] = w /\ rows'[k] = n
        BY <2>1, <2>3 DEF TypeOK
    <2>u. \A t \in Tickets \ {k} : ticket'[t] = ticket[t] /\ rows'[t] = rows[t]
        BY <2>1, <2>3 DEF TypeOK
    <2>s. \A q \in Sessions : session'[q].phase # "idle" => q # p /\ session'[q] = session[q]
        BY <1>x, <2>3 DEF TypeOK
    <2> HIDE DEF w, n
    <2>5. \A t \in Tickets : TicketSound(ticket'[t], rows'[t])
        BY <1>i, <2>4, <2>k, <2>u
    <2>6. ASSUME NEW q \in Sessions, session'[q].phase # "idle"
          PROVE SessionSound(session'[q], ticket'[session'[q].ticket], rows'[session'[q].ticket])
        <3>1. q # p /\ session'[q] = session[q] /\ session[q].phase # "idle"
            BY <2>6, <2>s
        <3>2. /\ session[q].ticket \in Tickets
              /\ SessionSound(session[q], ticket[session[q].ticket], rows[session[q].ticket])
            BY <1>i, <3>1 DEF InFlight
        <3>3. CASE session[q].ticket = k
            <4>1. Together(q, p)
                BY <1>o, <2>1, <3>1, <3>3
            <4>2. /\ session[q].op # "unassign" /\ s.op # "unassign"
                  /\ session[q].snap.status # "NONE" /\ s.snap.status # "NONE"
                BY <4>1 DEF Together
            <4>3. SessionSound(session[q], w, n)
                BY <2>j, <3>2, <3>3, <4>2, OthersKeep
            <4>. QED BY <2>k, <3>1, <3>3, <4>3
        <3>4. CASE session[q].ticket # k
            BY <2>u, <3>1, <3>2, <3>4
        <3>. QED BY <3>3, <3>4
    <2>7. ASSUME NEW q \in Sessions, NEW o \in Sessions, q # o, session'[q].phase # "idle",
                 session'[o].phase # "idle", session'[q].ticket = session'[o].ticket
          PROVE Together(q, o)'
        <3>1. session'[q] = session[q] /\ session'[o] = session[o]
            BY <2>7, <2>s
        <3>2. Together(q, o)
            BY <1>o, <2>7, <3>1
        <3>. QED BY <1>r, <3>1, <3>2 DEF Together
    <2>. QED BY <2>5, <2>6, <2>7
<1>3. CASE Abort(p)
    <2>1. /\ session' = [session EXCEPT ![p] = Idle] /\ ticket' = ticket /\ rows' = rows
        BY <1>3 DEF Abort
    <2>2. \A q \in Sessions : session'[q].phase # "idle" => session'[q] = session[q]
        BY <1>x, <2>1 DEF TypeOK
    <2>3. ASSUME NEW q \in Sessions, NEW o \in Sessions, q # o, session'[q].phase # "idle",
                 session'[o].phase # "idle", session'[q].ticket = session'[o].ticket
          PROVE Together(q, o)'
        BY <1>r, <1>o, <2>2, <2>3 DEF Together
    <2>. QED BY <1>i, <2>1, <2>2, <2>3
<1>4. CASE PickNew(p)
    <2> DEFINE s == session[p]
               w == [s.want EXCEPT !.status = IF @ = "PENDING" THEN "ASSIGNED" ELSE @]
               new == NewTechs(s.add, rows[s.ticket])
    <2>0. PICK m \in 1 .. Len(s.add) : \E f \in [1 .. m -> new] :
             session' = [session EXCEPT ![p] =
                [s EXCEPT !.phase = "commit", !.add = [a \in 1 .. m |-> s.add[f[a]]],
                          !.want = w]]
        BY <1>4 DEF PickNew
    <2>1. PICK f \in [1 .. m -> new] :
             session' = [session EXCEPT ![p] =
                [s EXCEPT !.phase = "commit", !.add = [a \in 1 .. m |-> s.add[f[a]]],
                          !.want = w]]
        BY <2>0
    <2> DEFINE add == [a \in 1 .. m |-> s.add[f[a]]]
    <2>2. /\ s \in SessionRecord /\ s.phase = "rows" /\ s.op = "assign" /\ s.want \in TicketRow
          /\ UNCHANGED <<ticket, rows>>
        BY <1>4 DEF PickNew, TypeOK, SessionRecord
    <2>3. add # <<>>
        <3>1. DOMAIN add = 1 .. m /\ 1 \in 1 .. m
            BY <2>0
        <3>2. DOMAIN <<>> = {}
            OBVIOUS
        <3> HIDE DEF add
        <3>. QED BY <3>1, <3>2
    <2>4. SessionSound(s, ticket[s.ticket], rows[s.ticket])
        BY <1>i, <2>2
    <2>5. s.snap.status \in Unresolved /\ s.want = s.snap /\ s.close = 0
        BY <2>2, <2>4 DEF SessionSound, JoinSound
    <2>6. w.status \in InWork
        BY <2>2, <2>5 DEF TicketRow, Unresolved, InWork
    <2>7. session' = [session EXCEPT ![p] = [s EXCEPT !.phase = "commit", !.add = add, !.want = w]]
        BY <2>1
    <2> HIDE DEF add, w
    <2>8. /\ session'[p].ticket = s.ticket /\ session'[p].close = s.close
          /\ session'[p].op = s.op /\ session'[p].snap = s.snap /\ session'[p].add = add
          /\ session'[p].want = w /\ session'[p].phase = "commit"
        BY <2>2, <2>7 DEF TypeOK, SessionRecord
    <2>9. \A q \in Sessions \ {p} : session'[q] = session[q]
        BY <2>7 DEF TypeOK
    <2>10. SessionSound(session'[p], ticket[s.ticket], rows[s.ticket])
        BY <2>2, <2>3, <2>4, <2>5, <2>6, <2>8 DEF SessionSound, JoinSound, InWork
    <2>11. \A q \in Sessions :
              /\ session'[q].ticket = session[q].ticket /\ session'[q].op = session[q].op
              /\ session'[q].snap = session[q].snap
              /\ session'[q].phase # "idle" => session[q].phase # "idle"
        BY <2>2, <2>8, <2>9
    <2>12. ASSUME NEW q \in Sessions, NEW o \in Sessions, q # o, session'[q].phase # "idle",
                 session'[o].phase # "idle", session'[q].ticket = session'[o].ticket
          PROVE Together(q, o)'
        BY <1>r, <1>o, <2>11, <2>12 DEF Together
    <2>13. ASSUME NEW q \in Sessions, session'[q].phase # "idle"
           PROVE SessionSound(session'[q], ticket'[session'[q].ticket], rows'[session'[q].ticket])
        <3>1. CASE q = p
            BY <2>2, <2>8, <2>10, <3>1
        <3>2. CASE q # p
            BY <1>i, <2>2, <2>9, <2>13, <3>2
        <3>. QED BY <3>1, <3>2
    <2>. QED BY <1>i, <2>2, <2>12, <2>13
<1>5. CASE PickRow(p)
    <2> DEFINE s == session[p]
               r == rows[s.ticket]
    <2>1. PICK i \in ActiveRows(r) :
             session' = [session EXCEPT ![p] =
                [s EXCEPT !.phase = "commit", !.add = <<>>, !.close = i,
                          !.want.status = IF ActiveRows(r) = {i} THEN "PENDING" ELSE @]]
        BY <1>5 DEF PickRow
    <2>2. /\ s \in SessionRecord /\ s.phase = "rows" /\ s.op = "unassign" /\ s.want \in TicketRow
          /\ UNCHANGED <<ticket, rows>>
        BY <1>5 DEF PickRow, TypeOK, SessionRecord
    <2>3. SessionSound(s, ticket[s.ticket], r)
        BY <1>i, <2>2
    <2>4. s.snap.status \in InWork /\ s.want = s.snap
        BY <2>2, <2>3 DEF SessionSound, LeaveSound
    <2> DEFINE x == IF ActiveRows(r) = {i} THEN "PENDING" ELSE s.want.status
               w == [s.want EXCEPT !.status = x]
    <2>5. w.status = x
        BY <2>2 DEF TicketRow
    <2>6. session' = [session EXCEPT ![p] =
                         [s EXCEPT !.phase = "commit", !.add = <<>>, !.close = i, !.want = w]]
        BY <2>1
    <2> HIDE DEF w
    <2>7. /\ session'[p].ticket = s.ticket /\ session'[p].close = i
          /\ session'[p].op = s.op /\ session'[p].snap = s.snap /\ session'[p].add = <<>>
          /\ session'[p].want = w /\ session'[p].phase = "commit"
        BY <2>2, <2>6 DEF TypeOK, SessionRecord
    <2>8. \A q \in Sessions \ {p} : session'[q] = session[q]
        BY <2>6 DEF TypeOK
    <2>9. LeaveSound(session'[p], r)
        BY <2>1, <2>4, <2>5, <2>7 DEF LeaveSound
    <2>10. x # "NONE" /\ s.snap.status # "NONE"
        BY <2>4 DEF InWork
    <2>11. SessionSound(session'[p], ticket[s.ticket], r)
        BY <2>2, <2>3, <2>5, <2>7, <2>9, <2>10 DEF SessionSound
    <2>12. \A q \in Sessions :
              /\ session'[q].ticket = session[q].ticket /\ session'[q].op = session[q].op
              /\ session'[q].snap = session[q].snap
              /\ session'[q].phase # "idle" => session[q].phase # "idle"
        BY <2>2, <2>7, <2>8
    <2>13. ASSUME NEW q \in Sessions, NEW o \in Sessions, q # o, session'[q].phase # "idle",
                 session'[o].phase # "idle", session'[q].ticket = session'[o].ticket
          PROVE Together(q, o)'
        BY <1>r, <1>o, <2>12, <2>13 DEF Together
    <2>14. ASSUME NEW q \in Sessions, session'[q].phase # "idle"
           PROVE SessionSound(session'[q], ticket'[session'[q].ticket], rows'[session'[q].ticket])
        <3>1. CASE q = p
            BY <2>2, <2>7, <2>11, <3>1
        <3>2. CASE q # p
            BY <1>i, <2>2, <2>8, <2>14, <3>2
        <3>. QED BY <3>1, <3>2
    <2>. QED BY <1>i, <2>2, <2>13, <2>14
<1>6. CASE \E t \in Tickets, op \in Ops, ph \in Phases2, w \in TicketRow, a \in Seq(Techs) :
              ReadShape(p, t, op, ph, w, a)
    <2>1. PICK t \in Tickets, op \in Ops, ph \in Phases2, w \in TicketRow, a \in Seq(Techs) :
              ReadShape(p, t, op, ph, w, a)
        BY <1>6
    <2> DEFINE n == [phase |-> ph, op |-> op, ticket |-> t, snap |-> ticket[t], want |-> w,
                     add |-> a, close |-> 0]
               v == ticket[t]
    <2>2. session' = [session EXCEPT ![p] = n] /\ UNCHANGED <<ticket, rows>> /\ MayStart(p, t, op)
        BY <2>1 DEF ReadShape, Read
    <2>3. /\ n.phase = ph /\ n.op = op /\ n.ticket = t /\ n.snap = v /\ n.want = w /\ n.add = a
          /\ n.close = 0
        OBVIOUS
    <2>4. session'[p] = n /\ \A q \in Sessions \ {p} : session'[q] = session[q]
        BY <2>2 DEF TypeOK
    <2> HIDE DEF n
    <2>5. /\ TicketSound(v, rows[t]) /\ v \in TicketRow
        BY <1>i, <2>1 DEF TypeOK
    <2>6. \/ /\ op = "other" /\ ph = "commit" /\ a = <<>> /\ PlainWant(v, w)
             /\ v.status = "NONE" => \A q \in Sessions : session[q].ticket # t
          \/ op = "assign" /\ ph = "rows" /\ w = v /\ v.status \in Unresolved
          \/ op = "unassign" /\ ph = "rows" /\ w = v /\ v.status \in InWork
        BY <2>1, <2>5 DEF ReadShape, TicketSound
    <2>7. SessionSound(n, v, rows[t])
        <3>1. v.status \in InWork => v.status \notin Fresh /\ ActiveRows(rows[t]) # {}
            BY <2>5 DEF TicketSound, InWork, Fresh
        <3>2. CASE op = "other"
            <4>1. JoinSound(n)
                BY <2>3, <2>6, <3>2 DEF JoinSound, PlainWant
            <4>2. IF v.status = "NONE" THEN w.status = "PENDING" ELSE w.status # "NONE"
                BY <2>5, <2>6, <3>2 DEF PlainWant, TicketSound
            <4>. QED BY <2>3, <3>1, <3>2, <4>1, <4>2 DEF SessionSound
        <3>3. CASE op = "assign"
            <4>1. JoinSound(n) /\ v.status # "NONE" /\ w = v
                BY <2>3, <2>6, <3>3 DEF JoinSound, Unresolved, InWork
            <4>. QED BY <2>3, <3>1, <3>3, <4>1 DEF SessionSound
        <3>4. CASE op = "unassign"
            <4>1. LeaveSound(n, rows[t]) /\ v.status # "NONE" /\ w = v
                BY <2>3, <2>6, <3>4 DEF LeaveSound, InWork
            <4>. QED BY <2>3, <3>1, <3>4, <4>1 DEF SessionSound
        <3>. QED BY <2>6, <3>2, <3>3, <3>4
    <2>8. ASSUME NEW q \in Sessions, session'[q].phase # "idle"
          PROVE SessionSound(session'[q], ticket'[session'[q].ticket], rows'[session'[q].ticket])
        <3>1. CASE q = p
            BY <2>2, <2>3, <2>4, <2>7, <3>1
        <3>2. CASE q # p
            BY <1>i, <2>2, <2>4, <2>8, <3>2
        <3>. QED BY <3>1, <3>2
    <2>9. ASSUME NEW q \in Sessions, q # p, session[q].phase # "idle", session[q].ticket = t
          PROVE /\ regime # "turns" /\ session[q].op # "unassign" /\ op # "unassign"
                /\ session[q].snap.status # "NONE" /\ v.status # "NONE"
        <3>1. q \in Others(t)
            BY <2>9 DEF Others
        <3>2. regime = "alone"
            BY <1>r, <2>2, <3>1 DEF MayStart, TypeOK
        <3>3. session[q].op # "unassign" /\ op # "unassign"
            BY <2>2, <3>1, <3>2 DEF MayStart
        <3>4. v.status # "NONE"
            BY <2>6, <2>9 DEF Unresolved, InWork
        <3>5. SessionSound(session[q], v, rows[t])
            BY <1>i, <2>9
        <3>6. session[q].snap.status # "NONE"
            BY <3>4, <3>5 DEF SessionSound
        <3>. QED BY <3>2, <3>3, <3>4, <3>6
    <2>10. ASSUME NEW q \in Sessions, NEW o \in Sessions, q # o, session'[q].phase # "idle",
                  session'[o].phase # "idle", session'[q].ticket = session'[o].ticket
           PROVE Together(q, o)'
        <3>1. CASE q = p
            BY <1>r, <2>3, <2>4, <2>9, <2>10, <3>1 DEF Together
        <3>2. CASE o = p
            BY <1>r, <2>3, <2>4, <2>9, <2>10, <3>2 DEF Together
        <3>3. CASE q # p /\ o # p
            <4>1. session'[q] = session[q] /\ session'[o] = session[o]
                BY <2>4, <3>3
            <4>2. Together(q, o)
                BY <1>o, <2>10, <4>1
            <4>. QED BY <1>r, <4>1, <4>2 DEF Together
        <3>. QED BY <3>1, <3>2, <3>3
    <2>. QED BY <1>i, <2>2, <2>8, <2>10
<1>. QED BY <1>1, <1>2, <1>3, <1>4, <1>5, <1>6

LEMMA SteadyInit == MaintInit => Steady
<1> SUFFICES ASSUME MaintInit PROVE Steady
    OBVIOUS
<1>1. ActiveRows(<<>>) = {}
    BY DEF ActiveRows
<1>2. \A t \in Tickets : ticket[t] = Absent /\ rows[t] = <<>>
    BY DEF MaintInit
<1>3. TicketSound(Absent, <<>>)
    BY <1>1 DEF TicketSound, Absent, InWork
<1>4. \A p \in Sessions : session[p].phase = "idle"
    BY DEF MaintInit, Idle
<1>. QED BY <1>2, <1>3, <1>4 DEF Steady

LEMMA SteadyKept ==
    ASSUME TypeOK, InFlight, Steady, [MaintNext]_mvars
    PROVE Steady'
<1>1. CASE UNCHANGED mvars
    BY <1>1 DEF mvars, Steady, Together
<1>2. CASE MaintNext
    BY <1>2, SteadyStep
<1>. QED BY <1>1, <1>2

\* A ticket in work has a technician and a ticket in the queue has none, in every
\* execution in which the removal of a technician overlaps no other session.
THEOREM WorkHasTechnicianHolds == MaintSpec => []WorkHasTechnician
<1>1. TypeOK /\ InFlight /\ [MaintNext]_mvars => (TypeOK /\ InFlight)'
    BY MaintTypeStep
<1>2. TypeOK /\ InFlight /\ Steady /\ [MaintNext]_mvars => Steady'
    BY SteadyKept
<1>3. Steady => WorkHasTechnician
    BY DEF Steady, TicketSound, Fresh, WorkHasTechnician
<1>. QED BY MaintTypeInit, SteadyInit, <1>1, <1>2, <1>3, PTL DEF MaintSpec

-----------------------------------------------------------------------------
(* In turns: what a session has read is still so when it commits.           *)

FilesSound(v) == v.files # "kept" => v.status \in Terminal

TurnSound(s, v) ==
    /\ s.snap = v
    /\ FollowsFrom(s.snap, s.want)
    /\ s.snap.status \in Terminal => s.want.status \in Terminal
    /\ s.want.files # "kept" => s.snap.files # "kept" \/ s.want.status \in Terminal

InTurns ==
    regime = "turns" =>
       /\ \A t \in Tickets : FilesSound(ticket[t])
       /\ \A q \in Sessions : session[q].phase # "idle" =>
             TurnSound(session[q], ticket[session[q].ticket])

LEMMA ChangedAll ==
    ASSUME NEW v \in TicketRow, NEW w \in TicketRow
    PROVE ChangedColumns(v, v, w) = w
BY DEF ChangedColumns, TicketRow

LEMMA TurnsInit == MaintInit => InTurns
<1>1. MaintInit => \A t \in Tickets : FilesSound(ticket[t])
    BY DEF MaintInit, Absent, FilesSound
<1>2. MaintInit => \A p \in Sessions : session[p].phase = "idle"
    BY DEF MaintInit, Idle
<1>. QED BY <1>1, <1>2 DEF InTurns

\* A session that commits in its turn writes all its copy, and is alone at the ticket.
LEMMA TurnCommit ==
    ASSUME TypeOK, InFlight, Steady, InTurns, regime = "turns", NEW p \in Sessions, Commit(p)
    PROVE /\ session[p].ticket \in Tickets /\ session[p].want \in TicketRow
          /\ TurnSound(session[p], ticket[session[p].ticket])
          /\ ticket' = [ticket EXCEPT ![session[p].ticket] = session[p].want]
          /\ \A q \in Sessions : session'[q].phase # "idle" =>
                session'[q] = session[q] /\ session[q].ticket # session[p].ticket
<1>1. /\ session[p].ticket \in Tickets /\ session[p].phase = "commit"
      /\ session[p].want \in TicketRow /\ ticket[session[p].ticket] \in TicketRow
    BY DEF Commit, InFlight, TypeOK, SessionRecord
<1>2. TurnSound(session[p], ticket[session[p].ticket])
    BY <1>1 DEF InTurns
<1>3. ticket' = [ticket EXCEPT ![session[p].ticket] = session[p].want]
    BY <1>1, <1>2, ChangedAll DEF Commit, TurnSound, TypeOK
<1>4. session' = [session EXCEPT ![p] = Idle]
    BY DEF Commit
<1>5. \A q \in Sessions : session'[q].phase # "idle" => q # p /\ session'[q] = session[q]
    BY <1>4 DEF TypeOK, Idle
<1>6. \A q \in Sessions \ {p} :
         session[q].phase # "idle" => session[q].ticket # session[p].ticket
    BY <1>1 DEF Steady, Together
<1>. QED BY <1>1, <1>2, <1>3, <1>5, <1>6

LEMMA TurnsStep ==
    ASSUME TypeOK, InFlight, Steady, InTurns, MaintNext
    PROVE InTurns'
<1>1. PICK p \in Sessions :
         \/ Commit(p)
         \/ Abort(p)
         \/ PickNew(p)
         \/ PickRow(p)
         \/ \E t \in Tickets, op \in Ops, ph \in Phases2, w \in TicketRow, a \in Seq(Techs) :
               ReadShape(p, t, op, ph, w, a)
    BY Shapes
<1>r. regime' = regime
    BY <1>1 DEF Commit, Abort, PickNew, PickRow, ReadShape, Read
<1> SUFFICES ASSUME regime = "turns"
             PROVE /\ \A t \in Tickets : FilesSound(ticket'[t])
                   /\ \A q \in Sessions : session'[q].phase # "idle" =>
                         TurnSound(session'[q], ticket'[session'[q].ticket])
    BY <1>r DEF InTurns
<1>i. /\ \A t \in Tickets : FilesSound(ticket[t])
      /\ \A q \in Sessions : session[q].phase # "idle" =>
            TurnSound(session[q], ticket[session[q].ticket])
    BY DEF InTurns
<1>s. \A q \in Sessions : session[q].phase # "idle" =>
         SessionSound(session[q], ticket[session[q].ticket], rows[session[q].ticket])
    BY DEF Steady
<1>2. CASE Commit(p)
    <2> DEFINE s == session[p]
               k == s.ticket
    <2>1. /\ k \in Tickets /\ s.want \in TicketRow /\ TurnSound(s, ticket[k])
          /\ ticket' = [ticket EXCEPT ![k] = s.want]
        BY <1>2, TurnCommit
    <2>2. \A q \in Sessions : session'[q].phase # "idle" =>
             session'[q] = session[q] /\ session[q].ticket # k
        BY <1>2, TurnCommit
    <2>3. FilesSound(s.want)
        BY <1>i, <2>1 DEF TurnSound, FilesSound
    <2>4. \A t \in Tickets : FilesSound(ticket'[t])
        BY <1>i, <2>1, <2>3 DEF TypeOK
    <2>5. ASSUME NEW q \in Sessions, session'[q].phase # "idle"
          PROVE TurnSound(session'[q], ticket'[session'[q].ticket])
        <3>1. session[q].ticket \in Tickets /\ session[q].phase # "idle"
            BY <2>2, <2>5 DEF InFlight
        <3>2. ticket'[session[q].ticket] = ticket[session[q].ticket]
            BY <2>1, <2>2, <2>5, <3>1 DEF TypeOK
        <3>. QED BY <1>i, <2>2, <2>5, <3>1, <3>2
    <2>. QED BY <2>4, <2>5
<1>3. CASE Abort(p)
    <2>1. \A q \in Sessions : session'[q].phase # "idle" => session'[q] = session[q]
        BY <1>3 DEF Abort, TypeOK, Idle
    <2>. QED BY <1>3, <1>i, <2>1 DEF Abort
<1>4. CASE PickNew(p)
    <2> DEFINE s == session[p]
               w == [s.want EXCEPT !.status = IF @ = "PENDING" THEN "ASSIGNED" ELSE @]
    <2>1. /\ s \in SessionRecord /\ s.phase = "rows" /\ s.op = "assign" /\ s.want \in TicketRow
          /\ UNCHANGED <<ticket, rows>>
        BY <1>4 DEF PickNew, TypeOK, SessionRecord
    <2>2. PICK a : session' = [session EXCEPT ![p] =
                                  [s EXCEPT !.phase = "commit", !.add = a, !.want = w]]
        BY <1>4 DEF PickNew
    <2>3. s.want = s.snap /\ s.snap.status \in Unresolved
        BY <1>s, <2>1 DEF SessionSound, JoinSound
    <2>4. w.files = s.want.files /\
          w.status = (IF s.want.status = "PENDING" THEN "ASSIGNED" ELSE s.want.status)
        BY <2>1 DEF TicketRow
    <2> HIDE DEF w
    <2>5. /\ session'[p].ticket = s.ticket /\ session'[p].snap = s.snap /\ session'[p].want = w
          /\ \A q \in Sessions \ {p} : session'[q] = session[q]
        BY <2>1, <2>2 DEF TypeOK, SessionRecord
    <2>6. TurnSound(s, ticket[s.ticket])
        BY <1>i, <2>1
    <2>7. FollowsFrom(s.snap, w) /\ s.snap.status \notin Terminal
        BY <2>3, <2>4 DEF FollowsFrom, Unresolved, InWork, Terminal, Resolved, Lifecycle!Before,
           Lifecycle!Resolved
    <2>8. TurnSound(session'[p], ticket[s.ticket])
        BY <1>i, <2>3, <2>4, <2>5, <2>6, <2>7 DEF TurnSound
    <2>. QED BY <1>i, <2>1, <2>5, <2>8
<1>5. CASE PickRow(p)
    <2> DEFINE s == session[p]
               r == rows[s.ticket]
    <2>1. /\ s \in SessionRecord /\ s.phase = "rows" /\ s.op = "unassign" /\ s.want \in TicketRow
          /\ UNCHANGED <<ticket, rows>>
        BY <1>5 DEF PickRow, TypeOK, SessionRecord
    <2>2. PICK i \in ActiveRows(r) :
             session' = [session EXCEPT ![p] =
                [s EXCEPT !.phase = "commit", !.add = <<>>, !.close = i,
                          !.want.status = IF ActiveRows(r) = {i} THEN "PENDING" ELSE @]]
        BY <1>5 DEF PickRow
    <2> DEFINE x == IF ActiveRows(r) = {i} THEN "PENDING" ELSE s.want.status
               w == [s.want EXCEPT !.status = x]
    <2>3. s.want = s.snap /\ s.snap.status \in InWork
        BY <1>s, <2>1 DEF SessionSound, LeaveSound
    <2>4. w.files = s.want.files /\ w.status = x /\ x \in {"PENDING", s.want.status}
        BY <2>1 DEF TicketRow
    <2>5. session' = [session EXCEPT ![p] =
                         [s EXCEPT !.phase = "commit", !.add = <<>>, !.close = i, !.want = w]]
        BY <2>2
    <2> HIDE DEF w, x
    <2>6. /\ session'[p].ticket = s.ticket /\ session'[p].snap = s.snap /\ session'[p].want = w
          /\ \A q \in Sessions \ {p} : session'[q] = session[q]
        BY <2>1, <2>5 DEF TypeOK, SessionRecord
    <2>7. TurnSound(s, ticket[s.ticket])
        BY <1>i, <2>1
    <2>8. FollowsFrom(s.snap, w) /\ s.snap.status \notin Terminal
        BY <2>3, <2>4 DEF FollowsFrom, InWork, Terminal, Resolved, Lifecycle!Before,
           Lifecycle!Resolved
    <2>9. TurnSound(session'[p], ticket[s.ticket])
        BY <1>i, <2>3, <2>4, <2>6, <2>7, <2>8 DEF TurnSound
    <2>. QED BY <1>i, <2>1, <2>6, <2>9
<1>6. CASE \E t \in Tickets, op \in Ops, ph \in Phases2, w \in TicketRow, a \in Seq(Techs) :
              ReadShape(p, t, op, ph, w, a)
    <2>1. PICK t \in Tickets, op \in Ops, ph \in Phases2, w \in TicketRow, a \in Seq(Techs) :
              ReadShape(p, t, op, ph, w, a)
        BY <1>6
    <2> DEFINE n == [phase |-> ph, op |-> op, ticket |-> t, snap |-> ticket[t], want |-> w,
                     add |-> a, close |-> 0]
    <2>2. session' = [session EXCEPT ![p] = n] /\ UNCHANGED <<ticket, rows>>
        BY <2>1 DEF ReadShape, Read
    <2>3. PlainWant(ticket[t], w) \/ w = ticket[t]
        BY <2>1 DEF ReadShape
    <2>4. TurnSound(n, ticket[t])
        BY <1>i, <2>3 DEF TurnSound, PlainWant, FollowsFrom
    <2>5. session'[p] = n /\ n.ticket = t /\ \A q \in Sessions \ {p} : session'[q] = session[q]
        BY <2>2 DEF TypeOK
    <2>. QED BY <1>i, <2>2, <2>4, <2>5
<1>. QED BY <1>1, <1>2, <1>3, <1>4, <1>5, <1>6

LEMMA TurnsKept ==
    ASSUME TypeOK, InFlight, Steady, InTurns, [MaintNext]_mvars
    PROVE InTurns'
<1>1. CASE UNCHANGED mvars
    BY <1>1 DEF mvars, InTurns
<1>2. CASE MaintNext
    BY <1>2, TurnsStep
<1>. QED BY <1>1, <1>2

LEMMA MaintInv == MaintSpec => [](TypeOK /\ InFlight /\ Steady /\ InTurns)
<1>1. TypeOK /\ InFlight /\ [MaintNext]_mvars => (TypeOK /\ InFlight)'
    BY MaintTypeStep
<1>2. TypeOK /\ InFlight /\ Steady /\ [MaintNext]_mvars => Steady'
    BY SteadyKept
<1>3. TypeOK /\ InFlight /\ Steady /\ InTurns /\ [MaintNext]_mvars => InTurns'
    BY TurnsKept
<1>. QED BY MaintTypeInit, SteadyInit, TurnsInit, <1>1, <1>2, <1>3, PTL DEF MaintSpec

\* In turns the files of a ticket are marked and purged after its work.
THEOREM FilesOutliveWorkHolds == MaintSpec => []FilesOutliveWork
<1>1. InTurns => FilesOutliveWork
    BY DEF InTurns, FilesSound, FilesOutliveWork
<1>. QED BY MaintInv, <1>1, PTL

LEMMA NothingAdded ==
    ASSUME NEW r \in Seq(TechnicianRow)
    PROVE After(r, 0, <<>>) = r
<1>1. <<>> \in Seq(Techs) /\ Len(<<>>) = 0
    OBVIOUS
<1>2. Rows(<<>>) \in Seq(TechnicianRow) /\ Len(Rows(<<>>)) = 0
    BY <1>1, NewRows
<1>3. Rows(<<>>) = <<>>
    BY <1>2
<1>4. After(r, 0, <<>>) = r \o <<>>
    BY <1>3 DEF After, Closed
<1>. QED BY <1>4

LEMMA HistoryStep ==
    ASSUME TypeOK, InFlight, Steady, InTurns, [MaintNext]_mvars, regime = "turns",
           NEW t \in Tickets, ticket[t].status \in Terminal
    PROVE rows'[t] = rows[t]
<1>1. CASE UNCHANGED mvars
    BY <1>1 DEF mvars
<1>2. CASE MaintNext
    <2>1. PICK p \in Sessions :
             \/ Commit(p)
             \/ Abort(p) \/ PickNew(p) \/ PickRow(p)
             \/ \E k \in Tickets, op \in Ops, ph \in Phases2, w \in TicketRow, a \in Seq(Techs) :
                   ReadShape(p, k, op, ph, w, a)
        BY <1>2, Shapes
    <2>2. CASE ~Commit(p)
        BY <2>1, <2>2 DEF Abort, PickNew, PickRow, ReadShape, Read
    <2>3. CASE Commit(p)
        <3> DEFINE s == session[p]
        <3>1. s.ticket \in Tickets /\ s.phase = "commit" /\ TurnSound(s, ticket[s.ticket])
            BY <2>3, TurnCommit DEF Commit
        <3>2. rows' = [rows EXCEPT ![s.ticket] = After(rows[s.ticket], s.close, s.add)]
            BY <2>3 DEF Commit, After
        <3>3. CASE t # s.ticket
            BY <3>1, <3>2, <3>3 DEF TypeOK
        <3>4. CASE t = s.ticket
            <4>1. s.snap.status \in Terminal
                BY <3>1, <3>4 DEF TurnSound
            <4>2. SessionSound(s, ticket[s.ticket], rows[s.ticket])
                BY <3>1 DEF Steady
            <4>3. s.op # "unassign" /\ s.op # "assign"
                BY <4>1, <4>2 DEF SessionSound, LeaveSound, JoinSound, InWork, Unresolved, Terminal,
                   Resolved
            <4>4. s.close = 0 /\ s.add = <<>>
                BY <3>1, <4>2, <4>3 DEF SessionSound, JoinSound
            <4>5. rows[t] \in Seq(TechnicianRow)
                BY DEF TypeOK
            <4>. QED BY <3>1, <3>2, <3>4, <4>4, <4>5, NothingAdded DEF TypeOK
        <3>. QED BY <3>3, <3>4
    <2>. QED BY <2>2, <2>3
<1>. QED BY <1>1, <1>2

\* In turns the technicians of a finished ticket are history.
THEOREM HistoryIsFrozen == MaintSpec => HistoryFrozen
<1>1. TypeOK /\ InFlight /\ Steady /\ InTurns /\ [MaintNext]_mvars =>
         [regime = "turns" =>
             \A t \in Tickets : ticket[t].status \in Terminal => rows'[t] = rows[t]]_mvars
    BY HistoryStep
<1>. QED BY MaintInv, <1>1, PTL DEF MaintSpec, HistoryFrozen

-----------------------------------------------------------------------------
(* The refinement.                                                          *)

Bar == [t \in Tickets |-> IF regime = "turns" THEN ticket[t].status ELSE "NONE"]

LEMMA MaintStart == MaintInit => Lifecycle!LifecycleInit
BY DEF MaintInit, Absent, Lifecycle!LifecycleInit

LEMMA MaintAdvance ==
    ASSUME TypeOK, InFlight, Steady, InTurns, [MaintNext]_mvars
    PROVE Lifecycle!LifecycleNext \/ Bar' = Bar
<1>1. CASE UNCHANGED mvars
    BY <1>1 DEF mvars, Bar
<1>2. CASE MaintNext
    <2>1. PICK p \in Sessions :
             \/ Commit(p)
             \/ Abort(p) \/ PickNew(p) \/ PickRow(p)
             \/ \E k \in Tickets, op \in Ops, ph \in Phases2, w \in TicketRow, a \in Seq(Techs) :
                   ReadShape(p, k, op, ph, w, a)
        BY <1>2, Shapes
    <2>2. CASE ~Commit(p)
        <3>1. UNCHANGED <<ticket, regime>>
            BY <2>1, <2>2 DEF Abort, PickNew, PickRow, ReadShape, Read
        <3>. QED BY <3>1 DEF Bar
    <2>3. CASE Commit(p)
        <3> DEFINE s == session[p]
        <3>1. regime' = regime
            BY <2>3 DEF Commit
        <3>2. CASE regime # "turns"
            BY <3>1, <3>2 DEF Bar
        <3>3. CASE regime = "turns"
            <4>1. /\ s.ticket \in Tickets /\ s.want \in TicketRow
                  /\ ticket' = [ticket EXCEPT ![s.ticket] = s.want]
                  /\ s.snap = ticket[s.ticket] /\ FollowsFrom(s.snap, s.want)
                BY <2>3, <3>3, TurnCommit DEF TurnSound
            <4>2. Bar' = [Bar EXCEPT ![s.ticket] = s.want.status]
                BY <3>1, <3>3, <4>1 DEF Bar, TypeOK
            <4>3. Bar[s.ticket] = ticket[s.ticket].status
                BY <3>3, <4>1 DEF Bar
            <4>4. CASE s.want.status = ticket[s.ticket].status
                BY <4>2, <4>3, <4>4 DEF Bar
            <4>5. CASE s.want.status # ticket[s.ticket].status
                <5>1. /\ s.want.status # "NONE"
                      /\ Bar[s.ticket] \in Lifecycle!Before(s.want.status)
                    BY <4>1, <4>3, <4>5 DEF FollowsFrom
                <5>2. s.want.status \in Status \ {"NONE"}
                    BY <4>1, <5>1 DEF TicketRow
                <5>3. s.want.status \in Lifecycle!Resolved \cup
                         {"PENDING", "ASSIGNED", "IN_PROGRESS", "CLOSED", "CANCELED"}
                    BY <5>2 DEF Status, Unresolved, InWork, Terminal, Resolved, Lifecycle!Resolved
                <5>4. PICK t \in Tickets : t = s.ticket
                    BY <4>1
                <5>5. PICK k \in Lifecycle!Resolved \cup
                         {"PENDING", "ASSIGNED", "IN_PROGRESS", "CLOSED", "CANCELED"} :
                         k = s.want.status
                    BY <5>3
                <5>6. Bar[t] \in Lifecycle!Before(k) /\ Bar' = [Bar EXCEPT ![t] = k]
                    BY <4>2, <5>1, <5>4, <5>5
                <5>7. Lifecycle!Advance(t, k)
                    BY <5>6 DEF Lifecycle!Advance, Bar
                <5>. QED BY <5>7 DEF Lifecycle!LifecycleNext
            <4>. QED BY <4>4, <4>5
        <3>. QED BY <3>2, <3>3
    <2>. QED BY <2>2, <2>3
<1>. QED BY <1>1, <1>2

\* In turns every maintenance ticket follows its lifecycle.
THEOREM MaintLifecycle == MaintSpec => LifecycleSpec
<1>1. TypeOK /\ InFlight /\ Steady /\ InTurns /\ [MaintNext]_mvars =>
         [Lifecycle!LifecycleNext]_[t \in Tickets |-> IF regime = "turns" THEN ticket[t].status
                                                      ELSE "NONE"]
    BY MaintAdvance DEF Bar
<1>. QED BY MaintStart, MaintInv, <1>1, PTL DEF MaintSpec, LifecycleSpec, Lifecycle!LifecycleSpec

-----------------------------------------------------------------------------
(* The inventory campaigns: what keeps the locks of the approved equipment. *)

CampaignStatus == {"absent", "OPEN", "PENDING_VALIDATION", "VALIDATED", "REJECTED"}
CampaignRow == [status : CampaignStatus, office : Offices \cup {NoOffice}, listed : SUBSET Items]
ItemRow == [state : {"absent", "active", "retired"}, office : Offices \cup {NoOffice},
            campaign : Campaigns \cup {NoCampaign}, locked : BOOLEAN,
            lockedBy : Campaigns \cup {NoCampaign}, freed : BOOLEAN, late : BOOLEAN]

\* the requests that may name a campaign (a registration need not), and the others
NamingOps == {"assign", "unassign", "register", "close", "reject", "approve", "reopen"}
PlainOps == {"none", "create", "unlock", "retire", "transfer", "admin transfer"}
ClerkRow == [op : NamingOps \cup PlainOps, phase : {"idle", "folio", "items", "commit"},
             c : Campaigns \cup {NoCampaign}, o : Offices \cup {NoOffice},
             items : SUBSET Items, snapshot : SUBSET Items,
             folio : {0} \cup {Cardinality(S) : S \in SUBSET Campaigns}]

NamesRight(r) == /\ r.c # NoCampaign => r.op \in NamingOps
                 /\ r.op \in NamingOps \ {"register"} => r.c # NoCampaign
                 /\ r.op \in NamingOps => r.phase \in {"items", "commit"}
                 /\ r.op = "create" => r.phase \in {"folio", "commit"}
                 /\ r.phase = "items" => r.op = "approve"
                 /\ r.op = "none" => r.phase = "idle"
                 /\ r.op \in {"close", "reject", "reopen"} => r.items = {}

Present(S) == \A i \in S : item[i].state # "absent"
Unborn(S) == \A i \in S : item[i].state = "absent"

\* a registration writes rows that do not exist yet, the others rows that do
Writes(r) == IF r.op = "register" THEN Unborn(r.items) ELSE Present(r.items)

Disjoint(r, q) == (r.op = "register" /\ q.op = "register") => r.items \cap q.items = {}

CampaignTyped ==
    /\ campaign \in [Campaigns -> CampaignRow]
    /\ item \in [Items -> ItemRow]
    /\ clerk \in [Clerks -> ClerkRow]
    /\ \A q \in Clerks : NamesRight(clerk[q])
    /\ campaignRegime \in {"apart", "overlap"}
    /\ \A i \in Items : item[i].state = "absent" => item[i].campaign = NoCampaign
    /\ \A q \in Clerks : Writes(clerk[q])
    /\ \A p, q \in Clerks : p # q => Disjoint(clerk[p], clerk[q])

ValidationsApart ==
    \A p, q \in Named : clerk[p].op \in Validations => p = q

\* what a request names, and the equipment it will write, is not validated
Unsettled(S) ==
    \A c \in Campaigns : campaign[c].status = "VALIDATED" => S \cap In(c) = {}

NamedUnsettled ==
    \A p \in Named :
        /\ campaign[clerk[p].c].status # "absent"
        /\ clerk[p].op # "register" => /\ campaign[clerk[p].c].status # "VALIDATED"
                                       /\ Unsettled(clerk[p].items)

\* what was registered late is in a validated campaign, and stays there
LateSettled ==
    \A i \in Items : item[i].late => Validated(item[i].campaign)

\* nothing has joined or left since the snapshot was taken
SnapshotCurrent ==
    \A p \in Named : clerk[p].op = "approve" =>
        /\ clerk[p].snapshot = In(clerk[p].c)
        /\ clerk[p].phase = "commit" => clerk[p].items = In(clerk[p].c)

\* what LocksAgree says of a validated campaign
Approved(c) ==
    /\ campaign[c].listed = {i \in In(c) : ~ item[i].late}
    /\ \A i \in campaign[c].listed : item[i].lockedBy = c /\ (item[i].locked \/ item[i].freed)

LocksInv ==
    campaignRegime = "apart" =>
        ValidationsApart /\ NamedUnsettled /\ LateSettled /\ SnapshotCurrent /\ LocksAgree

-----------------------------------------------------------------------------
(* The shape of the steps that only begin a request.                        *)

Opens(p, r) ==
    /\ r \in ClerkRow /\ NamesRight(r) /\ Begin(p, r)
    /\ r.c # NoCampaign =>
          /\ campaign[r.c].status # "absent"
          /\ r.op # "register" => campaign[r.c].status # "VALIDATED" /\ Unsettled(r.items)
    /\ r.op = "approve" => r.phase = "items" /\ r.snapshot = In(r.c)
    /\ Writes(r)
    /\ \A q \in Clerks : Disjoint(r, clerk[q])

LEMMA FreeTyped == Free \in ClerkRow /\ NamesRight(Free) /\ Free.c = NoCampaign /\ Free.op = "none"
BY DEF Free, ClerkRow, NamesRight, NamingOps, PlainOps

LEMMA GiveRow ==
    ASSUME NEW op \in NamingOps \cup PlainOps,
           NEW c \in Campaigns \cup {NoCampaign}, NEW o \in Offices \cup {NoOffice},
           NEW S \in SUBSET Items
    PROVE  /\ Give(op, c, o, S) \in ClerkRow
           /\ Give(op, c, o, S).op = op /\ Give(op, c, o, S).phase = "commit"
           /\ Give(op, c, o, S).c = c /\ Give(op, c, o, S).o = o
           /\ Give(op, c, o, S).items = S
BY FreeTyped DEF Give, About, ClerkRow

LEMMA AboutRow ==
    ASSUME NEW op \in NamingOps \cup PlainOps, NEW c \in Campaigns
    PROVE  /\ About(op, c) \in ClerkRow
           /\ About(op, c).op = op /\ About(op, c).phase = "commit"
           /\ About(op, c).c = c /\ About(op, c).items = {}
<1>1. Free.items = {}
    BY DEF Free
<1>. QED BY <1>1, FreeTyped DEF About, ClerkRow

\* A request that names an open or closed campaign and equipment of none, or of that one.
LEMMA GivesUnsettled ==
    ASSUME CampaignTyped, NEW c \in Campaigns, NEW S \in SUBSET Items,
           campaign[c].status # "VALIDATED",
           \A i \in S : item[i].campaign = NoCampaign \/ item[i].campaign = c
    PROVE  Unsettled(S)
BY CampaignNames DEF Unsettled, In

LEMMA Openings ==
    ASSUME CampaignTyped, NEW p \in Clerks, CampaignStep(p)
    PROVE  \/ GenerateFolio(p) \/ ReadItems(p) \/ CommitCreate(p)
           \/ CommitRequest(p) \/ GiveUp(p)
           \/ \E r \in ClerkRow : Opens(p, r)
<1> USE CampaignNames
<1>1. ASSUME NEW o \in Offices, Create(p, o) PROVE \E r \in ClerkRow : Opens(p, r)
    <2> DEFINE r == [Free EXCEPT !.op = "create", !.phase = "folio", !.o = o]
    <2>1. r.op = "create" /\ r.phase = "folio" /\ r.c = NoCampaign
        BY FreeTyped DEF ClerkRow
    <2>2. "create" \in NamingOps \cup PlainOps /\ "create" \notin NamingOps
        BY DEF NamingOps, PlainOps
    <2>3. r \in ClerkRow
        BY <2>2, FreeTyped DEF ClerkRow
    <2>4. r.items = {} /\ r.op # "register" /\ r.op # "approve"
        BY <2>1, FreeTyped DEF Free
    <2>5. Writes(r) /\ \A q \in Clerks : Disjoint(r, clerk[q])
        BY <2>4 DEF Writes, Present, Disjoint
    <2>6. NamesRight(r) /\ Begin(p, r)
        BY <1>1, <2>1, <2>2 DEF Create, NamesRight
    <2> HIDE DEF r
    <2>. QED BY <2>1, <2>3, <2>4, <2>5, <2>6 DEF Opens
<1>2. ASSUME NEW c \in Campaigns, NEW S \in SUBSET Items, Assign(p, c, S)
      PROVE  \E r \in ClerkRow : Opens(p, r)
    <2>1. Unsettled(S)
        BY <1>2, GivesUnsettled DEF Assign, Eligible
    <2>2. "assign" \in NamingOps \cup PlainOps
        BY DEF NamingOps
    <2>3. Present(S)
        BY <1>2 DEF Assign, Eligible, Present
    <2> DEFINE r == Give("assign", c, NoOffice, S)
    <2>4. r \in ClerkRow /\ r.op = "assign" /\ r.phase = "commit" /\ r.c = c /\ r.items = S
        BY <2>2, GiveRow
    <2>5. Begin(p, r) /\ campaign[c].status = "OPEN"
        BY <1>2 DEF Assign
    <2> HIDE DEF r
    <2>6. Writes(r) /\ \A q \in Clerks : Disjoint(r, clerk[q])
        BY <2>3, <2>4 DEF Writes, Disjoint
    <2>. QED BY <2>1, <2>4, <2>5, <2>6 DEF Opens, NamesRight, NamingOps
<1>3. ASSUME NEW c \in Campaigns, NEW i \in Items, Unassign(p, c, i)
      PROVE  \E r \in ClerkRow : Opens(p, r)
    <2>1. Unsettled({i})
        BY <1>3, GivesUnsettled DEF Unassign
    <2>2. "unassign" \in NamingOps \cup PlainOps
        BY DEF NamingOps
    <2> DEFINE r == Give("unassign", c, NoOffice, {i})
    <2>3. r \in ClerkRow /\ r.op = "unassign" /\ r.phase = "commit" /\ r.c = c /\ r.items = {i}
        BY <2>2, GiveRow
    <2>4. Begin(p, r) /\ campaign[c].status = "OPEN" /\ item[i].state # "absent"
        BY <1>3 DEF Unassign, CampaignTyped
    <2> HIDE DEF r
    <2>5. Writes(r) /\ \A q \in Clerks : Disjoint(r, clerk[q])
        BY <2>3, <2>4 DEF Writes, Present, Disjoint
    <2>. QED BY <2>1, <2>3, <2>4, <2>5 DEF Opens, NamesRight, NamingOps
<1>4. ASSUME NEW c \in Campaigns \cup {NoCampaign}, NEW o \in Offices, NEW S \in SUBSET Items,
             Register(p, c, o, S)
      PROVE  \E r \in ClerkRow : Opens(p, r)
    <2> DEFINE r == Give("register", c, o, S)
    <2>1. "register" \in NamingOps \cup PlainOps
        BY DEF NamingOps
    <2>2. r \in ClerkRow /\ r.op = "register" /\ r.phase = "commit" /\ r.c = c /\ r.items = S
        BY <2>1, GiveRow
    <2>3. /\ Begin(p, r) /\ Unborn(S)
          /\ c # NoCampaign => campaign[c].status # "absent"
          /\ \A q \in Clerks : clerk[q].op = "register" => S \cap clerk[q].items = {}
        BY <1>4 DEF Register, Unborn
    <2> HIDE DEF r
    <2>4. Writes(r) /\ \A q \in Clerks : Disjoint(r, clerk[q])
        BY <2>2, <2>3 DEF Writes, Disjoint
    <2>. QED BY <2>2, <2>3, <2>4 DEF Opens, NamesRight, NamingOps
<1>5. ASSUME NEW c \in Campaigns, Close(p, c) \/ Reject(p, c) \/ Reopen(p, c)
      PROVE  \E r \in ClerkRow : Opens(p, r)
    <2>1. Unsettled({})
        BY DEF Unsettled
    <2>2. PICK op \in {"close", "reject", "reopen"} :
             /\ Begin(p, About(op, c))
             /\ campaign[c].status \in {"OPEN", "PENDING_VALIDATION", "REJECTED"}
        BY <1>5 DEF Close, Reject, Reopen, MayReopen
    <2>3. op \in NamingOps \cup PlainOps /\ op \in NamingOps
        BY DEF NamingOps
    <2>4. /\ About(op, c) \in ClerkRow /\ About(op, c).op = op /\ About(op, c).phase = "commit"
          /\ About(op, c).c = c /\ About(op, c).items = {}
        BY <2>3, AboutRow
    <2>5. NamesRight(About(op, c))
        BY <2>3, <2>4 DEF NamesRight
    <2>6. /\ Writes(About(op, c))
          /\ \A q \in Clerks : Disjoint(About(op, c), clerk[q])
        BY <2>2, <2>4 DEF Writes, Present, Disjoint
    <2>. QED BY <2>1, <2>2, <2>4, <2>5, <2>6 DEF Opens
<1>6. ASSUME NEW c \in Campaigns, Approve(p, c)
      PROVE  \E r \in ClerkRow : Opens(p, r)
    <2> DEFINE r == [About("approve", c) EXCEPT !.phase = "items", !.snapshot = In(c)]
    <2>2. "approve" \in NamingOps \cup PlainOps /\ "approve" \in NamingOps
        BY DEF NamingOps
    <2>3. In(c) \in SUBSET Items
        BY DEF In
    <2>1. /\ r.op = "approve" /\ r.phase = "items" /\ r.c = c
          /\ r.items = {} /\ r.snapshot = In(c)
        BY <2>2, AboutRow DEF ClerkRow
    <2>6. \A a \in ClerkRow, X \in SUBSET Items :
             [a EXCEPT !.phase = "items", !.snapshot = X] \in ClerkRow
        BY DEF ClerkRow
    <2>4. r \in ClerkRow
        BY <2>2, <2>3, <2>6, AboutRow
    <2>5. Unsettled({})
        BY DEF Unsettled
    <2>7. Begin(p, r) /\ campaign[c].status = "PENDING_VALIDATION"
        BY <1>6 DEF Approve
    <2> HIDE DEF r
    <2>8. Writes(r) /\ \A q \in Clerks : Disjoint(r, clerk[q])
        BY <2>1 DEF Writes, Present, Disjoint
    <2>. QED BY <2>1, <2>2, <2>4, <2>5, <2>7, <2>8 DEF Opens, NamesRight
<1>7. ASSUME NEW op \in PlainOps \ {"none", "create"}, NEW o \in Offices \cup {NoOffice},
             NEW S \in SUBSET Items, Begin(p, Give(op, NoCampaign, o, S)), Present(S)
      PROVE  \E r \in ClerkRow : Opens(p, r)
    <2> DEFINE r == Give(op, NoCampaign, o, S)
    <2>1. r \in ClerkRow /\ r.op = op /\ r.phase = "commit" /\ r.c = NoCampaign /\ r.items = S
        BY GiveRow
    <2>2. op \notin NamingOps /\ op \notin {"none", "create", "register", "approve"}
        BY DEF NamingOps, PlainOps
    <2>3. Begin(p, r)
        BY <1>7
    <2> HIDE DEF r
    <2>4. Writes(r) /\ \A q \in Clerks : Disjoint(r, clerk[q])
        BY <1>7, <2>1, <2>2 DEF Writes, Disjoint
    <2>5. NamesRight(r)
        BY <2>1, <2>2 DEF NamesRight, NamingOps
    <2>. QED BY <2>1, <2>2, <2>3, <2>4, <2>5 DEF Opens
<1>8. ASSUME NEW i \in Items, Unlock(p, i) \/ Retire(p, i)
      PROVE  \E r \in ClerkRow : Opens(p, r)
    <2>1. PICK op \in {"unlock", "retire"} : Begin(p, Give(op, NoCampaign, NoOffice, {i}))
        BY <1>8 DEF Unlock, Retire
    <2>2. op \in PlainOps \ {"none", "create"}
        BY DEF PlainOps
    <2>3. Present({i})
        BY <1>8 DEF Unlock, Retire, Present
    <2>. QED BY <2>1, <2>2, <2>3, <1>7
<1>9. ASSUME NEW o \in Offices, NEW i \in Items, TransferOne(p, o, i)
      PROVE  \E r \in ClerkRow : Opens(p, r)
    <2>1. "transfer" \in PlainOps \ {"none", "create"}
        BY DEF PlainOps
    <2>2. Present({i})
        BY <1>9 DEF TransferOne, Present
    <2>. QED BY <1>9, <2>1, <2>2, <1>7 DEF TransferOne
<1>10. ASSUME NEW o \in Offices, NEW S \in SUBSET Items, NEW admin \in BOOLEAN,
              TransferMany(p, o, S, admin)
       PROVE  \E r \in ClerkRow : Opens(p, r)
    <2>1. PICK op \in {"transfer", "admin transfer"} : Begin(p, Give(op, NoCampaign, o, S))
        BY <1>10 DEF TransferMany
    <2>2. op \in PlainOps \ {"none", "create"}
        BY DEF PlainOps
    <2>3. Present(S)
        BY <1>10 DEF TransferMany, Present
    <2>. QED BY <2>1, <2>2, <2>3, <1>7
<1>. QED BY <1>1, <1>2, <1>3, <1>4, <1>5, <1>6, <1>8, <1>9, <1>10 DEF CampaignStep

-----------------------------------------------------------------------------
(* What a commit leaves behind.                                             *)

\* An item is written only by the requests that list it, and only as its operation says.
LEMMA ItemWritten ==
    ASSUME CampaignTyped, NEW p \in Clerks, CommitRequest(p), NEW i \in Items
    PROVE  LET r == clerk[p]
           IN /\ item'[i] \in ItemRow
              /\ i \notin r.items => item'[i] = item[i]
              /\ item[i].state # "absent" => item'[i].state # "absent"
              /\ item'[i].state = "absent" => item'[i].campaign = NoCampaign
              /\ r.op \in PlainOps =>
                    /\ item'[i].campaign = item[i].campaign
                    /\ item'[i].lockedBy = item[i].lockedBy
                    /\ item'[i].locked => item[i].locked
                    /\ item[i].locked \/ item[i].freed => item'[i].locked \/ item'[i].freed
              /\ (r.op \in NamingOps /\ r.op # "approve" /\ i \in r.items) =>
                    /\ item'[i].campaign \in {r.c, NoCampaign}
                    /\ item'[i].locked => item[i].locked
              /\ (r.op = "approve" /\ i \in r.items) =>
                    /\ item'[i].campaign = item[i].campaign
                    /\ item'[i].lockedBy = r.c /\ item'[i].locked
              /\ r.op # "register" => item'[i].late = item[i].late
              /\ (r.op = "register" /\ i \in r.items) =>
                    /\ item'[i].campaign = r.c /\ ~ item'[i].locked
                    /\ item'[i].late = Validated(r.c)
<1> DEFINE r == clerk[p]
<1>1. r \in ClerkRow /\ NamesRight(r) /\ r.phase = "commit" /\ r.op # "create" /\ item[i] \in ItemRow
    BY DEF CommitRequest, CampaignTyped
<1>2. r.op \in {"assign", "unassign", "register", "close", "reject", "approve", "reopen",
                "unlock", "retire", "transfer", "admin transfer"}
    BY <1>1 DEF ClerkRow, NamesRight, NamingOps, PlainOps
<1>3. item'[i] = IF i \in r.items THEN Changed(i, r) ELSE item[i]
    BY DEF CommitRequest
<1>4. /\ r.c \in Campaigns \cup {NoCampaign} /\ r.o \in Offices \cup {NoOffice}
      /\ r.op = "assign" => Present(r.items)
      /\ item[i].state = "absent" => item[i].campaign = NoCampaign
      /\ r.op \in {"close", "reject", "reopen"} => r.items = {}
    BY <1>1 DEF CampaignTyped, ClerkRow, NamesRight, Writes
<1>5. CASE i \notin r.items
    BY <1>1, <1>3, <1>4, <1>5
<1>6. CASE i \in r.items
    <2> HIDE DEF r
    <2>0. r.op \in {"assign", "unassign", "register", "approve", "unlock", "retire",
                    "transfer", "admin transfer"}
        BY <1>2, <1>4, <1>6
    <2>1. CASE r.op = "assign"
        <3>1. item'[i] = [item[i] EXCEPT !.campaign = r.c]
            BY <1>3, <1>6, <2>1 DEF Changed
        <3>. QED BY <3>1, <1>1, <1>4, <1>6, <2>1 DEF r, ItemRow, PlainOps, NamingOps, Present
    <2>2. CASE r.op = "unassign"
        <3>1. item'[i] = [item[i] EXCEPT !.campaign = NoCampaign]
            BY <1>3, <1>6, <2>2 DEF Changed
        <3>. QED BY <3>1, <1>1, <1>4, <1>6, <2>2 DEF r, ItemRow, PlainOps, NamingOps
    <2>3. CASE r.op = "register"
        <3>1. item'[i] = [NewItem(r.o, r.c) EXCEPT !.late = Validated(r.c)]
            BY <1>3, <1>6, <2>3 DEF Changed
        <3>2. Validated(r.c) \in BOOLEAN
            BY DEF Validated
        <3>3. /\ item'[i] \in ItemRow /\ item'[i].state = "active"
              /\ item'[i].campaign = r.c /\ ~ item'[i].locked
              /\ item'[i].late = Validated(r.c)
            BY <3>1, <3>2, <1>4 DEF ItemRow, NewItem
        <3>. QED BY <3>3, <1>6, <2>3 DEF r, PlainOps, NamingOps
    <2>4. CASE r.op = "approve"
        <3>1. item'[i] = [item[i] EXCEPT !.locked = TRUE, !.lockedBy = r.c]
            BY <1>3, <1>6, <2>4 DEF Changed, LockedBy
        <3>. QED BY <3>1, <1>1, <1>4, <1>6, <2>4 DEF r, ItemRow, PlainOps, NamingOps
    <2>5. CASE r.op = "unlock"
        <3>1. item'[i] = [item[i] EXCEPT !.locked = FALSE, !.freed = TRUE]
            BY <1>3, <1>6, <2>5 DEF Changed
        <3>. QED BY <3>1, <1>1, <1>4, <1>6, <2>5 DEF r, ItemRow, PlainOps, NamingOps
    <2>6. CASE r.op = "retire"
        <3>1. item'[i] = [item[i] EXCEPT !.state = "retired"]
            BY <1>3, <1>6, <2>6 DEF Changed
        <3>. QED BY <3>1, <1>1, <1>4, <1>6, <2>6 DEF r, ItemRow, PlainOps, NamingOps
    <2>7. CASE r.op \in {"transfer", "admin transfer"}
        <3>1. item'[i] = [item[i] EXCEPT !.office = r.o]
            BY <1>3, <1>6, <2>7 DEF Changed
        <3>. QED BY <3>1, <1>1, <1>4, <1>6, <2>7 DEF r, ItemRow, PlainOps, NamingOps
    <2>. QED BY <2>0, <2>1, <2>2, <2>3, <2>4, <2>5, <2>6, <2>7 DEF r
<1>. QED BY <1>5, <1>6

\* Only closing, rejecting, approving and reopening write a campaign, the one they name.
LEMMA CampaignWritten ==
    ASSUME CampaignTyped, NEW p \in Clerks, CommitRequest(p), NEW c \in Campaigns
    PROVE  LET r == clerk[p]
           IN /\ campaign'[c] \in CampaignRow
              /\ c # r.c => campaign'[c] = campaign[c]
              /\ r.op \notin {"close", "reject", "approve", "reopen"} => campaign'[c] = campaign[c]
              /\ campaign[c].status # "absent" => campaign'[c].status # "absent"
              /\ (r.op = "approve" /\ c = r.c) => /\ campaign'[c].status = "VALIDATED"
                                                  /\ campaign'[c].listed = r.snapshot
              /\ (r.op # "approve" /\ campaign'[c].status = "VALIDATED") =>
                    campaign'[c] = campaign[c]
              /\ (c = r.c /\ r.op # "approve") =>
                    /\ campaign'[c].listed = campaign[c].listed
                    /\ campaign'[c] = campaign[c] \/ campaign'[c].status # "VALIDATED"
<1> DEFINE r == clerk[p]
<1>1. r \in ClerkRow /\ NamesRight(r) /\ campaign[c] \in CampaignRow
    BY DEF CampaignTyped
<1>2. DOMAIN StatusAfter = {"close", "reject", "approve", "reopen"}
    BY DEF StatusAfter
<1>3. CASE r.op \notin DOMAIN StatusAfter
    <2>1. campaign' = campaign
        BY <1>3 DEF CommitRequest
    <2>2. r.op # "approve"
        BY <1>2, <1>3
    <2>. QED BY <1>1, <2>1, <2>2
<1>4. CASE r.op \in DOMAIN StatusAfter
    <2>0. r.c \in Campaigns
        BY <1>1, <1>2, <1>4, CampaignNames DEF ClerkRow, NamesRight, NamingOps
    <2>1. campaign' = [campaign EXCEPT ![r.c].status = StatusAfter[r.op],
                                       ![r.c].listed = IF r.op = "approve" THEN r.snapshot ELSE @]
        BY <1>4 DEF CommitRequest
    <2>2. c # r.c => campaign'[c] = campaign[c]
        BY <2>1 DEF CampaignTyped
    <2>3. CASE c = r.c
        <3>1. /\ StatusAfter[r.op] \in CampaignStatus \ {"absent"}
              /\ r.op = "approve" => StatusAfter[r.op] = "VALIDATED"
              /\ r.op # "approve" => StatusAfter[r.op] # "VALIDATED"
            BY <1>2, <1>4 DEF StatusAfter, CampaignStatus
        <3>2. r.snapshot \in SUBSET Items
            BY <1>1 DEF ClerkRow
        <3> DEFINE st == StatusAfter[r.op]
                   li == IF r.op = "approve" THEN r.snapshot ELSE campaign[c].listed
        <3>3. campaign'[c] = [campaign[c] EXCEPT !.status = st, !.listed = li]
            BY <2>1, <2>3 DEF CampaignTyped, CampaignRow
        <3>4. st \in CampaignStatus /\ li \in SUBSET Items
            BY <1>1, <3>1, <3>2 DEF CampaignRow
        <3> HIDE DEF st, li
        <3>5. /\ campaign'[c] \in CampaignRow
              /\ campaign'[c].status = st /\ campaign'[c].listed = li
            BY <1>1, <3>3, <3>4 DEF CampaignRow
        <3>. QED BY <3>5, <3>1, <1>4, <1>2, <2>3 DEF st, li
    <2>. QED BY <1>1, <1>2, <1>4, <2>2, <2>3
<1>. QED BY <1>3, <1>4

-----------------------------------------------------------------------------
(* Types, and the invariant.                                                *)

LEMMA CampaignTypeInit == CampaignInit => CampaignTyped
<1> SUFFICES ASSUME CampaignInit PROVE CampaignTyped
    OBVIOUS
<1>1. NoRow \in CampaignRow
    BY DEF NoRow, CampaignRow, CampaignStatus
<1>2. NoItem \in ItemRow /\ NoItem.campaign = NoCampaign
    BY DEF NoItem, NewItem, ItemRow
<1>3. \A o \in Offices : /\ NewItem(o, NoCampaign) \in ItemRow
                         /\ NewItem(o, NoCampaign).campaign = NoCampaign
    BY DEF NewItem, ItemRow
<1>4. item \in [Items -> ItemRow] /\ \A i \in Items : item[i].campaign = NoCampaign
    BY <1>2, <1>3 DEF CampaignInit
<1>5. \A p, q \in Clerks : /\ clerk[q] = Free /\ clerk[p] = Free
    BY DEF CampaignInit
<1>6. Writes(Free) /\ Disjoint(Free, Free)
    BY DEF Writes, Present, Disjoint, Free
<1>. QED BY <1>1, <1>4, <1>5, <1>6, FreeTyped, CampaignWorlds DEF CampaignInit, CampaignTyped

LEMMA CampaignTypeStep ==
    ASSUME CampaignTyped, [CampaignNext]_cvars
    PROVE  CampaignTyped'
<1>1. CASE UNCHANGED cvars
    BY <1>1 DEF cvars, CampaignTyped, NamesRight, Writes, Present, Unborn, Disjoint
<1>2. CASE CampaignNext
    <2>1. PICK p \in Clerks : CampaignStep(p)
        BY <1>2 DEF CampaignNext
    <2>2. ASSUME NEW r \in ClerkRow, NamesRight(r), Writes(r),
                 \A q \in Clerks \ {p} : Disjoint(r, clerk[q]),
                 clerk' = [clerk EXCEPT ![p] = r], UNCHANGED <<campaign, item, campaignRegime>>
          PROVE  CampaignTyped'
        <3>1. \A q \in Clerks : clerk'[q] = IF q = p THEN r ELSE clerk[q]
            BY <2>2 DEF CampaignTyped
        <3>2. \A q \in Clerks : /\ clerk'[q] \in ClerkRow
                                /\ NamesRight(clerk'[q])
            BY <2>2, <3>1 DEF CampaignTyped
        <3>3. \A q \in Clerks : Writes(clerk[q])'
            BY <2>2, <3>1 DEF CampaignTyped, Writes, Present, Unborn
        <3>4. \A q, t \in Clerks : q # t => Disjoint(clerk[q], clerk[t])'
            BY <2>2, <3>1 DEF CampaignTyped, Disjoint
        <3>5. clerk' \in [Clerks -> ClerkRow]
            BY <2>2 DEF CampaignTyped
        <3>. QED BY <2>2, <3>2, <3>3, <3>4, <3>5 DEF CampaignTyped, NamesRight
    <2>9. Writes(Free) /\ \A q \in Clerks : Disjoint(Free, clerk[q])
        BY DEF Writes, Present, Disjoint, Free
    <2>3. CASE \E r \in ClerkRow : Opens(p, r)
        BY <2>2, <2>3 DEF Opens, Begin
    <2>4. CASE GiveUp(p)
        BY <2>2, <2>4, <2>9, FreeTyped DEF GiveUp
    <2>5. CASE GenerateFolio(p)
        <3> DEFINE r == [clerk[p] EXCEPT !.phase = "commit", !.folio = Folios]
        <3>1. Folios \in {Cardinality(S) : S \in SUBSET Campaigns}
            BY DEF Folios
        <3>2. clerk[p] \in ClerkRow /\ NamesRight(clerk[p])
            BY DEF CampaignTyped
        <3>3. /\ r \in ClerkRow /\ r.op = clerk[p].op /\ r.c = clerk[p].c
              /\ r.items = clerk[p].items /\ r.phase = "commit"
            BY <3>1, <3>2 DEF ClerkRow
        <3>4. clerk[p].op # "none"
            BY <2>5, <3>2 DEF GenerateFolio, NamesRight
        <3>5. /\ NamesRight(r) /\ Writes(r)
              /\ \A q \in Clerks \ {p} : Disjoint(r, clerk[q])
            BY <3>2, <3>3, <3>4 DEF NamesRight, CampaignTyped, Writes, Disjoint
        <3>6. clerk' = [clerk EXCEPT ![p] = r] /\ UNCHANGED <<campaign, item, campaignRegime>>
            BY <2>5 DEF GenerateFolio, CampaignTyped
        <3> HIDE DEF r
        <3>. QED BY <3>3, <3>5, <3>6, <2>2
    <2>6. CASE ReadItems(p)
        <3> DEFINE r == [clerk[p] EXCEPT !.phase = "commit", !.items = In(clerk[p].c)]
        <3>1. clerk[p] \in ClerkRow /\ In(clerk[p].c) \in SUBSET Items
            BY DEF CampaignTyped, In
        <3>2. /\ r \in ClerkRow /\ r.op = clerk[p].op /\ r.c = clerk[p].c /\ r.phase = "commit"
              /\ r.items = In(r.c)
            BY <3>1 DEF ClerkRow
        <3>3. clerk[p].op = "approve"
            BY <2>6 DEF ReadItems, CampaignTyped, NamesRight
        <3>4. NamesRight(r)
            BY <3>2, <3>3 DEF NamesRight, CampaignTyped
        <3>5. clerk' = [clerk EXCEPT ![p] = r] /\ UNCHANGED <<campaign, item, campaignRegime>>
            BY <2>6 DEF ReadItems, CampaignTyped
        <3>6. r.c # NoCampaign
            BY <3>2, <3>3 DEF CampaignTyped, NamesRight, NamingOps
        <3> HIDE DEF r
        <3>7. Writes(r) /\ \A q \in Clerks : Disjoint(r, clerk[q])
            BY <3>2, <3>3, <3>6 DEF Writes, Present, Disjoint, In, CampaignTyped
        <3>. QED BY <3>2, <3>4, <3>5, <3>7, <2>2
    <2>7. CASE CommitCreate(p)
        <3>1. clerk[p].o \in Offices \cup {NoOffice}
            BY DEF CampaignTyped, ClerkRow
        <3>2. Created(clerk[p].o) \in CampaignRow
            BY <3>1 DEF Created, NoRow, CampaignRow, CampaignStatus
        <3>3. campaign' \in [Campaigns -> CampaignRow]
            BY <2>7, <3>2 DEF CommitCreate, CampaignTyped
        <3>4. clerk' = [clerk EXCEPT ![p] = Free] /\ UNCHANGED <<item, campaignRegime>>
            BY <2>7 DEF CommitCreate
        <3>5. \A q \in Clerks : clerk'[q] = IF q = p THEN Free ELSE clerk[q]
            BY <3>4 DEF CampaignTyped
        <3>6. \A q \in Clerks : /\ clerk'[q] \in ClerkRow
                                /\ NamesRight(clerk'[q])
            BY <3>5, FreeTyped DEF CampaignTyped
        <3>7. \A q \in Clerks : Writes(clerk[q])'
            BY <2>9, <3>4, <3>5 DEF CampaignTyped, Writes, Present, Unborn
        <3>8. \A q, t \in Clerks : q # t => Disjoint(clerk[q], clerk[t])'
            BY <2>9, <3>5 DEF CampaignTyped, Disjoint
        <3>9. clerk' \in [Clerks -> ClerkRow]
            BY <3>4, FreeTyped DEF CampaignTyped
        <3>. QED BY <3>3, <3>4, <3>6, <3>7, <3>8, <3>9 DEF CampaignTyped, NamesRight
    <2>8. CASE CommitRequest(p)
        <3>1. campaign' \in [Campaigns -> CampaignRow]
            BY <2>8, CampaignWritten DEF CommitRequest, CampaignTyped
        <3>2. item' \in [Items -> ItemRow]
            BY <2>8, ItemWritten DEF CommitRequest
        <3>3. /\ clerk' = [clerk EXCEPT ![p] = Free] /\ campaignRegime' = campaignRegime
            BY <2>8 DEF CommitRequest
        <3>4. \A i \in Items : /\ item[i].state # "absent" => item'[i].state # "absent"
                               /\ item'[i].state = "absent" => item'[i].campaign = NoCampaign
            BY <2>8, ItemWritten
        <3>5. \A q \in Clerks : clerk'[q] \in ClerkRow /\ NamesRight(clerk'[q])
            BY <3>3, FreeTyped DEF CampaignTyped
        <3>6. \A q \in Clerks : clerk'[q] = IF q = p THEN Free ELSE clerk[q]
            BY <3>3 DEF CampaignTyped
        <3>10. \A q, t \in Clerks : q # t => Disjoint(clerk[q], clerk[t])'
            BY <2>9, <3>6 DEF CampaignTyped, Disjoint
        <3>7. ASSUME NEW q \in Clerks PROVE Writes(clerk[q])'
            <4>1. CASE q = p
                BY <3>6, <4>1 DEF Writes, Present, Free
            <4>2. CASE q # p
                <5>1. clerk'[q] = clerk[q] /\ clerk[q].items \subseteq Items
                    BY <3>6, <4>2 DEF CampaignTyped, ClerkRow
                <5>2. Writes(clerk[q])
                    BY DEF CampaignTyped
                <5>3. CASE clerk[q].op # "register"
                    BY <3>4, <5>1, <5>2, <5>3 DEF Writes, Present
                <5>4. CASE clerk[q].op = "register"
                    <6>1. \A i \in clerk[q].items : i \notin clerk[p].items
                        <7>1. CASE clerk[p].op = "register"
                            BY <4>2, <5>4, <7>1 DEF CampaignTyped, Disjoint
                        <7>2. CASE clerk[p].op # "register"
                            BY <5>2, <5>4, <7>2 DEF CampaignTyped, Writes, Present, Unborn
                        <7>. QED BY <7>1, <7>2
                    <6>2. \A i \in clerk[q].items : item'[i] = item[i]
                        BY <2>8, <5>1, <6>1, ItemWritten
                    <6>. QED BY <5>1, <5>2, <5>4, <6>2 DEF Writes, Unborn
                <5>. QED BY <5>3, <5>4
            <4>. QED BY <4>1, <4>2
        <3>8. clerk' \in [Clerks -> ClerkRow]
            BY <3>3, FreeTyped DEF CampaignTyped
        <3>. QED BY <3>1, <3>2, <3>3, <3>4, <3>5, <3>7, <3>8, <3>10 DEF CampaignTyped, NamesRight
    <2>. QED BY <2>1, <2>3, <2>4, <2>5, <2>6, <2>7, <2>8, Openings
<1>. QED BY <1>1, <1>2

\* In a step that changes one request at most, the others keep their part of the invariant.
LEMMA ClerkOnly ==
    ASSUME CampaignTyped, LocksInv, NEW p \in Clerks, NEW r \in ClerkRow,
           clerk' = [clerk EXCEPT ![p] = r], UNCHANGED <<campaign, item, campaignRegime>>,
           campaignRegime = "apart" /\ r.c # NoCampaign =>
              /\ campaign[r.c].status # "absent"
              /\ r.op # "register" => campaign[r.c].status # "VALIDATED" /\ Unsettled(r.items)
              /\ r.op = "approve" => /\ r.snapshot = In(r.c)
                                     /\ r.phase = "commit" => r.items = In(r.c)
              /\ \A q \in Named \ {p} : r.op \notin Validations /\ clerk[q].op \notin Validations
    PROVE  LocksInv'
<1> SUFFICES ASSUME campaignRegime' = "apart"
             PROVE  /\ ValidationsApart' /\ NamedUnsettled' /\ LateSettled'
                    /\ SnapshotCurrent' /\ LocksAgree'
    BY DEF LocksInv
<1>1. campaignRegime = "apart" /\ ValidationsApart /\ NamedUnsettled /\ LateSettled /\ SnapshotCurrent /\ LocksAgree
    BY DEF LocksInv
<1>2. /\ \A q \in Clerks : clerk'[q] = IF q = p THEN r ELSE clerk[q]
      /\ \A q \in Clerks : q \in Named' <=> clerk'[q].c # NoCampaign
      /\ \A q \in Clerks : q \in Named <=> clerk[q].c # NoCampaign
      /\ Named' \subseteq Clerks
    BY DEF CampaignTyped, Named
<1>3. ValidationsApart'
    BY <1>1, <1>2 DEF ValidationsApart
<1>4. \A c : In(c)' = In(c)
    BY DEF In
<1>5. \A S : Unsettled(S) => (\A c \in Campaigns : campaign'[c].status = "VALIDATED" => S \cap In(c)' = {})
    BY <1>4 DEF Unsettled
<1>6. NamedUnsettled'
    BY <1>1, <1>2, <1>5 DEF NamedUnsettled, Unsettled
<1>7. SnapshotCurrent'
    BY <1>1, <1>2, <1>4 DEF SnapshotCurrent
<1>8. LocksAgree'
    BY <1>1, <1>4 DEF LocksAgree
<1>9. LateSettled'
    BY <1>1 DEF LateSettled, Validated
<1>. QED BY <1>3, <1>6, <1>7, <1>8, <1>9

LEMMA CreateKeeps ==
    ASSUME CampaignTyped, LocksInv, NEW p \in Clerks, CommitCreate(p)
    PROVE  LocksInv'
<1> SUFFICES ASSUME campaignRegime' = "apart"
             PROVE  /\ ValidationsApart' /\ NamedUnsettled' /\ LateSettled'
                    /\ SnapshotCurrent' /\ LocksAgree'
    BY DEF LocksInv
<1>1. ValidationsApart /\ NamedUnsettled /\ LateSettled /\ SnapshotCurrent /\ LocksAgree
    BY DEF LocksInv, CommitCreate
<1>2. /\ \A q \in Clerks : clerk'[q] = IF q = p THEN Free ELSE clerk[q]
      /\ item' = item
    BY DEF CampaignTyped, CommitCreate
<1>3. \A q \in Named' : q \in Named /\ clerk'[q] = clerk[q] /\ clerk[q].c \in Campaigns
    BY <1>2, FreeTyped DEF Named, CampaignTyped, ClerkRow
<1>4. \A c \in Campaigns :
         \/ campaign'[c] = campaign[c]
         \/ /\ campaign[c].status = "absent"
            /\ campaign'[c].status = "OPEN"
    BY DEF CommitCreate, CampaignTyped, Created, NoRow
<1>5. \A c : In(c)' = In(c)
    BY <1>2 DEF In
<1>6. ValidationsApart'
    BY <1>1, <1>3 DEF ValidationsApart
<1>7. NamedUnsettled'
    BY <1>1, <1>3, <1>4, <1>5 DEF NamedUnsettled, Unsettled
<1>8. SnapshotCurrent'
    BY <1>1, <1>3, <1>5 DEF SnapshotCurrent
<1>9. LocksAgree'
    BY <1>1, <1>2, <1>4, <1>5 DEF LocksAgree, CommitCreate
<1>10. LateSettled'
    BY <1>1, <1>2, <1>4 DEF LateSettled, Validated, CampaignTyped, ItemRow
<1>. QED BY <1>6, <1>7, <1>8, <1>9, <1>10

\* The write of a request that names a campaign, and neither approves it nor
\* registers into it: nothing settled moves.
LEMMA NamedKeeps ==
    ASSUME CampaignTyped, LocksInv, NEW p \in Clerks, CommitRequest(p),
           clerk[p].op \in NamingOps, clerk[p].op \notin {"approve", "register"}
    PROVE  LocksInv'
<1> SUFFICES ASSUME campaignRegime' = "apart"
             PROVE  /\ ValidationsApart' /\ NamedUnsettled' /\ LateSettled'
                    /\ SnapshotCurrent' /\ LocksAgree'
    BY DEF LocksInv
<1>1. /\ campaignRegime = "apart"
      /\ ValidationsApart /\ NamedUnsettled /\ LateSettled /\ SnapshotCurrent /\ LocksAgree
    BY DEF LocksInv, CommitRequest
<1>2. p \in Named /\ clerk[p].c \in Campaigns
    BY DEF CampaignTyped, NamesRight, Named, ClerkRow
<1>3. campaign[clerk[p].c].status # "VALIDATED" /\ Unsettled(clerk[p].items)
    BY <1>1, <1>2 DEF NamedUnsettled
<1>4. \A c \in Campaigns :
         /\ campaign[c].status = "VALIDATED" <=> campaign'[c].status = "VALIDATED"
         /\ campaign[c].status = "VALIDATED" => campaign'[c] = campaign[c]
         /\ campaign[c].status # "absent" => campaign'[c].status # "absent"
    BY <1>3, CampaignWritten
<1>5. \A i \in Items : /\ i \notin clerk[p].items => item'[i] = item[i]
                       /\ i \in clerk[p].items => item'[i].campaign \in {clerk[p].c, NoCampaign}
                       /\ item'[i].locked => item[i].locked
                       /\ item'[i].late = item[i].late
    BY ItemWritten
<1>6. \A c \in Campaigns : campaign[c].status = "VALIDATED" =>
         /\ In(c)' = In(c)
         /\ \A i \in In(c) : item'[i] = item[i]
    <2> SUFFICES ASSUME NEW c \in Campaigns, campaign[c].status = "VALIDATED"
                 PROVE  In(c)' = In(c) /\ \A i \in In(c) : item'[i] = item[i]
        OBVIOUS
    <2>1. \A i \in clerk[p].items : i \notin In(c)
        BY <1>3 DEF Unsettled
    <2>2. c # clerk[p].c /\ c # NoCampaign
        BY <1>3, CampaignNames
    <2>. QED BY <1>5, <2>1, <2>2 DEF In
<1>7. \A q \in Clerks : clerk'[q] = IF q = p THEN Free ELSE clerk[q]
    BY DEF CampaignTyped, CommitRequest
<1>8. \A q \in Named' : q \in Named /\ q # p /\ clerk'[q] = clerk[q] /\ clerk[q].c \in Campaigns
    BY <1>7, FreeTyped DEF Named, CampaignTyped, ClerkRow
<1>9. ValidationsApart'
    BY <1>1, <1>8 DEF ValidationsApart
<1>10. NamedUnsettled'
    <2> SUFFICES ASSUME NEW q \in Named'
                 PROVE  /\ campaign'[clerk'[q].c].status # "absent"
                        /\ clerk'[q].op # "register" =>
                              /\ campaign'[clerk'[q].c].status # "VALIDATED"
                              /\ \A c \in Campaigns : campaign'[c].status = "VALIDATED" =>
                                    clerk'[q].items \cap In(c)' = {}
        BY DEF NamedUnsettled, Unsettled
    <2>1. /\ campaign[clerk[q].c].status # "absent"
          /\ clerk[q].op # "register" => /\ campaign[clerk[q].c].status # "VALIDATED"
                                         /\ Unsettled(clerk[q].items)
        BY <1>1, <1>8 DEF NamedUnsettled
    <2>. QED BY <1>4, <1>6, <1>8, <2>1 DEF Unsettled
<1>11. SnapshotCurrent'
    BY <1>1, <1>2, <1>8 DEF SnapshotCurrent, ValidationsApart, Validations
<1>12. LocksAgree'
    <2>1. ASSUME NEW c \in Campaigns, campaign'[c].status = "VALIDATED" PROVE Approved(c)'
        <3>1. campaign[c].status = "VALIDATED" /\ campaign'[c] = campaign[c]
            BY <1>4, <2>1
        <3>2. Approved(c)
            BY <1>1, <3>1 DEF LocksAgree, Approved
        <3>3. In(c)' = In(c) /\ \A i \in In(c) : item'[i] = item[i]
            BY <1>6, <3>1
        <3>. QED BY <3>1, <3>2, <3>3 DEF Approved
    <2>2. ASSUME NEW i \in Items, item'[i].locked
          PROVE  \E c \in Campaigns : campaign'[c].status = "VALIDATED" /\ i \in campaign'[c].listed
        BY <1>1, <1>4, <1>5, <2>2 DEF LocksAgree
    <2>. QED BY <2>1, <2>2 DEF LocksAgree, Approved
<1>13. LateSettled'
    <2> SUFFICES ASSUME NEW i \in Items, item'[i].late
                 PROVE  Validated(item[i].campaign)'
        BY DEF LateSettled, Validated
    <2>1. Validated(item[i].campaign) /\ item[i].campaign \in Campaigns
        BY <1>1, <1>5 DEF LateSettled, Validated, CampaignTyped, ItemRow
    <2>2. i \in In(item[i].campaign)
        BY DEF In
    <2>. QED BY <1>4, <1>6, <2>1, <2>2 DEF Validated
<1>. QED BY <1>9, <1>10, <1>11, <1>12, <1>13

\* A registration writes rows nobody else writes, in no campaign until then.
LEMMA RegistrationKeeps ==
    ASSUME CampaignTyped, LocksInv, NEW p \in Clerks, CommitRequest(p), clerk[p].op = "register"
    PROVE  LocksInv'
<1> SUFFICES ASSUME campaignRegime' = "apart"
             PROVE  /\ ValidationsApart' /\ NamedUnsettled' /\ LateSettled'
                    /\ SnapshotCurrent' /\ LocksAgree'
    BY DEF LocksInv
<1> DEFINE r == clerk[p]
<1>1. /\ campaignRegime = "apart"
      /\ ValidationsApart /\ NamedUnsettled /\ LateSettled /\ SnapshotCurrent /\ LocksAgree
    BY DEF LocksInv, CommitRequest
<1>2. \A c \in Campaigns : campaign'[c] = campaign[c]
    BY CampaignWritten
<1>3. \A i \in Items : /\ i \notin r.items => item'[i] = item[i]
                       /\ i \in r.items => /\ item'[i].campaign = r.c /\ ~ item'[i].locked
                                           /\ item'[i].late = Validated(r.c)
    BY ItemWritten
<1>4. \A i \in r.items : i \in Items /\ item[i].state = "absent" /\ item[i].campaign = NoCampaign
    BY DEF CampaignTyped, ClerkRow, Writes, Unborn
<1>5. \A c \in Campaigns : /\ \A i \in In(c) : i \in Items /\ i \notin r.items /\ item'[i] = item[i]
                           /\ In(c) \subseteq In(c)'
                           /\ \A i \in In(c)' : i \in In(c) \/ (i \in r.items /\ r.c = c)
    BY <1>3, <1>4, CampaignNames DEF In
<1>6. \A q \in Named' : q \in Named /\ q # p /\ clerk'[q] = clerk[q] /\ clerk[q].c \in Campaigns
    <2>1. \A q \in Clerks : clerk'[q] = IF q = p THEN Free ELSE clerk[q]
        BY DEF CampaignTyped, CommitRequest
    <2>. QED BY <2>1, FreeTyped DEF Named, CampaignTyped, ClerkRow
<1>7. ValidationsApart'
    BY <1>1, <1>6 DEF ValidationsApart
<1>8. NamedUnsettled'
    <2> SUFFICES ASSUME NEW q \in Named'
                 PROVE  /\ campaign'[clerk'[q].c].status # "absent"
                        /\ clerk'[q].op # "register" =>
                              /\ campaign'[clerk'[q].c].status # "VALIDATED"
                              /\ \A c \in Campaigns : campaign'[c].status = "VALIDATED" =>
                                    clerk'[q].items \cap In(c)' = {}
        BY DEF NamedUnsettled, Unsettled
    <2>1. /\ campaign[clerk[q].c].status # "absent"
          /\ clerk[q].op # "register" => /\ campaign[clerk[q].c].status # "VALIDATED"
                                         /\ Unsettled(clerk[q].items)
        BY <1>1, <1>6 DEF NamedUnsettled
    <2>2. q \in Clerks
        BY <1>6 DEF Named
    <2>3. clerk[q].op # "register" => \A i \in clerk[q].items : i \notin r.items
        BY <1>4, <2>2 DEF CampaignTyped, Writes, Present
    <2>. QED BY <1>2, <1>5, <1>6, <2>1, <2>3 DEF Unsettled
<1>9. \A c \in Campaigns : r.c # c => In(c)' = In(c)
    BY <1>5
<1>10. SnapshotCurrent'
    <2>1. ASSUME NEW q \in Named', clerk'[q].op = "approve"
          PROVE  /\ q \in Named /\ clerk'[q] = clerk[q] /\ clerk[q].c \in Campaigns
                 /\ r.c = NoCampaign
        <3>1. q \in Named /\ q # p /\ clerk'[q] = clerk[q] /\ clerk[q].c \in Campaigns
            BY <1>6
        <3>2. p \notin Named
            BY <1>1, <2>1, <3>1 DEF ValidationsApart, Validations
        <3>. QED BY <3>1, <3>2 DEF Named
    <2>2. r.c = NoCampaign => \A c \in Campaigns : In(c)' = In(c)
        BY <1>9, CampaignNames
    <2>. QED BY <1>1, <2>1, <2>2 DEF SnapshotCurrent
<1>11. LocksAgree'
    <2>1. ASSUME NEW c \in Campaigns, campaign'[c].status = "VALIDATED" PROVE Approved(c)'
        <3>1. campaign[c].status = "VALIDATED" /\ campaign'[c] = campaign[c]
            BY <1>2, <2>1
        <3>2. Approved(c)
            BY <1>1, <3>1 DEF LocksAgree, Approved
        <3>3. \A i \in In(c)' \ In(c) : item'[i].late
            BY <1>3, <1>4, <1>5, <3>1, CampaignNames DEF Validated
        <3>4. {i \in In(c)' : ~ item'[i].late} = {i \in In(c) : ~ item[i].late}
            BY <1>5, <3>3
        <3>5. campaign[c].listed \subseteq In(c)
            BY <3>2 DEF Approved
        <3>6. campaign'[c].listed = {i \in In(c)' : ~ item'[i].late}
            BY <3>1, <3>2, <3>4 DEF Approved
        <3>7. \A i \in campaign'[c].listed :
                 item'[i].lockedBy = c /\ (item'[i].locked \/ item'[i].freed)
            BY <1>5, <3>1, <3>2, <3>5 DEF Approved
        <3>. QED BY <3>6, <3>7 DEF Approved
    <2>2. ASSUME NEW i \in Items, item'[i].locked
          PROVE  \E c \in Campaigns : campaign'[c].status = "VALIDATED" /\ i \in campaign'[c].listed
        BY <1>1, <1>2, <1>3, <2>2 DEF LocksAgree
    <2>. QED BY <2>1, <2>2 DEF LocksAgree, Approved
<1>12. LateSettled'
    <2> SUFFICES ASSUME NEW i \in Items, item'[i].late
                 PROVE  item'[i].campaign # NoCampaign
                        /\ campaign'[item'[i].campaign].status = "VALIDATED"
        BY DEF LateSettled, Validated
    <2>1. CASE i \in r.items
        <3>1. Validated(r.c) /\ item'[i].campaign = r.c
            BY <1>3, <2>1
        <3>2. r.c \in Campaigns
            BY <3>1 DEF Validated, CampaignTyped, ClerkRow
        <3>. QED BY <1>2, <3>1, <3>2 DEF Validated
    <2>2. CASE i \notin r.items
        <3>1. Validated(item[i].campaign) /\ item'[i] = item[i] /\ item[i].campaign \in Campaigns
            BY <1>1, <1>3, <2>2 DEF LateSettled, Validated, CampaignTyped, ItemRow
        <3>. QED BY <1>2, <3>1 DEF Validated
    <2>. QED BY <2>1, <2>2
<1>. QED BY <1>7, <1>8, <1>10, <1>11, <1>12

\* The approval: nobody else names a campaign, so the snapshot is what is locked.
LEMMA ApprovalKeeps ==
    ASSUME CampaignTyped, LocksInv, NEW p \in Clerks, CommitRequest(p), clerk[p].op = "approve"
    PROVE  LocksInv'
<1> SUFFICES ASSUME campaignRegime' = "apart"
             PROVE  /\ ValidationsApart' /\ NamedUnsettled' /\ LateSettled'
                    /\ SnapshotCurrent' /\ LocksAgree'
    BY DEF LocksInv
<1> DEFINE r == clerk[p]
<1>1. /\ campaignRegime = "apart"
      /\ ValidationsApart /\ NamedUnsettled /\ LateSettled /\ SnapshotCurrent /\ LocksAgree
    BY DEF LocksInv, CommitRequest
<1>2. p \in Named /\ r.c \in Campaigns /\ r.phase = "commit"
    BY DEF CampaignTyped, NamesRight, Named, ClerkRow, NamingOps, CommitRequest
<1>3. r.snapshot = In(r.c) /\ r.items = In(r.c) /\ campaign[r.c].status # "VALIDATED"
    BY <1>1, <1>2 DEF SnapshotCurrent, NamedUnsettled
<1>9. \A i \in In(r.c) : ~ item[i].late
    BY <1>1, <1>3 DEF LateSettled, Validated, In
<1>4. Named' = {}
    <2>1. \A q \in Clerks : clerk'[q] = IF q = p THEN Free ELSE clerk[q]
        BY DEF CampaignTyped, CommitRequest
    <2>. QED BY <1>1, <1>2, <2>1, FreeTyped DEF Named, ValidationsApart, Validations
<1>5. \A i \in Items : /\ i \notin r.items => item'[i] = item[i]
                       /\ i \in r.items => /\ item'[i].campaign = item[i].campaign
                                           /\ item'[i].lockedBy = r.c /\ item'[i].locked
                                           /\ item'[i].late = item[i].late
    BY ItemWritten
<1>6. \A c : In(c)' = In(c)
    BY <1>5 DEF In
<1>7. /\ \A c \in Campaigns : c # r.c => campaign'[c] = campaign[c]
      /\ campaign'[r.c].status = "VALIDATED" /\ campaign'[r.c].listed = r.snapshot
    BY <1>2, CampaignWritten
<1>8. LocksAgree'
    <2>1. ASSUME NEW c \in Campaigns, campaign'[c].status = "VALIDATED"
          PROVE  Approved(c)'
        <3>1. CASE c = r.c
            <4>1. \A i \in In(c) : /\ i \in Items /\ i \in r.items /\ ~ item'[i].late
                                   /\ item'[i].lockedBy = c /\ item'[i].locked
                BY <1>3, <1>5, <1>9, <3>1 DEF In
            <4>2. campaign'[c].listed = In(c) /\ In(c)' = In(c)
                BY <1>3, <1>6, <1>7, <3>1
            <4>. QED BY <4>1, <4>2 DEF Approved
        <3>2. CASE c # r.c
            <4>1. campaign[c].status = "VALIDATED" /\ campaign'[c] = campaign[c]
                BY <1>7, <2>1, <3>2
            <4>2. \A i \in In(c) : i \in Items /\ i \notin r.items
                BY <1>3, <3>2 DEF In
            <4>3. Approved(c)
                BY <1>1, <4>1 DEF LocksAgree, Approved
            <4>4. In(c)' = In(c) /\ \A i \in In(c) : item'[i] = item[i]
                BY <1>5, <1>6, <4>2
            <4>. QED BY <4>1, <4>3, <4>4 DEF Approved
        <3>. QED BY <3>1, <3>2
    <2>2. ASSUME NEW i \in Items, item'[i].locked
          PROVE  \E c \in Campaigns : campaign'[c].status = "VALIDATED" /\ i \in campaign'[c].listed
        <3>1. CASE i \in r.items
            BY <1>2, <1>3, <1>7, <3>1
        <3>2. CASE i \notin r.items
            <4>1. PICK c \in Campaigns : campaign[c].status = "VALIDATED" /\ i \in campaign[c].listed
                BY <1>1, <1>5, <2>2, <3>2 DEF LocksAgree
            <4>. QED BY <1>3, <1>7, <4>1
        <3>. QED BY <3>1, <3>2
    <2>. QED BY <2>1, <2>2 DEF LocksAgree, Approved
<1>10. LateSettled'
    BY <1>1, <1>3, <1>5, <1>7, <1>9 DEF LateSettled, Validated, CampaignTyped, ItemRow, In
<1>. QED BY <1>4, <1>8, <1>10 DEF ValidationsApart, NamedUnsettled, SnapshotCurrent

\* Unlocking, retiring and transferring moves no item between campaigns.
LEMMA PlainKeeps ==
    ASSUME CampaignTyped, LocksInv, NEW p \in Clerks, CommitRequest(p), clerk[p].op \in PlainOps
    PROVE  LocksInv'
<1> SUFFICES ASSUME campaignRegime' = "apart"
             PROVE  /\ ValidationsApart' /\ NamedUnsettled' /\ LateSettled'
                    /\ SnapshotCurrent' /\ LocksAgree'
    BY DEF LocksInv
<1>1. ValidationsApart /\ NamedUnsettled /\ LateSettled /\ SnapshotCurrent /\ LocksAgree
    BY DEF LocksInv, CommitRequest
<1>2. \A i \in Items :
         /\ item'[i].campaign = item[i].campaign
         /\ item'[i].lockedBy = item[i].lockedBy
         /\ item'[i].locked => item[i].locked
         /\ item[i].locked \/ item[i].freed => item'[i].locked \/ item'[i].freed
         /\ item'[i].late = item[i].late
    BY ItemWritten DEF PlainOps
<1>3. \A c \in Campaigns : campaign'[c] = campaign[c]
    BY CampaignWritten DEF PlainOps
<1>4. \A c : In(c)' = In(c)
    BY <1>2 DEF In
<1>5. \A q \in Clerks : clerk'[q] = IF q = p THEN Free ELSE clerk[q]
    BY DEF CampaignTyped, CommitRequest
<1>6. \A q \in Named' : q \in Named /\ clerk'[q] = clerk[q] /\ clerk[q].c \in Campaigns
    BY <1>5, FreeTyped DEF Named, CampaignTyped, ClerkRow
<1>7. ValidationsApart'
    BY <1>1, <1>6 DEF ValidationsApart
<1>8. NamedUnsettled'
    BY <1>1, <1>3, <1>4, <1>6 DEF NamedUnsettled, Unsettled
<1>9. SnapshotCurrent'
    BY <1>1, <1>4, <1>6 DEF SnapshotCurrent
<1>10. LocksAgree'
    <2>1. ASSUME NEW c \in Campaigns, campaign'[c].status = "VALIDATED" PROVE Approved(c)'
        <3>1. campaign[c].status = "VALIDATED" /\ campaign'[c] = campaign[c] /\ In(c)' = In(c)
            BY <1>3, <1>4, <2>1
        <3>2. campaignRegime = "apart"
            BY DEF CommitRequest
        <3>3. Approved(c)
            BY <1>1, <3>1, <3>2 DEF LocksAgree, Approved
        <3>4. In(c) \subseteq Items
            BY DEF In
        <3>5. campaign'[c].listed = {i \in In(c)' : ~ item'[i].late}
            BY <1>2, <3>1, <3>3, <3>4 DEF Approved
        <3>6. campaign[c].listed \subseteq Items
            BY <3>3, <3>4 DEF Approved
        <3>. QED BY <1>2, <3>1, <3>3, <3>5, <3>6 DEF Approved
    <2>2. ASSUME NEW i \in Items, item'[i].locked
          PROVE  \E c \in Campaigns : campaign'[c].status = "VALIDATED" /\ i \in campaign'[c].listed
        BY <1>1, <1>2, <1>3, <2>2 DEF LocksAgree, LocksInv, CommitRequest
    <2>. QED BY <2>1, <2>2 DEF LocksAgree, Approved
<1>11. LateSettled'
    BY <1>1, <1>2, <1>3 DEF LateSettled, Validated, CampaignTyped, ItemRow
<1>. QED BY <1>7, <1>8, <1>9, <1>10, <1>11

LEMMA LocksInit == CampaignInit => LocksInv
<1> SUFFICES ASSUME CampaignInit PROVE LocksInv
    OBVIOUS
<1>1. Named = {}
    BY FreeTyped DEF CampaignInit, Named
<1>2. \A c \in Campaigns : campaign[c].status = "absent"
    BY DEF CampaignInit, NoRow
<1>3. \A i \in Items : ~ item[i].locked /\ ~ item[i].late
    BY DEF CampaignInit, NoItem, NewItem
<1>. QED BY <1>1, <1>2, <1>3
         DEF LocksInv, ValidationsApart, NamedUnsettled, LateSettled, SnapshotCurrent, LocksAgree

LEMMA LocksStep ==
    ASSUME CampaignTyped, LocksInv, [CampaignNext]_cvars
    PROVE  LocksInv'
<1>1. CASE UNCHANGED cvars
    BY <1>1 DEF cvars, LocksInv, ValidationsApart, NamedUnsettled, LateSettled, SnapshotCurrent,
       LocksAgree, Named, Unsettled, In, Validated
<1>2. CASE CampaignNext
    <2>1. PICK p \in Clerks : CampaignStep(p)
        BY <1>2 DEF CampaignNext
    <2>2. CASE \E r \in ClerkRow : Opens(p, r)
        <3>1. PICK r \in ClerkRow : Opens(p, r)
            BY <2>2
        <3>2. campaignRegime = "apart" /\ r.c # NoCampaign =>
                 \A q \in Named \ {p} : r.op \notin Validations /\ clerk[q].op \notin Validations
            BY <3>1, FreeTyped DEF Opens, Begin, MayAct, Named
        <3>. QED BY <3>1, <3>2, ClerkOnly DEF Opens, Begin
    <2>3. CASE GiveUp(p)
        BY <2>3, FreeTyped, ClerkOnly DEF GiveUp
    <2>4. CASE GenerateFolio(p)
        <3> DEFINE r == [clerk[p] EXCEPT !.phase = "commit", !.folio = Folios]
        <3>1. Folios \in {Cardinality(S) : S \in SUBSET Campaigns}
            BY DEF Folios
        <3>2. clerk[p] \in ClerkRow /\ NamesRight(clerk[p])
            BY DEF CampaignTyped
        <3>3. r \in ClerkRow /\ r.c = clerk[p].c
            BY <3>1, <3>2 DEF ClerkRow
        <3>4. clerk[p].c = NoCampaign
            BY <2>4, <3>2 DEF GenerateFolio, NamesRight
        <3>5. clerk' = [clerk EXCEPT ![p] = r] /\ UNCHANGED <<campaign, item, campaignRegime>>
            BY <2>4 DEF GenerateFolio, CampaignTyped
        <3> HIDE DEF r
        <3>. QED BY <3>3, <3>4, <3>5, ClerkOnly
    <2>5. CASE ReadItems(p)
        <3> DEFINE r == [clerk[p] EXCEPT !.phase = "commit", !.items = In(clerk[p].c)]
        <3>1. clerk[p] \in ClerkRow /\ NamesRight(clerk[p]) /\ In(clerk[p].c) \in SUBSET Items
            BY DEF CampaignTyped, In
        <3>2. /\ r \in ClerkRow /\ r.op = clerk[p].op /\ r.c = clerk[p].c
              /\ r.snapshot = clerk[p].snapshot /\ r.items = In(clerk[p].c)
            BY <3>1 DEF ClerkRow
        <3>3. clerk[p].op = "approve" /\ clerk[p].c \in Campaigns /\ p \in Named
            BY <2>5, <3>1 DEF ReadItems, NamesRight, NamingOps, Named, ClerkRow
        <3>4. clerk' = [clerk EXCEPT ![p] = r] /\ UNCHANGED <<campaign, item, campaignRegime>>
            BY <2>5 DEF ReadItems, CampaignTyped
        <3>5. campaignRegime = "apart" =>
                 /\ campaign[clerk[p].c].status \notin {"VALIDATED", "absent"}
                 /\ clerk[p].snapshot = In(clerk[p].c)
                 /\ Named \ {p} = {}
            BY <3>3 DEF LocksInv, NamedUnsettled, SnapshotCurrent, ValidationsApart, Validations
        <3>6. campaignRegime = "apart" => Unsettled(In(clerk[p].c))
            BY <3>3, <3>5 DEF Unsettled, In
        <3> HIDE DEF r
        <3>. QED BY <3>2, <3>3, <3>4, <3>5, <3>6, ClerkOnly
    <2>6. CASE CommitCreate(p)
        BY <2>6, CreateKeeps
    <2>7. CASE CommitRequest(p)
        <3>1. clerk[p].op \in NamingOps \cup PlainOps
            BY DEF CampaignTyped, ClerkRow
        <3>. QED BY <2>7, <3>1, NamedKeeps, RegistrationKeeps, ApprovalKeeps, PlainKeeps
    <2>. QED BY <2>1, <2>2, <2>3, <2>4, <2>5, <2>6, <2>7, Openings
<1>. QED BY <1>1, <1>2

\* The rows of the inventory keep their types, whatever overlaps.
THEOREM CampaignTypeCorrect == CampaignSpec => []CampaignTyped
BY CampaignTypeInit, CampaignTypeStep, PTL DEF CampaignSpec

\* While a validation is kept apart from the requests that name a campaign,
\* what its head approved is what is locked, and nothing else is; only what is
\* registered into a validated campaign joins it later, unlocked.
THEOREM LocksAgreeHolds == CampaignSpec => []LocksAgree
<1>1. CampaignSpec => [](CampaignTyped /\ LocksInv)
    BY CampaignTypeInit, CampaignTypeStep, LocksInit, LocksStep, PTL DEF CampaignSpec
<1>2. LocksInv => LocksAgree
    BY DEF LocksInv, LocksAgree
<1>. QED BY <1>1, <1>2, PTL

=============================================================================
