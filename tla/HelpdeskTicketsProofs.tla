------------------------ MODULE HelpdeskTicketsProofs -----------------------
(***************************************************************************)
(* Proofs about HelpdeskTickets, for any tickets, sessions and technicians *)
(* and in both regimes.  Every reading step is first reduced to one of two *)
(* shapes, a plain read or a read that assigns (lemma Shapes); each        *)
(* invariant then has five steps to survive instead of thirteen.           *)
(***************************************************************************)
EXTENDS HelpdeskTickets, SequenceTheorems, TLAPS

-----------------------------------------------------------------------------
(* The two shapes of a read.                                                *)

Work == Resolved \cup {"ASSIGNED", "IN_PROGRESS", "CLOSED"}
Fresh == {"NONE", "PENDING"}

FollowsFrom(v, w) ==
    \/ w.status = v.status
    \/ w.status # "NONE" /\ v.status \in Lifecycle!Before(w.status)

\* What a session that does not assign may leave in its copy w of the row v.
PlainWant(v, w) ==
    /\ w \in TicketRow
    /\ w.user = v.user /\ w.team = v.team
    /\ w.area = v.area \/ v.status \in Fresh
    /\ w.status \in Work => v.status \in Work
    /\ w.status \in Fresh => v.status \in Fresh
    /\ v.status = "CLOSED" => w.status = "CLOSED"
    /\ w.files # "kept" => v.files # "kept" \/ w.status = "CLOSED"
    /\ FollowsFrom(v, w)

\* The same for a session that assigns.
AssignWant(v, w) ==
    /\ w \in TicketRow
    /\ HasAssignee(w)
    /\ w.area = v.area /\ w.files = v.files
    /\ Attended(v) => Attended(w)
    /\ w.status \in Fresh => v.status \in Fresh /\ HasAssignee(v)
    /\ v.status = "CLOSED" => w.status = "CLOSED"
    /\ FollowsFrom(v, w)

PlainRead(p, t, w) == PlainWant(ticket[t], w) /\ Read(p, t, w)

AssignRead(p, t, w, ph) ==
    /\ AssignWant(ticket[t], w)
    /\ ph \in {"close", "commit"}
    /\ ph = "commit" <=> ~HasAssignee(ticket[t])
    /\ ReadToAssign(p, t, w, ph)

\* Every reading step is a plain read or a read that assigns.
LEMMA Shapes ==
    ASSUME TypeOK, Next
    PROVE \E p \in Sessions :
             \/ Commit(p)
             \/ Abort(p)
             \/ FindOpenRow(p)
             \/ \E t \in Tickets, w \in TicketRow : PlainRead(p, t, w)
             \/ \E t \in Tickets, w \in TicketRow, ph \in {"close", "commit"} :
                   AssignRead(p, t, w, ph)
<1>1. PICK p \in Sessions :
         \/ Commit(p) \/ Abort(p) \/ FindOpenRow(p)
         \/ \E t \in Tickets :
               \/ \E a \in Areas : ReadToCreate(p, t, a) \/ ReadToUpdate(p, t, a)
               \/ ReadToRate(p, t)
               \/ ReadToCancel(p, t)
               \/ \E u \in Users, g \in Teams : ReadToAssignTo(p, t, u, g)
               \/ \E u \in Techs : ReadToSelfAssign(p, t, u)
               \/ ReadToStart(p, t)
               \/ \E s \in Resolved : ReadToResolve(p, t, s)
               \/ ReadToMark(p, t)
               \/ ReadToDelete(p, t)
    BY DEF Next
<1>2. SUFFICES ASSUME NEW t \in Tickets,
                      \/ \E a \in Areas : ReadToCreate(p, t, a) \/ ReadToUpdate(p, t, a)
                      \/ ReadToRate(p, t)
                      \/ ReadToCancel(p, t)
                      \/ \E u \in Users, g \in Teams : ReadToAssignTo(p, t, u, g)
                      \/ \E u \in Techs : ReadToSelfAssign(p, t, u)
                      \/ ReadToStart(p, t)
                      \/ \E s \in Resolved : ReadToResolve(p, t, s)
                      \/ ReadToMark(p, t)
                      \/ ReadToDelete(p, t)
               PROVE \/ \E w \in TicketRow : PlainRead(p, t, w)
                     \/ \E w \in TicketRow, ph \in {"close", "commit"} : AssignRead(p, t, w, ph)
    BY <1>1, Zenon
<1>t. ticket[t] \in TicketRow
    BY DEF TypeOK
<1>3. CASE \E a \in Areas : ReadToCreate(p, t, a)
    <2>1. PICK a \in Areas : ReadToCreate(p, t, a)
        BY <1>3
    <2> DEFINE w == [ticket[t] EXCEPT !.status = "PENDING", !.area = a]
    <2>2. w \in TicketRow /\ PlainWant(ticket[t], w)
        BY <2>1, <1>t DEF ReadToCreate, PlainWant, FollowsFrom, TicketRow, Status, Open, Work,
           Fresh, Resolved, Lifecycle!Before, Lifecycle!Resolved
    <2>3. PlainRead(p, t, w)
        BY <2>1, <2>2 DEF ReadToCreate, PlainRead
    <2>. QED BY <2>2, <2>3
<1>4. CASE \E a \in Areas : ReadToUpdate(p, t, a)
    <2>1. PICK a \in Areas : ReadToUpdate(p, t, a)
        BY <1>4
    <2> DEFINE w == [ticket[t] EXCEPT !.area = a]
    <2>2. w \in TicketRow /\ PlainWant(ticket[t], w)
        BY <2>1, <1>t DEF ReadToUpdate, PlainWant, FollowsFrom, TicketRow, Status, Open, Work,
           Fresh, Resolved
    <2>3. PlainRead(p, t, w)
        BY <2>1, <2>2 DEF ReadToUpdate, PlainRead
    <2>. QED BY <2>2, <2>3
<1>5. CASE ReadToRate(p, t)
    <2> DEFINE w == [ticket[t] EXCEPT !.status = "CLOSED", !.rated = TRUE]
    <2>2. w \in TicketRow /\ PlainWant(ticket[t], w)
        BY <1>5, <1>t DEF ReadToRate, PlainWant, FollowsFrom, TicketRow, Status, Open, Work,
           Fresh, Resolved, Lifecycle!Before, Lifecycle!Resolved
    <2>3. PlainRead(p, t, w)
        BY <1>5, <2>2 DEF ReadToRate, PlainRead
    <2>. QED BY <2>2, <2>3
<1>6. CASE ReadToCancel(p, t)
    <2> DEFINE w == [ticket[t] EXCEPT !.status = "CANCELED"]
    <2>2. w \in TicketRow /\ PlainWant(ticket[t], w)
        BY <1>6, <1>t DEF ReadToCancel, PlainWant, FollowsFrom, TicketRow, Status, Open, Work,
           Fresh, Resolved, Lifecycle!Before, Lifecycle!Resolved
    <2>3. PlainRead(p, t, w)
        BY <1>6, <2>2 DEF ReadToCancel, PlainRead
    <2>. QED BY <2>2, <2>3
<1>7. CASE ReadToStart(p, t)
    <2> DEFINE w == [ticket[t] EXCEPT !.status = "IN_PROGRESS"]
    <2>2. w \in TicketRow /\ PlainWant(ticket[t], w)
        BY <1>7, <1>t DEF ReadToStart, PlainWant, FollowsFrom, TicketRow, Status, Open, Work,
           Fresh, Resolved, Lifecycle!Before, Lifecycle!Resolved
    <2>3. PlainRead(p, t, w)
        BY <1>7, <2>2 DEF ReadToStart, PlainRead
    <2>. QED BY <2>2, <2>3
<1>8. CASE \E s \in Resolved : ReadToResolve(p, t, s)
    <2>1. PICK s \in Resolved : ReadToResolve(p, t, s)
        BY <1>8
    <2> DEFINE w == [ticket[t] EXCEPT !.status = s]
    <2>2. w \in TicketRow /\ PlainWant(ticket[t], w)
        BY <2>1, <1>t DEF ReadToResolve, PlainWant, FollowsFrom, TicketRow, Status, Open, Work,
           Fresh, Resolved, Lifecycle!Before, Lifecycle!Resolved
    <2>3. PlainRead(p, t, w)
        BY <2>1, <2>2 DEF ReadToResolve, PlainRead
    <2>. QED BY <2>2, <2>3
<1>9. CASE ReadToMark(p, t)
    <2> DEFINE w == [ticket[t] EXCEPT !.files = "marked"]
    <2>2. w \in TicketRow /\ PlainWant(ticket[t], w)
        BY <1>9, <1>t DEF ReadToMark, PlainWant, FollowsFrom, TicketRow, Work, Fresh, Resolved
    <2>3. PlainRead(p, t, w)
        BY <1>9, <2>2 DEF ReadToMark, PlainRead
    <2>. QED BY <2>2, <2>3
<1>10. CASE ReadToDelete(p, t)
    <2> DEFINE w == [ticket[t] EXCEPT !.files = "deleted"]
    <2>2. w \in TicketRow /\ PlainWant(ticket[t], w)
        BY <1>10, <1>t DEF ReadToDelete, PlainWant, FollowsFrom, TicketRow, Work, Fresh, Resolved
    <2>3. PlainRead(p, t, w)
        BY <1>10, <2>2 DEF ReadToDelete, PlainRead
    <2>. QED BY <2>2, <2>3
<1>11. CASE \E u \in Users, g \in Teams : ReadToAssignTo(p, t, u, g)
    <2>1. PICK u \in Users, g \in Teams : ReadToAssignTo(p, t, u, g)
        BY <1>11
    <2> DEFINE w == Assigned(ticket[t], u, g)
               ph == IF HasAssignee(ticket[t]) THEN "close" ELSE "commit"
    <2>2. /\ w \in TicketRow
          /\ w.user = u /\ w.team = g /\ w.status = "ASSIGNED"
          /\ w.area = ticket[t].area /\ w.files = ticket[t].files
        BY <1>t DEF Assigned, TicketRow, Status, Open
    <2>3. /\ ticket[t].status \in {"PENDING", "ASSIGNED"}
          /\ MayAttend(ticket[t].area, u, g)
          /\ ReadToAssign(p, t, w, ph)
        BY <2>1 DEF ReadToAssignTo
    <2>4. HasAssignee(w) /\ Attended(w)
        BY <2>2, <2>3, <1>t, HelpdeskRoles
           DEF MayAttend, HasAssignee, Attended, TicketRow, Areas
    <2>5. FollowsFrom(ticket[t], w)
        BY <2>2, <2>3 DEF FollowsFrom, Lifecycle!Before, Lifecycle!Resolved
    <2>6. AssignWant(ticket[t], w)
        BY <2>2, <2>3, <2>4, <2>5 DEF AssignWant, Fresh
    <2>7. AssignRead(p, t, w, ph)
        BY <2>3, <2>6 DEF AssignRead
    <2>. QED BY <2>2, <2>7
<1>12. CASE \E u \in Techs : ReadToSelfAssign(p, t, u)
    <2>1. PICK u \in Techs : ReadToSelfAssign(p, t, u)
        BY <1>12
    <2> DEFINE w == [ticket[t] EXCEPT !.user = u, !.team = "NONE"]
    <2>2. /\ w \in TicketRow
          /\ w.user = u /\ w.team = "NONE" /\ w.status = ticket[t].status
          /\ w.area = ticket[t].area /\ w.files = ticket[t].files
        BY <1>t DEF TicketRow, Users, Teams
    <2>3. /\ ticket[t].team \in Serves[u] /\ ticket[t].user = NoOne
          /\ ReadToAssign(p, t, w, "close")
        BY <2>1 DEF ReadToSelfAssign
    <2>4. ticket[t].team \in Areas /\ u # NoOne
        BY <2>3, HelpdeskRoles
    <2>5. HasAssignee(w) /\ HasAssignee(ticket[t]) /\ (Attended(ticket[t]) => Attended(w))
        BY <2>2, <2>3, <2>4, HelpdeskRoles DEF HasAssignee, Attended, Areas
    <2>6. AssignWant(ticket[t], w)
        BY <2>2, <2>5 DEF AssignWant, FollowsFrom
    <2>7. AssignRead(p, t, w, "close")
        BY <2>3, <2>5, <2>6 DEF AssignRead
    <2>. QED BY <2>2, <2>7
<1>. QED BY <1>2, <1>3, <1>4, <1>5, <1>6, <1>7, <1>8, <1>9, <1>10, <1>11, <1>12

-----------------------------------------------------------------------------
(* Types.                                                                   *)

LEMMA ColumnsTyped ==
    ASSUME NEW v \in TicketRow, NEW s \in TicketRow, NEW w \in TicketRow
    PROVE ChangedColumns(v, s, w) \in TicketRow
BY DEF ChangedColumns, TicketRow

LEMMA ClosedTyped ==
    ASSUME NEW r \in Seq(AssignmentRow), NEW i \in 0 .. Len(r)
    PROVE /\ Closed(r, i) \in Seq(AssignmentRow)
          /\ Len(Closed(r, i)) = Len(r)
          /\ \A j \in 1 .. Len(r) : Closed(r, i)[j].open <=> r[j].open /\ j # i
<1>1. CASE i = 0
    <2>1. \A j \in 1 .. Len(r) : j # 0 /\ r[j] \in AssignmentRow
        OBVIOUS
    <2>2. \A j \in 1 .. Len(r) : r[j].open \in BOOLEAN
        BY <2>1 DEF AssignmentRow
    <2>3. Closed(r, i) = r
        BY <1>1 DEF Closed
    <2>4. \A j \in 1 .. Len(r) : j # i
        BY <1>1, <2>1
    <2>5. \A j \in 1 .. Len(r) : r[j].open <=> r[j].open /\ j # i
        BY <2>2, <2>4
    <2>. QED BY <2>3, <2>5
<1>2. CASE i # 0
    <2>1. i \in 1 .. Len(r)
        BY <1>2
    <2>a. r[i] \in AssignmentRow
        BY <2>1
    <2>2. [r[i] EXCEPT !.open = FALSE] \in AssignmentRow
        BY <2>a DEF AssignmentRow
    <2>3. Closed(r, i) = [r EXCEPT ![i] = [r[i] EXCEPT !.open = FALSE]]
        BY <1>2 DEF Closed
    <2>4. Closed(r, i) \in Seq(AssignmentRow) /\ Len(Closed(r, i)) = Len(r)
        BY <2>1, <2>2, <2>3, ExceptSeq
    <2>5. DOMAIN r = 1 .. Len(r)
        OBVIOUS
    <2>6. ASSUME NEW j \in 1 .. Len(r)
          PROVE Closed(r, i)[j].open <=> r[j].open /\ j # i
        <3>1. r[j] \in AssignmentRow
            OBVIOUS
        <3>. QED BY <2>1, <2>3, <2>5, <3>1 DEF AssignmentRow
    <2>. QED BY <2>4, <2>6
<1>. QED BY <1>1, <1>2

\* What the rows of a ticket are after a commit.
LEMMA RowsAfter ==
    ASSUME NEW r \in Seq(AssignmentRow), NEW i \in 0 .. Len(r),
           NEW a \in AssignmentRow, a # NoRow
    PROVE /\ RowsWritten(r, i, a) \in Seq(AssignmentRow)
          /\ Len(RowsWritten(r, i, a)) = Len(r) + 1
          /\ RowsWritten(r, i, a)[Len(r) + 1] = a
          /\ \A j \in 1 .. Len(r) : RowsWritten(r, i, a)[j].open <=> r[j].open /\ j # i
<1>1. Closed(r, i) \in Seq(AssignmentRow) /\ Len(Closed(r, i)) = Len(r)
    BY ClosedTyped
<1>2. \A j \in 1 .. Len(r) : Closed(r, i)[j].open <=> r[j].open /\ j # i
    BY ClosedTyped
<1>3. RowsWritten(r, i, a) = Append(Closed(r, i), a)
    BY DEF RowsWritten
<1>4. /\ RowsWritten(r, i, a) \in Seq(AssignmentRow)
      /\ Len(RowsWritten(r, i, a)) = Len(r) + 1
      /\ RowsWritten(r, i, a)[Len(r) + 1] = a
    BY <1>1, <1>3
<1>5. ASSUME NEW j \in 1 .. Len(r)
      PROVE RowsWritten(r, i, a)[j] = Closed(r, i)[j]
    BY <1>1, <1>3
<1>. QED BY <1>2, <1>4, <1>5

\* The row that a session is about to close exists.
CloseExists ==
    \A p \in Sessions : session[p].phase # "idle" =>
       session[p].ticket \in Tickets /\ session[p].close \in 0 .. Len(rows[session[p].ticket])

LEMMA TypeInit == Init => TypeOK /\ CloseExists
<1>. SUFFICES ASSUME Init PROVE TypeOK /\ CloseExists
    OBVIOUS
<1>1. Absent \in TicketRow
    BY DEF Absent, TicketRow, Status, Open, Areas, Users, Teams
<1>2. NoRow \in AssignmentRow
    BY DEF NoRow, AssignmentRow, Users, Teams
<1>3. Idle \in SessionRecord
    BY <1>1, <1>2, HelpdeskBounds DEF Idle, SessionRecord
<1>4. TypeOK
    BY <1>1, <1>3, HelpdeskBounds, HelpdeskRegimes DEF Init, TypeOK
<1>. QED BY <1>4 DEF Init, CloseExists, Idle

LEMMA TypeStep ==
    ASSUME TypeOK, CloseExists, [Next]_vars
    PROVE TypeOK' /\ CloseExists'
<1>1. CASE UNCHANGED vars
    BY <1>1 DEF TypeOK, CloseExists, vars
<1>2. ASSUME Next PROVE TypeOK' /\ CloseExists'
    <2>n. NoRow \in AssignmentRow
        BY DEF NoRow, AssignmentRow, Users, Teams
    <2>a. Absent \in TicketRow
        BY DEF Absent, TicketRow, Status, Open, Areas, Users, Teams
    <2>i. Idle \in SessionRecord /\ Idle.phase = "idle" /\ Idle.close = 0
        BY <2>n, <2>a, HelpdeskBounds DEF Idle, SessionRecord
    <2>l. \A t \in Tickets : Len(rows[t]) \in Nat /\ Len(rows[t]) <= MaxRows
        BY DEF TypeOK
    <2>1. PICK p \in Sessions :
             \/ Commit(p)
             \/ Abort(p)
             \/ FindOpenRow(p)
             \/ \E t \in Tickets, w \in TicketRow : PlainRead(p, t, w)
             \/ \E t \in Tickets, w \in TicketRow, ph \in {"close", "commit"} :
                   AssignRead(p, t, w, ph)
        BY <1>2, Shapes
    <2>2. CASE Commit(p)
        <3> DEFINE s == session[p]
        <3>1. /\ s \in SessionRecord /\ s.ticket \in Tickets /\ s.snap \in TicketRow
              /\ s.want \in TicketRow /\ s.add \in AssignmentRow
              /\ s.close \in 0 .. Len(rows[s.ticket])
            BY <2>2 DEF Commit, TypeOK, CloseExists, SessionRecord
        <3>2. ticket' \in [Tickets -> TicketRow]
            BY <2>2, <3>1, ColumnsTyped DEF Commit, TypeOK
        <3>3. session' = [session EXCEPT ![p] = Idle] /\ session' \in [Sessions -> SessionRecord]
            BY <2>2, <2>i DEF Commit, TypeOK
        <3> DEFINE r == RowsWritten(rows[s.ticket], s.close, s.add)
        <3>4. rows' = [rows EXCEPT ![s.ticket] = r]
            BY <2>2 DEF Commit
        <3>5. /\ r \in Seq(AssignmentRow) /\ Len(r) <= MaxRows
              /\ Len(r) >= Len(rows[s.ticket])
            <4>1. CASE s.add = NoRow
                BY <3>1, <4>1, <2>l DEF RowsWritten, TypeOK
            <4>2. CASE s.add # NoRow
                <5>1. r \in Seq(AssignmentRow) /\ Len(r) = Len(rows[s.ticket]) + 1
                    BY <3>1, <4>2, RowsAfter DEF TypeOK
                <5>2. Len(rows[s.ticket]) < MaxRows
                    BY <2>2, <4>2 DEF Commit
                <5>. QED BY <5>1, <5>2, <2>l, <3>1, HelpdeskBounds
            <4>. QED BY <4>1, <4>2
        <3>6. TypeOK'
            BY <2>2, <3>2, <3>3, <3>4, <3>5 DEF Commit, TypeOK
        <3>7. \A t \in Tickets : Len(rows'[t]) \in Nat /\ Len(rows'[t]) >= Len(rows[t])
            BY <3>1, <3>4, <3>5, <2>l DEF TypeOK
        <3>8. CloseExists'
            BY <3>3, <3>7, <2>l, <2>i DEF CloseExists, TypeOK
        <3>. QED BY <3>6, <3>8
    <2>3. CASE Abort(p)
        BY <2>3, <2>i DEF Abort, TypeOK, CloseExists
    <2>4. CASE FindOpenRow(p)
        <3>1. PICK i \in OpenRows(rows[session[p].ticket]) \cup {0} :
                 session' = [session EXCEPT ![p].phase = "commit", ![p].close = i]
            BY <2>4 DEF FindOpenRow
        <3>2. session[p].ticket \in Tickets /\ session[p] \in SessionRecord
            BY <2>4 DEF FindOpenRow, CloseExists, TypeOK
        <3>3. i \in 0 .. Len(rows[session[p].ticket]) /\ i \in 0 .. MaxRows
            BY <3>2, <2>l, HelpdeskBounds DEF OpenRows
        <3>4. session'[p] = [session[p] EXCEPT !.phase = "commit", !.close = i]
            BY <3>1 DEF TypeOK
        <3>5. session'[p] \in SessionRecord
            BY <3>2, <3>3, <3>4 DEF SessionRecord
        <3>6. session' \in [Sessions -> SessionRecord]
            BY <3>1, <3>4, <3>5 DEF TypeOK
        <3>7. TypeOK'
            BY <2>4, <3>6 DEF FindOpenRow, TypeOK
        <3>8. session'[p].ticket = session[p].ticket /\ session'[p].close = i
            BY <3>2, <3>4 DEF SessionRecord
        <3>9. \A q \in Sessions \ {p} : session'[q] = session[q]
            BY <3>1 DEF TypeOK
        <3>10. CloseExists'
            BY <2>4, <3>2, <3>3, <3>8, <3>9 DEF CloseExists, FindOpenRow
        <3>. QED BY <3>7, <3>10
    <2>5. CASE \E t \in Tickets, w \in TicketRow : PlainRead(p, t, w)
        <3>1. PICK t \in Tickets, w \in TicketRow : PlainRead(p, t, w)
            BY <2>5
        <3> DEFINE n == [Idle EXCEPT !.phase = "commit", !.ticket = t, !.snap = ticket[t],
                                     !.want = w]
        <3>2. n \in SessionRecord /\ n.ticket = t /\ n.close = 0
            BY <2>i, <3>1 DEF TypeOK, SessionRecord
        <3>3. session' = [session EXCEPT ![p] = n] /\ UNCHANGED <<ticket, rows, regime>>
            BY <3>1 DEF PlainRead, Read
        <3>. QED BY <3>2, <3>3, <2>l DEF TypeOK, CloseExists
    <2>6. CASE \E t \in Tickets, w \in TicketRow, ph \in {"close", "commit"} :
                  AssignRead(p, t, w, ph)
        <3>1. PICK t \in Tickets, w \in TicketRow, ph \in {"close", "commit"} :
                  AssignRead(p, t, w, ph)
            BY <2>6
        <3> DEFINE n == [phase |-> ph, ticket |-> t, snap |-> ticket[t], want |-> w, close |-> 0,
                         add |-> [user |-> w.user, team |-> w.team, open |-> TRUE]]
        <3>2. n \in SessionRecord /\ n.ticket = t /\ n.close = 0
            BY <3>1, HelpdeskBounds DEF TypeOK, SessionRecord, TicketRow, AssignmentRow
        <3>3. session' = [session EXCEPT ![p] = n] /\ UNCHANGED <<ticket, rows, regime>>
            BY <3>1 DEF AssignRead, ReadToAssign
        <3>. QED BY <3>2, <3>3, <2>l DEF TypeOK, CloseExists
    <2>. QED BY <2>1, <2>2, <2>3, <2>4, <2>5, <2>6
<1>. QED BY <1>1, <1>2

\* The columns, the assignments and the sessions keep their types.
THEOREM TypeCorrect == Spec => []TypeOK
<1>1. TypeOK /\ CloseExists /\ [Next]_vars => (TypeOK /\ CloseExists)'
    BY TypeStep
<1>. QED BY TypeInit, <1>1, PTL DEF Spec

-----------------------------------------------------------------------------
(* A ticket that was attended has an open assignment, in both regimes.      *)

\* Rows are never left without an open one; a ticket in work has rows; a session that is
\* going to put a ticket in work adds a row or has seen some.
OpenWork ==
    /\ \A t \in Tickets : rows[t] # <<>> => OpenRows(rows[t]) # {}
    /\ \A t \in Tickets : ticket[t].status \in Work => rows[t] # <<>>
    /\ \A p \in Sessions : session[p].phase # "idle" =>
          /\ session[p].add # NoRow => session[p].add.open
          /\ session[p].want.status \in Work =>
                session[p].add # NoRow \/ rows[session[p].ticket] # <<>>

LEMMA OpenWorkStep ==
    ASSUME TypeOK, CloseExists, OpenWork, [Next]_vars
    PROVE OpenWork'
<1>1. CASE UNCHANGED vars
    BY <1>1 DEF OpenWork, vars
<1>2. ASSUME Next PROVE OpenWork'
    <2>1. PICK p \in Sessions :
             \/ Commit(p)
             \/ Abort(p)
             \/ FindOpenRow(p)
             \/ \E t \in Tickets, w \in TicketRow : PlainRead(p, t, w)
             \/ \E t \in Tickets, w \in TicketRow, ph \in {"close", "commit"} :
                   AssignRead(p, t, w, ph)
        BY <1>2, Shapes
    <2>2. CASE Commit(p)
        <3> DEFINE s == session[p]
                   r == RowsWritten(rows[s.ticket], s.close, s.add)
        <3>1. /\ s.ticket \in Tickets /\ s.add \in AssignmentRow /\ s.phase # "idle"
              /\ s.close \in 0 .. Len(rows[s.ticket]) /\ rows[s.ticket] \in Seq(AssignmentRow)
            BY <2>2 DEF Commit, TypeOK, CloseExists, SessionRecord
        <3>2. /\ rows' = [rows EXCEPT ![s.ticket] = r]
              /\ session' = [session EXCEPT ![p] = Idle]
              /\ ticket' = [ticket EXCEPT ![s.ticket] =
                               ChangedColumns(ticket[s.ticket], s.snap, s.want)]
            BY <2>2 DEF Commit
        <3>3. /\ r = rows[s.ticket] \/ (r # <<>> /\ OpenRows(r) # {})
              /\ s.add # NoRow => r # <<>>
            <4>1. CASE s.add = NoRow
                BY <4>1 DEF RowsWritten
            <4>2. CASE s.add # NoRow
                <5>1. /\ Len(r) = Len(rows[s.ticket]) + 1
                      /\ r[Len(rows[s.ticket]) + 1] = s.add
                    BY <3>1, <4>2, RowsAfter
                <5>2. s.add.open
                    BY <3>1, <4>2 DEF OpenWork
                <5>3. Len(rows[s.ticket]) + 1 \in 1 .. Len(r) /\ Len(r) # 0
                    BY <3>1, <5>1
                <5>4. OpenRows(r) # {}
                    BY <5>1, <5>2, <5>3 DEF OpenRows
                <5>5. r # <<>>
                    BY <5>3
                <5>. QED BY <4>2, <5>4, <5>5
            <4>. QED BY <4>1, <4>2
        <3>4. \A t \in Tickets : rows[t] # <<>> => rows'[t] # <<>>
            BY <3>1, <3>2, <3>3 DEF TypeOK
        <3>5. \A t \in Tickets : rows'[t] # <<>> => OpenRows(rows'[t]) # {}
            BY <3>1, <3>2, <3>3 DEF TypeOK, OpenWork
        <3>6. ASSUME NEW t \in Tickets, ticket'[t].status \in Work
              PROVE rows'[t] # <<>>
            <4>1. CASE ticket[t].status \in Work
                BY <4>1, <3>4 DEF OpenWork
            <4>2. CASE ticket[t].status \notin Work
                <5>1. t = s.ticket /\ s.want.status \in Work
                    BY <3>1, <3>2, <3>6, <4>2 DEF TypeOK, ChangedColumns
                <5>2. s.add # NoRow \/ rows[t] # <<>>
                    BY <3>1, <5>1 DEF OpenWork
                <5>. QED BY <3>1, <3>2, <3>3, <3>4, <5>1, <5>2 DEF TypeOK
            <4>. QED BY <4>1, <4>2
        <3>7. ASSUME NEW q \in Sessions, session'[q].phase # "idle"
              PROVE /\ session'[q].add # NoRow => session'[q].add.open
                    /\ session'[q].want.status \in Work =>
                          session'[q].add # NoRow \/ rows'[session'[q].ticket] # <<>>
            <4>1. q # p /\ session'[q] = session[q] /\ session[q].ticket \in Tickets
                BY <3>2, <3>7 DEF TypeOK, Idle, CloseExists
            <4>. QED BY <4>1, <3>4, <3>7 DEF OpenWork
        <3>. QED BY <3>5, <3>6, <3>7 DEF OpenWork
    <2>3. CASE Abort(p)
        BY <2>3 DEF Abort, TypeOK, OpenWork, Idle
    <2>4. CASE FindOpenRow(p)
        <3>1. PICK i : session' = [session EXCEPT ![p].phase = "commit", ![p].close = i]
            BY <2>4 DEF FindOpenRow
        <3>2. session[p] \in SessionRecord /\ session[p].phase # "idle"
            BY <2>4 DEF FindOpenRow, TypeOK
        <3>3. session'[p] = [session[p] EXCEPT !.phase = "commit", !.close = i]
            BY <3>1 DEF TypeOK
        <3>4. /\ session'[p].ticket = session[p].ticket /\ session'[p].add = session[p].add
              /\ session'[p].want = session[p].want
            BY <3>2, <3>3 DEF SessionRecord
        <3>5. \A q \in Sessions \ {p} : session'[q] = session[q]
            BY <3>1 DEF TypeOK
        <3>6. UNCHANGED <<ticket, rows>>
            BY <2>4 DEF FindOpenRow
        <3>7. ASSUME NEW q \in Sessions, session'[q].phase # "idle"
              PROVE /\ session'[q].add # NoRow => session'[q].add.open
                    /\ session'[q].want.status \in Work =>
                          session'[q].add # NoRow \/ rows'[session'[q].ticket] # <<>>
            <4>1. CASE q = p
                BY <3>2, <3>4, <3>6, <4>1 DEF OpenWork
            <4>2. CASE q # p
                BY <3>5, <3>6, <3>7, <4>2 DEF OpenWork
            <4>. QED BY <4>1, <4>2
        <3>. QED BY <3>6, <3>7 DEF OpenWork
    <2>5. CASE \E t \in Tickets, w \in TicketRow : PlainRead(p, t, w)
        <3>1. PICK t \in Tickets, w \in TicketRow : PlainRead(p, t, w)
            BY <2>5
        <3> DEFINE n == [Idle EXCEPT !.phase = "commit", !.ticket = t, !.snap = ticket[t],
                                     !.want = w]
        <3>2. session' = [session EXCEPT ![p] = n] /\ UNCHANGED <<ticket, rows, regime>>
            BY <3>1 DEF PlainRead, Read
        <3>3. n.add = NoRow /\ n.want = w /\ n.ticket = t
            BY DEF Idle
        <3>4. w.status \in Work => rows[t] # <<>>
            BY <3>1 DEF PlainRead, PlainWant, OpenWork
        <3>. QED BY <3>2, <3>3, <3>4 DEF OpenWork, TypeOK
    <2>6. CASE \E t \in Tickets, w \in TicketRow, ph \in {"close", "commit"} :
                  AssignRead(p, t, w, ph)
        <3>1. PICK t \in Tickets, w \in TicketRow, ph \in {"close", "commit"} :
                  AssignRead(p, t, w, ph)
            BY <2>6
        <3> DEFINE n == [phase |-> ph, ticket |-> t, snap |-> ticket[t], want |-> w, close |-> 0,
                         add |-> [user |-> w.user, team |-> w.team, open |-> TRUE]]
        <3>2. session' = [session EXCEPT ![p] = n] /\ UNCHANGED <<ticket, rows, regime>>
            BY <3>1 DEF AssignRead, ReadToAssign
        <3>3. n.add.open = TRUE /\ n.add # NoRow
            BY DEF NoRow
        <3>. QED BY <3>2, <3>3 DEF OpenWork, TypeOK
    <2>. QED BY <2>1, <2>2, <2>3, <2>4, <2>5, <2>6
<1>. QED BY <1>1, <1>2

\* However the sessions interleave, a ticket that was attended has an open assignment.
THEOREM WorkIsAssigned == Spec => []WorkHasOpenRow
<1>1. Init => TypeOK /\ CloseExists /\ OpenWork
    BY TypeInit DEF Init, OpenWork, Absent, Idle, Work, Resolved
<1>2. TypeOK /\ CloseExists /\ OpenWork /\ [Next]_vars => (TypeOK /\ CloseExists /\ OpenWork)'
    BY TypeStep, OpenWorkStep
<1>3. OpenWork => WorkHasOpenRow
    BY DEF OpenWork, WorkHasOpenRow, Work, Resolved
<1>. QED BY <1>1, <1>2, <1>3, PTL DEF Spec
-----------------------------------------------------------------------------
(* What holds when the sessions of a ticket take turns.                     *)

\* What is said of a row w of a ticket, apart from its assignments.
RowSound(w) ==
    /\ Attended(w)
    /\ w.status \in Fresh => ~HasAssignee(w)
    /\ w.files # "kept" => w.status = "CLOSED"

\* A session s of a ticket whose assignments are r.
SessionSound(s, r) ==
    /\ RowSound(s.want)
    /\ FollowsFrom(s.snap, s.want)
    /\ s.add = NoRow => s.want.user = s.snap.user /\ s.want.team = s.snap.team
    /\ s.add # NoRow =>
          /\ HasAssignee(s.want)
          /\ s.add = [user |-> s.want.user, team |-> s.want.team, open |-> TRUE]
    /\ s.phase = "close" => s.add # NoRow
    /\ s.phase = "commit" /\ s.add # NoRow =>
          IF OpenRows(r) = {} THEN s.close = 0 ELSE s.close \in OpenRows(r)

TicketsSound == \A t \in Tickets : RowSound(ticket[t]) /\ Coherent(ticket[t], rows[t])

SessionsSound ==
    \A p \in Sessions : session[p].phase # "idle" =>
       /\ session[p].snap = ticket[session[p].ticket]
       /\ SessionSound(session[p], rows[session[p].ticket])

Apart ==
    \A p, q \in Sessions :
       p # q /\ session[p].phase # "idle" /\ session[q].phase # "idle"
          => session[p].ticket # session[q].ticket

TurnsInv == regime = "turns" => TicketsSound /\ SessionsSound /\ Apart

LEMMA PlainKeeps ==
    ASSUME NEW v \in TicketRow, NEW w \in TicketRow, RowSound(v), PlainWant(v, w)
    PROVE RowSound(w)
<1>1. HasAssignee(w) <=> HasAssignee(v)
    BY DEF PlainWant, HasAssignee
<1>2. Attended(w)
    BY <1>1 DEF PlainWant, RowSound, Attended
<1>. QED BY <1>1, <1>2 DEF PlainWant, RowSound

LEMMA AssignKeeps ==
    ASSUME NEW v \in TicketRow, NEW w \in TicketRow, RowSound(v), AssignWant(v, w)
    PROVE RowSound(w)
BY DEF AssignWant, RowSound

\* With nobody else on the ticket, the UPDATE leaves what the session wants.
LEMMA AloneWritesAll ==
    ASSUME NEW v \in TicketRow, NEW w \in TicketRow
    PROVE ChangedColumns(v, v, w) = w
BY DEF ChangedColumns, TicketRow

\* The new assignment is the only open one.
LEMMA OneRowWritten ==
    ASSUME NEW r \in Seq(AssignmentRow), NEW w \in TicketRow, NEW v \in TicketRow,
           NEW i \in 0 .. Len(r), NEW a \in AssignmentRow, a # NoRow,
           Coherent(v, r), HasAssignee(w),
           a = [user |-> w.user, team |-> w.team, open |-> TRUE],
           IF OpenRows(r) = {} THEN i = 0 ELSE i \in OpenRows(r)
    PROVE Coherent(w, RowsWritten(r, i, a))
<1> DEFINE n == RowsWritten(r, i, a)
<1>1. /\ n \in Seq(AssignmentRow)
      /\ Len(n) = Len(r) + 1
      /\ n[Len(r) + 1] = a
    BY RowsAfter, SMT
<1>a. \A j \in 1 .. Len(r) : n[j].open <=> r[j].open /\ j # i
    BY RowsAfter, SMT
<1> HIDE DEF n
<1>2. Len(r) \in Nat
    OBVIOUS
<1>3. \A j \in OpenRows(r) : j = Len(r)
    BY DEF Coherent
<1>4. \A j \in OpenRows(r) : j = i
    BY <1>3
<1>5. \A j \in 1 .. Len(r) : ~n[j].open
    BY <1>a, <1>4 DEF OpenRows
<1>6. n[Len(n)].open /\ n[Len(n)].user = w.user /\ n[Len(n)].team = w.team
    BY <1>1
<1>7. OpenRows(n) = {Len(n)}
    <2>1. \A j \in 1 .. Len(n) : j \in 1 .. Len(r) \/ j = Len(n)
        BY <1>1, <1>2
    <2>2. Len(n) \in 1 .. Len(n)
        BY <1>1, <1>2
    <2>. QED BY <1>5, <1>6, <2>1, <2>2 DEF OpenRows
<1>8. Coherent(w, n)
    BY <1>6, <1>7 DEF Coherent
<1>. QED BY <1>8 DEF n

LEMMA TurnsStep ==
    ASSUME TypeOK, CloseExists, TurnsInv, Next
    PROVE TurnsInv'
<1>. SUFFICES ASSUME regime' = "turns" PROVE (TicketsSound /\ SessionsSound /\ Apart)'
    BY DEF TurnsInv
<1>1. PICK p \in Sessions :
         \/ Commit(p)
         \/ Abort(p)
         \/ FindOpenRow(p)
         \/ \E t \in Tickets, w \in TicketRow : PlainRead(p, t, w)
         \/ \E t \in Tickets, w \in TicketRow, ph \in {"close", "commit"} :
               AssignRead(p, t, w, ph)
    BY Shapes
<1>r. regime = "turns"
    BY <1>1 DEF Commit, Abort, FindOpenRow, PlainRead, Read, AssignRead, ReadToAssign
<1>i. TicketsSound /\ SessionsSound /\ Apart
    BY <1>r DEF TurnsInv
<1>x. Idle.phase = "idle"
    BY DEF Idle
<1>2. CASE Commit(p)
    <2> DEFINE s == session[p]
    <2>1. /\ s.phase = "commit" /\ s.ticket \in Tickets /\ s.want \in TicketRow
          /\ s.add \in AssignmentRow /\ s.close \in 0 .. Len(rows[s.ticket])
          /\ rows[s.ticket] \in Seq(AssignmentRow) /\ ticket[s.ticket] \in TicketRow
        BY <1>2 DEF Commit, TypeOK, CloseExists, SessionRecord
    <2>2. s.snap = ticket[s.ticket] /\ SessionSound(s, rows[s.ticket])
        BY <1>i, <2>1 DEF SessionsSound
    <2>3. ticket' = [ticket EXCEPT ![s.ticket] = s.want]
        BY <1>2, <2>1, <2>2, AloneWritesAll DEF Commit, TypeOK
    <2>4. rows' = [rows EXCEPT ![s.ticket] = RowsWritten(rows[s.ticket], s.close, s.add)]
        BY <1>2 DEF Commit
    <2>5. Coherent(ticket[s.ticket], rows[s.ticket])
        BY <1>i, <2>1 DEF TicketsSound
    <2>6. Coherent(s.want, RowsWritten(rows[s.ticket], s.close, s.add))
        <3>1. CASE s.add = NoRow
            <4>1. RowsWritten(rows[s.ticket], s.close, s.add) = rows[s.ticket]
                BY <3>1 DEF RowsWritten
            <4>2. s.want.user = ticket[s.ticket].user /\ s.want.team = ticket[s.ticket].team
                BY <2>2, <3>1 DEF SessionSound
            <4>. QED BY <2>5, <4>1, <4>2 DEF Coherent, HasAssignee
        <3>2. CASE s.add # NoRow
            <4>1. /\ HasAssignee(s.want)
                  /\ s.add = [user |-> s.want.user, team |-> s.want.team, open |-> TRUE]
                  /\ IF OpenRows(rows[s.ticket]) = {} THEN s.close = 0
                     ELSE s.close \in OpenRows(rows[s.ticket])
                BY <2>1, <2>2, <3>2 DEF SessionSound
            <4>. QED BY <2>1, <2>5, <3>2, <4>1, OneRowWritten
        <3>. QED BY <3>1, <3>2
    <2>7. RowSound(s.want)
        BY <2>2 DEF SessionSound
    <2>8. TicketsSound'
        BY <1>i, <2>1, <2>3, <2>4, <2>6, <2>7 DEF TicketsSound, TypeOK
    <2>9. session' = [session EXCEPT ![p] = Idle]
        BY <1>2 DEF Commit
    <2>10. ASSUME NEW q \in Sessions, session'[q].phase # "idle"
           PROVE /\ q # p /\ session'[q] = session[q] /\ session[q].ticket \in Tickets
                 /\ session[q].ticket # s.ticket
        <3>1. q # p /\ session'[q] = session[q]
            BY <1>x, <2>9, <2>10 DEF TypeOK
        <3>. QED BY <1>i, <2>1, <2>10, <3>1 DEF Apart, CloseExists
    <2>11. SessionsSound'
        BY <1>i, <2>3, <2>4, <2>10 DEF SessionsSound, TypeOK
    <2>12. Apart'
        BY <1>i, <2>10 DEF Apart
    <2>. QED BY <2>8, <2>11, <2>12
<1>3. CASE Abort(p)
    BY <1>3, <1>i, <1>x DEF Abort, TypeOK, TicketsSound, SessionsSound, Apart
<1>4. CASE FindOpenRow(p)
    <2> DEFINE s == session[p]
               found == OpenRows(rows[s.ticket])
    <2>1. PICK i \in found \cup {0} :
             /\ i = 0 <=> found = {}
             /\ session' = [session EXCEPT ![p].phase = "commit", ![p].close = i]
        BY <1>4 DEF FindOpenRow
    <2>2. s \in SessionRecord /\ s.phase = "close" /\ s.ticket \in Tickets
        BY <1>4 DEF FindOpenRow, TypeOK, CloseExists
    <2>3. session'[p] = [s EXCEPT !.phase = "commit", !.close = i]
        BY <2>1 DEF TypeOK
    <2>4. /\ session'[p].ticket = s.ticket /\ session'[p].add = s.add
          /\ session'[p].want = s.want /\ session'[p].snap = s.snap
          /\ session'[p].phase = "commit" /\ session'[p].close = i
        BY <2>2, <2>3 DEF SessionRecord
    <2>5. \A q \in Sessions \ {p} : session'[q] = session[q]
        BY <2>1 DEF TypeOK
    <2>6. UNCHANGED <<ticket, rows>>
        BY <1>4 DEF FindOpenRow
    <2>7. s.snap = ticket[s.ticket] /\ SessionSound(s, rows[s.ticket])
        BY <1>i, <2>2 DEF SessionsSound
    <2>8. SessionSound(session'[p], rows[s.ticket])
        BY <2>1, <2>2, <2>4, <2>7 DEF SessionSound
    <2>9. SessionsSound'
        BY <1>i, <2>4, <2>5, <2>6, <2>7, <2>8 DEF SessionsSound
    <2>10. Apart'
        BY <1>i, <2>2, <2>4, <2>5 DEF Apart
    <2>. QED BY <1>i, <2>6, <2>9, <2>10 DEF TicketsSound
<1>5. CASE \E t \in Tickets, w \in TicketRow : PlainRead(p, t, w)
    <2>1. PICK t \in Tickets, w \in TicketRow : PlainRead(p, t, w)
        BY <1>5
    <2> DEFINE n == [Idle EXCEPT !.phase = "commit", !.ticket = t, !.snap = ticket[t], !.want = w]
    <2>2. /\ session' = [session EXCEPT ![p] = n] /\ UNCHANGED <<ticket, rows>>
          /\ \A q \in Sessions : session[q].ticket # t
        BY <1>r, <2>1 DEF PlainRead, Read, MayStart
    <2>3. n.add = NoRow /\ n.want = w /\ n.ticket = t /\ n.snap = ticket[t]
        BY DEF Idle
    <2>4. PlainWant(ticket[t], w) /\ ticket[t] \in TicketRow /\ RowSound(ticket[t])
        BY <1>i, <2>1 DEF PlainRead, TypeOK, TicketsSound
    <2>5. RowSound(w) /\ FollowsFrom(ticket[t], w) /\ w.user = ticket[t].user
          /\ w.team = ticket[t].team
        BY <2>4, PlainKeeps DEF PlainWant
    <2>6. SessionSound(n, rows[t])
        BY <2>3, <2>5 DEF SessionSound, Idle
    <2>7. SessionsSound'
        BY <1>i, <2>2, <2>3, <2>6 DEF SessionsSound, TypeOK
    <2>8. Apart'
        BY <1>i, <2>2, <2>3 DEF Apart, TypeOK
    <2>. QED BY <1>i, <2>2, <2>7, <2>8 DEF TicketsSound
<1>6. CASE \E t \in Tickets, w \in TicketRow, ph \in {"close", "commit"} :
              AssignRead(p, t, w, ph)
    <2>1. PICK t \in Tickets, w \in TicketRow, ph \in {"close", "commit"} :
              AssignRead(p, t, w, ph)
        BY <1>6
    <2> DEFINE a == [user |-> w.user, team |-> w.team, open |-> TRUE]
               n == [phase |-> ph, ticket |-> t, snap |-> ticket[t], want |-> w, close |-> 0,
                     add |-> a]
    <2>2. /\ session' = [session EXCEPT ![p] = n] /\ UNCHANGED <<ticket, rows>>
          /\ \A q \in Sessions : session[q].ticket # t
        BY <1>r, <2>1 DEF AssignRead, ReadToAssign, MayStart
    <2>3. /\ n.add = a /\ n.want = w /\ n.ticket = t /\ n.snap = ticket[t]
          /\ n.phase = ph /\ n.close = 0 /\ a # NoRow
        BY DEF NoRow
    <2>4. /\ AssignWant(ticket[t], w) /\ ticket[t] \in TicketRow /\ RowSound(ticket[t])
          /\ ph = "commit" <=> ~HasAssignee(ticket[t])
        BY <1>i, <2>1 DEF AssignRead, TypeOK, TicketsSound
    <2>5. RowSound(w) /\ FollowsFrom(ticket[t], w) /\ HasAssignee(w)
        BY <2>4, AssignKeeps DEF AssignWant
    <2>6. ph = "commit" => OpenRows(rows[t]) = {}
        BY <1>i, <2>4 DEF TicketsSound, Coherent
    <2>7. SessionSound(n, rows[t])
        BY <2>3, <2>5, <2>6 DEF SessionSound
    <2>8. SessionsSound'
        BY <1>i, <2>2, <2>3, <2>7 DEF SessionsSound, TypeOK
    <2>9. Apart'
        BY <1>i, <2>2, <2>3 DEF Apart, TypeOK
    <2>. QED BY <1>i, <2>2, <2>8, <2>9 DEF TicketsSound
<1>. QED BY <1>1, <1>2, <1>3, <1>4, <1>5, <1>6

LEMMA TurnsInit == Init => TurnsInv
<1>1. OpenRows(<<>>) = {}
    BY DEF OpenRows
<1>2. RowSound(Absent) /\ ~HasAssignee(Absent)
    BY DEF RowSound, Attended, HasAssignee, Absent
<1>3. Coherent(Absent, <<>>)
    BY <1>1, <1>2 DEF Coherent
<1>4. Init => TicketsSound
    BY <1>2, <1>3 DEF Init, TicketsSound
<1>. QED BY <1>4 DEF Init, TurnsInv, SessionsSound, Apart, Idle

LEMMA TurnsKept ==
    ASSUME TypeOK, CloseExists, TurnsInv, [Next]_vars
    PROVE TurnsInv'
<1>1. CASE UNCHANGED vars
    BY <1>1 DEF vars, TurnsInv, TicketsSound, SessionsSound, Apart
<1>. QED BY <1>1, TurnsStep

LEMMA AllInv == Spec => [](TypeOK /\ CloseExists /\ TurnsInv)
<1>1. TypeOK /\ CloseExists /\ TurnsInv /\ [Next]_vars => (TypeOK /\ CloseExists /\ TurnsInv)'
    BY TypeStep, TurnsKept
<1>. QED BY TypeInit, TurnsInit, <1>1, PTL DEF Spec

\* In turns a ticket has at most one open assignment, which agrees with its columns,
\* and the assignee attends its area.
THEOREM AssignmentAgreesHolds == Spec => []AssignmentAgrees
<1>1. TurnsInv => AssignmentAgrees
    BY DEF TurnsInv, TicketsSound, RowSound, AssignmentAgrees
<1>. QED BY AllInv, <1>1, PTL

\* In turns the files are kept until the ticket is closed for good.
THEOREM FilesOutliveWorkHolds == Spec => []FilesOutliveWork
<1>1. TurnsInv => FilesOutliveWork
    BY DEF TurnsInv, TicketsSound, RowSound, FilesOutliveWork
<1>. QED BY AllInv, <1>1, PTL
-----------------------------------------------------------------------------
(* The refinement.                                                          *)

Bar == [t \in Tickets |-> IF regime = "turns" THEN ticket[t].status ELSE "NONE"]

LEMMA LifecycleStart == Init => Lifecycle!LifecycleInit
BY DEF Init, Absent, Lifecycle!LifecycleInit

LEMMA LifecycleStep ==
    ASSUME TypeOK, CloseExists, TurnsInv, [Next]_vars
    PROVE Lifecycle!LifecycleNext \/ Bar' = Bar
<1>1. CASE UNCHANGED vars
    BY <1>1 DEF vars, Bar
<1>2. CASE Next
    <2>1. PICK p \in Sessions :
             \/ Commit(p)
             \/ Abort(p)
             \/ FindOpenRow(p)
             \/ \E t \in Tickets, w \in TicketRow : PlainRead(p, t, w)
             \/ \E t \in Tickets, w \in TicketRow, ph \in {"close", "commit"} :
                   AssignRead(p, t, w, ph)
        BY <1>2, Shapes
    <2>2. CASE ~Commit(p)
        <3>1. UNCHANGED <<ticket, regime>>
            BY <2>1, <2>2 DEF Abort, FindOpenRow, PlainRead, Read, AssignRead, ReadToAssign
        <3>. QED BY <3>1 DEF Bar
    <2>3. CASE Commit(p)
        <3> DEFINE s == session[p]
        <3>1. /\ s.phase = "commit" /\ s.ticket \in Tickets /\ s.want \in TicketRow
              /\ ticket[s.ticket] \in TicketRow /\ regime' = regime
            BY <2>3 DEF Commit, TypeOK, CloseExists, SessionRecord
        <3>2. CASE regime # "turns"
            BY <3>1, <3>2 DEF Bar
        <3>3. CASE regime = "turns"
            <4>1. s.snap = ticket[s.ticket] /\ FollowsFrom(s.snap, s.want)
                BY <3>1, <3>3 DEF TurnsInv, SessionsSound, SessionSound
            <4>2. ticket' = [ticket EXCEPT ![s.ticket] = s.want]
                BY <2>3, <3>1, <4>1, AloneWritesAll DEF Commit, TypeOK
            <4>3. Bar' = [Bar EXCEPT ![s.ticket] = s.want.status]
                BY <3>1, <3>3, <4>2 DEF Bar, TypeOK
            <4>4. Bar[s.ticket] = ticket[s.ticket].status
                BY <3>1, <3>3 DEF Bar
            <4>5. CASE s.want.status = ticket[s.ticket].status
                BY <4>3, <4>4, <4>5 DEF Bar
            <4>6. CASE s.want.status # ticket[s.ticket].status
                <5>1. /\ s.want.status # "NONE"
                      /\ Bar[s.ticket] \in Lifecycle!Before(s.want.status)
                    BY <4>1, <4>4, <4>6 DEF FollowsFrom
                <5>2. s.want.status \in Status \ {"NONE"}
                    BY <3>1, <5>1 DEF TicketRow
                <5>3. s.want.status \in Lifecycle!Resolved \cup
                         {"PENDING", "ASSIGNED", "IN_PROGRESS", "CLOSED", "CANCELED"}
                    BY <5>2 DEF Status, Open, Resolved, Lifecycle!Resolved
                <5>4. PICK t \in Tickets : t = s.ticket
                    BY <3>1
                <5>5. PICK k \in Lifecycle!Resolved \cup
                         {"PENDING", "ASSIGNED", "IN_PROGRESS", "CLOSED", "CANCELED"} :
                         k = s.want.status
                    BY <5>3
                <5>6. Bar[t] \in Lifecycle!Before(k) /\ Bar' = [Bar EXCEPT ![t] = k]
                    BY <4>3, <5>1, <5>4, <5>5
                <5>7. Lifecycle!Advance(t, k)
                    BY <5>6 DEF Lifecycle!Advance, Bar
                <5>. QED BY <5>7 DEF Lifecycle!LifecycleNext
            <4>. QED BY <4>5, <4>6
        <3>. QED BY <3>2, <3>3
    <2>. QED BY <2>2, <2>3
<1>. QED BY <1>1, <1>2

\* In turns every ticket follows its lifecycle.
THEOREM LifecycleFollowed == Spec => LifecycleSpec
<1>1. TypeOK /\ CloseExists /\ TurnsInv /\ [Next]_vars =>
         [Lifecycle!LifecycleNext]_[t \in Tickets |-> IF regime = "turns" THEN ticket[t].status
                                                      ELSE "NONE"]
    BY LifecycleStep DEF Bar
<1>. QED BY LifecycleStart, AllInv, <1>1, PTL DEF Spec, LifecycleSpec, Lifecycle!LifecycleSpec

=============================================================================
