--------------------------- MODULE HelpdeskTickets --------------------------
(***************************************************************************)
(* Helpdesk: the life of a ticket, who it is assigned to and the rows of   *)
(* its assignments (ticket_service, assignment_service), with the task     *)
(* that deletes the files of closed tickets (attachment_cleanup).          *)
(*                                                                         *)
(* A handler reads the ticket, tests what it read and commits later; no    *)
(* handler locks the row.  The UPDATE of a commit holds the columns whose  *)
(* value differs from the one that was read, and no other: snap is what a  *)
(* session has read and want what it leaves in its copy.  An assignment    *)
(* takes one more step, the SELECT of the row to close.                    *)
(*                                                                         *)
(* The variable regime keeps both worlds in one state space: in "turns" at *)
(* most one session at a time works on a ticket, in "overlap" any number.  *)
(* What holds only in turns is stated so.                                  *)
(***************************************************************************)
EXTENDS Naturals, Sequences, FiniteSets

CONSTANTS
    Tickets, Sessions,
    Techs,        \* the users with a technician's role
    Serves,       \* the areas each of them may attend (both, for an admin)
    MaxUnrated,   \* MAX_UNRATED_TICKETS
    MaxRows,      \* bound: the rows of helpdesk_assignments of one ticket
    Regimes,      \* a subset of {"turns", "overlap"}
    NoOne

Areas == {"DESARROLLO", "SOPORTE"}

ASSUME HelpdeskRoles == Serves \in [Techs -> SUBSET Areas] /\ NoOne \notin Techs
ASSUME HelpdeskBounds == MaxRows \in Nat /\ MaxUnrated \in Nat
ASSUME HelpdeskRegimes == Regimes \subseteq {"turns", "overlap"}

VARIABLES
    ticket,    \* the row of each ticket; files stands for its attachments
    rows,      \* its assignments, oldest first
    session,   \* what each session has read and wants to write
    regime

vars == <<ticket, rows, session, regime>>

-----------------------------------------------------------------------------
Open == {"PENDING", "ASSIGNED", "IN_PROGRESS"}
Resolved == {"RESOLVED_SUCCESS", "RESOLVED_FAILED"}
Status == Open \cup Resolved \cup {"NONE", "CLOSED", "CANCELED"}

Users == Techs \cup {NoOne}
Teams == Areas \cup {"NONE"}   \* a team is named after the area it attends

TicketRow == [status : Status, area : Areas, user : Users, team : Teams,
              rated : BOOLEAN, files : {"kept", "marked", "deleted"}]

AssignmentRow == [user : Users, team : Teams, open : BOOLEAN]

Absent == [status |-> "NONE", area |-> "SOPORTE", user |-> NoOne, team |-> "NONE",
           rated |-> FALSE, files |-> "kept"]

NoRow == [user |-> NoOne, team |-> "NONE", open |-> FALSE]

Idle == [phase |-> "idle", ticket |-> NoOne, snap |-> Absent, want |-> Absent,
         add |-> NoRow, close |-> 0]

SessionRecord ==
    [phase : {"idle", "close", "commit"}, ticket : Tickets \cup {NoOne}, snap : TicketRow,
     want : TicketRow, add : AssignmentRow, close : 0 .. MaxRows]

OpenRows(r) == {i \in 1 .. Len(r) : r[i].open}

TypeOK ==
    /\ ticket \in [Tickets -> TicketRow]
    /\ rows \in [Tickets -> Seq(AssignmentRow)]
    /\ \A t \in Tickets : Len(rows[t]) <= MaxRows
    /\ session \in [Sessions -> SessionRecord]
    /\ regime \in {"turns", "overlap"}

Init ==
    /\ ticket = [t \in Tickets |-> Absent]
    /\ rows = [t \in Tickets |-> <<>>]
    /\ session = [p \in Sessions |-> Idle]
    /\ regime \in Regimes

-----------------------------------------------------------------------------
(* Sessions.                                                                *)

MayStart(p, t) ==
    /\ session[p].phase = "idle"
    /\ regime = "turns" => \A q \in Sessions : session[q].ticket # t

\* The session has read the ticket and left w in its copy of the row.
Read(p, t, w) ==
    /\ MayStart(p, t)
    /\ session' = [session EXCEPT ![p] = [Idle EXCEPT !.phase = "commit", !.ticket = t,
                                                      !.snap = ticket[t], !.want = w]]
    /\ UNCHANGED <<ticket, rows, regime>>

\* The same for a handler that also assigns the ticket.
ReadToAssign(p, t, w, ph) ==
    /\ MayStart(p, t)
    /\ session' = [session EXCEPT ![p] =
                     [phase |-> ph, ticket |-> t, snap |-> ticket[t], want |-> w, close |-> 0,
                      add |-> [user |-> w.user, team |-> w.team, open |-> TRUE]]]
    /\ UNCHANGED <<ticket, rows, regime>>

\* The row after an UPDATE of the columns that changed in the session's copy.
ChangedColumns(now, snap, want) ==
    [status |-> IF want.status = snap.status THEN now.status ELSE want.status,
     area |-> IF want.area = snap.area THEN now.area ELSE want.area,
     user |-> IF want.user = snap.user THEN now.user ELSE want.user,
     team |-> IF want.team = snap.team THEN now.team ELSE want.team,
     rated |-> IF want.rated = snap.rated THEN now.rated ELSE want.rated,
     files |-> IF want.files = snap.files THEN now.files ELSE want.files]

\* Row 0 stands for no row found.
Closed(r, i) == IF i = 0 THEN r ELSE [r EXCEPT ![i].open = FALSE]

\* The assignments of the ticket after a commit.
RowsWritten(r, i, a) == IF a = NoRow THEN r ELSE Append(Closed(r, i), a)

Commit(p) ==
    LET s == session[p] IN
    /\ s.phase = "commit"
    /\ s.add # NoRow => Len(rows[s.ticket]) < MaxRows
    /\ ticket' = [ticket EXCEPT ![s.ticket] = ChangedColumns(@, s.snap, s.want)]
    /\ rows' = [rows EXCEPT ![s.ticket] = RowsWritten(@, s.close, s.add)]
    /\ session' = [session EXCEPT ![p] = Idle]
    /\ UNCHANGED regime

\* An exception, a rollback or the end of the process.
Abort(p) ==
    /\ session[p].phase # "idle"
    /\ session' = [session EXCEPT ![p] = Idle]
    /\ UNCHANGED <<ticket, rows, regime>>

-----------------------------------------------------------------------------
(* The requester.                                                           *)

Unrated == {t \in Tickets : ticket[t].status \in Resolved /\ ~ticket[t].rated}

\* The requester of every ticket is the same person.
ReadToCreate(p, t, a) ==
    /\ ticket[t].status = "NONE"
    /\ \A q \in Sessions : session[q].ticket # t
    /\ Cardinality(Unrated) < MaxUnrated
    /\ Read(p, t, [ticket[t] EXCEPT !.status = "PENDING", !.area = a])

ReadToUpdate(p, t, a) ==
    /\ ticket[t].status = "PENDING"
    /\ a # ticket[t].area
    /\ Read(p, t, [ticket[t] EXCEPT !.area = a])

ReadToRate(p, t) ==
    /\ ticket[t].status \in Resolved
    /\ ~ticket[t].rated
    /\ Read(p, t, [ticket[t] EXCEPT !.status = "CLOSED", !.rated = TRUE])

CancelsResolved(p, t) ==   \* mutant: a resolved ticket may still be cancelled
    /\ ticket[t].status \in Open \cup Resolved
    /\ Read(p, t, [ticket[t] EXCEPT !.status = "CANCELED"])

\* The requester or the computer centre; the assignee stays in the row.
ReadToCancel(p, t) ==
    /\ ticket[t].status \in Open
    /\ Read(p, t, [ticket[t] EXCEPT !.status = "CANCELED"])

-----------------------------------------------------------------------------
(* The technicians.                                                         *)

Assigned(w, u, g) == [w EXCEPT !.status = "ASSIGNED", !.user = u, !.team = g]

\* Exactly one of user and team, and it attends the area.
MayAttend(a, u, g) ==
    \/ u \in Techs /\ a \in Serves[u] /\ g = "NONE"
    \/ u = NoOne /\ g = a

HasAssignee(w) == w.user # NoOne \/ w.team # "NONE"

\* assign_ticket, and reassign_ticket, which adds the tests that the ticket has been
\* assigned and then calls assign_ticket, whose own test refuses IN_PROGRESS.
ReadToAssignTo(p, t, u, g) ==
    /\ ticket[t].status \in {"PENDING", "ASSIGNED"}
    /\ MayAttend(ticket[t].area, u, g)
    /\ ReadToAssign(p, t, Assigned(ticket[t], u, g),
                    IF HasAssignee(ticket[t]) THEN "close" ELSE "commit")

TakesWithTeam(p, t, u) ==   \* mutant: the team stays in the row
    /\ ticket[t].team \in Serves[u]
    /\ ticket[t].user = NoOne
    /\ ReadToAssign(p, t, [ticket[t] EXCEPT !.user = u], "close")

\* The status is neither tested nor written.
ReadToSelfAssign(p, t, u) ==
    /\ ticket[t].team \in Serves[u]
    /\ ticket[t].user = NoOne
    /\ ReadToAssign(p, t, [ticket[t] EXCEPT !.user = u, !.team = "NONE"], "close")

\* _close_previous_assignment: the newest row without unassigned_at.
FindOpenRow(p) ==
    LET found == OpenRows(rows[session[p].ticket]) IN
    /\ session[p].phase = "close"
    /\ \E i \in found \cup {0} :
          /\ i = 0 <=> found = {}
          /\ \A j \in found : j <= i
          /\ session' = [session EXCEPT ![p].phase = "commit", ![p].close = i]
    /\ UNCHANGED <<ticket, rows, regime>>

\* start_ticket: the assignee; from IN_PROGRESS it is a change to the same status.
ReadToStart(p, t) ==
    /\ ticket[t].user # NoOne
    /\ ticket[t].status \in {"ASSIGNED", "IN_PROGRESS"}
    /\ Read(p, t, [ticket[t] EXCEPT !.status = "IN_PROGRESS"])

ResolvesPending(p, t, s) ==   \* mutant: nobody needs to attend the ticket
    /\ ticket[t].status \in Open
    /\ Read(p, t, [ticket[t] EXCEPT !.status = s])

\* Anyone with the permission, not only the assignee.
ReadToResolve(p, t, s) ==
    /\ ticket[t].status \in {"ASSIGNED", "IN_PROGRESS"}
    /\ Read(p, t, [ticket[t] EXCEPT !.status = s])

-----------------------------------------------------------------------------
(* The cleanup of attachments, a periodic task.                             *)

ReadToMark(p, t) ==
    /\ ticket[t].status = "CLOSED"
    /\ ticket[t].files = "kept"
    /\ Read(p, t, [ticket[t] EXCEPT !.files = "marked"])

\* _cleanup_with_metrics asks for the date and, once more, for the ticket.
ReadToDelete(p, t) ==
    /\ ticket[t].files = "marked"
    /\ ticket[t].status = "CLOSED"
    /\ Read(p, t, [ticket[t] EXCEPT !.files = "deleted"])

-----------------------------------------------------------------------------
Next ==
    \E p \in Sessions :
       \/ Commit(p)
       \/ Abort(p)
       \/ FindOpenRow(p)
       \/ \E t \in Tickets :
             \/ \E a \in Areas : ReadToCreate(p, t, a) \/ ReadToUpdate(p, t, a)
             \/ ReadToRate(p, t)
             \/ ReadToCancel(p, t)
             \/ \E u \in Users, g \in Teams : ReadToAssignTo(p, t, u, g)
             \/ \E u \in Techs : ReadToSelfAssign(p, t, u)
             \/ ReadToStart(p, t)
             \/ \E s \in Resolved : ReadToResolve(p, t, s)
             \/ ReadToMark(p, t)
             \/ ReadToDelete(p, t)

Spec == Init /\ [][Next]_vars

-----------------------------------------------------------------------------
(* Properties.                                                              *)

\* A ticket that has been attended keeps at least one open assignment, whatever the
\* sessions do to each other: a row is only ever closed by the commit that adds one
\* (assignment_service 72-100, 172-198).
WorkHasOpenRow ==
    \A t \in Tickets :
       ticket[t].status \in Resolved \cup {"ASSIGNED", "IN_PROGRESS", "CLOSED"}
          => OpenRows(rows[t]) # {}

\* One open assignment at most, the newest, of the user and the team the ticket names.
Coherent(w, r) ==
    /\ HasAssignee(w) <=> OpenRows(r) # {}
    /\ \A i \in OpenRows(r) : i = Len(r) /\ r[i].user = w.user /\ r[i].team = w.team

\* A user or a team, never both, and one that attends the area.
Attended(w) ==
    HasAssignee(w) =>
       \/ w.user \in Techs /\ w.team = "NONE" /\ w.area \in Serves[w.user]
       \/ w.user = NoOne /\ w.team = w.area

\* In turns the open assignment agrees with the columns of the ticket, although
\* different statements write them, and whoever has it attends the area of the ticket:
\* the area may change only before anybody was asked (update_pending tests the status
\* and relies on PENDING tickets having no assignee).
AssignmentAgrees ==
    regime = "turns" => \A t \in Tickets : Coherent(ticket[t], rows[t]) /\ Attended(ticket[t])

\* In turns the files of a ticket outlive its work: they are marked and deleted by a
\* task that runs between the requests, and only when the ticket will not open again.
FilesOutliveWork ==
    regime = "turns" =>
       \A t \in Tickets : ticket[t].files # "kept" => ticket[t].status = "CLOSED"

\* In turns every ticket follows TicketLifecycle, although no operation but
\* change_status looks at the table of transitions.
Lifecycle == INSTANCE TicketLifecycle
    WITH Reopens <- FALSE,
         status <- [t \in Tickets |-> IF regime = "turns" THEN ticket[t].status ELSE "NONE"]
LifecycleSpec == Lifecycle!LifecycleSpec

\* "una vez cerrado el ticket ya no recibe mas cambios" (attachment_cleanup 57-58): a
\* team ticket can still be taken by a technician after it was closed.
ClosedUnchanged ==
    [][\A t \in Tickets :
          ticket[t].status = "CLOSED" =>
             /\ ticket'[t].user = ticket[t].user
             /\ ticket'[t].team = ticket[t].team]_vars

=============================================================================
