---------------------------- MODULE MaintTickets ----------------------------
(***************************************************************************)
(* Maintenance: the life of a ticket and the technicians that attend it    *)
(* (ticket_service, assignment_service), with the task that purges the     *)
(* files of finished tickets (attachment_cleanup).                         *)
(*                                                                         *)
(* Any number of technicians attend a ticket, each with a row of its own;  *)
(* when the last one leaves, the ticket returns to the queue.  A handler   *)
(* reads the ticket, then the rows of its technicians, and commits later;  *)
(* no handler locks anything.  The UPDATE of a commit holds the columns    *)
(* that changed in the session's copy.                                     *)
(*                                                                         *)
(* The variable regime keeps three worlds in one state space: sessions     *)
(* that take turns on a ticket ("turns"), sessions that overlap except     *)
(* with one that removes a technician ("alone"), and any overlap           *)
(* ("overlap").  Who may do what is left out: every operation has a role   *)
(* that may do it in every state.                                          *)
(***************************************************************************)
EXTENDS Naturals, Sequences, FiniteSets

CONSTANTS
    Tickets, Sessions, Techs,
    MaxUnrated,   \* tickets that wait for an evaluation when creation is refused
    MaxRows,      \* bound: the rows of maint_ticket_technicians of one ticket
    Regimes,      \* a subset of {"turns", "alone", "overlap"}
    NoOne

ASSUME MaintNames == NoOne \notin Techs /\ NoOne \notin Tickets
ASSUME MaintBounds == MaxRows \in Nat /\ MaxUnrated \in Nat
ASSUME MaintRegimes == Regimes \subseteq {"turns", "alone", "overlap"}

VARIABLES
    ticket,    \* the row of each ticket; files stands for its attachments
    rows,      \* the rows of its technicians, oldest first
    session,   \* what each session has read and wants to write
    regime

mvars == <<ticket, rows, session, regime>>

-----------------------------------------------------------------------------
InWork == {"ASSIGNED", "IN_PROGRESS"}
Unresolved == InWork \cup {"PENDING"}
Resolved == {"RESOLVED_SUCCESS", "RESOLVED_FAILED"}
Terminal == Resolved \cup {"CLOSED", "CANCELED"}
Status == Unresolved \cup Terminal \cup {"NONE"}

TicketRow == [status : Status, rated : BOOLEAN, files : {"kept", "marked", "purged"}]

TechnicianRow == [user : Techs, active : BOOLEAN]

Absent == [status |-> "NONE", rated |-> FALSE, files |-> "kept"]

\* add holds the technicians of the new rows, close the row to close (0 for none).
Idle == [phase |-> "idle", op |-> "none", ticket |-> NoOne, snap |-> Absent, want |-> Absent,
         add |-> <<>>, close |-> 0]

SessionRecord ==
    [phase : {"idle", "rows", "commit"}, op : {"none", "assign", "unassign", "other"},
     ticket : Tickets \cup {NoOne}, snap : TicketRow, want : TicketRow,
     add : Seq(Techs), close : 0 .. MaxRows]

ActiveRows(r) == {i \in 1 .. Len(r) : r[i].active}

TypeOK ==
    /\ ticket \in [Tickets -> TicketRow]
    /\ rows \in [Tickets -> Seq(TechnicianRow)]
    /\ \A t \in Tickets : Len(rows[t]) <= MaxRows
    /\ session \in [Sessions -> SessionRecord]
    /\ regime \in {"turns", "alone", "overlap"}

MaintInit ==
    /\ ticket = [t \in Tickets |-> Absent]
    /\ rows = [t \in Tickets |-> <<>>]
    /\ session = [p \in Sessions |-> Idle]
    /\ regime \in Regimes

-----------------------------------------------------------------------------
(* Sessions.                                                                *)

Others(t) == {q \in Sessions : session[q].phase # "idle" /\ session[q].ticket = t}

MayStart(p, t, op) ==
    /\ session[p].phase = "idle"
    /\ regime = "turns" => Others(t) = {}
    /\ regime = "alone" => /\ op = "unassign" => Others(t) = {}
                           /\ \A q \in Others(t) : session[q].op # "unassign"

\* The session has read the ticket; ph says what comes next.
Read(p, t, op, ph, w, a) ==
    /\ MayStart(p, t, op)
    /\ session' = [session EXCEPT ![p] =
                     [phase |-> ph, op |-> op, ticket |-> t, snap |-> ticket[t], want |-> w,
                      add |-> a, close |-> 0]]
    /\ UNCHANGED <<ticket, rows, regime>>

\* A handler that changes columns of the ticket and nothing else.
ReadPlain(p, t, w) == Read(p, t, "other", "commit", w, <<>>)

ChangedColumns(now, snap, want) ==
    [status |-> IF want.status = snap.status THEN now.status ELSE want.status,
     rated |-> IF want.rated = snap.rated THEN now.rated ELSE want.rated,
     files |-> IF want.files = snap.files THEN now.files ELSE want.files]

Closed(r, i) == IF i = 0 THEN r ELSE [r EXCEPT ![i].active = FALSE]

Rows(us) == [k \in 1 .. Len(us) |-> [user |-> us[k], active |-> TRUE]]

Commit(p) ==
    LET s == session[p] IN
    /\ s.phase = "commit"
    /\ Len(rows[s.ticket]) + Len(s.add) <= MaxRows
    /\ ticket' = [ticket EXCEPT ![s.ticket] = ChangedColumns(@, s.snap, s.want)]
    /\ rows' = [rows EXCEPT ![s.ticket] = Closed(@, s.close) \o Rows(s.add)]
    /\ session' = [session EXCEPT ![p] = Idle]
    /\ UNCHANGED regime

\* An exception, a refusal, a rollback or the end of the process.
Abort(p) ==
    /\ session[p].phase # "idle"
    /\ session' = [session EXCEPT ![p] = Idle]
    /\ UNCHANGED <<ticket, rows, regime>>

-----------------------------------------------------------------------------
(* The technicians of a ticket.                                             *)

\* assign_technicians; user_ids comes from the request and may repeat a technician.
ReadToAssign(p, t, us) ==
    /\ ticket[t].status \in Unresolved
    /\ Read(p, t, "assign", "rows", ticket[t], us)

\* The positions of those who do not attend the ticket already; active_ids is not
\* updated on the way.
NewTechs(us, r) == {k \in 1 .. Len(us) : \A i \in ActiveRows(r) : r[i].user # us[k]}

\* f lists the positions in the order of the request.
Lists(f, positions) ==
    /\ \A a, b \in DOMAIN f : a < b => f[a] < f[b]
    /\ \A k \in positions : \E a \in DOMAIN f : f[a] = k

PickNew(p) ==
    LET s == session[p]
        new == NewTechs(s.add, rows[s.ticket])
        w == [s.want EXCEPT !.status = IF @ = "PENDING" THEN "ASSIGNED" ELSE @] IN
    /\ s.phase = "rows" /\ s.op = "assign"
    /\ \E n \in 1 .. Len(s.add) : \E f \in [1 .. n -> new] :
          /\ Lists(f, new)
          /\ session' = [session EXCEPT ![p] =
                [s EXCEPT !.phase = "commit", !.add = [a \in 1 .. n |-> s.add[f[a]]], !.want = w]]
    /\ UNCHANGED <<ticket, rows, regime>>

ReadToUnassign(p, t, u) ==
    /\ ticket[t].status \in InWork
    /\ Read(p, t, "unassign", "rows", ticket[t], <<u>>)

OrphansInProgress(p) ==   \* mutant: only an ASSIGNED ticket returns to PENDING
    LET s == session[p]
        r == rows[s.ticket] IN
    /\ s.phase = "rows" /\ s.op = "unassign"
    /\ \E i \in ActiveRows(r) :
          /\ r[i].user = s.add[1]
          /\ session' = [session EXCEPT ![p] =
                [s EXCEPT !.phase = "commit", !.add = <<>>, !.close = i,
                          !.want.status = IF ActiveRows(r) = {i} /\ @ = "ASSIGNED"
                                          THEN "PENDING" ELSE @]]
    /\ UNCHANGED <<ticket, rows, regime>>

\* unassign_technician closes one active row of the technician (the relationship has no
\* order) and, when the others it has read are closed, returns the ticket to PENDING.
PickRow(p) ==
    LET s == session[p]
        r == rows[s.ticket] IN
    /\ s.phase = "rows" /\ s.op = "unassign"
    /\ \E i \in ActiveRows(r) :
          /\ r[i].user = s.add[1]
          /\ session' = [session EXCEPT ![p] =
                [s EXCEPT !.phase = "commit", !.add = <<>>, !.close = i,
                          !.want.status = IF ActiveRows(r) = {i} THEN "PENDING" ELSE @]]
    /\ UNCHANGED <<ticket, rows, regime>>

-----------------------------------------------------------------------------
(* The rest of the life of a ticket.                                        *)

Unrated == {t \in Tickets : ticket[t].status \in Resolved /\ ~ticket[t].rated}

\* The requester of every ticket is the same person.
ReadToCreate(p, t) ==
    /\ ticket[t].status = "NONE"
    /\ \A q \in Sessions : session[q].ticket # t
    /\ Cardinality(Unrated) < MaxUnrated
    /\ ReadPlain(p, t, [ticket[t] EXCEPT !.status = "PENDING"])

\* start_progress: a technician of the ticket or of its area, or a dispatcher.
ReadToStart(p, t) ==
    /\ ticket[t].status = "ASSIGNED"
    /\ ReadPlain(p, t, [ticket[t] EXCEPT !.status = "IN_PROGRESS"])

\* Only a dispatcher resolves what has not been started.
ReadToResolve(p, t, s) ==
    /\ ticket[t].status \in InWork
    /\ ReadPlain(p, t, [ticket[t] EXCEPT !.status = s])

ReadToRate(p, t) ==
    /\ ticket[t].status \in Resolved
    /\ ~ticket[t].rated
    /\ ReadPlain(p, t, [ticket[t] EXCEPT !.status = "CLOSED", !.rated = TRUE])

CancelsOpen(p, t) ==   \* mutant: only is_open is tested
    /\ ticket[t].status \in Unresolved \cup Resolved
    /\ ReadPlain(p, t, [ticket[t] EXCEPT !.status = "CANCELED"])

\* The requester while it is PENDING, a dispatcher later; the technicians stay.
ReadToCancel(p, t) ==
    /\ ticket[t].status \in Unresolved
    /\ ReadPlain(p, t, [ticket[t] EXCEPT !.status = "CANCELED"])

\* set_auto_delete_on_resolved_tickets and cleanup_expired_attachments.
ReadToMark(p, t) ==
    /\ ticket[t].status \in Terminal
    /\ ticket[t].files = "kept"
    /\ ReadPlain(p, t, [ticket[t] EXCEPT !.files = "marked"])

ReadToPurge(p, t) ==
    /\ ticket[t].files = "marked"
    /\ ReadPlain(p, t, [ticket[t] EXCEPT !.files = "purged"])

-----------------------------------------------------------------------------
MaintNext ==
    \E p \in Sessions :
       \/ Commit(p)
       \/ Abort(p)
       \/ PickNew(p)
       \/ PickRow(p)
       \/ \E t \in Tickets :
             \/ ReadToCreate(p, t)
             \/ \E u, v \in Techs : ReadToAssign(p, t, <<u>>) \/ ReadToAssign(p, t, <<u, v>>)
             \/ \E u \in Techs : ReadToUnassign(p, t, u)
             \/ ReadToStart(p, t)
             \/ \E s \in Resolved : ReadToResolve(p, t, s)
             \/ ReadToRate(p, t)
             \/ ReadToCancel(p, t)
             \/ ReadToMark(p, t)
             \/ ReadToPurge(p, t)

MaintSpec == MaintInit /\ [][MaintNext]_mvars

-----------------------------------------------------------------------------
(* Properties.                                                              *)

\* A ticket in work has a technician and a ticket in the queue has none, even when the
\* other sessions overlap, as long as the removal of a technician does not: the status
\* and the rows of the technicians are written by separate statements, from reads that
\* may be old (assignment_service 132-134, 245-251).
WorkHasTechnician ==
    regime # "overlap" =>
       \A t \in Tickets :
          /\ ticket[t].status \in InWork => ActiveRows(rows[t]) # {}
          /\ ticket[t].status \in {"NONE", "PENDING"} => ActiveRows(rows[t]) = {}

\* In turns the technicians of a finished ticket are history: nobody joins or leaves it
\* (the reports count the active rows of resolved tickets).
HistoryFrozen ==
    [][regime = "turns" =>
          \A t \in Tickets : ticket[t].status \in Terminal => rows'[t] = rows[t]]_mvars

\* In turns the files of a ticket outlive its work.
FilesOutliveWork ==
    regime = "turns" =>
       \A t \in Tickets : ticket[t].files # "kept" => ticket[t].status \in Terminal

\* In turns every ticket follows TicketLifecycle.
Lifecycle == INSTANCE TicketLifecycle
    WITH Reopens <- TRUE,
         status <- [t \in Tickets |-> IF regime = "turns" THEN ticket[t].status ELSE "NONE"]
LifecycleSpec == Lifecycle!LifecycleSpec

=============================================================================
