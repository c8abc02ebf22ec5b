--------------------------- MODULE WarehouseStock ---------------------------
(***************************************************************************)
(* The global warehouse: the lots of ONE product, consumed in FIFO order   *)
(* by the tickets of helpdesk and maint (fifo_service, stock_service).     *)
(*                                                                         *)
(* As in AgendaBooking, handlers are database sessions at READ COMMITTED:  *)
(* a record in tx holds what a session has read, and it writes absolute    *)
(* values computed from them.  Only consume reads the lots FOR UPDATE.     *)
(* A flush and the COMMIT after it are one step, taken when the row locks  *)
(* of what it writes are free; a session may fail at any step before.      *)
(*                                                                         *)
(* Quantities are Numeric(10, 2) > 0: natural numbers of hundredths.       *)
(***************************************************************************)
EXTENDS Integers, FiniteSets, Fifo

CONSTANTS
    Lots, Tickets, Sessions,
    Dates,          \* purchase dates of the lots that are registered
    Today,          \* the date of a manual adjustment
    MaxQuantity,    \* bound: the quantity of one operation
    MaxStarts,      \* bound: the number of sessions that change existing lots
    Overlap,        \* the kinds of session that may run while another one does
    NoSession

ASSUME StockNames == NoSession \notin Sessions
ASSUME StockBounds ==
    /\ Dates \subseteq Nat /\ Today \in Dates
    /\ MaxQuantity \in Nat \ {0} /\ MaxStarts \in Nat
\* Lots and tickets are rows of tables.
ASSUME StockFinite == IsFiniteSet(Lots) /\ IsFiniteSet(Tickets)
ASSUME StockOverlap == Overlap \subseteq {"consume", "return", "out", "void"}

VARIABLES
    lot,        \* warehouse_stock_entries
    material,   \* warehouse_ticket_materials: used = 0 when there is no row; id is the row's
    ledger,     \* sum of the movements of each lot, as warehouse_movements records them
    billed,     \* the same for each ticket: CONSUMED less RETURNED
    active,     \* product.is_active
    rowLock,    \* who holds the row lock of a lot
    tx,         \* the sessions
    starts      \* the sessions started so far

vars == <<lot, material, ledger, billed, active, rowLock, tx, starts>>

-----------------------------------------------------------------------------
Quantities == 1 .. MaxQuantity

NoLot == [stored |-> FALSE, original |-> 0, remaining |-> 0, exhausted |-> FALSE,
          voided |-> FALSE, date |-> Today]

LotRows == [stored : BOOLEAN, original : Nat, remaining : Nat, exhausted : BOOLEAN,
            voided : BOOLEAN, date : Dates]

Materials == [id : Nat, used : Nat]

Idle == [pc |-> "idle", kind |-> "none", ticket |-> {}, qty |-> 0, rows |-> {},
         seen |-> [e \in Lots |-> NoLot], mat |-> [id |-> 0, used |-> 0]]

Transactions ==
    [pc : {"idle", "lock", "write", "latest"}, kind : {"none", "consume", "return", "out", "void"},
     ticket : SUBSET Tickets, qty : Nat, rows : SUBSET Lots,
     seen : [Lots -> LotRows], mat : Materials]

\* The lots a consumption or an adjustment looks at.
Available == {e \in Lots : /\ lot[e].stored /\ ~lot[e].exhausted
                           /\ ~lot[e].voided /\ lot[e].remaining > 0}

\* FIFO: the units to take from each of the rows that were read, qty in all.
Plans(rows, seen, qty) ==
    FifoTakes(rows, [e \in Lots |-> seen[e].date], [e \in Lots |-> seen[e].remaining], qty)

TypeOK ==
    /\ lot \in [Lots -> LotRows]
    /\ material \in [Tickets -> Materials]
    /\ ledger \in [Lots -> Int]
    /\ billed \in [Tickets -> Int]
    /\ active \in BOOLEAN
    /\ rowLock \in [Lots -> Sessions \cup {NoSession}]
    /\ tx \in [Sessions -> Transactions]
    /\ starts \in Nat

Init ==
    /\ lot = [e \in Lots |-> NoLot]
    /\ material = [t \in Tickets |-> [id |-> 0, used |-> 0]]
    /\ ledger = [e \in Lots |-> 0]
    /\ billed = [t \in Tickets |-> 0]
    /\ active = TRUE
    /\ rowLock = [e \in Lots |-> NoSession]
    /\ tx = [p \in Sessions |-> Idle]
    /\ starts = 0

-----------------------------------------------------------------------------
(* Sessions.                                                                *)

Finish(p) ==
    /\ tx' = [tx EXCEPT ![p] = Idle]
    /\ rowLock' = [e \in Lots |-> IF rowLock[e] = p THEN NoSession ELSE rowLock[e]]
    /\ UNCHANGED <<active, starts>>

RollbackSkipped(p) ==   \* mutant: get_db leaves the transaction open
    /\ tx' = [tx EXCEPT ![p] = Idle]
    /\ UNCHANGED <<lot, material, ledger, billed, active, rowLock, starts>>

Rollback(p) == Finish(p) /\ UNCHANGED <<lot, material, ledger, billed>>

Abort(p) == tx[p].pc # "idle" /\ Rollback(p)

Start(p, kind, t) ==
    /\ tx[p].pc = "idle" /\ starts < MaxStarts
    /\ \A q \in Sessions : tx[q].kind = "none" \/ {kind, tx[q].kind} \subseteq Overlap
    /\ tx' = [tx EXCEPT ![p] = [t EXCEPT !.kind = kind]]
    /\ starts' = starts + 1
    /\ UNCHANGED <<lot, material, ledger, billed, active, rowLock>>

Advance(p, t) ==
    /\ tx' = [tx EXCEPT ![p] = t]
    /\ UNCHANGED <<lot, material, ledger, billed, active, rowLock, starts>>

\* The rows a session writes are locked by nobody else.
MayWrite(p, rows) == \A e \in rows : rowLock[e] \in {p, NoSession}

\* UPDATE of the lots a plan takes from: remaining = what was read less what is
\* taken, and is_exhausted when that is zero.
TakeFrom(seen, take) ==
    [e \in Lots |->
        IF take[e] = 0 THEN lot[e]
        ELSE [lot[e] EXCEPT !.remaining = seen[e].remaining - take[e],
                            !.exhausted = @ \/ seen[e].remaining = take[e]]]

-----------------------------------------------------------------------------
(* New lots.                                                                *)

Store(e, n, d) ==
    /\ active
    /\ ~lot[e].stored
    /\ lot' = [lot EXCEPT ![e] = [stored |-> TRUE, original |-> n, remaining |-> n,
                                  exhausted |-> FALSE, voided |-> FALSE, date |-> d]]
    /\ ledger' = [ledger EXCEPT ![e] = @ + n]
    /\ UNCHANGED <<material, billed, active, rowLock, tx, starts>>

\* register_entry, with its ENTRY movement.
RegisterEntry(e, n, d) == Store(e, n, d)

\* adjust_stock IN, with its ADJUSTED_IN movement.
AdjustIn(e, n) == Store(e, n, Today)

-----------------------------------------------------------------------------
(* consume.                                                                 *)

BeginConsume(p, t, n) ==
    /\ active
    /\ Start(p, "consume", [Idle EXCEPT !.pc = "lock", !.ticket = {t}, !.qty = n,
                                        !.rows = Available])

LockNothing(p) ==   \* mutant: the query without with_for_update()
    /\ tx[p].pc = "lock"
    /\ \E ticket \in tx[p].ticket :
         Advance(p, [tx[p] EXCEPT !.pc = "write", !.rows = Available, !.seen = lot,
                                  !.mat = material[ticket]])

\* SELECT ... ORDER BY purchase_date FOR UPDATE: row after row, each one as it is
\* once its lock is granted, without those that no longer match.  Then the check of
\* the total, and the material of the ticket is read.
LockLots(p) ==
    LET t == tx[p]
        wanted == {e \in t.rows : rowLock[e] # p}
    IN
    /\ t.pc = "lock"
    /\ \/ \E e \in wanted :
            /\ \A other \in wanted : lot[e].date <= lot[other].date
            /\ rowLock[e] = NoSession
            /\ rowLock' = [rowLock EXCEPT ![e] = p]
            /\ tx' = [tx EXCEPT ![p].rows = IF e \in Available THEN @ ELSE @ \ {e},
                                ![p].seen[e] = lot[e]]
            /\ UNCHANGED <<lot, material, ledger, billed, active, starts>>
       \/ /\ wanted = {}
          /\ IF Plans(t.rows, t.seen, t.qty) = {}
             THEN Rollback(p)
             ELSE \E ticket \in t.ticket :
                    Advance(p, [t EXCEPT !.pc = "write", !.mat = material[ticket]])

\* The UPDATE of a material that is gone raises StaleDataError, the INSERT of one
\* that exists violates uq_warehouse_ticket_materials.
MaterialConflict(ticket, mat) ==
    IF mat.used > 0 THEN material[ticket].id # mat.id ELSE material[ticket].used > 0

Accumulated(mat, qty) == mat.used + qty

CommitConsume(p) ==
    LET t == tx[p] IN
    /\ t.pc = "write" /\ t.kind = "consume"
    /\ \E ticket \in t.ticket : \E take \in Plans(t.rows, t.seen, t.qty) :
         /\ MayWrite(p, {e \in Lots : take[e] > 0})
         /\ IF MaterialConflict(ticket, t.mat)
            THEN Rollback(p)
            ELSE /\ lot' = TakeFrom(t.seen, take)
                 /\ ledger' = [e \in Lots |-> ledger[e] - take[e]]
                 /\ material' = [material EXCEPT ![ticket].used = Accumulated(t.mat, t.qty)]
                 /\ billed' = [billed EXCEPT ![ticket] = @ + t.qty]
                 /\ Finish(p)

-----------------------------------------------------------------------------
(* revert_consumption: reads the material, then the newest lot, then writes. *)

BeginReturn(p, t) ==
    /\ material[t].used > 0
    /\ Start(p, "return", [Idle EXCEPT !.pc = "latest", !.ticket = {t}, !.mat = material[t]])

StoredLots == {e \in Lots : lot[e].stored}   \* mutant: the query forgets voided = false

LiveLots == {e \in Lots : lot[e].stored /\ ~lot[e].voided}

ReadLatest(p) ==
    LET latest == {e \in LiveLots : \A other \in LiveLots : lot[other].date <= lot[e].date} IN
    /\ tx[p].pc = "latest"
    /\ \/ LiveLots = {} /\ Advance(p, [tx[p] EXCEPT !.pc = "write"])
       \/ \E e \in latest :
            Advance(p, [tx[p] EXCEPT !.pc = "write", !.rows = {e}, !.seen[e] = lot[e]])

\* is_exhausted is written, as false, only when it was read as true.
Reopened(flag, seenFlag) == flag /\ ~seenFlag

\* A DELETE of a material that is gone already matches no row: only a warning.
CommitReturn(p) ==
    LET t == tx[p] IN
    /\ t.pc = "write" /\ t.kind = "return"
    /\ MayWrite(p, t.rows)
    /\ lot' = [e \in Lots |->
                 IF e \in t.rows
                 THEN [lot[e] EXCEPT !.remaining = t.seen[e].remaining + t.mat.used,
                                     !.exhausted = Reopened(@, t.seen[e].exhausted)]
                 ELSE lot[e]]
    /\ ledger' = [e \in Lots |-> IF e \in t.rows THEN ledger[e] + t.mat.used ELSE ledger[e]]
    /\ billed' = [k \in Tickets |-> IF k \in t.ticket /\ t.rows # {}
                                    THEN billed[k] - t.mat.used ELSE billed[k]]
    /\ material' = [k \in Tickets |->
                      IF k \in t.ticket /\ material[k].id = t.mat.id
                      THEN [id |-> t.mat.id + 1, used |-> 0] ELSE material[k]]
    /\ Finish(p)

-----------------------------------------------------------------------------
(* adjust_stock OUT: the same plan from lots it reads without a lock.       *)

BeginAdjustOut(p, n) ==
    /\ active
    /\ Plans(Available, lot, n) # {}
    /\ Start(p, "out", [Idle EXCEPT !.pc = "write", !.qty = n, !.rows = Available, !.seen = lot])

CommitAdjustOut(p) ==
    LET t == tx[p] IN
    /\ t.pc = "write" /\ t.kind = "out"
    /\ \E take \in Plans(t.rows, t.seen, t.qty) :
         /\ MayWrite(p, {e \in Lots : take[e] > 0})
         /\ lot' = TakeFrom(t.seen, take)
         /\ ledger' = [e \in Lots |-> ledger[e] - take[e]]
    /\ Finish(p)
    /\ UNCHANGED <<material, billed>>

-----------------------------------------------------------------------------
(* void_entry: reads the lot, then writes voided and a VOIDED movement.     *)

VoidAny(e) == lot[e].stored /\ ~lot[e].voided   \* mutant: the partially_consumed check is gone

Voidable(e) ==
    /\ lot[e].stored /\ ~lot[e].voided
    /\ lot[e].remaining >= lot[e].original

BeginVoid(p, e) ==
    /\ Voidable(e)
    /\ Start(p, "void", [Idle EXCEPT !.pc = "write", !.rows = {e}, !.seen[e] = lot[e]])

CommitVoid(p) ==
    LET t == tx[p] IN
    /\ t.pc = "write" /\ t.kind = "void"
    /\ MayWrite(p, t.rows)
    /\ lot' = [e \in Lots |-> IF e \in t.rows THEN [lot[e] EXCEPT !.voided = TRUE] ELSE lot[e]]
    /\ ledger' = [e \in Lots |-> IF e \in t.rows THEN ledger[e] - t.seen[e].remaining
                                 ELSE ledger[e]]
    /\ Finish(p)
    /\ UNCHANGED <<material, billed>>

\* deactivate_product; nothing activates a product again.
Deactivate ==
    /\ active
    /\ active' = FALSE
    /\ UNCHANGED <<lot, material, ledger, billed, rowLock, tx, starts>>

-----------------------------------------------------------------------------
\* Lots of one date may be locked in either order: PostgreSQL breaks the cycle.
Blocked(p) ==
    LET wanted == {e \in tx[p].rows : rowLock[e] # p}
    IN  /\ tx[p].pc = "lock"
        /\ \E e \in wanted : /\ rowLock[e] # NoSession
                              /\ \A other \in wanted : lot[e].date <= lot[other].date

DeadlockVictim(p) ==
    /\ Blocked(p)
    /\ \E q \in Sessions \ {p} : Blocked(q) /\ \E e \in Lots : rowLock[e] = p
    /\ Rollback(p)

Begin(p) ==
    \/ \E n \in Quantities : BeginAdjustOut(p, n) \/ \E t \in Tickets : BeginConsume(p, t, n)
    \/ \E t \in Tickets : BeginReturn(p, t)
    \/ \E e \in Lots : BeginVoid(p, e)

Continue(p) ==
    \/ LockLots(p) \/ CommitConsume(p) \/ ReadLatest(p) \/ CommitReturn(p)
    \/ CommitAdjustOut(p) \/ CommitVoid(p) \/ DeadlockVictim(p)

Next ==
    \/ \E p \in Sessions : Begin(p) \/ Continue(p) \/ Abort(p)
    \/ \E e \in Lots, n \in Quantities : AdjustIn(e, n) \/ \E d \in Dates : RegisterEntry(e, n, d)
    \/ Deactivate

Spec == Init /\ [][Next]_vars

\* The queue of a row lock is served in order of arrival (see AgendaBooking).
FairSpec == Spec /\ \A p \in Sessions : SF_vars(Continue(p))

-----------------------------------------------------------------------------
(* Properties.                                                              *)

\* The movements of a lot explain what is left in it ("trazabilidad completa" of
\* WarehouseMovement): no update is lost between consumptions, and FOR UPDATE is
\* what prevents it.
LedgerAgrees ==
    \A e \in Lots : ledger[e] = IF lot[e].voided THEN 0 ELSE lot[e].remaining

\* A lot is marked as exhausted when it is empty and only then: an exhausted lot
\* with units in it is stock no query ever finds again.
ExhaustedAgrees ==
    \A e \in Lots : lot[e].stored => (lot[e].exhausted <=> lot[e].remaining = 0)

\* A ticket can give back what it holds: the material of a ticket is what its
\* movements say it took and did not return, and as long as some ticket holds
\* material some lot is left that is not annulled (revert_consumption would
\* otherwise delete the material and return nothing), because a lot that units
\* were taken from is not annulled (the message of void_entry).
MaterialAgrees ==
    /\ \A t \in Tickets : billed[t] = material[t].used
    /\ (\E t \in Tickets : material[t].used > 0) => \E e \in Lots : lot[e].stored /\ ~lot[e].voided
    /\ \A e \in Lots : lot[e].voided => lot[e].remaining >= lot[e].original

\* What a consumption has locked stays as it read it until it ends, though the
\* handlers that never lock write the same lots.
LockedIsCurrent ==
    \A p \in Sessions : tx[p].pc = "write" /\ tx[p].kind = "consume"
                          => \A e \in tx[p].rows : tx[p].seen[e] = lot[e]

Account == INSTANCE StockAccount WITH
    stock <- SumFunction([e \in Lots |-> IF lot[e].voided THEN 0 ELSE lot[e].remaining]),
    used <- [t \in Tickets |-> material[t].used]

\* The lots implement the account of the product: what a ticket takes leaves the
\* stock, what it gives back is in the stock again.
AccountSpec == Account!Spec

\* Every session that starts ends, though consumptions wait for each other's lots.
SessionsEnd == \A p \in Sessions : tx[p].pc # "idle" ~> tx[p].pc = "idle"

=============================================================================
