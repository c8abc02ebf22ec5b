# ITCJ: TLA+ models, checks and proofs

ITCJ (`src/itcj2`) is a FastAPI monolith with several applications on one PostgreSQL database, one Redis
and a Celery worker. Four uvicorn workers serve it (`docker/compose/docker-compose.prod.yml:118`); synchronous
endpoints run in a thread pool, each with a SQLAlchemy session of its own (`database.py`, `autoflush=False`,
READ COMMITTED). Almost every hard behaviour of the system has the same form: **a handler reads rows, decides,
and writes later, while other sessions do the same**. Some handlers protect themselves (compare-and-set, partial
unique index, `FOR UPDATE`, advisory locks), others do not. These modules model what the handlers do to the
rows, between which steps another session may move, and what the protections give.

Contents: [inventory](#1-inventory), [modules](#2-modules-and-the-code), [runs](#3-what-the-runs-check),
[disagreements](#4-where-the-code-and-its-text-disagree), [fairness](#5-fairness), [proofs](#6-what-is-proved),
[limits](#7-not-modelled), [plan](#8-plan).

## 1. Inventory

| component | state | operations | hard behaviour | what makes it correct |
|---|---|---|---|---|
| AgendaTec booking (`agendatec/services/request_service.py`, `request_ops.py`, `api/coord/*`) | requests, appointments, time slots (`is_booked`) | request an appointment or a drop; cancel; coordinator sets the appointment or the request; administrator changes the status; split and delete slots | compare-and-set and partial unique index against concurrent bookings; four cancellation paths that free the slot; `ON DELETE CASCADE` from slot to appointment | one active appointment per slot; no slot leaked; no appointment destroyed |
| AgendaTec holds (`api/slots.py`, `sockets/slots.py`) | Redis keys with a TTL, two per hold | hold, renew, release, sweep of a changed grid | WATCH/MULTI in one system, plain commands in the other; expiry between two commands | the two keys of a hold agree; nobody holds two slots |
| AgendaTec day geometry (`services/slot_service.py`) | windows and slots of a day | plan a split | interval arithmetic | windows do not overlap |
| Academic periods (`core/services/period_service.py`) | ACTIVE or INACTIVE per period | activate, deactivate | bulk update and one row | at most one ACTIVE |
| Warehouse stock (`warehouse/services/fifo_service.py`, `stock_service.py`) | lots, materials of tickets, movements | enter, consume FIFO, revert, adjust, annul a lot | lost updates on remainders; locks on some paths only | lots = entries - movements; material = consumed - returned |
| Helpdesk equipment retirement (`inventory_retirement_service.py`) | request, items, document, signatures, `is_active` of the equipment | draft, submit, sign x4, reject, resubmit, cancel, legacy approval | no locks; two commits in the last signature; rounds of signatures | signatures match the status; equipment is retired by an approved request only |
| Helpdesk tickets (`ticket_service.py`, `assignment_service.py`, `tasks/helpdesk_tasks.py`) | ticket, assignments, files | create, edit, assign, take, start, resolve, rate, cancel, delete files | unlocked read-check-write of two tables | an attended ticket has one open assignment that agrees with it; legal transitions |
| Helpdesk campaigns (`campaign_service.py`, `inventory_service.py`, `bulk_transfer.py`) | campaign, snapshot, lock of each item | create, assign, register, close, approve, reject, reopen, unlock, transfer | approval reads the items twice; transfers and registrations go on around it | what a validated campaign locks is what its head approved |
| Maintenance tickets (`maint/services/*`) | ticket, rows of technicians, files | assign, unassign, start, resolve, rate, cancel, purge | the last technician who leaves returns the ticket to the queue | a ticket in work has a technician |
| Configuration tables (`helpdesk/api/config/*`, `api/categories.py`, `maint/api/config/*`, `utils/catalog_cache.py` of both) | areas, priorities, categories, types, origins; a copy of each table per process; the tickets and specialties that name entries | create, switch on and off, mark as default, edit, reorder, delete; load and delete the copy; name an entry | the copy has no TTL and is deleted by the process that writes only; two switch-offs count each other | what a ticket names is active; a table keeps an active entry and one default |
| VisteTec (`vistetec/services/*`) | garments, slots with a counter, appointments | book, cancel, attend, complete, withdraw, delete, close a slot | counters by read-modify-write; only a UNIQUE code serialises | counter = live appointments <= limit; a garment is given once |
| Authorization (`authz_service.py`, `positions_service.py`, `authz_cache.py`) | roles, permissions, positions; Redis entries with a TTL | 21 administrative changes; read-through fill, invalidation | every change must know which entries it makes stale; fill races with invalidation | no path forgets an entry; answers settle |
| Sessions and accounts (`session_service.py`, `middleware.py`, `auth_service.py`) | cookie with a version, version in Redis | login, renew, logout, switch an account off or on | Redis outage; a renewal in flight during a revocation | a session that a revocation found is refused (except a renewal in flight); an account that is off is out |
| Departments (`departments_service.py`, `hierarchy_service.py`, `scope_service.py`) | the tree, the cached map of descendants | create, edit, expand | validation against a tree that changes; inactive nodes | a forest; the map follows the tree |
| Background tasks (`tasks/base.py`, `scheduler.py`, `core/api/tasks.py`) | TaskRun rows, Celery messages | dispatch, run, retry, cancel | row committed before the message is queued; acknowledgement after the end, redelivery, lost pool children | every run ends, a run in flight has a message |
| TitulaTec (`titulatec/services/*`, `pages/*`) | process, phases, documents | upload, submit, review, approve, reject | an approval acts on the phase the page shows; automatic advance | no phase is approved before those it follows |
| Warehouse catalogue and alerts, notifications and presence, directory, themes, mundial, CLI, pages | CRUD, broadcast, reports | | | |

Interactions: maintenance and helpdesk tickets call `fifo_service.consume` inside their own transaction (maintenance
inside a SAVEPOINT, `maint/services/ticket_service.py:499`); retirement calls `inventory_service.deactivate_item`,
which commits by itself; transfers, retirements and campaigns write the same equipment rows (`InventoryCampaigns` models
them together); booking reads the active period and deletes the hold of its slot; a change of the grid sweeps the holds of
the slots it deleted; every protected request reads the authorization entries and the session version, and the change of
a role may delete the versions with the entries (`invalidate_all`), which `UserSessions` models as the regime `admin`.
Sockets and notifications broadcast what is already committed, so they cannot change the outcome. The other
applications share no rows: that is what lets one run check several of them side by side (below).

## 2. Modules and the code

In the state machines over the database a *session* `p` is a record: its program counter or `phase` is the point between
two statements where another session may move, the other fields are what it has **read** and what it will **write**. A
`Begin...` or `ReadTo...` action is the handler up to its checks, a `Commit...` action is its writes and its commit. Four
facts of the platform are built in:

- the ORM's UPDATE names only the columns whose new value differs from the value that was **read**, writes absolute
  values and selects by primary key: a write based on an old read wins over what was committed since;
- a statement sees what is committed when it runs; within a session later statements see later states;
- an UPDATE, DELETE or `SELECT ... FOR UPDATE` waits for the row's lock; locks are released by commit or rollback;
- an error, a lost connection or a crash at any point is a rollback (`Abort`), possible between any two steps.

**Regimes.** Most of the newer modules have a variable that picks, in the initial state and for good, how far sessions
interleave (`regime`, `authzRegime`, `pageRegime`, ...). The code makes no such choice: in production everything may overlap.
The regime lets one run explore several worlds, and a property that holds only when people take turns says so in its
own text (`regime = "turns" => ...`). What happens in the worlds the property excludes is in [section 4](#4-where-the-code-and-its-text-disagree).

### AgendaBooking (with SlotAllocation, AgendaBookingProofs)

| module | code |
|---|---|
| `req[r]` (status, student, period, slot, `ap`) | a row of `agendatec_requests` with its appointment row (`request_id` is unique, so the two are one record) |
| `slot[s]` | `is_booked` of a `time_slots` row, `absent` before a split creates it, `gone` after its deletion |
| `BeginAppointment`, `ReserveSlot`, `CommitAppointment` | `create_appointment_request`: validations; `UPDATE ... WHERE is_booked = false`; inserts, with the IntegrityError of the index |
| `BeginCancel` ... `BeginAdminChange`, `FlushRequest`, `FlushSlot`, `CommitStatus` | the four handlers that change a status; the unit of work does not fix whether request or slot is flushed first, so both orders are allowed |
| `BeginSplit`, `TakeAdvisoryLock`, `SplitLock`, `SplitPlan`, `SplitApply` | `set_day_config`: advisory lock, `FOR UPDATE` one row at a time, `plan_split`, `apply_split` |
| `BeginDelete`, `CommitDelete` | `delete_day_range`: count, then delete, with no lock |
| `DeadlockVictim` | PostgreSQL's deadlock detector |

The constant `SessionsOverlap` says whether two sessions may work for one student at once, `StaffRewrites` whether
staff may change a request that is already cancelled: both are things the code allows, and both are turned off where
a run asks what holds when people take turns. `SlotAllocation` is the abstract specification: slots are taken when
nobody holds them, and released. The `DELETE` that meets a row locked by a booking re-evaluates its WHERE afterwards
(EvalPlanQual); in the model the deletion simply sees the committed row and the committed appointments; the
window this leaves out is described in [section 7](#7-not-modelled).

### WarehouseStock (with StockAccount, Fifo, FifoLoop, WarehouseStockProofs)

| module | code |
|---|---|
| `lot[e]` | `warehouse_stock_entries`: original and remaining quantity, `is_exhausted`, `voided`, purchase date |
| `material[k]` | `warehouse_ticket_materials` of a ticket |
| `ledger`, `billed` | the sums of `warehouse_movements` |
| `BeginConsume`, `LockLots`, `CommitConsume` | `consume`: checks; `FOR UPDATE` of the lots, one at a time; loop, upsert of the material, movement |
| `BeginReturn`, `ReadLatest`, `CommitReturn` | `revert_consumption`: reads the material, then the newest lot that is not annulled, writes both |
| `BeginAdjustOut`, `CommitAdjustOut`, `AdjustIn` | `adjust_stock` |
| `BeginVoid`, `CommitVoid`, `RegisterEntry`, `Deactivate` | `void_entry`, `register_entry`, `deactivate_product` |

`FifoTakes` (module `Fifo`) says what FIFO means, without a loop: from each lot, what is wanted and the older lots do
not give. `FifoLoop` is the loop of `consume`, one lot per step, and is checked against it; `WarehouseStock` uses the
definition. `StockAccount` is the abstract account of the product: a balance that receives, issues and writes off.
`Lots` and `Tickets` are rows of tables, hence finite (`StockFinite`): their sums are sums of finitely many terms.
The constant `Overlap` is the set of operations that may run concurrently with others.

### InventoryRetirement (with ApprovalChain, InventoryRetirementProofs)

| module | code |
|---|---|
| `status`, `oficio`, `document` | columns of `helpdesk_inventory_retirement_requests` |
| `content[r]` | `..._request_items`, unique per (request, item) |
| `sig[x]` | `..._signatures` by id; there is no unique constraint on (request, step) |
| `active` | `InventoryItem.is_active` |
| `BeginAdd`, `BeginRemove`, `BeginAttach`, `BeginOficio` and their commits | the draft |
| `BeginSubmit`, `CommitSubmit` | `submit_request`, `submit_for_approval` |
| `BeginSign`, `FindRow`, `CommitSign`, `Retire` | `sign_request`: the status; the row of the step, by a query of its own, or a new one; the signature; the last one is two commits |
| `BeginApprove`, `ApproveItem`, `CommitApprove` | `approve_request` for legacy requests; `deactivate_item` commits inside the loop, and with its commit the status |
| `BeginResubmit`, `DeleteSignatures`, `CommitResubmit` | `resubmit_request` |

`ApprovalChain` is the abstract specification: a request lacks 4 signatures (or 1), loses one at a time, and nothing
is retired unless a request was approved. A waiting request has a row for its step: that is the invariant
`AwaitingHasRow`, in every interleaving. The branch of `sign_request` that inserts a missing row (`if not sig`) therefore runs in one case only,
when a rejection and a resubmission commit between the signer's read of the status (line 562) and of the row (line 577); with
one session at a time on a request it never does. Other ways to deactivate equipment (the inventory API) are outside.

### HelpdeskTickets and MaintTickets (with TicketLifecycle, HelpdeskTicketsProofs, UpkeepProofs)

| module | code |
|---|---|
| `ticket[t]` | status, area, assignee and team, rating and files of a row of `helpdesk_tickets` (`maint_tickets`: status, rating, files) |
| `rows[t]` | `helpdesk_assignments` (`maint_ticket_technicians`), oldest first |
| `ReadToCreate`, `ReadToUpdate`, `ReadToRate`, `ReadToCancel` | `create_ticket`, `update_pending_ticket`, `rate_ticket`, `cancel_ticket` |
| `ReadToAssignTo`, `ReadToSelfAssign`, `FindOpenRow` | `assign_ticket`, `reassign_ticket`, `self_assign_ticket`, `_close_previous_assignment` |
| `ReadToStart`, `ReadToResolve` | `change_status` as the API uses it, `resolve_ticket` |
| `ReadToMark`, `ReadToDelete` / `ReadToPurge` | the periodic tasks that mark and delete the files of closed (finished) tickets |
| `ReadToAssign`, `PickNew`, `ReadToUnassign`, `PickRow` (maintenance) | `assign_technicians`, `unassign_technician`: the ticket first, its rows with a statement of their own |
| `ChangedColumns`, `Commit` | what the unit of work writes |

`TicketLifecycle` is the abstract specification both implement in turns: a ticket is created, attended, returned to the queue
(maintenance only, constant `Reopens`), resolved, closed or cancelled. In the regime `alone` (maintenance) everything overlaps
except with a session that removes a technician.

### VisteTecAppointments (with GarmentHandout, VisteTecProofs)

| module | code |
|---|---|
| `slot[s]` | `current_appointments`, `is_active` of a time slot; `Seats` is `max_appointments` |
| `garment[g]`, `appts` | the status of a garment, the appointments by id |
| `ReadToBook`, `TakeCode`, `CommitBooking` | `create_appointment`: slot and garment are read, then the last code; the code is UNIQUE |
| `ReadToCancel`, `ReadToMark`, `ReadToComplete`, `CommitChange` | `cancel_appointment`, `mark_attendance`, `complete_appointment` |
| `AddGarment`, `ReadToWithdraw`, `ReadToDelete`, `ReadToClose` | `create_garment`, `withdraw_garment`, `delete_garment`, `cancel_slot` |

Two bookings that made the same code cannot both commit, and a booking that reads the next code has committed bookings
behind it; only a booking that commits between the two reads of another (regime `overlap`) overbooks a slot. The regime
`codes` closes that window and nothing else. `GarmentHandout` is the abstract specification: a garment is kept for
one student and given once.

### Authorization (CoreServicesProofs)

`grants` is the set of rows of the six tables that decide what a user may do; `entry` the Redis entries per user, application
and kind. An administrator's request is `Checked` (its checks passed: what must still be there, what must not, what it
deletes and adds), `Commit` or `RollBack`, then `Bust` or, when Redis fails, `BustFails`. `Compute`, `ComputeDenied` and
`Store` are a read-through fill, with the query of the denials on its own. `RolesIn`, `Granted`, `Denied`,
`HasAssignment` translate the queries, including that some of them do not test `Position.is_active`. `InForce` leaves out the
dates of an assignment ([section 7](#7-not-modelled)).

### UserSessions, Departments, TaskRuns (composed by CoreServices; CoreServicesProofs)

| module | code |
|---|---|
| `Departments`: `ReadToCreate`, `ReadToPatch`, `CommitDept`, `BustDeptMap` | `create_department`, `update_department`, `_bust_dept_map` |
| `ComputeMap`, `StoreMap`, `ExpireMap`, `DescendantsMap` | `cached_descendants_map` |
| `ChildrenOf`, `DescendantsOf` | the recursive query of `hierarchy_service.py`: what it reaches is a least fixed point, and is written as one |
| `UserSessions`: `Accepted`, `BeginRequest`, `CheckAccount`, `ReadVersion`, `ReceiveCookie` | `JWTMiddleware.dispatch`: the cookie is validated; after the handler the account is read, then the version, and the answer carries the new cookie |
| `BeginLogin`, `ReadVersion`, `ReceiveCookie`, `Logout`, `SwitchOff`, `RevokeSwitched`, `SwitchOn` | login, logout, `toggle_user_status` (commit, then the increment) |
| `InvalidateAll`, `RedisOutage` | `invalidate_all` deletes the versions too; `current_version` is 0 without Redis |
| `TaskRuns`: `CreateRun`, `Enqueue`, `EnqueueFails` | `dispatch_task`, `apply_entry` |
| `BeforeStart`, `OnSuccess`, `OnFailure`, `Retry`, `Written` | the hooks of `LoggedTask`, which swallow their errors |
| `Receive`, `Acknowledge`, `WorkerDies`, `ChildLost`, `Heed` | Celery and the broker, external: late acknowledgement; redelivery of what a dead worker held; a worker that loses a child of its pool acknowledges the message (`task_reject_on_worker_lost` is not set, `celery_app.py:31`); revocation by broadcast |
| `Cancel`, `CommitCancel` | `revoke_run` |

### InventoryCampaigns (composed with MaintTickets by Upkeep; UpkeepProofs)

A clerk's request reads and tests (`Create`, `Assign`, `Register`, `Close`, `Approve`, `Reopen`, `Unlock`, `TransferMany`,
`TransferOne`, `Retire`, ...) and commits later what it changes (`CommitCreate`, `CommitRequest`, `Changed`). The approval reads
the items of the campaign twice, for the snapshot and to lock them (`ReadItems`). A registration may name any campaign, also
one that is validated or of another office: `create_item` (`inventory_service.py:113`) and `bulk_create_items` (lines 240 and 266)
copy the `campaign_id` they are sent. What joins a validated campaign that way is marked `late`. The regime `apart` keeps a
validation apart from requests that name a campaign; the rest overlaps.

### Catalogues (composed by Procedures; ProceduresProofs)

The configuration tables of helpdesk and maintenance have the same handlers with different guards, so one module models
them and `kind` says which table an execution is about; `OfHelpdesk`, `Cached`, `KeepsLast`, `HasFallback` and `Deletable` say
which guards it has.

| module | code |
|---|---|
| `listing[e]` | `is_active` (or no row) and `is_default` of an entry |
| `copy[s]` | the module variable of `catalog_cache.py` in process `s`, `NoCopy` when it is `None` |
| `ReadToCreate`, `ReadToSwitchOn`, `ReadToSwitchOff`, `ReadToDelete`, `CommitChange` | `create_...`, `toggle_...`, `delete_...`: tests, then the commit; the code is unique |
| `ReadToMark`, `ReadToUnmark` | `update_priority` of maintenance with `is_default`, `_unmark_defaults` |
| `Flush`, `Fails` | `invalidate_...` after the commit and the refresh; a refresh that fails leaves the copy |
| `Fill`, `Store` | `_ensure_...`: the query and the assignment |
| `FallsBack`, `Valid` | `get_..._codes`, with the codes that are built in when there is no copy |
| `ReadToName`, `CommitName` | `create_ticket`, `update_pending_ticket`, `resolve_ticket` (types, origins), `assign_technician_area` |
| `Advance`, `DropSpecialty` | the life of a ticket as the guards see it, `remove_technician_area` |

### TitulationProcess, SlotHolds, SocketHolds (composed with FifoLoop and Catalogues by Procedures; ProceduresProofs)

| module | code |
|---|---|
| `TitulationProcess`: `Approval`, `Rejection`, `NextApplicable` | `approve_phase`, `reject_phase`, `_next_applicable` |
| `Render`, `Shows`, `PhaseApprove`, `PhaseReject` | the page of an officer, whose button names the phase that was current when it was rendered |
| `Upload`, `Review`, `ReviewAdvance`, `SubmitInitialDocs`, `SubmitFormatB` | `document_service.py`, `pages/documents.py`, `pages/student.py`, `format_b_service.py` |
| `SlotHolds`: `Watch`, `Exec`, `Retry`, `Release`, `Delete`, `Expire` | `api/slots.py`: WATCH, MULTI/EXEC, release as GET and DEL |
| `SocketHolds` | `sockets/slots.py`, one action per Redis command; the sweep of `day_config.py:129` |

History variables, which the code does not keep and only properties read: `passed` (phases approved so far), the field `session` of a
cookie (how its session stands to the last revocation: `current`, `revoked`, or `spared` because a renewal of it was in
flight), `abandoned` (runs that lost the child executing them), the fields `freed` and `late` of an item (unlocked by an
administrator, registered into a validated campaign). `CoreServices`, `Upkeep` and `Procedures` run one of several components that share no row and no key, each in its own
executions: an interleaving would show nothing more, and the number of runs stays small.


## 3. What the runs check

| run | bounds | shows |
|---|---|---|
| `booking_free` | 1 student, 1 slot, 2 requests, 2 overlapping sessions, staff rewrites | `OneActivePerSlot`, `NoLeakedSlot`, `HistoryKept`, refinement of `SlotAllocation` |
| `booking_disciplined` | 2 students, 2 periods, a slot whose time passes, turns | `BookedAgrees`, `OneRequestPerPeriod` |
| `booking_live` | 1 request, 2 sessions, fairness | `SessionsEnd` |
| `stock` | 2 lots, 2 dates (or the same one), 1 ticket, quantities to 2, 4 operations, consumptions overlap each other, fairness | `LedgerAgrees`, `MaterialAgrees`, `SessionsEnd`, refinement of `StockAccount` |
| `retirement` | 2 requests (one legacy), 2 items, 2 sessions, 5 signature rows, turns per request | `AwaitingHasRow`, `SignaturesAgree`, `RetiredByApproval`, `SubmittedIsFrozen`, refinement of `ApprovalChain` |
| `retire_twice` | 2 requests, 1 item, 1 session | `OneLiveRequest` is **violated** (section 4) |
| `helpdesk_tickets` | 1 ticket, 2 technicians, 2 sessions, 3 assignments, turns and overlap | `WorkHasOpenRow`, `AssignmentAgrees`, refinement of `TicketLifecycle` |
| `upkeep` | a maintenance ticket with 2 technicians, 2 sessions, 3 rows, regimes turns and alone; 2 campaigns, 2 items, 2 offices, 2 clerks | `WorkHasTechnician`, `LocksAgree`, refinement of `TicketLifecycle` |
| `vistetec` | 2 students, 2 garments, slots of 1 and of 2 seats, 3 appointments, 2 sessions, limit of 1 active appointment | `SeatsAgree`, `CatalogueAgrees`, refinement of `GarmentHandout` |
| `authorization` | 2 users, a role, a position, 2 applications, a permission, 2 administrators, 2 changes, a fill, a Redis fault | `EntriesFollowGrants`, `AuthzSettles` |
| `core_services` | 3 departments and 2 changes; 2 browsers, 2 revocations, 2 outages, a flush; a run, 2 workers, 2 crashes, a retry | `MapFollowsTree`, `CyclesOnlyByActivation`, `RevokedIsRefused`, `SwitchedOffIsOut`, `InFlightHasMessage`, `RunsEnd` |
| `procedures` | 3 phases, one document, 2 officers, 4 petitions; 2 slots, 2 students with 2 tabs; 3 places, 2 sockets; stocks of up to 3 lots of up to 3 units; each configuration table with 2 entries, 2 processes, 2 requests and 1 ticket | `NoPhaseJumped`, `CurrentIsOpen`, `KeysAgree`, `SocketHoldsOne`, `LoopIsFifo`, `CatalogueServes`, `NamedIsServed` |

Why the bounds are enough to be interesting: two sessions are what a lost update, a stale check or a deadlock needs;
two requests for one slot are what the index and the compare-and-set are for (they may be of one student: with
`SessionsOverlap` a student opens both); two lots are what a lock order and a quantity that spans lots need; five
signature rows hold a whole round and the start of a second one; three assignments are one that was closed, one that is
open, and the second that two sessions may insert; two campaigns are what a transfer from one to the other needs; three
departments make a cycle longer than a swap, and an inactive one between two others; a titulation of three phases has
one before the phase an officer acts on and one after it, and a modality that skips the one between; two entries of a
table are the last one and the one before, two processes are one that writes and one that keeps its copy.

Names of the bounds: `MaxStarts` (operations of a run of `WarehouseStock`), `MaxSignatures`, `MaxRows` (assignments of a
ticket), `MaxAppts`, `GrantChanges`, `CacheFills`, `CacheFaults`, `DeptChanges`, `MaxBumps`, `MaxOutages`, `MaxFlushes`,
`MaxCrashes` (workers that die, or children of their pools), `MaxFaults`, `MaxRetries`, `MaxRevokes`, `MaxPetitions`, `MaxLots`, `MaxUnits`. Each is a conjunct of a guard
and of nothing else. `MaxUnrated = 3` and `Seats`, `MaxActive` are not bounds of the model but limits of the code
(`MaxActive` is the number of scheduled appointments a student may have, 3 in the code and smaller here so that it is met).

The booking runs have one slot, so there a split has no slot to create: it deletes the one that is there; the theorems
`OneActive` and `HistoryIsKept` cover every number of slots. Sets of interchangeable model values are declared symmetric
in the runs without liveness. `CHECK_DEADLOCK FALSE` appears where the system may stop: the operations of a bounded run
are used up, every request has reached a final status, a loop has ended. The constants of a theorem have no such bounds.

Each property of a passing run has a *mutant* in `PROJECT.json`: a plausible bug of one definition (a cancellation path
that forgets the slot, lots that are not locked, a revocation that does not touch Redis) under which the run fails.
Mutated forms stand next to the definition they change and are marked `mutant` in a comment; nothing else uses them.

## 4. Where the code and its text disagree

`retire_twice` is a run that TLC finds violated: the same equipment in two requests under way, with no concurrency at all
(`PROJECT.json` quotes the line of the refusal that should prevent it).

Several other sentences of the code are refuted by the same modules with a constant set otherwise, or with a property that
the runs do not list. They are not runs of their own; each is one line of a configuration away:

| statement | change | what happens |
|---|---|---|
| one live request per student and period (the index `uq_active_request_per_student`) | `booking_disciplined` with `SessionsOverlap = TRUE` | two tabs of one student create two requests; migration `4fc261c4f603` dropped the index |
| `BookedAgrees` | `StaffRewrites = TRUE` | a cancelled appointment that staff marks DONE (`api/coord/appointments.py:290`) stays on a free slot; `slot_service.py:377` assumes `is_booked` |
| `BookedAgrees` | `SessionsOverlap = TRUE` | a stale resolution revives a cancelled appointment: the slot is free, and the index refuses everybody who wants it |
| `LedgerAgrees` | `Overlap = {"consume", "out"}` | `adjust_stock` does not lock the lots `consume` locks: an update is lost |
| `MaterialAgrees` | `Overlap = {"return"}` | a reversal sent twice returns the units twice (`fifo_service.py:192`) |
| `ApprovedRetires` | `retirement` | a failure between the two commits of the last signature: approved, and never retired |
| `SubmittedIsFrozen` | `SessionsOverlap = TRUE` | equipment is added to a request that is already being signed (`inventory_retirement_service.py:113`) |
| `ChainSpec` | `SessionsOverlap = TRUE` | a cancellation commits after the submission: AWAITING to CANCELLED (`inventory_retirement_service.py:315`) |
| "una vez cerrado el ticket ya no recibe más cambios" (`attachment_cleanup.py:56`) | `ClosedUnchanged` in `helpdesk_tickets` | a session that read the ticket before it was closed writes afterwards |
| a technician in the ticket while it is in work | `upkeep` with the regime `overlap` | two concurrent unassignments each see the other technician (`maint/services/assignment_service.py:246`) |
| `SeatsAgree` | `vistetec` with the regime `overlap` | two students fill one seat (`appointment_service.py:147`) |
| `ChainSpec`, `SubmittedIsFrozen` | `SessionsOverlap = TRUE` | a signer reads the status, the request is rejected and resubmitted, and its row is gone: the signer inserts one and signs a draft, which is approved if it was the last step (`inventory_retirement_service.py:582`) |
| "Bloquea todos los items de la campaña" (`campaign_service.py:462`), "campaña de inventario OPEN del dpto" (`inventory_bulk_service.py:176`) | `AllLocked` in `upkeep` | one registration after the validation, with no concurrency: the campaign is not looked at, and the equipment is in the validated campaign without its lock |
| "invalida al instante TODOS los tokens del usuario" (`session_service.py:7`) | `RevokedAtOnce` in `core_services` | a request validated before a logout (`core/api/auth.py:103`) reads the version after it (`middleware.py:122`): its answer carries a cookie that is accepted |
| the same sentence | `RevokedStaysRefused` in `core_services` | `invalidate_all` deletes the versions; a cookie of version 0 that was revoked is accepted until it expires |
| "Reconoce la tarea solo al terminar (resiste crashes)" (`celery_app.py:41`) | `CrashesSurvived` in `core_services` | a pool child is lost (memory, or the hard `time_limit` of `helpdesk_tasks.py:73`, 472, 592, `notification_tasks.py:188`, `mundial_tasks.py:54`): the worker acknowledges its message, no hook runs, and the run stays RUNNING |
| a run ends | `InFlightHasMessage`, `RunsEnd` without `Unrefused` | the broker refuses the message of a row that is committed (`scheduler.py:205`, `core/api/tasks.py:352`): PENDING for ever, nobody sends it again |
| a cancelled run ends REVOKED (`core/api/tasks.py:408`) | `RevokedStaysRevoked` in `core_services` | the worker's `on_success` writes SUCCESS over it |
| no cycle in the tree of departments (`departments_service.py:133`) | `ActiveForest` in `core_services` | the validation follows active parents only: activating an inactive node closes a cycle |
| one active campaign per department | `OneActiveCampaign` in `upkeep` | reopening does not look for a newer campaign (`campaign_service.py:199`) |
| locked equipment stays where it was counted | `LockedStaysPut` in `upkeep` | a single transfer tests no lock |
| `approved --> [*]` (`docs/flows/00_state_machine.md`) | `ApprovedIsFinal` in `procedures` | saving Format B again reopens an approved phase (`pages/student.py:530`) |
| "Debe existir al menos un registro activo en el catálogo" (`maint/api/config/_catalog_crud.py:163`) | `procedures` with the regime `overlap` among `CatalogueRegimes` | two requests switch off the last two entries, each counting the other's |
| the default priority of maintenance can be chosen (`maint/api/config/priorities.py:205` keeps the default from being switched off) | `DefaultIsActive` in `procedures` | `update_priority` marks an inactive entry as the default as well |
| `NamedIsServed` | what it says of turns asked of `workers` for the cached tables | another process keeps the copy it has, for good: a ticket names an entry that was switched off ("La invalidación es best-effort", `helpdesk/utils/catalog_cache.py:7`) |
| `KeysAgree` | `SlotHolds` with what it says of the regime `whole` asked of `overlap` | GET and DEL are two commands: a hold taken in between loses one of its keys |

The passing runs show the other half: with turns taken, or with only the locking operation overlapping, the same
properties hold, so where a row above names an overlap the missing locks are all that is wrong. Three properties state their
exception instead of a regime, because the exception can happen at any time in the world they are about: `RevokedIsRefused`
(a renewal in flight at the revocation), `InFlightHasMessage` and `RunsEnd` (a refusal, a cancellation, a lost child) and
`LocksAgree` (equipment registered late).

## 5. Fairness

`FairSpec` of `AgendaBooking` and `WarehouseStock` adds strong fairness to the continuation of each session, never to its
start and never to `Abort`: a server thread goes on with its handler, and a session that waits for a lock gets it, because
PostgreSQL queues the waiters of a row in order of arrival. Weak fairness would not say this: the lock may be taken and
released by others again and again, so the waiting step is not continuously enabled. For a step that waits for nothing
the two coincide. The deadlock detector is part of the environment: a cycle of waits is broken after `deadlock_timeout`.

`AuthzFairness`: an administrator's request that has committed calls Redis, successfully or not; a fill that has begun computes
and stores; an entry expires (its TTL is finite, `authz_cache.py`). Nobody is obliged to start anything, and Redis may lose a
deletion. `SessionFairness`: a request that has begun reads the version, receives its cookie and checks the account; a cookie ages
and expires; the revocation of an account that was switched off is carried out. Redis is not obliged to come back. `DeptFairness`:
an editor who committed deletes the entry of the map, a fill stores, the entry expires. `TaskFairness`: the message of a run that
was recorded is sent, and each worker goes on (or its message is delivered to it again after a crash); crashes, faults and retries
are bounded, so that "in the end" has a meaning. All of these are weak: none of these steps waits for a lock that others take
and release.

## 6. What is proved

TLAPS proves for every value of the constants (any number of students, slots, requests, lots, tickets, sessions, ...). Every
invariant, action property and refinement that a passing run checks is now the property of a theorem; what is left to TLC
alone is liveness. `H` after a name says under which hypothesis on the constants it is proved, the one its run also makes.

- `AgendaBookingProofs`: `TypeCorrect`, `Invariant`, `OneActive`, `HistoryIsKept`, `NoLeak` and the refinement
  `ImplementsAllocation`, whatever overlaps; `BookedAgreesHolds` and `OneRequestHolds` (H: `Disciplined`, the two switches off).
- `WarehouseStockProofs`: `StockTypeCorrect`, `ConsumptionIsCurrent`, whatever overlaps; `LedgerKept`, `ExhaustedKept`,
  `MaterialKept` and the refinement `ImplementsAccount` (H: `OnlyConsumptions`); `LoopIsFifoHolds` about `FifoLoop`.
- `InventoryRetirementProofs`: `RetirementTypeCorrect` and `SignerFindsRow`, whatever overlaps; `RetiredWhenApproved`,
  `FrozenWhenSubmitted`, `SignaturesAgreeHolds` and the refinement `ImplementsChain` (H: `Turns`, one session at a time on a
  request).
- `HelpdeskTicketsProofs`: `TypeCorrect`, `WorkIsAssigned` (in every interleaving), `AssignmentAgreesHolds`,
  `FilesOutliveWorkHolds`, and the refinement `LifecycleFollowed`.
- `UpkeepProofs`, about `MaintTickets`: `MaintTypeCorrect`, `WorkHasTechnicianHolds`, `FilesOutliveWorkHolds`,
  `HistoryIsFrozen`, and the refinement `MaintLifecycle`; about `InventoryCampaigns`: `CampaignTypeCorrect`, `LocksAgreeHolds`.
- `ProceduresProofs`: `NoPhaseJumpedHolds`, `CurrentIsOpenHolds` (`TitulationProcess`), `KeysAgreeHolds` (`SlotHolds`),
  `SocketHoldsOneHolds` (`SocketHolds`), `CatalogueTyped`, `CatalogueKept` and `NamedServed` (`Catalogues`).
- `VisteTecProofs`: `VisteTecTypeCorrect`, `SeatsAgreeHolds`, `CatalogueAgreesHolds`, and the refinement `HandoutRefined`.
- `CoreServicesProofs`: `SessionTypeCorrect`, `RevokedIsRefusedHolds` (`UserSessions`); `TaskTypeCorrect`,
  `InFlightHasMessageHolds` (`TaskRuns`); `DeptTypeCorrect`, `MapFollowsTreeHolds`, `CyclesOnlyByActivationHolds`
  (`Departments`); `AuthzTypeCorrect`, `EntriesFollowGrantsHolds` (`Authorization`).

A theorem about a component is about that component's own specification (`MaintSpec`, `CampaignSpec`, `DeptSpec`, ...); the
composed runs (`Upkeep`, `Procedures`, `CoreServices`) execute one component at a time and leave the others alone.

The assumptions are the named ASSUMEs of the modules: markers such as `NoSession` are not members of the sets they
mark the absence of, bounds are natural numbers, switches are Booleans, the rows of the stock are finitely many, a seeded
tree of departments respects its foreign key.

*Booking.* The index makes `OneActivePerSlot` inductive by itself, the compare-and-set is not enough (a rewritten
appointment is active on a free slot). `HistoryKept` needs more: the slots a split has planned to delete are still locked by it
and still have no appointment. Somebody who inserts an appointment holds the lock of its slot since the compare-and-set,
so the two cannot coexist; a status change never moves an appointment, which needs to know what a session that waits has read
(`ReadersAgree`). `IInv` is the conjunction. The refinement maps a slot to the request whose appointment on it is SCHEDULED or
DONE, unique by `OneActivePerSlot`. `NoLeakedSlot` is a race between those who cancel: whoever cancels frees the slot only if he
read it as booked, so one that read it as free may cancel the last appointment and leave the slot booked. `BookedIsAnchored`
says why this does not happen: on a booked slot there is always an appointment that nobody is about to cancel having read the
slot as free. The one that booked the slot is such an appointment, since those who cancel it read the slot later. Under
`Disciplined` the invariant `Orderly` says that each student has one session, so what a session tested (`Creates`) or read
(`Changes`) is still so when it writes; then a slot is booked exactly when one live appointment is on it, and each
appointment has the status its request stands for.

*Stock.* `LockInv` says that a lock belongs to a session that is consuming, and that what it read of a locked lot is the lot
itself. It survives every other operation because an UPDATE waits for the lock, even in handlers that lock nothing
themselves. `StockInv` adds that, when only consumptions overlap, the session of any other operation is alone (`Alone`), that what it
read is current (`Fresh`), and that lots and movements agree (`LotsAgree`). `MaterialInv` is about the tickets: what they hold
was taken from lots, so a return finds a lot to go back to. Its conjuncts: a consumption under way has locked rows that can
still be taken from and its ticket's material as it is (`Backed`); of two consumptions one asks for all the other's rows
that are still available (`Ordered`), so two never write at once (`OneWriter`); the tickets together hold no more than is missing from the
lots (`Accounted`). With it each commit is a step of `StockAccount`: an entry and `AdjustIn` receive, a consumption consumes, a
return gives back, an adjustment and an annulment write off; every other step leaves the balance alone.

The sums are those of the community modules, a recursion over a set by CHOOSE. No prover here can instantiate the induction
theorems, so the lemmas about sums (a sum changes by what one term changes, is monotone, is positive when a term is, ...) are
proved from the existence of a least counterexample: `Least`, `BySize` (among the subsets on which a sum is not what it should
be there is one of least size, and taking an element from it gives a smaller one). With them `LoopInv` carries the loop of
`consume`: rows before the present one are used up, rows from it on are untouched, what was taken and what remains make the quantity.

*Retirement.* `AwaitingHasRow` is kept by unlocked handlers for a reason that is not obvious: every handler that writes an
AWAITING status inserts a row for that step in the same commit, and rows are only deleted by a resubmission, which
writes DRAFT in the same commit. `RowInv` adds to it that what a session carries is of the right kind for its program
counter and that the row a signer is about to sign, unless deleted, belongs to its request; a signer who found none inserts one, which
disturbs nothing. `TurnInv` adds what turns give:
sessions under way have requests of their own (`Alone`), so the status a handler checked is still there when it
writes (`InTurn`). Every step then keeps three things at once (`Keeps`): approved requests stay approved with their content,
which carries `RetiredByApproval` over the separate commits; nothing is written to a request that waits for signatures
but its status; and the step is one of `ApprovalChain` or leaves its three variables alone. `SigInv` adds the rows of a request
in the chain (`Chained`: exactly one for each step from the first to the present one, all approved but the present one, no row
in a draft) and what a session has read of them (`Reads`: a signer has found a row, and it is the unsigned one; what a resubmission read is all there is
to delete); `SignaturesAgree` follows.

*Tickets.* `WorkHasOpenRow` needs no turns: a handler that closes an assignment opens another in the same commit, and it only
closes rows it found open. In turns the strengthening is `TurnInv`: a session that has read is the only one at its ticket, so
what it carries is the row itself; from it follow `AssignmentAgrees` and each step's place in `TicketLifecycle`. For
maintenance the regime `alone` is the weakest that keeps a technician in the ticket: the session that removes one works alone,
everything else may overlap.

*Procedures.* The handler of the titulation does not compare the phase its page names with the current one: it approves or
rejects that phase whatever the current one is by then. That no phase is jumped follows from `ReachedInv`: a phase that a page
shows, or that a request is about to approve, was the current one once, so all phases before it had been approved. With fresh
pages a request moreover was computed from the rows as they still are (`FreshInv`), which gives `CurrentIsOpen`. For the
holds the invariant relates the two Redis keys in each state of a session between WATCH and EXEC. For sockets it says which
of the commands of a step are done.

*Catalogues.* Every request begins with a record of what it has read (`Sensible`), so the proofs treat all that begin as one step
(`Steps`) and all that end as another (`Ends`). `ServesInv`: while those that switch off or mark exclude each other, what one
of them counted (`Counted`) is still there at its commit: nobody else takes an entry out or adds a default. `NamedInv`: in
turns a copy is absent, true, or about to be deleted by the request that has committed (`CopyTrue`), so what a lookup serves
is active; that it does not fall back to the built-in codes because the copy is empty needs `CatalogueKept`.

*Campaigns.* In the regime `apart`, `LocksInv`: a validation is the only request that names a campaign (`ValidationsApart`);
what another request names, and the equipment it will write, belongs to no validated campaign, registrations excepted (`NamedUnsettled`); and what the
approval took as its snapshot is what is in the campaign when it reads the items again and when it locks them
(`SnapshotCurrent`). Registrations name any campaign, but bring equipment nobody else writes; what they add to a validated campaign
is `late`, and only that is (`LateSettled`). Transfers, retirements and unlocks overlap with all of it: they name no campaign
and lock nothing.

*VisteTec.* Two sessions overlap only if both book and their codes are apart (`Apart`). A booking that has read says what it
counted (`BookingCurrent`: its seat, its garment, its student's limit) as long as nobody has used the code it took: once another
booking has, this one will be refused. `SeatsAgree` and `GarmentAgrees` follow together, since a cancellation both frees a seat
and releases a garment. The refinement sends a garment to the student of its live appointment.

*Sessions.* `SteadyInv`: without an outage the version in Redis only grows, no cookie, in a browser or carried by a request,
is ahead of it, and the cookie of a session that was revoked is behind it (`Dated`), hence refused. A request that is going to issue a
cookie never carries a revoked session (`Continued`): a renewal under way at a revocation is `spared`, and what has read
its version before one is behind it.

*Tasks.* A worker that has finished holds a copy of the message too, so `InFlightHasMessage` is not inductive: `FlightInv` speaks
of the copies that can still end the run (`Carried`: in the broker or at a worker that has not finished), and of no worker
refusing a run nobody canceled. Losing a child takes a copy away without ending the run: such a run is `abandoned`, no longer `Untroubled`.

*Departments.* In turns a map that was computed is stored before the tree changes, and a commit is followed by a deletion.
For cycles, `GuardInv`: what a request tested of the tree is still so at its commit. `DescendantsOf` is the least set
closed under children, so the argument needs no induction: to see that d is not its own descendant it is enough to show a set closed
under the new children, with the children of d and without d. When m is hung from p that set is the old descendants of d,
with m and those of m if p is one of them (`HungAcyclic`); when departments or parents go, the old descendants that are
left (`PrunedAcyclic`). The run met it with three departments; the theorem has any number and any depth.

*Authorization.* `StaleIsBusted`: an entry that differs from the tables is on the list of an administrator's request that has
committed and not yet deleted. The work is in its 21 changes: for each, the users whose answers differ before and after are
among those whose entries the handler deletes (lemmas say whom a row of each table concerns, and that every other answer
stays the same). `FillTrue`: in turns, what a reader is computing is what the tables say.

Model-checked only: liveness. `SessionsEnd` (booking and stock), `AuthzSettles`, `SwitchedOffIsOut` and `RunsEnd` rest on fairness,
that is on ENABLED, which the prover does not have; they stay with the runs `booking_live`, `stock`, `authorization` and
`core_services`. `OneLiveRequest` is not a theorem because it is false (section 4).

## 7. Not modelled

`PROJECT.json` lists every component with its reason. Within the modelled ones, prices, folios, notifications, permissions,
wording and HTTP codes are left out, and:

- `AgendaBooking`: a request and its appointment are one record with one lock, although the database locks two rows (every
  handler that writes both does so in one transaction); the interval geometry of a day (`_fill_gaps`, `plan_split`'s windows)
  is abstracted to "some slots go, some are created"; a folio that collides is a creation that fails, which is no step. The
DELETE of `delete_day_range` (`day_config.py:387`) is one step on one committed state. In PostgreSQL its list of slots with
history is that of the snapshot in which the statement began, and a row that changed since is tested again for `is_booked` only: a
slot that is booked and cancelled again while the statement waits for the lock of another row is deleted, and its cancelled
appointment with it. `HistoryKept`, and the theorem `HistoryIsKept`, do not speak of that window.
- `WarehouseStock`: a warehouse with several products, and with it the order in which one ticket locks lots of several of
  them; restock alerts.
- `HelpdeskTickets`: comments, collaborators, equipment lists and custom fields; only the files' existence is modelled.
- `MaintTickets`: `route_ticket`, edits of a pending ticket, comments, areas, the authority of coordinators, the
  SAVEPOINT around the materials. That duplicate ids in one request insert two active rows is modelled.
- `VisteTecAppointments`: changes of a slot's place and hour, the pantry, donations, the volunteers of a slot.
- `Authorization`: the dates of an assignment to a position (`authz_service.py:27`). `end_date` is only written together with
  `is_active = False` (`positions_service.py:122`), which is modelled; but an assignment whose `start_date` lies ahead
  (`core/api/positions.py:285`) comes into force at midnight, when no handler runs and nothing deletes an entry: then the answers
  change with the TTL only. `EntriesFollowGrants` is about assignments that start on the day they are made. Also left out: `delete_app`
  (it deletes users' rows of every table); two writers that never touch the cache (`users_admin.py:337`, `cli/agendatec.py:476`); a transfer of a position whose second commit is refused leaves it vacant.
- `Departments`: the limit of 32 levels of the recursive queries (`_MAX_DEPTH`: "ninguna jerarquía real del ITCJ se acerca a
  esto", `hierarchy_service.py:18`); what is said of any depth is said of trees below it.
- `UserSessions`: the rate limit of logins. The docstring of `session_service` lists the change of a role among the reasons to
  increment the version; no code does.
- `TaskRuns`: the broker's visibility timeout, the schedule itself.
- `InventoryCampaigns`: verification, which edits items without looking at the lock.
- `Catalogues`: statuses, transitions, notification and field templates (no handler asks whether one of them is active); the
  coordinators' areas, which are the specialties of technicians over again. That a category belongs to the area of its
  ticket: `update_pending_ticket` of the helpdesk does not compare them when the area changes and the category sent is the one
  the ticket has (`ticket_service.py:970-994`); a ticket names one entry here.
- `TitulationProcess`: appointments of the titulation, the contents of Format B, chat, the ceremony, the review of documents by
  the administrator.
- `SlotHolds`: which slots a coordinator offers.

Not modelled at all: pages, templates, reports and statistics (most of the lines of `src/`: they read and format), the
command line, imports and exports of spreadsheets, notifications and presence (they broadcast what was committed), the
directory, themes and mundial applications (rows written by one handler each), migrations. The share of the implementation
that the map covers is therefore small; the code that decides, writes and races is in it.

## 8. Plan

1. The rest of what writes under concurrency: `VisteTecPantry` (counters by read-modify-write), routing and edits of pending
   maintenance tickets over `MaintTickets`, equipment groups and verification over `InventoryCampaigns`.
2. The interval arithmetic of `slot_service.py` as recursive functions against a reference definition.
3. Proofs: the properties that are theorems in turns only, under weaker hypotheses where the code justifies them (which overlaps
   of sessions `SignaturesAgree` and `MaterialAgrees` survive); `FilesOutliveWork` and `HistoryFrozen` as properties of runs.
