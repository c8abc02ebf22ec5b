----------------------------- MODULE Catalogues -----------------------------
(***************************************************************************)
(* The configuration tables of the helpdesk and of maintenance (areas,     *)
(* priorities, categories, types and origins of a service), the copy each  *)
(* server process keeps of a table (utils/catalog_cache.py of both         *)
(* applications: no TTL, deleted by the process that writes), and the      *)
(* tickets and specialties that name entries of it.                        *)
(*                                                                         *)
(* The tables have the same handlers with different guards, so an          *)
(* execution is about one of them.  A request reads and tests, commits     *)
(* later, and only then deletes the copy of its process.                   *)
(*                                                                         *)
(* "turns": one process, one request at a time, no failure after a commit; *)
(* "workers": one request at a time, by any process, and failures;         *)
(* "alone": the threads of a process overlap, except that requests which   *)
(* switch an entry off or mark a default exclude each other;               *)
(* "overlap": all of them overlap.                                         *)
(***************************************************************************)
EXTENDS Naturals, FiniteSets

CONSTANTS Entries,           \* codes of the table
          BuiltInCodes,      \* those a lookup falls back to
          Servers, Requests,
          Namers,            \* tickets, or specialties of technicians
          NoEntry, NoCopy,
          CatalogueRegimes   \* the regimes an execution may pick

ASSUME CatalogueMarkers ==
    NoEntry \notin Entries \cup Namers /\ \A c \in SUBSET Entries : NoCopy # c
ASSUME CatalogueSize == IsFiniteSet(Entries) /\ Servers # {}
ASSUME CatalogueCodes == BuiltInCodes \subseteq Entries
ASSUME CatalogueRegimesKnown == CatalogueRegimes \subseteq {"turns", "workers", "alone", "overlap"}

VARIABLES catalogueRegime,
          kind,      \* the table the execution is about
          listing,   \* [state, default] of each entry: "absent", "on" or "off"
          copy,      \* the active codes in the copy of each process
          request,   \* what each request has read and is about to write
          naming     \* [state, entry] of each ticket or specialty

cvars == <<catalogueRegime, kind, listing, copy, request, naming>>

OfHelpdesk == {"hd area", "hd priority", "hd category"}
OfMaint == {"mt area", "mt priority", "mt list", "mt category"}
Cached == {"hd area", "hd priority", "mt area", "mt priority", "mt list"}
HasFallback == Cached \ {"hd priority"}
KeepsLast == {"mt area", "mt priority", "mt list"}
Deletable == {"hd priority", "hd category"}

OneServer == CHOOSE s \in Servers : TRUE

NoRequest ==
    [op |-> "none", server |-> OneServer, entry |-> NoEntry, namer |-> NoEntry,
     on |-> {}, off |-> {}, marks |-> {}, unmarks |-> {}]

Active == {e \in Entries : listing[e].state = "on"}
Defaults == {e \in Entries : listing[e].default}

InUse(e) == \E k \in Namers : naming[k].entry = e /\ naming[k].state \in {"pending", "open"}

-----------------------------------------------------------------------------
Orderly == catalogueRegime \in {"turns", "workers"}
Exclusive(r) == r.op = "off" \/ r.marks # {}

Begin(m, r) ==
    /\ request[m] = NoRequest
    /\ catalogueRegime # "workers" => r.server = OneServer
    /\ Orderly => \A q \in Requests : request[q] = NoRequest
    /\ catalogueRegime = "alone" /\ Exclusive(r) => \A q \in Requests : ~ Exclusive(request[q])
    /\ request' = [request EXCEPT ![m] = r]
    /\ UNCHANGED <<catalogueRegime, kind, listing, copy, naming>>

At(s, op, e) == [NoRequest EXCEPT !.op = op, !.server = s, !.entry = e]

\* the areas of the helpdesk are fixed; only a priority of maintenance may be
\* created as the default, which unmarks the others
ReadToCreate(m, s, e, default) ==
    /\ kind # "hd area" /\ listing[e].state = "absent"
    /\ default => kind = "mt priority"
    /\ Begin(m, [At(s, "create", e) EXCEPT !.on = {e},
                                           !.marks = IF default THEN {e} ELSE {},
                                           !.unmarks = IF default THEN Defaults ELSE {}])

\* toggle with is_active = true asks for nothing
ReadToSwitchOn(m, s, e) ==
    /\ listing[e].state # "absent"
    /\ Begin(m, [At(s, "on", e) EXCEPT !.on = {e} \ Active])

\* mutant: the entry that leaves is counted among those that stay
CountsItself(e) ==
    /\ kind \in OfHelpdesk /\ e \in Active => ~ InUse(e)
    /\ kind \in KeepsLast => Cardinality(Active) >= 1
    /\ kind = "mt priority" => ~ listing[e].default

\* toggle with is_active = false: an open ticket keeps its entry in the helpdesk;
\* maintenance keeps an active entry and the default, and categories have no test
MaySwitchOff(e) ==
    /\ kind \in OfHelpdesk /\ e \in Active => ~ InUse(e)
    /\ kind \in KeepsLast => Cardinality(Active) > 1
    /\ kind = "mt priority" => ~ listing[e].default

ReadToSwitchOff(m, s, e) ==
    /\ listing[e].state # "absent" /\ MaySwitchOff(e)
    /\ Begin(m, [At(s, "off", e) EXCEPT !.off = {e} \cap Active])

\* update_priority of maintenance with is_default
ReadToMark(m, s, e) ==
    /\ kind = "mt priority" /\ listing[e].state # "absent"
    /\ Begin(m, [At(s, "mark", e) EXCEPT !.marks = {e}, !.unmarks = Defaults \ {e}])

ReadToUnmark(m, s, e) ==
    /\ kind = "mt priority" /\ listing[e].state # "absent"
    /\ Begin(m, [At(s, "unmark", e) EXCEPT !.unmarks = {e} \cap Defaults])

\* labels, colours, hours and order: "edit" refreshes the row afterwards, "reorder" does not
ReadToEdit(m, s, op) == op \in {"edit", "reorder"} /\ Begin(m, At(s, op, NoEntry))

\* a deletion switches off an entry that no ticket has ever named
ReadToDelete(m, s, e) ==
    /\ kind \in Deletable /\ listing[e].state # "absent"
    /\ \A k \in Namers : naming[k].entry # e
    /\ Begin(m, [At(s, "delete", e) EXCEPT !.off = {e} \cap Active])

Written(r) ==
    [e \in Entries |->
        [state |-> IF e \in r.on THEN "on" ELSE IF e \in r.off THEN "off" ELSE listing[e].state,
         default |-> (listing[e].default /\ e \notin r.unmarks) \/ e \in r.marks]]

\* the code is unique: a second creation is rolled back
CommitChange(m) ==
    LET r == request[m]
        after == [NoRequest EXCEPT !.server = r.server,
                     !.op = IF r.op \in {"delete", "reorder"} THEN "flush" ELSE "refresh"]
        refused == r.op = "create" /\ listing[r.entry].state # "absent"
    IN /\ r.op \in {"create", "on", "off", "mark", "unmark", "edit", "reorder", "delete"}
       /\ listing' = IF refused THEN listing ELSE Written(r)
       /\ request' = [request EXCEPT ![m] = IF refused \/ kind \notin Cached THEN NoRequest ELSE after]
       /\ UNCHANGED <<catalogueRegime, kind, copy, naming>>

\* mutant: the handler does not invalidate
FlushForgotten(m) ==
    /\ request[m].op \in {"refresh", "flush"}
    /\ request' = [request EXCEPT ![m] = NoRequest]
    /\ UNCHANGED <<catalogueRegime, kind, listing, copy, naming>>

\* invalidate_...: the copy of this process
Flush(m) ==
    /\ request[m].op \in {"refresh", "flush"}
    /\ copy' = [copy EXCEPT ![request[m].server] = NoCopy]
    /\ request' = [request EXCEPT ![m] = NoRequest]
    /\ UNCHANGED <<catalogueRegime, kind, listing, naming>>

\* a failure rolls back what is not committed; one of the refresh after the
\* commit leaves the copy
Fails(m) ==
    /\ request[m] # NoRequest /\ request[m].op # "flush"
    /\ request[m].op = "refresh" => catalogueRegime # "turns"
    /\ request' = [request EXCEPT ![m] = NoRequest]
    /\ UNCHANGED <<catalogueRegime, kind, listing, copy, naming>>

-----------------------------------------------------------------------------
\* _ensure_...: the query, then the assignment of the module variable
Fill(m, s) ==
    /\ kind \in Cached /\ copy[s] = NoCopy
    /\ Begin(m, [At(s, "fill", NoEntry) EXCEPT !.on = Active])

Store(m) ==
    LET r == request[m]
    IN /\ r.op = "fill"
       /\ copy' = [copy EXCEPT ![r.server] = r.on]
       /\ request' = [request EXCEPT ![m] = NoRequest]
       /\ UNCHANGED <<catalogueRegime, kind, listing, naming>>

\* without a copy: its load failed, or another request deleted it since
FallsBack(s) ==
    \/ kind \in HasFallback /\ copy[s] = NoCopy /\ catalogueRegime # "turns"
    \/ kind \in {"mt area", "mt priority"} /\ copy[s] = {}

\* get_..._codes; categories are read from the table
Valid(s) ==
    IF kind \notin Cached THEN Active
    ELSE IF FallsBack(s) THEN BuiltInCodes
    ELSE IF copy[s] = NoCopy THEN {} ELSE copy[s]

\* a new ticket or specialty, or another entry for one that waits; a type or an
\* origin is named by the resolution of a ticket in work
MayName(k, e) ==
    IF kind = "mt list" THEN naming[k].state = "open"
    ELSE \/ naming[k].state = "none" /\ \A q \in Requests : request[q].namer # k
         \/ naming[k].state = "pending" /\ naming[k].entry # e

ReadToName(m, s, k, e) ==
    /\ MayName(k, e) /\ e \in Valid(s)
    /\ Begin(m, [At(s, "name", e) EXCEPT !.namer = k])

CommitName(m) ==
    LET r == request[m]
        k == r.namer
    IN /\ r.op = "name"
       /\ naming' = [naming EXCEPT ![k] =
              [state |-> IF kind = "mt list" THEN "done"
                         ELSE IF naming[k].state = "none" THEN "pending" ELSE naming[k].state,
               entry |-> r.entry]]
       /\ request' = [request EXCEPT ![m] = NoRequest]
       /\ UNCHANGED <<catalogueRegime, kind, listing, copy>>

\* the life of a ticket, as far as the guards ask: attended, then over
Advance(k) ==
    /\ kind \notin {"mt area", "mt list"}
    /\ Orderly => \A q \in Requests : request[q] = NoRequest
    /\ \E next \in {"open", "done"} :
          /\ \/ naming[k].state = "pending"
             \/ naming[k].state = "open" /\ next = "done"
          /\ naming' = [naming EXCEPT ![k].state = next]
    /\ UNCHANGED <<catalogueRegime, kind, listing, copy, request>>

\* remove_technician_area
DropSpecialty(k) ==
    /\ kind = "mt area" /\ naming[k].state = "pending"
    /\ Orderly => \A q \in Requests : request[q] = NoRequest
    /\ naming' = [naming EXCEPT ![k] = [state |-> "none", entry |-> NoEntry]]
    /\ UNCHANGED <<catalogueRegime, kind, listing, copy, request>>

-----------------------------------------------------------------------------
\* the seeds: active entries, one default priority in maintenance
CatalogueInit ==
    /\ catalogueRegime \in CatalogueRegimes
    /\ kind \in OfHelpdesk \cup OfMaint
    /\ \E seeded \in IF kind = "hd area" THEN {Entries} ELSE (SUBSET Entries) \ {{}} :
       \E default \in IF kind = "mt priority" THEN seeded ELSE {NoEntry} :
          listing = [e \in Entries |-> [state |-> IF e \in seeded THEN "on" ELSE "absent",
                                        default |-> e = default]]
    /\ copy = [s \in Servers |-> NoCopy]
    /\ request = [m \in Requests |-> NoRequest]
    /\ naming = [k \in Namers |->
          [state |-> IF kind = "mt list" THEN "open" ELSE "none", entry |-> NoEntry]]

CatalogueNext ==
    \/ \E m \in Requests, s \in Servers :
          \/ \E op \in {"edit", "reorder"} : ReadToEdit(m, s, op)
          \/ Fill(m, s)
          \/ \E e \in Entries :
                \/ \E default \in BOOLEAN : ReadToCreate(m, s, e, default)
                \/ ReadToSwitchOn(m, s, e) \/ ReadToSwitchOff(m, s, e) \/ ReadToDelete(m, s, e)
                \/ ReadToMark(m, s, e) \/ ReadToUnmark(m, s, e)
                \/ \E k \in Namers : ReadToName(m, s, k, e)
    \/ \E m \in Requests : CommitChange(m) \/ Flush(m) \/ Fails(m) \/ Store(m) \/ CommitName(m)
    \/ \E k \in Namers : Advance(k) \/ DropSpecialty(k)

CatalogueSpec == CatalogueInit /\ [][CatalogueNext]_cvars

-----------------------------------------------------------------------------
RequestOps ==
    {"none", "create", "on", "off", "mark", "unmark", "edit", "reorder", "delete", "fill", "name",
     "refresh", "flush"}

CatalogueTypeOK ==
    /\ catalogueRegime \in {"turns", "workers", "alone", "overlap"}
    /\ kind \in OfHelpdesk \cup OfMaint
    /\ listing \in [Entries -> [state : {"absent", "on", "off"}, default : BOOLEAN]]
    /\ copy \in [Servers -> (SUBSET Entries) \cup {NoCopy}]
    /\ request \in [Requests ->
          [op : RequestOps, server : Servers, entry : Entries \cup {NoEntry},
           namer : Namers \cup {NoEntry}, on : SUBSET Entries, off : SUBSET Entries,
           marks : SUBSET Entries, unmarks : SUBSET Entries]]
    /\ naming \in [Namers -> [state : {"none", "pending", "open", "done"},
                              entry : Entries \cup {NoEntry}]]

(***************************************************************************)
(* What a ticket, a resolution or a specialty takes from a table is active *)
(* when it takes it, and in the helpdesk it stays active while the ticket  *)
(* is open: the copies never hide a change, and what is in use is not      *)
(* switched off.  In turns; for a category, which is not cached, with any  *)
(* number of processes.  A second process keeps its old copy for good      *)
(* ("La invalidación es best-effort", helpdesk/utils/catalog_cache.py).    *)
(***************************************************************************)
NamedIsServed ==
    [][(catalogueRegime = "turns" \/ (catalogueRegime = "workers" /\ kind \notin Cached)) =>
          \A k \in Namers :
             (/\ naming'[k].entry # NoEntry
              /\ \/ naming'[k].entry # naming[k].entry
                 \/ kind \in OfHelpdesk /\ naming'[k].state \in {"pending", "open"})
             => listing'[naming'[k].entry].state = "on"]_cvars

(***************************************************************************)
(* "Debe existir al menos un registro activo en el catálogo"               *)
(* (maint/api/config/_catalog_crud.py:163): a table of maintenance never   *)
(* runs out of active entries, and has one default at most, unless two     *)
(* requests that switch off or mark overlap: each counts the other's.      *)
(***************************************************************************)
CatalogueServes ==
    (kind \in KeepsLast /\ catalogueRegime # "overlap") =>
        /\ Active # {}
        /\ Cardinality(Defaults) <= 1

\* the default can be chosen: refuted, update_priority marks an inactive entry as well
DefaultIsActive == catalogueRegime = "turns" => Defaults \subseteq Active
=============================================================================
