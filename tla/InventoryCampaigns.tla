------------------------ MODULE InventoryCampaigns ------------------------
(***************************************************************************)
(* Inventory campaigns of the helpdesk (campaign_service.py and its API):  *)
(* the computer centre opens a campaign for a department, puts equipment   *)
(* in it and closes it; the head of the department approves, which locks   *)
(* the equipment, or rejects it.  Transfers, retirements and registrations *)
(* of equipment (inventory_service.py, bulk_transfer.py, assignments.py)   *)
(* go on at the same time.                                                 *)
(*                                                                         *)
(* Every request reads, decides and commits later the columns it changes.  *)
(* "apart" keeps a validation apart from the requests that name a campaign *)
(* and lets the others overlap; "overlap" keeps nothing apart.             *)
(***************************************************************************)
EXTENDS Naturals, FiniteSets

CONSTANTS Campaigns, Items, Clerks, Offices,
          NoCampaign,       \* a null campaign_id
          NoOffice,
          CampaignRegimes   \* a subset of {"apart", "overlap"}

ASSUME CampaignNames == NoCampaign \notin Campaigns /\ NoOffice \notin Offices
ASSUME CampaignWorlds == CampaignRegimes \subseteq {"apart", "overlap"}

VARIABLES
    campaign,    \* [status, office, listed]: listed, the new_items of the approval's snapshot
    item,        \* [state, office, campaign, locked, lockedBy, freed]
    clerk,       \* the request each of them has in flight
    campaignRegime

cvars == <<campaign, item, clerk, campaignRegime>>

-----------------------------------------------------------------------------
NoRow == [status |-> "absent", office |-> NoOffice, listed |-> {}]
Created(o) == [NoRow EXCEPT !.status = "OPEN", !.office = o]

\* freed: the history has an ITEM_UNLOCKED; late: registered into a campaign
\* that was validated already
NewItem(o, c) == [state |-> "active", office |-> o, campaign |-> c,
                  locked |-> FALSE, lockedBy |-> NoCampaign, freed |-> FALSE, late |-> FALSE]
NoItem == [NewItem(NoOffice, NoCampaign) EXCEPT !.state = "absent"]

Free == [op |-> "none", phase |-> "idle", c |-> NoCampaign, o |-> NoOffice,
         items |-> {}, snapshot |-> {}, folio |-> 0]

Validations == {"approve", "reject"}

Named == {q \in Clerks : clerk[q].c # NoCampaign}

\* c: the campaign the request names, or NoCampaign
MayAct(p, op, c) ==
    /\ clerk[p] = Free
    /\ (campaignRegime = "apart" /\ c # NoCampaign) =>
          /\ op \in Validations => Named = {}
          /\ \A q \in Named : clerk[q].op \notin Validations

Begin(p, request) ==
    /\ MayAct(p, request.op, request.c)
    /\ clerk' = [clerk EXCEPT ![p] = request]
    /\ UNCHANGED <<campaign, item, campaignRegime>>

\* a request about campaign c, ready to commit
About(op, c) == [Free EXCEPT !.op = op, !.phase = "commit", !.c = c]

Give(op, c, o, S) == [About(op, c) EXCEPT !.o = o, !.items = S]

In(c) == {i \in Items : item[i].campaign = c}

ActiveAt(o) == \E c \in Campaigns : /\ campaign[c].office = o
                                    /\ campaign[c].status \in {"OPEN", "PENDING_VALIDATION"}

Folios == Cardinality({c \in Campaigns : campaign[c].status # "absent"})

-----------------------------------------------------------------------------
(* What each request reads and tests.                                      *)

\* create_campaign looks for an active campaign, then for the last folio
Create(p, o) ==
    /\ ~ ActiveAt(o)
    /\ Begin(p, [Free EXCEPT !.op = "create", !.phase = "folio", !.o = o])

GenerateFolio(p) ==
    /\ clerk[p].phase = "folio"
    /\ clerk' = [clerk EXCEPT ![p].phase = "commit", ![p].folio = Folios]
    /\ UNCHANGED <<campaign, item, campaignRegime>>

Eligible(c) == {i \in Items : /\ item[i].state = "active"
                              /\ item[i].office = campaign[c].office
                              /\ item[i].campaign = NoCampaign}

\* assign_item and bulk_assign_items: the others are skipped
Assign(p, c, S) ==
    /\ campaign[c].status = "OPEN"
    /\ S \subseteq Eligible(c) /\ S # {}
    /\ Begin(p, Give("assign", c, NoOffice, S))

Unassign(p, c, i) ==
    /\ campaign[c].status = "OPEN" /\ item[i].campaign = c
    /\ Begin(p, Give("unassign", c, NoOffice, {i}))

\* create_item and bulk_create_items copy the campaign_id of the request, if
\* any, and take any department; each new row has an id of its own
Register(p, c, o, S) ==
    /\ S # {}
    /\ \A i \in S : item[i].state = "absent"
    /\ \A q \in Clerks : clerk[q].op = "register" => S \cap clerk[q].items = {}
    /\ c # NoCampaign => campaign[c].status # "absent"
    /\ Begin(p, Give("register", c, o, S))

Close(p, c) ==
    /\ campaign[c].status = "OPEN" /\ In(c) # {}
    /\ Begin(p, About("close", c))

Reject(p, c) ==
    /\ campaign[c].status = "PENDING_VALIDATION"
    /\ Begin(p, About("reject", c))

\* validate_campaign reads the items for the snapshot ...
Approve(p, c) ==
    /\ campaign[c].status = "PENDING_VALIDATION"
    /\ Begin(p, [About("approve", c) EXCEPT !.phase = "items", !.snapshot = In(c)])

\* ... and once more to lock them
ReadItems(p) ==
    /\ clerk[p].phase = "items"
    /\ clerk' = [clerk EXCEPT ![p].phase = "commit", ![p].items = In(clerk[p].c)]
    /\ UNCHANGED <<campaign, item, campaignRegime>>

\* mutant: reopening tests that the campaign is closed
ReopensAny(c) == campaign[c].status \in {"PENDING_VALIDATION", "VALIDATED", "REJECTED"}

MayReopen(c) == campaign[c].status = "REJECTED"

\* reopen_campaign; whether the department has a newer campaign is not asked
Reopen(p, c) ==
    /\ MayReopen(c)
    /\ Begin(p, About("reopen", c))

Unlock(p, i) ==
    /\ item[i].state = "active" /\ item[i].locked
    /\ Begin(p, Give("unlock", NoCampaign, NoOffice, {i}))

\* bulk_transfer, bulk_send_to_limbo: a locked item is for an admin only
TransferMany(p, o, S, admin) ==
    /\ S # {}
    /\ \A i \in S : /\ item[i].state = "active" /\ item[i].office # o
                    /\ item[i].locked => admin
    /\ Begin(p, Give(IF admin THEN "admin transfer" ELSE "transfer", NoCampaign, o, S))

\* the transfer of one item tests no lock
TransferOne(p, o, i) ==
    /\ item[i].state = "active" /\ item[i].office # o
    /\ Begin(p, Give("transfer", NoCampaign, o, {i}))

\* deactivate_item, and the approval of a retirement
Retire(p, i) ==
    /\ item[i].state = "active"
    /\ Begin(p, Give("retire", NoCampaign, NoOffice, {i}))

-----------------------------------------------------------------------------
(* What each request writes.                                               *)

\* folio is UNIQUE: a request that lost the race fails
CommitCreate(p) ==
    /\ clerk[p].phase = "commit" /\ clerk[p].op = "create"
    /\ IF clerk[p].folio = Folios
       THEN \E c \in Campaigns :
               /\ campaign[c].status = "absent"
               /\ campaign' = [campaign EXCEPT ![c] = Created(clerk[p].o)]
       ELSE UNCHANGED campaign
    /\ clerk' = [clerk EXCEPT ![p] = Free]
    /\ UNCHANGED <<item, campaignRegime>>

\* mutant: the approval locks what the campaign had and forgets by which
LocksAnonymously(i, c) == [item[i] EXCEPT !.locked = TRUE]

LockedBy(i, c) == [item[i] EXCEPT !.locked = TRUE, !.lockedBy = c]

Validated(c) == c # NoCampaign /\ campaign[c].status = "VALIDATED"

Changed(i, r) ==
    CASE r.op = "assign"   -> [item[i] EXCEPT !.campaign = r.c]
      [] r.op = "unassign" -> [item[i] EXCEPT !.campaign = NoCampaign]
      [] r.op = "register" -> [NewItem(r.o, r.c) EXCEPT !.late = Validated(r.c)]
      [] r.op = "approve"  -> LockedBy(i, r.c)
      [] r.op = "unlock"   -> [item[i] EXCEPT !.locked = FALSE, !.freed = TRUE]
      [] r.op = "retire"   -> [item[i] EXCEPT !.state = "retired"]
      [] r.op \in {"transfer", "admin transfer"} -> [item[i] EXCEPT !.office = r.o]

StatusAfter == [close |-> "PENDING_VALIDATION", reject |-> "REJECTED",
                approve |-> "VALIDATED", reopen |-> "OPEN"]

CommitRequest(p) ==
    LET r == clerk[p]
    IN /\ r.phase = "commit" /\ r.op # "create"
       /\ item' = [i \in Items |-> IF i \in r.items THEN Changed(i, r) ELSE item[i]]
       /\ campaign' =
             IF r.op \in DOMAIN StatusAfter
             THEN [campaign EXCEPT ![r.c].status = StatusAfter[r.op],
                                   ![r.c].listed = IF r.op = "approve" THEN r.snapshot ELSE @]
             ELSE campaign
       /\ clerk' = [clerk EXCEPT ![p] = Free]
       /\ UNCHANGED campaignRegime

\* the request fails or its form is left
GiveUp(p) ==
    /\ clerk[p] # Free
    /\ clerk' = [clerk EXCEPT ![p] = Free]
    /\ UNCHANGED <<campaign, item, campaignRegime>>

-----------------------------------------------------------------------------
CampaignInit ==
    /\ campaign = [c \in Campaigns |-> NoRow]
    /\ item \in [Items -> {NoItem} \cup {NewItem(o, NoCampaign) : o \in Offices}]
    /\ clerk = [p \in Clerks |-> Free]
    /\ campaignRegime \in CampaignRegimes

CampaignStep(p) ==
    \/ \E o \in Offices : Create(p, o)
    \/ GenerateFolio(p) \/ ReadItems(p) \/ CommitCreate(p) \/ CommitRequest(p) \/ GiveUp(p)
    \/ \E c \in Campaigns :
          \/ Close(p, c) \/ Approve(p, c) \/ Reject(p, c) \/ Reopen(p, c)
          \/ \E S \in SUBSET Items : Assign(p, c, S)
          \/ \E i \in Items : Unassign(p, c, i)
    \/ \E c \in Campaigns \cup {NoCampaign}, o \in Offices, S \in SUBSET Items : Register(p, c, o, S)
    \/ \E i \in Items : Unlock(p, i) \/ Retire(p, i)
    \/ \E o \in Offices :
          \/ \E i \in Items : TransferOne(p, o, i)
          \/ \E S \in SUBSET Items, admin \in BOOLEAN : TransferMany(p, o, S, admin)

CampaignNext == \E p \in Clerks : CampaignStep(p)

CampaignSpec == CampaignInit /\ [][CampaignNext]_cvars

-----------------------------------------------------------------------------
(***************************************************************************)
(* What the head of the department approved is what gets locked: the       *)
(* snapshot of a validated campaign is the equipment it had then, locked   *)
(* by that campaign unless an administrator freed it, and still in it; and *)
(* no other equipment is locked.  Only what is registered into a validated *)
(* campaign joins it later, unlocked.  Assignments, registrations and a    *)
(* second close may overlap the closing; only the validation is apart from *)
(* the requests that name a campaign (validate_campaign reads twice).      *)
(***************************************************************************)
LocksAgree ==
    campaignRegime = "apart" =>
        /\ \A c \in Campaigns :
              campaign[c].status = "VALIDATED" =>
                  /\ campaign[c].listed = {i \in In(c) : ~ item[i].late}
                  /\ \A i \in campaign[c].listed : /\ item[i].lockedBy = c
                                                   /\ item[i].locked \/ item[i].freed
        /\ \A i \in Items :
              item[i].locked =>
                  \E c \in Campaigns : campaign[c].status = "VALIDATED" /\ i \in campaign[c].listed

(***************************************************************************)
(* "Bloquea todos los items de la campaña" (campaign_service.py:462): all  *)
(* the equipment of a validated campaign is locked or was freed.           *)
(***************************************************************************)
AllLocked ==
    \A c \in Campaigns :
        campaign[c].status = "VALIDATED" => \A i \in In(c) : item[i].locked \/ item[i].freed

(***************************************************************************)
(* department_id is one of the fields a lock protects (items.py), and      *)
(* bulk_transfer refuses a locked item: a locked item changes department   *)
(* only by the hand of an administrator.                                   *)
(***************************************************************************)
LockedStaysPut ==
    [][\A i \in Items :
          (item[i].locked /\ item'[i].office # item[i].office) =>
              \E p \in Clerks : clerk[p].op = "admin transfer" /\ i \in clerk[p].items]_cvars

\* "Valida que no exista otra campaña OPEN o PENDING_VALIDATION para el
\* mismo departamento" (campaign_service.py:199)
OneActiveCampaign ==
    \A c, d \in Campaigns :
        (/\ c # d /\ campaign[c].office = campaign[d].office
         /\ {campaign[c].status, campaign[d].status} \subseteq {"OPEN", "PENDING_VALIDATION"})
        => FALSE
=============================================================================
