------------------------ MODULE InventoryRetirement -------------------------
(***************************************************************************)
(* Helpdesk: the requests to retire equipment and their chain of           *)
(* signatures (inventory_retirement_service).                              *)
(*                                                                         *)
(* A handler reads the request, checks its status and, later, commits what *)
(* it decided; no handler locks anything.  A record in tx holds what a     *)
(* session has read.  A commit writes absolute values by primary key; the  *)
(* status a handler writes always differs from the one it read, so it is   *)
(* always in the UPDATE.  A session may fail between any two of its steps. *)
(*                                                                         *)
(* Who signs is left out: sign_request checks the position that belongs to *)
(* the status it has read.  Folios are left out: they are unique in the    *)
(* database, and a creation that collides with another one fails.          *)
(***************************************************************************)
EXTENDS Naturals, FiniteSets

CONSTANTS
    Requests, Items, Sessions,
    Legacy,           \* requests that were PENDING before the chain of signatures existed
    LegacyContent,    \* the equipment in each of them
    MaxSignatures,    \* bound: the rows of helpdesk_inventory_retirement_signatures
    SessionsOverlap,  \* may two sessions work on the same request at once?
    NoRequest

ASSUME RetirementNames == NoRequest \notin Requests /\ Legacy \subseteq Requests
ASSUME RetirementBounds ==
    /\ MaxSignatures \in Nat
    /\ LegacyContent \in SUBSET Items
    /\ SessionsOverlap \in BOOLEAN

VARIABLES
    status,     \* "NONE" before create_request
    oficio,     \* requests whose oficio was generated (oficio_data is not null)
    document,   \* requests with an attached document
    content,    \* the items of a request
    sig,        \* the signature rows, by id
    active,     \* the equipment with is_active
    tx          \* the sessions

vars == <<status, oficio, document, content, sig, active, tx>>

-----------------------------------------------------------------------------
Awaiting == {"AWAITING_RECURSOS_MATERIALES", "AWAITING_SUBDIRECTOR",
             "AWAITING_DIRECTOR", "AWAITING_COMP_CENTER"}

Status == Awaiting \cup {"NONE", "DRAFT", "PENDING", "APPROVED", "REJECTED", "CANCELLED"}

\* _get_position_for_status: the step of the chain that a status waits for.
Step(s) ==
    CASE s = "AWAITING_RECURSOS_MATERIALES" -> 1
      [] s = "AWAITING_SUBDIRECTOR" -> 2
      [] s = "AWAITING_DIRECTOR" -> 3
      [] s = "AWAITING_COMP_CENTER" -> 4

SkipsDirector(s) ==   \* mutant: the director is left out of the chain
    CASE s = "AWAITING_RECURSOS_MATERIALES" -> "AWAITING_SUBDIRECTOR"
      [] s = "AWAITING_COMP_CENTER" -> "APPROVED"
      [] OTHER -> "AWAITING_COMP_CENTER"

\* _next_status; the last signature approves the request.
NextStatus(s) ==
    CASE s = "AWAITING_RECURSOS_MATERIALES" -> "AWAITING_SUBDIRECTOR"
      [] s = "AWAITING_SUBDIRECTOR" -> "AWAITING_DIRECTOR"
      [] s = "AWAITING_DIRECTOR" -> "AWAITING_COMP_CENTER"
      [] s = "AWAITING_COMP_CENTER" -> "APPROVED"

SigIds == 1 .. MaxSignatures

NoSig == [state |-> "absent", req |-> NoRequest, step |-> 0, action |-> "NONE"]

Signatures == [state : {"absent", "stored", "deleted"}, req : Requests \cup {NoRequest},
               step : 0 .. 4, action : {"NONE", "APPROVED", "REJECTED"}]

Idle == [pc |-> "idle", req |-> NoRequest, items |-> {}, target |-> "NONE",
         step |-> 0, rows |-> {}, seenAction |-> "NONE"]

Transactions ==
    [pc : {"idle", "add", "remove", "attach", "oficio", "submit", "status", "approve",
           "find", "sign", "retire", "delete", "resubmit"},
     req : Requests \cup {NoRequest}, items : SUBSET Items, target : Status,
     step : 0 .. 4, rows : SUBSET SigIds, seenAction : {"NONE", "APPROVED", "REJECTED"}]

\* The signature rows of a request, and those of one of its steps.
RowsOf(r) == {x \in SigIds : sig[x].state = "stored" /\ sig[x].req = r}
RowsAt(r, k) == {x \in RowsOf(r) : sig[x].step = k}

\* The next signature id that is not among those taken.
Fresh(x, taken) ==
    /\ sig[x].state = "absent" /\ x \notin taken
    /\ \A y \in SigIds \ taken : sig[y].state = "absent" => x <= y

TypeOK ==
    /\ status \in [Requests -> Status]
    /\ oficio \subseteq Requests
    /\ document \subseteq Requests
    /\ content \in [Requests -> SUBSET Items]
    /\ sig \in [SigIds -> Signatures]
    /\ active \subseteq Items
    /\ tx \in [Sessions -> Transactions]

Init ==
    /\ status = [r \in Requests |-> IF r \in Legacy THEN "PENDING" ELSE "NONE"]
    /\ oficio = {}
    /\ document = {}
    /\ content = [r \in Requests |-> IF r \in Legacy THEN LegacyContent ELSE {}]
    /\ sig = [x \in SigIds |-> NoSig]
    /\ active = Items
    /\ tx = [p \in Sessions |-> Idle]

-----------------------------------------------------------------------------
(* Sessions.                                                                *)

Start(p, r, t) ==
    /\ tx[p].pc = "idle"
    /\ SessionsOverlap \/ \A q \in Sessions : tx[q].req # r
    /\ tx' = [tx EXCEPT ![p] = [t EXCEPT !.req = r]]
    /\ UNCHANGED <<status, oficio, document, content, sig, active>>

Finish(p) == tx' = [tx EXCEPT ![p] = Idle]

Rollback(p) == Finish(p) /\ UNCHANGED <<status, oficio, document, content, sig, active>>

Abort(p) == tx[p].pc # "idle" /\ Rollback(p)

-----------------------------------------------------------------------------
(* The draft.                                                               *)

\* POST creates the request in one transaction and adds its items in another.
CreateRequest(r) ==
    /\ status[r] = "NONE"
    /\ status' = [status EXCEPT ![r] = "DRAFT"]
    /\ UNCHANGED <<oficio, document, content, sig, active, tx>>

\* validate_items_not_in_pending: requests that wait for a signature do not count.
Occupied(i, r) ==
    \E other \in Requests \ {r} : status[other] \in {"DRAFT", "PENDING"} /\ i \in content[other]

BeginAdd(p, r, I) ==
    /\ status[r] = "DRAFT"
    /\ \A i \in I \ content[r] : i \in active /\ ~Occupied(i, r)
    /\ Start(p, r, [Idle EXCEPT !.pc = "add", !.items = I \ content[r]])

\* uq_retirement_request_item refuses an item that another session has just added.
CommitAdd(p) ==
    LET t == tx[p] IN
    /\ t.pc = "add"
    /\ IF t.items \cap content[t.req] # {}
       THEN Rollback(p)
       ELSE /\ content' = [content EXCEPT ![t.req] = @ \cup t.items]
            /\ Finish(p)
            /\ UNCHANGED <<status, oficio, document, sig, active>>

BeginRemove(p, r, i) ==
    /\ status[r] = "DRAFT"
    /\ i \in content[r]
    /\ Start(p, r, [Idle EXCEPT !.pc = "remove", !.items = {i}])

CommitRemove(p) ==
    LET t == tx[p] IN
    /\ t.pc = "remove"
    /\ content' = [content EXCEPT ![t.req] = @ \ t.items]
    /\ Finish(p)
    /\ UNCHANGED <<status, oficio, document, sig, active>>

AttachAnytime(p, r) ==   \* mutant: the document may be replaced while the request is signed
    Start(p, r, [Idle EXCEPT !.pc = "attach"])

\* The file is copied between the check and the commit.
BeginAttach(p, r) ==
    /\ status[r] \in {"DRAFT", "PENDING"}
    /\ Start(p, r, [Idle EXCEPT !.pc = "attach"])

CommitAttach(p) ==
    /\ tx[p].pc = "attach"
    /\ document' = document \cup {tx[p].req}
    /\ Finish(p)
    /\ UNCHANGED <<status, oficio, content, sig, active>>

\* generate_document marks the oficio of a draft.
BeginOficio(p, r) ==
    /\ status[r] = "DRAFT" /\ r \notin oficio
    /\ Start(p, r, [Idle EXCEPT !.pc = "oficio"])

CommitOficio(p) ==
    /\ tx[p].pc = "oficio"
    /\ oficio' = oficio \cup {tx[p].req}
    /\ Finish(p)
    /\ UNCHANGED <<status, document, content, sig, active>>

-----------------------------------------------------------------------------
(* Sending the request to its signatures.                                   *)

\* submit_request.
Submittable(r) ==
    /\ status[r] = "DRAFT"
    /\ content[r] # {}
    /\ r \in oficio \cup document

\* submit_request and, for a legacy request, submit_for_approval: an attached
\* document without an oficio goes to the Computer Centre at once.
BeginSubmit(p, r) ==
    /\ Submittable(r) \/ status[r] = "PENDING"
    /\ Start(p, r, [Idle EXCEPT !.pc = "submit",
                                !.target = IF r \in document \ oficio THEN "AWAITING_COMP_CENTER"
                                           ELSE "AWAITING_RECURSOS_MATERIALES"])

\* A signature row that waits for its signer.
Unsigned(r, s) == [state |-> "stored", req |-> r, step |-> Step(s), action |-> "NONE"]

CommitSubmit(p) ==
    LET t == tx[p] IN
    /\ t.pc = "submit"
    /\ \E x \in SigIds : Fresh(x, {}) /\ sig' = [sig EXCEPT ![x] = Unsigned(t.req, t.target)]
    /\ status' = [status EXCEPT ![t.req] = t.target]
    /\ Finish(p)
    /\ UNCHANGED <<oficio, document, content, active>>

\* cancel_request and reject_request write nothing but the status.
BeginCancel(p, r) ==
    /\ status[r] \in {"DRAFT", "PENDING"}
    /\ Start(p, r, [Idle EXCEPT !.pc = "status", !.target = "CANCELLED"])

BeginReject(p, r) ==
    /\ status[r] = "PENDING"
    /\ Start(p, r, [Idle EXCEPT !.pc = "status", !.target = "REJECTED"])

CommitStatus(p) ==
    LET t == tx[p] IN
    /\ t.pc = "status"
    /\ status' = [status EXCEPT ![t.req] = t.target]
    /\ Finish(p)
    /\ UNCHANGED <<oficio, document, content, sig, active>>

-----------------------------------------------------------------------------
(* approve_request: a legacy request, by the administrator alone.           *)

BeginApprove(p, r) ==
    /\ status[r] = "PENDING"
    /\ Start(p, r, [Idle EXCEPT !.pc = "approve", !.items = content[r], !.target = "APPROVED"])

\* The status, while it has not been written by an earlier commit of the session.
WriteTarget(t) == status' = IF t.target = "NONE" THEN status ELSE [status EXCEPT ![t.req] = t.target]

\* deactivate_item commits, and with it the status; it refuses an item that is
\* retired already or has an open ticket, and the loop goes on.
ApproveItem(p) ==
    LET t == tx[p] IN
    /\ t.pc = "approve"
    /\ \E i \in t.items :
         \/ /\ i \in active
            /\ active' = active \ {i}
            /\ WriteTarget(t)
            /\ tx' = [tx EXCEPT ![p].items = @ \ {i}, ![p].target = "NONE"]
         \/ /\ tx' = [tx EXCEPT ![p].items = @ \ {i}]
            /\ UNCHANGED <<status, active>>
    /\ UNCHANGED <<oficio, document, content, sig>>

CommitApprove(p) ==
    LET t == tx[p] IN
    /\ t.pc = "approve" /\ t.items = {}
    /\ WriteTarget(t)
    /\ Finish(p)
    /\ UNCHANGED <<oficio, document, content, sig, active>>

-----------------------------------------------------------------------------
(* sign_request.                                                            *)

\* The status is read first: it says the step and what comes after it.
BeginSign(p, r, action) ==
    /\ status[r] \in Awaiting
    /\ Start(p, r, [Idle EXCEPT !.pc = "find", !.step = Step(status[r]),
                               !.target = IF action = "REJECTED" THEN "REJECTED"
                                          ELSE NextStatus(status[r])])

\* first() returns any row of the step.  There is one (AwaitingHasRow) unless the
\* request was rejected and sent back to its draft since the status was read.
FindRow(p) ==
    LET t == tx[p] IN
    /\ t.pc = "find"
    /\ IF RowsAt(t.req, t.step) = {}
       THEN tx' = [tx EXCEPT ![p] = [t EXCEPT !.pc = "sign"]]
       ELSE \E x \in RowsAt(t.req, t.step) :
              tx' = [tx EXCEPT ![p] = [t EXCEPT !.pc = "sign", !.rows = {x},
                                                !.seenAction = sig[x].action]]
    /\ UNCHANGED <<status, oficio, document, content, sig, active>>

\* The row that is signed: the one that was found, or a new one.
SignedRow(t) == IF t.rows = {} THEN {x \in SigIds : Fresh(x, {})} ELSE t.rows

\* The row is signed; the next row is inserted in the same commit.
Signed(t, x) ==
    LET action == IF t.target = "REJECTED" THEN "REJECTED" ELSE "APPROVED" IN
    IF t.rows = {}
    THEN [sig EXCEPT ![x] =
             [state |-> "stored", req |-> t.req, step |-> t.step, action |-> action]]
    ELSE [sig EXCEPT ![x].action = IF t.seenAction = action THEN @ ELSE action]

ForgetsNextRow(t, x) == sig' = Signed(t, x)   \* mutant: the row of the next step is not created

WriteSignatures(t, x) ==
    IF t.target \in Awaiting
    THEN \E y \in SigIds : /\ Fresh(y, {x})
                           /\ sig' = [Signed(t, x) EXCEPT ![y] = Unsigned(t.req, t.target)]
    ELSE sig' = Signed(t, x)

RetiresAtEveryStep(t) == [Idle EXCEPT !.pc = "retire", !.req = t.req]   \* mutant: the items are retired early

\* The last signature commits APPROVED first and retires the items afterwards.
AfterSigning(t) ==
    IF t.target = "APPROVED" THEN [Idle EXCEPT !.pc = "retire", !.req = t.req] ELSE Idle

\* An UPDATE of a row that is gone raises StaleDataError.
CommitSign(p) ==
    LET t == tx[p] IN
    /\ t.pc = "sign"
    /\ \E x \in SignedRow(t) :
         IF sig[x].state = "deleted"
         THEN Rollback(p)
         ELSE /\ WriteSignatures(t, x)
              /\ status' = [status EXCEPT ![t.req] = t.target]
              /\ tx' = [tx EXCEPT ![p] = AfterSigning(t)]
              /\ UNCHANGED <<oficio, document, content, active>>

Retire(p) ==
    /\ tx[p].pc = "retire"
    /\ active' = active \ content[tx[p].req]
    /\ Finish(p)
    /\ UNCHANGED <<status, oficio, document, content, sig>>

-----------------------------------------------------------------------------
(* resubmit_request: reads the status, deletes the signatures its DELETE     *)
(* statement sees, and commits.                                             *)

BeginResubmit(p, r) ==
    /\ status[r] = "REJECTED"
    /\ Start(p, r, [Idle EXCEPT !.pc = "delete", !.target = "DRAFT"])

DeleteSignatures(p) ==
    /\ tx[p].pc = "delete"
    /\ tx' = [tx EXCEPT ![p].pc = "resubmit", ![p].rows = RowsOf(tx[p].req)]
    /\ UNCHANGED <<status, oficio, document, content, sig, active>>

KeepsRows(rows) == sig   \* mutant: the signatures of the rejected round survive

Erased(rows) == [x \in SigIds |-> IF x \in rows THEN [NoSig EXCEPT !.state = "deleted"] ELSE sig[x]]

CommitResubmit(p) ==
    LET t == tx[p] IN
    /\ t.pc = "resubmit"
    /\ sig' = Erased(t.rows)
    /\ status' = [status EXCEPT ![t.req] = t.target]
    /\ Finish(p)
    /\ UNCHANGED <<oficio, document, content, active>>

-----------------------------------------------------------------------------
Begin(p, r) ==
    \/ \E I \in (SUBSET Items) \ {{}} : BeginAdd(p, r, I)
    \/ \E i \in Items : BeginRemove(p, r, i)
    \/ BeginAttach(p, r) \/ BeginOficio(p, r) \/ BeginSubmit(p, r)
    \/ BeginCancel(p, r) \/ BeginReject(p, r) \/ BeginApprove(p, r)
    \/ \E action \in {"APPROVED", "REJECTED"} : BeginSign(p, r, action)
    \/ BeginResubmit(p, r)

Continue(p) ==
    \/ CommitAdd(p) \/ CommitRemove(p) \/ CommitAttach(p) \/ CommitOficio(p)
    \/ CommitSubmit(p) \/ CommitStatus(p) \/ ApproveItem(p) \/ CommitApprove(p)
    \/ FindRow(p) \/ CommitSign(p) \/ Retire(p) \/ DeleteSignatures(p) \/ CommitResubmit(p)

Next ==
    \/ \E r \in Requests : CreateRequest(r) \/ \E p \in Sessions : Begin(p, r)
    \/ \E p \in Sessions : Continue(p) \/ Abort(p)

Spec == Init /\ [][Next]_vars

-----------------------------------------------------------------------------
(* Properties.                                                              *)

\* The steps a request in the chain has behind it, on its way through the flow.
Behind(r) ==
    CASE status[r] \in Awaiting -> 1 .. Step(status[r]) - 1
      [] status[r] = "APPROVED" -> 1 .. 4
      [] OTHER -> {}

\* A request that waits for a signature has a row for that step: whoever holds the
\* position finds something to sign.  TLC checks it with one session at a time on a
\* request; SignerFindsRow proves it however the sessions interleave.
AwaitingHasRow ==
    \A r \in Requests : status[r] \in Awaiting => RowsAt(r, Step(status[r])) # {}

\* A request on its way has one row for each step of its flow up to the present
\* one, all approved but the last, and no other: no signature is skipped, asked
\* for twice, or left over from a round that was rejected.
SignaturesAgree ==
    \A r \in Requests \ Legacy :
        LET first == IF r \in oficio THEN 1 ELSE 4 IN
        /\ \A k \in 1 .. 4 : Cardinality(RowsAt(r, k)) <= 1
        /\ status[r] \in {"DRAFT", "CANCELLED"} => RowsOf(r) = {}
        /\ status[r] \in Awaiting \cup {"APPROVED"} =>
             /\ \A k \in Behind(r) : k >= first =>
                    \E x \in RowsAt(r, k) : sig[x].action = "APPROVED"
             /\ \A x \in RowsOf(r) : sig[x].step >= first
        /\ status[r] \in Awaiting =>
             \A x \in RowsOf(r) : sig[x].action = IF sig[x].step = Step(status[r]) THEN "NONE"
                                                  ELSE "APPROVED"

\* Equipment is retired only through a request that was approved and contains it.
RetiredByApproval ==
    \A i \in Items \ active : \E r \in Requests : status[r] = "APPROVED" /\ i \in content[r]

\* What was submitted is what is signed: the equipment and the flow of a request
\* do not change once it waits for signatures ("Solo se pueden agregar equipos a
\* solicitudes en estado DRAFT").
SubmittedIsFrozen ==
    [][\A r \in Requests : status[r] \in Awaiting \cup {"APPROVED"} =>
          /\ content'[r] = content[r]
          /\ (r \in oficio') = (r \in oficio) /\ (r \in document') = (r \in document)]_vars

\* The status of a request as the abstract chain sees it.
Phase(s) ==
    CASE s \in Awaiting -> "signing"
      [] s = "APPROVED" -> "approved"
      [] s = "REJECTED" -> "rejected"
      [] s = "CANCELLED" -> "cancelled"
      [] s = "PENDING" -> "legacy"
      [] OTHER -> "draft"

Chain == INSTANCE ApprovalChain WITH
    phase <- [r \in Requests |-> Phase(status[r])],
    left <- [r \in Requests |-> IF status[r] \in Awaiting THEN 5 - Step(status[r]) ELSE 0],
    retired <- Items \ active

\* The handlers implement the abstract chain of approval.
ChainSpec == Chain!Spec

\* An approved request has retired its equipment, once nobody is at it any more
\* (sign_request: "status = APPROVED, marca items como is_active=False").
ApprovedRetires ==
    \A r \in Requests :
        status[r] = "APPROVED" /\ (\A p \in Sessions : tx[p].req # r) => content[r] \cap active = {}

\* No equipment is in two requests that are still under way ("ya están en otra
\* solicitud activa").
OneLiveRequest ==
    \A r1, r2 \in Requests :
        {status[r1], status[r2]} \subseteq Awaiting \cup {"DRAFT", "PENDING"}
          /\ content[r1] \cap content[r2] # {} => r1 = r2

=============================================================================
