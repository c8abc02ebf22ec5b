---------------------- MODULE InventoryRetirementProofs ----------------------
(***************************************************************************)
(* InventoryRetirement for every number of requests, items, signatures and *)
(* sessions.  First what holds whatever overlaps: types, and that a        *)
(* request that waits for a signature has a row to sign.  Then, when       *)
(* sessions do not overlap on one request: what was submitted is frozen,   *)
(* equipment is retired only by an approval, the handlers implement the    *)
(* chain of ApprovalChain, and the signatures tell how far a request is.   *)
(***************************************************************************)
EXTENDS InventoryRetirement, FiniteSetTheorems, TLAPS

LEMMA IdleType == Idle \in Transactions
BY DEF Idle, Transactions, Status

LEMMA NoSigType == NoSig \in Signatures
BY DEF NoSig, Signatures

LEMMA StepType == \A s \in Awaiting : Step(s) \in 1 .. 4
BY DEF Awaiting, Step

LEMMA NextStatusType == \A s \in Awaiting : NextStatus(s) \in Awaiting \cup {"APPROVED"}
BY DEF Awaiting, NextStatus

LEMMA UnsignedType ==
    ASSUME NEW r \in Requests, NEW s \in Awaiting PROVE Unsigned(r, s) \in Signatures
BY StepType DEF Unsigned, Signatures

-----------------------------------------------------------------------------
(* What holds however the sessions interleave.                              *)

\* What the step a session is at says of the status it is about to write, and of
\* the signature rows it has read: s is the present state of the rows.
Shape(t, s) ==
    /\ t.pc # "idle" => t.req \in Requests
    /\ t.pc = "submit" => t.target \in Awaiting
    /\ t.pc = "status" => t.target \in {"CANCELLED", "REJECTED"}
    /\ t.pc = "approve" => t.target \in {"NONE", "APPROVED"}
    /\ t.pc \in {"find", "sign"} => t.target \in Awaiting \cup {"APPROVED", "REJECTED"}
    /\ t.pc = "find" => t.rows = {}
    /\ t.pc = "sign" => \A x \in t.rows : s[x].state # "absent"
    /\ t.pc \in {"delete", "resubmit"} => t.target = "DRAFT"
    /\ t.pc = "resubmit" => \A x \in t.rows : /\ s[x].state # "absent"
                                              /\ s[x].state = "stored" => s[x].req = t.req

Shapes == \A p \in Sessions : Shape(tx[p], sig)

\* AwaitingHasRow, with the row named.
HasRow(r) ==
    \E x \in SigIds :
        sig[x].state = "stored" /\ sig[x].req = r /\ sig[x].step = Step(status[r])

HasRows == \A r \in Requests : status[r] \in Awaiting => HasRow(r)

RowInv == TypeOK /\ Shapes /\ HasRows

\* The life of a signature row: stored once, for one step of one request, and
\* deleted once.
RowsLive ==
    \A x \in SigIds :
        /\ sig[x].state # "absent" => sig'[x].state # "absent"
        /\ sig'[x].state = "stored" /\ sig[x].state # "absent" =>
             /\ sig[x].state = "stored"
             /\ sig'[x].req = sig[x].req /\ sig'[x].step = sig[x].step

LEMMA ShapeKept ==
    ASSUME NEW t \in Transactions, Shape(t, sig), RowsLive PROVE Shape(t, sig')
BY DEF Shape, RowsLive, Transactions

\* One session moves; the rows live on.
LEMMA Moves ==
    ASSUME TypeOK, Shapes, RowsLive, NEW p \in Sessions, NEW t \in Transactions,
           tx' = [tx EXCEPT ![p] = t], Shape(t, sig')
    PROVE  tx' \in [Sessions -> Transactions] /\ Shapes'
<1>1. ASSUME NEW q \in Sessions PROVE Shape(tx'[q], sig')
  <2>1. CASE q = p
    BY <2>1 DEF TypeOK
  <2>2. CASE q # p
    <3>1. tx'[q] = tx[q] /\ tx[q] \in Transactions /\ Shape(tx[q], sig)
      BY <2>2 DEF TypeOK, Shapes
    <3> QED
      BY <3>1, ShapeKept
  <2> QED
    BY <2>1, <2>2
<1>2. tx' \in [Sessions -> Transactions]
  BY DEF TypeOK
<1> QED
  BY <1>1, <1>2 DEF Shapes

LEMMA Ends ==
    ASSUME TypeOK, Shapes, RowsLive, NEW p \in Sessions, Finish(p)
    PROVE  tx' \in [Sessions -> Transactions] /\ Shapes'
BY IdleType, Moves DEF Finish, Shape, Idle

LEMMA SameRows == ASSUME UNCHANGED sig PROVE RowsLive
BY DEF RowsLive

LEMMA KeepsRow ==
    ASSUME HasRows, UNCHANGED sig,
           \A r \in Requests : status'[r] \in Awaiting => status'[r] = status[r]
    PROVE  HasRows'
BY DEF HasRows, HasRow

LEMMA RollsBack == ASSUME RowInv, NEW p \in Sessions, Rollback(p) PROVE RowInv'
<1>1. RowsLive
  BY SameRows DEF Rollback
<1>2. tx' \in [Sessions -> Transactions] /\ Shapes'
  BY <1>1, Ends DEF RowInv, Rollback
<1>3. HasRows'
  BY KeepsRow DEF RowInv, Rollback
<1> QED
  BY <1>2, <1>3 DEF RowInv, TypeOK, Rollback

LEMMA Starts ==
    ASSUME RowInv, NEW p \in Sessions, NEW r \in Requests, NEW t \in Transactions,
           Start(p, r, t), Shape([t EXCEPT !.req = r], sig)
    PROVE  RowInv'
<1>1. RowsLive /\ HasRows'
  BY SameRows, KeepsRow DEF RowInv, Start
<1>2. [t EXCEPT !.req = r] \in Transactions
  BY DEF Transactions
<1>3. tx' = [tx EXCEPT ![p] = [t EXCEPT !.req = r]] /\ sig' = sig
  BY DEF Start
<1>4. tx' \in [Sessions -> Transactions] /\ Shapes'
  BY <1>1, <1>2, <1>3, Moves DEF RowInv
<1> QED
  BY <1>1, <1>4 DEF RowInv, TypeOK, Start

-----------------------------------------------------------------------------
\* A handler that has just read the request.
LEMMA BeginRows ==
    ASSUME RowInv, NEW p \in Sessions, NEW r \in Requests, Begin(p, r) PROVE RowInv'
<1>1. ASSUME NEW I \in SUBSET Items, BeginAdd(p, r, I) PROVE RowInv'
  <2> DEFINE t == [Idle EXCEPT !.pc = "add", !.items = I \ content[r]]
  <2>1. t \in Transactions /\ Shape([t EXCEPT !.req = r], sig)
    BY IdleType DEF Idle, Transactions, Status, Shape
  <2> QED
    BY <1>1, <2>1, Starts DEF BeginAdd
<1>2. ASSUME NEW i \in Items, BeginRemove(p, r, i) PROVE RowInv'
  <2> DEFINE t == [Idle EXCEPT !.pc = "remove", !.items = {i}]
  <2>1. t \in Transactions /\ Shape([t EXCEPT !.req = r], sig)
    BY IdleType DEF Idle, Transactions, Status, Shape
  <2> QED
    BY <1>2, <2>1, Starts DEF BeginRemove
<1>3. CASE BeginAttach(p, r)
  <2> DEFINE t == [Idle EXCEPT !.pc = "attach"]
  <2>1. t \in Transactions /\ Shape([t EXCEPT !.req = r], sig)
    BY IdleType DEF Idle, Transactions, Status, Shape
  <2> QED
    BY <1>3, <2>1, Starts DEF BeginAttach
<1>4. CASE BeginOficio(p, r)
  <2> DEFINE t == [Idle EXCEPT !.pc = "oficio"]
  <2>1. t \in Transactions /\ Shape([t EXCEPT !.req = r], sig)
    BY IdleType DEF Idle, Transactions, Status, Shape
  <2> QED
    BY <1>4, <2>1, Starts DEF BeginOficio
<1>5. CASE BeginSubmit(p, r)
  <2> DEFINE t == [Idle EXCEPT !.pc = "submit",
                               !.target = IF r \in document \ oficio THEN "AWAITING_COMP_CENTER"
                                          ELSE "AWAITING_RECURSOS_MATERIALES"]
  <2>1. t \in Transactions /\ Shape([t EXCEPT !.req = r], sig)
    BY IdleType DEF Idle, Transactions, Status, Shape, Awaiting
  <2> QED
    BY <1>5, <2>1, Starts DEF BeginSubmit
<1>6. CASE BeginCancel(p, r)
  <2> DEFINE t == [Idle EXCEPT !.pc = "status", !.target = "CANCELLED"]
  <2>1. t \in Transactions /\ Shape([t EXCEPT !.req = r], sig)
    BY IdleType DEF Idle, Transactions, Status, Shape
  <2> QED
    BY <1>6, <2>1, Starts DEF BeginCancel
<1>7. CASE BeginReject(p, r)
  <2> DEFINE t == [Idle EXCEPT !.pc = "status", !.target = "REJECTED"]
  <2>1. t \in Transactions /\ Shape([t EXCEPT !.req = r], sig)
    BY IdleType DEF Idle, Transactions, Status, Shape
  <2> QED
    BY <1>7, <2>1, Starts DEF BeginReject
<1>8. CASE BeginApprove(p, r)
  <2> DEFINE t == [Idle EXCEPT !.pc = "approve", !.items = content[r], !.target = "APPROVED"]
  <2>1. t \in Transactions /\ Shape([t EXCEPT !.req = r], sig)
    BY IdleType DEF RowInv, TypeOK, Idle, Transactions, Status, Shape
  <2> QED
    BY <1>8, <2>1, Starts DEF BeginApprove
<1>9. ASSUME NEW action \in {"APPROVED", "REJECTED"}, BeginSign(p, r, action) PROVE RowInv'
  <2> DEFINE next == IF action = "REJECTED" THEN "REJECTED" ELSE NextStatus(status[r])
             step == Step(status[r])
             t == [Idle EXCEPT !.pc = "find", !.step = step, !.target = next]
  <2>1. /\ next \in Awaiting \cup {"APPROVED", "REJECTED"} /\ step \in 0 .. 4
        /\ Start(p, r, t)
    BY <1>9, NextStatusType, StepType DEF BeginSign
  <2> HIDE DEF next, step
  <2>2. t \in Transactions
    BY <2>1, IdleType DEF Transactions, Status
  <2>3. Shape([t EXCEPT !.req = r], sig)
    BY <2>1 DEF Shape, Idle
  <2> QED
    BY <2>1, <2>2, <2>3, Starts
<1>10. CASE BeginResubmit(p, r)
  <2> DEFINE t == [Idle EXCEPT !.pc = "delete", !.target = "DRAFT"]
  <2>1. t \in Transactions /\ Shape([t EXCEPT !.req = r], sig)
    BY IdleType DEF Idle, Transactions, Status, Shape
  <2> QED
    BY <1>10, <2>1, Starts DEF BeginResubmit
<1> QED
  BY <1>1, <1>2, <1>3, <1>4, <1>5, <1>6, <1>7, <1>8, <1>9, <1>10 DEF Begin

\* Handlers that touch neither the signatures nor the status.
LEMMA DraftRows ==
    ASSUME RowInv, NEW p \in Sessions,
           \/ CommitAdd(p) \/ CommitRemove(p) \/ CommitAttach(p) \/ CommitOficio(p) \/ Retire(p)
    PROVE  RowInv'
<1> DEFINE t == tx[p]
<1>1. t \in Transactions /\ (t.pc # "idle" => t.req \in Requests)
  BY DEF RowInv, TypeOK, Shapes, Shape
<1>2. CASE Rollback(p)
  BY <1>2, RollsBack
<1>3. CASE Finish(p) /\ UNCHANGED <<sig, status>>
  <2>1. RowsLive /\ HasRows'
    BY <1>3, SameRows, KeepsRow DEF RowInv
  <2>2. tx' \in [Sessions -> Transactions] /\ Shapes'
    BY <1>3, <2>1, Ends DEF RowInv
  <2>3. /\ content' \in [Requests -> SUBSET Items] /\ oficio' \subseteq Requests
        /\ document' \subseteq Requests /\ active' \subseteq Items
    <3>1. CASE CommitAdd(p)
      BY <1>1, <1>3, <3>1 DEF CommitAdd, RowInv, TypeOK, Transactions, Rollback
    <3>2. CASE CommitRemove(p)
      BY <1>1, <3>2 DEF CommitRemove, RowInv, TypeOK, Transactions
    <3>3. CASE CommitAttach(p) \/ CommitOficio(p) \/ Retire(p)
      BY <1>1, <3>3 DEF CommitAttach, CommitOficio, Retire, RowInv, TypeOK
    <3> QED
      BY <3>1, <3>2, <3>3
  <2> QED
    BY <1>3, <2>1, <2>2, <2>3 DEF RowInv, TypeOK
<1> QED
  BY <1>2, <1>3 DEF CommitAdd, CommitRemove, CommitAttach, CommitOficio, Retire

LEMMA SubmitRows == ASSUME RowInv, NEW p \in Sessions, CommitSubmit(p) PROVE RowInv'
<1> DEFINE t == tx[p]
           row == Unsigned(t.req, t.target)
<1>1. t \in Transactions /\ t.req \in Requests /\ t.target \in Awaiting
  BY DEF CommitSubmit, RowInv, TypeOK, Shapes, Shape
<1>2. row \in Signatures
  BY <1>1, UnsignedType
<1>3. row.state = "stored" /\ row.req = t.req /\ row.step = Step(t.target)
  BY DEF Unsigned
<1>4. PICK x \in SigIds : sig[x].state = "absent" /\ sig' = [sig EXCEPT ![x] = row]
  BY DEF CommitSubmit, Fresh
<1>5. status' = [status EXCEPT ![t.req] = t.target] /\ Finish(p)
      /\ UNCHANGED <<oficio, document, content, active>>
  BY DEF CommitSubmit
<1> HIDE DEF row
<1>6. sig' \in [SigIds -> Signatures] /\ status' \in [Requests -> Status]
  BY <1>1, <1>2, <1>4, <1>5 DEF RowInv, TypeOK, Status
<1>7. RowsLive
  BY <1>4 DEF RowsLive, RowInv, TypeOK
<1>8. tx' \in [Sessions -> Transactions] /\ Shapes'
  BY <1>5, <1>7, Ends DEF RowInv
<1>9. HasRows'
  <2> SUFFICES ASSUME NEW r \in Requests, status'[r] \in Awaiting PROVE HasRow(r)'
    BY DEF HasRows
  <2>1. CASE r = t.req
    <3>1. sig'[x] = row /\ status'[r] = t.target
      BY <1>1, <1>4, <1>5, <2>1 DEF RowInv, TypeOK
    <3> QED
      BY <1>3, <2>1, <3>1 DEF HasRow
  <2>2. CASE r # t.req
    <3>1. status'[r] = status[r]
      BY <1>5, <2>2 DEF RowInv, TypeOK
    <3>2. PICK y \in SigIds :
            sig[y].state = "stored" /\ sig[y].req = r /\ sig[y].step = Step(status[r])
      BY <3>1 DEF RowInv, HasRows, HasRow
    <3>3. sig'[y] = sig[y]
      BY <1>4, <3>2 DEF RowInv, TypeOK
    <3> QED
      BY <3>1, <3>2, <3>3 DEF HasRow
  <2> QED
    BY <2>1, <2>2
<1> QED
  BY <1>5, <1>6, <1>8, <1>9 DEF RowInv, TypeOK

\* Handlers that write the status, of a request that then waits for no signature.
LEMMA StatusRows ==
    ASSUME RowInv, NEW p \in Sessions, CommitStatus(p) \/ ApproveItem(p) \/ CommitApprove(p)
    PROVE  RowInv'
<1> DEFINE t == tx[p]
<1>1. /\ t \in Transactions /\ t.req \in Requests /\ Shape(t, sig)
      /\ t.target \in {"CANCELLED", "REJECTED", "NONE", "APPROVED"}
  BY DEF CommitStatus, ApproveItem, CommitApprove, RowInv, TypeOK, Shapes, Shape
<1>2. /\ status' = status \/ (t.target # "NONE" /\ status' = [status EXCEPT ![t.req] = t.target])
                            \/ (t.pc = "status" /\ status' = [status EXCEPT ![t.req] = t.target])
      /\ UNCHANGED <<sig, oficio, document, content>>
  BY DEF CommitStatus, ApproveItem, CommitApprove, WriteTarget
<1>3. t.pc = "status" => t.target # "NONE"
  BY <1>1 DEF Shape
<1>4. status' \in [Requests -> Status]
  BY <1>1, <1>2 DEF RowInv, TypeOK, Status
<1>5. \A r \in Requests : status'[r] \in Awaiting => status'[r] = status[r]
  BY <1>1, <1>2, <1>3 DEF RowInv, TypeOK, Awaiting
<1>6. RowsLive /\ HasRows'
  BY <1>2, <1>5, SameRows, KeepsRow DEF RowInv
<1>7. CASE Finish(p) /\ active' = active
  <2>1. tx' \in [Sessions -> Transactions] /\ Shapes'
    BY <1>6, <1>7, Ends DEF RowInv
  <2> QED
    BY <1>2, <1>4, <1>6, <1>7, <2>1 DEF RowInv, TypeOK
<1>8. CASE ApproveItem(p)
  <2>1. PICK i \in t.items :
          \/ /\ active' = active \ {i}
             /\ tx' = [tx EXCEPT ![p].items = @ \ {i}, ![p].target = "NONE"]
          \/ /\ active' = active
             /\ tx' = [tx EXCEPT ![p].items = @ \ {i}]
    BY <1>8 DEF ApproveItem
  <2>2. active' \subseteq Items
    BY <2>1 DEF RowInv, TypeOK
  <2> DEFINE u == [t EXCEPT !.items = @ \ {i}, !.target = "NONE"]
             v == [t EXCEPT !.items = @ \ {i}]
  <2>3. tx' = [tx EXCEPT ![p] = u] \/ tx' = [tx EXCEPT ![p] = v]
    BY <2>1 DEF RowInv, TypeOK, Transactions
  <2>4. u \in Transactions /\ v \in Transactions
    BY <1>1 DEF Transactions, Status
  <2>5. t.pc = "approve"
    BY <1>8 DEF ApproveItem
  <2>6. Shape(u, sig') /\ Shape(v, sig')
    BY <1>1, <2>5 DEF Shape, Transactions
  <2> HIDE DEF u, v
  <2>7. tx' \in [Sessions -> Transactions] /\ Shapes'
    BY <1>6, <2>3, <2>4, <2>6, Moves DEF RowInv
  <2> QED
    BY <1>2, <1>4, <1>6, <2>2, <2>7 DEF RowInv, TypeOK
<1> QED
  BY <1>7, <1>8 DEF CommitStatus, CommitApprove

\* The row to sign is read, or found missing.
LEMMA FindRows == ASSUME RowInv, NEW p \in Sessions, FindRow(p) PROVE RowInv'
<1> DEFINE t == tx[p]
<1>1. /\ t \in Transactions /\ t.req \in Requests /\ t.rows = {}
      /\ t.target \in Awaiting \cup {"APPROVED", "REJECTED"}
      /\ UNCHANGED <<status, oficio, document, content, sig, active>>
  BY DEF FindRow, RowInv, TypeOK, Shapes, Shape
<1>2. \E u \in Transactions : tx' = [tx EXCEPT ![p] = u] /\ Shape(u, sig)
  <2>1. CASE RowsAt(t.req, t.step) = {}
    <3> DEFINE u == [t EXCEPT !.pc = "sign"]
    <3>1. u \in Transactions /\ Shape(u, sig)
      BY <1>1 DEF Transactions, Shape
    <3> QED
      BY <2>1, <3>1 DEF FindRow
  <2>2. CASE RowsAt(t.req, t.step) # {}
    <3>1. PICK x \in RowsAt(t.req, t.step) :
            tx' = [tx EXCEPT ![p] = [t EXCEPT !.pc = "sign", !.rows = {x},
                                              !.seenAction = sig[x].action]]
      BY <2>2 DEF FindRow
    <3>2. x \in SigIds /\ sig[x] \in Signatures /\ sig[x].state = "stored"
      BY DEF RowsAt, RowsOf, RowInv, TypeOK
    <3> DEFINE u == [t EXCEPT !.pc = "sign", !.rows = {x}, !.seenAction = sig[x].action]
    <3>3. u \in Transactions /\ Shape(u, sig)
      BY <1>1, <3>2 DEF Transactions, Signatures, Shape
    <3> QED
      BY <3>1, <3>3
  <2> QED
    BY <2>1, <2>2
<1>3. RowsLive /\ HasRows'
  BY <1>1, SameRows, KeepsRow DEF RowInv
<1>4. tx' \in [Sessions -> Transactions] /\ Shapes'
  BY <1>1, <1>2, <1>3, Moves DEF RowInv
<1> QED
  BY <1>1, <1>3, <1>4 DEF RowInv, TypeOK

\* A signature: a row that was read stays where it is, and a request that goes on waiting
\* gets the row of its next step in the same commit.
LEMMA SignRows == ASSUME RowInv, NEW p \in Sessions, CommitSign(p) PROVE RowInv'
<1> DEFINE t == tx[p]
<1>1. /\ t \in Transactions /\ t.req \in Requests
      /\ t.target \in Awaiting \cup {"APPROVED", "REJECTED"}
  BY DEF CommitSign, RowInv, TypeOK, Shapes, Shape
<1>2. PICK x \in SignedRow(t) :
        \/ Rollback(p)
        \/ /\ sig[x].state # "deleted"
           /\ WriteSignatures(t, x)
           /\ status' = [status EXCEPT ![t.req] = t.target]
           /\ tx' = [tx EXCEPT ![p] = AfterSigning(t)]
           /\ UNCHANGED <<oficio, document, content, active>>
  BY DEF CommitSign
<1>3. CASE Rollback(p)
  BY <1>3, RollsBack
<1>4. CASE /\ sig[x].state # "deleted"
           /\ WriteSignatures(t, x)
           /\ status' = [status EXCEPT ![t.req] = t.target]
           /\ tx' = [tx EXCEPT ![p] = AfterSigning(t)]
           /\ UNCHANGED <<oficio, document, content, active>>
  <2> DEFINE s == Signed(t, x)
  <2>1. /\ x \in SigIds
        /\ IF t.rows = {} THEN sig[x].state = "absent" ELSE sig[x].state = "stored"
    BY <1>4 DEF SignedRow, Fresh, CommitSign, RowInv, TypeOK, Shapes, Shape, Transactions, Signatures
  <2>2. /\ s \in [SigIds -> Signatures]
        /\ \A y \in SigIds : \/ y = x /\ sig[y].state = "absent" /\ s[y].state = "stored"
                            \/ /\ s[y].state = sig[y].state /\ s[y].req = sig[y].req
                               /\ s[y].step = sig[y].step
    <3>1. CASE t.rows = {}
      BY <1>1, <2>1, <3>1 DEF Signed, RowInv, TypeOK, Signatures, Transactions
    <3>2. CASE t.rows # {}
      BY <1>1, <2>1, <3>2 DEF Signed, RowInv, TypeOK, Signatures
    <3> QED
      BY <3>1, <3>2
  <2> DEFINE row == Unsigned(t.req, t.target)
  <2>3. t.target \in Awaiting =>
          row \in Signatures /\ row.state = "stored" /\ row.req = t.req /\ row.step = Step(t.target)
    BY <1>1, UnsignedType DEF Unsigned
  <2>4. \/ sig' = s /\ t.target \notin Awaiting
        \/ /\ t.target \in Awaiting
           /\ \E y \in SigIds : sig[y].state = "absent" /\ sig' = [s EXCEPT ![y] = row]
    BY <1>4 DEF WriteSignatures, Fresh
  <2> HIDE DEF s, row
  <2>5. sig' \in [SigIds -> Signatures]
    BY <2>2, <2>3, <2>4
  <2>6. RowsLive
    BY <2>2, <2>4 DEF RowsLive
  <2>7. status' \in [Requests -> Status]
    BY <1>1, <1>4 DEF RowInv, TypeOK, Status
  <2>8. AfterSigning(t) \in Transactions /\ Shape(AfterSigning(t), sig')
    BY <1>1, IdleType DEF AfterSigning, Transactions, Shape, Idle
  <2>9. tx' \in [Sessions -> Transactions] /\ Shapes'
    BY <1>4, <2>6, <2>8, Moves DEF RowInv
  <2>10. HasRows'
    <3> SUFFICES ASSUME NEW r \in Requests, status'[r] \in Awaiting PROVE HasRow(r)'
      BY DEF HasRows
    <3>1. CASE r = t.req
      <4>1. status'[r] = t.target
        BY <1>4, <3>1 DEF RowInv, TypeOK
      <4>2. PICK y \in SigIds : sig[y].state = "absent" /\ sig' = [s EXCEPT ![y] = row]
        BY <2>4, <4>1
      <4>3. sig'[y] = row
        BY <2>2, <4>2
      <4> QED
        BY <2>3, <3>1, <4>1, <4>3 DEF HasRow
    <3>2. CASE r # t.req
      <4>1. status'[r] = status[r]
        BY <1>4, <3>2 DEF RowInv, TypeOK
      <4>2. PICK y \in SigIds :
              sig[y].state = "stored" /\ sig[y].req = r /\ sig[y].step = Step(status[r])
        BY <4>1 DEF RowInv, HasRows, HasRow
      <4>3. sig'[y].state = "stored" /\ sig'[y].req = r /\ sig'[y].step = Step(status[r])
        BY <2>2, <2>4, <4>2
      <4> QED
        BY <4>1, <4>3 DEF HasRow
    <3> QED
      BY <3>1, <3>2
  <2> QED
    BY <1>4, <2>5, <2>7, <2>9, <2>10 DEF RowInv, TypeOK
<1> QED
  BY <1>2, <1>3, <1>4

\* Rejected requests that go back to the draft: only their own rows are deleted.
LEMMA ResubmitRows ==
    ASSUME RowInv, NEW p \in Sessions, DeleteSignatures(p) \/ CommitResubmit(p) PROVE RowInv'
<1> DEFINE t == tx[p]
<1>1. t \in Transactions /\ t.req \in Requests /\ t.target = "DRAFT"
  BY DEF DeleteSignatures, CommitResubmit, RowInv, TypeOK, Shapes, Shape
<1>2. CASE DeleteSignatures(p)
  <2> DEFINE u == [t EXCEPT !.pc = "resubmit", !.rows = RowsOf(t.req)]
  <2>1. u \in Transactions
    BY <1>1 DEF Transactions, RowsOf
  <2>2. Shape(u, sig')
    BY <1>1, <1>2 DEF Shape, RowsOf, DeleteSignatures, Transactions
  <2>3. tx' = [tx EXCEPT ![p] = u] /\ UNCHANGED <<status, oficio, document, content, sig, active>>
    BY <1>2 DEF DeleteSignatures, RowInv, TypeOK
  <2> HIDE DEF u
  <2>4. RowsLive /\ HasRows'
    BY <2>3, SameRows, KeepsRow DEF RowInv
  <2>5. tx' \in [Sessions -> Transactions] /\ Shapes'
    BY <2>1, <2>2, <2>3, <2>4, Moves DEF RowInv
  <2> QED
    BY <2>3, <2>4, <2>5 DEF RowInv, TypeOK
<1>3. CASE CommitResubmit(p)
  <2> DEFINE gone == [NoSig EXCEPT !.state = "deleted"]
  <2>1. gone \in Signatures /\ gone.state = "deleted"
    BY NoSigType DEF Signatures, NoSig
  <2>2. sig' = [x \in SigIds |-> IF x \in t.rows THEN gone ELSE sig[x]]
    BY <1>3 DEF CommitResubmit, Erased
  <2>3. \A x \in t.rows : x \in SigIds /\ (sig[x].state = "stored" => sig[x].req = t.req)
    BY <1>1, <1>3 DEF CommitResubmit, RowInv, Shapes, Shape, Transactions
  <2> HIDE DEF gone
  <2>4. sig' \in [SigIds -> Signatures] /\ RowsLive
    BY <2>1, <2>2 DEF RowsLive, RowInv, TypeOK
  <2>5. status' = [status EXCEPT ![t.req] = "DRAFT"] /\ Finish(p)
        /\ UNCHANGED <<oficio, document, content, active>>
    BY <1>1, <1>3 DEF CommitResubmit
  <2>6. tx' \in [Sessions -> Transactions] /\ Shapes'
    BY <2>4, <2>5, Ends DEF RowInv
  <2>7. HasRows'
    <3> SUFFICES ASSUME NEW r \in Requests, status'[r] \in Awaiting PROVE HasRow(r)'
      BY DEF HasRows
    <3>1. r # t.req /\ status'[r] = status[r]
      BY <1>1, <2>5 DEF RowInv, TypeOK, Awaiting
    <3>2. PICK y \in SigIds :
            sig[y].state = "stored" /\ sig[y].req = r /\ sig[y].step = Step(status[r])
      BY <3>1 DEF RowInv, HasRows, HasRow
    <3>3. sig'[y] = sig[y]
      BY <2>2, <2>3, <3>1, <3>2
    <3> QED
      BY <3>1, <3>2, <3>3 DEF HasRow
  <2> QED
    BY <2>4, <2>5, <2>6, <2>7 DEF RowInv, TypeOK, Status
<1> QED
  BY <1>2, <1>3

LEMMA InitRows == Init => RowInv
<1> SUFFICES ASSUME Init PROVE RowInv
  OBVIOUS
<1>1. TypeOK
  BY RetirementBounds, IdleType, NoSigType DEF Init, TypeOK, Status
<1>2. Shapes
  BY DEF Init, Shapes, Shape, Idle
<1>3. HasRows
  BY DEF Init, HasRows, Awaiting
<1> QED
  BY <1>1, <1>2, <1>3 DEF RowInv

LEMMA NextRows == RowInv /\ [Next]_vars => RowInv'
<1> SUFFICES ASSUME RowInv, [Next]_vars PROVE RowInv'
  OBVIOUS
<1>1. ASSUME NEW r \in Requests, CreateRequest(r) PROVE RowInv'
  <2>1. status' \in [Requests -> Status]
    BY <1>1 DEF CreateRequest, RowInv, TypeOK, Status
  <2>2. \A k \in Requests : status'[k] \in Awaiting => status'[k] = status[k]
    BY <1>1 DEF CreateRequest, RowInv, TypeOK, Awaiting
  <2>3. HasRows'
    BY <1>1, <2>2, KeepsRow DEF CreateRequest, RowInv
  <2> QED
    BY <1>1, <2>1, <2>3 DEF CreateRequest, RowInv, TypeOK, Shapes
<1>2. ASSUME NEW p \in Sessions, Continue(p) \/ Abort(p) PROVE RowInv'
  BY <1>2, DraftRows, SubmitRows, StatusRows, FindRows, SignRows, ResubmitRows, RollsBack DEF Continue, Abort
<1>3. CASE UNCHANGED vars
  BY <1>3 DEF vars, RowInv, TypeOK, Shapes, HasRows, HasRow
<1> QED
  BY <1>1, <1>2, <1>3, BeginRows DEF Next

\* Types, whatever handlers overlap: no status, step or signature leaves its range.
THEOREM RetirementTypeCorrect == Spec => []TypeOK
<1>1. RowInv => TypeOK
  BY DEF RowInv
<1> QED
  BY <1>1, InitRows, NextRows, PTL DEF Spec

\* Whatever handlers overlap, a request that waits for a signature has a row for
\* it: rows are inserted with the status that asks for them, and a deletion, even
\* one that raced with a signature, leaves the request a draft.
THEOREM SignerFindsRow == Spec => []AwaitingHasRow
<1>1. RowInv => AwaitingHasRow
  <2> SUFFICES ASSUME RowInv, NEW r \in Requests, status[r] \in Awaiting
               PROVE  RowsAt(r, Step(status[r])) # {}
    BY DEF AwaitingHasRow
  <2>1. PICK x \in SigIds :
          sig[x].state = "stored" /\ sig[x].req = r /\ sig[x].step = Step(status[r])
    BY DEF RowInv, HasRows, HasRow
  <2>2. x \in RowsAt(r, Step(status[r]))
    BY <2>1 DEF RowsAt, RowsOf
  <2> QED
    BY <2>2
<1> QED
  BY <1>1, InitRows, NextRows, PTL DEF Spec

-----------------------------------------------------------------------------
(* What holds when a request has one session at a time.                      *)

Turns == ~SessionsOverlap

\* Sessions that are under way have requests of their own.
Alone ==
    \A p, q \in Sessions : tx[p].req = tx[q].req /\ tx[p].req # NoRequest => p = q

\* What the step a session is at says of its request, as long as nobody else
\* touches it: s is the present status, c the present content.
AtStatus(t, s, c) ==
    /\ t.pc \in {"add", "remove", "oficio"} => s[t.req] = "DRAFT"
    /\ t.pc = "attach" => s[t.req] \in {"DRAFT", "PENDING"}
    /\ t.pc = "submit" =>
         /\ s[t.req] \in {"DRAFT", "PENDING"}
         /\ t.target \in {"AWAITING_RECURSOS_MATERIALES", "AWAITING_COMP_CENTER"}
    /\ t.pc = "status" => \/ s[t.req] = "PENDING"
                          \/ s[t.req] = "DRAFT" /\ t.target = "CANCELLED"
    /\ t.pc = "approve" =>
         /\ s[t.req] = IF t.target = "NONE" THEN "APPROVED" ELSE "PENDING"
         /\ t.items \subseteq c[t.req]
    /\ t.pc \in {"find", "sign"} => /\ s[t.req] \in Awaiting
                                   /\ t.target \in {"REJECTED", NextStatus(s[t.req])}
    /\ t.pc = "find" => t.step = Step(s[t.req])
    /\ t.pc = "retire" => s[t.req] = "APPROVED"
    /\ t.pc \in {"delete", "resubmit"} => s[t.req] = "REJECTED"

InTurn == \A p \in Sessions : AtStatus(tx[p], status, content)

TurnInv == RowInv /\ Alone /\ InTurn /\ RetiredByApproval

\* One session moves on, or ends, and touches no request but its own.
LEMMA TurnMoves ==
    ASSUME TurnInv, NEW p \in Sessions, tx[p].pc # "idle", NEW t \in Transactions,
           tx' = [tx EXCEPT ![p] = t],
           t.req = tx[p].req \/ t = Idle,
           AtStatus(t, status', content'),
           \A r \in Requests \ {tx[p].req} : status'[r] = status[r] /\ content'[r] = content[r]
    PROVE  Alone' /\ InTurn'
<1>1. t.req = tx[p].req \/ t.req = NoRequest
  BY DEF Idle
<1>2. tx \in [Sessions -> Transactions]
  BY DEF TurnInv, RowInv, TypeOK
<1>3. Alone'
  BY <1>1, <1>2 DEF TurnInv, Alone
<1>4. ASSUME NEW q \in Sessions PROVE AtStatus(tx'[q], status', content')
  <2>1. CASE q = p
    BY <1>2, <2>1
  <2>2. CASE q # p /\ tx[q].pc = "idle"
    BY <1>2, <2>2 DEF AtStatus
  <2>3. CASE q # p /\ tx[q].pc # "idle"
    <3>1. tx'[q] = tx[q] /\ AtStatus(tx[q], status, content) /\ tx[q].req \in Requests
      BY <1>2, <2>3 DEF TurnInv, InTurn, RowInv, Shapes, Shape
    <3>2. tx[q].req # tx[p].req
      BY <2>3, <3>1, RetirementNames DEF TurnInv, Alone
    <3>3. status'[tx[q].req] = status[tx[q].req] /\ content'[tx[q].req] = content[tx[q].req]
      BY <3>1, <3>2
    <3> QED
      BY <3>1, <3>3 DEF AtStatus
  <2> QED
    BY <2>1, <2>2, <2>3
<1> QED
  BY <1>3, <1>4 DEF InTurn

LEMMA TurnEnds ==
    ASSUME TurnInv, NEW p \in Sessions, tx[p].pc # "idle", Finish(p),
           \A r \in Requests \ {tx[p].req} : status'[r] = status[r] /\ content'[r] = content[r]
    PROVE  Alone' /\ InTurn'
<1>1. AtStatus(Idle, status', content')
  BY DEF AtStatus, Idle
<1> QED
  BY <1>1, IdleType, TurnMoves DEF Finish

\* Approved requests stay approved, and what is retired now is in one of them.
LEMMA StaysRetired ==
    ASSUME RetiredByApproval,
           \A r \in Requests : status[r] = "APPROVED" =>
               status'[r] = "APPROVED" /\ content'[r] = content[r],
           \A i \in active \ active' : \E r \in Requests : status'[r] = "APPROVED" /\ i \in content'[r]
    PROVE  RetiredByApproval'
BY DEF RetiredByApproval

\* A handler that begins does so at a request nobody else is at.
LEMMA TurnStarts ==
    ASSUME Turns, TurnInv, NEW p \in Sessions, NEW r \in Requests, NEW t \in Transactions,
           Start(p, r, t), AtStatus([t EXCEPT !.req = r], status, content)
    PROVE  Alone' /\ InTurn'
<1> DEFINE u == [t EXCEPT !.req = r]
<1>1. tx' = [tx EXCEPT ![p] = u] /\ UNCHANGED <<status, content>> /\ \A q \in Sessions : tx[q].req # r
  BY DEF Start, Turns
<1>2. tx \in [Sessions -> Transactions] /\ u.req = r /\ AtStatus(u, status, content)
  BY DEF TurnInv, RowInv, TypeOK, Transactions
<1> HIDE DEF u
<1>3. Alone'
  BY <1>1, <1>2 DEF TurnInv, Alone
<1>4. InTurn'
  BY <1>1, <1>2 DEF TurnInv, InTurn
<1> QED
  BY <1>3, <1>4

LEMMA BeginTurn ==
    ASSUME Turns, TurnInv, NEW p \in Sessions, NEW r \in Requests, Begin(p, r)
    PROVE  Alone' /\ InTurn' /\ UNCHANGED <<status, oficio, document, content, sig, active>>
<1>1. ASSUME NEW t \in Transactions, Start(p, r, t), AtStatus([t EXCEPT !.req = r], status, content)
      PROVE  Alone' /\ InTurn' /\ UNCHANGED <<status, oficio, document, content, sig, active>>
  BY <1>1, TurnStarts DEF Start
<1>2. ASSUME NEW I \in SUBSET Items, BeginAdd(p, r, I)
      PROVE  \E t \in Transactions : Start(p, r, t) /\ AtStatus([t EXCEPT !.req = r], status, content)
  <2> DEFINE t == [Idle EXCEPT !.pc = "add", !.items = I \ content[r]]
  <2>1. t \in Transactions /\ AtStatus([t EXCEPT !.req = r], status, content)
    BY <1>2, IdleType DEF Idle, Transactions, Status, AtStatus, BeginAdd
  <2> QED
    BY <1>2, <2>1 DEF BeginAdd
<1>3. ASSUME NEW i \in Items, BeginRemove(p, r, i)
      PROVE  \E t \in Transactions : Start(p, r, t) /\ AtStatus([t EXCEPT !.req = r], status, content)
  <2> DEFINE t == [Idle EXCEPT !.pc = "remove", !.items = {i}]
  <2>1. t \in Transactions /\ AtStatus([t EXCEPT !.req = r], status, content)
    BY <1>3, IdleType DEF Idle, Transactions, Status, AtStatus, BeginRemove
  <2> QED
    BY <1>3, <2>1 DEF BeginRemove
<1>4. CASE BeginAttach(p, r)
  <2> DEFINE t == [Idle EXCEPT !.pc = "attach"]
  <2>1. t \in Transactions /\ AtStatus([t EXCEPT !.req = r], status, content)
    BY <1>4, IdleType DEF Idle, Transactions, Status, Awaiting, AtStatus, BeginAttach
  <2> QED
    BY <1>1, <1>4, <2>1 DEF BeginAttach
<1>5. CASE BeginOficio(p, r)
  <2> DEFINE t == [Idle EXCEPT !.pc = "oficio"]
  <2>1. t \in Transactions /\ AtStatus([t EXCEPT !.req = r], status, content)
    BY <1>5, IdleType DEF Idle, Transactions, Status, Awaiting, AtStatus, BeginOficio
  <2> QED
    BY <1>1, <1>5, <2>1 DEF BeginOficio
<1>6. CASE BeginSubmit(p, r)
  <2> DEFINE t == [Idle EXCEPT !.pc = "submit",
                               !.target = IF r \in document \ oficio THEN "AWAITING_COMP_CENTER"
                                          ELSE "AWAITING_RECURSOS_MATERIALES"]
  <2>1. t \in Transactions /\ AtStatus([t EXCEPT !.req = r], status, content)
    BY <1>6, IdleType DEF Idle, Transactions, Status, Awaiting, AtStatus, BeginSubmit, Submittable
  <2> QED
    BY <1>1, <1>6, <2>1 DEF BeginSubmit
<1>7. CASE BeginCancel(p, r)
  <2> DEFINE t == [Idle EXCEPT !.pc = "status", !.target = "CANCELLED"]
  <2>1. t \in Transactions /\ AtStatus([t EXCEPT !.req = r], status, content)
    BY <1>7, IdleType DEF Idle, Transactions, Status, Awaiting, AtStatus, BeginCancel
  <2> QED
    BY <1>1, <1>7, <2>1 DEF BeginCancel
<1>8. CASE BeginReject(p, r)
  <2> DEFINE t == [Idle EXCEPT !.pc = "status", !.target = "REJECTED"]
  <2>1. t \in Transactions /\ AtStatus([t EXCEPT !.req = r], status, content)
    BY <1>8, IdleType DEF Idle, Transactions, Status, Awaiting, AtStatus, BeginReject
  <2> QED
    BY <1>1, <1>8, <2>1 DEF BeginReject
<1>9. CASE BeginApprove(p, r)
  <2> DEFINE t == [Idle EXCEPT !.pc = "approve", !.items = content[r], !.target = "APPROVED"]
  <2>1. t \in Transactions /\ AtStatus([t EXCEPT !.req = r], status, content)
    BY <1>9, IdleType DEF Idle, Transactions, Status, Awaiting, AtStatus, BeginApprove, TurnInv, RowInv, TypeOK
  <2> QED
    BY <1>1, <1>9, <2>1 DEF BeginApprove
<1>10. ASSUME NEW action \in {"APPROVED", "REJECTED"}, BeginSign(p, r, action)
       PROVE  \E t \in Transactions : Start(p, r, t) /\ AtStatus([t EXCEPT !.req = r], status, content)
  <2> DEFINE next == IF action = "REJECTED" THEN "REJECTED" ELSE NextStatus(status[r])
             step == Step(status[r])
             t == [Idle EXCEPT !.pc = "find", !.step = step, !.target = next]
  <2>1. /\ next \in {"REJECTED", NextStatus(status[r])}
        /\ next \in Awaiting \cup {"APPROVED", "REJECTED"}
        /\ status[r] \in Awaiting /\ step \in 0 .. 4 /\ step = Step(status[r])
        /\ Start(p, r, t)
    BY <1>10, NextStatusType, StepType DEF BeginSign
  <2> HIDE DEF next, step
  <2>2. t \in Transactions
    BY <2>1, IdleType DEF Transactions, Status
  <2>3. AtStatus([t EXCEPT !.req = r], status, content)
    BY <2>1 DEF AtStatus, Idle
  <2> QED
    BY <2>1, <2>2, <2>3
<1>11. CASE BeginResubmit(p, r)
  <2> DEFINE t == [Idle EXCEPT !.pc = "delete", !.target = "DRAFT"]
  <2>1. t \in Transactions /\ AtStatus([t EXCEPT !.req = r], status, content)
    BY <1>11, IdleType DEF Idle, Transactions, Status, Awaiting, AtStatus, BeginResubmit
  <2> QED
    BY <1>1, <1>11, <2>1 DEF BeginResubmit
<1> QED
  BY <1>1, <1>2, <1>3, <1>4, <1>5, <1>6, <1>7, <1>8, <1>9, <1>10, <1>11 DEF Begin

-----------------------------------------------------------------------------
(* Every step, for the three properties that need turns: what is retired was *)
(* approved, what was submitted is frozen, and the step is one of the chain. *)

\* The action of SubmittedIsFrozen.
Settled ==
    \A r \in Requests : status[r] \in Awaiting \cup {"APPROVED"} =>
        /\ content'[r] = content[r]
        /\ (r \in oficio') = (r \in oficio) /\ (r \in document') = (r \in document)

ChainStep == [Chain!Next]_(Chain!vars)

Keeps == Alone' /\ InTurn' /\ RetiredByApproval' /\ Settled /\ ChainStep

\* The signatures a status still lacks.
LeftAt(s) == IF s \in Awaiting THEN 5 - Step(s) ELSE 0

LEMMA PhaseMoves ==
    ASSUME TypeOK, NEW r \in Requests, NEW s \in Status, status' = [status EXCEPT ![r] = s],
           NEW from, Phase(status[r]) \in from
    PROVE  Chain!Move(r, from, Phase(s), LeftAt(s))
<1>1. status \in [Requests -> Status]
  BY DEF TypeOK
<1>2. \A q \in Requests : Phase(status'[q]) = IF q = r THEN Phase(s) ELSE Phase(status[q])
  BY <1>1
<1>3. \A q \in Requests : LeftAt(status'[q]) = IF q = r THEN LeftAt(s) ELSE LeftAt(status[q])
  BY <1>1
<1>4. [q \in Requests |-> Phase(status'[q])]
        = [[q \in Requests |-> Phase(status[q])] EXCEPT ![r] = Phase(s)]
  BY <1>2
<1>5. [q \in Requests |-> LeftAt(status'[q])]
        = [[q \in Requests |-> LeftAt(status[q])] EXCEPT ![r] = LeftAt(s)]
  BY <1>3
<1>6. [q \in Requests |-> Phase(status[q])][r] \in from
  OBVIOUS
<1> QED
  BY <1>4, <1>5, <1>6 DEF Chain!Move, LeftAt

\* The steps of the chain, each from the status written and the equipment retired.
LEMMA ChainSubmits ==
    ASSUME TypeOK, NEW r \in Requests,
           NEW s \in {"AWAITING_RECURSOS_MATERIALES", "AWAITING_COMP_CENTER"},
           status[r] \in {"DRAFT", "PENDING"}, status' = [status EXCEPT ![r] = s], UNCHANGED active
    PROVE  Chain!Next
<1>1. /\ Phase(s) = "signing" /\ LeftAt(s) \in {1, 4} /\ s \in Status
      /\ Phase(status[r]) \in {"draft", "legacy"}
  BY DEF Phase, LeftAt, Awaiting, Step, Status
<1>2. Chain!Move(r, {"draft", "legacy"}, Phase(s), LeftAt(s))
  BY <1>1, PhaseMoves
<1>3. Chain!Submit(r)
  BY <1>1, <1>2 DEF Chain!Submit
<1> QED
  BY <1>3 DEF Chain!Next

LEMMA ChainCancels ==
    ASSUME TypeOK, NEW r \in Requests, status[r] \in {"DRAFT", "PENDING"},
           status' = [status EXCEPT ![r] = "CANCELLED"], UNCHANGED active
    PROVE  Chain!Next
<1>1. /\ Phase("CANCELLED") = "cancelled" /\ LeftAt("CANCELLED") = 0 /\ "CANCELLED" \in Status
      /\ Phase(status[r]) \in {"draft", "legacy"}
  BY DEF Phase, LeftAt, Awaiting, Status
<1>2. Chain!Move(r, {"draft", "legacy"}, Phase("CANCELLED"), LeftAt("CANCELLED"))
  BY <1>1, PhaseMoves
<1>3. Chain!Cancel(r)
  BY <1>1, <1>2 DEF Chain!Cancel
<1> QED
  BY <1>3 DEF Chain!Next

LEMMA ChainRejects ==
    ASSUME TypeOK, NEW r \in Requests, status[r] \in Awaiting \cup {"PENDING"},
           status' = [status EXCEPT ![r] = "REJECTED"], UNCHANGED active
    PROVE  Chain!Next
<1>1. /\ Phase("REJECTED") = "rejected" /\ LeftAt("REJECTED") = 0 /\ "REJECTED" \in Status
      /\ Phase(status[r]) \in {"signing", "legacy"}
  BY DEF Phase, LeftAt, Awaiting, Status
<1>2. Chain!Move(r, {"signing", "legacy"}, Phase("REJECTED"), LeftAt("REJECTED"))
  BY <1>1, PhaseMoves
<1>3. Chain!Reject(r)
  BY <1>1, <1>2 DEF Chain!Reject
<1> QED
  BY <1>3 DEF Chain!Next

LEMMA ChainResubmits ==
    ASSUME TypeOK, NEW r \in Requests, status[r] = "REJECTED",
           status' = [status EXCEPT ![r] = "DRAFT"], UNCHANGED active
    PROVE  Chain!Next
<1>1. /\ Phase("DRAFT") = "draft" /\ LeftAt("DRAFT") = 0 /\ "DRAFT" \in Status
      /\ Phase(status[r]) \in {"rejected"}
  BY DEF Phase, LeftAt, Awaiting, Status
<1>2. Chain!Move(r, {"rejected"}, Phase("DRAFT"), LeftAt("DRAFT"))
  BY <1>1, PhaseMoves
<1>3. Chain!Resubmit(r)
  BY <1>1, <1>2 DEF Chain!Resubmit
<1> QED
  BY <1>3 DEF Chain!Next

\* A signature takes one from what is left, and the last one approves.
LEMMA ChainSigns ==
    ASSUME TypeOK, NEW r \in Requests, status[r] \in Awaiting,
           NEW s, s = NextStatus(status[r]), status' = [status EXCEPT ![r] = s], UNCHANGED active
    PROVE  Chain!Next
<1> DEFINE phases == [q \in Requests |-> Phase(status[q])]
           lefts == [q \in Requests |-> IF status[q] \in Awaiting THEN 5 - Step(status[q]) ELSE 0]
<1>1. lefts[r] = LeftAt(status[r])
  BY DEF LeftAt
<1>2. /\ s \in Status /\ LeftAt(status[r]) > 0 /\ LeftAt(s) = LeftAt(status[r]) - 1
      /\ Phase(s) = IF LeftAt(status[r]) = 1 THEN "approved" ELSE "signing"
      /\ Phase(status[r]) \in {"signing"}
  BY DEF Phase, LeftAt, Awaiting, Status, NextStatus, Step
<1>3. Chain!Move(r, {"signing"}, Phase(s), LeftAt(s))
  BY <1>2, PhaseMoves
<1>4. /\ phases[r] \in {"signing"}
      /\ phases' = [phases EXCEPT ![r] = Phase(s)] /\ lefts' = [lefts EXCEPT ![r] = LeftAt(s)]
  BY <1>3 DEF Chain!Move
<1> HIDE DEF phases, lefts
<1>5. /\ lefts[r] > 0
      /\ phases' = [phases EXCEPT ![r] = IF lefts[r] = 1 THEN "approved" ELSE "signing"]
      /\ lefts' = [lefts EXCEPT ![r] = lefts[r] - 1]
  BY <1>1, <1>2, <1>4
<1>6. Chain!Sign(r)
  BY <1>4, <1>5 DEF Chain!Sign, Chain!Move, phases, lefts
<1> QED
  BY <1>6 DEF Chain!Next

LEMMA ChainApproves ==
    ASSUME TypeOK, NEW r \in Requests, status[r] = "PENDING",
           status' = [status EXCEPT ![r] = "APPROVED"],
           NEW I \in SUBSET Items, active' = active \ I
    PROVE  Chain!Next
<1>1. /\ Phase("APPROVED") = "approved" /\ LeftAt("APPROVED") = 0 /\ "APPROVED" \in Status
      /\ Phase(status[r]) \in {"legacy"}
  BY DEF Phase, LeftAt, Awaiting, Status
<1>2. Chain!Move(r, {"legacy"}, Phase("APPROVED"), LeftAt("APPROVED"))
  BY <1>1, PhaseMoves
<1>3. (Items \ active)' = (Items \ active) \cup I
  OBVIOUS
<1>4. Chain!Approve(r)
  BY <1>1, <1>2, <1>3 DEF Chain!Approve
<1> QED
  BY <1>4 DEF Chain!Next

LEMMA ChainRetires ==
    ASSUME NEW r \in Requests, status[r] = "APPROVED", UNCHANGED status,
           NEW I \in SUBSET Items, active' = active \ I
    PROVE  Chain!Next
<1>1. Phase(status[r]) = "approved"
  BY DEF Phase, Awaiting
<1>2. (Items \ active)' = (Items \ active) \cup I
  OBVIOUS
<1>3. Chain!Retire(r)
  BY <1>1, <1>2 DEF Chain!Retire
<1> QED
  BY <1>3 DEF Chain!Next

\* The chain does not see what leaves status and equipment alone.
LEMMA ChainStutters == ASSUME UNCHANGED <<status, active>> PROVE ChainStep
BY DEF ChainStep, Chain!vars

\* A session that ends, or fails, without having written.
LEMMA UnseenKeeps ==
    ASSUME TurnInv, UNCHANGED <<status, oficio, document, content, active>>, Alone', InTurn'
    PROVE  Keeps
<1>1. RetiredByApproval'
  BY DEF TurnInv, RetiredByApproval
<1> QED
  BY <1>1, ChainStutters DEF Keeps, Settled

LEMMA RollbackKeeps ==
    ASSUME TurnInv, NEW p \in Sessions, tx[p].pc # "idle", Rollback(p) PROVE Keeps
BY TurnEnds, UnseenKeeps DEF Rollback

\* Handlers of the draft: the request they write waits for no signature.
LEMMA DraftKeeps ==
    ASSUME TurnInv, NEW p \in Sessions,
           CommitAdd(p) \/ CommitRemove(p) \/ CommitAttach(p) \/ CommitOficio(p)
    PROVE  Keeps
<1> DEFINE t == tx[p]
<1>1. /\ t.pc # "idle" /\ t.req \in Requests /\ t \in Transactions
      /\ status[t.req] \in {"DRAFT", "PENDING"}
  BY DEF TurnInv, InTurn, AtStatus, RowInv, TypeOK, Shapes, Shape,
         CommitAdd, CommitRemove, CommitAttach, CommitOficio
<1>2. CASE Rollback(p)
  BY <1>1, <1>2, RollbackKeeps
<1>3. CASE ~Rollback(p)
  <2>1. /\ Finish(p) /\ UNCHANGED <<status, active>>
        /\ \A r \in Requests \ {t.req} :
              /\ content'[r] = content[r]
              /\ (r \in oficio') = (r \in oficio) /\ (r \in document') = (r \in document)
    BY <1>1, <1>3 DEF CommitAdd, CommitRemove, CommitAttach, CommitOficio, TurnInv, RowInv, TypeOK
  <2>2. Alone' /\ InTurn'
    BY <1>1, <2>1, TurnEnds
  <2>3. Settled
    BY <1>1, <2>1 DEF Settled, Awaiting
  <2>4. RetiredByApproval'
    BY <1>1, <2>1, StaysRetired DEF TurnInv
  <2> QED
    BY <2>1, <2>2, <2>3, <2>4, ChainStutters DEF Keeps
<1> QED
  BY <1>2, <1>3

\* A request that is not approved gets another status, and nothing else changes.
LEMMA StatusKeeps ==
    ASSUME TurnInv, NEW p \in Sessions, tx[p].pc # "idle", NEW r \in Requests, r = tx[p].req,
           NEW s \in Status, status[r] # "APPROVED", status' = [status EXCEPT ![r] = s],
           UNCHANGED <<oficio, document, content, active>>
    PROVE  /\ \A q \in Requests \ {r} : status'[q] = status[q] /\ content'[q] = content[q]
           /\ status'[r] = s
           /\ RetiredByApproval' /\ Settled
<1>1. /\ \A q \in Requests \ {r} : status'[q] = status[q] /\ content'[q] = content[q]
      /\ status'[r] = s
  BY DEF TurnInv, RowInv, TypeOK
<1>2. RetiredByApproval'
  BY <1>1, StaysRetired DEF TurnInv
<1> QED
  BY <1>1, <1>2 DEF Settled

\* What a session knows of itself and of its request.
LEMMA Knows ==
    ASSUME TurnInv, NEW p \in Sessions, tx[p].pc # "idle"
    PROVE  /\ tx[p] \in Transactions /\ tx[p].req \in Requests
           /\ Shape(tx[p], sig) /\ AtStatus(tx[p], status, content)
BY DEF TurnInv, RowInv, TypeOK, Shapes, Shape, InTurn

LEMMA SubmitKeeps == ASSUME TurnInv, NEW p \in Sessions, CommitSubmit(p) PROVE Keeps
<1> DEFINE r == tx[p].req
           s == tx[p].target
<1>1. /\ tx[p].pc = "submit" /\ status' = [status EXCEPT ![r] = s] /\ Finish(p)
      /\ UNCHANGED <<oficio, document, content, active>>
  BY DEF CommitSubmit
<1>2. /\ r \in Requests /\ status[r] \in {"DRAFT", "PENDING"}
      /\ s \in {"AWAITING_RECURSOS_MATERIALES", "AWAITING_COMP_CENTER"}
  BY <1>1, Knows DEF AtStatus
<1>3. s \in Status /\ status[r] # "APPROVED"
  BY <1>2 DEF Status, Awaiting
<1>4. RetiredByApproval' /\ Settled /\ Alone' /\ InTurn'
  BY <1>1, <1>2, <1>3, StatusKeeps, TurnEnds
<1>5. Chain!Next
  BY <1>1, <1>2, ChainSubmits DEF TurnInv, RowInv
<1> QED
  BY <1>4, <1>5 DEF Keeps, ChainStep

LEMMA CancelKeeps == ASSUME TurnInv, NEW p \in Sessions, CommitStatus(p) PROVE Keeps
<1> DEFINE r == tx[p].req
           s == tx[p].target
<1>1. /\ tx[p].pc = "status" /\ status' = [status EXCEPT ![r] = s] /\ Finish(p)
      /\ UNCHANGED <<oficio, document, content, active>>
  BY DEF CommitStatus
<1>2. /\ r \in Requests /\ s \in {"CANCELLED", "REJECTED"}
      /\ status[r] = "PENDING" \/ (status[r] = "DRAFT" /\ s = "CANCELLED")
  <2>1. r \in Requests /\ Shape(tx[p], sig) /\ tx[p].pc = "status"
    BY <1>1, Knows
  <2>2. s \in {"CANCELLED", "REJECTED"}
    BY <2>1 DEF Shape
  <2>3. status[r] = "PENDING" \/ (status[r] = "DRAFT" /\ s = "CANCELLED")
    BY <1>1, Knows DEF AtStatus
  <2> QED
    BY <2>1, <2>2, <2>3
<1>3. s \in Status /\ status[r] # "APPROVED"
  BY <1>2 DEF Status
<1>4. RetiredByApproval' /\ Settled /\ Alone' /\ InTurn'
  BY <1>1, <1>2, <1>3, StatusKeeps, TurnEnds
<1>5. Chain!Next
  BY <1>1, <1>2, ChainCancels, ChainRejects DEF TurnInv, RowInv
<1> QED
  BY <1>4, <1>5 DEF Keeps, ChainStep

\* The administrator alone: the first commit approves, every commit retires.
LEMMA ApproveKeeps ==
    ASSUME TurnInv, NEW p \in Sessions, ApproveItem(p) \/ CommitApprove(p) PROVE Keeps
<1> DEFINE t == tx[p]
           r == t.req
<1>1. /\ t.pc = "approve" /\ t \in Transactions /\ r \in Requests
      /\ status[r] = IF t.target = "NONE" THEN "APPROVED" ELSE "PENDING"
      /\ t.target \in {"NONE", "APPROVED"} /\ t.items \subseteq content[r]
  BY Knows DEF ApproveItem, CommitApprove, AtStatus, Shape
<1>2. /\ UNCHANGED <<oficio, document, content>>
      /\ \/ status' = status /\ active' = active
         \/ /\ WriteTarget(t)
            /\ \E I \in SUBSET t.items : active' = active \ I
  <2>1. {} \in SUBSET t.items /\ active = active \ {} /\ \A i \in t.items : {i} \in SUBSET t.items
    OBVIOUS
  <2> QED
    BY <2>1 DEF ApproveItem, CommitApprove
<1>3. \E u \in Transactions :
         /\ tx' = [tx EXCEPT ![p] = u] /\ (u = Idle \/ u.req = r)
         /\ AtStatus(u, status', content')
  <2>1. CASE CommitApprove(p)
    BY <2>1, IdleType DEF CommitApprove, Finish, AtStatus, Idle
  <2>2. CASE ApproveItem(p)
    <3>1. PICK i \in t.items :
            \/ WriteTarget(t) /\ tx' = [tx EXCEPT ![p].items = @ \ {i}, ![p].target = "NONE"]
            \/ status' = status /\ tx' = [tx EXCEPT ![p].items = @ \ {i}]
      BY <2>2 DEF ApproveItem
    <3> DEFINE u == [t EXCEPT !.items = @ \ {i}, !.target = "NONE"]
               v == [t EXCEPT !.items = @ \ {i}]
    <3>2. u \in Transactions /\ v \in Transactions /\ u.req = r /\ v.req = r
      BY <1>1 DEF Transactions, Status
    <3>3. CASE WriteTarget(t) /\ tx' = [tx EXCEPT ![p].items = @ \ {i}, ![p].target = "NONE"]
      <4>1. status'[r] = "APPROVED"
        BY <1>1, <3>3 DEF WriteTarget, TurnInv, RowInv, TypeOK
      <4>2. tx' = [tx EXCEPT ![p] = u]
        BY <1>1, <3>3 DEF TurnInv, RowInv, TypeOK, Transactions
      <4>3. AtStatus(u, status', content')
        BY <1>1, <1>2, <4>1 DEF AtStatus, Transactions
      <4> QED
        BY <3>2, <4>2, <4>3
    <3>4. CASE status' = status /\ tx' = [tx EXCEPT ![p].items = @ \ {i}]
      <4>1. tx' = [tx EXCEPT ![p] = v]
        BY <1>1, <3>4 DEF TurnInv, RowInv, TypeOK, Transactions
      <4>2. AtStatus(v, status', content')
        BY <1>1, <1>2, <3>4 DEF AtStatus, Transactions
      <4> QED
        BY <3>2, <4>1, <4>2
    <3> QED
      BY <3>1, <3>3, <3>4
  <2> QED
    BY <2>1, <2>2
<1>4. /\ \A q \in Requests \ {r} : status'[q] = status[q] /\ content'[q] = content[q]
      /\ \A q \in Requests : status[q] = "APPROVED" => status'[q] = "APPROVED"
  BY <1>1, <1>2 DEF WriteTarget, TurnInv, RowInv, TypeOK
<1>5. Alone' /\ InTurn'
  BY <1>1, <1>3, <1>4, TurnMoves
<1>6. WriteTarget(t) => status'[r] = "APPROVED"
  BY <1>1 DEF WriteTarget, TurnInv, RowInv, TypeOK
<1>7. RetiredByApproval'
  <2>1. \A i \in active \ active' :
           \E q \in Requests : status'[q] = "APPROVED" /\ i \in content'[q]
    BY <1>1, <1>2, <1>6
  <2> QED
    BY <1>2, <1>4, <2>1, StaysRetired DEF TurnInv
<1>8. Settled
  BY <1>2 DEF Settled
<1>9. ChainStep
  <2>1. CASE status' = status /\ active' = active
    BY <2>1, ChainStutters
  <2>2. CASE WriteTarget(t) /\ \E I \in SUBSET t.items : active' = active \ I
    <3>1. PICK I \in SUBSET t.items : active' = active \ I
      BY <2>2
    <3>2. I \in SUBSET Items
      BY <1>1 DEF Transactions
    <3>3. CASE t.target = "NONE"
      <4>1. status' = status /\ status[r] = "APPROVED"
        BY <1>1, <2>2, <3>3 DEF WriteTarget
      <4> QED
        BY <1>1, <3>1, <3>2, <4>1, ChainRetires DEF ChainStep
    <3>4. CASE t.target = "APPROVED"
      <4>1. status' = [status EXCEPT ![r] = "APPROVED"] /\ status[r] = "PENDING"
        BY <1>1, <2>2, <3>4 DEF WriteTarget
      <4> QED
        BY <1>1, <3>1, <3>2, <4>1, ChainApproves DEF ChainStep, TurnInv, RowInv
    <3> QED
      BY <1>1, <3>3, <3>4
  <2> QED
    BY <1>2, <2>1, <2>2
<1> QED
  BY <1>5, <1>7, <1>8, <1>9 DEF Keeps

\* The read of the row to sign.
LEMMA FindKeeps == ASSUME TurnInv, NEW p \in Sessions, FindRow(p) PROVE Keeps
<1> DEFINE t == tx[p]
<1>1. /\ t.pc = "find" /\ UNCHANGED <<status, oficio, document, content, sig, active>>
  BY DEF FindRow
<1>2. t \in Transactions /\ AtStatus(t, status, content)
  BY <1>1, Knows
<1>3. \E u \in Transactions :
        tx' = [tx EXCEPT ![p] = u] /\ u.req = t.req /\ AtStatus(u, status, content)
  <2>1. CASE RowsAt(t.req, t.step) = {}
    <3> DEFINE u == [t EXCEPT !.pc = "sign"]
    <3>1. u \in Transactions /\ u.req = t.req /\ AtStatus(u, status, content)
      BY <1>1, <1>2 DEF Transactions, AtStatus
    <3> QED
      BY <2>1, <3>1 DEF FindRow
  <2>2. CASE RowsAt(t.req, t.step) # {}
    <3>1. PICK x \in RowsAt(t.req, t.step) :
            tx' = [tx EXCEPT ![p] = [t EXCEPT !.pc = "sign", !.rows = {x},
                                              !.seenAction = sig[x].action]]
      BY <2>2 DEF FindRow
    <3>2. x \in SigIds /\ sig[x] \in Signatures
      BY DEF RowsAt, RowsOf, TurnInv, RowInv, TypeOK
    <3> DEFINE u == [t EXCEPT !.pc = "sign", !.rows = {x}, !.seenAction = sig[x].action]
    <3>3. u \in Transactions /\ u.req = t.req /\ AtStatus(u, status, content)
      BY <1>1, <1>2, <3>2 DEF Transactions, Signatures, AtStatus
    <3> QED
      BY <3>1, <3>3
  <2> QED
    BY <2>1, <2>2
<1>4. Alone' /\ InTurn'
  BY <1>1, <1>3, TurnMoves
<1> QED
  BY <1>1, <1>4, UnseenKeeps

\* A signature: of a request that waits for it, so the items stay as submitted.
LEMMA SignKeeps == ASSUME TurnInv, NEW p \in Sessions, CommitSign(p) PROVE Keeps
<1> DEFINE t == tx[p]
           r == t.req
           s == t.target
<1>1. /\ t.pc = "sign" /\ t \in Transactions /\ r \in Requests
      /\ status[r] \in Awaiting /\ s \in {"REJECTED", NextStatus(status[r])}
  <2>1. t.pc = "sign"
    BY DEF CommitSign
  <2> QED
    BY <2>1, Knows DEF AtStatus
<1>2. CASE Rollback(p)
  BY <1>1, <1>2, RollbackKeeps
<1>3. CASE ~Rollback(p)
  <2>1. /\ status' = [status EXCEPT ![r] = s] /\ tx' = [tx EXCEPT ![p] = AfterSigning(t)]
        /\ UNCHANGED <<oficio, document, content, active>>
    BY <1>3 DEF CommitSign
  <2>2. s \in Status /\ status[r] # "APPROVED"
    BY <1>1, NextStatusType DEF Status, Awaiting
  <2>3. /\ \A q \in Requests \ {r} : status'[q] = status[q] /\ content'[q] = content[q]
        /\ status'[r] = s /\ RetiredByApproval' /\ Settled
    BY <1>1, <2>1, <2>2, StatusKeeps
  <2>4. /\ AfterSigning(t) \in Transactions
        /\ AfterSigning(t).req = r \/ AfterSigning(t) = Idle
        /\ AtStatus(AfterSigning(t), status', content')
    BY <1>1, <2>3, IdleType DEF AfterSigning, Transactions, AtStatus, Idle
  <2>5. Alone' /\ InTurn'
    BY <1>1, <2>1, <2>3, <2>4, TurnMoves
  <2>6. CASE s = "REJECTED"
    <3>1. Chain!Next
      BY <1>1, <2>1, <2>6, ChainRejects DEF TurnInv, RowInv
    <3> QED
      BY <2>3, <2>5, <3>1 DEF Keeps, ChainStep
  <2>7. CASE s = NextStatus(status[r])
    <3>1. Chain!Next
      BY <1>1, <2>1, <2>7, ChainSigns DEF TurnInv, RowInv
    <3> QED
      BY <2>3, <2>5, <3>1 DEF Keeps, ChainStep
  <2> QED
    BY <1>1, <2>6, <2>7
<1> QED
  BY <1>2, <1>3

\* The second commit of the last signature.
LEMMA RetireKeeps == ASSUME TurnInv, NEW p \in Sessions, Retire(p) PROVE Keeps
<1> DEFINE r == tx[p].req
<1>1. /\ tx[p].pc = "retire" /\ r \in Requests /\ status[r] = "APPROVED"
      /\ content[r] \in SUBSET Items
  <2>1. tx[p].pc = "retire"
    BY DEF Retire
  <2>2. r \in Requests /\ status[r] = "APPROVED"
    BY <2>1, Knows DEF AtStatus
  <2> QED
    BY <2>1, <2>2 DEF TurnInv, RowInv, TypeOK
<1>2. active' = active \ content[r] /\ Finish(p) /\ UNCHANGED <<status, oficio, document, content, sig>>
  BY DEF Retire
<1>3. Alone' /\ InTurn'
  BY <1>1, <1>2, TurnEnds
<1>4. RetiredByApproval'
  BY <1>1, <1>2, StaysRetired DEF TurnInv
<1>5. Settled
  BY <1>2 DEF Settled
<1>6. Chain!Next
  BY <1>1, <1>2, ChainRetires
<1> QED
  BY <1>3, <1>4, <1>5, <1>6 DEF Keeps, ChainStep

LEMMA ResubmitKeeps ==
    ASSUME TurnInv, NEW p \in Sessions, DeleteSignatures(p) \/ CommitResubmit(p) PROVE Keeps
<1> DEFINE t == tx[p]
           r == t.req
<1>1. /\ t.pc \in {"delete", "resubmit"} /\ t \in Transactions /\ r \in Requests
      /\ status[r] = "REJECTED" /\ t.target = "DRAFT"
  <2>1. t.pc \in {"delete", "resubmit"}
    BY DEF DeleteSignatures, CommitResubmit
  <2>2. t \in Transactions /\ r \in Requests /\ status[r] = "REJECTED"
    BY <2>1, Knows DEF AtStatus
  <2>3. t.target = "DRAFT"
    BY <2>1, Knows DEF Shape
  <2> QED
    BY <2>1, <2>2, <2>3
<1>2. CASE DeleteSignatures(p)
  <2> DEFINE u == [t EXCEPT !.pc = "resubmit", !.rows = RowsOf(r)]
  <2>1. tx' = [tx EXCEPT ![p] = u] /\ UNCHANGED <<status, oficio, document, content, sig, active>>
    BY <1>2 DEF DeleteSignatures, TurnInv, RowInv, TypeOK
  <2>2. u \in Transactions /\ u.req = r
    BY <1>1 DEF Transactions, RowsOf
  <2>3. AtStatus(u, status', content')
    BY <1>1, <2>1 DEF AtStatus, Transactions
  <2> HIDE DEF u
  <2>4. Alone' /\ InTurn'
    BY <1>1, <2>1, <2>2, <2>3, TurnMoves
  <2> QED
    BY <2>1, <2>4, UnseenKeeps
<1>3. CASE CommitResubmit(p)
  <2>1. /\ status' = [status EXCEPT ![r] = "DRAFT"] /\ Finish(p)
        /\ UNCHANGED <<oficio, document, content, active>>
    BY <1>1, <1>3 DEF CommitResubmit
  <2>2. "DRAFT" \in Status /\ status[r] # "APPROVED"
    BY <1>1 DEF Status
  <2>3. RetiredByApproval' /\ Settled /\ Alone' /\ InTurn'
    BY <1>1, <2>1, <2>2, StatusKeeps, TurnEnds
  <2>4. Chain!Next
    BY <1>1, <2>1, ChainResubmits DEF TurnInv, RowInv
  <2> QED
    BY <2>3, <2>4 DEF Keeps, ChainStep
<1> QED
  BY <1>2, <1>3

\* A request that is created: it was not there, and nobody was at it.
LEMMA CreateKeeps == ASSUME TurnInv, NEW r \in Requests, CreateRequest(r) PROVE Keeps
<1>1. /\ status[r] = "NONE" /\ status' = [status EXCEPT ![r] = "DRAFT"]
      /\ UNCHANGED <<oficio, document, content, sig, active, tx>> /\ status \in [Requests -> Status]
  BY DEF CreateRequest, TurnInv, RowInv, TypeOK
<1>2. ASSUME NEW p \in Sessions PROVE AtStatus(tx[p], status', content')
  <2>1. CASE tx[p].pc = "idle"
    BY <2>1 DEF AtStatus
  <2>2. CASE tx[p].pc # "idle"
    <3>1. tx[p] \in Transactions /\ tx[p].req \in Requests /\ AtStatus(tx[p], status, content)
      BY <2>2, Knows
    <3>2. tx[p].req # r
      BY <1>1, <2>2, <3>1 DEF AtStatus, Transactions, Awaiting
    <3> QED
      BY <1>1, <3>1, <3>2 DEF AtStatus
  <2> QED
    BY <2>1, <2>2
<1>3. Alone' /\ InTurn'
  BY <1>1, <1>2 DEF TurnInv, Alone, InTurn
<1>4. RetiredByApproval'
  BY <1>1, StaysRetired DEF TurnInv
<1>5. Settled
  BY <1>1 DEF Settled
<1>6. ChainStep
  <2>1. /\ Phase("NONE") = Phase("DRAFT") /\ LeftAt("NONE") = LeftAt("DRAFT")
    BY DEF Phase, LeftAt, Awaiting
  <2>2. \A q \in Requests : Phase(status'[q]) = Phase(status[q]) /\ LeftAt(status'[q]) = LeftAt(status[q])
    BY <1>1, <2>1
  <2>3. [q \in Requests |-> Phase(status'[q])] = [q \in Requests |-> Phase(status[q])]
    BY <2>2
  <2>4. [q \in Requests |-> LeftAt(status'[q])] = [q \in Requests |-> LeftAt(status[q])]
    BY <2>2
  <2> QED
    BY <1>1, <2>3, <2>4 DEF ChainStep, Chain!vars, LeftAt
<1> QED
  BY <1>3, <1>4, <1>5, <1>6 DEF Keeps

LEMMA NextKeeps == ASSUME Turns, TurnInv, [Next]_vars PROVE Keeps
<1>1. ASSUME NEW p \in Sessions, NEW r \in Requests, Begin(p, r) PROVE Keeps
  BY <1>1, BeginTurn, UnseenKeeps
<1>2. ASSUME NEW p \in Sessions, Continue(p) PROVE Keeps
  BY <1>2, DraftKeeps, SubmitKeeps, CancelKeeps, ApproveKeeps, FindKeeps, SignKeeps, RetireKeeps,
     ResubmitKeeps
     DEF Continue
<1>3. ASSUME NEW p \in Sessions, Abort(p) PROVE Keeps
  BY <1>3, RollbackKeeps DEF Abort
<1>4. CASE UNCHANGED vars
  BY <1>4, UnseenKeeps DEF vars, TurnInv, Alone, InTurn
<1> QED
  BY <1>1, <1>2, <1>3, <1>4, CreateKeeps DEF Next

LEMMA InitTurn == Init => TurnInv
<1> SUFFICES ASSUME Init PROVE TurnInv
  OBVIOUS
<1>1. Alone /\ InTurn
  BY DEF Init, Alone, InTurn, AtStatus, Idle
<1>2. RetiredByApproval
  BY DEF Init, RetiredByApproval
<1> QED
  BY <1>1, <1>2, InitRows DEF TurnInv

LEMMA NextTurn == ASSUME Turns, TurnInv, [Next]_vars PROVE TurnInv'
BY NextKeeps, NextRows DEF TurnInv, Keeps

\* With one session at a time on a request, equipment is retired only through a
\* request that was approved and contains it, however the last signature's two
\* commits and those of the administrator's loop are cut short.
THEOREM RetiredWhenApproved == Turns => (Spec => []RetiredByApproval)
<1> SUFFICES ASSUME Turns PROVE Spec => []RetiredByApproval
  OBVIOUS
<1>1. TurnInv => RetiredByApproval
  BY DEF TurnInv
<1>2. TurnInv /\ [Next]_vars => TurnInv'
  BY NextTurn
<1> QED
  BY <1>1, <1>2, InitTurn, PTL DEF Spec

\* With one session at a time on a request, what was submitted is what is signed:
\* no handler that checked the draft can still write after the submission.
THEOREM FrozenWhenSubmitted == Turns => (Spec => SubmittedIsFrozen)
<1> SUFFICES ASSUME Turns PROVE Spec => SubmittedIsFrozen
  OBVIOUS
<1>1. TurnInv /\ [Next]_vars => TurnInv'
  BY NextTurn
<1>2. TurnInv /\ [Next]_vars => [Settled]_vars
  BY NextKeeps DEF Keeps
<1> QED
  BY <1>1, <1>2, InitTurn, PTL DEF Spec, SubmittedIsFrozen, Settled

\* With one session at a time on a request, the handlers implement the abstract
\* chain: signatures one by one, a rejection back to the start, and nothing
\* retired without an approval.
THEOREM ImplementsChain == Turns => (Spec => ChainSpec)
<1> SUFFICES ASSUME Turns PROVE Spec => ChainSpec
  OBVIOUS
<1>1. Init => Chain!Init
  <2> SUFFICES ASSUME Init PROVE Chain!Init
    OBVIOUS
  <2>1. /\ Phase("PENDING") = "legacy" /\ Phase("NONE") = "draft"
        /\ "PENDING" \notin Awaiting /\ "NONE" \notin Awaiting
    BY DEF Phase, Awaiting
  <2>2. /\ \A r \in Requests : Phase(status[r]) = IF r \in Legacy THEN "legacy" ELSE "draft"
        /\ \A r \in Requests : status[r] \notin Awaiting
    BY <2>1 DEF Init
  <2>3. [r \in Requests |-> Phase(status[r])] = [r \in Requests |-> IF r \in Legacy THEN "legacy" ELSE "draft"]
    BY <2>2
  <2>4. [r \in Requests |-> IF status[r] \in Awaiting THEN 5 - Step(status[r]) ELSE 0] = [r \in Requests |-> 0]
    BY <2>2
  <2>5. Items \ active = {}
    BY DEF Init
  <2> QED
    BY <2>3, <2>4, <2>5 DEF Chain!Init
<1>2. TurnInv /\ [Next]_vars => TurnInv'
  BY NextTurn
<1>3. TurnInv /\ [Next]_vars => [Chain!Next]_(Chain!vars)
  BY NextKeeps DEF Keeps, ChainStep
<1> QED
  BY <1>1, <1>2, <1>3, InitTurn, PTL DEF Spec, ChainSpec, Chain!Spec

-----------------------------------------------------------------------------
(* The signatures themselves, of the requests created in the chain (a legacy *)
(* request may enter it with neither an oficio nor a document).              *)

\* How far a status is in the chain: the step it waits for, or beyond the last one.
At(s) == IF s = "APPROVED" THEN 5 ELSE Step(s)

\* Where the flow of a request begins: with a signed document, at the Computer Centre.
First(r) == IF r \in oficio THEN 1 ELSE 4

InChain == Awaiting \cup {"APPROVED"}

\* The rows of a request: one for a step at most; none while it is a draft; in the
\* chain, one for each step from the first to the present one, which alone is unsigned.
Chained(r) ==
    /\ status[r] # "PENDING"
    /\ \A x, y \in RowsOf(r) : sig[x].step = sig[y].step => x = y
    /\ status[r] \in {"NONE", "DRAFT", "CANCELLED"} => RowsOf(r) = {}
    /\ status[r] \in InChain =>
         /\ \A x \in RowsOf(r) :
              /\ First(r) <= sig[x].step /\ sig[x].step <= At(status[r])
              /\ sig[x].action = IF sig[x].step = At(status[r]) THEN "NONE" ELSE "APPROVED"
         /\ \A k \in 1 .. 4 : First(r) <= k /\ k <= At(status[r]) =>
              \E x \in RowsOf(r) : sig[x].step = k

\* What a session has read of the rows, and of the flow, of its request.
Reads(p) ==
    LET t == tx[p] IN
    t.req \in Requests =>
        /\ t.pc = "sign" => t.rows # {} /\ t.rows \subseteq RowsOf(t.req)
        /\ t.req \notin Legacy =>
             /\ t.pc = "submit" => At(t.target) = First(t.req)
             /\ t.pc = "sign" =>
                  t.seenAction = "NONE" /\ \A x \in t.rows : sig[x].step = At(status[t.req])
             /\ t.pc = "resubmit" => RowsOf(t.req) \subseteq t.rows

SigInv ==
    /\ \A r \in Requests \ Legacy : Chained(r)
    /\ \A p \in Sessions : Reads(p)

\* What Chained and Reads see of a request.
Same(r) ==
    /\ status'[r] = status[r] /\ (r \in oficio') = (r \in oficio)
    /\ RowsOf(r)' = RowsOf(r) /\ \A x \in RowsOf(r) : sig'[x] = sig[x]

LEMMA AtType ==
    /\ \A s \in InChain : At(s) \in 1 .. 5
    /\ \A s \in Awaiting : At(s) = Step(s) /\ At(s) \in 1 .. 4 /\ At(NextStatus(s)) = At(s) + 1
BY DEF At, Step, NextStatus, Awaiting, InChain

LEMMA SameIsChained == ASSUME NEW r, Chained(r), Same(r) PROVE Chained(r)'
<1>1. First(r)' = First(r)
  BY DEF Same, First
<1> QED
  BY <1>1 DEF Same, Chained

LEMMA SameIsRead ==
    ASSUME NEW p, Reads(p), tx'[p] = tx[p], NEW r \in Requests, r = tx[p].req, Same(r)
    PROVE  Reads(p)'
<1>1. First(r)' = First(r)
  BY DEF Same, First
<1> QED
  BY <1>1 DEF Same, Reads

LEMMA RowsUntouched ==
    ASSUME UNCHANGED sig PROVE \A r : RowsOf(r)' = RowsOf(r) /\ \A x \in RowsOf(r) : sig'[x] = sig[x]
BY DEF RowsOf

\* One session moves on, or ends, and touches no request but its own.
LEMMA SignedMoves ==
    ASSUME TurnInv, SigInv, NEW p \in Sessions, tx[p].pc # "idle",
           \A q \in Sessions \ {p} : tx'[q] = tx[q], Reads(p)',
           NEW r \in Requests, r = tx[p].req, r \notin Legacy => Chained(r)',
           \A o \in Requests \ {r} : Same(o)
    PROVE  SigInv'
<1>1. ASSUME NEW o \in Requests \ Legacy PROVE Chained(o)'
  <2>1. CASE o # r
    BY <2>1, SameIsChained DEF SigInv
  <2> QED
    BY <1>1, <2>1
<1>2. ASSUME NEW q \in Sessions \ {p} PROVE Reads(q)'
  <2>1. CASE tx[q].req \in Requests
    <3>1. PICK o \in Requests : o = tx[q].req
      BY <2>1
    <3>2. o # r
      BY <3>1, RetirementNames DEF TurnInv, Alone
    <3> QED
      BY <3>1, <3>2, SameIsRead DEF SigInv
  <2>2. CASE tx[q].req \notin Requests
    BY <2>2 DEF Reads
  <2> QED
    BY <2>1, <2>2
<1> QED
  BY <1>1, <1>2 DEF SigInv

LEMMA SignedEnds ==
    ASSUME TurnInv, SigInv, NEW p \in Sessions, tx[p].pc # "idle", Finish(p),
           NEW r \in Requests, r = tx[p].req, r \notin Legacy => Chained(r)',
           \A o \in Requests \ {r} : Same(o)
    PROVE  SigInv'
<1>1. tx'[p].req = NoRequest /\ \A q \in Sessions \ {p} : tx'[q] = tx[q]
  BY DEF Finish, Idle, TurnInv, RowInv, TypeOK
<1>2. Reads(p)'
  BY <1>1, RetirementNames DEF Reads
<1> QED
  BY <1>1, <1>2, SignedMoves

LEMMA RollbackSigned ==
    ASSUME TurnInv, SigInv, NEW p \in Sessions, tx[p].pc # "idle", Rollback(p)
    PROVE  SigInv'
<1>1. \A r : Same(r)
  BY RowsUntouched DEF Rollback, Same
<1>2. PICK r \in Requests : r = tx[p].req
  BY Knows
<1>3. r \notin Legacy => Chained(r)'
  BY <1>1, SameIsChained DEF SigInv
<1> QED
  BY <1>1, <1>2, <1>3, SignedEnds DEF Rollback

\* A handler that begins, a request that is created: no row and no flow changes.
LEMMA SignedStarts ==
    ASSUME SigInv, NEW p \in Sessions, UNCHANGED <<status, oficio, sig>>,
           \A q \in Sessions \ {p} : tx'[q] = tx[q], Reads(p)'
    PROVE  SigInv'
<1>1. \A r : Same(r) /\ First(r)' = First(r)
  BY RowsUntouched DEF Same, First
<1>2. \A r \in Requests \ Legacy : Chained(r)'
  BY <1>1, SameIsChained DEF SigInv
<1>3. ASSUME NEW q \in Sessions \ {p} PROVE Reads(q)'
  <2>1. Reads(q) /\ tx'[q] = tx[q]
    BY DEF SigInv
  <2> QED
    BY <1>1, <2>1 DEF Reads, Same
<1> QED
  BY <1>2, <1>3 DEF SigInv

LEMMA UnreadStarts ==
    ASSUME TurnInv, SigInv, NEW p \in Sessions, NEW r, NEW t \in Transactions, Start(p, r, t),
           t.pc \notin {"submit", "sign", "resubmit"}
    PROVE  SigInv'
<1>1. tx' = [tx EXCEPT ![p] = [t EXCEPT !.req = r]] /\ UNCHANGED <<status, oficio, sig>>
  BY DEF Start
<1>2. tx'[p].pc = t.pc /\ \A q \in Sessions \ {p} : tx'[q] = tx[q]
  BY <1>1 DEF TurnInv, RowInv, TypeOK, Transactions
<1>3. Reads(p)'
  BY <1>2 DEF Reads
<1> QED
  BY <1>1, <1>2, <1>3, SignedStarts

LEMMA SubmitStarts ==
    ASSUME TurnInv, SigInv, NEW p \in Sessions, NEW r \in Requests, BeginSubmit(p, r)
    PROVE  SigInv'
<1> DEFINE s == IF r \in document \ oficio THEN "AWAITING_COMP_CENTER"
                ELSE "AWAITING_RECURSOS_MATERIALES"
           t == [Idle EXCEPT !.pc = "submit", !.target = s]
<1>1. tx' = [tx EXCEPT ![p] = [t EXCEPT !.req = r]] /\ UNCHANGED <<status, oficio, sig>>
  BY DEF BeginSubmit, Start
<1>2. r \notin Legacy => At(s) = First(r)
  <2> SUFFICES ASSUME r \notin Legacy PROVE At(s) = First(r)
    OBVIOUS
  <2>1. r \in oficio \cup document
    BY DEF BeginSubmit, Submittable, SigInv, Chained
  <2> QED
    BY <2>1 DEF At, Step, First
<1> HIDE DEF s
<1>3. t.pc = "submit" /\ t.target = s
  BY DEF Idle
<1>4. /\ tx'[p].req = r /\ tx'[p].pc = "submit" /\ tx'[p].target = s
      /\ \A q \in Sessions \ {p} : tx'[q] = tx[q]
  BY <1>1 DEF TurnInv, RowInv, TypeOK, Idle
<1>5. First(r)' = First(r)
  BY <1>1 DEF First
<1>6. Reads(p)'
  BY <1>2, <1>4, <1>5 DEF Reads
<1> QED
  BY <1>1, <1>4, <1>6, SignedStarts

LEMMA BeginSigned ==
    ASSUME TurnInv, SigInv, NEW p \in Sessions, NEW r \in Requests, Begin(p, r)
    PROVE  SigInv'
<1>1. ASSUME NEW t \in Transactions, Start(p, r, t), t.pc \notin {"submit", "sign", "resubmit"}
      PROVE  SigInv'
  BY <1>1, UnreadStarts
<1>2. ASSUME NEW I \in SUBSET Items, BeginAdd(p, r, I) PROVE SigInv'
  <2> DEFINE t == [Idle EXCEPT !.pc = "add", !.items = I \ content[r]]
  <2>1. t \in Transactions /\ t.pc = "add" /\ Start(p, r, t)
    BY <1>2, IdleType DEF Idle, Transactions, BeginAdd
  <2> HIDE DEF t
  <2> QED
    BY <1>1, <2>1
<1>3. ASSUME NEW i \in Items, BeginRemove(p, r, i) PROVE SigInv'
  <2> DEFINE t == [Idle EXCEPT !.pc = "remove", !.items = {i}]
  <2>1. t \in Transactions /\ t.pc = "remove" /\ Start(p, r, t)
    BY <1>3, IdleType DEF Idle, Transactions, BeginRemove
  <2> HIDE DEF t
  <2> QED
    BY <1>1, <2>1
<1>4. CASE BeginAttach(p, r)
  <2> DEFINE t == [Idle EXCEPT !.pc = "attach"]
  <2>1. t \in Transactions /\ t.pc = "attach" /\ Start(p, r, t)
    BY <1>4, IdleType DEF Idle, Transactions, BeginAttach
  <2> HIDE DEF t
  <2> QED
    BY <1>1, <2>1
<1>5. CASE BeginOficio(p, r)
  <2> DEFINE t == [Idle EXCEPT !.pc = "oficio"]
  <2>1. t \in Transactions /\ t.pc = "oficio" /\ Start(p, r, t)
    BY <1>5, IdleType DEF Idle, Transactions, BeginOficio
  <2> HIDE DEF t
  <2> QED
    BY <1>1, <2>1
<1>6. ASSUME NEW s \in {"CANCELLED", "REJECTED"},
             Start(p, r, [Idle EXCEPT !.pc = "status", !.target = s]) PROVE SigInv'
  <2> DEFINE t == [Idle EXCEPT !.pc = "status", !.target = s]
  <2>1. t \in Transactions /\ t.pc = "status" /\ Start(p, r, t)
    BY <1>6, IdleType DEF Idle, Transactions, Status
  <2> HIDE DEF t
  <2> QED
    BY <1>1, <2>1
<1>7. CASE BeginApprove(p, r)
  <2> DEFINE t == [Idle EXCEPT !.pc = "approve", !.items = content[r], !.target = "APPROVED"]
  <2>1. t \in Transactions /\ t.pc = "approve" /\ Start(p, r, t)
    BY <1>7, IdleType DEF Idle, Transactions, Status, BeginApprove, TurnInv, RowInv, TypeOK
  <2> HIDE DEF t
  <2> QED
    BY <1>1, <2>1
<1>8. CASE BeginResubmit(p, r)
  <2> DEFINE t == [Idle EXCEPT !.pc = "delete", !.target = "DRAFT"]
  <2>1. t \in Transactions /\ t.pc = "delete" /\ Start(p, r, t)
    BY <1>8, IdleType DEF Idle, Transactions, Status, BeginResubmit
  <2> HIDE DEF t
  <2> QED
    BY <1>1, <2>1
<1>9. CASE BeginCancel(p, r) \/ BeginReject(p, r)
  BY <1>6, <1>9 DEF BeginCancel, BeginReject
<1>10. ASSUME NEW action \in {"APPROVED", "REJECTED"}, BeginSign(p, r, action) PROVE SigInv'
  <2> DEFINE next == IF action = "REJECTED" THEN "REJECTED" ELSE NextStatus(status[r])
             step == Step(status[r])
             t == [Idle EXCEPT !.pc = "find", !.step = step, !.target = next]
  <2>1. next \in Status /\ step \in 0 .. 4 /\ Start(p, r, t)
    BY <1>10, NextStatusType, StepType DEF BeginSign, Status
  <2> HIDE DEF next, step
  <2>2. t \in Transactions /\ t.pc = "find"
    BY <2>1, IdleType DEF Idle, Transactions
  <2> HIDE DEF t
  <2> QED
    BY <1>1, <2>1, <2>2
<1> QED
  BY <1>2, <1>3, <1>4, <1>5, <1>7, <1>8, <1>9, <1>10, SubmitStarts DEF Begin

\* A request nobody had: a session that reads the rows of a request has it elsewhere.
LEMMA CreateSigned ==
    ASSUME TurnInv, SigInv, NEW r \in Requests, CreateRequest(r)
    PROVE  SigInv'
<1>1. /\ status[r] = "NONE" /\ status'[r] = "DRAFT" /\ \A o \in Requests \ {r} : status'[o] = status[o]
      /\ UNCHANGED <<oficio, sig, tx>>
  BY DEF CreateRequest, TurnInv, RowInv, TypeOK
<1>2. \A o \in Requests : RowsOf(o)' = RowsOf(o) /\ First(o)' = First(o)
  BY <1>1, RowsUntouched DEF First
<1>3. ASSUME NEW o \in Requests \ Legacy PROVE Chained(o)'
  <2>1. Chained(o)
    BY DEF SigInv
  <2>2. CASE o = r
    BY <1>1, <1>2, <2>1, <2>2 DEF Chained, InChain, Awaiting
  <2>3. CASE o # r
    BY <1>1, <1>2, <2>1, <2>3 DEF Chained
  <2> QED
    BY <2>2, <2>3
<1>4. ASSUME NEW p \in Sessions PROVE Reads(p)'
  <2>1. Reads(p) /\ AtStatus(tx[p], status, content)
    BY DEF SigInv, TurnInv, InTurn
  <2>2. tx[p].pc = "sign" => tx[p].req # r
    BY <1>1, <2>1 DEF AtStatus, Awaiting
  <2> QED
    BY <1>1, <1>2, <2>1, <2>2 DEF Reads
<1> QED
  BY <1>3, <1>4 DEF SigInv

-----------------------------------------------------------------------------
\* The handlers of the draft write no row, and the flow only of a draft.
LEMMA DraftSigned ==
    ASSUME TurnInv, SigInv, NEW p \in Sessions,
           CommitAdd(p) \/ CommitRemove(p) \/ CommitAttach(p) \/ CommitOficio(p)
    PROVE  SigInv'
<1>1. PICK r \in Requests : r = tx[p].req /\ tx[p].pc # "idle" /\ status[r] \in {"DRAFT", "PENDING"}
  BY Knows DEF AtStatus, CommitAdd, CommitRemove, CommitAttach, CommitOficio
<1>2. CASE Rollback(p)
  BY <1>1, <1>2, RollbackSigned
<1>3. CASE ~Rollback(p)
  <2>1. /\ Finish(p) /\ UNCHANGED <<status, sig>>
        /\ \A o \in Requests \ {r} : (o \in oficio') = (o \in oficio)
    BY <1>1, <1>3 DEF CommitAdd, CommitRemove, CommitAttach, CommitOficio
  <2>2. \A o \in Requests \ {r} : Same(o)
    BY <2>1, RowsUntouched DEF Same
  <2>3. ASSUME r \notin Legacy PROVE Chained(r)'
    <3>1. Chained(r) /\ RowsOf(r)' = RowsOf(r)
      BY <2>1, <2>3, RowsUntouched DEF SigInv
    <3> QED
      BY <1>1, <2>1, <3>1 DEF Chained, InChain, Awaiting
  <2> QED
    BY <1>1, <2>1, <2>2, <2>3, SignedEnds
<1> QED
  BY <1>2, <1>3

\* Another request's rows are not touched by a row that is stored for this one.
LEMMA OthersSame ==
    ASSUME NEW r, NEW o, o # r, status'[o] = status[o], (o \in oficio') = (o \in oficio),
           \A x \in SigIds : \/ sig'[x] = sig[x]
                             \/ /\ sig[x].state # "stored" \/ sig[x].req = r
                                /\ sig'[x].state # "stored" \/ sig'[x].req = r
    PROVE  Same(o)
BY DEF Same, RowsOf

LEMMA SubmitSigned == ASSUME TurnInv, SigInv, NEW p \in Sessions, CommitSubmit(p) PROVE SigInv'
<1> DEFINE s == tx[p].target
<1>1. PICK r \in Requests :
        /\ r = tx[p].req /\ tx[p].pc = "submit" /\ status[r] \in {"DRAFT", "PENDING"}
        /\ s \in {"AWAITING_RECURSOS_MATERIALES", "AWAITING_COMP_CENTER"}
  BY Knows DEF AtStatus, CommitSubmit
<1> DEFINE row == Unsigned(r, s)
<1>2. PICK x \in SigIds : sig[x].state = "absent" /\ sig' = [sig EXCEPT ![x] = row]
  BY <1>1 DEF CommitSubmit, Fresh
<1>3. /\ status'[r] = s /\ \A o \in Requests \ {r} : status'[o] = status[o]
      /\ Finish(p) /\ UNCHANGED oficio
  BY <1>1 DEF CommitSubmit, TurnInv, RowInv, TypeOK
<1>4. row.state = "stored" /\ row.req = r /\ row.step = Step(s) /\ row.action = "NONE"
  BY DEF Unsigned
<1> HIDE DEF row
<1>5. sig'[x] = row /\ \A y \in SigIds \ {x} : sig'[y] = sig[y]
  BY <1>2 DEF TurnInv, RowInv, TypeOK
<1>6. \A o \in Requests \ {r} : Same(o)
  BY <1>2, <1>3, <1>4, <1>5, OthersSame
<1>7. ASSUME r \notin Legacy PROVE Chained(r)'
  <2>1. Chained(r) /\ Reads(p)
    BY <1>7 DEF SigInv
  <2>2. RowsOf(r) = {} /\ At(s) = First(r) /\ First(r)' = First(r)
    BY <1>1, <1>3, <1>7, <2>1 DEF Chained, Reads, First
  <2>3. RowsOf(r)' = {x}
    BY <1>4, <1>5, <2>2 DEF RowsOf
  <2>4. At(s) = Step(s) /\ At(s) \in 1 .. 4 /\ s \in InChain
    BY <1>1, AtType DEF Awaiting, InChain
  <2> QED
    BY <1>1, <1>3, <1>4, <1>5, <2>2, <2>3, <2>4 DEF Chained
<1> QED
  BY <1>1, <1>3, <1>6, <1>7, SignedEnds

LEMMA CancelSigned == ASSUME TurnInv, SigInv, NEW p \in Sessions, CommitStatus(p) PROVE SigInv'
<1> DEFINE s == tx[p].target
<1>1. PICK r \in Requests :
        /\ r = tx[p].req /\ tx[p].pc = "status"
        /\ \/ status[r] = "PENDING"
           \/ status[r] = "DRAFT" /\ s = "CANCELLED"
  BY Knows DEF AtStatus, CommitStatus
<1>2. /\ status'[r] = s /\ \A o \in Requests \ {r} : status'[o] = status[o]
      /\ Finish(p) /\ UNCHANGED <<oficio, sig>>
  BY <1>1 DEF CommitStatus, TurnInv, RowInv, TypeOK
<1>3. \A o \in Requests \ {r} : Same(o)
  BY <1>2, RowsUntouched DEF Same
<1>4. ASSUME r \notin Legacy PROVE Chained(r)'
  <2>1. Chained(r) /\ RowsOf(r)' = RowsOf(r)
    BY <1>2, <1>4, RowsUntouched DEF SigInv
  <2>2. status[r] = "DRAFT" /\ s = "CANCELLED"
    BY <1>1, <2>1 DEF Chained
  <2> QED
    BY <1>2, <2>1, <2>2 DEF Chained, InChain, Awaiting
<1> QED
  BY <1>1, <1>2, <1>3, <1>4, SignedEnds

\* The administrator approves legacy requests alone.
LEMMA ApproveSigned ==
    ASSUME TurnInv, SigInv, NEW p \in Sessions, ApproveItem(p) \/ CommitApprove(p)
    PROVE  SigInv'
<1>1. PICK r \in Requests :
        /\ r = tx[p].req /\ tx[p].pc = "approve" /\ tx[p].target \in {"NONE", "APPROVED"}
        /\ status[r] = IF tx[p].target = "NONE" THEN "APPROVED" ELSE "PENDING"
  BY Knows DEF ApproveItem, CommitApprove, AtStatus, Shape
<1>2. UNCHANGED <<oficio, sig>> /\ (status' = status \/ WriteTarget(tx[p]))
  BY DEF ApproveItem, CommitApprove
<1>3. \A o \in Requests \ {r} : status'[o] = status[o]
  BY <1>1, <1>2 DEF WriteTarget, TurnInv, RowInv, TypeOK
<1>4. \A o \in Requests \ {r} : Same(o)
  BY <1>2, <1>3, RowsUntouched DEF Same
<1>5. ASSUME r \notin Legacy PROVE Chained(r)'
  <2>1. Chained(r) /\ tx[p].target = "NONE"
    BY <1>1, <1>5 DEF SigInv, Chained
  <2>2. Same(r)
    BY <1>2, <2>1, RowsUntouched DEF Same, WriteTarget
  <2> QED
    BY <2>1, <2>2, SameIsChained
<1>6. /\ tx'[p].pc \in {"approve", "idle"} /\ \A q \in Sessions \ {p} : tx'[q] = tx[q]
  <2>1. CASE CommitApprove(p)
    BY <2>1 DEF CommitApprove, Finish, Idle, TurnInv, RowInv, TypeOK
  <2>2. CASE ApproveItem(p)
    <3>1. PICK i : \/ tx' = [tx EXCEPT ![p].items = @ \ {i}, ![p].target = "NONE"]
                   \/ tx' = [tx EXCEPT ![p].items = @ \ {i}]
      BY <2>2 DEF ApproveItem
    <3> QED
      BY <1>1, <3>1 DEF TurnInv, RowInv, TypeOK, Transactions
  <2> QED
    BY <2>1, <2>2
<1>7. Reads(p)'
  BY <1>6 DEF Reads
<1> QED
  BY <1>1, <1>4, <1>5, <1>6, <1>7, SignedMoves

LEMMA RetireSigned == ASSUME TurnInv, SigInv, NEW p \in Sessions, Retire(p) PROVE SigInv'
<1>1. PICK r \in Requests : r = tx[p].req /\ tx[p].pc # "idle"
  BY Knows DEF Retire
<1>2. \A o : Same(o)
  BY RowsUntouched DEF Retire, Same
<1>3. r \notin Legacy => Chained(r)'
  BY <1>2, SameIsChained DEF SigInv
<1> QED
  BY <1>1, <1>2, <1>3, SignedEnds DEF Retire

\* The rows a resubmission deletes are those of the rejected round, all of them.
LEMMA ResubmitSigned ==
    ASSUME TurnInv, SigInv, NEW p \in Sessions, DeleteSignatures(p) \/ CommitResubmit(p)
    PROVE  SigInv'
<1>1. PICK r \in Requests : /\ r = tx[p].req /\ tx[p].pc \in {"delete", "resubmit"}
                            /\ tx[p].target = "DRAFT" /\ tx[p] \in Transactions
  BY Knows DEF DeleteSignatures, CommitResubmit, Shape
<1>2. CASE DeleteSignatures(p)
  <2>1. UNCHANGED <<status, oficio, sig>>
    BY <1>2 DEF DeleteSignatures
  <2>2. /\ tx'[p].pc = "resubmit" /\ tx'[p].req = r /\ tx'[p].rows = RowsOf(r)
        /\ \A q \in Sessions \ {p} : tx'[q] = tx[q]
    BY <1>1, <1>2 DEF DeleteSignatures, TurnInv, RowInv, TypeOK, Transactions
  <2>3. RowsOf(r)' = RowsOf(r)
    BY <2>1, RowsUntouched
  <2>4. Reads(p)'
    BY <2>2, <2>3 DEF Reads
  <2> QED
    BY <2>1, <2>2, <2>4, SignedStarts
<1>3. CASE CommitResubmit(p)
  <2>1. /\ tx[p].pc = "resubmit" /\ sig' = Erased(tx[p].rows) /\ Finish(p) /\ UNCHANGED oficio
        /\ status'[r] = "DRAFT" /\ \A o \in Requests \ {r} : status'[o] = status[o]
    BY <1>1, <1>3 DEF CommitResubmit, TurnInv, RowInv, TypeOK
  <2>2. /\ \A x \in tx[p].rows \cap SigIds : sig'[x].state = "deleted"
        /\ \A x \in SigIds \ tx[p].rows : sig'[x] = sig[x]
    BY <2>1 DEF Erased, NoSig
  <2>3. \A x \in tx[p].rows : sig[x].state = "stored" => sig[x].req = r
    BY <1>1, <2>1, Knows DEF Shape
  <2>4. ASSUME NEW o \in Requests \ {r} PROVE Same(o)
    <3>1. \A x \in SigIds : \/ sig'[x] = sig[x]
                            \/ /\ sig[x].state # "stored" \/ sig[x].req = r
                               /\ sig'[x].state # "stored" \/ sig'[x].req = r
      BY <2>2, <2>3
    <3> QED
      BY <2>1, <3>1, OthersSame
  <2>5. ASSUME r \notin Legacy PROVE Chained(r)'
    <3>1. RowsOf(r) \subseteq tx[p].rows
      BY <1>1, <2>1, <2>5 DEF SigInv, Reads
    <3>2. RowsOf(r)' = {}
      BY <2>2, <3>1 DEF RowsOf
    <3> QED
      BY <2>1, <3>2 DEF Chained, InChain, Awaiting
  <2> QED
    BY <1>1, <2>1, <2>4, <2>5, SignedEnds
<1> QED
  BY <1>2, <1>3

-----------------------------------------------------------------------------
\* The row to sign is there: the request waits for it, and nobody else is at it.
LEMMA FindSigned == ASSUME TurnInv, SigInv, NEW p \in Sessions, FindRow(p) PROVE SigInv'
<1> DEFINE t == tx[p]
<1>1. PICK r \in Requests :
        /\ r = t.req /\ t.pc = "find" /\ status[r] \in Awaiting /\ t.step = Step(status[r])
        /\ UNCHANGED <<status, oficio, sig>>
  BY Knows DEF AtStatus, FindRow
<1>2. RowsAt(r, t.step) # {}
  <2>1. PICK x \in SigIds :
          sig[x].state = "stored" /\ sig[x].req = r /\ sig[x].step = Step(status[r])
    BY <1>1 DEF TurnInv, RowInv, HasRows, HasRow
  <2>2. x \in RowsAt(r, t.step)
    BY <1>1, <2>1 DEF RowsAt, RowsOf
  <2> QED
    BY <2>2
<1>3. PICK x \in RowsAt(r, t.step) :
        tx' = [tx EXCEPT ![p] = [t EXCEPT !.pc = "sign", !.rows = {x}, !.seenAction = sig[x].action]]
  BY <1>1, <1>2 DEF FindRow
<1>4. x \in RowsOf(r) /\ sig[x].step = At(status[r])
  BY <1>1, <1>3, AtType DEF RowsAt
<1>5. r \notin Legacy => sig[x].action = "NONE"
  BY <1>1, <1>4 DEF SigInv, Chained, InChain
<1>6. /\ tx'[p].req = r /\ tx'[p].pc = "sign" /\ tx'[p].rows = {x}
      /\ tx'[p].seenAction = sig[x].action /\ \A q \in Sessions \ {p} : tx'[q] = tx[q]
  BY <1>1, <1>3 DEF TurnInv, RowInv, TypeOK, Transactions
<1>7. RowsOf(r)' = RowsOf(r)
  BY <1>1, RowsUntouched
<1>8. Reads(p)'
  BY <1>1, <1>4, <1>5, <1>6, <1>7 DEF Reads
<1> QED
  BY <1>1, <1>6, <1>8, SignedStarts

\* A signature: the row of the present step is signed, and that of the next is stored.
LEMMA SignSigned == ASSUME TurnInv, SigInv, NEW p \in Sessions, CommitSign(p) PROVE SigInv'
<1> DEFINE t == tx[p]
           target == t.target
<1>1. PICK r \in Requests :
        /\ r = t.req /\ t.pc = "sign" /\ status[r] \in Awaiting
        /\ target \in {"REJECTED", NextStatus(status[r])}
  BY Knows DEF AtStatus, CommitSign
<1>2. CASE Rollback(p)
  BY <1>1, <1>2, RollbackSigned
<1>3. CASE ~Rollback(p)
  <2>1. PICK x \in t.rows :
          /\ WriteSignatures(t, x) /\ status' = [status EXCEPT ![r] = target]
          /\ tx' = [tx EXCEPT ![p] = AfterSigning(t)] /\ UNCHANGED oficio
    BY <1>1, <1>3 DEF CommitSign, SignedRow, SigInv, Reads
  <2>2. /\ status'[r] = target /\ \A o \in Requests \ {r} : status'[o] = status[o]
        /\ \A q \in Sessions \ {p} : tx'[q] = tx[q]
        /\ tx'[p].pc \in {"idle", "retire"}
    BY <2>1 DEF AfterSigning, Idle, TurnInv, RowInv, TypeOK
  <2>3. Reads(p)'
    BY <2>2 DEF Reads
  <2>4. Reads(p)
    BY DEF SigInv
  <2>5. /\ x \in SigIds /\ sig[x].state = "stored" /\ sig[x].req = r /\ sig[x] \in Signatures
        /\ r \notin Legacy => t.seenAction = "NONE" /\ sig[x].step = At(status[r])
    BY <1>1, <2>4 DEF Reads, RowsOf, TurnInv, RowInv, TypeOK
  <2> DEFINE s == Signed(t, x)
             action == IF target = "REJECTED" THEN "REJECTED" ELSE "APPROVED"
             row == Unsigned(r, target)
  <2>6. /\ s \in [SigIds -> Signatures] /\ \A z \in SigIds \ {x} : s[z] = sig[z]
        /\ s[x].state = "stored" /\ s[x].req = r /\ s[x].step = sig[x].step
        /\ r \notin Legacy => s[x].action = action
    BY <2>5 DEF Signed, TurnInv, RowInv, TypeOK, Signatures
  <2>7. row.state = "stored" /\ row.req = r /\ row.step = Step(target) /\ row.action = "NONE"
    BY DEF Unsigned
  <2>8. \/ target \notin Awaiting /\ sig' = s
        \/ /\ target \in Awaiting
           /\ \E y \in SigIds : sig[y].state = "absent" /\ sig' = [s EXCEPT ![y] = row]
    BY <1>1, <2>1 DEF WriteSignatures, Fresh
  <2> HIDE DEF s, row
  <2>9. ASSUME NEW o \in Requests \ {r} PROVE Same(o)
    <3>1. \A z \in SigIds : \/ sig'[z] = sig[z]
                            \/ /\ sig[z].state # "stored" \/ sig[z].req = r
                               /\ sig'[z].state # "stored" \/ sig'[z].req = r
      BY <2>5, <2>6, <2>7, <2>8
    <3> QED
      BY <2>1, <2>2, <3>1, OthersSame
  <2>10. ASSUME r \notin Legacy PROVE Chained(r)'
    <3> DEFINE k == At(status[r])
    <3>1. /\ Chained(r) /\ First(r)' = First(r) /\ status[r] \in InChain
          /\ sig[x].step = k /\ s[x].action = action
      BY <1>1, <2>1, <2>5, <2>6, <2>10 DEF SigInv, First, InChain
    <3>2. k \in 1 .. 4 /\ At(NextStatus(status[r])) = k + 1
      BY <1>1, AtType
    <3>3. x \in RowsOf(r) /\ \A z \in RowsOf(r) : sig[z].step \in 0 .. 4
      BY <2>5 DEF RowsOf, TurnInv, RowInv, TypeOK, Signatures
    <3>4. CASE target \notin Awaiting
      <4>1. /\ RowsOf(r)' = RowsOf(r) /\ \A z \in RowsOf(r) : sig'[z].step = sig[z].step
            /\ sig'[x].action = action /\ \A z \in RowsOf(r) \ {x} : sig'[z] = sig[z]
        BY <2>5, <2>6, <2>8, <3>1, <3>4 DEF RowsOf
      <4>2. CASE target = "REJECTED"
        BY <2>2, <3>1, <4>1, <4>2 DEF Chained, InChain, Awaiting
      <4>3. CASE target # "REJECTED"
        <5>1. target = "APPROVED" /\ At(target) = k + 1 /\ At(target) = 5
          BY <1>1, <3>2, <3>4, <4>3, NextStatusType DEF At
        <5> QED
          BY <2>2, <3>1, <3>2, <3>3, <4>1, <4>3, <5>1 DEF Chained
      <4> QED
        BY <4>2, <4>3
    <3>5. CASE target \in Awaiting
      <4>1. PICK y \in SigIds : sig[y].state = "absent" /\ sig' = [s EXCEPT ![y] = row]
        BY <2>8, <3>5
      <4>2. /\ RowsOf(r)' = RowsOf(r) \cup {y} /\ y \notin RowsOf(r)
            /\ \A z \in RowsOf(r) : sig'[z].step = sig[z].step
            /\ sig'[x].action = action /\ \A z \in RowsOf(r) \ {x} : sig'[z] = sig[z]
            /\ sig'[y] = row
        BY <2>5, <2>6, <2>7, <3>1, <4>1 DEF RowsOf
      <4>3. /\ target = NextStatus(status[r]) /\ action = "APPROVED" /\ At(target) = k + 1
            /\ At(target) = Step(target) /\ At(target) \in 1 .. 4
        BY <1>1, <3>2, <3>5, AtType DEF Awaiting
      <4>4. \A z \in RowsOf(r) : /\ First(r) <= sig'[z].step /\ sig'[z].step <= k
                                /\ sig'[z].action = "APPROVED"
        BY <3>1, <3>3, <4>2, <4>3 DEF Chained
      <4>5. First(r) <= k /\ sig'[y].step = k + 1 /\ sig'[y].action = "NONE" /\ k + 1 \in 1 .. 4
        BY <2>7, <3>1, <3>3, <4>2, <4>3 DEF Chained
      <4>6. status'[r] = target /\ target \in InChain
            /\ target \notin {"PENDING", "NONE", "DRAFT", "CANCELLED"}
        BY <2>2, <3>5 DEF InChain, Awaiting
      <4>7. \A z1, z2 \in RowsOf(r)' : sig'[z1].step = sig'[z2].step => z1 = z2
        <5>1. \A z1, z2 \in RowsOf(r) : sig'[z1].step = sig'[z2].step => z1 = z2
          BY <3>1, <4>2 DEF Chained
        <5>2. \A z \in RowsOf(r) : sig'[z].step # sig'[y].step
          BY <3>2, <3>3, <4>2, <4>4, <4>5
        <5> QED
          BY <4>2, <5>1, <5>2
      <4>8. \A z \in RowsOf(r)' :
              /\ First(r) <= sig'[z].step /\ sig'[z].step <= k + 1
              /\ sig'[z].action = IF sig'[z].step = k + 1 THEN "NONE" ELSE "APPROVED"
        <5>1. First(r) \in {1, 4} /\ \A z \in RowsOf(r) : sig'[z].step \in 0 .. 4
          BY <3>3, <4>2 DEF First
        <5> QED
          BY <3>2, <4>2, <4>4, <4>5, <5>1
      <4>9. \A j \in 1 .. 4 : First(r) <= j /\ j <= k + 1 => \E z \in RowsOf(r)' : sig'[z].step = j
        <5> SUFFICES ASSUME NEW j \in 1 .. 4, First(r) <= j, j <= k + 1
                     PROVE  \E z \in RowsOf(r)' : sig'[z].step = j
          OBVIOUS
        <5>1. CASE j = k + 1
          BY <4>2, <4>5, <5>1
        <5>2. CASE j # k + 1
          <6>1. j <= k
            BY <3>2, <5>2
          <6>2. PICK z \in RowsOf(r) : sig[z].step = j
            BY <3>1, <6>1 DEF Chained
          <6> QED
            BY <4>2, <6>2
        <5> QED
          BY <5>1, <5>2
      <4> HIDE DEF k
      <4> QED
        BY <3>1, <4>3, <4>6, <4>7, <4>8, <4>9 DEF Chained
    <3> QED
      BY <3>4, <3>5
  <2> QED
    BY <1>1, <2>2, <2>3, <2>9, <2>10, SignedMoves
<1> QED
  BY <1>2, <1>3

LEMMA NextSigned == TurnInv /\ SigInv /\ [Next]_vars => SigInv'
<1> SUFFICES ASSUME TurnInv, SigInv, [Next]_vars PROVE SigInv'
  OBVIOUS
<1>1. ASSUME NEW p \in Sessions, Continue(p) PROVE SigInv'
  BY <1>1, DraftSigned, SubmitSigned, CancelSigned, ApproveSigned, FindSigned, SignSigned,
     RetireSigned, ResubmitSigned DEF Continue
<1>2. ASSUME NEW p \in Sessions, Abort(p) PROVE SigInv'
  BY <1>2, RollbackSigned DEF Abort
<1>3. CASE UNCHANGED vars
  <2>1. \A r : Same(r) /\ First(r)' = First(r)
    BY <1>3, RowsUntouched DEF Same, First, vars
  <2>2. \A r \in Requests \ Legacy : Chained(r)'
    BY <2>1, SameIsChained DEF SigInv
  <2>3. ASSUME NEW p \in Sessions PROVE Reads(p)'
    <3>1. Reads(p) /\ tx'[p] = tx[p]
      BY <1>3 DEF SigInv, vars
    <3> QED
      BY <2>1, <3>1 DEF Reads, Same
  <2> QED
    BY <2>2, <2>3 DEF SigInv
<1> QED
  BY <1>1, <1>2, <1>3, BeginSigned, CreateSigned DEF Next

LEMMA InitSigned == Init => SigInv
<1> SUFFICES ASSUME Init PROVE SigInv
  OBVIOUS
<1>1. \A r : RowsOf(r) = {}
  BY DEF Init, RowsOf, NoSig
<1>2. \A r \in Requests \ Legacy : status[r] = "NONE"
  BY DEF Init
<1>3. \A p \in Sessions : tx[p].pc = "idle"
  BY DEF Init, Idle
<1> QED
  BY <1>1, <1>2, <1>3 DEF SigInv, Chained, Reads, InChain, Awaiting

LEMMA ChainedAgrees == TypeOK /\ SigInv => SignaturesAgree
<1> SUFFICES ASSUME TypeOK, SigInv, NEW r \in Requests \ Legacy
             PROVE  LET first == IF r \in oficio THEN 1 ELSE 4 IN
                    /\ \A k \in 1 .. 4 : Cardinality(RowsAt(r, k)) <= 1
                    /\ status[r] \in {"DRAFT", "CANCELLED"} => RowsOf(r) = {}
                    /\ status[r] \in InChain =>
                         /\ \A k \in Behind(r) : k >= first =>
                                \E x \in RowsAt(r, k) : sig[x].action = "APPROVED"
                         /\ \A x \in RowsOf(r) : sig[x].step >= first
                    /\ status[r] \in Awaiting =>
                         \A x \in RowsOf(r) :
                            sig[x].action = IF sig[x].step = Step(status[r]) THEN "NONE"
                                            ELSE "APPROVED"
  BY DEF SignaturesAgree, InChain
<1>1. Chained(r) /\ \A x \in RowsOf(r) : sig[x].step \in 0 .. 4
  BY DEF SigInv, RowsOf, TypeOK, Signatures
<1>2. ASSUME NEW k \in 1 .. 4 PROVE Cardinality(RowsAt(r, k)) <= 1
  <2>1. CASE RowsAt(r, k) = {}
    BY <2>1, FS_EmptySet
  <2>2. CASE RowsAt(r, k) # {}
    <3>1. PICK x : x \in RowsAt(r, k)
      BY <2>2
    <3>2. RowsAt(r, k) = {x}
      BY <1>1, <3>1 DEF Chained, RowsAt
    <3>3. Cardinality({x}) = 1
      BY FS_Singleton
    <3> QED
      BY <3>2, <3>3
  <2> QED
    BY <2>1, <2>2
<1>3. ASSUME status[r] \in InChain
      PROVE  /\ First(r) \in {1, 4} /\ At(status[r]) \in 1 .. 5
             /\ \A k \in Behind(r) : k \in 1 .. 4 /\ k < At(status[r])
  <2>1. CASE status[r] \in Awaiting
    <3>1. Behind(r) = 1 .. Step(status[r]) - 1
      BY <2>1 DEF Behind, Awaiting
    <3>2. At(status[r]) = Step(status[r]) /\ At(status[r]) \in 1 .. 4
      BY <2>1, AtType
    <3>3. First(r) \in {1, 4}
      BY DEF First
    <3> QED
      BY <3>1, <3>2, <3>3
  <2>2. CASE status[r] = "APPROVED"
    BY <2>2 DEF First, Behind, At, Awaiting
  <2> QED
    BY <1>3, <2>1, <2>2 DEF InChain
<1>4. ASSUME status[r] \in InChain, NEW k \in Behind(r), k >= First(r)
      PROVE  \E x \in RowsAt(r, k) : sig[x].action = "APPROVED"
  <2>1. k \in 1 .. 4 /\ k < At(status[r]) /\ First(r) <= k /\ k <= At(status[r])
    BY <1>3, <1>4
  <2>2. PICK x \in RowsOf(r) : sig[x].step = k
    BY <1>1, <1>4, <2>1 DEF Chained
  <2>3. sig[x].action = "APPROVED"
    BY <1>1, <1>3, <1>4, <2>1, <2>2 DEF Chained
  <2> QED
    BY <2>2, <2>3 DEF RowsAt
<1>5. ASSUME status[r] \in InChain, NEW x \in RowsOf(r) PROVE sig[x].step >= First(r)
  BY <1>1, <1>3, <1>5 DEF Chained
<1>6. ASSUME status[r] \in Awaiting, NEW x \in RowsOf(r)
      PROVE  sig[x].action = IF sig[x].step = Step(status[r]) THEN "NONE" ELSE "APPROVED"
  BY <1>1, <1>6, AtType DEF Chained, InChain
<1>7. status[r] \in {"DRAFT", "CANCELLED"} => RowsOf(r) = {}
  BY <1>1 DEF Chained
<1> QED
  BY <1>2, <1>4, <1>5, <1>6, <1>7 DEF First

\* With one session at a time on a request, its signatures tell how far it is: one for
\* each step of its flow up to the present one, approved but the last, whatever was
\* rejected and submitted again before.
THEOREM SignaturesAgreeHolds == Turns => (Spec => []SignaturesAgree)
<1> SUFFICES ASSUME Turns PROVE Spec => []SignaturesAgree
  OBVIOUS
<1>1. TurnInv /\ [Next]_vars => TurnInv'
  BY NextTurn
<1>2. TurnInv => TypeOK
  BY DEF TurnInv, RowInv
<1> QED
  BY <1>1, <1>2, InitTurn, InitSigned, NextSigned, ChainedAgrees, PTL DEF Spec

=============================================================================
