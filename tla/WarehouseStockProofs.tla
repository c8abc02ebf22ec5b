------------------------ MODULE WarehouseStockProofs ------------------------
(***************************************************************************)
(* WarehouseStock for every number of lots, tickets and sessions.  First   *)
(* what holds whatever runs at once: types (no lot ever holds less than    *)
(* zero units), and that a consumption works on current rows.  Then, when  *)
(* only consumptions overlap, that no update is lost, that what the        *)
(* tickets hold has a lot to go back to, and that the lots implement the   *)
(* account of the product; for these two, lemmas about sums.  Last, that   *)
(* the loop of consume takes first in, first out.                          *)
(***************************************************************************)
EXTENDS WarehouseStock, FifoLoop, FiniteSetTheorems, NaturalsInduction, WellFoundedInduction, TLAPS

-----------------------------------------------------------------------------
(* Lemmas about plans, sessions and what they write.                        *)

LEMMA NoLotType == NoLot \in LotRows
BY StockBounds DEF NoLot, LotRows

LEMMA IdleType == Idle \in Transactions
BY NoLotType DEF Idle, Transactions, Materials

\* A plan takes from a row that was read, no more than was read there.
LEMMA PlanBounds ==
    ASSUME NEW rows \in SUBSET Lots, NEW seen \in [Lots -> LotRows], NEW qty \in Nat,
           NEW take \in Plans(rows, seen, qty), NEW e \in Lots
    PROVE  /\ take[e] \in Nat
           /\ e \in rows => take[e] <= seen[e].remaining
           /\ e \notin rows => take[e] = 0
<1> DEFINE units == [d \in Lots |-> seen[d].remaining]
<1>1. DOMAIN units = Lots
  OBVIOUS
<1>2. /\ take \in [Lots -> 0 .. qty]
      /\ \A d \in Lots : take[d] <= IF d \in rows THEN units[d] ELSE 0
  BY <1>1 DEF Plans, FifoTakes
<1>3. take[e] \in 0 .. qty /\ take[e] <= IF e \in rows THEN seen[e].remaining ELSE 0
  BY <1>2
<1> QED
  BY <1>3

\* The UPDATE of a plan keeps every lot well typed, and its movements are numbers.
LEMMA TakeType ==
    ASSUME TypeOK, NEW rows \in SUBSET Lots, NEW seen \in [Lots -> LotRows], NEW qty \in Nat,
           NEW take \in Plans(rows, seen, qty)
    PROVE  TakeFrom(seen, take) \in [Lots -> LotRows]
<1>1. ASSUME NEW e \in Lots PROVE TakeFrom(seen, take)[e] \in LotRows
  <2>1. lot[e] \in LotRows /\ seen[e] \in LotRows
    BY <1>1 DEF TypeOK
  <2>2. CASE take[e] = 0
    BY <2>1, <2>2 DEF TakeFrom
  <2>3. CASE take[e] # 0
    <3>1. /\ take[e] \in Nat /\ take[e] <= seen[e].remaining
      BY <2>3, PlanBounds
    <3>2. seen[e].remaining - take[e] \in Nat
      BY <2>1, <3>1 DEF LotRows
    <3>3. TakeFrom(seen, take)[e] =
            [lot[e] EXCEPT !.remaining = seen[e].remaining - take[e],
                           !.exhausted = @ \/ seen[e].remaining = take[e]]
      BY <2>3 DEF TakeFrom
    <3>4. (lot[e].exhausted \/ seen[e].remaining = take[e]) \in BOOLEAN
      OBVIOUS
    <3> QED
      BY <2>1, <3>2, <3>3, <3>4 DEF LotRows
  <2> QED
    BY <2>2, <2>3
<1>2. TakeFrom(seen, take) = [e \in Lots |-> TakeFrom(seen, take)[e]]
  BY DEF TakeFrom
<1> QED
  BY <1>1, <1>2

LEMMA MovementType ==
    ASSUME TypeOK, NEW rows \in SUBSET Lots, NEW seen \in [Lots -> LotRows], NEW qty \in Nat,
           NEW take \in Plans(rows, seen, qty), ledger' = [e \in Lots |-> ledger[e] - take[e]]
    PROVE  ledger' \in [Lots -> Int]
<1>1. ASSUME NEW e \in Lots PROVE ledger[e] - take[e] \in Int
  <2>1. take[e] \in Nat /\ ledger[e] \in Int
    BY PlanBounds DEF TypeOK
  <2> QED
    BY <2>1
<1> QED
  BY <1>1

LEMMA FinishType ==
    ASSUME TypeOK, NEW p \in Sessions, Finish(p)
    PROVE  /\ tx' \in [Sessions -> Transactions]
           /\ rowLock' \in [Lots -> Sessions \cup {NoSession}]
           /\ active' \in BOOLEAN /\ starts' \in Nat
BY IdleType DEF TypeOK, Finish

LEMMA RollbackType == ASSUME TypeOK, NEW p \in Sessions, Rollback(p) PROVE TypeOK'
BY FinishType DEF TypeOK, Rollback

LEMMA AdvanceType ==
    ASSUME TypeOK, NEW p \in Sessions, NEW t \in Transactions, Advance(p, t) PROVE TypeOK'
BY DEF TypeOK, Advance

LEMMA StartType ==
    ASSUME TypeOK, NEW p \in Sessions, NEW kind \in {"consume", "return", "out", "void"},
           NEW t \in Transactions, Start(p, kind, t)
    PROVE  TypeOK'
<1>1. [t EXCEPT !.kind = kind] \in Transactions
  BY DEF Transactions
<1> QED
  BY <1>1 DEF TypeOK, Start

-----------------------------------------------------------------------------
(* Type correctness.                                                        *)

LEMMA InitType == Init => TypeOK
BY NoLotType, IdleType DEF Init, TypeOK, Materials

LEMMA StoreType ==
    ASSUME TypeOK, NEW e \in Lots, NEW n \in Nat, NEW d \in Dates, Store(e, n, d) PROVE TypeOK'
<1>1. [stored |-> TRUE, original |-> n, remaining |-> n, exhausted |-> FALSE,
       voided |-> FALSE, date |-> d] \in LotRows
  BY DEF LotRows
<1> QED
  BY <1>1 DEF TypeOK, Store

LEMMA BeginType == ASSUME TypeOK, NEW p \in Sessions, Begin(p) PROVE TypeOK'
<1>1. ASSUME NEW n \in Quantities, BeginAdjustOut(p, n) PROVE TypeOK'
  <2> DEFINE t == [Idle EXCEPT !.pc = "write", !.qty = n, !.rows = Available, !.seen = lot]
  <2>1. n \in Nat
    BY StockBounds DEF Quantities
  <2>2. t \in Transactions
    BY <2>1, IdleType DEF TypeOK, Transactions, Available
  <2> QED
    BY <1>1, <2>2, StartType DEF BeginAdjustOut
<1>2. ASSUME NEW n \in Quantities, NEW k \in Tickets, BeginConsume(p, k, n) PROVE TypeOK'
  <2> DEFINE t == [Idle EXCEPT !.pc = "lock", !.ticket = {k}, !.qty = n, !.rows = Available]
  <2>1. n \in Nat
    BY StockBounds DEF Quantities
  <2>2. t \in Transactions
    BY <2>1, IdleType DEF Transactions, Available
  <2> QED
    BY <1>2, <2>2, StartType DEF BeginConsume
<1>3. ASSUME NEW k \in Tickets, BeginReturn(p, k) PROVE TypeOK'
  <2> DEFINE t == [Idle EXCEPT !.pc = "latest", !.ticket = {k}, !.mat = material[k]]
  <2>1. t \in Transactions
    BY IdleType DEF TypeOK, Transactions
  <2> QED
    BY <1>3, <2>1, StartType DEF BeginReturn
<1>4. ASSUME NEW e \in Lots, BeginVoid(p, e) PROVE TypeOK'
  <2> DEFINE t == [Idle EXCEPT !.pc = "write", !.rows = {e}, !.seen[e] = lot[e]]
  <2>1. t \in Transactions
    BY IdleType DEF TypeOK, Transactions
  <2> QED
    BY <1>4, <2>1, StartType DEF BeginVoid
<1> QED
  BY <1>1, <1>2, <1>3, <1>4 DEF Begin

LEMMA LockLotsType == ASSUME TypeOK, NEW p \in Sessions, LockLots(p) PROVE TypeOK'
<1> DEFINE t == tx[p]
<1>1. t \in Transactions
  BY DEF TypeOK
<1>2. ASSUME NEW e \in Lots, rowLock' = [rowLock EXCEPT ![e] = p],
             tx' = [tx EXCEPT ![p].rows = IF e \in Available THEN @ ELSE @ \ {e},
                              ![p].seen[e] = lot[e]],
             UNCHANGED <<lot, material, ledger, billed, active, starts>>
      PROVE  TypeOK'
  <2> DEFINE rows == IF e \in Available THEN t.rows ELSE t.rows \ {e}
             seen == [t.seen EXCEPT ![e] = lot[e]]
  <2>1. rows \in SUBSET Lots /\ seen \in [Lots -> LotRows]
    BY <1>1 DEF TypeOK, Transactions
  <2>2. tx' = [tx EXCEPT ![p] = [t EXCEPT !.rows = rows, !.seen = seen]]
    BY <1>2 DEF TypeOK, Transactions
  <2> HIDE DEF rows, seen
  <2>3. [t EXCEPT !.rows = rows, !.seen = seen] \in Transactions
    BY <1>1, <2>1 DEF Transactions
  <2> QED
    BY <1>2, <2>2, <2>3 DEF TypeOK
<1>3. ASSUME NEW k \in t.ticket, Advance(p, [t EXCEPT !.pc = "write", !.mat = material[k]])
      PROVE  TypeOK'
  <2>1. material[k] \in Materials
    BY <1>1 DEF TypeOK, Transactions
  <2>2. [t EXCEPT !.pc = "write", !.mat = material[k]] \in Transactions
    BY <1>1, <2>1 DEF Transactions
  <2> QED
    BY <1>3, <2>2, AdvanceType
<1>4. t.rows \subseteq Lots
  BY <1>1 DEF Transactions
<1> QED
  BY <1>2, <1>3, <1>4, RollbackType DEF LockLots

LEMMA CommitConsumeType == ASSUME TypeOK, NEW p \in Sessions, CommitConsume(p) PROVE TypeOK'
<1> DEFINE t == tx[p]
<1>1. t \in Transactions
  BY DEF TypeOK
<1>2. PICK k \in t.ticket, take \in Plans(t.rows, t.seen, t.qty) :
        \/ Rollback(p)
        \/ /\ lot' = TakeFrom(t.seen, take)
           /\ ledger' = [e \in Lots |-> ledger[e] - take[e]]
           /\ material' = [material EXCEPT ![k].used = Accumulated(t.mat, t.qty)]
           /\ billed' = [billed EXCEPT ![k] = @ + t.qty]
           /\ Finish(p)
  BY DEF CommitConsume
<1>3. /\ t.rows \in SUBSET Lots /\ t.seen \in [Lots -> LotRows] /\ t.qty \in Nat
      /\ t.mat \in Materials /\ k \in Tickets
  BY <1>1 DEF Transactions
<1>4. Accumulated(t.mat, t.qty) \in Nat
  BY <1>3 DEF Accumulated, Materials
<1>5. TakeFrom(t.seen, take) \in [Lots -> LotRows]
  BY <1>3, TakeType
<1>8. ledger' = [e \in Lots |-> ledger[e] - take[e]] => ledger' \in [Lots -> Int]
  BY <1>3, MovementType
<1>6. [material EXCEPT ![k].used = Accumulated(t.mat, t.qty)] \in [Tickets -> Materials]
  BY <1>3, <1>4 DEF TypeOK, Materials
<1>7. [billed EXCEPT ![k] = @ + t.qty] \in [Tickets -> Int]
  BY <1>3 DEF TypeOK
<1> QED
  BY <1>2, <1>5, <1>6, <1>7, <1>8, FinishType, RollbackType DEF TypeOK

LEMMA ReadLatestType == ASSUME TypeOK, NEW p \in Sessions, ReadLatest(p) PROVE TypeOK'
<1> DEFINE t == tx[p]
<1>1. t \in Transactions
  BY DEF TypeOK
<1>2. [t EXCEPT !.pc = "write"] \in Transactions
  BY <1>1 DEF Transactions
<1>3. ASSUME NEW e \in Lots
      PROVE  [t EXCEPT !.pc = "write", !.rows = {e}, !.seen[e] = lot[e]] \in Transactions
  <2>1. [t.seen EXCEPT ![e] = lot[e]] \in [Lots -> LotRows]
    BY <1>1 DEF TypeOK, Transactions
  <2> QED
    BY <1>1, <2>1 DEF Transactions
<1>4. LiveLots \subseteq Lots
  BY DEF LiveLots
<1> QED
  BY <1>2, <1>3, <1>4, AdvanceType DEF ReadLatest

LEMMA CommitReturnType == ASSUME TypeOK, NEW p \in Sessions, CommitReturn(p) PROVE TypeOK'
<1> DEFINE t == tx[p]
           row(e) == [lot[e] EXCEPT !.remaining = t.seen[e].remaining + t.mat.used,
                                    !.exhausted = Reopened(@, t.seen[e].exhausted)]
<1>1. t \in Transactions
  BY DEF TypeOK
<1>2. ASSUME NEW e \in Lots PROVE row(e) \in LotRows
  <2>1. lot[e] \in LotRows /\ t.seen[e] \in LotRows /\ t.mat \in Materials
    BY <1>1 DEF TypeOK, Transactions
  <2>2. /\ t.seen[e].remaining + t.mat.used \in Nat
        /\ Reopened(lot[e].exhausted, t.seen[e].exhausted) \in BOOLEAN
    BY <2>1 DEF LotRows, Materials, Reopened
  <2> QED
    BY <2>1, <2>2 DEF LotRows
<1>3. t.mat \in Materials /\ t.mat.used \in Nat /\ t.mat.id \in Nat
  BY <1>1 DEF Transactions, Materials
<1>4. lot' = [e \in Lots |-> IF e \in t.rows THEN row(e) ELSE lot[e]]
  BY DEF CommitReturn
<1> HIDE DEF row
<1>5. lot' \in [Lots -> LotRows]
  BY <1>2, <1>4 DEF TypeOK
<1>6. ledger' \in [Lots -> Int] /\ billed' \in [Tickets -> Int]
  <2>1. /\ \A e \in Lots : ledger[e] + t.mat.used \in Int
        /\ \A k \in Tickets : billed[k] - t.mat.used \in Int
    BY <1>3 DEF TypeOK
  <2>2. ledger' = [e \in Lots |-> IF e \in t.rows THEN ledger[e] + t.mat.used ELSE ledger[e]]
    BY DEF CommitReturn
  <2>3. billed' = [k \in Tickets |-> IF k \in t.ticket /\ t.rows # {}
                                     THEN billed[k] - t.mat.used ELSE billed[k]]
    BY DEF CommitReturn
  <2> HIDE DEF t
  <2>4. ledger' \in [Lots -> Int]
    BY <2>1, <2>2 DEF TypeOK
  <2>5. billed' \in [Tickets -> Int]
    BY <2>1, <2>3 DEF TypeOK
  <2> QED
    BY <2>4, <2>5
<1>7. material' \in [Tickets -> Materials]
  <2>1. [id |-> t.mat.id + 1, used |-> 0] \in Materials
    BY <1>3 DEF Materials
  <2>2. material' = [k \in Tickets |->
                      IF k \in t.ticket /\ material[k].id = t.mat.id
                      THEN [id |-> t.mat.id + 1, used |-> 0] ELSE material[k]]
    BY DEF CommitReturn
  <2> HIDE DEF t
  <2> QED
    BY <2>1, <2>2 DEF TypeOK
<1>8. /\ tx' \in [Sessions -> Transactions]
      /\ rowLock' \in [Lots -> Sessions \cup {NoSession}]
      /\ active' \in BOOLEAN /\ starts' \in Nat
  <2>1. Finish(p)
    BY DEF CommitReturn
  <2> QED
    BY <2>1, FinishType
<1> QED
  BY <1>5, <1>6, <1>7, <1>8 DEF TypeOK

LEMMA CommitAdjustOutType == ASSUME TypeOK, NEW p \in Sessions, CommitAdjustOut(p) PROVE TypeOK'
<1> DEFINE t == tx[p]
<1>1. t.rows \in SUBSET Lots /\ t.seen \in [Lots -> LotRows] /\ t.qty \in Nat
  BY DEF TypeOK, Transactions
<1>2. PICK take \in Plans(t.rows, t.seen, t.qty) :
        /\ lot' = TakeFrom(t.seen, take)
        /\ ledger' = [e \in Lots |-> ledger[e] - take[e]]
  BY DEF CommitAdjustOut
<1>3. TakeFrom(t.seen, take) \in [Lots -> LotRows]
  BY <1>1, TakeType
<1>4. ledger' \in [Lots -> Int]
  BY <1>1, <1>2, MovementType
<1>5. Finish(p) /\ UNCHANGED <<material, billed>>
  BY DEF CommitAdjustOut
<1> QED
  BY <1>2, <1>3, <1>4, <1>5, FinishType DEF TypeOK

LEMMA CommitVoidType == ASSUME TypeOK, NEW p \in Sessions, CommitVoid(p) PROVE TypeOK'
<1> DEFINE t == tx[p]
<1>1. t.seen \in [Lots -> LotRows]
  BY DEF TypeOK, Transactions
<1>2. ASSUME NEW e \in Lots PROVE [lot[e] EXCEPT !.voided = TRUE] \in LotRows
  BY DEF TypeOK, LotRows
<1>3. lot' \in [Lots -> LotRows]
  BY <1>2 DEF CommitVoid, TypeOK
<1>4. ledger' \in [Lots -> Int]
  BY <1>1 DEF CommitVoid, TypeOK, LotRows
<1> QED
  BY <1>3, <1>4, FinishType DEF TypeOK, CommitVoid

LEMMA NextType == TypeOK /\ [Next]_vars => TypeOK'
<1> SUFFICES ASSUME TypeOK, [Next]_vars PROVE TypeOK'
  OBVIOUS
<1>1. ASSUME NEW p \in Sessions, Continue(p) PROVE TypeOK'
  BY <1>1, LockLotsType, CommitConsumeType, ReadLatestType, CommitReturnType,
     CommitAdjustOutType, CommitVoidType, RollbackType DEF Continue, DeadlockVictim
<1>2. ASSUME NEW e \in Lots, NEW n \in Quantities, NEW d \in Dates,
             AdjustIn(e, n) \/ RegisterEntry(e, n, d)
      PROVE  TypeOK'
  BY <1>2, StoreType, StockBounds DEF AdjustIn, RegisterEntry, Quantities
<1>3. CASE Deactivate
  BY <1>3 DEF Deactivate, TypeOK
<1>4. CASE UNCHANGED vars
  BY <1>4 DEF vars, TypeOK
<1> QED
  BY <1>1, <1>2, <1>3, <1>4, BeginType, RollbackType, StockBounds DEF Next, Abort

\* Types, of which the one that matters is that the remaining units of a lot are a
\* natural number: whatever handlers run at once, no lot is ever overdrawn.
THEOREM StockTypeCorrect == Spec => []TypeOK
BY InitType, NextType, PTL DEF Spec

-----------------------------------------------------------------------------
(* A consumption works on current rows, whatever runs beside it: what it    *)
(* has locked nobody writes, and what it has not locked it does not use.    *)

\* What a session's kind says of where it stands; row locks belong to consumptions.
Shape ==
    /\ \A p \in Sessions : /\ tx[p].kind = "none" <=> tx[p].pc = "idle"
                           /\ tx[p].pc = "lock" => tx[p].kind = "consume"
                           /\ tx[p].pc = "latest" => tx[p].kind = "return"
    /\ \A e \in Lots : rowLock[e] # NoSession => tx[rowLock[e]].kind = "consume"

\* The rows of a consumption exist; those it has locked are as it read them, and it
\* has locked all of them once it writes.
Current(p) ==
    tx[p].kind = "consume" =>
        \A e \in tx[p].rows :
            /\ lot[e].stored
            /\ tx[p].pc = "write" => rowLock[e] = p
            /\ rowLock[e] = p => tx[p].seen[e] = lot[e] /\ ~lot[e].voided

LockInv == TypeOK /\ Shape /\ \A p \in Sessions : Current(p)

\* A step of p changes no row another session has locked.
LEMMA OthersStayCurrent ==
    ASSUME LockInv, NEW p \in Sessions, NEW q \in Sessions \ {p}, tx'[q] = tx[q],
           \A e \in Lots : \/ lot'[e] = lot[e]
                           \/ lot'[e].stored = lot[e].stored /\ rowLock[e] \in {p, NoSession},
           \A e \in Lots : \/ rowLock'[e] = rowLock[e]
                           \/ {rowLock[e], rowLock'[e]} \subseteq {p, NoSession}
    PROVE  Current(q)'
<1>1. Current(q) /\ tx[q].rows \subseteq Lots /\ q # NoSession
  BY StockNames DEF LockInv, TypeOK, Transactions
<1> QED
  BY <1>1 DEF Current

LEMMA FinishLock ==
    ASSUME LockInv, NEW p \in Sessions, Finish(p), TypeOK',
           \A e \in Lots : \/ lot'[e] = lot[e]
                           \/ lot'[e].stored = lot[e].stored /\ rowLock[e] \in {p, NoSession}
    PROVE  LockInv'
<1>1. /\ tx' = [tx EXCEPT ![p] = Idle]
      /\ rowLock' = [e \in Lots |-> IF rowLock[e] = p THEN NoSession ELSE rowLock[e]]
  BY DEF Finish
<1>2. tx'[p] = Idle /\ \A q \in Sessions \ {p} : tx'[q] = tx[q]
  BY <1>1 DEF LockInv, TypeOK
<1>3. \A e \in Lots : rowLock'[e] = IF rowLock[e] = p THEN NoSession ELSE rowLock[e]
  BY <1>1
<1>4. \A e \in Lots : rowLock[e] \in Sessions \cup {NoSession}
  BY DEF LockInv, TypeOK
<1>5. Shape'
  BY <1>2, <1>3, <1>4 DEF LockInv, Shape, Idle
<1>6. Current(p)'
  BY <1>2 DEF Current, Idle
<1>7. ASSUME NEW q \in Sessions \ {p} PROVE Current(q)'
  BY <1>2, <1>3, <1>7, OthersStayCurrent
<1> QED
  BY <1>5, <1>6, <1>7 DEF LockInv

LEMMA RollbackLock == ASSUME LockInv, NEW p \in Sessions, Rollback(p) PROVE LockInv'
BY FinishLock, RollbackType DEF LockInv, Rollback

\* A step that changes only where session p stands.
LEMMA MoveLock ==
    ASSUME LockInv, TypeOK', NEW p \in Sessions, NEW t, tx' = [tx EXCEPT ![p] = t],
           UNCHANGED <<lot, rowLock>>,
           t.kind = "none" <=> t.pc = "idle",
           t.pc = "lock" => t.kind = "consume", t.pc = "latest" => t.kind = "return",
           tx[p].kind = "consume" => t.kind = "consume",
           Current(p)'
    PROVE  LockInv'
<1>1. tx'[p] = t /\ \A q \in Sessions \ {p} : tx'[q] = tx[q]
  BY DEF LockInv, TypeOK
<1>2. \A e \in Lots : rowLock[e] \in Sessions \cup {NoSession}
  BY DEF LockInv, TypeOK
<1>3. Shape'
  BY <1>1, <1>2 DEF LockInv, Shape
<1>4. ASSUME NEW q \in Sessions \ {p} PROVE Current(q)'
  BY <1>1, <1>4, OthersStayCurrent
<1> QED
  BY <1>3, <1>4 DEF LockInv

LEMMA InitLock == Init => LockInv
BY InitType DEF Init, LockInv, Shape, Current, Idle

LEMMA StartLock ==
    ASSUME LockInv, TypeOK', NEW p \in Sessions, NEW kind \in {"consume", "return", "out", "void"},
           NEW t \in Transactions, t.pc \in {"lock", "write", "latest"}, Start(p, kind, t),
           t.pc = "lock" <=> kind = "consume", t.pc = "latest" => kind = "return",
           kind = "consume" => t.rows = Available
    PROVE  LockInv'
<1> DEFINE u == [t EXCEPT !.kind = kind]
<1>1. u.kind = kind /\ u.pc = t.pc /\ u.rows = t.rows
  BY DEF Transactions
<1>2. tx' = [tx EXCEPT ![p] = u] /\ UNCHANGED <<lot, rowLock>> /\ tx[p].pc = "idle"
  BY DEF Start
<1> HIDE DEF u
<1>3. tx'[p] = u
  BY <1>2 DEF LockInv, TypeOK
<1>4. \A e \in Lots : rowLock[e] # p
  BY <1>2, StockNames DEF LockInv, Shape
<1>5. Current(p)'
  BY <1>1, <1>2, <1>3, <1>4 DEF Current, Available
<1>6. tx[p].kind = "none"
  BY <1>2 DEF LockInv, Shape
<1> QED
  BY <1>1, <1>2, <1>5, <1>6, MoveLock

LEMMA BeginLock == ASSUME LockInv, NEW p \in Sessions, Begin(p) PROVE LockInv'
<1>0. TypeOK /\ TypeOK'
  BY BeginType DEF LockInv
<1>1. ASSUME NEW n \in Quantities, BeginAdjustOut(p, n) PROVE LockInv'
  <2> DEFINE t == [Idle EXCEPT !.pc = "write", !.qty = n, !.rows = Available, !.seen = lot]
  <2>1. t \in Transactions
    <3>1. n \in Nat
      BY StockBounds DEF Quantities
    <3> QED
      BY <1>0, <3>1, IdleType DEF TypeOK, Transactions, Available
  <2>2. t.pc = "write"
    BY DEF Idle
  <2>3. Start(p, "out", t)
    BY <1>1 DEF BeginAdjustOut
  <2> HIDE DEF t
  <2> QED
    BY <1>0, <2>1, <2>2, <2>3, StartLock
<1>2. ASSUME NEW n \in Quantities, NEW k \in Tickets, BeginConsume(p, k, n) PROVE LockInv'
  <2> DEFINE t == [Idle EXCEPT !.pc = "lock", !.ticket = {k}, !.qty = n, !.rows = Available]
  <2>1. t \in Transactions
    <3>1. n \in Nat
      BY StockBounds DEF Quantities
    <3> QED
      BY <3>1, IdleType DEF Transactions, Available
  <2>2. t.pc = "lock" /\ t.rows = Available
    BY DEF Idle
  <2>3. Start(p, "consume", t)
    BY <1>2 DEF BeginConsume
  <2> HIDE DEF t
  <2> QED
    BY <1>0, <2>1, <2>2, <2>3, StartLock
<1>3. ASSUME NEW k \in Tickets, BeginReturn(p, k) PROVE LockInv'
  <2> DEFINE t == [Idle EXCEPT !.pc = "latest", !.ticket = {k}, !.mat = material[k]]
  <2>1. t \in Transactions /\ t.pc = "latest"
    BY <1>0, IdleType DEF TypeOK, Transactions, Idle
  <2>2. Start(p, "return", t)
    BY <1>3 DEF BeginReturn
  <2> HIDE DEF t
  <2> QED
    BY <1>0, <2>1, <2>2, StartLock
<1>4. ASSUME NEW e \in Lots, BeginVoid(p, e) PROVE LockInv'
  <2> DEFINE t == [Idle EXCEPT !.pc = "write", !.rows = {e}, !.seen[e] = lot[e]]
  <2>1. t \in Transactions /\ t.pc = "write"
    BY <1>0, IdleType DEF TypeOK, Transactions, Idle
  <2>2. Start(p, "void", t)
    BY <1>4 DEF BeginVoid
  <2> HIDE DEF t
  <2> QED
    BY <1>0, <2>1, <2>2, StartLock
<1> QED
  BY <1>1, <1>2, <1>3, <1>4 DEF Begin

LEMMA LockLotsLock == ASSUME LockInv, NEW p \in Sessions, LockLots(p) PROVE LockInv'
<1> DEFINE t == tx[p]
           wanted == {e \in t.rows : rowLock[e] # p}
<1>0. TypeOK /\ TypeOK' /\ t \in Transactions
  BY LockLotsType DEF LockInv, TypeOK
<1>1. t.pc = "lock" /\ t.kind = "consume" /\ Current(p) /\ t.rows \subseteq Lots /\ p # NoSession
  BY <1>0, StockNames DEF LockInv, Shape, LockLots, Transactions
<1>2. ASSUME NEW e \in wanted, rowLock[e] = NoSession,
             rowLock' = [rowLock EXCEPT ![e] = p],
             tx' = [tx EXCEPT ![p].rows = IF e \in Available THEN @ ELSE @ \ {e},
                              ![p].seen[e] = lot[e]],
             UNCHANGED lot
      PROVE  LockInv'
  <2> DEFINE rows == IF e \in Available THEN t.rows ELSE t.rows \ {e}
  <2>1. /\ tx'[p].rows = rows /\ tx'[p].pc = "lock" /\ tx'[p].kind = "consume"
        /\ tx'[p].seen = [t.seen EXCEPT ![e] = lot[e]]
        /\ \A q \in Sessions \ {p} : tx'[q] = tx[q]
    BY <1>0, <1>1, <1>2 DEF TypeOK, Transactions
  <2>2. e \in Lots /\ t.seen \in [Lots -> LotRows]
    BY <1>0, <1>1 DEF Transactions
  <2>3. rowLock'[e] = p /\ \A d \in Lots \ {e} : rowLock'[d] = rowLock[d]
    BY <1>0, <1>2, <2>2 DEF TypeOK
  <2>4. tx'[p].seen[e] = lot[e] /\ \A d \in Lots \ {e} : tx'[p].seen[d] = t.seen[d]
    BY <2>1, <2>2
  <2>5. Current(p)'
    <3> SUFFICES ASSUME NEW d \in rows
                 PROVE  lot[d].stored /\ (rowLock'[d] = p => tx'[p].seen[d] = lot[d] /\ ~lot[d].voided)
      <4> HIDE DEF rows
      <4> QED
        BY <1>2, <2>1 DEF Current
    <3>1. d \in t.rows /\ d \in Lots
      BY <1>1
    <3>2. CASE d = e
      BY <2>4, <3>1, <3>2 DEF Available
    <3>3. CASE d # e
      BY <1>1, <2>3, <2>4, <3>1, <3>3 DEF Current
    <3> QED
      BY <3>2, <3>3
  <2>6. \A d \in Lots : rowLock[d] \in Sessions \cup {NoSession}
    BY <1>0 DEF TypeOK
  <2>7. Shape'
    BY <2>1, <2>2, <2>3, <2>6 DEF LockInv, Shape
  <2>8. ASSUME NEW q \in Sessions \ {p} PROVE Current(q)'
    <3>1. \A d \in Lots : rowLock'[d] = rowLock[d] \/ {rowLock[d], rowLock'[d]} \subseteq {p, NoSession}
      BY <1>2, <2>2, <2>3
    <3>2. tx'[q] = tx[q] /\ \A d \in Lots : lot'[d] = lot[d]
      BY <1>2, <2>1, <2>8
    <3> QED
      BY <2>8, <3>1, <3>2, OthersStayCurrent
  <2> QED
    BY <1>0, <2>5, <2>7, <2>8 DEF LockInv
<1>3. ASSUME wanted = {}, NEW k \in t.ticket,
             Advance(p, [t EXCEPT !.pc = "write", !.mat = material[k]])
      PROVE  LockInv'
  <2> DEFINE u == [t EXCEPT !.pc = "write", !.mat = material[k]]
  <2>1. u.pc = "write" /\ u.kind = "consume" /\ u.rows = t.rows /\ u.seen = t.seen
    BY <1>0, <1>1 DEF Transactions
  <2>2. tx' = [tx EXCEPT ![p] = u] /\ UNCHANGED <<lot, rowLock>>
    BY <1>3 DEF Advance
  <2> HIDE DEF u
  <2>3. tx'[p] = u
    BY <1>0, <2>2 DEF TypeOK
  <2>4. \A e \in t.rows : rowLock[e] = p
    BY <1>3
  <2>5. Current(p)'
    BY <1>1, <2>1, <2>2, <2>3, <2>4 DEF Current
  <2> QED
    BY <1>0, <2>1, <2>2, <2>5, MoveLock
<1> QED
  BY <1>2, <1>3, RollbackLock DEF LockLots

\* What the UPDATE of a plan leaves alone, and that it deletes nothing.
LEMMA TakeWrites ==
    ASSUME TypeOK, NEW rows \in SUBSET Lots, NEW seen \in [Lots -> LotRows], NEW qty \in Nat,
           NEW take \in Plans(rows, seen, qty), NEW e \in Lots
    PROVE  /\ take[e] \in Nat
           /\ take[e] = 0 => TakeFrom(seen, take)[e] = lot[e]
           /\ take[e] > 0 => /\ TakeFrom(seen, take)[e].remaining = seen[e].remaining - take[e]
                             /\ TakeFrom(seen, take)[e].exhausted
                                  = (lot[e].exhausted \/ seen[e].remaining = take[e])
                             /\ TakeFrom(seen, take)[e].stored = lot[e].stored
                             /\ TakeFrom(seen, take)[e].voided = lot[e].voided
<1>1. take[e] \in Nat
  BY PlanBounds
<1>2. lot[e] \in LotRows
  BY DEF TypeOK
<1> QED
  BY <1>1, <1>2 DEF TakeFrom, LotRows

\* A plan that writes only rows p may write disturbs no locked row of another.
LEMMA TakeHarmless ==
    ASSUME TypeOK, NEW p \in Sessions, NEW rows \in SUBSET Lots,
           NEW seen \in [Lots -> LotRows], NEW qty \in Nat, NEW take \in Plans(rows, seen, qty),
           MayWrite(p, {e \in Lots : take[e] > 0}), lot' = TakeFrom(seen, take)
    PROVE  \A e \in Lots : \/ lot'[e] = lot[e]
                           \/ lot'[e].stored = lot[e].stored /\ rowLock[e] \in {p, NoSession}
<1> SUFFICES ASSUME NEW e \in Lots
             PROVE  \/ lot'[e] = lot[e]
                    \/ lot'[e].stored = lot[e].stored /\ rowLock[e] \in {p, NoSession}
  OBVIOUS
<1>1. take[e] \in Nat
  BY TakeWrites
<1>2. CASE take[e] = 0
  <2>1. TakeFrom(seen, take)[e] = lot[e]
    BY <1>2 DEF TakeFrom
  <2> QED
    BY <2>1
<1>3. CASE take[e] > 0
  <2>1. TakeFrom(seen, take)[e].stored = lot[e].stored
    BY <1>3, TakeWrites
  <2>2. rowLock[e] \in {p, NoSession}
    BY <1>3 DEF MayWrite
  <2> QED
    BY <2>1, <2>2
<1> QED
  BY <1>1, <1>2, <1>3

LEMMA CommitConsumeLock == ASSUME LockInv, NEW p \in Sessions, CommitConsume(p) PROVE LockInv'
<1> DEFINE t == tx[p]
<1>0. TypeOK /\ TypeOK'
  BY CommitConsumeType DEF LockInv
<1>1. t.rows \in SUBSET Lots /\ t.seen \in [Lots -> LotRows] /\ t.qty \in Nat
  BY <1>0 DEF TypeOK, Transactions
<1>2. PICK take \in Plans(t.rows, t.seen, t.qty) :
        /\ MayWrite(p, {e \in Lots : take[e] > 0})
        /\ Rollback(p) \/ (lot' = TakeFrom(t.seen, take) /\ Finish(p))
  BY DEF CommitConsume
<1> HIDE DEF t
<1>3. CASE Rollback(p)
  BY <1>3, RollbackLock
<1>4. CASE lot' = TakeFrom(t.seen, take) /\ Finish(p)
  BY <1>0, <1>1, <1>2, <1>4, TakeHarmless, FinishLock
<1> QED
  BY <1>2, <1>3, <1>4

LEMMA ReadLatestLock == ASSUME LockInv, NEW p \in Sessions, ReadLatest(p) PROVE LockInv'
<1> DEFINE t == tx[p]
<1>0. TypeOK /\ TypeOK' /\ t \in Transactions
  BY ReadLatestType DEF LockInv, TypeOK
<1>1. t.kind = "return" /\ t.pc = "latest"
  BY DEF LockInv, Shape, ReadLatest
<1>2. PICK u : Advance(p, u) /\ u.kind = "return" /\ u.pc = "write"
  <2>1. LET u == [t EXCEPT !.pc = "write"] IN u.kind = "return" /\ u.pc = "write"
    BY <1>0, <1>1 DEF Transactions
  <2>2. ASSUME NEW e
        PROVE  LET u == [t EXCEPT !.pc = "write", !.rows = {e}, !.seen[e] = lot[e]]
               IN  u.kind = "return" /\ u.pc = "write"
    BY <1>0, <1>1 DEF Transactions
  <2> QED
    BY <2>1, <2>2 DEF ReadLatest
<1>3. tx' = [tx EXCEPT ![p] = u] /\ UNCHANGED <<lot, rowLock>>
  BY <1>2 DEF Advance
<1>4. tx'[p] = u
  BY <1>0, <1>3 DEF TypeOK
<1>5. Current(p)'
  BY <1>2, <1>4 DEF Current
<1> QED
  BY <1>0, <1>1, <1>2, <1>3, <1>5, MoveLock

LEMMA CommitReturnLock == ASSUME LockInv, NEW p \in Sessions, CommitReturn(p) PROVE LockInv'
<1> DEFINE t == tx[p]
<1>0. TypeOK /\ TypeOK' /\ Finish(p)
  BY CommitReturnType DEF LockInv, CommitReturn
<1>1. ASSUME NEW e \in Lots
      PROVE  \/ lot'[e] = lot[e]
             \/ lot'[e].stored = lot[e].stored /\ rowLock[e] \in {p, NoSession}
  <2>1. CASE e \notin t.rows
    BY <1>1, <2>1 DEF CommitReturn
  <2>2. CASE e \in t.rows
    <3>1. lot'[e] = [lot[e] EXCEPT !.remaining = t.seen[e].remaining + t.mat.used,
                                   !.exhausted = Reopened(@, t.seen[e].exhausted)]
      BY <1>1, <2>2 DEF CommitReturn
    <3>2. lot[e] \in LotRows
      BY <1>0 DEF TypeOK
    <3>3. lot'[e].stored = lot[e].stored
      BY <3>1, <3>2 DEF LotRows
    <3> QED
      BY <2>2, <3>3 DEF CommitReturn, MayWrite
  <2> QED
    BY <2>1, <2>2
<1> QED
  BY <1>0, <1>1, FinishLock

LEMMA CommitAdjustOutLock == ASSUME LockInv, NEW p \in Sessions, CommitAdjustOut(p) PROVE LockInv'
<1> DEFINE t == tx[p]
<1>0. TypeOK /\ TypeOK' /\ Finish(p)
  BY CommitAdjustOutType DEF LockInv, CommitAdjustOut
<1>1. t.rows \in SUBSET Lots /\ t.seen \in [Lots -> LotRows] /\ t.qty \in Nat
  BY <1>0 DEF TypeOK, Transactions
<1>2. PICK take \in Plans(t.rows, t.seen, t.qty) :
        MayWrite(p, {e \in Lots : take[e] > 0}) /\ lot' = TakeFrom(t.seen, take)
  BY DEF CommitAdjustOut
<1> HIDE DEF t
<1> QED
  BY <1>0, <1>1, <1>2, TakeHarmless, FinishLock

LEMMA CommitVoidLock == ASSUME LockInv, NEW p \in Sessions, CommitVoid(p) PROVE LockInv'
<1> DEFINE t == tx[p]
<1>0. TypeOK /\ TypeOK' /\ Finish(p)
  BY CommitVoidType DEF LockInv, CommitVoid
<1>1. ASSUME NEW e \in Lots
      PROVE  \/ lot'[e] = lot[e]
             \/ lot'[e].stored = lot[e].stored /\ rowLock[e] \in {p, NoSession}
  <2>1. lot[e] \in LotRows
    BY <1>0 DEF TypeOK
  <2>2. lot'[e] = IF e \in t.rows THEN [lot[e] EXCEPT !.voided = TRUE] ELSE lot[e]
    BY <1>1 DEF CommitVoid
  <2>3. e \in t.rows => rowLock[e] \in {p, NoSession}
    BY DEF CommitVoid, MayWrite
  <2> QED
    BY <2>1, <2>2, <2>3 DEF LotRows
<1> QED
  BY <1>0, <1>1, FinishLock

LEMMA StoreLock ==
    ASSUME LockInv, NEW e \in Lots, NEW n \in Nat, NEW d \in Dates, Store(e, n, d) PROVE LockInv'
<1>1. TypeOK'
  BY StoreType DEF LockInv
<1>2. /\ UNCHANGED <<rowLock, tx>> /\ ~lot[e].stored
      /\ \A f \in Lots \ {e} : lot'[f] = lot[f]
  BY DEF LockInv, TypeOK, Store
<1>3. Shape'
  BY <1>2 DEF LockInv, Shape
<1>4. ASSUME NEW q \in Sessions PROVE Current(q)'
  <2>1. Current(q) /\ tx[q].rows \subseteq Lots
    BY DEF LockInv, TypeOK, Transactions
  <2> QED
    BY <1>2, <2>1 DEF Current
<1> QED
  BY <1>1, <1>3, <1>4 DEF LockInv

LEMMA NextLock == LockInv /\ [Next]_vars => LockInv'
<1> SUFFICES ASSUME LockInv, [Next]_vars PROVE LockInv'
  OBVIOUS
<1>1. ASSUME NEW p \in Sessions, Continue(p) PROVE LockInv'
  BY <1>1, LockLotsLock, CommitConsumeLock, ReadLatestLock, CommitReturnLock,
     CommitAdjustOutLock, CommitVoidLock, RollbackLock DEF Continue, DeadlockVictim
<1>2. ASSUME NEW e \in Lots, NEW n \in Quantities, NEW d \in Dates,
             AdjustIn(e, n) \/ RegisterEntry(e, n, d)
      PROVE  LockInv'
  BY <1>2, StoreLock, StockBounds DEF AdjustIn, RegisterEntry, Quantities
<1>3. CASE Deactivate \/ UNCHANGED vars
  <2>1. TypeOK' /\ UNCHANGED <<lot, rowLock, tx>>
    BY <1>3, NextType DEF LockInv, Deactivate, vars
  <2> QED
    BY <2>1 DEF LockInv, Shape, Current
<1> QED
  BY <1>1, <1>2, <1>3, BeginLock, RollbackLock, StockBounds DEF Next, Abort

\* A consumption that is about to write holds the lots exactly as they are stored,
\* for any number of sessions of any kind: the unlocked handlers wait for it.
THEOREM ConsumptionIsCurrent == Spec => []LockedIsCurrent
<1>1. LockInv => LockedIsCurrent
  BY DEF LockInv, TypeOK, Transactions, Current, LockedIsCurrent
<1> QED
  BY <1>1, InitLock, NextLock, PTL DEF Spec

-----------------------------------------------------------------------------
(* When nothing but consumptions overlaps, no update of a lot is lost.      *)

OnlyConsumptions == Overlap \subseteq {"consume"}

\* A session that reads without locks.
Unlocked(p) == tx[p].kind \in {"return", "out", "void"}

\* It runs alone ...
Alone == \A p, q \in Sessions : p # q /\ Unlocked(p) => tx[q].kind = "none"

\* ... so what it read is still there when it writes.
Fresh(p) ==
    /\ Unlocked(p) /\ tx[p].pc = "write" =>
         \A e \in tx[p].rows : lot[e].stored /\ ~lot[e].voided /\ tx[p].seen[e] = lot[e]
    /\ tx[p].kind = "return" => tx[p].mat.used > 0
    /\ tx[p].pc = "latest" => tx[p].rows = {}

LotsAgree ==
    /\ LedgerAgrees
    /\ ExhaustedAgrees
    /\ \A e \in Lots : ~lot[e].stored => lot[e].remaining = 0 /\ ~lot[e].voided

StockInv == LockInv /\ Alone /\ (\A p \in Sessions : Fresh(p)) /\ LotsAgree

\* A plan made from current rows keeps the movements and the flag right.
LEMMA TakeAgrees ==
    ASSUME TypeOK, LotsAgree, NEW rows \in SUBSET Lots, NEW seen \in [Lots -> LotRows],
           NEW qty \in Nat, NEW take \in Plans(rows, seen, qty),
           \A e \in rows : lot[e].stored /\ ~lot[e].voided /\ seen[e] = lot[e],
           lot' = TakeFrom(seen, take), ledger' = [e \in Lots |-> ledger[e] - take[e]]
    PROVE  LotsAgree'
<1> SUFFICES ASSUME NEW e \in Lots
             PROVE  /\ ledger'[e] = IF lot'[e].voided THEN 0 ELSE lot'[e].remaining
                    /\ lot'[e].stored => (lot'[e].exhausted <=> lot'[e].remaining = 0)
                    /\ ~lot'[e].stored => lot'[e].remaining = 0 /\ ~lot'[e].voided
  BY DEF LotsAgree, LedgerAgrees, ExhaustedAgrees
<1>1. /\ take[e] \in Nat
      /\ e \in rows => take[e] <= seen[e].remaining
      /\ e \notin rows => take[e] = 0
  BY PlanBounds
<1>2. /\ ledger[e] = IF lot[e].voided THEN 0 ELSE lot[e].remaining
      /\ lot[e].stored => (lot[e].exhausted <=> lot[e].remaining = 0)
      /\ ~lot[e].stored => lot[e].remaining = 0 /\ ~lot[e].voided
  BY DEF LotsAgree, LedgerAgrees, ExhaustedAgrees
<1>3. lot[e] \in LotRows /\ ledger[e] \in Int /\ ledger'[e] = ledger[e] - take[e]
  BY DEF TypeOK
<1>4. CASE take[e] = 0
  <2>1. lot'[e] = lot[e]
    BY <1>4 DEF TakeFrom
  <2> QED
    BY <1>2, <1>3, <1>4, <2>1
<1>5. CASE take[e] > 0
  <2>1. e \in rows
    BY <1>1, <1>5
  <2>2. lot[e].stored /\ ~lot[e].voided /\ seen[e] = lot[e]
    BY <2>1
  <2>3. /\ lot'[e].remaining = lot[e].remaining - take[e]
        /\ lot'[e].exhausted = (lot[e].exhausted \/ lot[e].remaining = take[e])
        /\ lot'[e].stored = lot[e].stored /\ lot'[e].voided = lot[e].voided
    <3>1. take[e] # 0
      BY <1>5
    <3>2. TakeFrom(seen, take)[e] =
            [lot[e] EXCEPT !.remaining = seen[e].remaining - take[e],
                           !.exhausted = @ \/ seen[e].remaining = take[e]]
      BY <3>1 DEF TakeFrom
    <3> QED
      BY <1>3, <2>2, <3>2 DEF LotRows
  <2>4. lot[e].remaining \in Nat /\ take[e] <= lot[e].remaining
    BY <1>1, <1>3, <2>1, <2>2 DEF LotRows
  <2>5. ledger'[e] = lot'[e].remaining
    BY <1>2, <1>3, <2>2, <2>3, <2>4
  <2>6. lot'[e].remaining = 0 <=> lot[e].remaining = take[e]
    BY <1>1, <2>3, <2>4
  <2>7. lot[e].exhausted => lot[e].remaining = take[e]
    BY <1>1, <1>2, <1>5, <2>2, <2>4
  <2> QED
    BY <2>2, <2>3, <2>5, <2>6, <2>7
<1> QED
  BY <1>1, <1>4, <1>5

\* The sessions that do not take the step.
LEMMA OthersFresh ==
    ASSUME StockInv, NEW p \in Sessions,
           \A q \in Sessions \ {p} : tx'[q] = tx[q] /\ ~Unlocked(q),
           Unlocked(p)' => \A q \in Sessions \ {p} : tx[q].kind = "none",
           Fresh(p)'
    PROVE  Alone' /\ \A q \in Sessions : Fresh(q)'
<1>1. \A q \in Sessions \ {p} : Unlocked(q)' = Unlocked(q)
  BY DEF Unlocked
<1>2. Alone'
  BY <1>1 DEF Alone, Unlocked
<1>3. ASSUME NEW q \in Sessions \ {p} PROVE Fresh(q)'
  <2>1. Fresh(q) /\ tx'[q] = tx[q] /\ ~Unlocked(q)
    BY DEF StockInv
  <2> QED
    BY <2>1 DEF Fresh, Unlocked
<1> QED
  BY <1>2, <1>3

\* While a session is under way, every other one is idle or consumes.
LEMMA BusyAlone ==
    ASSUME StockInv, NEW p \in Sessions, tx[p].pc # "idle"
    PROVE  /\ \A q \in Sessions \ {p} : ~Unlocked(q)
           /\ Unlocked(p) => \A q \in Sessions \ {p} : tx[q].kind = "none"
BY DEF StockInv, LockInv, Shape, Alone

LEMMA FinishStock ==
    ASSUME StockInv, LockInv', LotsAgree', NEW p \in Sessions, tx[p].pc # "idle", Finish(p)
    PROVE  StockInv'
<1>1. tx'[p] = Idle /\ \A q \in Sessions \ {p} : tx'[q] = tx[q]
  BY DEF StockInv, LockInv, TypeOK, Finish
<1>2. ~Unlocked(p)' /\ Fresh(p)'
  BY <1>1 DEF Unlocked, Fresh, Idle
<1> QED
  BY <1>1, <1>2, BusyAlone, OthersFresh DEF StockInv

LEMMA RollbackStock ==
    ASSUME StockInv, NEW p \in Sessions, tx[p].pc # "idle", Rollback(p) PROVE StockInv'
<1>1. LockInv' /\ Finish(p) /\ UNCHANGED <<lot, ledger>>
  BY RollbackLock DEF StockInv, Rollback
<1>2. LotsAgree'
  BY <1>1 DEF StockInv, LotsAgree, LedgerAgrees, ExhaustedAgrees
<1> QED
  BY <1>1, <1>2, FinishStock

LEMMA InitStock == Init => StockInv
BY InitLock DEF Init, StockInv, Alone, Unlocked, Fresh, LotsAgree, LedgerAgrees,
                ExhaustedAgrees, Idle, NoLot

LEMMA StartStock ==
    ASSUME OnlyConsumptions, StockInv, LockInv', NEW p \in Sessions,
           NEW kind \in {"consume", "return", "out", "void"}, NEW t \in Transactions,
           Start(p, kind, t),
           kind # "consume" /\ t.pc = "write" =>
               \A e \in t.rows : lot[e].stored /\ ~lot[e].voided /\ t.seen[e] = lot[e],
           kind = "return" => t.mat.used > 0, t.pc = "latest" => t.rows = {}
    PROVE  StockInv'
<1> DEFINE u == [t EXCEPT !.kind = kind]
<1>1. /\ u.kind = kind /\ u.pc = t.pc /\ u.rows = t.rows
      /\ u.seen = t.seen /\ u.mat = t.mat
  BY DEF Transactions
<1>2. tx' = [tx EXCEPT ![p] = u] /\ UNCHANGED <<lot, ledger>> /\ tx[p].kind = "none"
  BY DEF Start, StockInv, LockInv, Shape
<1> HIDE DEF u
<1>3. tx'[p] = u /\ \A q \in Sessions \ {p} : tx'[q] = tx[q]
  BY <1>2 DEF StockInv, LockInv, TypeOK
<1>4. \A q \in Sessions : tx[q].kind = "none" \/ (kind = "consume" /\ tx[q].kind = "consume")
  BY DEF Start, OnlyConsumptions
<1>5. Fresh(p)'
  BY <1>1, <1>2, <1>3 DEF Fresh, Unlocked
<1>6. LotsAgree'
  BY <1>2 DEF StockInv, LotsAgree, LedgerAgrees, ExhaustedAgrees
<1>7. \A q \in Sessions \ {p} : ~Unlocked(q)
  BY <1>4 DEF Unlocked
<1>8. Unlocked(p)' => \A q \in Sessions \ {p} : tx[q].kind = "none"
  BY <1>1, <1>3, <1>4 DEF Unlocked
<1> QED
  BY <1>3, <1>5, <1>6, <1>7, <1>8, OthersFresh DEF StockInv

LEMMA BeginStock ==
    ASSUME OnlyConsumptions, StockInv, NEW p \in Sessions, Begin(p) PROVE StockInv'
<1>0. TypeOK /\ LockInv'
  BY BeginLock DEF StockInv, LockInv
<1>1. ASSUME NEW n \in Quantities, BeginAdjustOut(p, n) PROVE StockInv'
  <2> DEFINE t == [Idle EXCEPT !.pc = "write", !.qty = n, !.rows = Available, !.seen = lot]
  <2>1. t \in Transactions
    <3>1. n \in Nat
      BY StockBounds DEF Quantities
    <3> QED
      BY <1>0, <3>1, IdleType DEF TypeOK, Transactions, Available
  <2>2. t.pc = "write" /\ t.rows = Available /\ t.seen = lot
    BY DEF Idle
  <2>3. Start(p, "out", t)
    BY <1>1 DEF BeginAdjustOut
  <2> HIDE DEF t
  <2>4. \A e \in t.rows : lot[e].stored /\ ~lot[e].voided /\ t.seen[e] = lot[e]
    BY <2>2 DEF Available
  <2> QED
    BY <1>0, <2>1, <2>2, <2>3, <2>4, StartStock
<1>2. ASSUME NEW n \in Quantities, NEW k \in Tickets, BeginConsume(p, k, n) PROVE StockInv'
  <2> DEFINE t == [Idle EXCEPT !.pc = "lock", !.ticket = {k}, !.qty = n, !.rows = Available]
  <2>1. t \in Transactions
    <3>1. n \in Nat
      BY StockBounds DEF Quantities
    <3> QED
      BY <3>1, IdleType DEF Transactions, Available
  <2>2. t.pc = "lock"
    BY DEF Idle
  <2>3. Start(p, "consume", t)
    BY <1>2 DEF BeginConsume
  <2> HIDE DEF t
  <2> QED
    BY <1>0, <2>1, <2>2, <2>3, StartStock
<1>3. ASSUME NEW k \in Tickets, BeginReturn(p, k) PROVE StockInv'
  <2> DEFINE t == [Idle EXCEPT !.pc = "latest", !.ticket = {k}, !.mat = material[k]]
  <2>1. t \in Transactions
    BY <1>0, IdleType DEF TypeOK, Transactions
  <2>2. t.pc = "latest" /\ t.mat.used > 0 /\ t.rows = {}
    BY <1>3 DEF BeginReturn, Idle
  <2>3. Start(p, "return", t)
    BY <1>3 DEF BeginReturn
  <2> HIDE DEF t
  <2> QED
    BY <1>0, <2>1, <2>2, <2>3, StartStock
<1>4. ASSUME NEW e \in Lots, BeginVoid(p, e) PROVE StockInv'
  <2> DEFINE t == [Idle EXCEPT !.pc = "write", !.rows = {e}, !.seen[e] = lot[e]]
  <2>1. t \in Transactions
    BY <1>0, IdleType DEF TypeOK, Transactions
  <2>2. t.pc = "write" /\ t.rows = {e} /\ t.seen[e] = lot[e]
    BY DEF Idle
  <2>3. Start(p, "void", t) /\ lot[e].stored /\ ~lot[e].voided
    BY <1>4 DEF BeginVoid, Voidable
  <2> HIDE DEF t
  <2> QED
    BY <1>0, <2>1, <2>2, <2>3, StartStock
<1> QED
  BY <1>1, <1>2, <1>3, <1>4 DEF Begin

LEMMA LockLotsStock == ASSUME StockInv, NEW p \in Sessions, LockLots(p) PROVE StockInv'
<1>1. tx[p].pc = "lock" /\ tx[p].kind = "consume" /\ tx \in [Sessions -> Transactions]
  BY DEF StockInv, LockInv, Shape, TypeOK, LockLots
<1>2. LockInv'
  BY LockLotsLock DEF StockInv
<1>3. CASE Rollback(p)
  BY <1>1, <1>3, RollbackStock
<1>4. CASE ~Rollback(p)
  <2>1. /\ UNCHANGED <<lot, ledger>>
        /\ tx'[p].kind = "consume" /\ tx'[p].pc \in {"lock", "write"}
        /\ \A q \in Sessions \ {p} : tx'[q] = tx[q]
    <3>1. ASSUME NEW e,
                 tx' = [tx EXCEPT ![p].rows = IF e \in Available THEN @ ELSE @ \ {e},
                                  ![p].seen[e] = lot[e]]
          PROVE  /\ tx'[p].kind = "consume" /\ tx'[p].pc = "lock"
                 /\ \A q \in Sessions \ {p} : tx'[q] = tx[q]
      BY <1>1, <3>1 DEF Transactions
    <3>2. ASSUME NEW k, Advance(p, [tx[p] EXCEPT !.pc = "write", !.mat = material[k]])
          PROVE  /\ tx'[p].kind = "consume" /\ tx'[p].pc = "write" /\ UNCHANGED <<lot, ledger>>
                 /\ \A q \in Sessions \ {p} : tx'[q] = tx[q]
      BY <1>1, <3>2 DEF Transactions, Advance
    <3> QED
      BY <1>4, <3>1, <3>2 DEF LockLots
  <2>2. ~Unlocked(p)' /\ Fresh(p)'
    BY <2>1 DEF Unlocked, Fresh
  <2>3. LotsAgree'
    BY <2>1 DEF StockInv, LotsAgree, LedgerAgrees, ExhaustedAgrees
  <2> QED
    BY <1>1, <1>2, <2>1, <2>2, <2>3, BusyAlone, OthersFresh DEF StockInv
<1> QED
  BY <1>3, <1>4

LEMMA CommitConsumeStock ==
    ASSUME StockInv, NEW p \in Sessions, CommitConsume(p) PROVE StockInv'
<1> DEFINE t == tx[p]
<1>0. TypeOK /\ LockInv' /\ t.pc = "write" /\ t.kind = "consume" /\ LotsAgree
  BY CommitConsumeLock DEF StockInv, LockInv, CommitConsume
<1>1. t.rows \in SUBSET Lots /\ t.seen \in [Lots -> LotRows] /\ t.qty \in Nat
  BY <1>0 DEF TypeOK, Transactions
<1>2. PICK take \in Plans(t.rows, t.seen, t.qty) :
        \/ Rollback(p)
        \/ /\ lot' = TakeFrom(t.seen, take)
           /\ ledger' = [e \in Lots |-> ledger[e] - take[e]]
           /\ Finish(p)
  BY DEF CommitConsume
<1>3. \A e \in t.rows : lot[e].stored /\ ~lot[e].voided /\ t.seen[e] = lot[e]
  BY <1>0 DEF StockInv, LockInv, Current
<1>4. t.pc # "idle"
  BY <1>0
<1>5. CASE Rollback(p)
  BY <1>4, <1>5, RollbackStock
<1>6. CASE /\ lot' = TakeFrom(t.seen, take)
           /\ ledger' = [e \in Lots |-> ledger[e] - take[e]]
           /\ Finish(p)
  <2>1. LotsAgree'
    <3> HIDE DEF t
    <3> QED
      BY <1>0, <1>1, <1>3, <1>6, TakeAgrees
  <2> QED
    BY <1>0, <1>4, <1>6, <2>1, FinishStock
<1> QED
  BY <1>2, <1>5, <1>6

LEMMA CommitAdjustOutStock ==
    ASSUME StockInv, NEW p \in Sessions, CommitAdjustOut(p) PROVE StockInv'
<1> DEFINE t == tx[p]
<1>0. /\ TypeOK /\ LockInv' /\ t.pc = "write" /\ t.kind = "out" /\ LotsAgree
      /\ Finish(p)
  BY CommitAdjustOutLock DEF StockInv, LockInv, CommitAdjustOut
<1>1. t.rows \in SUBSET Lots /\ t.seen \in [Lots -> LotRows] /\ t.qty \in Nat
  BY <1>0 DEF TypeOK, Transactions
<1>2. PICK take \in Plans(t.rows, t.seen, t.qty) :
        /\ lot' = TakeFrom(t.seen, take)
        /\ ledger' = [e \in Lots |-> ledger[e] - take[e]]
  BY DEF CommitAdjustOut
<1>3. \A e \in t.rows : lot[e].stored /\ ~lot[e].voided /\ t.seen[e] = lot[e]
  BY <1>0 DEF StockInv, Fresh, Unlocked
<1>4. t.pc # "idle"
  BY <1>0
<1>5. LotsAgree'
  <2> HIDE DEF t
  <2> QED
    BY <1>0, <1>1, <1>2, <1>3, TakeAgrees
<1> QED
  BY <1>0, <1>4, <1>5, FinishStock

LEMMA ReadLatestStock == ASSUME StockInv, NEW p \in Sessions, ReadLatest(p) PROVE StockInv'
<1> DEFINE t == tx[p]
<1>0. /\ TypeOK /\ LockInv' /\ t.pc = "latest" /\ t.kind = "return" /\ t \in Transactions
      /\ Fresh(p)
  BY ReadLatestLock DEF StockInv, LockInv, ReadLatest, Shape, TypeOK
<1>1. t.mat.used > 0 /\ t.rows = {}
  BY <1>0 DEF Fresh
<1>2. PICK u : /\ Advance(p, u) /\ u.kind = "return" /\ u.pc = "write" /\ u.mat = t.mat
               /\ \A e \in u.rows : lot[e].stored /\ ~lot[e].voided /\ u.seen[e] = lot[e]
  <2> DEFINE nothing == [t EXCEPT !.pc = "write"]
             one(e) == [t EXCEPT !.pc = "write", !.rows = {e}, !.seen[e] = lot[e]]
  <2>1. /\ nothing.kind = "return" /\ nothing.pc = "write" /\ nothing.mat = t.mat
        /\ nothing.rows = {}
    BY <1>0, <1>1 DEF Transactions
  <2>2. ASSUME NEW e \in LiveLots
        PROVE  /\ one(e).kind = "return" /\ one(e).pc = "write" /\ one(e).mat = t.mat
               /\ one(e).rows = {e} /\ one(e).seen[e] = lot[e] /\ lot[e].stored /\ ~lot[e].voided
    BY <1>0 DEF Transactions, LiveLots
  <2>3. Advance(p, nothing) \/ \E e \in LiveLots : Advance(p, one(e))
    BY DEF ReadLatest
  <2> HIDE DEF nothing, one
  <2> QED
    BY <2>1, <2>2, <2>3
<1>3. tx'[p] = u /\ (\A q \in Sessions \ {p} : tx'[q] = tx[q]) /\ UNCHANGED <<lot, ledger>>
  BY <1>0, <1>2 DEF Advance, TypeOK
<1>4. Fresh(p)'
  BY <1>1, <1>2, <1>3 DEF Fresh
<1>5. LotsAgree'
  BY <1>3 DEF StockInv, LotsAgree, LedgerAgrees, ExhaustedAgrees
<1>6. Unlocked(p) /\ t.pc # "idle"
  BY <1>0 DEF Unlocked
<1> QED
  BY <1>0, <1>3, <1>4, <1>5, <1>6, BusyAlone, OthersFresh DEF StockInv

LEMMA CommitReturnStock == ASSUME StockInv, NEW p \in Sessions, CommitReturn(p) PROVE StockInv'
<1> DEFINE t == tx[p]
<1>0. /\ TypeOK /\ LockInv' /\ t.pc = "write" /\ t.kind = "return" /\ t \in Transactions
      /\ Finish(p) /\ Fresh(p) /\ t.pc # "idle"
  BY CommitReturnLock DEF StockInv, LockInv, CommitReturn, TypeOK
<1>1. /\ t.mat.used \in Nat /\ t.mat.used > 0
      /\ \A e \in t.rows : lot[e].stored /\ ~lot[e].voided /\ t.seen[e] = lot[e]
  BY <1>0 DEF Fresh, Unlocked, Transactions, Materials
<1>2. ASSUME NEW e \in Lots
      PROVE  /\ ledger'[e] = IF lot'[e].voided THEN 0 ELSE lot'[e].remaining
             /\ lot'[e].stored => (lot'[e].exhausted <=> lot'[e].remaining = 0)
             /\ ~lot'[e].stored => lot'[e].remaining = 0 /\ ~lot'[e].voided
  <2>1. /\ ledger[e] = IF lot[e].voided THEN 0 ELSE lot[e].remaining
        /\ lot[e].stored => (lot[e].exhausted <=> lot[e].remaining = 0)
        /\ ~lot[e].stored => lot[e].remaining = 0 /\ ~lot[e].voided
        /\ lot[e] \in LotRows
    BY <1>0 DEF StockInv, LotsAgree, LedgerAgrees, ExhaustedAgrees, TypeOK
  <2>2. CASE e \notin t.rows
    <3>1. lot'[e] = lot[e] /\ ledger'[e] = ledger[e]
      BY <1>2, <2>2 DEF CommitReturn
    <3> QED
      BY <2>1, <3>1
  <2>3. CASE e \in t.rows
    <3>1. lot[e].stored /\ ~lot[e].voided /\ t.seen[e] = lot[e]
      BY <1>1, <2>3
    <3>2. /\ lot'[e] = [lot[e] EXCEPT !.remaining = t.seen[e].remaining + t.mat.used,
                                      !.exhausted = Reopened(@, t.seen[e].exhausted)]
          /\ ledger'[e] = ledger[e] + t.mat.used
      BY <1>2, <2>3 DEF CommitReturn
    <3>3. /\ lot'[e].remaining = lot[e].remaining + t.mat.used
          /\ ~lot'[e].exhausted /\ lot'[e].stored /\ ~lot'[e].voided
      BY <2>1, <3>1, <3>2 DEF LotRows, Reopened
    <3>4. lot[e].remaining \in Nat
      BY <2>1 DEF LotRows
    <3> QED
      BY <1>1, <2>1, <3>1, <3>2, <3>3, <3>4
  <2> QED
    BY <2>2, <2>3
<1>3. LotsAgree'
  BY <1>2 DEF LotsAgree, LedgerAgrees, ExhaustedAgrees
<1> QED
  BY <1>0, <1>3, FinishStock

LEMMA CommitVoidStock == ASSUME StockInv, NEW p \in Sessions, CommitVoid(p) PROVE StockInv'
<1> DEFINE t == tx[p]
<1>0. /\ TypeOK /\ LockInv' /\ t.pc = "write" /\ t.kind = "void" /\ Finish(p) /\ Fresh(p)
      /\ t.pc # "idle"
  BY CommitVoidLock DEF StockInv, LockInv, CommitVoid
<1>1. \A e \in t.rows : lot[e].stored /\ ~lot[e].voided /\ t.seen[e] = lot[e]
  BY <1>0 DEF Fresh, Unlocked
<1>2. ASSUME NEW e \in Lots
      PROVE  /\ ledger'[e] = IF lot'[e].voided THEN 0 ELSE lot'[e].remaining
             /\ lot'[e].stored => (lot'[e].exhausted <=> lot'[e].remaining = 0)
             /\ ~lot'[e].stored => lot'[e].remaining = 0 /\ ~lot'[e].voided
  <2>1. /\ ledger[e] = IF lot[e].voided THEN 0 ELSE lot[e].remaining
        /\ lot[e].stored => (lot[e].exhausted <=> lot[e].remaining = 0)
        /\ ~lot[e].stored => lot[e].remaining = 0 /\ ~lot[e].voided
        /\ lot[e] \in LotRows
    BY <1>0 DEF StockInv, LotsAgree, LedgerAgrees, ExhaustedAgrees, TypeOK
  <2>2. CASE e \notin t.rows
    <3>1. lot'[e] = lot[e] /\ ledger'[e] = ledger[e]
      BY <1>2, <2>2 DEF CommitVoid
    <3> QED
      BY <2>1, <3>1
  <2>3. CASE e \in t.rows
    <3>1. lot[e].stored /\ ~lot[e].voided /\ t.seen[e] = lot[e]
      BY <1>1, <2>3
    <3>2. lot'[e] = [lot[e] EXCEPT !.voided = TRUE] /\ ledger'[e] = ledger[e] - t.seen[e].remaining
      BY <1>2, <2>3 DEF CommitVoid
    <3>3. /\ lot'[e].remaining = lot[e].remaining /\ lot'[e].exhausted = lot[e].exhausted
          /\ lot'[e].stored /\ lot'[e].voided
      BY <2>1, <3>1, <3>2 DEF LotRows
    <3>4. lot[e].remaining \in Nat
      BY <2>1 DEF LotRows
    <3> QED
      BY <2>1, <3>1, <3>2, <3>3, <3>4
  <2> QED
    BY <2>2, <2>3
<1>3. LotsAgree'
  BY <1>2 DEF LotsAgree, LedgerAgrees, ExhaustedAgrees
<1> QED
  BY <1>0, <1>3, FinishStock

LEMMA StoreStock ==
    ASSUME StockInv, NEW e \in Lots, NEW n \in Nat \ {0}, NEW d \in Dates, Store(e, n, d)
    PROVE  StockInv'
<1>1. LockInv' /\ TypeOK
  BY StoreLock DEF StockInv, LockInv
<1>2. /\ tx' = tx /\ ~lot[e].stored
      /\ lot'[e].stored /\ ~lot'[e].voided /\ ~lot'[e].exhausted /\ lot'[e].remaining = n
      /\ ledger'[e] = ledger[e] + n
      /\ \A f \in Lots \ {e} : lot'[f] = lot[f] /\ ledger'[f] = ledger[f]
  BY <1>1 DEF TypeOK, Store
<1>3. Alone'
  BY <1>2 DEF StockInv, Alone, Unlocked
<1>4. ASSUME NEW q \in Sessions PROVE Fresh(q)'
  <2>1. Fresh(q) /\ tx[q].rows \subseteq Lots
    BY <1>1 DEF StockInv, TypeOK, Transactions
  <2> QED
    BY <1>2, <2>1 DEF Fresh, Unlocked
<1>5. ledger[e] = 0
  BY <1>2 DEF StockInv, LotsAgree, LedgerAgrees
<1>6. LotsAgree'
  BY <1>2, <1>5 DEF StockInv, LotsAgree, LedgerAgrees, ExhaustedAgrees
<1> QED
  BY <1>1, <1>3, <1>4, <1>6 DEF StockInv

LEMMA NextStock == ASSUME OnlyConsumptions, StockInv, [Next]_vars PROVE StockInv'
<1>1. ASSUME NEW p \in Sessions, Continue(p) PROVE StockInv'
  <2>1. CASE DeadlockVictim(p)
    <3>1. Rollback(p) /\ tx[p].pc # "idle"
      BY <2>1 DEF DeadlockVictim, Blocked
    <3> QED
      BY <3>1, RollbackStock
  <2> QED
    BY <1>1, <2>1, LockLotsStock, CommitConsumeStock, ReadLatestStock, CommitReturnStock,
       CommitAdjustOutStock, CommitVoidStock DEF Continue
<1>2. ASSUME NEW e \in Lots, NEW n \in Quantities, NEW d \in Dates,
             AdjustIn(e, n) \/ RegisterEntry(e, n, d)
      PROVE  StockInv'
  <2>1. n \in Nat \ {0} /\ Today \in Dates
    BY StockBounds DEF Quantities
  <2> QED
    BY <1>2, <2>1, StoreStock DEF AdjustIn, RegisterEntry
<1>3. CASE Deactivate \/ UNCHANGED vars
  <2>1. LockInv' /\ UNCHANGED <<lot, ledger, tx>>
    BY <1>3, NextLock DEF StockInv, Deactivate, vars
  <2> QED
    BY <2>1 DEF StockInv, Alone, Unlocked, Fresh, LotsAgree, LedgerAgrees, ExhaustedAgrees
<1>4. ASSUME NEW p \in Sessions, Abort(p) PROVE StockInv'
  BY <1>4, RollbackStock DEF Abort
<1> QED
  BY <1>1, <1>2, <1>3, <1>4, BeginStock, StockBounds DEF Next

\* With FOR UPDATE, and the other handlers run one at a time, the movements of a lot
\* always explain its remaining units: any number of consumptions may overlap.
THEOREM LedgerKept == OnlyConsumptions => (Spec => []LedgerAgrees)
<1> SUFFICES ASSUME OnlyConsumptions PROVE Spec => []LedgerAgrees
  OBVIOUS
<1>1. StockInv /\ [Next]_vars => StockInv'
  BY NextStock
<1>2. StockInv => LedgerAgrees
  BY DEF StockInv, LotsAgree
<1> QED
  BY <1>1, <1>2, InitStock, PTL DEF Spec

\* Under the same condition the flag is_exhausted never hides units from the queries.
THEOREM ExhaustedKept == OnlyConsumptions => (Spec => []ExhaustedAgrees)
<1> SUFFICES ASSUME OnlyConsumptions PROVE Spec => []ExhaustedAgrees
  OBVIOUS
<1>1. StockInv /\ [Next]_vars => StockInv'
  BY NextStock
<1>2. StockInv => ExhaustedAgrees
  BY DEF StockInv, LotsAgree
<1> QED
  BY <1>1, <1>2, InitStock, PTL DEF Spec

-----------------------------------------------------------------------------
(* Sums.  SumFunction adds the values of a function over a finite set in an *)
(* order that CHOOSE fixes; any other order gives the same, so that sums    *)
(* can be compared element by element.  Induction is over the subsets of    *)
(* the domain, by a least counterexample.                                   *)

Pick(s) == CHOOSE x \in s : TRUE

\* What SumFunction adds up: an element of the set, and then the rest.
Picks(f, S, it) ==
    it = [s \in SUBSET S |-> IF s = {} THEN 0 ELSE f[Pick(s)] + it[s \ {Pick(s)}]]

LEMMA SumIsPicked ==
    ASSUME NEW f
    PROVE  SumFunction(f) = (CHOOSE it : Picks(f, DOMAIN f, it))[DOMAIN f]
BY DEF SumFunction, SumFunctionOnSet, FoldFunctionOnSet, MapThenFoldSet, Picks, Pick

LEMMA Least ==
    ASSUME NEW T, T \subseteq Nat, T # {}
    PROVE  \E n \in T : \A m \in T : n <= m
<1>1. PICK n \in T : \A m \in T : <<m, n>> \notin OpToRel(<, Nat)
  BY NatLessThanWellFounded, WFMin
<1>2. ASSUME NEW m \in T PROVE ~(m < n)
  BY <1>1 DEF OpToRel
<1> QED
  BY <1>2

\* The element that is picked, and the size of what is left.
LEMMA PickLess ==
    ASSUME NEW S, IsFiniteSet(S), NEW s \in SUBSET S, NEW x \in s
    PROVE  /\ Cardinality(s \ {x}) \in Nat /\ Cardinality(s) = Cardinality(s \ {x}) + 1
           /\ s \ {x} \in SUBSET S
<1>1. IsFiniteSet(s)
  BY FS_Subset
<1>2. IsFiniteSet(s \ {x}) /\ Cardinality(s \ {x}) = Cardinality(s) - 1
  BY <1>1, FS_RemoveElement
<1> QED
  BY <1>1, <1>2, FS_CardinalityType

\* Induction over the subsets of a finite set: what holds of a set when it holds of
\* what is left without any one of its elements holds of every subset.
LEMMA BySize ==
    ASSUME NEW S, IsFiniteSet(S), NEW Good,
           \A s \in SUBSET S : (\A x \in s : s \ {x} \in Good) => s \in Good
    PROVE  \A s \in SUBSET S : s \in Good
<1> DEFINE Sizes == {n \in Nat : \E s \in SUBSET S : s \notin Good /\ Cardinality(s) = n}
<1>1. \A s \in SUBSET S : Cardinality(s) \in Nat
  BY FS_Subset, FS_CardinalityType
<1> SUFFICES ASSUME NEW s \in SUBSET S, s \notin Good PROVE FALSE
  OBVIOUS
<1>2. Sizes # {} /\ Sizes \subseteq Nat
  BY <1>1
<1>3. PICK n \in Sizes : \A m \in Sizes : n <= m
  <2> HIDE DEF Sizes
  <2> QED
    BY <1>2, Least
<1>4. PICK t \in SUBSET S : t \notin Good /\ Cardinality(t) = n
  BY <1>3
<1>5. ASSUME NEW x \in t PROVE t \ {x} \in Good
  <2>1. /\ Cardinality(t \ {x}) \in Nat /\ Cardinality(t) = Cardinality(t \ {x}) + 1
        /\ t \ {x} \in SUBSET S
    BY PickLess
  <2>2. t \ {x} \notin Good => Cardinality(t \ {x}) \in Sizes
    BY <2>1
  <2>3. Cardinality(t \ {x}) < n
    BY <1>4, <2>1
  <2> HIDE DEF Sizes
  <2>4. Cardinality(t \ {x}) \notin Sizes
    <3>1. n \in Nat
      BY <1>4, <2>1
    <3> QED
      BY <1>3, <2>1, <2>3, <3>1
  <2> QED
    BY <2>2, <2>4
<1> QED
  BY <1>4, <1>5

LEMMA PickIn ==
    ASSUME NEW s, s # {} PROVE Pick(s) \in s
BY DEF Pick

LEMMA PicksExist ==
    ASSUME NEW S, IsFiniteSet(S), NEW f
    PROVE  \E it : Picks(f, S, it)
<1> DEFINE Rest(g, s) == IF s = {} THEN 0 ELSE f[Pick(s)] + g[s \ {Pick(s)}]
           \* g is right for the subsets of n elements at most.
           Upto(g, n) == /\ g = [s \in SUBSET S |-> g[s]]
                         /\ \A s \in SUBSET S : Cardinality(s) <= n => g[s] = Rest(g, s)
           Missing == {n \in Nat : ~\E g : Upto(g, n)}
<1>1. \A s \in SUBSET S : Cardinality(s) \in Nat
  BY FS_Subset, FS_CardinalityType
<1>2. ASSUME NEW n \in Nat, NEW g, Upto(g, n) PROVE \E h : Upto(h, n + 1)
  <2> DEFINE h == [s \in SUBSET S |-> Rest(g, s)]
  <2>1. \A s \in SUBSET S : Cardinality(s) <= n => h[s] = g[s]
    BY <1>2
  <2>2. ASSUME NEW s \in SUBSET S, Cardinality(s) <= n + 1 PROVE h[s] = Rest(h, s)
    <3>1. CASE s = {}
      BY <3>1
    <3>2. CASE s # {}
      <4>1. Pick(s) \in s
        BY <3>2, PickIn
      <4>2. Cardinality(s \ {Pick(s)}) <= n /\ s \ {Pick(s)} \in SUBSET S
        <5>1. /\ Cardinality(s \ {Pick(s)}) \in Nat
              /\ Cardinality(s) = Cardinality(s \ {Pick(s)}) + 1 /\ s \ {Pick(s)} \in SUBSET S
          BY <4>1, PickLess
        <5> QED
          BY <2>2, <5>1
      <4>3. h[s \ {Pick(s)}] = g[s \ {Pick(s)}]
        BY <2>1, <4>2
      <4> QED
        BY <3>2, <4>3
    <3> QED
      BY <3>1, <3>2
  <2>3. h = [s \in SUBSET S |-> h[s]]
    OBVIOUS
  <2>4. Upto(h, n + 1)
    BY <2>2, <2>3
  <2> QED
    BY <2>4
<1>3. \E g : Upto(g, 0)
  <2> DEFINE g == [s \in SUBSET S |-> 0]
  <2>1. ASSUME NEW s \in SUBSET S, Cardinality(s) <= 0 PROVE g[s] = Rest(g, s)
    <3>1. Cardinality(s) = 0 /\ IsFiniteSet(s)
      BY <1>1, <2>1, FS_Subset
    <3>2. s = {}
      BY <3>1, FS_EmptySet
    <3> QED
      BY <3>2
  <2> QED
    BY <2>1
<1>4. Missing = {}
  <2> SUFFICES ASSUME Missing # {} PROVE FALSE
    OBVIOUS
  <2>1. Missing \subseteq Nat
    OBVIOUS
  <2>2. PICK n \in Missing : \A m \in Missing : n <= m
    <3> HIDE DEF Missing
    <3> QED
      BY <2>1, Least
  <2>3. n \in Nat /\ n # 0 /\ ~\E g : Upto(g, n)
    BY <2>2, <1>3
  <2>4. n - 1 \in Nat
    BY <2>3
  <2>5. n - 1 \notin Missing
    <3> HIDE DEF Missing
    <3> QED
      BY <2>2, <2>3
  <2>6. PICK g : Upto(g, n - 1)
    BY <2>4, <2>5
  <2>7. (n - 1) + 1 = n
    BY <2>3
  <2> HIDE DEF Upto, Missing
  <2> QED
    BY <1>2, <2>3, <2>4, <2>6, <2>7
<1>5. Cardinality(S) \in Nat
  BY FS_CardinalityType
<1>6. PICK g : Upto(g, Cardinality(S))
  BY <1>4, <1>5
<1>7. \A s \in SUBSET S : Cardinality(s) <= Cardinality(S)
  BY FS_Subset
<1>8. \A s \in SUBSET S : g[s] = Rest(g, s)
  BY <1>6, <1>7
<1>9. g = [s \in SUBSET S |-> Rest(g, s)]
  BY <1>6, <1>8
<1> QED
  BY <1>9 DEF Picks

\* The sums of f over the subsets of S, whatever element is taken first.
Sums(f, S, it) ==
    /\ it \in [SUBSET S -> Int]
    /\ it[{}] = 0
    /\ \A s \in SUBSET S : \A x \in s : it[s] = f[x] + it[s \ {x}]

LEMMA PicksAreSums ==
    ASSUME NEW S, IsFiniteSet(S), NEW f \in [S -> Int], NEW it, Picks(f, S, it)
    PROVE  Sums(f, S, it)
<1>1. /\ it[{}] = 0
      /\ \A s \in SUBSET S : s # {} => it[s] = f[Pick(s)] + it[s \ {Pick(s)}]
      /\ it = [s \in SUBSET S |-> it[s]]
  BY DEF Picks
<1>2. \A s \in SUBSET S : it[s] \in Int
  <2> DEFINE Good == {s \in SUBSET S : it[s] \in Int}
  <2>1. ASSUME NEW s \in SUBSET S,
               \A x \in s : s \ {x} \in Good
        PROVE  s \in Good
    <3>1. CASE s = {}
      BY <1>1, <3>1
    <3>2. CASE s # {}
      <4>1. Pick(s) \in s
        BY <3>2, PickIn
      <4>2. it[s \ {Pick(s)}] \in Int
        BY <2>1, <4>1
      <4>3. it[s] = f[Pick(s)] + it[s \ {Pick(s)}] /\ f[Pick(s)] \in Int
        BY <1>1, <3>2, <4>1
      <4> QED
        BY <4>2, <4>3
    <3> QED
      BY <3>1, <3>2
  <2> HIDE DEF Good
  <2>2. \A s \in SUBSET S : s \in Good
    BY <2>1, BySize
  <2> QED
    BY <2>2 DEF Good
<1>3. \A s \in SUBSET S : \A x \in s : it[s] = f[x] + it[s \ {x}]
  <2> DEFINE Good == {s \in SUBSET S : \A x \in s : it[s] = f[x] + it[s \ {x}]}
  <2>1. ASSUME NEW s \in SUBSET S,
               \A x \in s : s \ {x} \in Good
        PROVE  s \in Good
    <3> SUFFICES ASSUME NEW x \in s PROVE it[s] = f[x] + it[s \ {x}]
      OBVIOUS
    <3> DEFINE y == Pick(s)
    <3>1. y \in s /\ it[s] = f[y] + it[s \ {y}]
      BY <1>1, PickIn
    <3>2. CASE x = y
      BY <3>1, <3>2
    <3>3. CASE x # y
      <4> HIDE DEF y
      <4>1. s \ {x} \in Good /\ s \ {y} \in Good
        BY <2>1, <3>1
      <4>2. y \in s \ {x} /\ x \in s \ {y} /\ (s \ {x}) \ {y} = (s \ {y}) \ {x}
        BY <3>1, <3>3
      <4>3. /\ it[s \ {x}] = f[y] + it[(s \ {x}) \ {y}]
            /\ it[s \ {y}] = f[x] + it[(s \ {y}) \ {x}]
        BY <4>1, <4>2
      <4>4. /\ it[s \ {x}] \in Int /\ it[s \ {y}] \in Int /\ it[(s \ {x}) \ {y}] \in Int
        BY <1>2, <3>1
      <4>5. f[x] \in Int /\ f[y] \in Int
        BY <3>1
      <4> HIDE DEF Good
      <4>6. it[(s \ {x}) \ {y}] = it[(s \ {y}) \ {x}]
        BY <4>2
      <4>7. f[y] + it[s \ {y}] = f[x] + it[s \ {x}]
        BY <4>3, <4>4, <4>5, <4>6
      <4> QED
        BY <3>1, <4>7
    <3> QED
      BY <3>2, <3>3
  <2> HIDE DEF Good
  <2>2. \A s \in SUBSET S : s \in Good
    BY <2>1, BySize
  <2> QED
    BY <2>2 DEF Good
<1>4. it \in [SUBSET S -> Int]
  BY <1>1, <1>2
<1> QED
  BY <1>1, <1>3, <1>4 DEF Sums

\* SumFunction is such a sum.
LEMMA SumsOf ==
    ASSUME NEW S, IsFiniteSet(S), NEW f \in [S -> Int]
    PROVE  \E it : Sums(f, S, it) /\ SumFunction(f) = it[S]
<1> DEFINE it == CHOOSE g : Picks(f, S, g)
<1>1. Picks(f, S, it)
  BY PicksExist
<1>2. DOMAIN f = S
  OBVIOUS
<1>3. SumFunction(f) = it[S]
  BY <1>2, SumIsPicked
<1> HIDE DEF it
<1> QED
  BY <1>1, <1>3, PicksAreSums

LEMMA SumInt ==
    ASSUME NEW S, IsFiniteSet(S), NEW f \in [S -> Int] PROVE SumFunction(f) \in Int
<1>1. PICK it : Sums(f, S, it) /\ SumFunction(f) = it[S]
  BY SumsOf
<1> QED
  BY <1>1 DEF Sums

\* A sum that is nowhere greater is not greater.
LEMMA SumsLeq ==
    ASSUME NEW S, IsFiniteSet(S), NEW f \in [S -> Int], NEW g \in [S -> Int],
           NEW u, NEW v, Sums(f, S, u), Sums(g, S, v), NEW t \in SUBSET S,
           \A x \in t : f[x] <= g[x]
    PROVE  u[t] <= v[t]
<1> DEFINE Good == {s \in SUBSET S : s \subseteq t => u[s] <= v[s]}
<1>1. ASSUME NEW s \in SUBSET S,
             \A x \in s : s \ {x} \in Good
      PROVE  s \in Good
  <2> SUFFICES ASSUME s \subseteq t PROVE u[s] <= v[s]
    OBVIOUS
  <2>1. CASE s = {}
    BY <2>1 DEF Sums
  <2>2. CASE s # {}
    <3>1. PICK x \in s : TRUE
      BY <2>2
    <3>2. s \ {x} \in SUBSET S
      OBVIOUS
    <3>3. u[s \ {x}] <= v[s \ {x}]
      BY <1>1, <3>1
    <3>4. u[s] = f[x] + u[s \ {x}] /\ v[s] = g[x] + v[s \ {x}] /\ f[x] <= g[x]
      BY <3>1 DEF Sums
    <3>5. u[s \ {x}] \in Int /\ v[s \ {x}] \in Int /\ f[x] \in Int /\ g[x] \in Int
      BY <3>2 DEF Sums
    <3> QED
      BY <3>3, <3>4, <3>5
  <2> QED
    BY <2>1, <2>2
<1> HIDE DEF Good
<1>2. \A s \in SUBSET S : s \in Good
  BY <1>1, BySize
<1> QED
  BY <1>2 DEF Good

LEMMA SumLeq ==
    ASSUME NEW S, IsFiniteSet(S), NEW f \in [S -> Int], NEW g \in [S -> Int],
           \A x \in S : f[x] <= g[x]
    PROVE  SumFunction(f) <= SumFunction(g)
BY SumsOf, SumsLeq

LEMMA SumZero ==
    ASSUME NEW S, IsFiniteSet(S), NEW f \in [S -> Int], \A x \in S : f[x] = 0
    PROVE  SumFunction(f) = 0
<1>1. PICK it : Sums(f, S, it) /\ SumFunction(f) = it[S]
  BY SumsOf
<1> DEFINE none == [s \in SUBSET S |-> 0]
<1>2. Sums(f, S, none)
  BY DEF Sums
<1>3. \A x \in S : f[x] <= f[x]
  OBVIOUS
<1> HIDE DEF none
<1>4. it[S] <= none[S] /\ none[S] <= it[S]
  BY <1>1, <1>2, <1>3, SumsLeq
<1>5. none[S] = 0 /\ it[S] \in Int
  BY <1>1 DEF none, Sums
<1> QED
  BY <1>1, <1>4, <1>5

\* A sum of natural numbers is one.
LEMMA SumNat ==
    ASSUME NEW S, IsFiniteSet(S), NEW f \in [S -> Int], \A x \in S : f[x] >= 0
    PROVE  SumFunction(f) \in Nat
<1> DEFINE none == [x \in S |-> 0]
<1>1. none \in [S -> Int] /\ \A x \in S : none[x] = 0 /\ none[x] <= f[x]
  OBVIOUS
<1> HIDE DEF none
<1>2. SumFunction(none) = 0 /\ SumFunction(none) <= SumFunction(f)
  BY <1>1, SumLeq, SumZero
<1> QED
  BY <1>2, SumInt

\* A sum of positive size has a positive term.
LEMMA SumPositive ==
    ASSUME NEW S, IsFiniteSet(S), NEW f \in [S -> Int], SumFunction(f) > 0
    PROVE  \E x \in S : f[x] > 0
<1> SUFFICES ASSUME \A x \in S : f[x] <= 0 PROVE FALSE
  OBVIOUS
<1> DEFINE zero == [x \in S |-> 0]
<1>1. zero \in [S -> Int] /\ \A x \in S : zero[x] = 0
  OBVIOUS
<1> HIDE DEF zero
<1>2. SumFunction(f) <= SumFunction(zero) /\ SumFunction(zero) = 0
  BY <1>1, SumLeq, SumZero
<1> QED
  BY <1>2, SumInt

\* Sums that differ at one element differ by what it differs.
LEMMA SumChange ==
    ASSUME NEW S, IsFiniteSet(S), NEW f \in [S -> Int], NEW g \in [S -> Int], NEW x \in S,
           \A y \in S \ {x} : g[y] = f[y]
    PROVE  SumFunction(g) = SumFunction(f) - f[x] + g[x]
<1>1. PICK u : Sums(f, S, u) /\ SumFunction(f) = u[S]
  BY SumsOf
<1>2. PICK v : Sums(g, S, v) /\ SumFunction(g) = v[S]
  BY SumsOf
<1>3. \A y \in S \ {x} : f[y] <= g[y] /\ g[y] <= f[y]
  OBVIOUS
<1>4. u[S \ {x}] <= v[S \ {x}] /\ v[S \ {x}] <= u[S \ {x}]
  BY <1>1, <1>2, <1>3, SumsLeq
<1>5. u[S] = f[x] + u[S \ {x}] /\ v[S] = g[x] + v[S \ {x}]
  BY <1>1, <1>2 DEF Sums
<1>6. u[S \ {x}] \in Int /\ v[S \ {x}] \in Int /\ f[x] \in Int /\ g[x] \in Int
  BY <1>1, <1>2 DEF Sums
<1> QED
  BY <1>1, <1>2, <1>4, <1>5, <1>6

\* The sum of a difference is the difference of the sums.
LEMMA SumMinus ==
    ASSUME NEW S, IsFiniteSet(S), NEW f \in [S -> Int], NEW g \in [S -> Int],
           NEW h \in [S -> Int], \A x \in S : h[x] = f[x] - g[x]
    PROVE  SumFunction(h) = SumFunction(f) - SumFunction(g)
<1>1. PICK u : Sums(f, S, u) /\ SumFunction(f) = u[S]
  BY SumsOf
<1>2. PICK v : Sums(g, S, v) /\ SumFunction(g) = v[S]
  BY SumsOf
<1>3. PICK w : Sums(h, S, w) /\ SumFunction(h) = w[S]
  BY SumsOf
<1> DEFINE d == [s \in SUBSET S |-> u[s] - v[s]]
<1>4. Sums(h, S, d)
  <2>1. d \in [SUBSET S -> Int] /\ d[{}] = 0
    BY <1>1, <1>2 DEF Sums
  <2>2. ASSUME NEW s \in SUBSET S, NEW x \in s PROVE d[s] = h[x] + d[s \ {x}]
    <3>1. u[s] = f[x] + u[s \ {x}] /\ v[s] = g[x] + v[s \ {x}]
      BY <1>1, <1>2 DEF Sums
    <3>2. u[s \ {x}] \in Int /\ v[s \ {x}] \in Int /\ f[x] \in Int /\ g[x] \in Int
      BY <1>1, <1>2 DEF Sums
    <3>3. d[s] = u[s] - v[s] /\ d[s \ {x}] = u[s \ {x}] - v[s \ {x}] /\ h[x] = f[x] - g[x]
      OBVIOUS
    <3> QED
      BY <3>1, <3>2, <3>3
  <2> QED
    BY <2>1, <2>2 DEF Sums
<1>5. d[S] = u[S] - v[S] /\ u[S] \in Int /\ v[S] \in Int /\ w[S] \in Int
  BY <1>1, <1>2, <1>3 DEF Sums
<1> HIDE DEF d
<1>6. \A x \in S : h[x] <= h[x]
  OBVIOUS
<1>7. w[S] <= d[S] /\ d[S] <= w[S]
  BY <1>3, <1>4, <1>6, SumsLeq
<1> QED
  BY <1>1, <1>2, <1>3, <1>5, <1>7

-----------------------------------------------------------------------------
(* Materials.  Nothing is kept of the units a lot gave to a ticket: that a  *)
(* lot is left to return them to follows from the sums over all lots and    *)
(* all tickets, and that the material is not written from a stale copy from *)
(* the order in which consumptions ask for their rows.                      *)

\* What is missing from the lots that are not annulled, what is left in them, and
\* what the tickets hold.
Missing == [e \in Lots |-> IF lot[e].voided THEN 0 ELSE lot[e].original - lot[e].remaining]

Left == [e \in Lots |-> IF lot[e].voided THEN 0 ELSE lot[e].remaining]

Held == [k \in Tickets |-> material[k].used]

Consuming(p) == tx[p].kind = "consume"

\* The rows a consumption has locked can still be taken from; once it writes there
\* is one at least, and the material of its ticket is as it read it.
Backed(p) ==
    Consuming(p) =>
        /\ tx[p].qty > 0
        /\ \E k \in Tickets : tx[p].ticket = {k}
        /\ \A e \in tx[p].rows : rowLock[e] = p => e \in Available
        /\ tx[p].pc = "write" =>
              /\ tx[p].rows # {}
              /\ \A k \in tx[p].ticket : tx[p].mat = material[k]

\* Of two consumptions one asks for all that is available of the other's rows.
Ordered ==
    \A p, q \in Sessions : Consuming(p) /\ Consuming(q) =>
        \/ tx[p].rows \cap Available \subseteq tx[q].rows
        \/ tx[q].rows \cap Available \subseteq tx[p].rows

\* What the sessions that run alone know.
Informed(p) ==
    /\ tx[p].kind = "return" =>
          /\ \E k \in Tickets : tx[p].ticket = {k} /\ tx[p].mat = material[k]
          /\ tx[p].pc = "write" => \E e \in Lots : tx[p].rows = {e}
    /\ tx[p].kind = "out" => tx[p].qty > 0
    /\ tx[p].kind = "void" =>
          \E e \in Lots : /\ tx[p].rows = {e}
                          /\ tx[p].seen[e].remaining >= tx[p].seen[e].original

\* The tickets hold no more than is missing from the lots.
Accounted ==
    /\ \A k \in Tickets : billed[k] = material[k].used
    /\ \A e \in Lots : /\ lot[e].stored => lot[e].original > 0
                       /\ ~lot[e].stored => lot[e].original = 0
                       /\ lot[e].voided => lot[e].remaining >= lot[e].original
    /\ SumFunction(Held) <= SumFunction(Missing)

MaterialInv ==
    StockInv /\ (\A p \in Sessions : Backed(p) /\ Informed(p)) /\ Ordered /\ Accounted

LEMMA SumTypes ==
    ASSUME TypeOK
    PROVE  /\ Missing \in [Lots -> Int] /\ Left \in [Lots -> Int] /\ Held \in [Tickets -> Int]
           /\ \A e \in Lots : Left[e] >= 0
<1>1. \A e \in Lots : lot[e].original \in Nat /\ lot[e].remaining \in Nat
  BY DEF TypeOK, LotRows
<1>2. \A k \in Tickets : material[k].used \in Nat
  BY DEF TypeOK, Materials
<1> QED
  BY <1>1, <1>2 DEF Missing, Left, Held

\* Two consumptions never write at the same time: they would share a locked row.
LEMMA OneWriter ==
    ASSUME MaterialInv, NEW p \in Sessions, NEW q \in Sessions, p # q, Consuming(p), Consuming(q)
    PROVE  tx[p].pc # "write" \/ tx[q].pc # "write"
<1> SUFFICES ASSUME tx[p].pc = "write", tx[q].pc = "write" PROVE FALSE
  OBVIOUS
<1>1. /\ tx[p].rows # {} /\ \A e \in tx[p].rows : rowLock[e] = p /\ e \in Available
      /\ tx[q].rows # {} /\ \A e \in tx[q].rows : rowLock[e] = q /\ e \in Available
  BY DEF MaterialInv, Backed, Consuming, StockInv, LockInv, Current
<1>2. \/ tx[p].rows \cap Available \subseteq tx[q].rows
      \/ tx[q].rows \cap Available \subseteq tx[p].rows
  BY DEF MaterialInv, Ordered
<1> QED
  BY <1>1, <1>2

\* What a plan does to the lots and to the sums over them.
LEMMA TakeSums ==
    ASSUME TypeOK, TypeOK', LotsAgree, NEW rows \in SUBSET Lots, NEW seen \in [Lots -> LotRows],
           NEW qty \in Nat, NEW take \in Plans(rows, seen, qty),
           \A e \in rows : lot[e].stored /\ ~lot[e].voided /\ seen[e] = lot[e],
           lot' = TakeFrom(seen, take)
    PROVE  /\ \A e \in Lots : /\ lot'[e].stored = lot[e].stored /\ lot'[e].voided = lot[e].voided
                              /\ lot'[e].original = lot[e].original
                              /\ lot'[e].voided => lot'[e].remaining = lot[e].remaining
           /\ Available' \subseteq Available
           /\ SumFunction(Missing') = SumFunction(Missing) + qty
           /\ SumFunction(Left') = SumFunction(Left) - qty
<1>1. take \in [Lots -> Nat] /\ SumFunction(take) = qty
  <2> DEFINE units == [e \in Lots |-> seen[e].remaining]
  <2>1. DOMAIN units = Lots
    OBVIOUS
  <2> QED
    BY <2>1 DEF Plans, FifoTakes
<1>2. ASSUME NEW e \in Lots
      PROVE  /\ lot'[e].stored = lot[e].stored /\ lot'[e].voided = lot[e].voided
             /\ lot'[e].original = lot[e].original
             /\ lot'[e].remaining = lot[e].remaining - take[e]
             /\ lot[e].exhausted => lot'[e].exhausted
             /\ take[e] > 0 => ~lot[e].voided
  <2>1. lot[e] \in LotRows /\ take[e] \in Nat /\ (e \notin rows => take[e] = 0)
    <3>1. take[e] \in Nat /\ (e \notin rows => take[e] = 0)
      BY PlanBounds
    <3> QED
      BY <3>1 DEF TypeOK
  <2>2. CASE take[e] = 0
    <3>1. lot'[e] = lot[e]
      BY <2>2 DEF TakeFrom
    <3>2. lot[e].remaining \in Nat
      BY <2>1 DEF LotRows
    <3> QED
      BY <2>2, <3>1, <3>2
  <2>3. CASE take[e] > 0
    <3>1. e \in rows /\ take[e] # 0
      BY <2>1, <2>3
    <3>2. lot'[e] = [lot[e] EXCEPT !.remaining = seen[e].remaining - take[e],
                                   !.exhausted = @ \/ seen[e].remaining = take[e]]
      BY <3>1 DEF TakeFrom
    <3> QED
      BY <2>1, <3>1, <3>2 DEF LotRows
  <2> QED
    BY <2>1, <2>2, <2>3
<1>3. \A e \in Lots : /\ take[e] \in Nat /\ lot[e].remaining \in Nat /\ lot[e].original \in Nat
                      /\ lot'[e].remaining \in Nat
  BY <1>1 DEF TypeOK, LotRows
<1>4. \A e \in Lots : take[e] = Missing'[e] - Missing[e] /\ take[e] = Left[e] - Left'[e]
  BY <1>2, <1>3 DEF Missing, Left
<1>5. /\ Missing \in [Lots -> Int] /\ Left \in [Lots -> Int]
      /\ Missing' \in [Lots -> Int] /\ Left' \in [Lots -> Int] /\ take \in [Lots -> Int]
  <2>1. /\ Missing \in [Lots -> Int] /\ Left \in [Lots -> Int]
    BY SumTypes
  <2>2. Missing' \in [Lots -> Int] /\ Left' \in [Lots -> Int]
    BY <1>2, <1>3 DEF Missing, Left
  <2> QED
    BY <1>1, <2>1, <2>2
<1>6. /\ SumFunction(take) = SumFunction(Missing') - SumFunction(Missing)
      /\ SumFunction(take) = SumFunction(Left) - SumFunction(Left')
  BY <1>4, <1>5, StockFinite, SumMinus
<1>7. /\ SumFunction(Missing) \in Int /\ SumFunction(Missing') \in Int
      /\ SumFunction(Left) \in Int /\ SumFunction(Left') \in Int
  BY <1>5, StockFinite, SumInt
<1>8. Available' \subseteq Available
  BY <1>2, <1>3 DEF Available
<1>9. \A e \in Lots : lot'[e].voided => lot'[e].remaining = lot[e].remaining
  <2>1. \A e \in Lots : take[e] > 0 \/ take[e] = 0
    BY <1>3
  <2> QED
    BY <1>2, <1>3, <2>1
<1> QED
  BY <1>1, <1>2, <1>6, <1>7, <1>8, <1>9

\* A step of session p that writes nothing but where it stands.
LEMMA QuietMaterial ==
    ASSUME MaterialInv, StockInv', NEW p \in Sessions, UNCHANGED <<lot, material, billed>>,
           \A q \in Sessions \ {p} : tx'[q] = tx[q],
           \A e \in Lots : \/ rowLock'[e] = rowLock[e]
                           \/ {rowLock[e], rowLock'[e]} \subseteq {p, NoSession},
           Backed(p)', Informed(p)',
           Consuming(p)' => \/ tx'[p].rows = Available
                            \/ /\ Consuming(p)
                               /\ tx'[p].rows \cap Available = tx[p].rows \cap Available
    PROVE  MaterialInv'
<1>1. Available' = Available
  BY DEF Available
<1>2. ASSUME NEW q \in Sessions \ {p} PROVE Backed(q)' /\ Informed(q)'
  <2>1. /\ Backed(q) /\ Informed(q) /\ tx'[q] = tx[q] /\ q # NoSession
        /\ tx[q].rows \subseteq Lots
    BY StockNames DEF MaterialInv, StockInv, LockInv, TypeOK, Transactions
  <2>2. \A e \in tx[q].rows : rowLock'[e] = q => rowLock[e] = q
    BY <2>1
  <2>3. Backed(q)'
    BY <1>1, <2>1, <2>2 DEF Backed, Consuming
  <2>4. Informed(q)'
    BY <2>1 DEF Informed
  <2> QED
    BY <2>3, <2>4
<1>3. Ordered'
  <2> SUFFICES ASSUME NEW q \in Sessions, NEW r \in Sessions, Consuming(q)', Consuming(r)'
               PROVE  \/ tx'[q].rows \cap Available \subseteq tx'[r].rows
                      \/ tx'[r].rows \cap Available \subseteq tx'[q].rows
    BY <1>1 DEF Ordered
  <2>1. \A s \in Sessions : Consuming(s)' =>
          \/ tx'[s].rows = Available
          \/ Consuming(s) /\ tx'[s].rows \cap Available = tx[s].rows \cap Available
    BY DEF Consuming
  <2>2. CASE tx'[q].rows = Available \/ tx'[r].rows = Available
    BY <2>2
  <2>3. CASE /\ Consuming(q) /\ tx'[q].rows \cap Available = tx[q].rows \cap Available
             /\ Consuming(r) /\ tx'[r].rows \cap Available = tx[r].rows \cap Available
    <3>1. \/ tx[q].rows \cap Available \subseteq tx[r].rows
          \/ tx[r].rows \cap Available \subseteq tx[q].rows
      BY <2>3 DEF MaterialInv, Ordered
    <3> QED
      BY <2>3, <3>1
  <2> QED
    BY <2>1, <2>2, <2>3
<1>4. Accounted'
  <2>1. Held' = Held /\ Missing' = Missing /\ Accounted
    BY DEF Held, Missing, MaterialInv
  <2> QED
    BY <2>1 DEF Accounted
<1> QED
  BY <1>2, <1>3, <1>4 DEF MaterialInv

\* A commit: of a session that runs alone, or of a consumption among others.
LEMMA FinishMaterial ==
    ASSUME MaterialInv, StockInv', NEW p \in Sessions, tx[p].pc = "write", Finish(p), Accounted',
           \/ Unlocked(p)
           \/ /\ Consuming(p) /\ Available' \subseteq Available
              /\ \A e \in Lots : lot'[e] = lot[e] \/ rowLock[e] \in {p, NoSession}
    PROVE  MaterialInv'
<1>1. /\ tx'[p] = Idle /\ \A q \in Sessions \ {p} : tx'[q] = tx[q]
      /\ \A e \in Lots : rowLock'[e] = IF rowLock[e] = p THEN NoSession ELSE rowLock[e]
  BY DEF MaterialInv, StockInv, LockInv, TypeOK, Finish
<1>2. Backed(p)' /\ Informed(p)' /\ ~Consuming(p)'
  BY <1>1 DEF Backed, Informed, Consuming, Idle
<1>3. /\ \A q \in Sessions \ {p} : ~Unlocked(q)
      /\ Unlocked(p) => \A q \in Sessions \ {p} : tx[q].kind = "none"
  BY BusyAlone DEF MaterialInv
<1>4. ASSUME NEW q \in Sessions \ {p} PROVE Informed(q)'
  BY <1>1, <1>3 DEF Informed, Unlocked
<1>5. CASE Unlocked(p)
  <2>1. \A q \in Sessions \ {p} : ~Consuming(q)'
    BY <1>1, <1>3, <1>5 DEF Consuming
  <2>2. Ordered' /\ \A q \in Sessions \ {p} : Backed(q)'
    BY <1>2, <2>1 DEF Ordered, Backed
  <2> QED
    BY <1>2, <1>4, <2>2 DEF MaterialInv
<1>6. CASE /\ Consuming(p) /\ Available' \subseteq Available
           /\ \A e \in Lots : lot'[e] = lot[e] \/ rowLock[e] \in {p, NoSession}
  <2>1. ASSUME NEW q \in Sessions \ {p} PROVE Backed(q)'
    <3> SUFFICES ASSUME Consuming(q) PROVE Backed(q)'
      BY <1>1 DEF Backed, Consuming
    <3>1. tx'[q] = tx[q] /\ Backed(q) /\ q # NoSession /\ tx[q].rows \subseteq Lots
      BY <1>1, StockNames DEF MaterialInv, StockInv, LockInv, TypeOK, Transactions
    <3>2. tx[q].pc # "write"
      BY <1>6, OneWriter
    <3>3. ASSUME NEW e \in tx[q].rows, rowLock'[e] = q PROVE e \in Available'
      <4>1. rowLock[e] = q /\ lot'[e] = lot[e]
        BY <1>1, <1>6, <3>1, <3>3
      <4>2. e \in Available
        BY <3>1, <4>1 DEF Backed
      <4> QED
        BY <4>1, <4>2 DEF Available
    <3> QED
      BY <3>1, <3>2, <3>3 DEF Backed, Consuming
  <2>2. Ordered'
    <3> SUFFICES ASSUME NEW q \in Sessions, NEW r \in Sessions, Consuming(q)', Consuming(r)'
                 PROVE  \/ tx'[q].rows \cap Available' \subseteq tx'[r].rows
                        \/ tx'[r].rows \cap Available' \subseteq tx'[q].rows
      BY DEF Ordered
    <3>1. tx'[q] = tx[q] /\ tx'[r] = tx[r] /\ Consuming(q) /\ Consuming(r)
      BY <1>1, <1>2 DEF Consuming
    <3>2. \/ tx[q].rows \cap Available \subseteq tx[r].rows
          \/ tx[r].rows \cap Available \subseteq tx[q].rows
      BY <3>1 DEF MaterialInv, Ordered
    <3> QED
      BY <1>6, <3>1, <3>2
  <2> QED
    BY <1>2, <1>4, <2>1, <2>2 DEF MaterialInv
<1> QED
  BY <1>5, <1>6

LEMMA RollbackMaterial ==
    ASSUME MaterialInv, NEW p \in Sessions, tx[p].pc # "idle", Rollback(p) PROVE MaterialInv'
<1>1. StockInv' /\ Finish(p) /\ UNCHANGED <<lot, material, billed>>
  BY RollbackStock DEF MaterialInv, Rollback
<1>2. /\ tx'[p] = Idle /\ \A q \in Sessions \ {p} : tx'[q] = tx[q]
      /\ \A e \in Lots : rowLock'[e] = IF rowLock[e] = p THEN NoSession ELSE rowLock[e]
  BY <1>1 DEF MaterialInv, StockInv, LockInv, TypeOK, Finish
<1>3. Backed(p)' /\ Informed(p)' /\ ~Consuming(p)'
  BY <1>2 DEF Backed, Informed, Consuming, Idle
<1> QED
  BY <1>1, <1>2, <1>3, QuietMaterial

LEMMA InitMaterial == Init => MaterialInv
<1> SUFFICES ASSUME Init PROVE MaterialInv
  OBVIOUS
<1>1. StockInv /\ TypeOK
  BY InitStock DEF StockInv, LockInv
<1>2. \A p \in Sessions : Backed(p) /\ Informed(p) /\ ~Consuming(p)
  BY DEF Init, Backed, Informed, Consuming, Idle
<1>3. /\ \A e \in Lots : lot[e] = NoLot /\ Missing[e] = 0
      /\ \A k \in Tickets : Held[k] = 0 /\ billed[k] = 0 /\ material[k].used = 0
  BY DEF Init, Missing, Held, NoLot
<1>4. SumFunction(Held) = 0 /\ SumFunction(Missing) = 0
  BY <1>1, <1>3, SumTypes, SumZero, StockFinite
<1>5. Accounted
  BY <1>3, <1>4 DEF Accounted, NoLot
<1> QED
  BY <1>1, <1>2, <1>5 DEF MaterialInv, Ordered

LEMMA StartMaterial ==
    ASSUME OnlyConsumptions, MaterialInv, StockInv', NEW p \in Sessions,
           NEW kind \in {"consume", "return", "out", "void"}, NEW t \in Transactions,
           Start(p, kind, t),
           kind = "consume" => /\ t.pc = "lock" /\ t.rows = Available /\ t.qty > 0
                               /\ \E k \in Tickets : t.ticket = {k},
           kind = "return" => /\ t.pc = "latest"
                              /\ \E k \in Tickets : t.ticket = {k} /\ t.mat = material[k],
           kind = "out" => t.qty > 0,
           kind = "void" => \E e \in Lots : /\ t.rows = {e}
                                            /\ t.seen[e].remaining >= t.seen[e].original
    PROVE  MaterialInv'
<1> DEFINE u == [t EXCEPT !.kind = kind]
<1>1. /\ u.kind = kind /\ u.pc = t.pc /\ u.rows = t.rows /\ u.qty = t.qty
      /\ u.seen = t.seen /\ u.mat = t.mat /\ u.ticket = t.ticket
  BY DEF Transactions
<1>2. /\ tx' = [tx EXCEPT ![p] = u] /\ tx[p].pc = "idle"
      /\ UNCHANGED <<lot, material, billed, rowLock>>
  BY DEF Start
<1> HIDE DEF u
<1>3. tx'[p] = u /\ \A q \in Sessions \ {p} : tx'[q] = tx[q]
  BY <1>2 DEF MaterialInv, StockInv, LockInv, TypeOK
<1>4. \A e \in Lots : rowLock[e] # p
  BY <1>2, StockNames DEF MaterialInv, StockInv, LockInv, Shape
<1>5. u.rows \subseteq Lots
  BY <1>1 DEF Transactions
<1>6. Backed(p)'
  BY <1>1, <1>2, <1>3, <1>4, <1>5 DEF Backed, Consuming
<1>7. Informed(p)'
  BY <1>1, <1>2, <1>3 DEF Informed
<1>8. Consuming(p)' => tx'[p].rows = Available
  BY <1>1, <1>3 DEF Consuming
<1>9. \A e \in Lots : rowLock'[e] = rowLock[e]
  BY <1>2
<1> QED
  BY <1>2, <1>3, <1>6, <1>7, <1>8, <1>9, QuietMaterial

LEMMA BeginMaterial ==
    ASSUME OnlyConsumptions, MaterialInv, NEW p \in Sessions, Begin(p) PROVE MaterialInv'
<1>0. TypeOK /\ StockInv'
  BY BeginStock DEF MaterialInv, StockInv, LockInv
<1>1. ASSUME NEW n \in Quantities, BeginAdjustOut(p, n) PROVE MaterialInv'
  <2> DEFINE t == [Idle EXCEPT !.pc = "write", !.qty = n, !.rows = Available, !.seen = lot]
  <2>1. n \in Nat /\ n > 0
    BY StockBounds DEF Quantities
  <2>2. t \in Transactions
    BY <1>0, <2>1, IdleType DEF TypeOK, Transactions, Available
  <2>3. t.qty > 0
    BY <2>1 DEF Idle
  <2>4. Start(p, "out", t)
    BY <1>1 DEF BeginAdjustOut
  <2> HIDE DEF t
  <2> QED
    BY <1>0, <2>2, <2>3, <2>4, StartMaterial
<1>2. ASSUME NEW n \in Quantities, NEW k \in Tickets, BeginConsume(p, k, n) PROVE MaterialInv'
  <2> DEFINE t == [Idle EXCEPT !.pc = "lock", !.ticket = {k}, !.qty = n, !.rows = Available]
  <2>1. n \in Nat /\ n > 0
    BY StockBounds DEF Quantities
  <2>2. t \in Transactions
    BY <2>1, IdleType DEF Transactions, Available
  <2>3. t.pc = "lock" /\ t.qty > 0 /\ t.rows = Available /\ t.ticket = {k}
    BY <2>1 DEF Idle
  <2>4. Start(p, "consume", t)
    BY <1>2 DEF BeginConsume
  <2> HIDE DEF t
  <2> QED
    BY <1>0, <2>2, <2>3, <2>4, StartMaterial
<1>3. ASSUME NEW k \in Tickets, BeginReturn(p, k) PROVE MaterialInv'
  <2> DEFINE t == [Idle EXCEPT !.pc = "latest", !.ticket = {k}, !.mat = material[k]]
  <2>1. t \in Transactions
    BY <1>0, IdleType DEF TypeOK, Transactions
  <2>2. t.pc = "latest" /\ t.ticket = {k} /\ t.mat = material[k]
    BY DEF Idle
  <2>3. Start(p, "return", t)
    BY <1>3 DEF BeginReturn
  <2> HIDE DEF t
  <2> QED
    BY <1>0, <2>1, <2>2, <2>3, StartMaterial
<1>4. ASSUME NEW e \in Lots, BeginVoid(p, e) PROVE MaterialInv'
  <2> DEFINE t == [Idle EXCEPT !.pc = "write", !.rows = {e}, !.seen[e] = lot[e]]
  <2>1. t \in Transactions
    BY <1>0, IdleType DEF TypeOK, Transactions
  <2>2. t.rows = {e} /\ t.seen[e] = lot[e]
    BY DEF Idle
  <2>3. Start(p, "void", t) /\ lot[e].remaining >= lot[e].original
    BY <1>4 DEF BeginVoid, Voidable
  <2> HIDE DEF t
  <2> QED
    BY <1>0, <2>1, <2>2, <2>3, StartMaterial
<1> QED
  BY <1>1, <1>2, <1>3, <1>4 DEF Begin

\* A plan of a positive quantity takes from some row.
LEMMA PlanTakes ==
    ASSUME NEW rows \in SUBSET Lots, NEW seen \in [Lots -> LotRows], NEW qty \in Nat, qty > 0,
           NEW take \in Plans(rows, seen, qty)
    PROVE  \E e \in rows : take[e] > 0
<1> DEFINE units == [e \in Lots |-> seen[e].remaining]
<1>1. DOMAIN units = Lots
  OBVIOUS
<1>2. take \in [Lots -> Int] /\ SumFunction(take) = qty
  BY <1>1 DEF Plans, FifoTakes
<1>3. PICK e \in Lots : take[e] > 0
  BY <1>2, SumPositive, StockFinite
<1>4. e \notin rows => take[e] = 0
  BY PlanBounds
<1> QED
  BY <1>3, <1>4

LEMMA LockLotsMaterial ==
    ASSUME MaterialInv, NEW p \in Sessions, LockLots(p) PROVE MaterialInv'
<1> DEFINE t == tx[p]
           wanted == {e \in t.rows : rowLock[e] # p}
<1>0. /\ TypeOK /\ t \in Transactions /\ StockInv' /\ Backed(p)
      /\ t.pc = "lock" /\ t.kind = "consume" /\ t.pc # "idle" /\ Consuming(p)
  BY LockLotsStock DEF MaterialInv, StockInv, LockInv, TypeOK, Shape, LockLots, Consuming
<1>1. t.qty > 0 /\ t.qty \in Nat /\ t.rows \in SUBSET Lots /\ t.seen \in [Lots -> LotRows]
  BY <1>0 DEF Backed, Transactions
<1>2. PICK k \in Tickets : t.ticket = {k}
  BY <1>0 DEF Backed
<1>3. \A e \in t.rows : rowLock[e] = p => e \in Available
  BY <1>0 DEF Backed
<1>4. ASSUME NEW e \in wanted, rowLock[e] = NoSession, rowLock' = [rowLock EXCEPT ![e] = p],
             tx' = [tx EXCEPT ![p].rows = IF e \in Available THEN @ ELSE @ \ {e},
                              ![p].seen[e] = lot[e]],
             UNCHANGED <<lot, material, ledger, billed, active, starts>>
      PROVE  MaterialInv'
  <2>1. e \in Lots
    BY <1>1
  <2>2. /\ tx'[p].rows = (IF e \in Available THEN t.rows ELSE t.rows \ {e})
        /\ tx'[p].qty = t.qty /\ tx'[p].ticket = t.ticket /\ tx'[p].pc = "lock"
        /\ tx'[p].kind = "consume"
        /\ \A q \in Sessions \ {p} : tx'[q] = tx[q]
    BY <1>0, <1>4 DEF TypeOK, Transactions
  <2>3. \A d \in Lots : rowLock'[d] = IF d = e THEN p ELSE rowLock[d]
    BY <1>0, <1>4, <2>1 DEF TypeOK
  <2>4. Available' = Available
    BY <1>4 DEF Available
  <2>5. Backed(p)'
    <3>1. \A d \in tx'[p].rows : rowLock'[d] = p => d \in Available
      BY <1>1, <1>3, <2>2, <2>3
    <3> QED
      BY <1>1, <1>2, <2>2, <2>4, <3>1 DEF Backed
  <2>6. Informed(p)'
    BY <2>2 DEF Informed
  <2>7. tx'[p].rows \cap Available = t.rows \cap Available
    BY <2>2
  <2> QED
    BY <1>0, <1>4, <2>2, <2>3, <2>5, <2>6, <2>7, QuietMaterial
<1>5. ASSUME wanted = {}, Plans(t.rows, t.seen, t.qty) # {},
             Advance(p, [t EXCEPT !.pc = "write", !.mat = material[k]])
      PROVE  MaterialInv'
  <2>1. /\ tx'[p].rows = t.rows /\ tx'[p].qty = t.qty /\ tx'[p].ticket = t.ticket
        /\ tx'[p].kind = "consume" /\ tx'[p].mat = material[k]
        /\ \A q \in Sessions \ {p} : tx'[q] = tx[q]
        /\ UNCHANGED <<lot, material, billed, rowLock>>
    BY <1>0, <1>5 DEF TypeOK, Transactions, Advance
  <2>2. Available' = Available
    BY <2>1 DEF Available
  <2>3. t.rows # {}
    <3> HIDE DEF t
    <3> QED
      BY <1>1, <1>5, PlanTakes
  <2>4. Backed(p)'
    BY <1>1, <1>2, <1>3, <2>1, <2>2, <2>3 DEF Backed
  <2>5. Informed(p)'
    BY <2>1 DEF Informed
  <2>6. \A d \in Lots : rowLock'[d] = rowLock[d]
    BY <2>1
  <2> QED
    BY <1>0, <2>1, <2>4, <2>5, <2>6, QuietMaterial
<1>6. CASE Rollback(p)
  BY <1>0, <1>6, RollbackMaterial
<1> QED
  BY <1>2, <1>4, <1>5, <1>6 DEF LockLots

\* While a ticket holds material there is a lot to return it to.
LEMMA SomeLotLeft ==
    ASSUME TypeOK, Accounted, LotsAgree, NEW k \in Tickets, material[k].used > 0
    PROVE  LiveLots # {}
<1>1. /\ Held \in [Tickets -> Int] /\ Missing \in [Lots -> Int]
      /\ \A j \in Tickets : Held[j] = material[j].used /\ Held[j] >= 0
  BY SumTypes DEF Held, TypeOK, Materials
<1>2. k \in Tickets /\ Held[k] > 0
  BY <1>1
<1>3. SumFunction(Held) > 0
  <2> DEFINE rest == [Held EXCEPT ![k] = 0]
  <2>1. rest \in [Tickets -> Int] /\ rest[k] = 0 /\ \A j \in Tickets \ {k} : rest[j] = Held[j]
    BY <1>1
  <2>2. \A j \in Tickets : rest[j] >= 0
    BY <1>1, <2>1
  <2> HIDE DEF rest
  <2>3. SumFunction(rest) \in Nat
    BY <2>1, <2>2, SumNat, StockFinite
  <2>4. SumFunction(rest) = SumFunction(Held) - Held[k] + rest[k]
    BY <1>1, <2>1, SumChange, StockFinite
  <2>5. SumFunction(Held) \in Int /\ Held[k] \in Int
    BY <1>1, SumInt, StockFinite
  <2> QED
    BY <1>2, <2>1, <2>3, <2>4, <2>5
<1>4. SumFunction(Missing) > 0
  <2>1. SumFunction(Held) \in Int /\ SumFunction(Missing) \in Int
    BY <1>1, SumInt, StockFinite
  <2> QED
    BY <1>3, <2>1 DEF Accounted
<1>5. PICK e \in Lots : Missing[e] > 0
  BY <1>1, <1>4, SumPositive, StockFinite
<1>6. ~lot[e].voided /\ lot[e].original - lot[e].remaining > 0
  BY <1>5 DEF Missing
<1>7. lot[e].stored
  BY <1>6 DEF Accounted, LotsAgree
<1> QED
  BY <1>6, <1>7 DEF LiveLots

LEMMA ReadLatestMaterial ==
    ASSUME MaterialInv, NEW p \in Sessions, ReadLatest(p) PROVE MaterialInv'
<1> DEFINE t == tx[p]
<1>0. /\ TypeOK /\ t \in Transactions /\ StockInv' /\ Informed(p)
      /\ t.pc = "latest" /\ t.kind = "return"
  BY ReadLatestStock DEF MaterialInv, StockInv, LockInv, TypeOK, Shape, ReadLatest
<1>1. PICK k \in Tickets : t.ticket = {k} /\ t.mat = material[k]
  BY <1>0 DEF Informed
<1>2. material[k].used > 0
  BY <1>0, <1>1 DEF MaterialInv, StockInv, Fresh
<1>3. LiveLots # {}
  BY <1>0, <1>2, SomeLotLeft DEF MaterialInv, StockInv
<1>4. PICK e \in LiveLots : Advance(p, [t EXCEPT !.pc = "write", !.rows = {e}, !.seen[e] = lot[e]])
  BY <1>3 DEF ReadLatest
<1>5. /\ tx'[p].rows = {e} /\ tx'[p].ticket = {k} /\ tx'[p].mat = material[k]
      /\ tx'[p].kind = "return"
      /\ \A q \in Sessions \ {p} : tx'[q] = tx[q]
      /\ UNCHANGED <<lot, material, billed, rowLock>>
  BY <1>0, <1>1, <1>4 DEF TypeOK, Transactions, Advance
<1>6. Backed(p)' /\ ~Consuming(p)'
  BY <1>5 DEF Backed, Consuming
<1>7. Informed(p)'
  BY <1>4, <1>5 DEF Informed, LiveLots
<1>8. \A d \in Lots : rowLock'[d] = rowLock[d]
  BY <1>5
<1> QED
  BY <1>0, <1>5, <1>6, <1>7, <1>8, QuietMaterial

\* What a commit of a consumption writes: a plan from current rows, and what the
\* ticket held besides what it takes now.
LEMMA ConsumeWrites ==
    ASSUME MaterialInv, NEW p \in Sessions, CommitConsume(p), ~Rollback(p)
    PROVE  /\ tx[p].pc = "write" /\ Consuming(p) /\ Finish(p) /\ Accounted'
           /\ Available' \subseteq Available
           /\ \A e \in Lots : lot'[e] = lot[e] \/ rowLock[e] \in {p, NoSession}
           /\ \E k \in Tickets :
                /\ Held' = [Held EXCEPT ![k] = @ + tx[p].qty]
                /\ tx[p].qty > 0 /\ SumFunction(Left') = SumFunction(Left) - tx[p].qty
<1> DEFINE t == tx[p]
<1>0. /\ TypeOK /\ TypeOK' /\ t \in Transactions /\ LotsAgree /\ Backed(p) /\ Accounted
      /\ t.pc = "write" /\ Consuming(p) /\ t.kind = "consume"
  BY CommitConsumeType DEF MaterialInv, StockInv, LockInv, TypeOK, CommitConsume, Consuming
<1>1. t.rows \in SUBSET Lots /\ t.seen \in [Lots -> LotRows] /\ t.qty \in Nat /\ t.qty > 0
  BY <1>0 DEF Transactions, Backed
<1>2. PICK k \in Tickets : t.ticket = {k} /\ t.mat = material[k]
  BY <1>0 DEF Backed
<1>3. PICK take \in Plans(t.rows, t.seen, t.qty) :
        /\ MayWrite(p, {e \in Lots : take[e] > 0})
        /\ lot' = TakeFrom(t.seen, take)
        /\ material' = [material EXCEPT ![k].used = Accumulated(t.mat, t.qty)]
        /\ billed' = [billed EXCEPT ![k] = @ + t.qty]
        /\ Finish(p)
  BY <1>2 DEF CommitConsume
<1>4. \A e \in t.rows : lot[e].stored /\ ~lot[e].voided /\ t.seen[e] = lot[e]
  BY <1>0 DEF MaterialInv, StockInv, LockInv, Current
<1>5. \A e \in Lots : lot'[e] = lot[e] \/ rowLock[e] \in {p, NoSession}
  <2> HIDE DEF t
  <2> QED
    BY <1>0, <1>1, <1>3, TakeHarmless
<1>6. /\ \A e \in Lots : /\ lot'[e].stored = lot[e].stored /\ lot'[e].voided = lot[e].voided
                         /\ lot'[e].original = lot[e].original
                         /\ lot'[e].voided => lot'[e].remaining = lot[e].remaining
      /\ Available' \subseteq Available
      /\ SumFunction(Missing') = SumFunction(Missing) + t.qty
      /\ SumFunction(Left') = SumFunction(Left) - t.qty
  <2> HIDE DEF t
  <2> QED
    BY <1>0, <1>1, <1>3, <1>4, TakeSums
<1>7. /\ material'[k].used = material[k].used + t.qty
      /\ \A j \in Tickets \ {k} : material'[j] = material[j]
      /\ \A j \in Tickets : material[j].used \in Nat
  BY <1>0, <1>2, <1>3 DEF Accumulated, TypeOK, Materials
<1>8. Held' = [Held EXCEPT ![k] = @ + t.qty]
  BY <1>7 DEF Held
<1>9. SumFunction(Held') = SumFunction(Held) + t.qty
  <2>1. /\ Held \in [Tickets -> Int] /\ Held' \in [Tickets -> Int]
        /\ Held'[k] = Held[k] + t.qty /\ Held[k] \in Int
        /\ \A j \in Tickets \ {k} : Held'[j] = Held[j]
    BY <1>1, <1>7 DEF Held
  <2>2. SumFunction(Held') = SumFunction(Held) - Held[k] + Held'[k]
    BY <2>1, SumChange, StockFinite
  <2>3. SumFunction(Held) \in Int
    BY <2>1, SumInt, StockFinite
  <2> QED
    BY <1>1, <2>1, <2>2, <2>3
<1>10. Accounted'
  <2>1. SumFunction(Held) \in Int /\ SumFunction(Missing) \in Int
    BY <1>0, SumTypes, SumInt, StockFinite
  <2>2. SumFunction(Held') <= SumFunction(Missing')
    BY <1>0, <1>1, <1>6, <1>9, <2>1 DEF Accounted
  <2>3. \A j \in Tickets : billed'[j] = material'[j].used
    <3>1. billed \in [Tickets -> Int] /\ \A j \in Tickets : billed[j] = material[j].used
      BY <1>0 DEF TypeOK, Accounted
    <3> QED
      BY <1>1, <1>3, <1>7, <3>1
  <2>4. \A e \in Lots : /\ lot'[e].stored => lot'[e].original > 0
                        /\ ~lot'[e].stored => lot'[e].original = 0
                        /\ lot'[e].voided => lot'[e].remaining >= lot'[e].original
    BY <1>0, <1>6 DEF Accounted
  <2> QED
    BY <2>2, <2>3, <2>4 DEF Accounted
<1> QED
  BY <1>0, <1>1, <1>3, <1>5, <1>6, <1>8, <1>10

LEMMA CommitConsumeMaterial ==
    ASSUME MaterialInv, NEW p \in Sessions, CommitConsume(p) PROVE MaterialInv'
<1>1. StockInv' /\ tx[p].pc # "idle"
  BY CommitConsumeStock DEF MaterialInv, CommitConsume
<1>2. CASE Rollback(p)
  BY <1>1, <1>2, RollbackMaterial
<1>3. CASE ~Rollback(p)
  BY <1>1, <1>3, ConsumeWrites, FinishMaterial
<1> QED
  BY <1>2, <1>3

\* What a return writes: everything the ticket holds goes to one lot.
LEMMA ReturnWrites ==
    ASSUME MaterialInv, NEW p \in Sessions, CommitReturn(p)
    PROVE  /\ tx[p].pc = "write" /\ Unlocked(p) /\ Finish(p) /\ Accounted'
           /\ \E k \in Tickets : /\ Held[k] > 0 /\ Held' = [Held EXCEPT ![k] = 0]
                                 /\ SumFunction(Left') = SumFunction(Left) + Held[k]
<1> DEFINE t == tx[p]
<1>0. /\ TypeOK /\ TypeOK' /\ t \in Transactions /\ LotsAgree /\ Accounted
      /\ t.pc = "write" /\ t.kind = "return" /\ Fresh(p) /\ Informed(p) /\ Unlocked(p)
      /\ Finish(p)
  BY CommitReturnType DEF MaterialInv, StockInv, LockInv, TypeOK, CommitReturn, Unlocked
<1>1. PICK k \in Tickets : t.ticket = {k} /\ t.mat = material[k]
  BY <1>0 DEF Informed
<1>2. PICK e \in Lots : t.rows = {e}
  BY <1>0 DEF Informed
<1>3. lot[e].stored /\ ~lot[e].voided /\ t.seen[e] = lot[e] /\ material[k].used > 0
  BY <1>0, <1>1, <1>2 DEF Fresh
<1>4. /\ \A d \in Lots : lot[d] \in LotRows
      /\ \A j \in Tickets : material[j] \in Materials /\ billed[j] = material[j].used
  BY <1>0 DEF TypeOK, Accounted
<1>5. /\ lot'[e].remaining = lot[e].remaining + material[k].used
      /\ lot'[e].original = lot[e].original /\ lot'[e].stored /\ ~lot'[e].voided
      /\ \A d \in Lots \ {e} : lot'[d] = lot[d]
  <2>1. lot'[e] = [lot[e] EXCEPT !.remaining = t.seen[e].remaining + t.mat.used,
                                 !.exhausted = Reopened(@, t.seen[e].exhausted)]
    BY <1>2 DEF CommitReturn
  <2>2. \A d \in Lots \ {e} : lot'[d] = lot[d]
    BY <1>2 DEF CommitReturn
  <2> QED
    BY <1>1, <1>3, <1>4, <2>1, <2>2 DEF LotRows
<1>6. /\ material'[k].used = 0 /\ billed'[k] = billed[k] - material[k].used
      /\ \A j \in Tickets \ {k} : material'[j] = material[j] /\ billed'[j] = billed[j]
  BY <1>1, <1>2 DEF CommitReturn
<1>7. /\ Held \in [Tickets -> Int] /\ Missing \in [Lots -> Int] /\ Left \in [Lots -> Int]
      /\ Held' \in [Tickets -> Int] /\ Missing' \in [Lots -> Int] /\ Left' \in [Lots -> Int]
  <2>1. /\ Held \in [Tickets -> Int] /\ Missing \in [Lots -> Int] /\ Left \in [Lots -> Int]
    BY <1>0, SumTypes
  <2>2. /\ \A d \in Lots : lot'[d] \in LotRows
        /\ \A j \in Tickets : material'[j] \in Materials
    BY <1>0 DEF TypeOK
  <2>3. \A d \in Lots : lot'[d].original \in Nat /\ lot'[d].remaining \in Nat
    BY <2>2 DEF LotRows
  <2>4. \A j \in Tickets : material'[j].used \in Nat
    BY <2>2 DEF Materials
  <2> QED
    BY <2>1, <2>3, <2>4 DEF Held, Missing, Left
<1>8. /\ Held[k] = material[k].used /\ Held'[k] = 0
      /\ \A j \in Tickets \ {k} : Held'[j] = Held[j]
  BY <1>6 DEF Held
<1>9. /\ Missing'[e] = Missing[e] - Held[k] /\ Left'[e] = Left[e] + Held[k]
      /\ \A d \in Lots \ {e} : Missing'[d] = Missing[d] /\ Left'[d] = Left[d]
  <2>1. lot[e].original \in Nat /\ lot[e].remaining \in Nat /\ material[k].used \in Nat
    BY <1>4 DEF LotRows, Materials
  <2> QED
    BY <1>3, <1>5, <1>8, <2>1 DEF Missing, Left
<1>10. /\ SumFunction(Held') = SumFunction(Held) - Held[k]
       /\ SumFunction(Missing') = SumFunction(Missing) - Held[k]
       /\ SumFunction(Left') = SumFunction(Left) + Held[k]
  <2>1. /\ SumFunction(Held') = SumFunction(Held) - Held[k] + Held'[k]
        /\ SumFunction(Missing') = SumFunction(Missing) - Missing[e] + Missing'[e]
        /\ SumFunction(Left') = SumFunction(Left) - Left[e] + Left'[e]
    BY <1>7, <1>8, <1>9, SumChange, StockFinite
  <2>2. /\ SumFunction(Held) \in Int /\ SumFunction(Missing) \in Int /\ SumFunction(Left) \in Int
        /\ Held[k] \in Int /\ Missing[e] \in Int /\ Left[e] \in Int
    BY <1>7, SumInt, StockFinite
  <2> QED
    BY <1>8, <1>9, <2>1, <2>2
<1>11. Held' = [Held EXCEPT ![k] = 0] /\ Held[k] > 0
  BY <1>3, <1>7, <1>8
<1>12. Accounted'
  <2>1. /\ SumFunction(Held) \in Int /\ SumFunction(Missing) \in Int /\ Held[k] \in Int
    BY <1>7, SumInt, StockFinite
  <2>2. SumFunction(Held') <= SumFunction(Missing')
    BY <1>0, <1>10, <2>1 DEF Accounted
  <2>3. \A j \in Tickets : billed'[j] = material'[j].used
    BY <1>4, <1>6 DEF Materials
  <2>4. \A d \in Lots : /\ lot'[d].stored => lot'[d].original > 0
                        /\ ~lot'[d].stored => lot'[d].original = 0
                        /\ lot'[d].voided => lot'[d].remaining >= lot'[d].original
    BY <1>0, <1>3, <1>5 DEF Accounted
  <2> QED
    BY <2>2, <2>3, <2>4 DEF Accounted
<1> QED
  BY <1>0, <1>10, <1>11, <1>12

\* What an adjustment writes: the stock goes down by its quantity.
LEMMA AdjustWrites ==
    ASSUME MaterialInv, NEW p \in Sessions, CommitAdjustOut(p)
    PROVE  /\ tx[p].pc = "write" /\ Unlocked(p) /\ Finish(p) /\ Accounted'
           /\ Held' = Held /\ tx[p].qty > 0 /\ tx[p].qty \in Nat
           /\ SumFunction(Left') = SumFunction(Left) - tx[p].qty
<1> DEFINE t == tx[p]
<1>0. /\ TypeOK /\ TypeOK' /\ t \in Transactions /\ LotsAgree /\ Accounted
      /\ t.pc = "write" /\ t.kind = "out" /\ Fresh(p) /\ Informed(p) /\ Unlocked(p)
      /\ Finish(p) /\ UNCHANGED <<material, billed>>
  BY CommitAdjustOutType DEF MaterialInv, StockInv, LockInv, TypeOK, CommitAdjustOut, Unlocked
<1>1. t.rows \in SUBSET Lots /\ t.seen \in [Lots -> LotRows] /\ t.qty \in Nat /\ t.qty > 0
  BY <1>0 DEF Transactions, Informed
<1>2. PICK take \in Plans(t.rows, t.seen, t.qty) : lot' = TakeFrom(t.seen, take)
  BY DEF CommitAdjustOut
<1>3. \A e \in t.rows : lot[e].stored /\ ~lot[e].voided /\ t.seen[e] = lot[e]
  BY <1>0 DEF Fresh
<1>4. /\ \A e \in Lots : /\ lot'[e].stored = lot[e].stored /\ lot'[e].voided = lot[e].voided
                         /\ lot'[e].original = lot[e].original
                         /\ lot'[e].voided => lot'[e].remaining = lot[e].remaining
      /\ SumFunction(Missing') = SumFunction(Missing) + t.qty
      /\ SumFunction(Left') = SumFunction(Left) - t.qty
  <2> HIDE DEF t
  <2> QED
    BY <1>0, <1>1, <1>2, <1>3, TakeSums
<1>5. Held' = Held
  BY <1>0 DEF Held
<1>6. Accounted'
  <2>1. SumFunction(Held) \in Int /\ SumFunction(Missing) \in Int
    BY <1>0, SumTypes, SumInt, StockFinite
  <2>2. SumFunction(Held') <= SumFunction(Missing')
    BY <1>0, <1>1, <1>4, <1>5, <2>1 DEF Accounted
  <2>3. \A e \in Lots : /\ lot'[e].stored => lot'[e].original > 0
                        /\ ~lot'[e].stored => lot'[e].original = 0
                        /\ lot'[e].voided => lot'[e].remaining >= lot'[e].original
    BY <1>0, <1>4 DEF Accounted
  <2> QED
    BY <1>0, <2>2, <2>3 DEF Accounted
<1> QED
  BY <1>0, <1>1, <1>4, <1>5, <1>6

\* What the annulment of a lot writes: its units leave the stock, and none of them
\* is missing.
LEMMA VoidWrites ==
    ASSUME MaterialInv, NEW p \in Sessions, CommitVoid(p)
    PROVE  /\ tx[p].pc = "write" /\ Unlocked(p) /\ Finish(p) /\ Accounted'
           /\ Held' = Held /\ SumFunction(Left') < SumFunction(Left)
<1> DEFINE t == tx[p]
<1>0. /\ TypeOK /\ TypeOK' /\ t \in Transactions /\ LotsAgree /\ Accounted
      /\ t.pc = "write" /\ t.kind = "void" /\ Fresh(p) /\ Informed(p) /\ Unlocked(p)
      /\ Finish(p) /\ UNCHANGED <<material, billed>>
  BY CommitVoidType DEF MaterialInv, StockInv, LockInv, TypeOK, CommitVoid, Unlocked
<1>1. PICK e \in Lots : t.rows = {e} /\ t.seen[e].remaining >= t.seen[e].original
  BY <1>0 DEF Informed
<1>2. lot[e].stored /\ ~lot[e].voided /\ lot[e].remaining >= lot[e].original
  BY <1>0, <1>1 DEF Fresh
<1>3. \A d \in Lots : lot[d] \in LotRows /\ lot'[d] \in LotRows
  BY <1>0 DEF TypeOK
<1>4. /\ lot'[e].remaining = lot[e].remaining /\ lot'[e].original = lot[e].original
      /\ lot'[e].stored /\ lot'[e].voided
      /\ \A d \in Lots \ {e} : lot'[d] = lot[d]
  BY <1>1, <1>2, <1>3 DEF CommitVoid, LotRows
<1>5. /\ Missing \in [Lots -> Int] /\ Left \in [Lots -> Int] /\ Held \in [Tickets -> Int]
      /\ Missing' \in [Lots -> Int] /\ Left' \in [Lots -> Int]
  <2>1. /\ Missing \in [Lots -> Int] /\ Left \in [Lots -> Int] /\ Held \in [Tickets -> Int]
    BY <1>0, SumTypes
  <2>2. \A d \in Lots : lot'[d].original \in Nat /\ lot'[d].remaining \in Nat
    BY <1>3 DEF LotRows
  <2> QED
    BY <2>1, <2>2 DEF Missing, Left
<1>6. /\ lot[e].remaining \in Nat /\ lot[e].original \in Nat /\ lot[e].original > 0
  BY <1>0, <1>2, <1>3 DEF LotRows, Accounted
<1>7. /\ Missing[e] <= 0 /\ Missing'[e] = 0 /\ Left[e] > 0 /\ Left'[e] = 0
      /\ \A d \in Lots \ {e} : Missing'[d] = Missing[d] /\ Left'[d] = Left[d]
  BY <1>2, <1>4, <1>6 DEF Missing, Left
<1>8. /\ SumFunction(Missing') >= SumFunction(Missing)
      /\ SumFunction(Left') < SumFunction(Left)
  <2>1. /\ SumFunction(Missing') = SumFunction(Missing) - Missing[e] + Missing'[e]
        /\ SumFunction(Left') = SumFunction(Left) - Left[e] + Left'[e]
    BY <1>5, <1>7, SumChange, StockFinite
  <2>2. /\ SumFunction(Missing) \in Int /\ SumFunction(Left) \in Int
        /\ Missing[e] \in Int /\ Left[e] \in Int
    BY <1>5, SumInt, StockFinite
  <2> QED
    BY <1>7, <2>1, <2>2
<1>9. Held' = Held
  BY <1>0 DEF Held
<1>10. Accounted'
  <2>1. SumFunction(Held') <= SumFunction(Missing')
    <3>1. /\ SumFunction(Held) \in Int /\ SumFunction(Missing) \in Int
          /\ SumFunction(Missing') \in Int /\ SumFunction(Held) <= SumFunction(Missing)
      BY <1>0, <1>5, SumInt, StockFinite DEF Accounted
    <3> QED
      BY <1>8, <1>9, <3>1
  <2>2. \A d \in Lots : /\ lot'[d].stored => lot'[d].original > 0
                        /\ ~lot'[d].stored => lot'[d].original = 0
                        /\ lot'[d].voided => lot'[d].remaining >= lot'[d].original
    BY <1>0, <1>2, <1>4, <1>6 DEF Accounted
  <2> QED
    BY <1>0, <2>1, <2>2 DEF Accounted
<1> QED
  BY <1>0, <1>8, <1>9, <1>10

\* What a new lot writes: its units are stock, and none of them is missing.
LEMMA StoreWrites ==
    ASSUME MaterialInv, NEW e \in Lots, NEW n \in Nat \ {0}, NEW d \in Dates, Store(e, n, d)
    PROVE  /\ Accounted' /\ Held' = Held /\ SumFunction(Left') = SumFunction(Left) + n
           /\ tx' = tx /\ ~lot[e].stored
           /\ \A f \in Lots \ {e} : lot'[f] = lot[f]
<1>1. /\ TypeOK /\ Accounted
      /\ \A f \in Lots : ~lot[f].stored => lot[f].remaining = 0 /\ ~lot[f].voided
  BY DEF MaterialInv, StockInv, LockInv, LotsAgree
<1>2. /\ ~lot[e].stored /\ UNCHANGED <<material, billed, tx>>
      /\ lot'[e].stored /\ ~lot'[e].voided /\ lot'[e].original = n /\ lot'[e].remaining = n
      /\ \A f \in Lots \ {e} : lot'[f] = lot[f]
  BY <1>1 DEF TypeOK, Store
<1>3. lot[e].original = 0 /\ lot[e].remaining = 0 /\ ~lot[e].voided
  BY <1>1, <1>2 DEF Accounted
<1>4. /\ Missing'[e] = 0 /\ Missing[e] = 0 /\ Left[e] = 0 /\ Left'[e] = n
      /\ \A f \in Lots \ {e} : Missing'[f] = Missing[f] /\ Left'[f] = Left[f]
  BY <1>2, <1>3 DEF Missing, Left
<1>5. Missing \in [Lots -> Int] /\ Left \in [Lots -> Int]
  BY <1>1, SumTypes
<1>6. Missing' = Missing /\ Left' \in [Lots -> Int]
  <2>1. /\ Missing' = [f \in Lots |-> Missing'[f]]
        /\ Left' = [f \in Lots |-> Left'[f]]
    BY DEF Missing, Left
  <2>2. \A f \in Lots : Missing'[f] = Missing[f] /\ Left'[f] \in Int
    BY <1>4, <1>5
  <2> QED
    BY <1>5, <2>1, <2>2
<1>7. SumFunction(Left') = SumFunction(Left) + n
  <2>1. SumFunction(Left') = SumFunction(Left) - Left[e] + Left'[e]
    BY <1>4, <1>5, <1>6, SumChange, StockFinite
  <2>2. SumFunction(Left) \in Int
    BY <1>5, SumInt, StockFinite
  <2> QED
    BY <1>4, <2>1, <2>2
<1>8. Held' = Held
  BY <1>2 DEF Held
<1>9. Accounted'
  <2>1. SumFunction(Held') <= SumFunction(Missing')
    BY <1>1, <1>6, <1>8 DEF Accounted
  <2>2. \A f \in Lots : /\ lot'[f].stored => lot'[f].original > 0
                        /\ ~lot'[f].stored => lot'[f].original = 0
                        /\ lot'[f].voided => lot'[f].remaining >= lot'[f].original
    BY <1>1, <1>2 DEF Accounted
  <2> QED
    BY <1>1, <1>2, <2>1, <2>2 DEF Accounted
<1> QED
  BY <1>2, <1>7, <1>8, <1>9

LEMMA StoreMaterial ==
    ASSUME MaterialInv, NEW e \in Lots, NEW n \in Nat \ {0}, NEW d \in Dates, Store(e, n, d)
    PROVE  MaterialInv'
<1>1. /\ Accounted' /\ tx' = tx /\ ~lot[e].stored /\ StockInv' /\ LockInv
      /\ \A f \in Lots \ {e} : lot'[f] = lot[f]
      /\ UNCHANGED <<material, rowLock>>
  BY StoreWrites, StoreStock DEF MaterialInv, StockInv, Store
<1>2. ASSUME NEW p \in Sessions, Consuming(p)
      PROVE  /\ e \notin tx[p].rows /\ tx[p].rows \subseteq Lots
             /\ tx[p].rows \cap Available' = tx[p].rows \cap Available
  <2>1. tx[p].rows \subseteq Lots /\ e \notin tx[p].rows
    BY <1>1, <1>2 DEF LockInv, TypeOK, Transactions, Current, Consuming
  <2> QED
    BY <1>1, <2>1 DEF Available
<1>3. ASSUME NEW p \in Sessions PROVE Backed(p)' /\ Informed(p)'
  <2>1. Backed(p) /\ Informed(p)
    BY DEF MaterialInv
  <2>2. Backed(p)'
    BY <1>1, <1>2, <2>1 DEF Backed, Consuming
  <2>3. Informed(p)'
    BY <1>1, <2>1 DEF Informed
  <2> QED
    BY <2>2, <2>3
<1>4. Ordered'
  BY <1>1, <1>2 DEF MaterialInv, Ordered, Consuming
<1> QED
  BY <1>1, <1>3, <1>4 DEF MaterialInv

LEMMA NextMaterial == ASSUME OnlyConsumptions, MaterialInv, [Next]_vars PROVE MaterialInv'
<1>1. ASSUME NEW p \in Sessions, Continue(p) PROVE MaterialInv'
  <2>1. CASE DeadlockVictim(p)
    <3>1. Rollback(p) /\ tx[p].pc # "idle"
      BY <2>1 DEF DeadlockVictim, Blocked
    <3> QED
      BY <3>1, RollbackMaterial
  <2>2. CASE CommitReturn(p)
    BY <2>2, ReturnWrites, CommitReturnStock, FinishMaterial DEF MaterialInv
  <2>3. CASE CommitAdjustOut(p)
    BY <2>3, AdjustWrites, CommitAdjustOutStock, FinishMaterial DEF MaterialInv
  <2>4. CASE CommitVoid(p)
    BY <2>4, VoidWrites, CommitVoidStock, FinishMaterial DEF MaterialInv
  <2> QED
    BY <1>1, <2>1, <2>2, <2>3, <2>4, LockLotsMaterial, CommitConsumeMaterial,
       ReadLatestMaterial DEF Continue
<1>2. ASSUME NEW e \in Lots, NEW n \in Quantities, NEW d \in Dates,
             AdjustIn(e, n) \/ RegisterEntry(e, n, d)
      PROVE  MaterialInv'
  <2>1. n \in Nat \ {0} /\ Today \in Dates
    BY StockBounds DEF Quantities
  <2> QED
    BY <1>2, <2>1, StoreMaterial DEF AdjustIn, RegisterEntry
<1>3. CASE Deactivate \/ UNCHANGED vars
  <2>1. StockInv' /\ UNCHANGED <<lot, material, billed, rowLock, tx>>
    BY <1>3, NextStock DEF MaterialInv, Deactivate, vars
  <2>2. Available' = Available /\ Held' = Held /\ Missing' = Missing
    BY <2>1 DEF Available, Held, Missing
  <2> QED
    BY <2>1, <2>2 DEF MaterialInv, Backed, Consuming, Informed, Ordered, Accounted
<1>4. ASSUME NEW p \in Sessions, Abort(p) PROVE MaterialInv'
  BY <1>4, RollbackMaterial DEF Abort
<1> QED
  BY <1>1, <1>2, <1>3, <1>4, BeginMaterial, StockBounds DEF Next

LEMMA MaterialAlways == OnlyConsumptions => (Spec => []MaterialInv)
<1> SUFFICES ASSUME OnlyConsumptions PROVE Spec => []MaterialInv
  OBVIOUS
<1>1. MaterialInv /\ [Next]_vars => MaterialInv'
  BY NextMaterial
<1> QED
  BY <1>1, InitMaterial, PTL DEF Spec

\* When only consumptions overlap, the material of a ticket is what its movements say,
\* and a ticket that holds material finds a lot to give it back to: the lots that
\* units were taken from are not annulled.
THEOREM MaterialKept == OnlyConsumptions => (Spec => []MaterialAgrees)
<1> SUFFICES ASSUME OnlyConsumptions PROVE Spec => []MaterialAgrees
  OBVIOUS
<1>1. MaterialInv => MaterialAgrees
  <2> SUFFICES ASSUME MaterialInv PROVE MaterialAgrees
    OBVIOUS
  <2>1. (\E k \in Tickets : material[k].used > 0) => \E e \in Lots : lot[e].stored /\ ~lot[e].voided
    BY SomeLotLeft DEF MaterialInv, StockInv, LockInv, LiveLots
  <2> QED
    BY <2>1 DEF MaterialInv, Accounted, MaterialAgrees
<1> QED
  BY <1>1, MaterialAlways, PTL

-----------------------------------------------------------------------------
(* The lots implement the account of the product.                           *)

\* What AccountSpec makes of the variables of StockAccount.
LEMMA AccountIs ==
    /\ Account!Init <=> SumFunction(Left) = 0 /\ Held = [k \in Tickets |-> 0]
    /\ Account!Receive <=> /\ SumFunction(Left') > SumFunction(Left)
                           /\ SumFunction(Left') \in Nat /\ Held' = Held
    /\ Account!Discard <=> /\ SumFunction(Left') < SumFunction(Left)
                           /\ SumFunction(Left') \in Nat /\ Held' = Held
    /\ \A k \in Tickets :
         /\ Account!Consume(k) <=>
              /\ SumFunction(Left') \in Nat /\ SumFunction(Left') < SumFunction(Left)
              /\ Held' = [Held EXCEPT ![k] = @ + (SumFunction(Left) - SumFunction(Left'))]
         /\ Account!Return(k) <=>
              /\ Held[k] > 0 /\ SumFunction(Left') = SumFunction(Left) + Held[k]
              /\ Held' = [Held EXCEPT ![k] = 0]
BY DEF Account!Init, Account!Receive, Account!Discard, Account!Consume, Account!Return,
       Left, Held

LEMMA InitAccount == Init => Account!Init
<1> SUFFICES ASSUME Init PROVE Account!Init
  OBVIOUS
<1>1. TypeOK
  BY InitType
<1>2. Left \in [Lots -> Int] /\ \A e \in Lots : Left[e] = 0
  BY <1>1, SumTypes DEF Init, Left, NoLot
<1>3. SumFunction(Left) = 0
  BY <1>2, SumZero, StockFinite
<1>4. Held = [k \in Tickets |-> 0]
  BY DEF Init, Held
<1> QED
  BY <1>3, <1>4, AccountIs

AccountVars == <<SumFunction(Left), Held>>

LEMMA StepAccount ==
    ASSUME OnlyConsumptions, MaterialInv, MaterialInv', [Next]_vars
    PROVE  Account!Next \/ UNCHANGED AccountVars
<1>1. /\ SumFunction(Left) \in Nat /\ SumFunction(Left') \in Nat
      /\ Held \in [Tickets -> Int]
  <2>1. TypeOK /\ TypeOK'
    BY DEF MaterialInv, StockInv, LockInv
  <2>2. \A e \in Lots : lot'[e] \in LotRows
    BY <2>1 DEF TypeOK
  <2>3. Left' \in [Lots -> Int] /\ \A e \in Lots : Left'[e] >= 0
    BY <2>2 DEF Left, LotRows
  <2> QED
    BY <2>1, <2>3, SumTypes, SumNat, StockFinite
<1>2. CASE UNCHANGED <<lot, material>>
  BY <1>2 DEF AccountVars, Left, Held
<1>3. ASSUME NEW p \in Sessions, CommitConsume(p) PROVE Account!Next \/ UNCHANGED AccountVars
  <2>1. CASE Rollback(p)
    BY <1>2, <2>1 DEF Rollback
  <2>2. CASE ~Rollback(p)
    <3>1. PICK k \in Tickets : /\ Held' = [Held EXCEPT ![k] = @ + tx[p].qty]
                               /\ tx[p].qty > 0
                               /\ SumFunction(Left') = SumFunction(Left) - tx[p].qty
      BY <1>3, <2>2, ConsumeWrites
    <3>2. tx[p].qty \in Nat
      BY DEF MaterialInv, StockInv, LockInv, TypeOK, Transactions
    <3>3. /\ SumFunction(Left') < SumFunction(Left)
          /\ SumFunction(Left) - SumFunction(Left') = tx[p].qty
      BY <1>1, <3>1, <3>2
    <3>4. Held' = [Held EXCEPT ![k] = @ + (SumFunction(Left) - SumFunction(Left'))]
      BY <3>1, <3>3
    <3>5. Account!Consume(k)
      BY <1>1, <3>3, <3>4, AccountIs
    <3> QED
      BY <3>5 DEF Account!Next
  <2> QED
    BY <2>1, <2>2
<1>4. ASSUME NEW p \in Sessions, CommitReturn(p) PROVE Account!Next
  <2>1. PICK k \in Tickets : /\ Held[k] > 0 /\ Held' = [Held EXCEPT ![k] = 0]
                             /\ SumFunction(Left') = SumFunction(Left) + Held[k]
    BY <1>4, ReturnWrites
  <2>2. Account!Return(k)
    BY <2>1, AccountIs
  <2> QED
    BY <2>2 DEF Account!Next
<1>5. ASSUME NEW p \in Sessions, CommitAdjustOut(p) PROVE Account!Next
  <2>1. /\ Held' = Held /\ tx[p].qty > 0 /\ tx[p].qty \in Nat
        /\ SumFunction(Left') = SumFunction(Left) - tx[p].qty
    BY <1>5, AdjustWrites
  <2>2. SumFunction(Left') < SumFunction(Left)
    BY <1>1, <2>1
  <2>3. Account!Discard
    BY <1>1, <2>1, <2>2, AccountIs
  <2> QED
    BY <2>3 DEF Account!Next
<1>6. ASSUME NEW p \in Sessions, CommitVoid(p) PROVE Account!Next
  <2>1. Held' = Held /\ SumFunction(Left') < SumFunction(Left)
    BY <1>6, VoidWrites
  <2>2. Account!Discard
    BY <1>1, <2>1, AccountIs
  <2> QED
    BY <2>2 DEF Account!Next
<1>7. ASSUME NEW e \in Lots, NEW n \in Quantities, NEW d \in Dates, Store(e, n, d)
      PROVE  Account!Next
  <2>1. n \in Nat \ {0}
    BY StockBounds DEF Quantities
  <2>2. Held' = Held /\ SumFunction(Left') = SumFunction(Left) + n
    BY <1>7, <2>1, StoreWrites
  <2>3. SumFunction(Left') > SumFunction(Left)
    BY <1>1, <2>1, <2>2
  <2>4. Account!Receive
    BY <1>1, <2>2, <2>3, AccountIs
  <2> QED
    BY <2>4 DEF Account!Next
<1>8. ASSUME NEW p \in Sessions, Begin(p) \/ LockLots(p) \/ ReadLatest(p) \/ DeadlockVictim(p) \/ Abort(p)
      PROVE  UNCHANGED <<lot, material>>
  BY <1>8 DEF Begin, BeginAdjustOut, BeginConsume, BeginReturn, BeginVoid, Start, LockLots,
              Advance, Rollback, ReadLatest, DeadlockVictim, Abort
<1>9. CASE Deactivate \/ UNCHANGED vars
  BY <1>2, <1>9 DEF Deactivate, vars
<1>10. CASE \E p \in Sessions : Begin(p) \/ Continue(p) \/ Abort(p)
  BY <1>2, <1>3, <1>4, <1>5, <1>6, <1>8, <1>10 DEF Continue
<1>11. CASE \E e \in Lots, n \in Quantities :
              AdjustIn(e, n) \/ \E d \in Dates : RegisterEntry(e, n, d)
  BY <1>7, <1>11, StockBounds DEF AdjustIn, RegisterEntry
<1> QED
  BY <1>9, <1>10, <1>11 DEF Next

\* When only consumptions overlap, every step of the handlers is a step of the account
\* of the product or changes nothing of it: what a ticket takes leaves the stock, what
\* it gives back is in the stock again, once.
THEOREM ImplementsAccount == OnlyConsumptions => (Spec => AccountSpec)
<1> SUFFICES ASSUME OnlyConsumptions PROVE Spec => AccountSpec
  OBVIOUS
<1>1. MaterialInv /\ MaterialInv' /\ [Next]_vars => Account!Next \/ UNCHANGED AccountVars
  BY StepAccount
<1>2. Spec => []MaterialInv
  BY MaterialAlways
<1>3. UNCHANGED AccountVars =>
        UNCHANGED <<SumFunction([e \in Lots |-> IF lot[e].voided THEN 0 ELSE lot[e].remaining]),
                    [t \in Tickets |-> material[t].used]>>
  BY DEF AccountVars, Left, Held
<1> QED
  BY <1>1, <1>2, <1>3, InitAccount, PTL DEF Spec, AccountSpec, Account!Spec

-----------------------------------------------------------------------------
(* The loop of consume.                                                     *)

Asked == [e \in LoopRows |-> lots[e].remaining]

\* The rows before i are used up, the ones from i on untouched, as long as something
\* remains to be taken.
LoopInv ==
    /\ \E n \in Nat : lots \in [1 .. n -> [date : Nat, remaining : Nat]] /\ i \in 0 .. n + 1
    /\ Sorted
    /\ quantity \in Nat /\ quantity > 0 /\ remaining \in 0 .. quantity
    /\ taken \in [LoopRows -> 0 .. quantity]
    /\ SumFunction(taken) = quantity - remaining
    /\ i = 0 => remaining = quantity
    /\ i > 0 => Enough(Total)
    /\ \A e \in LoopRows : /\ taken[e] <= lots[e].remaining
                           /\ e >= i => taken[e] = 0
                           /\ e < i /\ remaining > 0 => taken[e] = lots[e].remaining
    /\ \A e, f \in LoopRows : e < f /\ taken[f] > 0 => taken[e] = lots[e].remaining

LEMMA LoopShape ==
    ASSUME LoopInv
    PROVE  /\ IsFiniteSet(LoopRows) /\ LoopRows \subseteq Nat
           /\ \A e \in LoopRows : lots[e].remaining \in Nat /\ lots[e].date \in Nat
           /\ i \in Nat
           /\ i > 0 /\ i \notin LoopRows => \A e \in LoopRows : e < i
           /\ Asked \in [LoopRows -> Int] /\ taken \in [LoopRows -> Int]
<1>1. PICK n \in Nat : lots \in [1 .. n -> [date : Nat, remaining : Nat]] /\ i \in 0 .. n + 1
  BY DEF LoopInv
<1>2. LoopRows = 1 .. n
  BY <1>1 DEF LoopRows
<1>3. IsFiniteSet(1 .. n)
  BY FS_Interval
<1>4. \A e \in LoopRows : lots[e].remaining \in Nat /\ lots[e].date \in Nat
  BY <1>1, <1>2
<1>5. \A e \in LoopRows : taken[e] \in Int
  BY DEF LoopInv
<1>6. taken \in [LoopRows -> Int] /\ Asked \in [LoopRows -> Int]
  BY <1>4 DEF LoopInv, Asked
<1> QED
  BY <1>1, <1>2, <1>3, <1>4, <1>6

LEMMA InitLoop == LoopInit => LoopInv
<1> SUFFICES ASSUME LoopInit PROVE LoopInv
  OBVIOUS
<1>1. PICK n \in 0 .. MaxLots :
        lots \in [1 .. n -> [date : 1 .. MaxLots, remaining : 1 .. MaxUnits]]
  BY DEF LoopInit
<1>2. /\ n \in Nat /\ LoopRows = 1 .. n /\ IsFiniteSet(LoopRows)
      /\ lots \in [1 .. n -> [date : Nat, remaining : Nat]]
  <2>1. n \in Nat /\ 1 .. MaxLots \subseteq Nat /\ 1 .. MaxUnits \subseteq Nat
    BY LoopBounds
  <2>2. lots \in [1 .. n -> [date : Nat, remaining : Nat]]
    BY <1>1, <2>1
  <2>3. LoopRows = 1 .. n
    BY <2>2 DEF LoopRows
  <2>4. IsFiniteSet(1 .. n)
    BY <2>1, FS_Interval
  <2> QED
    BY <2>1, <2>2, <2>3, <2>4
<1>3. /\ quantity \in Nat /\ quantity > 0 /\ i = 0 /\ remaining = quantity /\ Sorted
      /\ taken = [e \in LoopRows |-> 0]
  BY LoopBounds DEF LoopInit
<1>4. SumFunction(taken) = 0
  <2>1. taken \in [LoopRows -> Int] /\ \A e \in LoopRows : taken[e] = 0
    BY <1>3
  <2> QED
    BY <1>2, <2>1, SumZero
<1>5. \A e \in LoopRows : taken[e] = 0 /\ e >= 1 /\ lots[e].remaining \in Nat
  BY <1>2, <1>3
<1>6. taken \in [LoopRows -> 0 .. quantity] /\ i \in 0 .. n + 1 /\ remaining \in 0 .. quantity
  BY <1>2, <1>3
<1>7. SumFunction(taken) = quantity - remaining
  BY <1>3, <1>4
<1> QED
  BY <1>2, <1>3, <1>5, <1>6, <1>7 DEF LoopInv

LEMMA NextLoop == LoopInv /\ [LoopNext]_loopvars => LoopInv'
<1> SUFFICES ASSUME LoopInv, [LoopNext]_loopvars PROVE LoopInv'
  OBVIOUS
<1>0. PICK n \in Nat : lots \in [1 .. n -> [date : Nat, remaining : Nat]] /\ i \in 0 .. n + 1
  BY DEF LoopInv
<1>1. LoopRows = 1 .. n
  BY <1>0 DEF LoopRows
<1>2. CASE CheckTotal
  <2>1. /\ i = 0 /\ i' = 1 /\ Enough(Total) /\ UNCHANGED <<lots, quantity, remaining, taken>>
    BY <1>2 DEF CheckTotal
  <2>2. LoopRows' = LoopRows /\ Sorted' /\ Enough(Total)' /\ i' \in 0 .. n + 1
    BY <1>0, <2>1 DEF LoopInv, LoopRows, Sorted, Enough, Total
  <2>3. \A e \in LoopRows : e \in Nat /\ e >= 1 /\ taken[e] = 0
    BY <1>1, <2>1 DEF LoopInv
  <2>4. \A e \in LoopRows : ~(e < 1)
    BY <2>3
  <2> QED
    BY <1>0, <2>1, <2>2, <2>3, <2>4 DEF LoopInv
<1>3. CASE TakeLot
  <2> DEFINE k == Lesser(lots[i].remaining, remaining)
  <2>1. /\ i \in LoopRows /\ remaining > 0 /\ taken' = [taken EXCEPT ![i] = k]
        /\ remaining' = remaining - k /\ i' = i + 1 /\ UNCHANGED <<lots, quantity>>
    BY <1>3 DEF TakeLot
  <2>2. /\ LoopRows' = LoopRows /\ Sorted' /\ Enough(Total)' /\ i' \in 0 .. n + 1 /\ i \in Nat
        /\ i > 0
    <3>1. i \in Nat /\ i > 0 /\ i' \in 0 .. n + 1
      BY <1>0, <1>1, <2>1
    <3>2. Sorted /\ Enough(Total)
      BY <3>1 DEF LoopInv
    <3> QED
      BY <2>1, <3>1, <3>2 DEF LoopRows, Sorted, Enough, Total
  <2>3. /\ k \in Nat /\ k <= lots[i].remaining /\ k <= remaining
        /\ k < remaining => k = lots[i].remaining
        /\ remaining \in Nat /\ quantity \in Nat /\ remaining <= quantity
    <3>1. lots[i].remaining \in Nat /\ remaining \in Nat /\ quantity \in Nat
          /\ remaining <= quantity
      BY <1>0, <1>1, <2>1 DEF LoopInv
    <3> QED
      BY <3>1 DEF Lesser
  <2> HIDE DEF k
  <2>4. /\ taken[i] = 0 /\ taken'[i] = k /\ taken \in [LoopRows -> 0 .. quantity]
        /\ \A e \in LoopRows \ {i} : taken'[e] = taken[e]
    BY <2>1, <2>2 DEF LoopInv
  <2>5. taken' \in [LoopRows -> 0 .. quantity]
    BY <2>1, <2>3, <2>4
  <2>6. SumFunction(taken') = quantity - remaining'
    <3>1. taken \in [LoopRows -> Int] /\ taken' \in [LoopRows -> Int] /\ IsFiniteSet(LoopRows)
      BY <1>1, <2>4, <2>5, FS_Interval
    <3>2. i \in LoopRows /\ \A e \in LoopRows \ {i} : taken'[e] = taken[e]
      BY <2>1, <2>4
    <3>3. SumFunction(taken') = SumFunction(taken) - taken[i] + taken'[i]
      BY <3>1, <3>2, SumChange
    <3>4. SumFunction(taken) = quantity - remaining
      BY DEF LoopInv
    <3> QED
      BY <2>1, <2>3, <2>4, <3>3, <3>4
  <2>7. ASSUME NEW e \in LoopRows
        PROVE  /\ taken'[e] <= lots[e].remaining
               /\ e >= i' => taken'[e] = 0
               /\ e < i' /\ remaining' > 0 => taken'[e] = lots[e].remaining
    <3>1. e \in Nat
      BY <1>1
    <3>2. CASE e = i
      BY <2>1, <2>2, <2>3, <2>4, <3>2
    <3>3. CASE e # i
      BY <2>1, <2>2, <2>3, <2>4, <3>1, <3>3 DEF LoopInv
    <3> QED
      BY <3>2, <3>3
  <2>8. ASSUME NEW e \in LoopRows, NEW f \in LoopRows, e < f, taken'[f] > 0
        PROVE  taken'[e] = lots[e].remaining
    <3>1. e \in Nat /\ f \in Nat
      BY <1>1
    <3>2. f <= i
      <4>1. ~(f >= i')
        BY <2>7, <2>8
      <4> QED
        BY <2>1, <2>2, <3>1, <4>1
    <3>3. e < i /\ e # i
      BY <2>2, <2>8, <3>1, <3>2
    <3>4. taken[e] = lots[e].remaining
      BY <2>1, <3>3 DEF LoopInv
    <3> QED
      BY <2>4, <3>3, <3>4
  <2>9. remaining' \in 0 .. quantity /\ i' > 0
    BY <2>1, <2>2, <2>3
  <2>10. quantity > 0
    BY DEF LoopInv
  <2>11. lots' \in [1 .. n -> [date : Nat, remaining : Nat]] /\ i' # 0
    BY <1>0, <2>1, <2>9
  <2>12. quantity' = quantity /\ lots' = lots
    BY <2>1
  <2> QED
    BY <2>2, <2>3, <2>5, <2>6, <2>7, <2>8, <2>9, <2>10, <2>11, <2>12 DEF LoopInv
<1>4. CASE UNCHANGED loopvars
  BY <1>4 DEF loopvars, LoopInv, LoopRows, Sorted, Enough, Total
<1> QED
  BY <1>2, <1>3, <1>4 DEF LoopNext

LEMMA StoppedIsFifo == ASSUME LoopInv, Stopped, i # 0 PROVE taken \in Reference
<1>1. /\ IsFiniteSet(LoopRows) /\ LoopRows \subseteq Nat
      /\ \A e \in LoopRows : lots[e].remaining \in Nat /\ lots[e].date \in Nat
      /\ i \in Nat
      /\ i > 0 /\ i \notin LoopRows => \A e \in LoopRows : e < i
      /\ Asked \in [LoopRows -> Int] /\ taken \in [LoopRows -> Int]
  BY LoopShape
<1>2. quantity \in Nat /\ remaining \in Nat /\ Enough(Total)
      /\ SumFunction(taken) = quantity - remaining
  BY <1>1 DEF LoopInv
<1>3. remaining = 0
  <2> SUFFICES ASSUME remaining > 0 PROVE FALSE
    BY <1>2
  <2>1. \A e \in LoopRows : e < i
    BY <1>1 DEF Stopped
  <2>2. \A e \in LoopRows : taken[e] = Asked[e]
    BY <2>1 DEF LoopInv, Asked
  <2>3. taken = Asked
    BY <1>1, <2>2
  <2>4. SumFunction(Asked) >= quantity
    BY <1>2 DEF Enough, Total, Asked
  <2> QED
    BY <1>2, <2>3, <2>4
<1>4. SumFunction(taken) = quantity /\ taken \in [LoopRows -> 0 .. quantity]
  BY <1>2, <1>3 DEF LoopInv
<1>5. \A e, f \in LoopRows : lots[e].date < lots[f].date /\ taken[f] > 0
                               => taken[e] = lots[e].remaining
  <2> SUFFICES ASSUME NEW e \in LoopRows, NEW f \in LoopRows,
                      lots[e].date < lots[f].date, taken[f] > 0
               PROVE  taken[e] = lots[e].remaining
    OBVIOUS
  <2>1. ~(f < e) /\ e # f
    BY <1>1 DEF LoopInv, Sorted
  <2>2. e < f
    BY <1>1, <2>1
  <2> QED
    BY <2>2 DEF LoopInv
<1>6. \A e \in LoopRows : taken[e] <= lots[e].remaining
  BY DEF LoopInv
<1> QED
  BY <1>4, <1>5, <1>6 DEF Reference, FifoTakes

LEMMA RefusedIsImpossible == ASSUME LoopInv, ~Enough(Total) PROVE Reference = {}
<1> SUFFICES ASSUME NEW take \in Reference PROVE FALSE
  OBVIOUS
<1>1. /\ IsFiniteSet(LoopRows) /\ Asked \in [LoopRows -> Int] /\ quantity \in Nat
  BY LoopShape DEF LoopInv
<1>2. /\ take \in [LoopRows -> 0 .. quantity] /\ SumFunction(take) = quantity
      /\ \A e \in LoopRows : take[e] <= lots[e].remaining
  BY DEF Reference, FifoTakes
<1>3. take \in [LoopRows -> Int] /\ \A e \in LoopRows : take[e] <= Asked[e]
  BY <1>1, <1>2 DEF Asked
<1>4. SumFunction(take) <= SumFunction(Asked)
  BY <1>1, <1>3, SumLeq
<1> QED
  BY <1>2, <1>4 DEF Enough, Total, Asked

\* For any lots and any quantity, the loop refuses exactly what no way of taking can
\* serve, and what it takes otherwise is first in, first out.
THEOREM LoopIsFifoHolds == LoopSpec => []LoopIsFifo
<1>1. LoopInv => LoopIsFifo
  <2> SUFFICES ASSUME LoopInv, Stopped PROVE IF i = 0 THEN Reference = {} ELSE taken \in Reference
    BY DEF LoopIsFifo
  <2> QED
    BY StoppedIsFifo, RefusedIsImpossible DEF Stopped
<1> QED
  BY <1>1, InitLoop, NextLoop, PTL DEF LoopSpec

=============================================================================
