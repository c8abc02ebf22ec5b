------------------------------ MODULE FifoLoop ------------------------------
(***************************************************************************)
(* The loop of consume and of adjust_stock OUT: the check of the total,    *)
(* then lot after lot until nothing remains to be taken.                   *)
(***************************************************************************)
EXTENDS Fifo, Sequences, FiniteSets

CONSTANTS
    MaxLots,      \* bound: the number of lots a query returns
    MaxUnits      \* bound: the units of a lot and of a request

ASSUME LoopBounds == MaxLots \in Nat /\ MaxUnits \in Nat \ {0}

VARIABLES
    lots,         \* the rows of the query, in its order: [date, remaining]
    quantity,     \* the units asked for
    i,            \* the next row of the loop; 0 before the check of the total
    remaining,    \* the units still to be taken
    taken         \* the movements: what was taken from each row

loopvars == <<lots, quantity, i, remaining, taken>>

LoopRows == DOMAIN lots

Sorted == \A a, b \in LoopRows : a < b => lots[a].date <= lots[b].date

\* The query filters on quantity_remaining > 0.
LoopInit ==
    /\ lots \in UNION {[1 .. n -> [date : 1 .. MaxLots, remaining : 1 .. MaxUnits]] : n \in 0 .. MaxLots}
    /\ Sorted
    /\ quantity \in 1 .. MaxUnits
    /\ i = 0
    /\ remaining = quantity
    /\ taken = [e \in LoopRows |-> 0]

Total == SumFunction([e \in LoopRows |-> lots[e].remaining])

Enough(total) == total >= quantity

\* total_available < quantity raises ValueError: the loop never starts.
CheckTotal ==
    /\ i = 0 /\ Enough(Total)
    /\ i' = 1
    /\ UNCHANGED <<lots, quantity, remaining, taken>>

WholeLot(a, b) == a   \* mutant: min() is forgotten

Lesser(a, b) == IF a <= b THEN a ELSE b

TakeLot ==
    LET n == Lesser(lots[i].remaining, remaining) IN
    /\ i \in LoopRows /\ remaining > 0
    /\ taken' = [taken EXCEPT ![i] = n]
    /\ remaining' = remaining - n
    /\ i' = i + 1
    /\ UNCHANGED <<lots, quantity>>

LoopNext == CheckTotal \/ TakeLot

LoopSpec == LoopInit /\ [][LoopNext]_loopvars

-----------------------------------------------------------------------------
Reference ==
    FifoTakes(LoopRows, [e \in LoopRows |-> lots[e].date], [e \in LoopRows |-> lots[e].remaining], quantity)

\* No step of the loop is left.
Stopped == ~(i = 0 /\ Enough(Total)) /\ ~(i \in LoopRows /\ remaining > 0)

\* When the loop stops, what it took is first-in-first-out, and it refuses exactly
\* the requests that no way of taking could serve.
LoopIsFifo ==
    Stopped => IF i = 0 THEN Reference = {} ELSE taken \in Reference

=============================================================================
