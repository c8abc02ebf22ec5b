---------------------------- MODULE StockAccount ----------------------------
(***************************************************************************)
(* What the warehouse promises about one product, apart from the lots, the *)
(* FIFO order and the row locks that bring it about: a stock of units, and *)
(* what each ticket has taken of it.  A ticket takes no more than there    *)
(* is; giving back returns everything the ticket holds, exactly once.      *)
(***************************************************************************)
EXTENDS Naturals

CONSTANT Tickets

VARIABLES stock, used

TypeOK == stock \in Nat /\ used \in [Tickets -> Nat]

Init == stock = 0 /\ used = [t \in Tickets |-> 0]

Receive == stock' > stock /\ stock' \in Nat /\ UNCHANGED used

\* A manual adjustment or the annulment of a lot.
Discard == stock' < stock /\ stock' \in Nat /\ UNCHANGED used

Consume(t) ==
    /\ stock' \in Nat /\ stock' < stock
    /\ used' = [used EXCEPT ![t] = @ + (stock - stock')]

Return(t) ==
    /\ used[t] > 0
    /\ stock' = stock + used[t]
    /\ used' = [used EXCEPT ![t] = 0]

Next == Receive \/ Discard \/ \E t \in Tickets : Consume(t) \/ Return(t)

Spec == Init /\ [][Next]_<<stock, used>>

=============================================================================
