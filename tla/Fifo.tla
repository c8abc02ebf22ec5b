-------------------------------- MODULE Fifo --------------------------------
(***************************************************************************)
(* First in, first out: what taking qty units from the lots rows, oldest   *)
(* first, means.  WarehouseStock takes this way; FifoLoop shows that the   *)
(* loop of the code does.                                                  *)
(***************************************************************************)
EXTENDS Naturals, Functions

\* The ways to take qty units in all: no more than a lot has, and nothing from a
\* lot while an older one has units left (lots of one date in any order).  There is
\* none when the lots hold less than qty.
FifoTakes(rows, date, remaining, qty) ==
    {take \in [DOMAIN remaining -> 0 .. qty] :
        /\ SumFunction(take) = qty
        /\ \A e \in DOMAIN remaining : take[e] <= IF e \in rows THEN remaining[e] ELSE 0
        /\ \A e, f \in rows : date[e] < date[f] /\ take[f] > 0 => take[e] = remaining[e]}

=============================================================================
