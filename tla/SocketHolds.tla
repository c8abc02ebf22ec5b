---------------------------- MODULE SocketHolds ----------------------------
(***************************************************************************)
(* Holds of the namespace /slots (sockets/slots.py), the ones the page of  *)
(* the student uses: slot:{id}:hold names the socket, sid:{sid}:hold the   *)
(* slot, and every Redis command is a step of its own.  A booking deletes  *)
(* the key of its slot, a change of the grid both keys.                    *)
(*                                                                         *)
(* "single": a socket has one event at a time (different sockets overlap), *)
(* and the three commands of a change of the grid are not interrupted;     *)
(* "several": the events of one socket overlap too, and so does the grid.  *)
(***************************************************************************)
EXTENDS Naturals, FiniteSets

CONSTANTS Places, Sockets, Events,   \* slots, and the events a socket has in flight
          Nobody, Nowhere,           \* a key that is not there
          SocketRegimes              \* the regimes an execution may pick

ASSUME SocketNames ==
    Nobody \notin Sockets /\ Nowhere \notin Places /\ "erased" \notin Sockets \cup {Nobody}
ASSUME SocketWorlds == SocketRegimes \subseteq {"single", "several"}

VARIABLES socketRegime,
          holder,      \* slot:{id}:hold
          holds,       \* sid:{sid}:hold
          event,       \* [step, slot, prev] of each event of each socket
          sweeping     \* what a change of the grid found in the key of a slot

kvars == <<socketRegime, holder, holds, event, sweeping>>

NoEvent == [step |-> "idle", slot |-> Nowhere, prev |-> Nowhere]

Goes(i, e, step) == event' = [event EXCEPT ![i][e].step = step]
Ends(i, e) == event' = [event EXCEPT ![i][e] = NoEvent]

\* no change of the grid is between its commands
NoSweep == socketRegime = "single" => \A s \in Places : sweeping[s] = Nobody

Quiet(i) == \A e \in Events : event[i][e] = NoEvent
MayHandle(i, e) == event[i][e] = NoEvent /\ (socketRegime = "single" => Quiet(i))

-----------------------------------------------------------------------------
(* _try_hold_slot                                                          *)

\* the slot this socket holds so far
GetPrevious(i, e, s) ==
    /\ MayHandle(i, e)
    /\ event' = [event EXCEPT ![i][e] =
          [step |-> IF holds[i] \in {Nowhere, s} THEN "create" ELSE "previous",
           slot |-> s, prev |-> holds[i]]]
    /\ UNCHANGED <<socketRegime, holder, holds, sweeping>>

\* is it still its own?
CheckPrevious(i, e) ==
    /\ event[i][e].step = "previous"
    /\ Goes(i, e, IF holder[event[i][e].prev] = i THEN "drop" ELSE "create")
    /\ UNCHANGED <<socketRegime, holder, holds, sweeping>>

\* mutant: the previous slot is announced free and kept
KeepsPrevious(i, e) == holder

Dropped(i, e) == [holder EXCEPT ![event[i][e].prev] = Nobody]

DropPrevious(i, e) ==
    /\ event[i][e].step = "drop"
    /\ holder' = Dropped(i, e)
    /\ Goes(i, e, "create")
    /\ UNCHANGED <<socketRegime, holds, sweeping>>

\* SET NX
SetIfAbsent(i, e) ==
    LET s == event[i][e].slot
    IN /\ event[i][e].step = "create"
       /\ IF holder[s] = Nobody
          THEN holder' = [holder EXCEPT ![s] = i] /\ Goes(i, e, "note")
          ELSE UNCHANGED holder /\ Goes(i, e, "own?")
       /\ UNCHANGED <<socketRegime, holds, sweeping>>

\* GET: the socket's own is renewed, another's refused; the slot that was
\* given back in between is refused too
CheckOwn(i, e) ==
    /\ event[i][e].step = "own?"
    /\ IF holder[event[i][e].slot] = i THEN Goes(i, e, "note") ELSE Ends(i, e)
    /\ UNCHANGED <<socketRegime, holder, holds, sweeping>>

\* SET sid:{sid}:hold
Note(i, e) ==
    /\ event[i][e].step = "note"
    /\ holds' = [holds EXCEPT ![i] = event[i][e].slot]
    /\ Ends(i, e)
    /\ UNCHANGED <<socketRegime, holder, sweeping>>

-----------------------------------------------------------------------------
(* _release_hold                                                           *)

CheckHolder(i, e, s) ==
    /\ MayHandle(i, e) /\ holder[s] = i
    /\ event' = [event EXCEPT ![i][e] = [step |-> "delete", slot |-> s, prev |-> Nowhere]]
    /\ UNCHANGED <<socketRegime, holder, holds, sweeping>>

DeleteHold(i, e) ==
    /\ event[i][e].step = "delete"
    /\ holder' = [holder EXCEPT ![event[i][e].slot] = Nobody]
    /\ Goes(i, e, "noted?")
    /\ UNCHANGED <<socketRegime, holds, sweeping>>

CheckNote(i, e) ==
    /\ event[i][e].step = "noted?"
    /\ IF holds[i] = event[i][e].slot THEN Goes(i, e, "erase") ELSE Ends(i, e)
    /\ UNCHANGED <<socketRegime, holder, holds, sweeping>>

EraseNote(i, e) ==
    /\ event[i][e].step = "erase"
    /\ holds' = [holds EXCEPT ![i] = Nowhere]
    /\ Ends(i, e)
    /\ UNCHANGED <<socketRegime, holder, sweeping>>

-----------------------------------------------------------------------------
\* after a booking or a change of its appointment (request_service.py)
Booked(s) ==
    /\ holder[s] # Nobody
    /\ holder' = [holder EXCEPT ![s] = Nobody]
    /\ UNCHANGED <<socketRegime, holds, event, sweeping>>

\* day_config.py, for each slot it deleted: GET, DEL the owner's key, DEL
SweepRead(s) ==
    /\ NoSweep /\ sweeping[s] = Nobody /\ holder[s] # Nobody
    /\ sweeping' = [sweeping EXCEPT ![s] = holder[s]]
    /\ UNCHANGED <<socketRegime, holder, holds, event>>

SweepErase(s) ==
    /\ sweeping[s] \in Sockets
    /\ holds' = [holds EXCEPT ![sweeping[s]] = Nowhere]
    /\ sweeping' = [sweeping EXCEPT ![s] = "erased"]
    /\ UNCHANGED <<socketRegime, holder, event>>

SweepDelete(s) ==
    /\ sweeping[s] = "erased"
    /\ holder' = [holder EXCEPT ![s] = Nobody]
    /\ sweeping' = [sweeping EXCEPT ![s] = Nobody]
    /\ UNCHANGED <<socketRegime, holds, event>>

\* the key of the slot is written first and expires first
ExpireHolder(s) ==
    /\ holder[s] # Nobody
    /\ holder' = [holder EXCEPT ![s] = Nobody]
    /\ UNCHANGED <<socketRegime, holds, event, sweeping>>

ExpireNote(i) ==
    /\ holds[i] # Nowhere /\ holder[holds[i]] # i
    /\ holds' = [holds EXCEPT ![i] = Nowhere]
    /\ UNCHANGED <<socketRegime, holder, event, sweeping>>

-----------------------------------------------------------------------------
SocketInit ==
    /\ socketRegime \in SocketRegimes
    /\ holder = [s \in Places |-> Nobody]
    /\ holds = [i \in Sockets |-> Nowhere]
    /\ event = [i \in Sockets |-> [e \in Events |-> NoEvent]]
    /\ sweeping = [s \in Places |-> Nobody]

SocketStep(i) ==
    \/ ExpireNote(i)
    \/ \E e \in Events :
          \/ CheckPrevious(i, e) \/ DropPrevious(i, e) \/ SetIfAbsent(i, e)
          \/ CheckOwn(i, e) \/ Note(i, e)
          \/ DeleteHold(i, e) \/ CheckNote(i, e) \/ EraseNote(i, e)
          \/ \E s \in Places : GetPrevious(i, e, s) \/ CheckHolder(i, e, s)

SocketNext ==
    \/ \E i \in Sockets : NoSweep /\ SocketStep(i)
    \/ \E s \in Places :
          \/ SweepRead(s) \/ SweepErase(s) \/ SweepDelete(s)
          \/ NoSweep /\ (Booked(s) \/ ExpireHolder(s))

SocketSpec == SocketInit /\ [][SocketNext]_kvars

-----------------------------------------------------------------------------
(***************************************************************************)
(* A socket that takes another slot lets go of the one it had: between its *)
(* events it holds one slot at most and knows which, whatever the other    *)
(* sockets, bookings, changes of the grid and expiries do in between.      *)
(***************************************************************************)
SocketHoldsOne ==
    socketRegime = "single" =>
        \A i \in Sockets, s \in Places :
            (NoSweep /\ Quiet(i) /\ holder[s] = i) => holds[i] = s
=============================================================================
