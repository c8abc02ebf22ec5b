----------------------------- MODULE SlotHolds -----------------------------
(***************************************************************************)
(* Temporary holds of AgendaTec over the API (agendatec/api/slots.py): two *)
(* Redis keys per hold, slot_hold:{slot} and user_hold:{user}, written     *)
(* together under WATCH and released by a read and a deletion.             *)
(*                                                                         *)
(* A student may have several tabs.  Booking does not look at these keys.  *)
(* "whole": nothing happens between the read and the deletion of a         *)
(* release; "overlap": anything may.                                       *)
(***************************************************************************)
EXTENDS Naturals, FiniteSets

CONSTANTS HeldSlots, Students, Tabs,
          NoStudent, NoHold,   \* a key that is not there
          HoldRegimes          \* the regimes an execution may pick

ASSUME HoldNames == NoStudent \notin Students /\ NoHold \notin HeldSlots
ASSUME HoldWorlds == HoldRegimes \subseteq {"whole", "overlap"}

VARIABLES holdRegime,
          slotHold,   \* the owner in slot_hold:{slot}
          userHold,   \* the slot in user_hold:{user}
          tab         \* the request of each tab of each student

hvars == <<holdRegime, slotHold, userHold, tab>>

IdleTab == [step |-> "idle", slot |-> NoHold, dirty |-> FALSE]

SlotKey(s) == <<"slot", s>>
UserKey(u) == <<"user", u>>

\* mutant: WATCH on one key only
WatchesSlot(u, s) == {SlotKey(s)}

Watched(u, s) == {SlotKey(s), UserKey(u)}

\* a write or the expiry of a key aborts the EXEC of those who watch it
Touch(keys) ==
    [u \in Students |-> [t \in Tabs |->
        [tab[u][t] EXCEPT !.dirty =
            \/ @
            \/ tab[u][t].step = "watching" /\ Watched(u, tab[u][t].slot) \cap keys # {}]]]

Becomes(u, t, new) == tab' = [tab EXCEPT ![u][t] = new]

\* no release is between its read and its deletion
NoneReleasing ==
    \A u \in Students, t \in Tabs : tab[u][t].step # "releasing"
Undisturbed == holdRegime = "whole" => NoneReleasing

-----------------------------------------------------------------------------
(* hold_slot: WATCH both keys and read them; the slot is another's, or the *)
(* student holds another one: 409; otherwise MULTI, SET both with one TTL. *)

Hold(u, t, s) ==
    /\ Undisturbed /\ tab[u][t] = IdleTab
    /\ Becomes(u, t, [step |-> "holding", slot |-> s, dirty |-> FALSE])
    /\ UNCHANGED <<holdRegime, slotHold, userHold>>

Refused(u, s) ==
    \/ slotHold[s] \notin {NoStudent, u}
    \/ slotHold[s] = NoStudent /\ userHold[u] \notin {NoHold, s}

Watch(u, t) ==
    LET s == tab[u][t].slot
    IN /\ Undisturbed /\ tab[u][t].step = "holding"
       /\ Becomes(u, t, IF Refused(u, s) THEN IdleTab
                        ELSE [step |-> "watching", slot |-> s, dirty |-> FALSE])
       /\ UNCHANGED <<holdRegime, slotHold, userHold>>

\* WatchError: once more from the start
Retry(u, t) ==
    /\ Undisturbed /\ tab[u][t].step = "watching" /\ tab[u][t].dirty
    /\ Becomes(u, t, [step |-> "holding", slot |-> tab[u][t].slot, dirty |-> FALSE])
    /\ UNCHANGED <<holdRegime, slotHold, userHold>>

Exec(u, t) ==
    LET s == tab[u][t].slot
    IN /\ Undisturbed /\ tab[u][t].step = "watching" /\ ~ tab[u][t].dirty
       /\ slotHold' = [slotHold EXCEPT ![s] = u]
       /\ userHold' = [userHold EXCEPT ![u] = s]
       /\ tab' = [Touch({SlotKey(s), UserKey(u)}) EXCEPT ![u][t] = IdleTab]
       /\ UNCHANGED holdRegime

-----------------------------------------------------------------------------
\* release_slot of a slot nobody holds: a user key left over goes
ReleaseLeftover(u, t, s) ==
    /\ Undisturbed /\ tab[u][t] = IdleTab /\ slotHold[s] = NoStudent /\ userHold[u] = s
    /\ userHold' = [userHold EXCEPT ![u] = NoHold]
    /\ tab' = Touch({UserKey(u)})
    /\ UNCHANGED <<holdRegime, slotHold>>

\* release_slot reads the owner ...
Release(u, t, s) ==
    /\ Undisturbed /\ tab[u][t] = IdleTab /\ slotHold[s] = u
    /\ Becomes(u, t, [step |-> "releasing", slot |-> s, dirty |-> FALSE])
    /\ UNCHANGED <<holdRegime, slotHold, userHold>>

\* ... and deletes both keys, whosever they are by now
Delete(u, t) ==
    LET s == tab[u][t].slot
    IN /\ tab[u][t].step = "releasing"
       /\ slotHold' = [slotHold EXCEPT ![s] = NoStudent]
       /\ userHold' = [userHold EXCEPT ![u] = NoHold]
       /\ tab' = [Touch({SlotKey(s), UserKey(u)}) EXCEPT ![u][t] = IdleTab]
       /\ UNCHANGED holdRegime

\* the two keys of a hold have one deadline
Expire(u, s) ==
    /\ Undisturbed /\ slotHold[s] = u
    /\ slotHold' = [slotHold EXCEPT ![s] = NoStudent]
    /\ userHold' = IF userHold[u] = s THEN [userHold EXCEPT ![u] = NoHold] ELSE userHold
    /\ tab' = Touch({SlotKey(s)} \cup (IF userHold[u] = s THEN {UserKey(u)} ELSE {}))
    /\ UNCHANGED holdRegime

\* a user key whose slot key is gone
ExpireLeftover(u) ==
    /\ Undisturbed /\ userHold[u] # NoHold /\ slotHold[userHold[u]] # u
    /\ userHold' = [userHold EXCEPT ![u] = NoHold]
    /\ tab' = Touch({UserKey(u)})
    /\ UNCHANGED <<holdRegime, slotHold>>

-----------------------------------------------------------------------------
HoldInit ==
    /\ holdRegime \in HoldRegimes
    /\ slotHold = [s \in HeldSlots |-> NoStudent]
    /\ userHold = [u \in Students |-> NoHold]
    /\ tab = [u \in Students |-> [t \in Tabs |-> IdleTab]]

HoldNext ==
    \E u \in Students :
        \/ ExpireLeftover(u)
        \/ \E s \in HeldSlots : Expire(u, s)
        \/ \E t \in Tabs :
              \/ Watch(u, t) \/ Retry(u, t) \/ Exec(u, t) \/ Delete(u, t)
              \/ \E s \in HeldSlots :
                    Hold(u, t, s) \/ Release(u, t, s) \/ ReleaseLeftover(u, t, s)

HoldSpec == HoldInit /\ [][HoldNext]_hvars

-----------------------------------------------------------------------------
(***************************************************************************)
(* ENFORCE_SINGLE_HOLD_PER_USER: however the tabs of all students overlap, *)
(* the two keys tell the same story, so that nobody holds two slots, as    *)
(* long as a release is not interrupted.                                   *)
(***************************************************************************)
KeysAgree ==
    holdRegime = "whole" =>
        \A u \in Students, s \in HeldSlots : slotHold[s] = u <=> userHold[u] = s
=============================================================================
