------------------------- MODULE TitulationProcess -------------------------
(***************************************************************************)
(* The phases of one titulation process (apps/titulatec): the engine that  *)
(* approves and rejects them (phase_service.py), the review of the initial *)
(* documents with its automatic advance (documents.py), and what the       *)
(* student uploads and submits (student.py, format_b_service.py).          *)
(*                                                                         *)
(* The page of an officer offers to approve or reject the phase that was   *)
(* the current one when the page was rendered, and the handler does so     *)
(* whatever the current phase is by then.  Every request reads the rows,   *)
(* and commits later the columns it changed.                               *)
(*                                                                         *)
(* "fresh": one request at a time, each from an up-to-date page;           *)
(* "stale": pages may be old and requests overlap.                         *)
(***************************************************************************)
EXTENDS Naturals, FiniteSets

CONSTANTS LastPhase,      \* 8 in the code
          Modalities,     \* sets of phases a modality skips
          InitialDocs,    \* the documents of phase 1
          Officers, Student,
          MaxPetitions,   \* bound: requests that approve, reject or submit
          PageRegimes     \* the regimes an execution may pick

InitialPhase == 1
FormatBPhase == 3
Phases == 0 .. LastPhase
NoPhase == LastPhase + 1

ASSUME TitulationPhases ==
    /\ LastPhase \in Nat /\ LastPhase >= FormatBPhase
    /\ \A skipped \in Modalities : skipped \subseteq Phases \ {0, InitialPhase}
ASSUME TitulationActors == Student \notin Officers
ASSUME TitulationBounds == MaxPetitions \in Nat
ASSUME TitulationRegimes == PageRegimes \subseteq {"fresh", "stale"}

VARIABLES pageRegime,
          skips,       \* modality.skips_phases
          process,     \* [current, completed]
          phase,       \* the status of each row of titulatec_process_phases
          document,    \* review_status of each initial document, "none" without a row
          page,        \* the current phase each officer's page shows
          petition,    \* the request each actor has in flight
          passed,      \* phases approved so far; the code keeps it in its log only
          petitionsLeft

pvars == <<pageRegime, skips, process, phase, document, page, petition, passed, petitionsLeft>>

Nothing == [op |-> "none", n |-> NoPhase, rows |-> <<>>, current |-> NoPhase]

MayAsk(a) ==
    /\ petition[a] = Nothing
    /\ pageRegime = "fresh" => \A b \in DOMAIN petition : petition[b] = Nothing

-----------------------------------------------------------------------------
\* mutant: the phase after the current one, not after the approved one
NextToCurrent(n) ==
    LET later == {m \in Phases \ skips : m > process.current}
    IN IF later = {} THEN NoPhase ELSE CHOOSE m \in later : \A k \in later : m <= k

\* _next_applicable
NextApplicable(n) ==
    LET later == {m \in Phases \ skips : m > n}
    IN IF later = {} THEN NoPhase ELSE CHOOSE m \in later : \A k \in later : m <= k

\* the columns a session writes are those whose value is not the one it read
Writes(target) == [m \in {k \in Phases : target[k] # phase[k]} |-> target[m]]

\* approve_phase: the row, those the modality skips, and the next one unless
\* it is in review or approved already
Approved(n) ==
    [m \in Phases |->
        CASE m = n -> "approved"
          [] m # n /\ m \in skips /\ phase[m] # "approved" -> "skipped"
          [] m = NextApplicable(n) /\ phase[m] \in {"pending", "rejected"} -> "in_progress"
          [] OTHER -> phase[m]]

Approval(n) ==
    [op |-> "approve", n |-> n, rows |-> Writes(Approved(n)),
     current |-> IF NextApplicable(n) = process.current THEN NoPhase ELSE NextApplicable(n)]

\* reject_phase
Rejection(n) ==
    [op |-> "reject", n |-> n, rows |-> Writes([phase EXCEPT ![n] = "rejected"]),
     current |-> IF n = process.current THEN NoPhase ELSE n]

\* submit_initial_docs and FormatBService.submit ask for no status
Submission(n) ==
    [op |-> "submit", n |-> n, rows |-> Writes([phase EXCEPT ![n] = "in_review"]),
     current |-> NoPhase]

-----------------------------------------------------------------------------
\* the page of a process that is completed has no buttons
Render(k) ==
    /\ ~ process.completed /\ page[k] # process.current
    /\ page' = [page EXCEPT ![k] = process.current]
    /\ UNCHANGED <<pageRegime, skips, process, phase, document, petition, passed, petitionsLeft>>

Shows(k, n) ==
    /\ n = page[k]
    /\ pageRegime = "fresh" => ~ process.completed /\ n = process.current

Ask(a, what) ==
    /\ petitionsLeft > 0 /\ petitionsLeft' = petitionsLeft - 1
    /\ petition' = [petition EXCEPT ![a] = what]
    /\ UNCHANGED <<pageRegime, skips, process, phase, document, page, passed>>

PhaseApprove(k) == \E n \in Phases : MayAsk(k) /\ Shows(k, n) /\ Ask(k, Approval(n))
PhaseReject(k)  == \E n \in Phases : MayAsk(k) /\ Shows(k, n) /\ Ask(k, Rejection(n))

SubmitInitialDocs ==
    /\ MayAsk(Student)
    /\ \A d \in InitialDocs : document[d] # "none"
    /\ Ask(Student, Submission(InitialPhase))

SubmitFormatB == MayAsk(Student) /\ Ask(Student, Submission(FormatBPhase))

\* DocumentService.save and delete
Upload(d, status) ==
    /\ MayAsk(Student) /\ document[d] # status
    /\ document' = [document EXCEPT ![d] = status]
    /\ UNCHANGED <<pageRegime, skips, process, phase, page, petition, passed, petitionsLeft>>

\* documents.py review: the verdict is committed ...
Review(k, d, verdict) ==
    /\ MayAsk(k) /\ document[d] # "none"
    /\ document' = [document EXCEPT ![d] = verdict]
    /\ petition' = [petition EXCEPT ![k] = [Nothing EXCEPT !.op = "review"]]
    /\ UNCHANGED <<pageRegime, skips, process, phase, page, passed, petitionsLeft>>

AllApproved == \A d \in InitialDocs : document[d] = "approved"

\* mutant: the advance asks only for the documents
AdvancesAnyPhase == AllApproved

Advances == process.current = InitialPhase /\ AllApproved

\* ... and if that was the last one missing, phase 1 is approved
ReviewAdvance(k) ==
    /\ petition[k].op = "review"
    /\ petition' = [petition EXCEPT ![k] = IF Advances THEN Approval(InitialPhase) ELSE Nothing]
    /\ UNCHANGED <<pageRegime, skips, process, phase, document, page, passed, petitionsLeft>>

CommitPetition(a) ==
    LET r == petition[a]
        ends == r.op = "approve" /\ NextApplicable(r.n) = NoPhase
    IN /\ r.op \in {"approve", "reject", "submit"}
       /\ phase' = [m \in Phases |-> IF m \in DOMAIN r.rows THEN r.rows[m] ELSE phase[m]]
       /\ process' = [current |-> IF r.current = NoPhase THEN process.current ELSE r.current,
                      completed |-> process.completed \/ ends]
       /\ passed' = IF r.op = "approve" THEN passed \cup {r.n} ELSE passed
       /\ petition' = [petition EXCEPT ![a] = Nothing]
       /\ UNCHANGED <<pageRegime, skips, document, page, petitionsLeft>>

-----------------------------------------------------------------------------
\* import_rows: phase 0 is the intake, phase 1 is open
TitulationInit ==
    /\ pageRegime \in PageRegimes
    /\ skips \in Modalities
    /\ process = [current |-> InitialPhase, completed |-> FALSE]
    /\ phase = [m \in Phases |->
          IF m = 0 THEN "approved" ELSE IF m = InitialPhase THEN "in_progress" ELSE "pending"]
    /\ document = [d \in InitialDocs |-> "none"]
    /\ page = [k \in Officers |-> InitialPhase]
    /\ petition = [a \in Officers \cup {Student} |-> Nothing]
    /\ passed = {0}
    /\ petitionsLeft = MaxPetitions

TitulationNext ==
    \/ \E k \in Officers :
          \/ Render(k) \/ PhaseApprove(k) \/ PhaseReject(k) \/ ReviewAdvance(k)
          \/ \E d \in InitialDocs, verdict \in {"approved", "rejected"} : Review(k, d, verdict)
    \/ SubmitInitialDocs \/ SubmitFormatB
    \/ \E d \in InitialDocs, status \in {"pending", "none"} : Upload(d, status)
    \/ \E a \in Officers \cup {Student} : CommitPetition(a)

TitulationSpec == TitulationInit /\ [][TitulationNext]_pvars

-----------------------------------------------------------------------------
(***************************************************************************)
(* No phase is jumped: whatever pages are old and whatever requests        *)
(* overlap, each phase before the current one, and each phase of a         *)
(* completed process, was approved once or is skipped by the modality.     *)
(***************************************************************************)
NoPhaseJumped ==
    /\ \A m \in Phases \ skips : m < process.current => m \in passed
    /\ process.completed => Phases \ skips \subseteq passed

(***************************************************************************)
(* "current_phase (0-8) espeja la fase activa"                             *)
(* (docs/flows/00_state_machine.md): with fresh pages the current phase is *)
(* one that waits for somebody, never a phase already approved or skipped, *)
(* although students submit out of turn and a review of a document may     *)
(* come when the process is far ahead.                                     *)
(***************************************************************************)
CurrentIsOpen ==
    (pageRegime = "fresh" /\ ~ process.completed) =>
        phase[process.current] \in {"in_progress", "in_review", "rejected"}

\* "approved --> [*]" (docs/flows/00_state_machine.md): an approved phase
\* stays approved unless an officer rejects it
ApprovedIsFinal ==
    [][\A m \in Phases :
          (phase[m] = "approved" /\ phase'[m] # "approved") => phase'[m] = "rejected"]_pvars
=============================================================================
