-------------------------- MODULE ProceduresProofs --------------------------
(***************************************************************************)
(* Proofs about TitulationProcess, SlotHolds, SocketHolds and Catalogues,  *)
(* the components that Procedures composes, for any phases, modalities,    *)
(* officers, students, slots, tabs, sockets, entries and requests.         *)
(*                                                                         *)
(* NoPhaseJumped rests on ReachedInv: a phase that a page shows, or that a *)
(* request is about to approve, was reached by approving all before it.    *)
(***************************************************************************)
EXTENDS TitulationProcess, SlotHolds, SocketHolds, Catalogues,
        FiniteSetTheorems, WellFoundedInduction, TLAPS

-----------------------------------------------------------------------------
(* The least element of a set of naturals.                                  *)

Minimal(R, T) == \E x \in T : \A y \in T : ~ (<<y, x>> \in R)

LEMMA LeastOf ==
    ASSUME NEW R, NEW S, S \subseteq Nat, S # {}, IsWellFoundedOn(R, Nat),
           \A a, b \in Nat : a < b => <<a, b>> \in R
    PROVE \E m \in S : \A k \in S : m <= k
<1>1. \A RR, SS : IsWellFoundedOn(RR, SS) => \A T : T \subseteq SS /\ T # {} => Minimal(RR, T)
    BY WFMin, Zenon DEF Minimal
<1>2. \A T : T \subseteq Nat /\ T # {} => Minimal(R, T)
    BY <1>1
<1>3. Minimal(R, S)
    BY <1>2
<1>4. PICK x \in S : \A y \in S : ~ (<<y, x>> \in R)
    BY <1>3 DEF Minimal
<1>5. \A y \in S : y \in Nat /\ x \in Nat /\ ~(y < x)
    BY <1>4
<1>. QED BY <1>4, <1>5

LEMMA LeastElement ==
    ASSUME NEW S, S \subseteq Nat, S # {}
    PROVE \E m \in S : \A k \in S : m <= k
<1>1. \A a, b \in Nat : a < b => <<a, b>> \in OpToRel(<, Nat)
    BY DEF OpToRel
<1>. QED BY <1>1, NatLessThanWellFounded, LeastOf, Zenon

-----------------------------------------------------------------------------
(* The phase after another one.                                             *)

LEMMA NextPhase ==
    ASSUME NEW n \in Phases
    PROVE /\ NextApplicable(n) = NoPhase => \A m \in Phases \ skips : m <= n
          /\ NextApplicable(n) # NoPhase =>
                /\ NextApplicable(n) \in Phases \ skips
                /\ NextApplicable(n) > n
                /\ \A m \in Phases \ skips : m > n => NextApplicable(n) <= m
<1> DEFINE later == {m \in Phases \ skips : m > n}
<1>1. LastPhase \in Nat /\ Phases \subseteq Nat /\ NoPhase \notin Phases
    BY TitulationPhases DEF Phases, NoPhase
<1>2. CASE later = {}
    <2>1. \A m \in Phases \ skips : ~ (m > n)
        BY <1>2
    <2>2. NextApplicable(n) = NoPhase
        BY <1>2 DEF NextApplicable
    <2>. QED BY <1>1, <2>1, <2>2
<1>3. CASE later # {}
    <2>1. \E m \in later : \A k \in later : m <= k
        BY <1>1, <1>3, LeastElement
    <2>2. NextApplicable(n) = CHOOSE m \in later : \A k \in later : m <= k
        BY <1>3 DEF NextApplicable
    <2>3. NextApplicable(n) \in later /\ \A k \in later : NextApplicable(n) <= k
        BY <2>1, <2>2
    <2>. QED BY <1>1, <2>3
<1>. QED BY <1>2, <1>3

-----------------------------------------------------------------------------
(* No phase is jumped.                                                      *)

\* Every phase before n was approved, or the modality skips it.
Reached(n) == \A m \in Phases \ skips : m < n => m \in passed
ReachedThen(n) == \A m \in Phases \ skips' : m < n => m \in passed'

ReachedInv ==
    /\ process \in [current : Phases, completed : BOOLEAN]
    /\ Reached(process.current)
    /\ process.completed => Phases \ skips \subseteq passed
    /\ page \in [Officers -> Phases]
    /\ \A k \in Officers : Reached(page[k])
    /\ \A a \in DOMAIN petition :
          /\ petition[a].op \in {"approve", "reject"} => petition[a].n \in Phases /\ Reached(petition[a].n)
          /\ petition[a].op = "approve" =>
                petition[a].current \in {NoPhase, NextApplicable(petition[a].n)}
          /\ petition[a].op = "reject" => petition[a].current \in {NoPhase, petition[a].n}
          /\ petition[a].op = "submit" => petition[a].current = NoPhase
    /\ DOMAIN petition = Officers \cup {Student}

LEMMA ReachedInit == TitulationInit => ReachedInv
<1> SUFFICES ASSUME TitulationInit PROVE ReachedInv
    OBVIOUS
<1>1. InitialPhase \in Phases /\ \A m \in Phases : m < InitialPhase => m = 0
    BY TitulationPhases DEF InitialPhase, FormatBPhase, Phases
<1>2. Reached(InitialPhase)
    BY <1>1 DEF Reached, TitulationInit
<1>3. \A a \in DOMAIN petition : petition[a].op = "none"
    BY DEF TitulationInit, Nothing
<1>. QED BY <1>1, <1>2, <1>3 DEF TitulationInit, ReachedInv

\* Once n is approved too, the phase after it is reached; without one, all were approved.
LEMMA ApprovalReaches ==
    ASSUME NEW n \in Phases, Reached(n), passed' = passed \cup {n}, skips' = skips
    PROVE /\ NextApplicable(n) # NoPhase => NextApplicable(n) \in Phases /\ ReachedThen(NextApplicable(n))
          /\ NextApplicable(n) = NoPhase => Phases \ skips \subseteq passed'
<1> DEFINE q == NextApplicable(n)
<1>1. Phases \subseteq Nat
    BY TitulationPhases DEF Phases
<1>0. NoPhase \notin Phases
    BY TitulationPhases DEF Phases, NoPhase
<1>2. /\ q = NoPhase => \A m \in Phases \ skips : m <= n
      /\ q # NoPhase => q \in Phases \ skips /\ \A m \in Phases \ skips : m > n => q <= m
    BY NextPhase
<1>3. q' = q
    BY DEF NextApplicable
<1> HIDE DEF q
<1>4. \A m \in Phases \ skips : m < n \/ m = n => m \in passed'
    BY DEF Reached
<1>5. q # NoPhase => \A m \in Phases \ skips : m < q => m < n \/ m = n
    <2>1. SUFFICES ASSUME q # NoPhase, NEW m \in Phases \ skips, m < q PROVE m < n \/ m = n
        OBVIOUS
    <2>2. m \in Nat /\ n \in Nat /\ q \in Nat /\ (m > n => q <= m)
        BY <1>1, <1>2, <2>1
    <2>. QED BY <2>1, <2>2
<1>6. q = NoPhase => \A m \in Phases \ skips : m < n \/ m = n
    BY <1>1, <1>2
<1>7. q # NoPhase => ReachedThen(q)
    BY <1>4, <1>5 DEF ReachedThen
<1>. QED BY <1>2, <1>4, <1>6, <1>7 DEF q

LEMMA ReachedStep ==
    ASSUME ReachedInv, TitulationNext
    PROVE ReachedInv'
<1>p. InitialPhase \in Phases /\ FormatBPhase \in Phases /\ NoPhase \notin Phases
    BY TitulationPhases DEF InitialPhase, FormatBPhase, Phases, NoPhase
<1>a. ASSUME NEW a \in DOMAIN petition, NEW what,
             petition' = [petition EXCEPT ![a] = what],
             UNCHANGED <<skips, process, page, passed>>,
             /\ what.op \in {"approve", "reject"} => what.n \in Phases /\ Reached(what.n)
             /\ what.op = "approve" => what.current \in {NoPhase, NextApplicable(what.n)}
             /\ what.op = "reject" => what.current \in {NoPhase, what.n}
             /\ what.op = "submit" => what.current = NoPhase
      PROVE ReachedInv'
    <2>1. petition'[a] = what /\ \A b \in DOMAIN petition \ {a} : petition'[b] = petition[b]
        BY <1>a
    <2>2. DOMAIN petition' = DOMAIN petition
        BY <1>a
    <2>3. \A n : Reached(n)' = Reached(n)
        BY <1>a DEF Reached
    <2>4. \A n : NextApplicable(n)' = NextApplicable(n)
        BY <1>a DEF NextApplicable
    <2>. QED BY <1>a, <2>1, <2>2, <2>3, <2>4 DEF ReachedInv
<1>o. \A n : Approval(n).op = "approve" /\ Approval(n).n = n
             /\ Approval(n).current \in {NoPhase, NextApplicable(n)}
    BY DEF Approval
<1>1. CASE \E k \in Officers : Render(k)
    <2>1. PICK k \in Officers : Render(k)
        BY <1>1
    <2>2. \A n : Reached(n)' = Reached(n)
        BY <2>1 DEF Reached, Render
    <2>3. \A n : NextApplicable(n)' = NextApplicable(n)
        BY <2>1 DEF NextApplicable, Render
    <2>. QED BY <2>1, <2>2, <2>3 DEF ReachedInv, Render
<1>2. CASE \E k \in Officers : PhaseApprove(k)
    <2>1. PICK k \in Officers, n \in Phases : Shows(k, n) /\ Ask(k, Approval(n))
        BY <1>2 DEF PhaseApprove
    <2>2. Reached(n) /\ k \in DOMAIN petition
        BY <2>1 DEF Shows, ReachedInv
    <2>. QED BY <1>a, <1>o, <2>1, <2>2 DEF Ask
<1>3. CASE \E k \in Officers : PhaseReject(k)
    <2>1. PICK k \in Officers, n \in Phases : Shows(k, n) /\ Ask(k, Rejection(n))
        BY <1>3 DEF PhaseReject
    <2>2. Reached(n) /\ k \in DOMAIN petition
        BY <2>1 DEF Shows, ReachedInv
    <2>3. Rejection(n).op = "reject" /\ Rejection(n).n = n /\ Rejection(n).current \in {NoPhase, n}
        BY DEF Rejection
    <2>. QED BY <1>a, <2>1, <2>2, <2>3 DEF Ask
<1>4. CASE \E k \in Officers : ReviewAdvance(k)
    <2>1. PICK k \in Officers : ReviewAdvance(k)
        BY <1>4
    <2>2. k \in DOMAIN petition /\ Nothing.op = "none"
        BY <2>1 DEF ReachedInv, Nothing
    <2>3. CASE Advances
        <3>1. Reached(InitialPhase)
            BY <2>3 DEF Advances, ReachedInv
        <3>. QED BY <1>a, <1>o, <1>p, <2>1, <2>2, <2>3, <3>1 DEF ReviewAdvance
    <2>4. CASE ~Advances
        BY <1>a, <2>1, <2>2, <2>4 DEF ReviewAdvance
    <2>. QED BY <2>3, <2>4
<1>5. CASE \E k \in Officers, d \in InitialDocs, verdict \in {"approved", "rejected"} :
              Review(k, d, verdict)
    <2>1. PICK k \in Officers, d \in InitialDocs, verdict \in {"approved", "rejected"} :
              Review(k, d, verdict)
        BY <1>5
    <2>2. k \in DOMAIN petition /\ [Nothing EXCEPT !.op = "review"].op = "review"
        BY <2>1 DEF ReachedInv, Nothing
    <2>. QED BY <1>a, <2>1, <2>2 DEF Review
<1>6. CASE SubmitInitialDocs \/ SubmitFormatB
    <2>1. PICK n : Ask(Student, Submission(n))
        BY <1>6 DEF SubmitInitialDocs, SubmitFormatB
    <2>2. Submission(n).op = "submit" /\ Submission(n).current = NoPhase
        BY DEF Submission
    <2>3. Student \in DOMAIN petition
        BY DEF ReachedInv
    <2>. QED BY <1>a, <2>1, <2>2, <2>3 DEF Ask
<1>7. CASE \E d \in InitialDocs, status \in {"pending", "none"} : Upload(d, status)
    <2>1. UNCHANGED <<skips, process, page, passed, petition>>
        BY <1>7 DEF Upload
    <2>2. \A n : Reached(n)' = Reached(n) /\ NextApplicable(n)' = NextApplicable(n)
        BY <2>1 DEF Reached, NextApplicable
    <2>. QED BY <2>1, <2>2 DEF ReachedInv
<1>8. CASE \E a \in Officers \cup {Student} : CommitPetition(a)
    <2>1. PICK a \in Officers \cup {Student} : CommitPetition(a)
        BY <1>8
    <2> DEFINE r == petition[a]
               c == IF r.current = NoPhase THEN process.current ELSE r.current
    <2>2. /\ a \in DOMAIN petition /\ r.op \in {"approve", "reject", "submit"}
          /\ petition' = [petition EXCEPT ![a] = Nothing]
          /\ passed' = IF r.op = "approve" THEN passed \cup {r.n} ELSE passed
          /\ UNCHANGED <<skips, page>>
        BY <2>1 DEF CommitPetition, ReachedInv
    <2>3. /\ process'.current = c
          /\ process'.completed =
                (process.completed \/ (r.op = "approve" /\ NextApplicable(r.n) = NoPhase))
          /\ process' \in [current : {c}, completed : BOOLEAN]
        BY <2>1 DEF CommitPetition, ReachedInv
    <2>4. \A n : NextApplicable(n)' = NextApplicable(n)
        BY <2>2 DEF NextApplicable
    <2>5. \A n : Reached(n) => ReachedThen(n)
        BY <2>2 DEF Reached, ReachedThen
    <2>n. \A b \in DOMAIN petition' : petition'[b] = petition[b] \/ petition'[b].op = "none"
        BY <2>2 DEF Nothing
    <2>m. DOMAIN petition' = DOMAIN petition
        BY <2>2
    <2>6. c \in Phases /\ ReachedThen(c) /\ (process'.completed => Phases \ skips \subseteq passed')
        <3>1. CASE r.op = "approve"
            <4>1. PICK n \in Phases : n = r.n
                BY <2>2, <3>1 DEF ReachedInv
            <4>2. Reached(n) /\ r.current \in {NoPhase, NextApplicable(n)}
                BY <2>2, <3>1, <4>1 DEF ReachedInv
            <4>3. passed' = passed \cup {n}
                BY <2>2, <3>1, <4>1
            <4>4. /\ NextApplicable(n) # NoPhase =>
                        NextApplicable(n) \in Phases /\ ReachedThen(NextApplicable(n))
                  /\ NextApplicable(n) = NoPhase => Phases \ skips \subseteq passed'
                BY <2>2, <4>2, <4>3, ApprovalReaches
            <4>5. \A m : Reached(m) => ReachedThen(m)
                BY <2>2 DEF Reached, ReachedThen
            <4>6. CASE r.current = NoPhase
                <5>1. c = process.current
                    BY <4>6
                <5>2. c \in Phases /\ Reached(c)
                    BY <5>1 DEF ReachedInv
                <5>3. ReachedThen(c)
                    BY <4>5, <5>2
                <5>. QED BY <2>3, <3>1, <4>1, <4>3, <4>4, <5>2, <5>3 DEF ReachedInv
            <4>7. CASE r.current # NoPhase
                <5>1. c = NextApplicable(n) /\ c # NoPhase
                    BY <4>2, <4>7
                <5>2. c \in Phases /\ ReachedThen(c)
                    BY <4>4, <5>1
                <5>. QED BY <2>3, <3>1, <4>1, <4>3, <4>4, <5>2 DEF ReachedInv
            <4>. QED BY <4>6, <4>7
        <3>2. CASE r.op # "approve"
            <4>1. passed' = passed /\ process'.completed = process.completed
                BY <2>2, <2>3, <3>2 DEF ReachedInv
            <4>2. c \in Phases /\ Reached(c)
                BY <2>2, <3>2 DEF ReachedInv
            <4>3. ReachedThen(c)
                BY <2>2, <4>1, <4>2 DEF Reached, ReachedThen
            <4>. QED BY <4>1, <4>2, <4>3 DEF ReachedInv
        <3>. QED BY <3>1, <3>2
    <2>7. process' \in [current : Phases, completed : BOOLEAN] /\ process'.current = c
        BY <2>3, <2>6
    <2> HIDE DEF c, r
    <2>8. ReachedThen(process'.current)
        BY <2>6, <2>7
    <2>9. /\ page' \in [Officers -> Phases]
          /\ \A k \in Officers : ReachedThen(page'[k])
        <3>1. page' = page /\ page \in [Officers -> Phases]
            BY <2>2 DEF ReachedInv
        <3>2. \A n : Reached(n) => ReachedThen(n)
            BY <2>5
        <3>3. \A k \in Officers : ReachedThen(page[k])
            BY <3>2 DEF ReachedInv
        <3>. QED BY <3>1, <3>3
    <2>10. \A b \in Officers \cup {Student} :
          /\ petition[b].op \in {"approve", "reject"} => petition[b].n \in Phases /\ ReachedThen(petition[b].n)
          /\ petition[b].op = "approve" =>
                petition[b].current \in {NoPhase, NextApplicable(petition[b].n)}
          /\ petition[b].op = "reject" => petition[b].current \in {NoPhase, petition[b].n}
          /\ petition[b].op = "submit" => petition[b].current = NoPhase
        <3>. QED BY <2>5 DEF ReachedInv
    <2>. QED BY <2>2, <2>4, <2>n, <2>m, <2>6, <2>7, <2>8, <2>9, <2>10 DEF ReachedInv, Reached, ReachedThen
<1>. QED BY <1>1, <1>2, <1>3, <1>4, <1>5, <1>6, <1>7, <1>8 DEF TitulationNext

LEMMA ReachedKept ==
    ASSUME ReachedInv, [TitulationNext]_pvars
    PROVE ReachedInv'
<1>1. CASE UNCHANGED pvars
    <2>1. UNCHANGED <<skips, process, page, passed, petition>>
        BY <1>1 DEF pvars
    <2>2. \A n : Reached(n)' = Reached(n) /\ NextApplicable(n)' = NextApplicable(n)
        BY <2>1 DEF Reached, NextApplicable
    <2>. QED BY <2>1, <2>2 DEF ReachedInv
<1>2. CASE TitulationNext
    BY <1>2, ReachedStep
<1>. QED BY <1>1, <1>2

\* Each phase before the current one, and each phase of a completed process, was approved
\* or is skipped by the modality, however old the pages are and however requests overlap.
THEOREM NoPhaseJumpedHolds == TitulationSpec => []NoPhaseJumped
<1>1. ReachedInv /\ [TitulationNext]_pvars => ReachedInv'
    BY ReachedKept
<1>2. ReachedInv => NoPhaseJumped
    BY DEF ReachedInv, Reached, NoPhaseJumped
<1>. QED BY ReachedInit, <1>1, <1>2, PTL DEF TitulationSpec

-----------------------------------------------------------------------------
(* With fresh pages the current phase is open.                              *)

Waiting == {"in_progress", "in_review", "rejected"}
PhaseStatus == Waiting \cup {"pending", "approved", "skipped"}
Actors == Officers \cup {Student}

\* With fresh pages a request was computed from the rows as they are.
PetitionSound(r) ==
    /\ r.op = "approve" => r = Approval(process.current)
    /\ r.op = "reject" => r = Rejection(process.current)
    /\ r.op = "submit" => \E n \in Phases : r = Submission(n)

RowsSound ==
    /\ phase \in [Phases -> PhaseStatus]
    /\ process.current \notin skips
    /\ ~ process.completed => phase[process.current] \in Waiting
    /\ \A m \in Phases \ skips : m > process.current => phase[m] \in Waiting \cup {"pending"}

FreshInv ==
    pageRegime = "fresh" =>
       /\ RowsSound
       /\ \A a \in Actors : PetitionSound(petition[a])
       /\ \A a, b \in Actors : petition[a] # Nothing /\ petition[b] # Nothing => a = b

LEMMA FreshInit == TitulationInit => FreshInv
<1> SUFFICES ASSUME TitulationInit PROVE FreshInv
    OBVIOUS
<1>1. /\ 0 \in Phases /\ InitialPhase \in Phases /\ Phases \subseteq Nat /\ InitialPhase # 0
      /\ skips \subseteq Phases \ {0, InitialPhase}
    BY TitulationPhases DEF InitialPhase, FormatBPhase, Phases, TitulationInit
<1>2. process.current = InitialPhase /\ process.completed = FALSE
    BY DEF TitulationInit
<1>3. phase = [m \in Phases |->
                  IF m = 0 THEN "approved" ELSE IF m = InitialPhase THEN "in_progress" ELSE "pending"]
    BY DEF TitulationInit
<1>4. phase \in [Phases -> PhaseStatus]
    BY <1>3 DEF PhaseStatus, Waiting
<1>5. \A m \in Phases : m > InitialPhase => phase[m] = "pending"
    BY <1>1, <1>3 DEF InitialPhase
<1>6. RowsSound
    BY <1>1, <1>2, <1>3, <1>4, <1>5 DEF RowsSound, Waiting
<1>7. \A a \in Actors : petition[a] = Nothing
    BY DEF TitulationInit, Actors
<1>8. PetitionSound(Nothing)
    BY DEF PetitionSound, Nothing
<1>. QED BY <1>6, <1>7, <1>8 DEF FreshInv

\* A commit brings the rows to the target they were computed from.
LEMMA TargetReached ==
    ASSUME NEW target, target \in [Phases -> PhaseStatus], phase \in [Phases -> PhaseStatus],
           NEW rs, rs = Writes(target),
           phase' = [m \in Phases |-> IF m \in DOMAIN rs THEN rs[m] ELSE phase[m]]
    PROVE phase' = target
<1>1. DOMAIN rs = {k \in Phases : target[k] # phase[k]}
    BY DEF Writes
<1>2. \A m \in DOMAIN rs : rs[m] = target[m]
    BY DEF Writes
<1>3. \A m \in Phases : phase'[m] = target[m]
    BY <1>1, <1>2
<1>. QED BY <1>3

\* The commit of an approval of the current phase n.
LEMMA ApprovalKeepsOpen ==
    ASSUME RowsSound, NEW n \in Phases, n = process.current, process.completed \in BOOLEAN,
           phase' = Approved(n), skips' = skips,
           process' = [current |-> IF Approval(n).current = NoPhase THEN n
                                   ELSE Approval(n).current,
                       completed |-> process.completed \/ NextApplicable(n) = NoPhase]
    PROVE RowsSound'
<1> DEFINE q == NextApplicable(n)
<1>0. Phases \subseteq Nat /\ NoPhase \notin Phases
    BY TitulationPhases DEF Phases, NoPhase
<1>1. /\ q = NoPhase => \A m \in Phases \ skips : m <= n
      /\ q # NoPhase => q \in Phases \ skips /\ q > n
    BY NextPhase
<1>2. q # n
    BY <1>0, <1>1
<1>3. Approval(n).current = q
    BY <1>2 DEF Approval
<1>4. /\ process'.current = IF q = NoPhase THEN n ELSE q
      /\ process'.completed = (process.completed \/ q = NoPhase)
    BY <1>3
<1>5. \A m \in Phases : Approved(n)[m] =
         CASE m = n -> "approved"
           [] m # n /\ m \in skips /\ phase[m] # "approved" -> "skipped"
           [] m = q /\ phase[m] \in {"pending", "rejected"} -> "in_progress"
           [] OTHER -> phase[m]
    BY DEF Approved
<1> HIDE DEF q
<1>6. phase' \in [Phases -> PhaseStatus]
    <2>1. \A m \in Phases : Approved(n)[m] \in PhaseStatus
        BY <1>5 DEF RowsSound, PhaseStatus, Waiting
    <2>2. Approved(n) = [m \in Phases |-> Approved(n)[m]]
        BY DEF Approved
    <2>. QED BY <2>1, <2>2
<1>7. CASE q = NoPhase
    <2>1. process'.current = n /\ process'.completed
        BY <1>4, <1>7
    <2>2. \A m \in Phases \ skips : ~ (m > n)
        BY <1>0, <1>1, <1>7
    <2>. QED BY <1>6, <2>1, <2>2 DEF RowsSound
<1>8. CASE q # NoPhase
    <2>1. process'.current = q /\ q \in Phases \ skips /\ q > n
        BY <1>1, <1>4, <1>8
    <2>2. phase[q] \in Waiting \cup {"pending"}
        BY <2>1 DEF RowsSound
    <2>3. phase'[q] \in Waiting
        BY <1>2, <1>5, <2>1, <2>2 DEF Waiting
    <2>4. ASSUME NEW m \in Phases \ skips, m > q
          PROVE phase'[m] \in Waiting \cup {"pending"}
        <3>1. m > n /\ m # n /\ m # q
            BY <1>0, <2>1, <2>4
        <3>2. phase'[m] = phase[m]
            BY <1>5, <3>1
        <3>. QED BY <3>1, <3>2 DEF RowsSound
    <2>. QED BY <1>6, <2>1, <2>3, <2>4 DEF RowsSound
<1>. QED BY <1>7, <1>8

\* A step that leaves the rows alone and gives actor a the request r.
LEMMA FreshAsk ==
    ASSUME FreshInv, pageRegime = "fresh", NEW a \in Actors, NEW r,
           DOMAIN petition = Actors,
           \A b \in Actors \ {a} : petition[b] = Nothing,
           PetitionSound(r), petition' = [petition EXCEPT ![a] = r],
           UNCHANGED <<pageRegime, skips, process, phase>>
    PROVE FreshInv'
<1>1. RowsSound'
    BY DEF FreshInv, RowsSound
<1>2. \A n : NextApplicable(n)' = NextApplicable(n)
    BY DEF NextApplicable
<1>3. \A t : Writes(t)' = Writes(t)
    BY DEF Writes
<1>4. \A n : Approved(n)' = Approved(n)
    BY <1>2 DEF Approved
<1>5. \A n : /\ Approval(n)' = Approval(n) /\ Rejection(n)' = Rejection(n)
             /\ Submission(n)' = Submission(n)
    BY <1>2, <1>3, <1>4 DEF Approval, Rejection, Submission
<1>6. \A s : PetitionSound(s) => PetitionSound(s)'
    BY <1>5 DEF PetitionSound
<1>7. /\ petition'[a] = r
      /\ \A b \in Actors \ {a} : petition'[b] = petition[b] /\ petition'[b] = Nothing
    OBVIOUS
<1>8. \A b \in Actors : PetitionSound(petition[b])
    BY DEF FreshInv
<1>9. \A b \in Actors : PetitionSound(petition'[b])
    BY <1>7, <1>8
<1>10. \A b \in Actors : PetitionSound(petition[b])'
    BY <1>6, <1>9
<1>. QED BY <1>1, <1>7, <1>10 DEF FreshInv

LEMMA FreshSame ==
    ASSUME FreshInv, UNCHANGED <<pageRegime, skips, process, phase, petition>>
    PROVE FreshInv'
<1>1. \A n : NextApplicable(n)' = NextApplicable(n)
    BY DEF NextApplicable
<1>2. \A t : Writes(t)' = Writes(t)
    BY DEF Writes
<1>3. \A n : Approved(n)' = Approved(n)
    BY <1>1 DEF Approved
<1>4. \A n : /\ Approval(n)' = Approval(n) /\ Rejection(n)' = Rejection(n)
             /\ Submission(n)' = Submission(n)
    BY <1>1, <1>2, <1>3 DEF Approval, Rejection, Submission
<1>5. \A s : PetitionSound(s) => PetitionSound(s)'
    BY <1>4 DEF PetitionSound
<1>6. RowsSound => RowsSound'
    BY DEF RowsSound
<1>7. (\A b \in Actors : PetitionSound(petition[b])) => \A b \in Actors : PetitionSound(petition[b])'
    BY <1>5
<1>. QED BY <1>6, <1>7 DEF FreshInv

LEMMA FreshStep ==
    ASSUME ReachedInv, FreshInv, TitulationNext
    PROVE FreshInv'
<1>r. pageRegime' = pageRegime
    BY DEF TitulationNext, Render, PhaseApprove, PhaseReject, ReviewAdvance, Review, Ask,
       SubmitInitialDocs, SubmitFormatB, Upload, CommitPetition
<1> SUFFICES ASSUME pageRegime = "fresh" PROVE FreshInv'
    BY <1>r DEF FreshInv
<1>d. /\ DOMAIN petition = Actors /\ process \in [current : Phases, completed : BOOLEAN]
      /\ \A k \in Officers : k \in Actors
      /\ Student \in Actors
    BY DEF ReachedInv, Actors
<1>m. \A a \in Actors : MayAsk(a) => \A b \in Actors \ {a} : petition[b] = Nothing
    BY <1>d DEF MayAsk
<1>p. InitialPhase \in Phases /\ FormatBPhase \in Phases /\ process.current \in Phases
    BY <1>d, TitulationPhases DEF InitialPhase, FormatBPhase, Phases
<1>s. /\ PetitionSound(Nothing)
      /\ PetitionSound([Nothing EXCEPT !.op = "review"])
      /\ PetitionSound(Approval(process.current)) /\ PetitionSound(Rejection(process.current))
      /\ \A n \in Phases : PetitionSound(Submission(n))
    BY DEF PetitionSound, Nothing, Approval, Rejection, Submission
<1>1. CASE \E k \in Officers : Render(k)
    BY <1>1, FreshSame DEF Render
<1>2. CASE \E k \in Officers : PhaseApprove(k)
    <2>1. PICK k \in Officers, n \in Phases : MayAsk(k) /\ Shows(k, n) /\ Ask(k, Approval(n))
        BY <1>2 DEF PhaseApprove
    <2>2. n = process.current
        BY <2>1 DEF Shows
    <2>. QED BY <1>d, <1>m, <1>s, <2>1, <2>2, FreshAsk DEF Ask
<1>3. CASE \E k \in Officers : PhaseReject(k)
    <2>1. PICK k \in Officers, n \in Phases : MayAsk(k) /\ Shows(k, n) /\ Ask(k, Rejection(n))
        BY <1>3 DEF PhaseReject
    <2>2. n = process.current
        BY <2>1 DEF Shows
    <2>. QED BY <1>d, <1>m, <1>s, <2>1, <2>2, FreshAsk DEF Ask
<1>4. CASE \E k \in Officers : ReviewAdvance(k)
    <2>1. PICK k \in Officers : ReviewAdvance(k)
        BY <1>4
    <2>2. petition[k] # Nothing /\ k \in Actors
        BY <1>d, <2>1 DEF ReviewAdvance, Nothing
    <2>3. \A b \in Actors \ {k} : petition[b] = Nothing
        BY <2>2 DEF FreshInv
    <2>4. PICK r : PetitionSound(r) /\ petition' = [petition EXCEPT ![k] = r]
        BY <1>s, <2>1 DEF ReviewAdvance, Advances
    <2>. QED BY <1>d, <2>1, <2>2, <2>3, <2>4, FreshAsk DEF ReviewAdvance
<1>5. CASE \E k \in Officers, d \in InitialDocs, verdict \in {"approved", "rejected"} :
              Review(k, d, verdict)
    <2>1. PICK k \in Officers, d \in InitialDocs, verdict \in {"approved", "rejected"} :
              Review(k, d, verdict)
        BY <1>5
    <2>. QED BY <1>d, <1>m, <1>s, <2>1, FreshAsk DEF Review
<1>6. CASE SubmitInitialDocs \/ SubmitFormatB
    <2>1. PICK n \in Phases : MayAsk(Student) /\ Ask(Student, Submission(n))
        BY <1>6, <1>p DEF SubmitInitialDocs, SubmitFormatB
    <2>. QED BY <1>d, <1>m, <1>s, <2>1, FreshAsk DEF Ask
<1>7. CASE \E d \in InitialDocs, status \in {"pending", "none"} : Upload(d, status)
    BY <1>7, FreshSame DEF Upload
<1>8. CASE \E a \in Officers \cup {Student} : CommitPetition(a)
    <2>1. PICK a \in Actors : CommitPetition(a)
        BY <1>8 DEF Actors
    <2> DEFINE r == petition[a]
    <2>2. /\ r.op \in {"approve", "reject", "submit"}
          /\ phase' = [m \in Phases |-> IF m \in DOMAIN r.rows THEN r.rows[m] ELSE phase[m]]
          /\ process' = [current |-> IF r.current = NoPhase THEN process.current ELSE r.current,
                         completed |-> process.completed \/
                                          (r.op = "approve" /\ NextApplicable(r.n) = NoPhase)]
          /\ petition' = [petition EXCEPT ![a] = Nothing]
          /\ skips' = skips
        BY <2>1 DEF CommitPetition
    <2>3. PetitionSound(r) /\ r # Nothing /\ RowsSound
        BY <2>2 DEF FreshInv, Nothing
    <2>4. \A b \in Actors : petition'[b] = Nothing
        BY <1>d, <2>2, <2>3 DEF FreshInv
    <2>5. phase \in [Phases -> PhaseStatus]
        BY <2>3 DEF RowsSound
    <2>6. RowsSound'
        <3>1. CASE r.op = "approve"
            <4>1. PICK n \in Phases : n = process.current
                BY <1>p
            <4>2. r = Approval(n)
                BY <2>3, <3>1, <4>1 DEF PetitionSound
            <4>3. r.rows = Writes(Approved(n)) /\ r.n = n
                BY <4>2 DEF Approval
            <4>4. Approved(n) \in [Phases -> PhaseStatus]
                BY <2>5 DEF Approved, PhaseStatus, Waiting
            <4>5. phase' = Approved(n)
                BY <2>2, <2>5, <4>3, <4>4, TargetReached
            <4>. QED BY <1>d, <2>2, <2>3, <3>1, <4>1, <4>2, <4>3, <4>5, ApprovalKeepsOpen
        <3>2. CASE r.op = "reject"
            <4>1. PICK n \in Phases : n = process.current
                BY <1>p
            <4>2. r = Rejection(n)
                BY <2>3, <3>2, <4>1 DEF PetitionSound
            <4>3. r.rows = Writes([phase EXCEPT ![n] = "rejected"]) /\ r.current = NoPhase
                BY <4>1, <4>2 DEF Rejection
            <4>4. [phase EXCEPT ![n] = "rejected"] \in [Phases -> PhaseStatus]
                BY <2>5 DEF PhaseStatus, Waiting
            <4>5. phase' = [phase EXCEPT ![n] = "rejected"]
                BY <2>2, <2>5, <4>3, <4>4, TargetReached
            <4>6. process'.current = process.current /\ process'.completed = process.completed
                BY <1>d, <2>2, <3>2, <4>3
            <4>. QED BY <2>2, <2>3, <4>1, <4>4, <4>5, <4>6 DEF RowsSound, Waiting
        <3>3. CASE r.op = "submit"
            <4>1. PICK n \in Phases : r = Submission(n)
                BY <2>3, <3>3 DEF PetitionSound
            <4>2. r.rows = Writes([phase EXCEPT ![n] = "in_review"]) /\ r.current = NoPhase
                BY <4>1 DEF Submission
            <4>3. [phase EXCEPT ![n] = "in_review"] \in [Phases -> PhaseStatus]
                BY <2>5 DEF PhaseStatus, Waiting
            <4>4. phase' = [phase EXCEPT ![n] = "in_review"]
                BY <2>2, <2>5, <4>2, <4>3, TargetReached
            <4>5. process'.current = process.current /\ process'.completed = process.completed
                BY <1>d, <2>2, <3>3, <4>2
            <4>. QED BY <1>p, <2>2, <2>3, <4>3, <4>4, <4>5 DEF RowsSound, Waiting
        <3>. QED BY <2>2, <3>1, <3>2, <3>3
    <2>7. PetitionSound(Nothing)'
        BY DEF PetitionSound, Nothing
    <2>. QED BY <2>4, <2>6, <2>7 DEF FreshInv
<1>. QED BY <1>1, <1>2, <1>3, <1>4, <1>5, <1>6, <1>7, <1>8 DEF TitulationNext

LEMMA FreshKept ==
    ASSUME ReachedInv, FreshInv, [TitulationNext]_pvars
    PROVE FreshInv'
<1>1. CASE UNCHANGED pvars
    BY <1>1, FreshSame DEF pvars
<1>2. CASE TitulationNext
    BY <1>2, FreshStep
<1>. QED BY <1>1, <1>2

\* With fresh pages the current phase waits for somebody.
THEOREM CurrentIsOpenHolds == TitulationSpec => []CurrentIsOpen
<1>1. ReachedInv /\ [TitulationNext]_pvars => ReachedInv'
    BY ReachedKept
<1>2. ReachedInv /\ FreshInv /\ [TitulationNext]_pvars => FreshInv'
    BY FreshKept
<1>3. FreshInv => CurrentIsOpen
    BY DEF FreshInv, RowsSound, Waiting, CurrentIsOpen
<1>. QED BY ReachedInit, FreshInit, <1>1, <1>2, <1>3, PTL DEF TitulationSpec

-----------------------------------------------------------------------------
(* Holds over the API.                                                      *)

TabRecord ==
    [step : {"idle", "holding", "watching", "releasing"}, slot : HeldSlots \cup {NoHold},
     dirty : BOOLEAN]

HoldTyped ==
    /\ slotHold \in [HeldSlots -> Students \cup {NoStudent}]
    /\ userHold \in [Students -> HeldSlots \cup {NoHold}]
    /\ tab \in [Students -> [Tabs -> TabRecord]]
    /\ \A u \in Students, t \in Tabs : tab[u][t].step # "idle" => tab[u][t].slot \in HeldSlots

Agree == \A u \in Students, s \in HeldSlots : slotHold[s] = u <=> userHold[u] = s

\* What a tab has read of its two keys is still so while nobody has written them.
WatchSound(u, t) ==
    tab[u][t].step = "watching" /\ ~ tab[u][t].dirty => ~ Refused(u, tab[u][t].slot)

ReleaseSound ==
    /\ \A u \in Students, t \in Tabs :
          tab[u][t].step = "releasing" => slotHold[tab[u][t].slot] = u
    /\ \A u, w \in Students, t, r \in Tabs :
          tab[u][t].step = "releasing" /\ tab[w][r].step = "releasing" => u = w /\ t = r

HoldInv ==
    holdRegime = "whole" =>
       /\ Agree
       /\ \A u \in Students, t \in Tabs : WatchSound(u, t)
       /\ ReleaseSound

LEMMA HoldStart == HoldInit => HoldTyped /\ HoldInv
BY HoldNames DEF HoldInit, HoldTyped, TabRecord, HoldInv, Agree, WatchSound, ReleaseSound,
   IdleTab

\* Writing the keys of slot s and student u marks exactly the tabs that watch one of them.
LEMMA TouchMarks ==
    ASSUME HoldTyped, NEW keys, NEW u \in Students, NEW t \in Tabs
    PROVE /\ Touch(keys)[u][t].step = tab[u][t].step
          /\ Touch(keys)[u][t].slot = tab[u][t].slot
          /\ Touch(keys)[u][t].dirty \in BOOLEAN
          /\ tab[u][t].dirty => Touch(keys)[u][t].dirty
          /\ tab[u][t].step = "watching" /\ ~ Touch(keys)[u][t].dirty =>
                UserKey(u) \notin keys /\ SlotKey(tab[u][t].slot) \notin keys
<1> DEFINE d == tab[u][t].dirty \/ (tab[u][t].step = "watching" /\ Watched(u, tab[u][t].slot) \cap keys # {})
<1>1. Touch(keys)[u][t] = [tab[u][t] EXCEPT !.dirty = d]
    BY DEF Touch
<1>2. tab[u][t] \in TabRecord
    BY DEF HoldTyped
<1>3. d \in BOOLEAN
    BY <1>2 DEF TabRecord
<1>4. tab[u][t].step = "watching" /\ ~d => Watched(u, tab[u][t].slot) \cap keys = {}
    OBVIOUS
<1>5. UserKey(u) \in Watched(u, tab[u][t].slot) /\ SlotKey(tab[u][t].slot) \in Watched(u, tab[u][t].slot)
    BY DEF Watched
<1>6. tab[u][t].dirty => d
    OBVIOUS
<1> HIDE DEF d
<1>7. [tab[u][t] EXCEPT !.dirty = d].dirty = d
    BY <1>2 DEF TabRecord
<1>. QED BY <1>1, <1>2, <1>3, <1>4, <1>5, <1>6, <1>7 DEF TabRecord

LEMMA TouchTyped ==
    ASSUME HoldTyped, NEW keys
    PROVE Touch(keys) \in [Students -> [Tabs -> TabRecord]]
<1> DEFINE d(u, t) == tab[u][t].dirty \/ (tab[u][t].step = "watching" /\ Watched(u, tab[u][t].slot) \cap keys # {})
<1>1. ASSUME NEW u \in Students, NEW t \in Tabs
      PROVE [tab[u][t] EXCEPT !.dirty = d(u, t)] \in TabRecord
    <2>1. tab[u][t] \in TabRecord
        BY DEF HoldTyped
    <2>2. d(u, t) \in BOOLEAN
        BY <2>1 DEF TabRecord
    <2> HIDE DEF d
    <2>. QED BY <2>1, <2>2 DEF TabRecord
<1>2. Touch(keys) = [u \in Students |-> [t \in Tabs |-> [tab[u][t] EXCEPT !.dirty = d(u, t)]]]
    BY DEF Touch
<1> HIDE DEF d
<1>. QED BY <1>1, <1>2

\* What a step that writes (or lets expire) the keys of slot s and of student u leaves.
LEMMA KeysWritten ==
    ASSUME HoldTyped, NEW keys, NEW u \in Students, NEW s \in HeldSlots,
           NEW owner \in Students \cup {NoStudent}, NEW held \in HeldSlots \cup {NoHold},
           slotHold' = [slotHold EXCEPT ![s] = owner], userHold' = [userHold EXCEPT ![u] = held],
           owner # slotHold[s] => SlotKey(s) \in keys,
           held # userHold[u] => UserKey(u) \in keys,
           tab' \in [Students -> [Tabs -> TabRecord]],
           \A w \in Students, r \in Tabs : tab'[w][r] = IdleTab \/ tab'[w][r] = Touch(keys)[w][r]
    PROVE /\ HoldTyped'
          /\ \A w \in Students, r \in Tabs : tab'[w][r].step # "idle" => tab'[w][r].step = tab[w][r].step
          /\ (\A w \in Students, r \in Tabs : WatchSound(w, r)) =>
                \A w \in Students, r \in Tabs : WatchSound(w, r)'
<1>0. IdleTab.step = "idle"
    BY DEF IdleTab
<1>1. ASSUME NEW w \in Students, NEW r \in Tabs, tab'[w][r].step # "idle"
      PROVE /\ tab'[w][r].step = tab[w][r].step /\ tab'[w][r].slot = tab[w][r].slot
            /\ tab[w][r].dirty => tab'[w][r].dirty
            /\ tab[w][r].step = "watching" /\ ~ tab'[w][r].dirty =>
                  UserKey(w) \notin keys /\ SlotKey(tab[w][r].slot) \notin keys
    <2>1. tab'[w][r] = Touch(keys)[w][r]
        BY <1>0, <1>1
    <2>. QED BY <2>1, TouchMarks
<1>2. HoldTyped'
    <2>1. \A w \in Students, r \in Tabs : tab'[w][r].step # "idle" => tab'[w][r].slot \in HeldSlots
        BY <1>1 DEF HoldTyped
    <2>. QED BY <2>1 DEF HoldTyped
<1>3. ASSUME \A w \in Students, r \in Tabs : WatchSound(w, r), NEW w \in Students, NEW r \in Tabs
      PROVE WatchSound(w, r)'
    <2>1. SUFFICES ASSUME tab'[w][r].step = "watching", ~ tab'[w][r].dirty
                   PROVE ~ Refused(w, tab[w][r].slot)'
        BY DEF WatchSound
    <2>2. /\ tab[w][r].step = "watching" /\ tab'[w][r].slot = tab[w][r].slot /\ ~ tab[w][r].dirty
          /\ UserKey(w) \notin keys /\ SlotKey(tab[w][r].slot) \notin keys
        BY <1>1, <2>1
    <2>3. ~ Refused(w, tab[w][r].slot) /\ tab[w][r].slot \in HeldSlots
        BY <1>3, <2>2 DEF WatchSound, HoldTyped
    <2>4. userHold'[w] = userHold[w]
        BY <2>2 DEF HoldTyped
    <2>5. slotHold'[tab[w][r].slot] = slotHold[tab[w][r].slot]
        BY <2>2, <2>3 DEF HoldTyped
    <2>. QED BY <2>2, <2>3, <2>4, <2>5 DEF Refused
<1>4. \A w \in Students, r \in Tabs : tab'[w][r].step # "idle" => tab'[w][r].step = tab[w][r].step
    BY <1>1
<1>. QED BY <1>2, <1>3, <1>4

\* A step of tab t of student u that writes no key.
LEMMA TabMoves ==
    ASSUME HoldTyped, HoldInv, NEW u \in Students, NEW t \in Tabs, NEW n \in TabRecord,
           Becomes(u, t, n), UNCHANGED <<holdRegime, slotHold, userHold>>,
           n.step # "idle" => n.slot \in HeldSlots,
           n.step = "watching" => ~ Refused(u, n.slot),
           n.step = "releasing" => slotHold[n.slot] = u /\ (holdRegime = "whole" => NoneReleasing)
    PROVE HoldTyped' /\ HoldInv'
<1>1. /\ tab' \in [Students -> [Tabs -> TabRecord]] /\ tab'[u][t] = n
      /\ \A w \in Students, r \in Tabs : w # u \/ r # t => tab'[w][r] = tab[w][r]
    BY DEF Becomes, HoldTyped
<1>2. HoldTyped'
    BY <1>1 DEF HoldTyped
<1>3. ASSUME holdRegime = "whole" PROVE HoldInv'
    <2>1. Agree'
        BY <1>3 DEF HoldInv, Agree
    <2>2. \A w \in Students, r \in Tabs : WatchSound(w, r)'
        BY <1>1, <1>3 DEF HoldInv, WatchSound, Refused
    <2>3. ReleaseSound'
        <3>1. CASE n.step = "releasing"
            <4>1. \A w \in Students, r \in Tabs : tab'[w][r].step = "releasing" => w = u /\ r = t
                BY <1>1, <1>3, <3>1 DEF NoneReleasing
            <4>. QED BY <1>1, <3>1, <4>1 DEF ReleaseSound
        <3>2. CASE n.step # "releasing"
            <4>1. \A w \in Students, r \in Tabs :
                     tab'[w][r].step = "releasing" => tab'[w][r] = tab[w][r]
                BY <1>1, <3>2
            <4>. QED BY <1>3, <4>1 DEF HoldInv, ReleaseSound
        <3>. QED BY <3>1, <3>2
    <2>. QED BY <2>1, <2>2, <2>3 DEF HoldInv
<1>4. holdRegime # "whole" => HoldInv'
    BY DEF HoldInv
<1>. QED BY <1>2, <1>3, <1>4

\* What a step that writes two keys does to HoldInv: the keys still agree and, as no release
\* is on its way, nothing else can be wrong.
LEMMA KeysStep ==
    ASSUME HoldTyped, HoldInv, NEW keys, NEW u \in Students, NEW s \in HeldSlots,
           NEW owner \in Students \cup {NoStudent}, NEW held \in HeldSlots \cup {NoHold},
           slotHold' = [slotHold EXCEPT ![s] = owner], userHold' = [userHold EXCEPT ![u] = held],
           owner # slotHold[s] => SlotKey(s) \in keys,
           held # userHold[u] => UserKey(u) \in keys,
           tab' \in [Students -> [Tabs -> TabRecord]],
           \A w \in Students, r \in Tabs : tab'[w][r] = IdleTab \/ tab'[w][r] = Touch(keys)[w][r],
           UNCHANGED holdRegime,
           holdRegime = "whole" =>
              /\ Agree'
              /\ \A w \in Students, r \in Tabs :
                    tab[w][r].step = "releasing" => tab'[w][r].step = "idle"
    PROVE HoldTyped' /\ HoldInv'
<1>1. /\ HoldTyped'
      /\ \A w \in Students, r \in Tabs : tab'[w][r].step # "idle" => tab'[w][r].step = tab[w][r].step
      /\ (\A w \in Students, r \in Tabs : WatchSound(w, r)) =>
            \A w \in Students, r \in Tabs : WatchSound(w, r)'
    BY KeysWritten
<1>2. ASSUME holdRegime = "whole" PROVE HoldInv'
    <2>1. \A w \in Students, r \in Tabs : tab'[w][r].step # "releasing"
        BY <1>1, <1>2
    <2>2. ReleaseSound'
        BY <2>1 DEF ReleaseSound
    <2>. QED BY <1>1, <1>2, <2>2 DEF HoldInv
<1>3. holdRegime # "whole" => HoldInv'
    BY DEF HoldInv
<1>. QED BY <1>1, <1>2, <1>3

LEMMA HoldStep ==
    ASSUME HoldTyped, HoldInv, HoldNext
    PROVE HoldTyped' /\ HoldInv'
<1>n. IdleTab \in TabRecord /\ IdleTab.step = "idle"
    BY DEF IdleTab, TabRecord
<1>t. \A keys : /\ Touch(keys) \in [Students -> [Tabs -> TabRecord]]
                /\ \A w \in Students, r \in Tabs :
                      [Touch(keys) EXCEPT ![w][r] = IdleTab] \in [Students -> [Tabs -> TabRecord]]
    BY <1>n, TouchTyped
<1>x. NoStudent \notin Students /\ NoHold \notin HeldSlots
    BY HoldNames
<1>1. CASE \E u \in Students : ExpireLeftover(u)
    <2>1. PICK u \in Students : ExpireLeftover(u)
        BY <1>1
    <2>2. userHold[u] \in HeldSlots /\ slotHold[userHold[u]] # u
        BY <2>1 DEF ExpireLeftover, HoldTyped
    <2>3. PICK s \in HeldSlots : s = userHold[u]
        BY <2>2
    <2>4. slotHold' = [slotHold EXCEPT ![s] = slotHold[s]] /\ slotHold[s] \in Students \cup {NoStudent}
        BY <2>1 DEF ExpireLeftover, HoldTyped
    <2>5. holdRegime # "whole"
        BY <2>2 DEF HoldInv, Agree
    <2>. QED BY <1>t, <2>1, <2>4, <2>5, KeysStep DEF ExpireLeftover
<1>2. CASE \E u \in Students, s \in HeldSlots : Expire(u, s)
    <2>1. PICK u \in Students, s \in HeldSlots : Expire(u, s)
        BY <1>2
    <2> DEFINE held == IF userHold[u] = s THEN NoHold ELSE userHold[u]
               keys == {SlotKey(s)} \cup (IF userHold[u] = s THEN {UserKey(u)} ELSE {})
    <2>2. userHold' = [userHold EXCEPT ![u] = held] /\ held \in HeldSlots \cup {NoHold}
        BY <2>1 DEF Expire, HoldTyped
    <2>3. slotHold' = [slotHold EXCEPT ![s] = NoStudent] /\ tab' = Touch(keys) /\ slotHold[s] = u
        BY <2>1 DEF Expire
    <2>4. SlotKey(s) \in keys /\ (held # userHold[u] => UserKey(u) \in keys)
        OBVIOUS
    <2>5. holdRegime = "whole" =>
             /\ \A w \in Students, r \in Tabs : tab[w][r].step # "releasing"
             /\ Agree'
        BY <1>x, <2>1, <2>2, <2>3 DEF Expire, Undisturbed, NoneReleasing, HoldInv, HoldTyped, Agree
    <2>r. /\ UNCHANGED holdRegime
          /\ u \in Students \cup {NoStudent} /\ NoStudent \in Students \cup {NoStudent}
          /\ s \in HeldSlots \cup {NoHold} /\ NoHold \in HeldSlots \cup {NoHold}
        BY <2>1 DEF Expire
    <2> HIDE DEF held, keys
    <2>. QED BY <1>t, <2>1, <2>2, <2>3, <2>4, <2>5, <2>r, KeysStep
<1>3. CASE \E u \in Students, t \in Tabs : Watch(u, t) \/ Retry(u, t)
    <2>1. PICK u \in Students, t \in Tabs : Watch(u, t) \/ Retry(u, t)
        BY <1>3
    <2> DEFINE k == tab[u][t].slot
    <2>2. k \in HeldSlots
        BY <2>1 DEF Watch, Retry, HoldTyped
    <2>3. /\ [step |-> "watching", slot |-> k, dirty |-> FALSE] \in TabRecord
          /\ [step |-> "holding", slot |-> k, dirty |-> FALSE] \in TabRecord
        BY <2>2 DEF TabRecord
    <2>4. CASE Watch(u, t) /\ Refused(u, k)
        BY <1>n, <2>1, <2>4, TabMoves DEF Watch
    <2>5. CASE Watch(u, t) /\ ~Refused(u, k)
        BY <2>1, <2>2, <2>3, <2>5, TabMoves DEF Watch
    <2>6. CASE Retry(u, t)
        BY <2>1, <2>2, <2>3, <2>6, TabMoves DEF Retry
    <2>. QED BY <2>1, <2>4, <2>5, <2>6
<1>4. CASE \E u \in Students, t \in Tabs : Exec(u, t)
    <2>1. PICK u \in Students, t \in Tabs : Exec(u, t)
        BY <1>4
    <2>2. PICK s \in HeldSlots : s = tab[u][t].slot
        BY <2>1 DEF Exec, HoldTyped
    <2> DEFINE keys == {SlotKey(s), UserKey(u)}
    <2>3. /\ slotHold' = [slotHold EXCEPT ![s] = u] /\ userHold' = [userHold EXCEPT ![u] = s]
          /\ tab' = [Touch(keys) EXCEPT ![u][t] = IdleTab]
        BY <2>1, <2>2 DEF Exec
    <2>4. \A w \in Students, r \in Tabs : tab'[w][r] = IdleTab \/ tab'[w][r] = Touch(keys)[w][r]
        BY <1>t, <2>3
    <2>5. SlotKey(s) \in keys /\ UserKey(u) \in keys
        OBVIOUS
    <2>6. holdRegime = "whole" => \A w \in Students, r \in Tabs :
             tab[w][r].step = "releasing" => tab'[w][r].step = "idle"
        BY <2>1 DEF Exec, Undisturbed, NoneReleasing
    <2>7. holdRegime = "whole" => Agree /\ ~ Refused(u, s)
        BY <2>1, <2>2 DEF Exec, HoldInv, WatchSound
    <2>8. holdRegime = "whole" => Agree'
        BY <1>x, <2>3, <2>7 DEF Agree, Refused, HoldTyped
    <2>9. tab' \in [Students -> [Tabs -> TabRecord]]
        BY <1>t, <2>3
    <2>r. /\ UNCHANGED holdRegime
          /\ u \in Students \cup {NoStudent} /\ NoStudent \in Students \cup {NoStudent}
          /\ s \in HeldSlots \cup {NoHold} /\ NoHold \in HeldSlots \cup {NoHold}
        BY <2>1 DEF Exec
    <2> HIDE DEF keys
    <2>. QED BY <2>1, <2>3, <2>4, <2>5, <2>6, <2>8, <2>9, <2>r, KeysStep
<1>5. CASE \E u \in Students, t \in Tabs : Delete(u, t)
    <2>1. PICK u \in Students, t \in Tabs : Delete(u, t)
        BY <1>5
    <2>2. PICK s \in HeldSlots : s = tab[u][t].slot
        BY <2>1 DEF Delete, HoldTyped
    <2> DEFINE keys == {SlotKey(s), UserKey(u)}
    <2>3. /\ slotHold' = [slotHold EXCEPT ![s] = NoStudent]
          /\ userHold' = [userHold EXCEPT ![u] = NoHold]
          /\ tab' = [Touch(keys) EXCEPT ![u][t] = IdleTab]
        BY <2>1, <2>2 DEF Delete
    <2>4. \A w \in Students, r \in Tabs : tab'[w][r] = IdleTab \/ tab'[w][r] = Touch(keys)[w][r]
        BY <1>t, <2>3
    <2>5. SlotKey(s) \in keys /\ UserKey(u) \in keys
        OBVIOUS
    <2>6. holdRegime = "whole" =>
             /\ slotHold[s] = u
             /\ \A w \in Students, r \in Tabs : tab[w][r].step = "releasing" => w = u /\ r = t
        BY <2>1, <2>2 DEF Delete, HoldInv, ReleaseSound
    <2>7. tab'[u][t] = IdleTab
        BY <1>t, <2>3
    <2>8. holdRegime = "whole" => Agree'
        BY <1>x, <2>3, <2>6 DEF HoldInv, Agree, HoldTyped
    <2>9. tab' \in [Students -> [Tabs -> TabRecord]]
        BY <1>t, <2>3
    <2>10. holdRegime = "whole" => \A w \in Students, r \in Tabs :
              tab[w][r].step = "releasing" => tab'[w][r].step = "idle"
        BY <1>n, <2>6, <2>7
    <2>r. /\ UNCHANGED holdRegime
          /\ u \in Students \cup {NoStudent} /\ NoStudent \in Students \cup {NoStudent}
          /\ s \in HeldSlots \cup {NoHold} /\ NoHold \in HeldSlots \cup {NoHold}
        BY <2>1 DEF Delete
    <2> HIDE DEF keys
    <2>. QED BY <2>1, <2>3, <2>4, <2>5, <2>8, <2>9, <2>10, <2>r, KeysStep
<1>6. CASE \E u \in Students, t \in Tabs, s \in HeldSlots : Hold(u, t, s) \/ Release(u, t, s)
    <2>1. PICK u \in Students, t \in Tabs, s \in HeldSlots : Hold(u, t, s) \/ Release(u, t, s)
        BY <1>6
    <2>2. /\ [step |-> "holding", slot |-> s, dirty |-> FALSE] \in TabRecord
          /\ [step |-> "releasing", slot |-> s, dirty |-> FALSE] \in TabRecord
        BY <2>1 DEF TabRecord
    <2>3. CASE Hold(u, t, s)
        BY <2>1, <2>2, <2>3, TabMoves DEF Hold
    <2>4. CASE Release(u, t, s)
        BY <2>1, <2>2, <2>4, TabMoves DEF Release, Undisturbed
    <2>. QED BY <2>1, <2>3, <2>4
<1>7. CASE \E u \in Students, t \in Tabs, s \in HeldSlots : ReleaseLeftover(u, t, s)
    <2>1. PICK u \in Students, t \in Tabs, s \in HeldSlots : ReleaseLeftover(u, t, s)
        BY <1>7
    <2>2. slotHold' = [slotHold EXCEPT ![s] = slotHold[s]] /\ slotHold[s] \in Students \cup {NoStudent}
        BY <2>1 DEF ReleaseLeftover, HoldTyped
    <2>3. holdRegime # "whole"
        BY <1>x, <2>1 DEF ReleaseLeftover, HoldInv, Agree
    <2>. QED BY <1>t, <2>1, <2>2, <2>3, KeysStep DEF ReleaseLeftover
<1>. QED BY <1>1, <1>2, <1>3, <1>4, <1>5, <1>6, <1>7 DEF HoldNext

LEMMA HoldKept ==
    ASSUME HoldTyped, HoldInv, [HoldNext]_hvars
    PROVE HoldTyped' /\ HoldInv'
<1>1. CASE UNCHANGED hvars
    BY <1>1 DEF hvars, HoldTyped, HoldInv, Agree, WatchSound, Refused, ReleaseSound
<1>2. CASE HoldNext
    BY <1>2, HoldStep
<1>. QED BY <1>1, <1>2

\* However the tabs of all students overlap, slot_hold and user_hold agree, as long as
\* no release is interrupted: nobody holds two slots.
THEOREM KeysAgreeHolds == HoldSpec => []KeysAgree
<1>1. HoldTyped /\ HoldInv /\ [HoldNext]_hvars => (HoldTyped /\ HoldInv)'
    BY HoldKept
<1>2. HoldInv => KeysAgree
    BY DEF HoldInv, Agree, KeysAgree
<1>. QED BY HoldStart, <1>1, <1>2, PTL DEF HoldSpec

-----------------------------------------------------------------------------
(* Holds over the sockets.                                                  *)

EventRecord ==
    [step : {"idle", "previous", "drop", "create", "own?", "note", "delete", "noted?", "erase"},
     slot : Places \cup {Nowhere}, prev : Places \cup {Nowhere}]

SocketTyped ==
    /\ holder \in [Places -> Sockets \cup {Nobody}]
    /\ holds \in [Sockets -> Places \cup {Nowhere}]
    /\ event \in [Sockets -> [Events -> EventRecord]]
    /\ sweeping \in [Places -> Sockets \cup {Nobody, "erased"}]
    /\ \A i \in Sockets, e \in Events :
          /\ event[i][e] # NoEvent => event[i][e].slot \in Places
          /\ event[i][e].step \in {"previous", "drop"} => event[i][e].prev \in Places

\* If the socket of the event v holds slot s, it is the one v is about.
Notes(v, s) ==
    /\ v.step \in {"previous", "drop"} => v.prev = s
    /\ v.step \in {"create", "own?", "note", "delete"} => v.slot = s
    /\ v.step \notin {"noted?", "erase"}

Located(i, s) ==
    /\ Quiet(i) => holds[i] = s \/ sweeping[s] = "erased"
    /\ \A e \in Events : Notes(event[i][e], s)

SweepSound ==
    /\ \A s, r \in Places : sweeping[s] # Nobody /\ sweeping[r] # Nobody => s = r
    /\ \A s \in Places : sweeping[s] \in Sockets => holder[s] = sweeping[s]

SocketInv ==
    socketRegime = "single" =>
       /\ SocketTyped
       /\ \A i \in Sockets, e, f \in Events :
             event[i][e] # NoEvent /\ event[i][f] # NoEvent => e = f
       /\ \A i \in Sockets, s \in Places : holder[s] = i => Located(i, s)
       /\ SweepSound

LEMMA SocketStart == SocketInit => SocketInv
<1> SUFFICES ASSUME SocketInit PROVE SocketInv
    OBVIOUS
<1>1. NoEvent \in EventRecord
    BY DEF NoEvent, EventRecord
<1>2. SocketTyped
    BY <1>1 DEF SocketInit, SocketTyped, NoEvent
<1>3. \A i \in Sockets, s \in Places : holder[s] # i
    BY SocketNames DEF SocketInit
<1>4. SweepSound
    BY SocketNames DEF SocketInit, SweepSound
<1>. QED BY <1>2, <1>3, <1>4 DEF SocketInit, SocketInv

\* A step of event e of socket i: the event becomes n, no other socket's note changes, and
\* keys of slots only become i's or nobody's.
LEMMA EventStep ==
    ASSUME SocketInv, socketRegime = "single", socketRegime' = socketRegime, NoSweep,
           sweeping' = sweeping, NEW i \in Sockets, NEW e \in Events,
           NEW n \in EventRecord, event' = [event EXCEPT ![i][e] = n],
           \A f \in Events \ {e} : event[i][f] = NoEvent,
           n # NoEvent => n.slot \in Places,
           n.step \in {"previous", "drop"} => n.prev \in Places,
           holds' \in [Sockets -> Places \cup {Nowhere}],
           \A j \in Sockets \ {i} : holds'[j] = holds[j],
           holder' \in [Places -> Sockets \cup {Nobody}],
           \A s \in Places : holder'[s] = holder[s] \/ holder'[s] = Nobody \/ holder'[s] = i,
           \A s \in Places : holder'[s] = i => Notes(n, s) /\ (n = NoEvent => holds'[i] = s)
    PROVE SocketInv'
<1>t. SocketTyped
    BY DEF SocketInv
<1>1. /\ event' \in [Sockets -> [Events -> EventRecord]] /\ event'[i][e] = n
      /\ \A f \in Events \ {e} : event'[i][f] = NoEvent
      /\ \A j \in Sockets \ {i} : event'[j] = event[j]
    BY <1>t DEF SocketTyped
<1>2. NoEvent.step = "idle"
    BY DEF NoEvent
<1>3. SocketTyped'
    <2>1. \A f \in Events :
             /\ event'[i][f] # NoEvent => event'[i][f].slot \in Places
             /\ event'[i][f].step \in {"previous", "drop"} => event'[i][f].prev \in Places
        BY <1>1, <1>2
    <2>. QED BY <1>t, <1>1, <2>1 DEF SocketTyped
<1>4. \A s \in Places : sweeping[s] = Nobody
    BY DEF NoSweep
<1>5. SweepSound'
    BY <1>4, SocketNames DEF SweepSound
<1>6. \A j \in Sockets, f, g \in Events : event'[j][f] # NoEvent /\ event'[j][g] # NoEvent => f = g
    BY <1>1 DEF SocketInv
<1>7. ASSUME NEW j \in Sockets, NEW s \in Places, holder'[s] = j PROVE Located(j, s)'
    <2>1. CASE j = i
        <3>1. Notes(n, s) /\ (n = NoEvent => holds'[i] = s)
            BY <1>7, <2>1
        <3>2. \A f \in Events : Notes(event'[i][f], s)
            BY <1>1, <1>2, <3>1 DEF Notes
        <3>3. Quiet(i)' => holds'[i] = s
            BY <1>1, <3>1 DEF Quiet
        <3>. QED BY <2>1, <3>2, <3>3 DEF Located
    <2>2. CASE j # i
        <3>1. holder[s] = j
            BY <1>7, <2>2, SocketNames
        <3>2. Located(j, s)
            BY <3>1 DEF SocketInv
        <3>. QED BY <1>1, <2>2, <3>2 DEF Located, Quiet
    <2>. QED BY <2>1, <2>2
<1>. QED BY <1>3, <1>5, <1>6, <1>7 DEF SocketInv

\* A step that only gives slots back.
LEMMA SlotFreed ==
    ASSUME SocketInv, socketRegime = "single", socketRegime' = socketRegime, NoSweep,
           UNCHANGED <<holds, event, sweeping>>,
           NEW s \in Places, holder' = [holder EXCEPT ![s] = Nobody]
    PROVE SocketInv'
<1>1. SocketTyped
    BY DEF SocketInv
<1>2. SocketTyped'
    BY <1>1 DEF SocketTyped
<1>3. SweepSound'
    BY SocketNames DEF SweepSound, NoSweep
<1>4. ASSUME NEW j \in Sockets, NEW r \in Places, holder'[r] = j PROVE Located(j, r)'
    <2>1. holder[r] = j
        BY <1>1, <1>4, SocketNames DEF SocketTyped
    <2>. QED BY <2>1 DEF SocketInv, Located, Quiet
<1>. QED BY <1>2, <1>3, <1>4 DEF SocketInv

\* An event that goes on, without writing a key.
LEMMA EventGoes ==
    ASSUME SocketInv, socketRegime = "single", socketRegime' = socketRegime, NoSweep,
           UNCHANGED <<holder, holds, sweeping>>, NEW i \in Sockets, NEW e \in Events,
           NEW n \in EventRecord, event' = [event EXCEPT ![i][e] = n],
           \A f \in Events \ {e} : event[i][f] = NoEvent,
           n # NoEvent => n.slot \in Places,
           n.step \in {"previous", "drop"} => n.prev \in Places,
           \A s \in Places : holder[s] = i => Notes(n, s) /\ (n = NoEvent => holds[i] = s)
    PROVE SocketInv'
<1>1. SocketTyped
    BY DEF SocketInv
<1>2. /\ holds' \in [Sockets -> Places \cup {Nowhere}] /\ \A j \in Sockets \ {i} : holds'[j] = holds[j]
      /\ holder' \in [Places -> Sockets \cup {Nobody}]
    BY <1>1 DEF SocketTyped
<1>3. \A s \in Places : holder'[s] = i => Notes(n, s) /\ (n = NoEvent => holds'[i] = s)
    OBVIOUS
<1>4. sweeping' = sweeping /\ \A s \in Places : holder'[s] = holder[s] \/ holder'[s] = Nobody \/ holder'[s] = i
    OBVIOUS
<1>. QED BY <1>2, <1>3, <1>4, EventStep, Zenon

LEMMA SocketEventStep ==
    ASSUME SocketInv, socketRegime = "single", NEW i \in Sockets, NoSweep, SocketStep(i)
    PROVE SocketInv'
<1>t. SocketTyped /\ NoEvent \in EventRecord /\ NoEvent.step = "idle"
    BY DEF SocketInv, NoEvent, EventRecord
<1>l. \A s \in Places : holder[s] = i => Located(i, s)
    BY DEF SocketInv
<1>n. \A s \in Places : sweeping[s] # "erased"
    BY SocketNames DEF NoSweep
<1>q. \A s \in Places : Quiet(i) /\ holder[s] = i => holds[i] = s
    BY <1>l, <1>n DEF Located
<1>a. \A s \in Places, e \in Events : holder[s] = i => Notes(event[i][e], s)
    BY <1>l DEF Located
<1>o. \A e \in Events : event[i][e] # NoEvent => \A f \in Events \ {e} : event[i][f] = NoEvent
    BY DEF SocketInv
<1>s. \A e \in Events : event[i][e].step # "idle" => event[i][e] # NoEvent
    BY <1>t
<1>x. Nobody \notin Sockets /\ Nowhere \notin Places
    BY SocketNames
<1>1. CASE ExpireNote(i)
    <2>1. ~ Quiet(i) \/ \A s \in Places : holder[s] # i
        BY <1>q, <1>1 DEF ExpireNote
    <2>2. SocketTyped'
        BY <1>t, <1>1 DEF ExpireNote, SocketTyped
    <2>3. ASSUME NEW j \in Sockets, NEW s \in Places, holder'[s] = j PROVE Located(j, s)'
        <3>1. Located(j, s)
            BY <1>1, <2>3 DEF ExpireNote, SocketInv
        <3>2. CASE j = i
            BY <1>1, <2>1, <2>3, <3>1, <3>2 DEF ExpireNote, Located, Quiet
        <3>3. CASE j # i
            BY <1>1, <1>t, <3>1, <3>3 DEF ExpireNote, Located, Quiet, SocketTyped
        <3>. QED BY <3>2, <3>3
    <2>4. SweepSound'
        BY <1>1 DEF ExpireNote, SweepSound, SocketInv
    <2>. QED BY <1>1, <2>2, <2>3, <2>4 DEF ExpireNote, SocketInv
<1>2. ASSUME NEW e \in Events, NEW s \in Places, GetPrevious(i, e, s)
      PROVE SocketInv'
    <2> DEFINE n == [step |-> IF holds[i] \in {Nowhere, s} THEN "create" ELSE "previous",
                     slot |-> s, prev |-> holds[i]]
    <2>1. Quiet(i) /\ event' = [event EXCEPT ![i][e] = n]
        BY <1>2 DEF GetPrevious, MayHandle
    <2>2. n \in EventRecord /\ n # NoEvent
        BY <1>t, <1>x DEF EventRecord, SocketTyped, NoEvent
    <2>3. n.step \in {"previous", "drop"} => n.prev \in Places
        BY <1>t DEF SocketTyped
    <2>4. \A r \in Places : holder[r] = i => Notes(n, r)
        BY <1>q, <1>x, <2>1 DEF Notes
    <2>5. n.slot \in Places
        OBVIOUS
    <2>6. UNCHANGED <<socketRegime, holder, holds, sweeping>> /\ \A f \in Events : event[i][f] = NoEvent
        BY <1>2, <2>1 DEF GetPrevious, Quiet
    <2> HIDE DEF n
    <2>7. \A r \in Places : holder[r] = i => Notes(n, r) /\ (n = NoEvent => holds[i] = r)
        BY <2>2, <2>4
    <2>8. (n # NoEvent => n.slot \in Places) /\ \A f \in Events \ {e} : event[i][f] = NoEvent
        BY <2>5, <2>6
    <2>. QED BY <2>1, <2>2, <2>3, <2>6, <2>7, <2>8, EventGoes
<1>3. ASSUME NEW e \in Events, CheckPrevious(i, e) PROVE SocketInv'
    <2> DEFINE v == event[i][e]
               n == [v EXCEPT !.step = IF holder[v.prev] = i THEN "drop" ELSE "create"]
    <2>1. v \in EventRecord /\ v.step = "previous" /\ v # NoEvent
        BY <1>3, <1>s, <1>t DEF CheckPrevious, SocketTyped
    <2>2. /\ n \in EventRecord /\ n.prev = v.prev /\ n.slot = v.slot
          /\ n.step = IF holder[v.prev] = i THEN "drop" ELSE "create"
        BY <2>1 DEF EventRecord
    <2>3. v.slot \in Places /\ v.prev \in Places
        BY <1>t, <2>1 DEF SocketTyped
    <2>4. \A r \in Places : holder[r] = i => Notes(n, r)
        BY <1>a, <2>1, <2>2 DEF Notes
    <2>5. event' = [event EXCEPT ![i][e] = n]
        BY <1>3, <1>t DEF CheckPrevious, Goes, SocketTyped
    <2>6. n # NoEvent
        <3>1. n.step # "idle"
            BY <2>2
        <3> HIDE DEF n
        <3>. QED BY <1>t, <3>1
    <2> HIDE DEF n
    <2>. QED BY <1>3, <1>o, <2>1, <2>2, <2>3, <2>4, <2>5, <2>6, EventGoes DEF CheckPrevious
<1>4. ASSUME NEW e \in Events, DropPrevious(i, e) PROVE SocketInv'
    <2> DEFINE v == event[i][e]
               n == [v EXCEPT !.step = "create"]
    <2>1. v \in EventRecord /\ v.step = "drop" /\ v # NoEvent
        BY <1>4, <1>s, <1>t DEF DropPrevious, SocketTyped
    <2>2. n \in EventRecord /\ n.slot = v.slot /\ n.step = "create" /\ n # NoEvent
        BY <1>t, <2>1 DEF EventRecord
    <2>3. v.slot \in Places /\ v.prev \in Places
        BY <1>t, <2>1 DEF SocketTyped
    <2>4. holder' = [holder EXCEPT ![v.prev] = Nobody]
        BY <1>4 DEF DropPrevious, Dropped
    <2>5. \A r \in Places : holder'[r] # i
        BY <1>a, <1>t, <1>x, <2>1, <2>3, <2>4 DEF Notes, SocketTyped
    <2>6. /\ holder' \in [Places -> Sockets \cup {Nobody}]
          /\ \A r \in Places : holder'[r] = holder[r] \/ holder'[r] = Nobody
        BY <1>t, <2>4 DEF SocketTyped
    <2>7. event' = [event EXCEPT ![i][e] = n]
        BY <1>4, <1>t DEF DropPrevious, Goes, SocketTyped
    <2>8. holds' \in [Sockets -> Places \cup {Nowhere}] /\ holds' = holds
        BY <1>4, <1>t DEF DropPrevious, SocketTyped
    <2>9. UNCHANGED <<socketRegime, sweeping>>
        BY <1>4 DEF DropPrevious
    <2> HIDE DEF n, v
    <2>. QED BY <1>o, <2>1, <2>2, <2>3, <2>5, <2>6, <2>7, <2>8, <2>9, EventStep DEF v
<1>5. ASSUME NEW e \in Events, SetIfAbsent(i, e) PROVE SocketInv'
    <2> DEFINE v == event[i][e]
    <2>1. v \in EventRecord /\ v.step = "create" /\ v # NoEvent
        BY <1>5, <1>s, <1>t DEF SetIfAbsent, SocketTyped
    <2>2. v.slot \in Places /\ \A r \in Places : holder[r] = i => r = v.slot
        BY <1>a, <1>t, <2>1 DEF SocketTyped, Notes
    <2>3. UNCHANGED <<socketRegime, holds, sweeping>>
        BY <1>5 DEF SetIfAbsent
    <2>4. CASE holder[v.slot] = Nobody
        <3> DEFINE n == [v EXCEPT !.step = "note"]
        <3>1. n \in EventRecord /\ n.slot = v.slot /\ n.step = "note" /\ n # NoEvent
            BY <1>t, <2>1 DEF EventRecord
        <3>2. holder' = [holder EXCEPT ![v.slot] = i]
            BY <1>5, <2>4 DEF SetIfAbsent
        <3>3. event' = [event EXCEPT ![i][e] = n]
            BY <1>5, <1>t, <2>4 DEF SetIfAbsent, Goes, SocketTyped
        <3>4. /\ holder' \in [Places -> Sockets \cup {Nobody}]
              /\ \A r \in Places : holder'[r] = holder[r] \/ holder'[r] = i
            BY <1>t, <3>2 DEF SocketTyped
        <3>5. \A r \in Places : holder'[r] = i => Notes(n, r)
            BY <1>t, <2>2, <3>1, <3>2 DEF Notes, SocketTyped
        <3>6. holds' \in [Sockets -> Places \cup {Nowhere}] /\ holds' = holds
            BY <1>t, <2>3 DEF SocketTyped
        <3> HIDE DEF n, v
        <3>. QED BY <1>o, <2>1, <2>2, <2>3, <3>1, <3>3, <3>4, <3>5, <3>6, EventStep DEF v
    <2>5. CASE holder[v.slot] # Nobody
        <3> DEFINE n == [v EXCEPT !.step = "own?"]
        <3>1. n \in EventRecord /\ n.slot = v.slot /\ n.step = "own?" /\ n # NoEvent
            BY <1>t, <2>1 DEF EventRecord
        <3>2. holder' = holder
            BY <1>5, <2>5 DEF SetIfAbsent
        <3>3. event' = [event EXCEPT ![i][e] = n]
            BY <1>5, <1>t, <2>5 DEF SetIfAbsent, Goes, SocketTyped
        <3>4. \A r \in Places : holder[r] = i => Notes(n, r)
            BY <2>2, <3>1 DEF Notes
        <3> HIDE DEF n, v
        <3>. QED BY <1>o, <2>1, <2>2, <2>3, <3>1, <3>2, <3>3, <3>4, EventGoes DEF v
    <2>. QED BY <2>4, <2>5
<1>6. ASSUME NEW e \in Events, CheckOwn(i, e) PROVE SocketInv'
    <2> DEFINE v == event[i][e]
    <2>1. v \in EventRecord /\ v.step = "own?" /\ v # NoEvent
        BY <1>6, <1>s, <1>t DEF CheckOwn, SocketTyped
    <2>2. v.slot \in Places /\ \A r \in Places : holder[r] = i => r = v.slot
        BY <1>a, <1>t, <2>1 DEF SocketTyped, Notes
    <2>3. UNCHANGED <<socketRegime, holder, holds, sweeping>>
        BY <1>6 DEF CheckOwn
    <2>4. CASE holder[v.slot] = i
        <3> DEFINE n == [v EXCEPT !.step = "note"]
        <3>1. n \in EventRecord /\ n.slot = v.slot /\ n.step = "note" /\ n # NoEvent
            BY <1>t, <2>1 DEF EventRecord
        <3>2. event' = [event EXCEPT ![i][e] = n]
            BY <1>6, <1>t, <2>4 DEF CheckOwn, Goes, SocketTyped
        <3>3. \A r \in Places : holder[r] = i => Notes(n, r)
            BY <2>2, <3>1 DEF Notes
        <3> HIDE DEF n, v
        <3>. QED BY <1>o, <2>1, <2>2, <2>3, <3>1, <3>2, <3>3, EventGoes DEF v
    <2>5. CASE holder[v.slot] # i
        <3>1. \A r \in Places : holder[r] # i
            BY <2>2, <2>5
        <3>2. event' = [event EXCEPT ![i][e] = NoEvent]
            BY <1>6, <2>5 DEF CheckOwn, Ends
        <3> HIDE DEF v
        <3>. QED BY <1>o, <1>t, <2>1, <2>3, <3>1, <3>2, EventGoes DEF v
    <2>. QED BY <2>4, <2>5
<1>7. ASSUME NEW e \in Events, Note(i, e) PROVE SocketInv'
    <2> DEFINE v == event[i][e]
    <2>1. v.step = "note" /\ v # NoEvent
        BY <1>7, <1>s DEF Note
    <2>2. v.slot \in Places /\ \A r \in Places : holder[r] = i => r = v.slot
        BY <1>a, <1>t, <2>1 DEF SocketTyped, Notes
    <2>3. /\ UNCHANGED <<socketRegime, holder, sweeping>>
          /\ holds' = [holds EXCEPT ![i] = v.slot] /\ event' = [event EXCEPT ![i][e] = NoEvent]
        BY <1>7 DEF Note, Ends
    <2>4. /\ holder' \in [Places -> Sockets \cup {Nobody}]
          /\ holds' \in [Sockets -> Places \cup {Nowhere}]
          /\ \A j \in Sockets \ {i} : holds'[j] = holds[j]
        BY <1>t, <2>2, <2>3 DEF SocketTyped
    <2>5. \A r \in Places : holder'[r] = i => Notes(NoEvent, r) /\ holds'[i] = r
        BY <1>t, <2>2, <2>3 DEF Notes, SocketTyped
    <2>6. \A f \in Events \ {e} : event[i][f] = NoEvent
        BY <1>o, <2>1
    <2>7. \A r \in Places : holder'[r] = holder[r]
        BY <2>3
    <2>8. UNCHANGED <<socketRegime, sweeping>> /\ event' = [event EXCEPT ![i][e] = NoEvent]
        BY <2>3
    <2> HIDE DEF v
    <2>. QED BY <1>t, <2>4, <2>5, <2>6, <2>7, <2>8, EventStep
<1>8. ASSUME NEW e \in Events, NEW s \in Places, CheckHolder(i, e, s) PROVE SocketInv'
    <2> DEFINE n == [step |-> "delete", slot |-> s, prev |-> Nowhere]
    <2>1. n \in EventRecord /\ n # NoEvent /\ n.slot = s /\ n.step = "delete"
        BY DEF EventRecord, NoEvent
    <2>2. Quiet(i) /\ event' = [event EXCEPT ![i][e] = n] /\ holder[s] = i
        BY <1>8 DEF CheckHolder, MayHandle
    <2>3. \A r \in Places : holder[r] = i => Notes(n, r)
        BY <1>q, <2>1, <2>2 DEF Notes
    <2>4. UNCHANGED <<socketRegime, holder, holds, sweeping>> /\ \A f \in Events : event[i][f] = NoEvent
        BY <1>8, <2>2 DEF CheckHolder, Quiet
    <2> HIDE DEF n
    <2>5. \A r \in Places : holder[r] = i => Notes(n, r) /\ (n = NoEvent => holds[i] = r)
        BY <2>1, <2>3
    <2>6. \A f \in Events \ {e} : event[i][f] = NoEvent
        BY <2>4
    <2>. QED BY <2>1, <2>2, <2>4, <2>5, <2>6, EventGoes
<1>9. ASSUME NEW e \in Events, DeleteHold(i, e) PROVE SocketInv'
    <2> DEFINE v == event[i][e]
               n == [v EXCEPT !.step = "noted?"]
    <2>1. v \in EventRecord /\ v.step = "delete" /\ v # NoEvent
        BY <1>9, <1>s, <1>t DEF DeleteHold, SocketTyped
    <2>2. n \in EventRecord /\ n.slot = v.slot /\ n.step = "noted?" /\ n # NoEvent
        BY <1>t, <2>1 DEF EventRecord
    <2>3. v.slot \in Places /\ \A r \in Places : holder[r] = i => r = v.slot
        BY <1>a, <1>t, <2>1 DEF SocketTyped, Notes
    <2>4. holder' = [holder EXCEPT ![v.slot] = Nobody]
        BY <1>9 DEF DeleteHold
    <2>5. /\ holder' \in [Places -> Sockets \cup {Nobody}]
          /\ \A r \in Places : holder'[r] = holder[r] \/ holder'[r] = Nobody
          /\ \A r \in Places : holder'[r] # i
        BY <1>t, <1>x, <2>3, <2>4 DEF SocketTyped
    <2>6. event' = [event EXCEPT ![i][e] = n]
        BY <1>9, <1>t DEF DeleteHold, Goes, SocketTyped
    <2>7. holds' \in [Sockets -> Places \cup {Nowhere}] /\ holds' = holds
        BY <1>9, <1>t DEF DeleteHold, SocketTyped
    <2>8. UNCHANGED <<socketRegime, sweeping>>
        BY <1>9 DEF DeleteHold
    <2> HIDE DEF n, v
    <2>. QED BY <1>o, <2>1, <2>2, <2>3, <2>5, <2>6, <2>7, <2>8, EventStep DEF v
<1>10. ASSUME NEW e \in Events, CheckNote(i, e) PROVE SocketInv'
    <2> DEFINE v == event[i][e]
    <2>1. v \in EventRecord /\ v.step = "noted?" /\ v # NoEvent
        BY <1>10, <1>s, <1>t DEF CheckNote, SocketTyped
    <2>2. v.slot \in Places /\ \A r \in Places : holder[r] # i
        BY <1>a, <1>t, <2>1 DEF SocketTyped, Notes
    <2>3. UNCHANGED <<socketRegime, holder, holds, sweeping>>
        BY <1>10 DEF CheckNote
    <2>4. PICK n \in EventRecord : /\ event' = [event EXCEPT ![i][e] = n]
                                   /\ n = NoEvent \/ (n.slot = v.slot /\ n.step = "erase")
        <3>1. [v EXCEPT !.step = "erase"] \in EventRecord
            BY <2>1 DEF EventRecord
        <3>2. CASE holds[i] = v.slot
            BY <1>10, <1>t, <2>1, <3>1, <3>2 DEF CheckNote, Goes, SocketTyped, EventRecord
        <3>3. CASE holds[i] # v.slot
            BY <1>10, <1>t, <3>3 DEF CheckNote, Ends
        <3>. QED BY <3>2, <3>3
    <2>5. n.step \notin {"previous", "drop"} /\ (n # NoEvent => n.slot \in Places)
        BY <1>t, <2>2, <2>4
    <2> HIDE DEF v
    <2>. QED BY <1>o, <2>1, <2>2, <2>3, <2>4, <2>5, EventGoes DEF v
<1>11. ASSUME NEW e \in Events, EraseNote(i, e) PROVE SocketInv'
    <2> DEFINE v == event[i][e]
    <2>1. v.step = "erase" /\ v # NoEvent
        BY <1>11, <1>s DEF EraseNote
    <2>2. \A r \in Places : holder[r] # i
        BY <1>a, <2>1 DEF Notes
    <2>3. /\ UNCHANGED <<socketRegime, holder, sweeping>>
          /\ holds' = [holds EXCEPT ![i] = Nowhere] /\ event' = [event EXCEPT ![i][e] = NoEvent]
        BY <1>11 DEF EraseNote, Ends
    <2>4. /\ holder' \in [Places -> Sockets \cup {Nobody}]
          /\ holds' \in [Sockets -> Places \cup {Nowhere}]
          /\ \A j \in Sockets \ {i} : holds'[j] = holds[j]
        BY <1>t, <2>3 DEF SocketTyped
    <2> HIDE DEF v
    <2>. QED BY <1>o, <1>t, <2>1, <2>2, <2>3, <2>4, EventStep DEF v
<1>. QED BY <1>1, <1>2, <1>3, <1>4, <1>5, <1>6, <1>7, <1>8, <1>9, <1>10, <1>11 DEF SocketStep

LEMMA SocketKept ==
    ASSUME SocketInv, [SocketNext]_kvars
    PROVE SocketInv'
<1>1. CASE UNCHANGED kvars
    BY <1>1 DEF kvars, SocketInv, SocketTyped, Located, Quiet, SweepSound
<1>r. SocketNext => socketRegime' = socketRegime
    BY DEF SocketNext, SocketStep, ExpireNote, GetPrevious, CheckPrevious, DropPrevious,
       SetIfAbsent, CheckOwn, Note, CheckHolder, DeleteHold, CheckNote, EraseNote, SweepRead,
       SweepErase, SweepDelete, Booked, ExpireHolder
<1> SUFFICES ASSUME SocketNext, socketRegime = "single" PROVE SocketInv'
    BY <1>1, <1>r DEF SocketInv
<1>t. SocketTyped /\ SweepSound
    BY DEF SocketInv
<1>x. Nobody \notin Sockets /\ "erased" \notin Sockets \cup {Nobody}
    BY SocketNames
<1>2. CASE \E i \in Sockets : NoSweep /\ SocketStep(i)
    BY <1>2, SocketEventStep
<1>3. CASE \E s \in Places : NoSweep /\ (Booked(s) \/ ExpireHolder(s))
    BY <1>3, <1>r, SlotFreed DEF Booked, ExpireHolder
<1>4. CASE \E s \in Places : SweepRead(s)
    <2>1. PICK s \in Places : SweepRead(s)
        BY <1>4
    <2>2. \A r \in Places : sweeping[r] = Nobody
        BY <2>1 DEF SweepRead, NoSweep
    <2>3. /\ sweeping' = [sweeping EXCEPT ![s] = holder[s]] /\ holder[s] \in Sockets
          /\ UNCHANGED <<holder, holds, event>>
        BY <1>t, <2>1 DEF SweepRead, SocketTyped
    <2>4. SocketTyped'
        BY <1>t, <2>3 DEF SocketTyped
    <2>5. SweepSound'
        BY <1>t, <1>x, <2>2, <2>3 DEF SweepSound, SocketTyped
    <2>6. ASSUME NEW j \in Sockets, NEW r \in Places, holder'[r] = j PROVE Located(j, r)'
        BY <1>x, <2>2, <2>3, <2>6 DEF SocketInv, Located, Quiet
    <2>. QED BY <2>3, <2>4, <2>5, <2>6 DEF SocketInv
<1>5. CASE \E s \in Places : SweepErase(s)
    <2>1. PICK s \in Places : SweepErase(s)
        BY <1>5
    <2>2. PICK i \in Sockets : i = sweeping[s]
        BY <2>1 DEF SweepErase
    <2>3. /\ sweeping' = [sweeping EXCEPT ![s] = "erased"]
          /\ holds' = [holds EXCEPT ![i] = Nowhere] /\ UNCHANGED <<holder, event>>
        BY <2>1, <2>2 DEF SweepErase
    <2>4. holder[s] = i /\ \A r \in Places \ {s} : sweeping[r] = Nobody
        BY <1>t, <1>x, <2>2 DEF SweepSound
    <2>5. SocketTyped'
        BY <1>t, <2>3 DEF SocketTyped
    <2>6. SweepSound'
        BY <1>t, <1>x, <2>3, <2>4 DEF SweepSound, SocketTyped
    <2>7. ASSUME NEW j \in Sockets, NEW r \in Places, holder'[r] = j PROVE Located(j, r)'
        <3>1. Located(j, r)
            BY <2>3, <2>7 DEF SocketInv
        <3>2. CASE j # i
            <4>1. r # s /\ sweeping'[r] = sweeping[r] /\ holds'[j] = holds[j]
                BY <1>t, <2>3, <2>4, <2>7, <3>2 DEF SocketTyped
            <4>. QED BY <2>3, <3>1, <4>1 DEF Located, Quiet
        <3>3. CASE j = i
            <4>1. Located(i, s) /\ sweeping[s] # "erased" /\ sweeping'[s] = "erased"
                BY <1>t, <1>x, <2>2, <2>3, <2>4 DEF SocketInv, SocketTyped
            <4>2. Quiet(i) => holds[i] = s
                BY <4>1 DEF Located
            <4>3. Quiet(i) => r = s
                BY <1>x, <2>4, <3>1, <3>3, <4>2 DEF Located
            <4>. QED BY <2>3, <3>1, <3>3, <4>1, <4>3 DEF Located, Quiet
        <3>. QED BY <3>2, <3>3
    <2>. QED BY <2>3, <2>5, <2>6, <2>7 DEF SocketInv
<1>6. CASE \E s \in Places : SweepDelete(s)
    <2>1. PICK s \in Places : SweepDelete(s)
        BY <1>6
    <2>2. /\ sweeping' = [sweeping EXCEPT ![s] = Nobody] /\ holder' = [holder EXCEPT ![s] = Nobody]
          /\ UNCHANGED <<holds, event>> /\ sweeping[s] = "erased"
        BY <2>1 DEF SweepDelete
    <2>3. \A r \in Places : sweeping'[r] = Nobody
        BY <1>t, <1>x, <2>2 DEF SweepSound, SocketTyped
    <2>4. SocketTyped'
        BY <1>t, <2>2 DEF SocketTyped
    <2>5. SweepSound'
        BY <1>x, <2>3 DEF SweepSound
    <2>6. ASSUME NEW j \in Sockets, NEW r \in Places, holder'[r] = j PROVE Located(j, r)'
        <3>1. r # s /\ holder[r] = j
            BY <1>t, <1>x, <2>2, <2>6 DEF SocketTyped
        <3>2. Located(j, r) /\ sweeping'[r] = sweeping[r]
            BY <1>t, <2>2, <3>1 DEF SocketInv, SocketTyped
        <3>. QED BY <2>2, <3>2 DEF Located, Quiet
    <2>. QED BY <2>2, <2>4, <2>5, <2>6 DEF SocketInv
<1>. QED BY <1>2, <1>3, <1>4, <1>5, <1>6 DEF SocketNext

\* A socket between its events holds one slot at most and knows which.
THEOREM SocketHoldsOneHolds == SocketSpec => []SocketHoldsOne
<1>1. SocketInv /\ [SocketNext]_kvars => SocketInv'
    BY SocketKept
<1>2. SocketInv => SocketHoldsOne
    <2>1. \A s \in Places : NoSweep /\ socketRegime = "single" => sweeping[s] # "erased"
        BY SocketNames DEF NoSweep
    <2>. QED BY <2>1 DEF SocketInv, Located, SocketHoldsOne
<1>. QED BY SocketStart, <1>1, <1>2, PTL DEF SocketSpec

-----------------------------------------------------------------------------
(* Catalogues: a table of maintenance keeps an active entry and one default *)
(* at most, and what a ticket names is active.                              *)

RequestRow ==
    [op : RequestOps, server : Servers, entry : Entries \cup {NoEntry},
     namer : Namers \cup {NoEntry}, on : SUBSET Entries, off : SUBSET Entries,
     marks : SUBSET Entries, unmarks : SUBSET Entries]

\* what a request has read when it begins
Sensible(r) ==
    /\ r \in RequestRow
    /\ r.op \notin {"none", "refresh", "flush"}
    /\ r.off # {} => r.op \in {"off", "delete"}
    /\ r.op = "delete" => kind \in Deletable
    /\ r.op = "off" /\ kind \in KeepsLast => Active \ r.off # {}
    /\ r.marks # {} => \E e \in Entries : r.marks = {e} /\ Defaults \subseteq r.unmarks \cup {e}
    /\ kind \in OfHelpdesk => \A e \in r.off : ~ InUse(e)
    /\ r.op = "fill" => r.on = Active
    /\ r.op = "name" => r.namer \in Namers /\ r.entry \in Valid(r.server)

Begins == \E m \in Requests, r \in RequestRow : Begin(m, r) /\ Sensible(r)

LEMMA ServerExists == OneServer \in Servers
    BY CatalogueSize DEF OneServer

LEMMA NoRequestType == NoRequest \in RequestRow
    BY ServerExists DEF NoRequest, RequestRow, RequestOps

LEMMA AtRow ==
    ASSUME NEW s \in Servers, NEW op \in RequestOps, NEW e \in Entries \cup {NoEntry}
    PROVE  /\ At(s, op, e) \in RequestRow
           /\ At(s, op, e).op = op /\ At(s, op, e).server = s /\ At(s, op, e).entry = e
           /\ At(s, op, e).namer = NoEntry /\ At(s, op, e).on = {} /\ At(s, op, e).off = {}
           /\ At(s, op, e).marks = {} /\ At(s, op, e).unmarks = {}
    BY ServerExists DEF At, NoRequest, RequestRow

LEMMA ActiveType == Active \subseteq Entries /\ Defaults \subseteq Entries
    BY DEF Active, Defaults

\* a set with two elements keeps one when an element leaves
LEMMA OneStays ==
    ASSUME NEW S, IsFiniteSet(S), Cardinality(S) > 1, NEW x
    PROVE  S \ {x} # {}
<1>1. SUFFICES ASSUME S \ {x} = {} PROVE FALSE
    OBVIOUS
<1>2. S \subseteq {x}
    BY <1>1
<1>3. IsFiniteSet({x}) /\ Cardinality({x}) = 1
    BY FS_Singleton
<1>4. Cardinality(S) <= Cardinality({x})
    BY <1>2, <1>3, FS_Subset
<1>5. Cardinality(S) \in Nat
    BY FS_CardinalityType
<1>. QED BY <1>3, <1>4, <1>5

LEMMA ActiveFinite == IsFiniteSet(Active) /\ IsFiniteSet(Defaults)
    BY ActiveType, CatalogueSize, FS_Subset

-----------------------------------------------------------------------------
(* Every request begins with a sensible record.                             *)

LEMMA CreateBegins ==
    ASSUME CatalogueTypeOK, NEW m \in Requests, NEW s \in Servers, NEW e \in Entries,
           NEW default \in BOOLEAN, ReadToCreate(m, s, e, default)
    PROVE  Begins
<1>. DEFINE a == At(s, "create", e)
            marks == IF default THEN {e} ELSE {}
            unmarks == IF default THEN Defaults ELSE {}
            r == [a EXCEPT !.on = {e}, !.marks = marks, !.unmarks = unmarks]
<1>1. Begin(m, r)
    BY DEF ReadToCreate
<1>2. marks \subseteq Entries /\ unmarks \subseteq Entries /\ (marks # {} => marks = {e} /\ unmarks = Defaults)
    BY ActiveType
<1>3. /\ a \in RequestRow /\ a.op = "create" /\ a.off = {}
    BY AtRow DEF RequestOps
<1>. HIDE DEF a, marks, unmarks
<1>4. r \in RequestRow /\ r.op = "create" /\ r.off = {} /\ r.marks = marks /\ r.unmarks = unmarks
    BY <1>2, <1>3 DEF RequestRow
<1>. HIDE DEF r
<1>5. Sensible(r)
    BY <1>2, <1>4 DEF Sensible
<1>. QED BY <1>1, <1>4, <1>5 DEF Begins

LEMMA SwitchBegins ==
    ASSUME CatalogueTypeOK, NEW m \in Requests, NEW s \in Servers, NEW e \in Entries,
           ReadToSwitchOn(m, s, e) \/ ReadToSwitchOff(m, s, e) \/ ReadToDelete(m, s, e)
    PROVE  Begins
<1>1. CASE ReadToSwitchOn(m, s, e)
    <2>. DEFINE r == [At(s, "on", e) EXCEPT !.on = {e} \ Active]
    <2>1. /\ r \in RequestRow /\ r.op = "on" /\ r.server = s /\ r.entry = e
          /\ r.namer = NoEntry /\ r.on = {e} \ Active /\ r.off = {}
          /\ r.marks = {} /\ r.unmarks = {}
        BY AtRow, ActiveType DEF RequestRow, RequestOps
    <2>2. Begin(m, r)
        BY <1>1 DEF ReadToSwitchOn
    <2>. HIDE DEF r
    <2>4. Sensible(r)
        BY <2>1 DEF Sensible
    <2>. QED BY <2>1, <2>2, <2>4 DEF Begins
<1>2. CASE ReadToSwitchOff(m, s, e)
    <2>. DEFINE r == [At(s, "off", e) EXCEPT !.off = {e} \cap Active]
    <2>1. /\ r \in RequestRow /\ r.op = "off" /\ r.server = s /\ r.entry = e
          /\ r.namer = NoEntry /\ r.on = {} /\ r.off = {e} \cap Active
          /\ r.marks = {} /\ r.unmarks = {}
        BY AtRow, ActiveType DEF RequestRow, RequestOps
    <2>2. Begin(m, r) /\ MaySwitchOff(e)
        BY <1>2 DEF ReadToSwitchOff
    <2>. HIDE DEF r
    <2>4. kind \in KeepsLast => Active \ r.off # {}
        <3>1. HAVE kind \in KeepsLast
        <3>2. Active \ {e} # {}
            BY <2>2, <3>1, ActiveFinite, OneStays DEF MaySwitchOff
        <3>. QED BY <2>1, <3>2
    <2>5. kind \in OfHelpdesk => \A x \in r.off : ~ InUse(x)
        BY <2>1, <2>2 DEF MaySwitchOff
    <2>6. Sensible(r)
        BY <2>1, <2>4, <2>5 DEF Sensible
    <2>. QED BY <2>1, <2>2, <2>6 DEF Begins
<1>3. CASE ReadToDelete(m, s, e)
    <2>. DEFINE r == [At(s, "delete", e) EXCEPT !.off = {e} \cap Active]
    <2>1. /\ r \in RequestRow /\ r.op = "delete" /\ r.server = s /\ r.entry = e
          /\ r.namer = NoEntry /\ r.on = {} /\ r.off = {e} \cap Active
          /\ r.marks = {} /\ r.unmarks = {}
        BY AtRow, ActiveType DEF RequestRow, RequestOps
    <2>2. Begin(m, r) /\ kind \in Deletable /\ \A k \in Namers : naming[k].entry # e
        BY <1>3 DEF ReadToDelete
    <2>. HIDE DEF r
    <2>4. \A x \in r.off : ~ InUse(x)
        BY <2>1, <2>2 DEF InUse
    <2>5. Sensible(r)
        BY <2>1, <2>2, <2>4 DEF Sensible
    <2>. QED BY <2>1, <2>2, <2>5 DEF Begins
<1>. QED BY <1>1, <1>2, <1>3

LEMMA MarkBegins ==
    ASSUME CatalogueTypeOK, NEW m \in Requests, NEW s \in Servers, NEW e \in Entries,
           ReadToMark(m, s, e) \/ ReadToUnmark(m, s, e)
    PROVE  Begins
<1>1. CASE ReadToMark(m, s, e)
    <2>. DEFINE a == At(s, "mark", e)
                unmarks == Defaults \ {e}
                r == [a EXCEPT !.marks = {e}, !.unmarks = unmarks]
    <2>1. Begin(m, r)
        BY <1>1 DEF ReadToMark
    <2>2. unmarks \subseteq Entries /\ Defaults \subseteq unmarks \cup {e}
        BY ActiveType
    <2>3. a \in RequestRow /\ a.op = "mark" /\ a.off = {}
        BY AtRow DEF RequestOps
    <2>. HIDE DEF a, unmarks
    <2>4. r \in RequestRow /\ r.op = "mark" /\ r.off = {} /\ r.marks = {e} /\ r.unmarks = unmarks
        BY <2>2, <2>3 DEF RequestRow
    <2>. HIDE DEF r
    <2>5. Sensible(r)
        BY <2>2, <2>4 DEF Sensible
    <2>. QED BY <2>1, <2>4, <2>5 DEF Begins
<1>2. CASE ReadToUnmark(m, s, e)
    <2>. DEFINE r == [At(s, "unmark", e) EXCEPT !.unmarks = {e} \cap Defaults]
    <2>1. /\ r \in RequestRow /\ r.op = "unmark" /\ r.server = s /\ r.entry = e
          /\ r.namer = NoEntry /\ r.on = {} /\ r.off = {}
          /\ r.marks = {} /\ r.unmarks = {e} \cap Defaults
        BY AtRow, ActiveType DEF RequestRow, RequestOps
    <2>2. Begin(m, r)
        BY <1>2 DEF ReadToUnmark
    <2>. HIDE DEF r
    <2>4. Sensible(r)
        BY <2>1 DEF Sensible
    <2>. QED BY <2>1, <2>2, <2>4 DEF Begins
<1>. QED BY <1>1, <1>2

LEMMA EditBegins ==
    ASSUME CatalogueTypeOK, NEW m \in Requests, NEW s \in Servers, NEW op \in {"edit", "reorder"},
           ReadToEdit(m, s, op)
    PROVE  Begins
<1>. DEFINE r == At(s, op, NoEntry)
<1>1. /\ r \in RequestRow /\ r.op = op /\ r.server = s /\ r.entry = NoEntry
      /\ r.namer = NoEntry /\ r.on = {} /\ r.off = {}
      /\ r.marks = {} /\ r.unmarks = {}
    BY AtRow, ActiveType DEF RequestRow, RequestOps
<1>2. Begin(m, r)
    BY DEF ReadToEdit
<1>. HIDE DEF r
<1>4. Sensible(r)
    BY <1>1 DEF Sensible
<1>. QED BY <1>1, <1>2, <1>4 DEF Begins

LEMMA FillBegins ==
    ASSUME CatalogueTypeOK, NEW m \in Requests, NEW s \in Servers, Fill(m, s)
    PROVE  Begins
<1>. DEFINE r == [At(s, "fill", NoEntry) EXCEPT !.on = Active]
<1>1. /\ r \in RequestRow /\ r.op = "fill" /\ r.server = s /\ r.entry = NoEntry
      /\ r.namer = NoEntry /\ r.on = Active /\ r.off = {}
      /\ r.marks = {} /\ r.unmarks = {}
    BY AtRow, ActiveType DEF RequestRow, RequestOps
<1>2. Begin(m, r)
    BY DEF Fill
<1>. HIDE DEF r
<1>4. Sensible(r)
    BY <1>1 DEF Sensible
<1>. QED BY <1>1, <1>2, <1>4 DEF Begins

LEMMA NameBegins ==
    ASSUME CatalogueTypeOK, NEW m \in Requests, NEW s \in Servers, NEW k \in Namers,
           NEW e \in Entries, ReadToName(m, s, k, e)
    PROVE  Begins
<1>. DEFINE r == [At(s, "name", e) EXCEPT !.namer = k]
<1>1. /\ r \in RequestRow /\ r.op = "name" /\ r.server = s /\ r.entry = e
      /\ r.namer = k /\ r.on = {} /\ r.off = {}
      /\ r.marks = {} /\ r.unmarks = {}
    BY AtRow, ActiveType DEF RequestRow, RequestOps
<1>2. Begin(m, r) /\ e \in Valid(s)
    BY DEF ReadToName
<1>. HIDE DEF r
<1>4. Sensible(r)
    BY <1>1, <1>2 DEF Sensible
<1>. QED BY <1>1, <1>2, <1>4 DEF Begins

\* The steps, with all that begin a request in one.
Completes(m) == CommitChange(m) \/ Flush(m) \/ Fails(m) \/ Store(m) \/ CommitName(m)

LEMMA Steps ==
    ASSUME CatalogueTypeOK, CatalogueNext
    PROVE  \/ Begins
           \/ \E m \in Requests : Completes(m)
           \/ \E k \in Namers : Advance(k) \/ DropSpecialty(k)
    BY CreateBegins, SwitchBegins, MarkBegins, EditBegins, FillBegins, NameBegins
    DEF CatalogueNext, Completes
-----------------------------------------------------------------------------
(* What a step does to the request, the listing and the rest of the type.   *)

\* what is left of a request that has committed or ended
Bare(r) ==
    /\ r \in RequestRow /\ r.op \in {"none", "refresh", "flush"}
    /\ r.off = {} /\ r.marks = {}

LEMMA RequestTyped ==
    ASSUME CatalogueTypeOK, NEW m \in Requests
    PROVE  request[m] \in RequestRow
    BY DEF CatalogueTypeOK, RequestRow

LEMMA BareRows ==
    ASSUME NEW s \in Servers, NEW op \in {"none", "refresh", "flush"}
    PROVE  /\ Bare(NoRequest)
           /\ Bare([NoRequest EXCEPT !.server = s, !.op = op])
<1>1. NoRequest \in RequestRow /\ NoRequest.op = "none" /\ NoRequest.off = {} /\ NoRequest.marks = {}
    BY NoRequestType DEF NoRequest
<1>2. op \in RequestOps
    BY DEF RequestOps
<1>. QED BY <1>1, <1>2 DEF Bare, RequestRow

LEMMA RequestEnds ==
    ASSUME CatalogueTypeOK, NEW m \in Requests, Completes(m)
    PROVE  /\ \E x \in RequestRow : Bare(x) /\ request' = [request EXCEPT ![m] = x]
           /\ UNCHANGED <<catalogueRegime, kind>>
<1>1. request[m].server \in Servers
    BY RequestTyped DEF RequestRow
<1>2. CASE CommitChange(m)
    <2>. DEFINE r == request[m]
                op == IF r.op \in {"delete", "reorder"} THEN "flush" ELSE "refresh"
                after == [NoRequest EXCEPT !.server = r.server, !.op = op]
                refused == r.op = "create" /\ listing[r.entry].state # "absent"
                x == IF refused \/ kind \notin Cached THEN NoRequest ELSE after
    <2>1. request' = [request EXCEPT ![m] = x] /\ UNCHANGED <<catalogueRegime, kind>>
        BY <1>2 DEF CommitChange
    <2>2. op \in {"none", "refresh", "flush"}
        OBVIOUS
    <2>. HIDE DEF op
    <2>3. Bare(NoRequest) /\ Bare(after)
        BY <1>1, <2>2, BareRows
    <2>. HIDE DEF after, refused
    <2>4. Bare(x)
        BY <2>3
    <2>. QED BY <2>1, <2>4 DEF Bare
<1>3. CASE Flush(m) \/ Fails(m) \/ Store(m) \/ CommitName(m)
    <2>1. request' = [request EXCEPT ![m] = NoRequest] /\ UNCHANGED <<catalogueRegime, kind>>
        BY <1>3 DEF Flush, Fails, Store, CommitName
    <2>2. Bare(NoRequest)
        BY <1>1, BareRows
    <2>. QED BY <2>1, <2>2 DEF Bare
<1>. QED BY <1>2, <1>3 DEF Completes

LEMMA WrittenListing ==
    ASSUME CatalogueTypeOK, NEW m \in Requests, listing' = Written(request[m])
    PROVE  /\ listing' \in [Entries -> [state : {"absent", "on", "off"}, default : BOOLEAN]]
           /\ Active' = (Active \ request[m].off) \cup request[m].on
           /\ Defaults' = (Defaults \ request[m].unmarks) \cup request[m].marks
<1>. DEFINE r == request[m]
<1>1. r \in RequestRow
    BY RequestTyped
<1>2. r.on \subseteq Entries /\ r.marks \subseteq Entries
    BY <1>1 DEF RequestRow
<1>. HIDE DEF r
<1>3. \A e \in Entries : listing[e].state \in {"absent", "on", "off"} /\ listing[e].default \in BOOLEAN
    BY DEF CatalogueTypeOK
<1>. DEFINE st(e) == IF e \in r.on THEN "on" ELSE IF e \in r.off THEN "off" ELSE listing[e].state
            df(e) == (listing[e].default /\ e \notin r.unmarks) \/ e \in r.marks
<1>4. listing' = [e \in Entries |-> [state |-> st(e), default |-> df(e)]]
    BY DEF Written, r
<1>5. \A e \in Entries :
          /\ st(e) \in {"absent", "on", "off"}
          /\ st(e) = "on" <=> (listing[e].state = "on" /\ e \notin r.off) \/ e \in r.on
    BY <1>3
<1>6. \A e \in Entries : df(e) \in BOOLEAN
    OBVIOUS
<1>. HIDE DEF st, df
<1>7. \A e \in Entries : listing'[e].state = st(e) /\ listing'[e].default = df(e)
    BY <1>4
<1>8. listing' \in [Entries -> [state : {"absent", "on", "off"}, default : BOOLEAN]]
    BY <1>4, <1>5, <1>6
<1>9. Active' = (Active \ r.off) \cup r.on
    BY <1>2, <1>5, <1>7 DEF Active
<1>10. Defaults' = (Defaults \ r.unmarks) \cup r.marks
    <2>1. \A e \in Entries : df(e) <=> (listing[e].default /\ e \notin r.unmarks) \/ e \in r.marks
        BY DEF df
    <2>. QED BY <1>2, <1>7, <2>1 DEF Defaults
<1>. QED BY <1>8, <1>9, <1>10 DEF r

LEMMA ListingSteps ==
    ASSUME NEW m \in Requests, Completes(m)
    PROVE  \/ UNCHANGED listing
           \/ CommitChange(m) /\ listing' = Written(request[m])
    BY DEF Completes, CommitChange, Flush, Fails, Store, CommitName

LEMMA NamingSteps ==
    ASSUME CatalogueTypeOK, NEW m \in Requests, CommitName(m)
    PROVE  naming' \in [Namers -> [state : {"none", "pending", "open", "done"},
                                   entry : Entries \cup {NoEntry}]]
<1>. DEFINE k == request[m].namer
            s == IF kind = "mt list" THEN "done"
                 ELSE IF naming[k].state = "none" THEN "pending" ELSE naming[k].state
            row == [state |-> s, entry |-> request[m].entry]
<1>1. naming' = [naming EXCEPT ![k] = row]
    BY DEF CommitName
<1>2. request[m].entry \in Entries \cup {NoEntry}
    BY RequestTyped DEF RequestRow
<1>3. CASE k \in Namers
    <2>1. s \in {"none", "pending", "open", "done"}
        BY <1>3 DEF CatalogueTypeOK
    <2>. HIDE DEF s, k
    <2>. QED BY <1>1, <1>2, <1>3, <2>1 DEF CatalogueTypeOK
<1>4. CASE k \notin Namers
    <2>. HIDE DEF row, k
    <2>1. naming' = naming
        BY <1>1, <1>4 DEF CatalogueTypeOK
    <2>. QED BY <2>1 DEF CatalogueTypeOK
<1>. QED BY <1>3, <1>4

LEMMA TypeStep ==
    ASSUME CatalogueTypeOK, CatalogueNext
    PROVE  CatalogueTypeOK'
<1>1. CASE Begins
    <2>1. PICK m \in Requests, r \in RequestRow : Begin(m, r)
        BY <1>1 DEF Begins
    <2>. QED BY <2>1 DEF Begin, CatalogueTypeOK, RequestRow
<1>2. ASSUME NEW m \in Requests, Completes(m) PROVE CatalogueTypeOK'
    <2>1. PICK x \in RequestRow : request' = [request EXCEPT ![m] = x]
        BY <1>2, RequestEnds
    <2>2. request' \in [Requests -> RequestRow]
        BY <2>1 DEF CatalogueTypeOK, RequestRow
    <2>3. listing' \in [Entries -> [state : {"absent", "on", "off"}, default : BOOLEAN]]
        BY <1>2, ListingSteps, WrittenListing DEF CatalogueTypeOK
    <2>4. copy' \in [Servers -> (SUBSET Entries) \cup {NoCopy}]
        <3>1. request[m].on \subseteq Entries
            BY RequestTyped DEF RequestRow
        <3>2. CASE Store(m)
            BY <3>1, <3>2 DEF Store, CatalogueTypeOK
        <3>3. CASE Flush(m)
            BY <3>3 DEF Flush, CatalogueTypeOK
        <3>4. CASE CommitChange(m) \/ Fails(m) \/ CommitName(m)
            BY <3>4 DEF CommitChange, Fails, CommitName, CatalogueTypeOK
        <3>. QED BY <1>2, <3>2, <3>3, <3>4 DEF Completes
    <2>5. naming' \in [Namers -> [state : {"none", "pending", "open", "done"},
                                  entry : Entries \cup {NoEntry}]]
        BY <1>2, NamingSteps
        DEF Completes, CommitChange, Flush, Fails, Store, CatalogueTypeOK
    <2>. QED BY <1>2, RequestEnds, <2>2, <2>3, <2>4, <2>5 DEF CatalogueTypeOK, RequestRow
<1>3. ASSUME NEW k \in Namers, Advance(k) \/ DropSpecialty(k) PROVE CatalogueTypeOK'
    <2>1. naming[k] \in [state : {"none", "pending", "open", "done"}, entry : Entries \cup {NoEntry}]
        BY DEF CatalogueTypeOK
    <2>2. UNCHANGED <<catalogueRegime, kind, listing, copy, request>>
        BY <1>3 DEF Advance, DropSpecialty
    <2>3. naming' \in [Namers -> [state : {"none", "pending", "open", "done"},
                                  entry : Entries \cup {NoEntry}]]
        <3>1. CASE Advance(k)
            <4>1. PICK next \in {"open", "done"} : naming' = [naming EXCEPT ![k].state = next]
                BY <3>1 DEF Advance
            <4>. QED BY <2>1, <4>1 DEF CatalogueTypeOK
        <3>2. CASE DropSpecialty(k)
            BY <3>2 DEF DropSpecialty, CatalogueTypeOK
        <3>. QED BY <1>3, <3>1, <3>2
    <2>. QED BY <2>2, <2>3 DEF CatalogueTypeOK
<1>. QED BY <1>1, <1>2, <1>3, Steps

\* the entries a table starts with, and its default
LEMMA Seeded ==
    ASSUME CatalogueInit
    PROVE  \E seeded \in SUBSET Entries :
              /\ \E d : listing = [e \in Entries |->
                                      [state |-> IF e \in seeded THEN "on" ELSE "absent",
                                       default |-> e = d]]
              /\ kind # "hd area" => seeded # {}
<1>1. PICK seeded \in IF kind = "hd area" THEN {Entries} ELSE (SUBSET Entries) \ {{}} :
          \E d \in IF kind = "mt priority" THEN seeded ELSE {NoEntry} :
             listing = [e \in Entries |-> [state |-> IF e \in seeded THEN "on" ELSE "absent",
                                           default |-> e = d]]
    BY Zenon DEF CatalogueInit
<1>2. \E d : listing = [e \in Entries |-> [state |-> IF e \in seeded THEN "on" ELSE "absent",
                                           default |-> e = d]]
    BY <1>1, Zenon
<1>3. seeded \in SUBSET Entries /\ (kind # "hd area" => seeded # {})
    BY <1>1
<1>. QED BY <1>2, <1>3, Zenon

LEMMA InitTyped ==
    ASSUME CatalogueInit
    PROVE  CatalogueTypeOK
<1>1. request \in [Requests -> RequestRow]
    BY NoRequestType DEF CatalogueInit
<1>2. listing \in [Entries -> [state : {"absent", "on", "off"}, default : BOOLEAN]]
    <2>0. PICK seeded \in SUBSET Entries : \E d :
              listing = [e \in Entries |-> [state |-> IF e \in seeded THEN "on" ELSE "absent",
                                            default |-> e = d]]
        BY Seeded, Zenon
    <2>1. PICK d :
              listing = [e \in Entries |-> [state |-> IF e \in seeded THEN "on" ELSE "absent",
                                            default |-> e = d]]
        BY <2>0
    <2>. DEFINE df(e) == e = d
    <2>2. \A e \in Entries : df(e) \in BOOLEAN
        OBVIOUS
    <2>. HIDE DEF df
    <2>3. listing = [e \in Entries |-> [state |-> IF e \in seeded THEN "on" ELSE "absent",
                                        default |-> df(e)]]
        BY <2>1 DEF df
    <2>. QED BY <2>2, <2>3
<1>3. copy \in [Servers -> (SUBSET Entries) \cup {NoCopy}]
    BY DEF CatalogueInit
<1>4. naming \in [Namers -> [state : {"none", "pending", "open", "done"},
                             entry : Entries \cup {NoEntry}]]
    BY DEF CatalogueInit
<1>5. catalogueRegime \in {"turns", "workers", "alone", "overlap"} /\ kind \in OfHelpdesk \cup OfMaint
    BY CatalogueRegimesKnown DEF CatalogueInit
<1>. QED BY <1>1, <1>2, <1>3, <1>4, <1>5 DEF CatalogueTypeOK, RequestRow

(* The variables keep their types: what a commit, a load or a naming writes  *)
(* are rows, copies and states of the tables and tickets.                    *)
THEOREM CatalogueTyped == CatalogueSpec => []CatalogueTypeOK
<1>1. CatalogueTypeOK /\ UNCHANGED cvars => CatalogueTypeOK'
    BY DEF CatalogueTypeOK, cvars
<1>. QED BY InitTyped, TypeStep, <1>1, PTL DEF CatalogueSpec
-----------------------------------------------------------------------------
(* The last active entry and the default: of the requests that switch off or *)
(* mark, one is in flight, so what it has read still holds at its commit.    *)

\* what an exclusive request counts on
Counted(r, table, active, defaults) ==
    /\ r.off # {} => r.op \in {"off", "delete"}
    /\ r.op = "delete" => table \in Deletable
    /\ r.op = "off" /\ table \in KeepsLast => active \ r.off # {}
    /\ r.marks # {} => \E e \in Entries : r.marks = {e} /\ defaults \subseteq r.unmarks \cup {e}

OneDefault == \A a, b \in Defaults : a = b

ServesInv ==
    /\ CatalogueTypeOK
    /\ catalogueRegime # "overlap" =>
          /\ kind \in KeepsLast => Active # {}
          /\ OneDefault
          /\ \A m \in Requests : Counted(request[m], kind, Active, Defaults)
          /\ \A m, q \in Requests : Exclusive(request[m]) /\ Exclusive(request[q]) => m = q

LEMMA BareCounts ==
    ASSUME NEW r, Bare(r)
    PROVE  ~ Exclusive(r) /\ \A table, active, defaults : Counted(r, table, active, defaults)
    BY DEF Bare, Counted, Exclusive

LEMMA ServesBegins ==
    ASSUME ServesInv, catalogueRegime # "overlap",
           NEW m \in Requests, NEW r \in RequestRow, Begin(m, r), Sensible(r)
    PROVE  ServesInv'
<1>1. CatalogueTypeOK'
    BY DEF ServesInv, Begin, CatalogueTypeOK, RequestRow
<1>2. Active' = Active /\ Defaults' = Defaults /\ kind' = kind /\ catalogueRegime' = catalogueRegime
    BY DEF Begin, Active, Defaults
<1>3. request' = [request EXCEPT ![m] = r] /\ request \in [Requests -> RequestRow]
    BY DEF Begin, ServesInv, CatalogueTypeOK, RequestRow
<1>4. Counted(r, kind, Active, Defaults)
    BY DEF Sensible, Counted
<1>5. \A q \in Requests : Counted(request'[q], kind', Active', Defaults')
    BY <1>2, <1>3, <1>4 DEF ServesInv, Counted
<1>6. Exclusive(r) => \A q \in Requests : ~ Exclusive(request[q])
    <2>1. CASE Orderly
        <3>1. ~ Exclusive(NoRequest)
            BY DEF Exclusive, NoRequest
        <3>. QED BY <2>1, <3>1 DEF Begin
    <2>2. CASE ~ Orderly
        <3>1. catalogueRegime = "alone"
            BY <2>2 DEF Orderly, ServesInv, CatalogueTypeOK
        <3>. QED BY <3>1 DEF Begin
    <2>. QED BY <2>1, <2>2
<1>7. \A p, q \in Requests : Exclusive(request'[p]) /\ Exclusive(request'[q]) => p = q
    BY <1>3, <1>6 DEF ServesInv
<1>. QED BY <1>1, <1>2, <1>5, <1>7 DEF ServesInv, OneDefault, Exclusive

LEMMA ServesCompletes ==
    ASSUME ServesInv, CatalogueTypeOK', catalogueRegime # "overlap", NEW m \in Requests, Completes(m)
    PROVE  ServesInv'
<1>. DEFINE r == request[m]
<1>0. CatalogueTypeOK /\ r \in RequestRow
    BY RequestTyped DEF ServesInv
<1>1. PICK x \in RequestRow : Bare(x) /\ request' = [request EXCEPT ![m] = x]
    BY <1>0, RequestEnds
<1>2. kind' = kind /\ catalogueRegime' = catalogueRegime
    BY <1>0, RequestEnds
<1>3. request \in [Requests -> RequestRow]
    BY <1>0 DEF CatalogueTypeOK, RequestRow
<1>4. Counted(x, kind', Active', Defaults') /\ ~ Exclusive(x)
    BY <1>1, BareCounts
<1>5. \A p, q \in Requests : Exclusive(request'[p]) /\ Exclusive(request'[q]) => p = q
    BY <1>1, <1>3, <1>4 DEF ServesInv
<1>6. CASE UNCHANGED listing
    <2>1. Active' = Active /\ Defaults' = Defaults
        BY <1>6 DEF Active, Defaults
    <2>2. \A q \in Requests : Counted(request'[q], kind', Active', Defaults')
        BY <1>1, <1>2, <1>3, <1>4, <2>1 DEF ServesInv, Counted
    <2>. QED BY <1>2, <1>5, <2>1, <2>2 DEF ServesInv, OneDefault, Exclusive
<1>7. CASE CommitChange(m) /\ listing' = Written(r)
    <2>1. Active' = (Active \ r.off) \cup r.on /\ Defaults' = (Defaults \ r.unmarks) \cup r.marks
        BY <1>0, <1>7, WrittenListing
    <2>2. Counted(r, kind, Active, Defaults)
        BY DEF ServesInv
    <2>. HIDE DEF r
    <2>3. kind \in KeepsLast /\ r.off # {} => r.op = "off" /\ Active \ r.off # {}
        BY <2>2 DEF Counted, KeepsLast, Deletable
    <2>4. kind \in KeepsLast => Active' # {}
        BY <2>1, <2>3 DEF ServesInv
    <2>5. OneDefault'
        <3>1. CASE r.marks = {}
            BY <2>1, <3>1 DEF ServesInv, OneDefault
        <3>2. CASE r.marks # {}
            <4>1. PICK e \in Entries : r.marks = {e} /\ Defaults \subseteq r.unmarks \cup {e}
                BY <2>2, <3>2 DEF Counted
            <4>. QED BY <2>1, <4>1 DEF OneDefault
        <3>. QED BY <3>1, <3>2
    <2>6. ASSUME NEW q \in Requests PROVE Counted(request'[q], kind', Active', Defaults')
        <3>1. CASE q = m
            BY <1>1, <1>3, <1>4, <3>1 DEF Counted
        <3>2. CASE q # m
            <4>. DEFINE z == request[q]
            <4>1. request'[q] = z /\ Counted(z, kind, Active, Defaults)
                BY <1>1, <1>3, <3>2 DEF ServesInv
            <4>. HIDE DEF z
            <4>2. Exclusive(z) => ~ Exclusive(r)
                BY <3>2 DEF ServesInv, z, r
            <4>3. Exclusive(z) => Defaults' \subseteq Defaults
                BY <2>1, <4>2 DEF Exclusive
            <4>4. Exclusive(z) /\ kind \in KeepsLast => Active \subseteq Active'
                BY <2>1, <2>3, <4>2 DEF Exclusive
            <4>5. kind' \in KeepsLast <=> kind \in KeepsLast
                BY <1>2 DEF KeepsLast
            <4>6. z.op = "off" /\ kind' \in KeepsLast => Active' \ z.off # {}
                BY <4>1, <4>4, <4>5 DEF Exclusive, Counted
            <4>7. z.marks # {} => \E e \in Entries : z.marks = {e} /\ Defaults' \subseteq z.unmarks \cup {e}
                BY <4>1, <4>3 DEF Exclusive, Counted
            <4>. QED BY <1>2, <4>1, <4>6, <4>7 DEF Counted
        <3>. QED BY <3>1, <3>2
    <2>. QED BY <1>2, <1>5, <2>4, <2>5, <2>6 DEF ServesInv, Exclusive
<1>. QED BY <1>6, <1>7, ListingSteps

LEMMA ServesStep ==
    ASSUME ServesInv, CatalogueNext
    PROVE  ServesInv'
<1>1. CatalogueTypeOK /\ CatalogueTypeOK'
    BY TypeStep DEF ServesInv
<1>2. CASE Begins
    <2>1. PICK m \in Requests, r \in RequestRow : Begin(m, r) /\ Sensible(r)
        BY <1>2 DEF Begins
    <2>2. catalogueRegime' = catalogueRegime
        BY <2>1 DEF Begin
    <2>. QED BY <1>1, <2>1, <2>2, ServesBegins DEF ServesInv
<1>3. ASSUME NEW m \in Requests, Completes(m) PROVE ServesInv'
    <2>1. catalogueRegime' = catalogueRegime
        BY <1>1, <1>3, RequestEnds
    <2>. QED BY <1>1, <1>3, <2>1, ServesCompletes DEF ServesInv
<1>4. ASSUME NEW k \in Namers, Advance(k) \/ DropSpecialty(k) PROVE ServesInv'
    <2>1. UNCHANGED <<catalogueRegime, kind, listing, copy, request>>
        BY <1>4 DEF Advance, DropSpecialty
    <2>. QED BY <1>1, <2>1 DEF ServesInv, OneDefault, Counted, Exclusive, Active, Defaults
<1>. QED BY <1>1, <1>2, <1>3, <1>4, Steps

LEMMA ServesInit ==
    ASSUME CatalogueInit
    PROVE  ServesInv
<1>1. CatalogueTypeOK
    BY InitTyped
<1>2. \A m \in Requests : request[m] = NoRequest
    BY DEF CatalogueInit
<1>3. Counted(NoRequest, kind, Active, Defaults) /\ ~ Exclusive(NoRequest)
    BY DEF Counted, Exclusive, NoRequest
<1>a. PICK seeded \in SUBSET Entries :
          /\ \E d : listing = [e \in Entries |-> [state |-> IF e \in seeded THEN "on" ELSE "absent",
                                                 default |-> e = d]]
          /\ kind # "hd area" => seeded # {}
    BY Seeded, Zenon
<1>4. PICK d : listing = [e \in Entries |-> [state |-> IF e \in seeded THEN "on" ELSE "absent",
                                             default |-> e = d]]
    BY <1>a
<1>5. OneDefault
    BY <1>4 DEF OneDefault, Defaults
<1>6. kind \in KeepsLast => Active # {}
    BY <1>a, <1>4 DEF Active, KeepsLast
<1>. QED BY <1>1, <1>2, <1>3, <1>5, <1>6 DEF ServesInv

LEMMA ServesMeans ==
    ASSUME ServesInv
    PROVE  CatalogueServes
<1>1. OneDefault => Cardinality(Defaults) <= 1
    <2>1. CASE Defaults = {}
        BY <2>1, FS_EmptySet
    <2>2. CASE Defaults # {}
        <3>1. PICK d \in Defaults : TRUE
            BY <2>2
        <3>2. OneDefault => Defaults = {d}
            BY <3>1 DEF OneDefault
        <3>3. Cardinality({d}) = 1
            BY FS_Singleton
        <3>. QED BY <3>2, <3>3
    <2>. QED BY <2>1, <2>2
<1>. QED BY <1>1 DEF ServesInv, CatalogueServes

(* A table of maintenance keeps an active entry and one default at most, for *)
(* any number of entries, processes and requests, while those that switch    *)
(* off or mark take turns.                                                   *)
THEOREM CatalogueKept == CatalogueSpec => []CatalogueServes
<1>1. ServesInv /\ UNCHANGED cvars => ServesInv'
    BY DEF ServesInv, CatalogueTypeOK, OneDefault, Counted, Exclusive, Active, Defaults, cvars
<1>. QED BY ServesInit, ServesStep, ServesMeans, <1>1, PTL DEF CatalogueSpec
-----------------------------------------------------------------------------
(* What is named is active: requests take turns, so a copy is absent, true,  *)
(* or about to be deleted by the request that has committed.                 *)

InTurns == catalogueRegime = "turns" \/ (catalogueRegime = "workers" /\ kind \notin Cached)

CopyTrue ==
    \/ copy[OneServer] = NoCopy \/ copy[OneServer] = Active
    \/ \E m \in Requests : request[m].op \in {"refresh", "flush"}

\* what a request in flight counts on
Backed(r) ==
    /\ r.op = "name" => r.namer \in Namers /\ r.entry \in Active
    /\ r.op = "fill" => r.on = Active
    /\ kind \in Cached => r.server = OneServer

NoneLost == \A k \in Namers : naming[k].state \in {"pending", "open"} => naming[k].entry \in Active

KeepsInUse == \A m \in Requests : \A e \in request[m].off : ~ InUse(e)

NamedInv ==
    /\ ServesInv
    /\ InTurns =>
          /\ \A m, q \in Requests : request[m] # NoRequest /\ request[q] # NoRequest => m = q
          /\ \A m \in Requests : Backed(request[m])
          /\ kind \in Cached => CopyTrue
          /\ kind \in OfHelpdesk => NoneLost /\ KeepsInUse

LEMMA IdleFields ==
    /\ NoRequest.op = "none" /\ NoRequest.server = OneServer
    /\ NoRequest.off = {} /\ NoRequest.marks = {}
    BY DEF NoRequest

LEMMA ValidIsActive ==
    ASSUME NamedInv, InTurns, \A q \in Requests : request[q] = NoRequest,
           NEW s \in Servers, catalogueRegime = "turns" => s = OneServer, NEW e \in Valid(s)
    PROVE  e \in Active
<1>1. CASE kind \notin Cached
    BY <1>1 DEF Valid
<1>2. CASE kind \in Cached
    <2>1. catalogueRegime = "turns" /\ s = OneServer
        BY <1>2 DEF InTurns
    <2>2. copy[s] = NoCopy \/ copy[s] = Active
        BY <1>2, <2>1, IdleFields DEF NamedInv, CopyTrue
    <2>3. copy[s] = {} => Active = {}
        BY <2>2, CatalogueMarkers
    <2>4. ~ FallsBack(s)
        BY <2>1, <2>3 DEF FallsBack, NamedInv, ServesInv, KeepsLast
    <2>. QED BY <1>2, <2>2, <2>4 DEF Valid
<1>. QED BY <1>1, <1>2

LEMMA NamedBegins ==
    ASSUME NamedInv, ServesInv', InTurns, NEW m \in Requests, NEW r \in RequestRow,
           Begin(m, r), Sensible(r)
    PROVE  NamedInv' /\ UNCHANGED naming
<1>1. UNCHANGED <<catalogueRegime, kind, listing, copy, naming>>
    BY DEF Begin
<1>2. \A q \in Requests : request[q] = NoRequest
    BY DEF Begin, InTurns, Orderly
<1>3. request' = [q \in Requests |-> IF q = m THEN r ELSE NoRequest]
    <2>1. request' = [request EXCEPT ![m] = r]
        BY DEF Begin
    <2>2. request = [q \in Requests |-> request[q]]
        BY DEF NamedInv, ServesInv, CatalogueTypeOK
    <2>. QED BY <1>2, <2>1, <2>2
<1>4. Active' = Active /\ \A e : InUse(e)' <=> InUse(e)
    BY <1>1 DEF Active, InUse
<1>5. /\ r.op = "name" => r.namer \in Namers /\ r.entry \in Active
      /\ r.op = "fill" => r.on = Active
      /\ kind \in Cached => r.server = OneServer
    <2>1. r.server \in Servers /\ (catalogueRegime = "turns" => r.server = OneServer)
        BY DEF Begin, RequestRow
    <2>2. r.op = "name" => r.namer \in Namers /\ r.entry \in Active
        BY <1>2, <2>1, ValidIsActive DEF Sensible
    <2>. QED BY <2>1, <2>2 DEF Sensible, InTurns
<1>6. \A q \in Requests : Backed(request[q])'
    BY <1>1, <1>3, <1>4, <1>5, IdleFields DEF Backed
<1>7. kind \in Cached => CopyTrue'
    BY <1>1, <1>2, <1>4, IdleFields DEF NamedInv, CopyTrue
<1>8. kind \in OfHelpdesk => NoneLost' /\ KeepsInUse'
    <2>1. kind \in OfHelpdesk => \A q \in Requests : \A e \in request'[q].off : ~ InUse(e)
        BY <1>3, IdleFields DEF Sensible
    <2>. QED BY <1>1, <1>4, <2>1 DEF NamedInv, NoneLost, KeepsInUse
<1>9. InTurns' /\ \A p, q \in Requests : request'[p] # NoRequest /\ request'[q] # NoRequest => p = q
    BY <1>1, <1>3 DEF InTurns
<1>10. NoRequest' = NoRequest
    BY DEF NoRequest, OneServer
<1>. QED BY <1>1, <1>6, <1>7, <1>8, <1>9, <1>10 DEF NamedInv

\* the request that completes was alone, and what it leaves is idle or a deletion
LEMMA NamedEnds ==
    ASSUME NamedInv, InTurns, NEW m \in Requests, Completes(m)
    PROVE  \E x \in RequestRow :
              /\ Bare(x) /\ (kind \in Cached => x.server = OneServer)
              /\ request' = [q \in Requests |-> IF q = m THEN x ELSE NoRequest]
              /\ CommitChange(m) /\ ~ UNCHANGED listing /\ kind \in Cached
                    => x.op \in {"refresh", "flush"}
<1>0. CatalogueTypeOK
    BY DEF NamedInv, ServesInv
<1>1. request[m] # NoRequest
    BY IdleFields DEF Completes, CommitChange, Flush, Fails, Store, CommitName
<1>2. \A q \in Requests : q # m => request[q] = NoRequest
    BY <1>1 DEF NamedInv
<1>3. ASSUME NEW x, request' = [request EXCEPT ![m] = x]
      PROVE  request' = [q \in Requests |-> IF q = m THEN x ELSE NoRequest]
    <2>1. request = [q \in Requests |-> request[q]]
        BY <1>0 DEF CatalogueTypeOK
    <2>. QED BY <1>2, <1>3, <2>1
<1>4. CASE CommitChange(m)
    <2>. DEFINE r == request[m]
                op == IF r.op \in {"delete", "reorder"} THEN "flush" ELSE "refresh"
                after == [NoRequest EXCEPT !.server = r.server, !.op = op]
                refused == r.op = "create" /\ listing[r.entry].state # "absent"
                x == IF refused \/ kind \notin Cached THEN NoRequest ELSE after
    <2>1. request' = [request EXCEPT ![m] = x]
        BY <1>4 DEF CommitChange
    <2>2. refused => UNCHANGED listing
        BY <1>4 DEF CommitChange
    <2>3. op \in {"refresh", "flush"}
        OBVIOUS
    <2>4. r.server \in Servers
        BY <1>0, RequestTyped DEF RequestRow
    <2>5. kind \in Cached => r.server = OneServer
        BY DEF NamedInv, Backed
    <2>. HIDE DEF op, r
    <2>6. Bare(NoRequest) /\ Bare(after)
        BY <2>3, <2>4, BareRows
    <2>7. after.op = op /\ after.server = r.server
        BY DEF NoRequest
    <2>. HIDE DEF after, refused
    <2>8. Bare(x) /\ (kind \in Cached => x.server = OneServer)
        BY <2>5, <2>6, <2>7, IdleFields
    <2>9. ~ refused /\ kind \in Cached => x.op \in {"refresh", "flush"}
        BY <2>3, <2>7
    <2>. HIDE DEF x
    <2>. QED BY <1>3, <2>1, <2>2, <2>8, <2>9 DEF Bare
<1>5. CASE Flush(m) \/ Fails(m) \/ Store(m) \/ CommitName(m)
    <2>1. request' = [request EXCEPT ![m] = NoRequest]
        BY <1>5 DEF Flush, Fails, Store, CommitName
    <2>2. UNCHANGED listing
        BY <1>5 DEF Flush, Fails, Store, CommitName
    <2>3. Bare(NoRequest)
        BY NoRequestType, IdleFields DEF Bare
    <2>. QED BY <1>3, <2>1, <2>2, <2>3, IdleFields DEF Bare
<1>. QED BY <1>4, <1>5 DEF Completes

LEMMA NamedCompletes ==
    ASSUME NamedInv, ServesInv', InTurns, NEW m \in Requests, Completes(m)
    PROVE  NamedInv'
<1>0. CatalogueTypeOK /\ request[m] \in RequestRow
    BY RequestTyped DEF NamedInv, ServesInv
<1>1. UNCHANGED <<catalogueRegime, kind>>
    BY <1>0, RequestEnds
<1>2. PICK x \in RequestRow :
          /\ Bare(x) /\ (kind \in Cached => x.server = OneServer)
          /\ request' = [q \in Requests |-> IF q = m THEN x ELSE NoRequest]
          /\ CommitChange(m) /\ ~ UNCHANGED listing /\ kind \in Cached
                => x.op \in {"refresh", "flush"}
    BY NamedEnds
<1>3. request[m] # NoRequest /\ \A q \in Requests : q # m => request[q] = NoRequest
    <2>1. request[m] # NoRequest
        BY IdleFields DEF Completes, CommitChange, Flush, Fails, Store, CommitName
    <2>. QED BY <2>1 DEF NamedInv
<1>4. \A q \in Requests : Backed(request[q])'
    BY <1>1, <1>2, IdleFields DEF Backed, Bare
<1>5. KeepsInUse'
    BY <1>2, IdleFields DEF KeepsInUse, Bare
<1>6. kind \in Cached => CopyTrue'
    <2>. SUFFICES ASSUME kind \in Cached PROVE CopyTrue'
        OBVIOUS
    <2>1. request[m].server = OneServer /\ OneServer \in DOMAIN copy
        BY <1>0, ServerExists DEF NamedInv, Backed, CatalogueTypeOK
    <2>2. CASE request[m].op \notin {"refresh", "flush"} /\ UNCHANGED <<copy, listing>>
        <3>1. copy[OneServer] = NoCopy \/ copy[OneServer] = Active
            BY <1>3, <2>2, IdleFields DEF NamedInv, CopyTrue
        <3>. QED BY <2>2, <3>1 DEF CopyTrue, Active
    <2>3. CASE CommitChange(m) /\ ~ UNCHANGED listing
        BY <1>2, <2>3 DEF CopyTrue
    <2>4. CASE CommitChange(m) /\ UNCHANGED listing
        BY <2>2, <2>4 DEF CommitChange
    <2>5. CASE Flush(m)
        BY <2>1, <2>5 DEF Flush, CopyTrue
    <2>6. CASE Store(m)
        <3>1. copy'[OneServer] = Active /\ UNCHANGED listing
            BY <2>1, <2>6 DEF Store, NamedInv, Backed
        <3>. QED BY <3>1 DEF CopyTrue, Active
    <2>7. CASE Fails(m)
        BY <2>2, <2>7 DEF Fails, InTurns
    <2>8. CASE CommitName(m)
        BY <2>2, <2>8 DEF CommitName
    <2>. QED BY <2>3, <2>4, <2>5, <2>6, <2>7, <2>8 DEF Completes
<1>7. kind \in OfHelpdesk => NoneLost'
    <2>. SUFFICES ASSUME kind \in OfHelpdesk PROVE NoneLost'
        OBVIOUS
    <2>1. CASE CommitName(m)
        <3>1. request[m].namer \in Namers /\ request[m].entry \in Active /\ Active' = Active
            BY <2>1 DEF CommitName, NamedInv, Backed, Active
        <3>2. \A k \in Namers : \/ naming'[k].entry = request[m].entry
                                \/ naming'[k] = naming[k]
            BY <1>0, <2>1 DEF CommitName, CatalogueTypeOK
        <3>. QED BY <3>1, <3>2 DEF NamedInv, NoneLost
    <2>2. CASE UNCHANGED <<naming, listing>>
        BY <2>2 DEF NamedInv, NoneLost, Active
    <2>3. CASE listing' = Written(request[m]) /\ UNCHANGED naming
        <3>1. Active' = (Active \ request[m].off) \cup request[m].on
            BY <1>0, <2>3, WrittenListing
        <3>2. \A k \in Namers : naming[k].state \in {"pending", "open"} =>
                  naming[k].entry \notin request[m].off
            BY DEF NamedInv, KeepsInUse, InUse
        <3>. QED BY <2>3, <3>1, <3>2 DEF NamedInv, NoneLost
    <2>. QED BY <2>1, <2>2, <2>3 DEF Completes, CommitChange, Flush, Fails, Store
<1>8. InTurns' /\ \A p, q \in Requests : request'[p] # NoRequest /\ request'[q] # NoRequest => p = q
    BY <1>1, <1>2 DEF InTurns
<1>9. NoRequest' = NoRequest
    BY DEF NoRequest, OneServer
<1>. QED BY <1>1, <1>4, <1>5, <1>6, <1>7, <1>8, <1>9 DEF NamedInv

LEMMA NamedLives ==
    ASSUME NamedInv, ServesInv', InTurns, NEW k \in Namers, Advance(k) \/ DropSpecialty(k)
    PROVE  NamedInv' /\ \A n \in Namers : \/ naming'[n].entry = NoEntry
                                           \/ naming'[n].entry = naming[n].entry
<1>1. UNCHANGED <<catalogueRegime, kind, listing, copy, request>>
    BY DEF Advance, DropSpecialty
<1>2. \A q \in Requests : request[q] = NoRequest
    BY DEF Advance, DropSpecialty, InTurns, Orderly
<1>3. \A n \in Namers : \/ naming'[n] = [state |-> "none", entry |-> NoEntry]
                         \/ /\ naming'[n].entry = naming[n].entry
                            /\ naming'[n].state = naming[n].state
                                  \/ naming[n].state \in {"pending", "open"}
    <2>1. naming \in [Namers -> [state : {"none", "pending", "open", "done"},
                                 entry : Entries \cup {NoEntry}]]
        BY DEF NamedInv, ServesInv, CatalogueTypeOK
    <2>2. CASE Advance(k)
        <3>1. PICK next \in {"open", "done"} : naming' = [naming EXCEPT ![k].state = next]
            BY <2>2 DEF Advance
        <3>2. naming[k].state \in {"pending", "open"}
            BY <2>2 DEF Advance
        <3>. QED BY <2>1, <3>1, <3>2
    <2>3. CASE DropSpecialty(k)
        BY <2>1, <2>3 DEF DropSpecialty
    <2>. QED BY <2>2, <2>3
<1>4. KeepsInUse'
    BY <1>1, <1>2, IdleFields DEF KeepsInUse
<1>5. kind \in OfHelpdesk => NoneLost'
    BY <1>1, <1>3 DEF NamedInv, NoneLost, Active
<1>6. NoRequest' = NoRequest
    BY DEF NoRequest, OneServer
<1>7. NamedInv'
    BY <1>1, <1>4, <1>5, <1>6 DEF NamedInv, InTurns, Backed, CopyTrue, Active
<1>. QED BY <1>3, <1>7

LEMMA NamedStep ==
    ASSUME NamedInv, CatalogueNext
    PROVE  /\ NamedInv'
           /\ InTurns => \A k \in Namers : naming'[k].entry \notin {NoEntry, naming[k].entry}
                                          => naming'[k].entry \in Active'
<1>1. CatalogueTypeOK /\ ServesInv'
    BY ServesStep DEF NamedInv, ServesInv
<1>2. UNCHANGED <<catalogueRegime, kind>>
    <2>1. Begins => UNCHANGED <<catalogueRegime, kind>>
        BY DEF Begins, Begin
    <2>2. \A k \in Namers : Advance(k) \/ DropSpecialty(k) => UNCHANGED <<catalogueRegime, kind>>
        BY DEF Advance, DropSpecialty
    <2>. QED BY <1>1, <2>1, <2>2, RequestEnds, Steps
<1>3. CASE ~ InTurns
    BY <1>1, <1>2, <1>3 DEF NamedInv, InTurns
<1>4. CASE InTurns
    <2>1. CASE Begins
        BY <1>1, <1>4, <2>1, NamedBegins DEF Begins
    <2>2. ASSUME NEW m \in Requests, Completes(m)
          PROVE  \A k \in Namers : naming'[k].entry \notin {NoEntry, naming[k].entry}
                                    => naming'[k].entry \in Active'
        <3>1. CASE CommitName(m)
            <4>1. request[m].entry \in Active /\ Active' = Active
                BY <1>4, <3>1 DEF CommitName, NamedInv, Backed, Active
            <4>2. \A k \in Namers : \/ naming'[k].entry = request[m].entry
                                    \/ naming'[k] = naming[k]
                BY <1>1, <3>1 DEF CommitName, CatalogueTypeOK
            <4>. QED BY <4>1, <4>2
        <3>2. CASE UNCHANGED naming
            BY <3>2
        <3>. QED BY <2>2, <3>1, <3>2 DEF Completes, CommitChange, Flush, Fails, Store
    <2>3. ASSUME NEW m \in Requests, Completes(m) PROVE NamedInv'
        BY <1>1, <1>4, <2>3, NamedCompletes
    <2>4. ASSUME NEW k \in Namers, Advance(k) \/ DropSpecialty(k)
          PROVE  NamedInv' /\ \A n \in Namers : \/ naming'[n].entry = NoEntry
                                                 \/ naming'[n].entry = naming[n].entry
        BY <1>1, <1>4, <2>4, NamedLives
    <2>. QED BY <1>1, <2>1, <2>2, <2>3, <2>4, Steps
<1>. QED BY <1>3, <1>4

LEMMA NamedInit ==
    ASSUME CatalogueInit
    PROVE  NamedInv
<1>1. \A m \in Requests : request[m] = NoRequest
    BY DEF CatalogueInit
<1>2. copy[OneServer] = NoCopy
    BY ServerExists DEF CatalogueInit
<1>3. kind \in OfHelpdesk => \A k \in Namers : naming[k].state = "none"
    BY DEF CatalogueInit, OfHelpdesk
<1>. QED BY <1>1, <1>2, <1>3, ServesInit, IdleFields
         DEF NamedInv, Backed, CopyTrue, NoneLost, KeepsInUse

(* What a ticket, a resolution or a specialty names is active when it takes  *)
(* it, and in the helpdesk while the ticket is open: in turns, and for the   *)
(* categories with any number of processes.                                  *)
THEOREM NamedServed == CatalogueSpec => NamedIsServed
<1>. DEFINE Served ==
        InTurns => \A k \in Namers :
            (/\ naming'[k].entry # NoEntry
             /\ \/ naming'[k].entry # naming[k].entry
                \/ kind \in OfHelpdesk /\ naming'[k].state \in {"pending", "open"})
            => listing'[naming'[k].entry].state = "on"
<1>1. NamedInv /\ [CatalogueNext]_cvars => NamedInv'
    <2>1. NamedInv /\ UNCHANGED cvars => NamedInv'
        BY DEF NamedInv, ServesInv, CatalogueTypeOK, OneDefault, Counted, Exclusive, Active, Defaults,
               InTurns, Backed, CopyTrue, NoneLost, KeepsInUse, InUse, NoRequest, OneServer, cvars
    <2>. QED BY <2>1, NamedStep
<1>2. NamedInv /\ NamedInv' /\ [CatalogueNext]_cvars => [Served]_cvars
    <2>. SUFFICES ASSUME NamedInv, NamedInv', CatalogueNext, InTurns PROVE Served
        OBVIOUS
    <2>1. \A e : e \in Active' => listing'[e].state = "on"
        BY DEF Active
    <2>2. InTurns' /\ kind' = kind
        <3>1. CatalogueTypeOK
            BY DEF NamedInv, ServesInv
        <3>2. Begins => UNCHANGED <<catalogueRegime, kind>>
            BY DEF Begins, Begin
        <3>3. \A k \in Namers : Advance(k) \/ DropSpecialty(k) => UNCHANGED <<catalogueRegime, kind>>
            BY DEF Advance, DropSpecialty
        <3>4. UNCHANGED <<catalogueRegime, kind>>
            BY <3>1, <3>2, <3>3, RequestEnds, Steps
        <3>. QED BY <3>4 DEF InTurns
    <2>3. kind \in OfHelpdesk => NoneLost'
        BY <2>2 DEF NamedInv
    <2>. QED BY <2>1, <2>3, NamedStep DEF NoneLost
<1>. QED BY NamedInit, <1>1, <1>2, PTL DEF CatalogueSpec, NamedIsServed, InTurns

=============================================================================
