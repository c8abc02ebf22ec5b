------------------------- MODULE CoreServicesProofs -------------------------
(***************************************************************************)
(* Proofs about the services of the core: UserSessions, TaskRuns and       *)
(* Departments, which CoreServices runs together, and Authorization, for   *)
(* any browsers, runs, workers, departments, users, grants and bounds.     *)
(***************************************************************************)
EXTENDS Departments, UserSessions, TaskRuns, Authorization, TLAPS

-----------------------------------------------------------------------------
(* Sessions: the version a live cookie carries.                             *)

CookieRow == [sv : Nat, age : Ages, session : {"none", "current", "spared", "revoked"}]
RequestRow ==
    [step : {"none", "authenticated", "answer", "handled", "checked"}, cookie : CookieRow]

SessionBudgets == [bumps : 0 .. MaxBumps, outages : 0 .. MaxOutages, flushes : 0 .. MaxFlushes]

SessionTypeOK ==
    /\ sessionRegime \in {"steady", "outage", "admin"}
    /\ account \in {"active", "inactive"}
    /\ redis \in [up : BOOLEAN, version : Nat]
    /\ cookie \in [Browsers -> CookieRow]
    /\ request \in [Browsers -> RequestRow]
    /\ switching \in BOOLEAN
    /\ sessionBudget \in SessionBudgets
    /\ switching => account = "inactive"

\* a live cookie has a version of the past, and one older than the present version
\* if its session was revoked
Dated(c, version) ==
    c.age # "none" =>
        /\ c.sv <= version
        /\ c.session = "revoked" => c.sv < version

\* a renewal in flight continues a session that its revocation spares
Continued(t) == t.step \in {"handled", "checked"} => t.cookie.session # "revoked"

SteadyInv ==
    sessionRegime = "steady" =>
        /\ redis.up
        /\ \A b \in Browsers :
              /\ Dated(cookie[b], redis.version)
              /\ Dated(request[b].cookie, redis.version) /\ Continued(request[b])

LEMMA NoCookieTyped == NoCookie \in CookieRow /\ NoCookie.age = "none"
BY DEF NoCookie, CookieRow, Ages

LEMMA NoRequestTyped ==
    NoRequest \in RequestRow /\ NoRequest.cookie = NoCookie /\ NoRequest.step = "none"
BY NoCookieTyped DEF NoRequest, RequestRow

LEMMA SupersededTyped ==
    ASSUME SessionTypeOK
    PROVE  /\ CookiesSuperseded \in [Browsers -> CookieRow]
           /\ RequestsSuperseded \in [Browsers -> RequestRow]
<1>1. \A c \in CookieRow, how \in {"spared", "revoked"} : Superseded(c, how) \in CookieRow
    BY DEF Superseded, CookieRow
<1>2. CookiesSuperseded \in [Browsers -> CookieRow]
    BY <1>1 DEF SessionTypeOK, CookiesSuperseded
<1>3. \A t \in RequestRow, c \in CookieRow : [t EXCEPT !.cookie = c] \in RequestRow
    BY DEF RequestRow
<1>4. ASSUME NEW b \in Browsers
      PROVE  [request[b] EXCEPT
                 !.cookie = Superseded(@, IF Renewing(b) THEN "spared" ELSE "revoked")] \in RequestRow
    <2>1. request[b] \in RequestRow /\ request[b].cookie \in CookieRow
        BY DEF SessionTypeOK, RequestRow
    <2>2. Superseded(request[b].cookie, IF Renewing(b) THEN "spared" ELSE "revoked") \in CookieRow
        BY <1>1, <2>1
    <2>. QED BY <1>3, <2>1, <2>2
<1>5. RequestsSuperseded \in [Browsers -> RequestRow]
    BY <1>4 DEF RequestsSuperseded
<1>. QED BY <1>2, <1>5

LEMMA BudgetSpent ==
    ASSUME SessionTypeOK, NEW what \in {"bumps", "outages", "flushes"},
           sessionBudget[what] > 0
    PROVE  [sessionBudget EXCEPT ![what] = @ - 1] \in SessionBudgets
<1>1. /\ sessionBudget.bumps \in 0 .. MaxBumps /\ sessionBudget.outages \in 0 .. MaxOutages
      /\ sessionBudget.flushes \in 0 .. MaxFlushes
    BY DEF SessionTypeOK, SessionBudgets
<1>2. CASE what = "bumps"
    <2>1. sessionBudget.bumps - 1 \in 0 .. MaxBumps
        BY <1>1, <1>2, SessionBounds
    <2>. QED BY <1>2, <2>1 DEF SessionTypeOK, SessionBudgets
<1>3. CASE what = "outages"
    <2>1. sessionBudget.outages - 1 \in 0 .. MaxOutages
        BY <1>1, <1>3, SessionBounds
    <2>. QED BY <1>3, <2>1 DEF SessionTypeOK, SessionBudgets
<1>4. CASE what = "flushes"
    <2>1. sessionBudget.flushes - 1 \in 0 .. MaxFlushes
        BY <1>1, <1>4, SessionBounds
    <2>. QED BY <1>4, <2>1 DEF SessionTypeOK, SessionBudgets
<1>5. what = "bumps" \/ what = "outages" \/ what = "flushes"
    OBVIOUS
<1>. QED BY <1>2, <1>3, <1>4, <1>5, Zenon

LEMMA SessionTypeInit == SessionInit => SessionTypeOK
<1>1. [bumps |-> MaxBumps, outages |-> MaxOutages, flushes |-> MaxFlushes] \in SessionBudgets
    BY SessionBounds DEF SessionBudgets
<1>2. [up |-> TRUE, version |-> 0] \in [up : BOOLEAN, version : Nat]
    OBVIOUS
<1>3. SessionInit => switching \in BOOLEAN /\ ~ switching
    BY DEF SessionInit
<1>. QED BY <1>1, <1>2, <1>3, NoCookieTyped, NoRequestTyped, SessionWorlds DEF SessionInit, SessionTypeOK

LEMMA SessionTypeStep ==
    ASSUME SessionTypeOK, [SessionNext]_svars
    PROVE  SessionTypeOK'
<1>1. CASE UNCHANGED svars
    BY <1>1 DEF svars, SessionTypeOK
<1>2. ASSUME NEW b \in Browsers, BeginLogin(b)
      PROVE  SessionTypeOK'
    <2>1. [step |-> "authenticated", cookie |-> NoCookie] \in RequestRow
        BY NoCookieTyped DEF RequestRow
    <2>. QED BY <1>2, <2>1 DEF SessionTypeOK, BeginLogin
<1>3. ASSUME NEW b \in Browsers, ReadVersion(b)
      PROVE  SessionTypeOK'
    <2>1. CurrentVersion \in Nat
        BY DEF CurrentVersion, SessionTypeOK
    <2>2. Origin(b) \in {"none", "current", "spared", "revoked"}
        BY DEF Origin, SessionTypeOK, RequestRow, CookieRow
    <2>3. [step |-> "answer",
           cookie |-> [sv |-> CurrentVersion, age |-> "fresh", session |-> Origin(b)]] \in RequestRow
        BY <2>1, <2>2 DEF RequestRow, CookieRow, Ages
    <2>. QED BY <1>3, <2>3 DEF SessionTypeOK, ReadVersion
<1>4. ASSUME NEW b \in Browsers, ReceiveCookie(b)
      PROVE  SessionTypeOK'
    <2>1. request[b].cookie \in CookieRow
        BY DEF SessionTypeOK, RequestRow
    <2>. QED BY <1>4, <2>1, NoRequestTyped DEF SessionTypeOK, ReceiveCookie
<1>5. ASSUME NEW b \in Browsers, BeginRequest(b)
      PROVE  SessionTypeOK'
    <2>1. [step |-> "handled", cookie |-> cookie[b]] \in RequestRow
        BY DEF RequestRow, SessionTypeOK
    <2>. QED BY <1>5, <2>1 DEF SessionTypeOK, BeginRequest
<1>6. ASSUME NEW b \in Browsers, CheckAccount(b)
      PROVE  SessionTypeOK'
    <2>1. [request[b] EXCEPT !.step = "checked"] \in RequestRow
        BY DEF SessionTypeOK, RequestRow
    <2>. QED BY <1>6, <2>1, NoRequestTyped DEF SessionTypeOK, CheckAccount
<1>7. Bumped \in [up : BOOLEAN, version : Nat]
    BY DEF Bumped, SessionTypeOK
<1>8. ASSUME NEW b \in Browsers, Logout(b)
      PROVE  SessionTypeOK'
    <2>1. [CookiesSuperseded EXCEPT ![b] = NoCookie] \in [Browsers -> CookieRow]
        BY NoCookieTyped, SupersededTyped
    <2>2. sessionBudget' \in SessionBudgets
        BY <1>8, BudgetSpent DEF Logout, Spend
    <2>. QED BY <1>7, <1>8, <2>1, <2>2, SupersededTyped DEF SessionTypeOK, Logout, Revoked
<1>9. ASSUME NEW b \in Browsers, Age(b)
      PROVE  SessionTypeOK'
    <2>1. [cookie[b] EXCEPT !.age = "old"] \in CookieRow
        BY DEF SessionTypeOK, CookieRow, Ages
    <2>. QED BY <1>9, <2>1, NoCookieTyped DEF SessionTypeOK, Age
<1>10. CASE SwitchOff
    <2>1. sessionBudget' \in SessionBudgets
        BY <1>10, BudgetSpent DEF SwitchOff, Spend
    <2>. QED BY <1>10, <2>1 DEF SessionTypeOK, SwitchOff
<1>11. CASE RevokeSwitched
    <2>1. switching' \in BOOLEAN /\ ~ switching'
        BY <1>11 DEF RevokeSwitched
    <2>. QED BY <1>7, <1>11, <2>1, SupersededTyped DEF SessionTypeOK, RevokeSwitched, Revoked
<1>12. CASE SwitchOn
    BY <1>12, BudgetSpent DEF SessionTypeOK, SwitchOn, Spend
<1>13. CASE InvalidateAll
    BY <1>13, BudgetSpent DEF SessionTypeOK, InvalidateAll, Spend
<1>14. CASE RedisOutage
    BY <1>14, BudgetSpent DEF SessionTypeOK, RedisOutage, Spend
<1>. QED BY <1>1, <1>2, <1>3, <1>4, <1>5, <1>6, <1>8, <1>9, <1>10, <1>11, <1>12, <1>13, <1>14
         DEF SessionNext

LEMMA SteadyStart == SessionInit => SteadyInv
BY NoCookieTyped, NoRequestTyped DEF SessionInit, SteadyInv, Dated, Continued

\* A revocation leaves every cookie behind the version, and spares renewals.
LEMMA RevocationKeeps ==
    ASSUME SessionTypeOK, SteadyInv, sessionRegime = "steady", UNCHANGED sessionRegime,
           redis' = Revoked, request' = RequestsSuperseded,
           \A b \in Browsers : cookie'[b] \in {CookiesSuperseded[b], NoCookie}
    PROVE  SteadyInv'
<1>1. /\ redis.up /\ redis.version \in Nat
      /\ \A b \in Browsers : /\ Dated(cookie[b], redis.version)
                             /\ Dated(request[b].cookie, redis.version)
    BY DEF SteadyInv, SessionTypeOK
<1>2. redis'.up /\ redis'.version = redis.version + 1
    BY <1>1 DEF Revoked, Bumped, SessionTypeOK
<1> DEFINE v == redis.version
<1>3. ASSUME NEW c \in CookieRow, Dated(c, v), NEW how \in {"spared", "revoked"}
      PROVE  /\ Dated(Superseded(c, how), v + 1)
             /\ how = "spared" => Superseded(c, how).session # "revoked"
    BY <1>1, <1>3 DEF Superseded, Dated, CookieRow
<1>4. ASSUME NEW b \in Browsers
      PROVE  Dated(cookie'[b], v + 1)
    <2>1. cookie[b] \in CookieRow
        BY DEF SessionTypeOK
    <2>2. Dated(Superseded(cookie[b], "revoked"), v + 1)
        BY <1>1, <1>3, <2>1
    <2>. QED BY <2>2, NoCookieTyped DEF CookiesSuperseded, Dated
<1>5. ASSUME NEW b \in Browsers
      PROVE  Dated(request'[b].cookie, v + 1) /\ Continued(request'[b])
    <2> DEFINE how == IF Renewing(b) THEN "spared" ELSE "revoked"
               c == request[b].cookie
    <2>1. request[b] \in RequestRow /\ c \in CookieRow
        BY DEF SessionTypeOK, RequestRow
    <2>2. request'[b].cookie = Superseded(c, how) /\ request'[b].step = request[b].step
        BY <2>1 DEF RequestsSuperseded, RequestRow
    <2>3. how \in {"spared", "revoked"}
        OBVIOUS
    <2>4. Dated(Superseded(c, how), v + 1) /\ (how = "spared" => Superseded(c, how).session # "revoked")
        BY <1>1, <1>3, <2>1, <2>3
    <2>. QED BY <2>2, <2>4 DEF Continued, Renewing
<1>. QED BY <1>2, <1>4, <1>5 DEF SteadyInv

LEMMA SteadySessionStep ==
    ASSUME SessionTypeOK, SteadyInv, [SessionNext]_svars
    PROVE  SteadyInv'
<1>1. CASE UNCHANGED svars
    BY <1>1 DEF svars, SteadyInv
<1>2. CASE SessionNext
    <2> SUFFICES ASSUME sessionRegime' = "steady"
                 PROVE  SteadyInv'
        BY DEF SteadyInv
    <2>1. UNCHANGED sessionRegime
        BY <1>2 DEF SessionNext, BeginLogin, ReadVersion, ReceiveCookie, BeginRequest,
           CheckAccount, Logout, Age, SwitchOff, RevokeSwitched, SwitchOn, InvalidateAll, RedisOutage
    <2>2. /\ redis.up
          /\ \A b \in Browsers : /\ Dated(cookie[b], redis.version)
                                 /\ Dated(request[b].cookie, redis.version) /\ Continued(request[b])
        BY <2>1 DEF SteadyInv
    <2>3. Dated(NoCookie, redis.version)
        BY NoCookieTyped DEF Dated
    <2>4. ASSUME NEW b \in Browsers, NEW t \in RequestRow, Dated(t.cookie, redis.version),
                 Continued(t), request' = [request EXCEPT ![b] = t], UNCHANGED <<redis, cookie>>
          PROVE  SteadyInv'
        BY <2>2, <2>4 DEF SessionTypeOK, SteadyInv
    <2>5. ASSUME NEW b \in Browsers, BeginLogin(b)
          PROVE  SteadyInv'
        <3> DEFINE t == [step |-> "authenticated", cookie |-> NoCookie]
        <3>1. t \in RequestRow /\ Dated(t.cookie, redis.version) /\ Continued(t)
            BY <2>3, NoCookieTyped DEF RequestRow, Continued
        <3>2. request' = [request EXCEPT ![b] = t] /\ UNCHANGED <<redis, cookie>>
            BY <2>5 DEF BeginLogin
        <3> HIDE DEF t
        <3>. QED BY <2>4, <3>1, <3>2
    <2>6. ASSUME NEW b \in Browsers, CheckAccount(b)
          PROVE  SteadyInv'
        <3> DEFINE t == [request[b] EXCEPT !.step = "checked"]
        <3>1. request[b] \in RequestRow /\ request[b].step = "handled"
            BY <2>6 DEF CheckAccount, SessionTypeOK
        <3>2. t \in RequestRow /\ Dated(t.cookie, redis.version) /\ Continued(t)
            BY <2>2, <3>1 DEF RequestRow, Continued
        <3>3. Dated(NoRequest.cookie, redis.version) /\ Continued(NoRequest)
            BY <2>3, NoRequestTyped DEF Continued
        <3>4. PICK u \in {t, NoRequest} : request' = [request EXCEPT ![b] = u]
            BY <2>6 DEF CheckAccount
        <3>5. UNCHANGED <<redis, cookie>>
            BY <2>6 DEF CheckAccount
        <3> HIDE DEF t
        <3>. QED BY <2>4, <3>2, <3>3, <3>4, <3>5, NoRequestTyped
    <2>7. ASSUME NEW b \in Browsers, ReadVersion(b)
          PROVE  SteadyInv'
        <3> DEFINE t == [step |-> "answer",
                         cookie |-> [sv |-> CurrentVersion, age |-> "fresh", session |-> Origin(b)]]
        <3>1. CurrentVersion = redis.version /\ redis.version \in Nat
            BY <2>2 DEF CurrentVersion, SessionTypeOK
        <3>2. request[b] \in RequestRow
            BY DEF SessionTypeOK
        <3>3. Origin(b) \in {"none", "current", "spared"}
            BY <2>2, <2>7, <3>2 DEF Origin, ReadVersion, Continued, RequestRow, CookieRow
        <3>4. t \in RequestRow /\ Dated(t.cookie, redis.version) /\ Continued(t)
            BY <3>1, <3>3 DEF RequestRow, CookieRow, Ages, Dated, Continued
        <3>5. request' = [request EXCEPT ![b] = t] /\ UNCHANGED <<redis, cookie>>
            BY <2>7 DEF ReadVersion
        <3> HIDE DEF t
        <3>. QED BY <2>4, <3>4, <3>5
    <2>8. ASSUME NEW b \in Browsers, BeginRequest(b)
          PROVE  SteadyInv'
        <3> DEFINE t == [step |-> "handled", cookie |-> cookie[b]]
        <3>1. cookie[b] \in CookieRow
            BY DEF SessionTypeOK
        <3>2. cookie[b].age # "none" /\ cookie[b].sv = redis.version /\ redis.version \in Nat
            BY <2>2, <2>8 DEF BeginRequest, Accepted, CurrentVersion, SessionTypeOK
        <3>3. cookie[b].session # "revoked"
            BY <2>2, <3>2 DEF Dated
        <3>4. t \in RequestRow /\ Dated(t.cookie, redis.version) /\ Continued(t)
            BY <2>2, <3>1, <3>3 DEF RequestRow, Continued
        <3>5. request' = [request EXCEPT ![b] = t] /\ UNCHANGED <<redis, cookie>>
            BY <2>8 DEF BeginRequest
        <3> HIDE DEF t
        <3>. QED BY <2>4, <3>4, <3>5
    <2>9. ASSUME NEW b \in Browsers, ReceiveCookie(b)
          PROVE  SteadyInv'
        <3>1. Dated(NoRequest.cookie, redis.version) /\ Continued(NoRequest)
            BY <2>3, NoRequestTyped DEF Continued
        <3>. QED BY <2>2, <2>9, <3>1 DEF ReceiveCookie, SessionTypeOK, SteadyInv
    <2>10. ASSUME NEW b \in Browsers, Logout(b)
          PROVE  SteadyInv'
        <3>1. \A a \in Browsers : cookie'[a] \in {CookiesSuperseded[a], NoCookie}
            BY <2>10, SupersededTyped DEF Logout
        <3>2. redis' = Revoked /\ request' = RequestsSuperseded
            BY <2>10 DEF Logout
        <3>. QED BY <2>1, <3>1, <3>2, RevocationKeeps
    <2>11. CASE RevokeSwitched
        <3>1. \A a \in Browsers : cookie'[a] \in {CookiesSuperseded[a], NoCookie}
            BY <2>11 DEF RevokeSwitched
        <3>2. redis' = Revoked /\ request' = RequestsSuperseded
            BY <2>11 DEF RevokeSwitched
        <3>. QED BY <2>1, <3>1, <3>2, RevocationKeeps
    <2>12. ASSUME NEW b \in Browsers, Age(b)
          PROVE  SteadyInv'
        <3>1. cookie[b] \in CookieRow
            BY DEF SessionTypeOK
        <3>2. Dated([cookie[b] EXCEPT !.age = "old"], redis.version)
            BY <2>2, <2>12, <3>1 DEF Age, Dated, CookieRow
        <3>. QED BY <2>2, <2>3, <2>12, <3>2 DEF Age, SessionTypeOK, SteadyInv
    <2>13. CASE SwitchOff \/ SwitchOn
        BY <2>2, <2>13 DEF SwitchOff, SwitchOn, SteadyInv
    <2>14. CASE InvalidateAll \/ RedisOutage
        BY <2>1, <2>14 DEF InvalidateAll, RedisOutage
    <2>. QED BY <1>2, <2>5, <2>6, <2>7, <2>8, <2>9, <2>10, <2>11, <2>12, <2>13, <2>14 DEF SessionNext
<1>. QED BY <1>1, <1>2

\* Versions, cookies and requests in flight keep their types in every regime.
THEOREM SessionTypeCorrect == SessionSpec => []SessionTypeOK
BY SessionTypeInit, SessionTypeStep, PTL DEF SessionSpec

\* While Redis answers, a session that began before the last revocation is refused,
\* also one whose new cookie is on its way, unless a renewal of it had accepted the
\* old cookie and had not read the version when the sessions were revoked.
THEOREM RevokedIsRefusedHolds == SessionSpec => []RevokedIsRefused
<1>1. SessionSpec => [](SessionTypeOK /\ SteadyInv)
    BY SessionTypeInit, SessionTypeStep, SteadyStart, SteadySessionStep, PTL DEF SessionSpec
<1>2. SessionTypeOK /\ SteadyInv => RevokedIsRefused
    BY DEF SessionTypeOK, SteadyInv, RevokedIsRefused, Accepted, CurrentVersion, Dated
<1>. QED BY <1>1, <1>2, PTL

-----------------------------------------------------------------------------
(* Background tasks: the copy that will end a run in flight.                *)

Outcomes == {"absent", "PENDING", "RUNNING"} \cup Ended
RunRow == [status : Outcomes, trigger : {"MANUAL", "SCHEDULED"}, known : BOOLEAN]
BusyWorker == [run : Runs, step : {"received", "body", "succeeded", "failed", "finished"}]
WorkerRow == {IdleWorker} \cup BusyWorker
TaskBudgets == [crashes : 0 .. MaxCrashes, faults : 0 .. MaxFaults, revokes : 0 .. MaxRevokes]

TaskParts ==
    /\ taskRun \in [Runs -> RunRow]
    /\ sender \in [Runs -> {"idle", "pending", "done"}]
    /\ queued \in [Runs -> Nat]
    /\ worker \in [Workers -> WorkerRow]
    /\ tries \in [Runs -> 0 .. MaxRetries]
    /\ notice \in [Workers -> SUBSET Runs] /\ refused \in [Workers -> SUBSET Runs]
    /\ canceling \in [Runs -> {"idle", "sent", "done"}] /\ abandoned \subseteq Runs
    /\ taskBudget \in TaskBudgets

LEMMA TaskNamed == TaskTypeOK <=> TaskParts
BY DEF TaskTypeOK, TaskParts, Outcomes, RunRow, BusyWorker, WorkerRow, TaskBudgets

LEMMA TaskNamedNext == TaskTypeOK' <=> TaskParts'
BY DEF TaskTypeOK, TaskParts, Outcomes, RunRow, BusyWorker, WorkerRow, TaskBudgets

LEMMA Charged ==
    ASSUME TaskParts, NEW what \in {"crashes", "faults", "revokes"}, Charge(what)
    PROVE  /\ taskBudget' \in TaskBudgets
           /\ taskBudget'.faults \in Nat /\ taskBudget'.faults <= taskBudget.faults
           /\ what = "faults" => taskBudget'.faults < MaxFaults
<1>1. /\ taskBudget.crashes \in 0 .. MaxCrashes /\ taskBudget.faults \in 0 .. MaxFaults
      /\ taskBudget.revokes \in 0 .. MaxRevokes
    BY DEF TaskParts, TaskBudgets
<1>2. CASE what = "crashes"
    <2>1. taskBudget.crashes - 1 \in 0 .. MaxCrashes /\ taskBudget.faults \in Nat
        BY <1>1, <1>2, TaskBounds DEF Charge
    <2>2. taskBudget' = [taskBudget EXCEPT !.crashes = @ - 1]
        BY <1>2 DEF Charge
    <2>. QED BY <1>2, <2>1, <2>2 DEF TaskParts, TaskBudgets
<1>3. CASE what = "faults"
    <2>1. /\ taskBudget.faults - 1 \in 0 .. MaxFaults
          /\ taskBudget.faults - 1 <= taskBudget.faults /\ taskBudget.faults - 1 < MaxFaults
        BY <1>1, <1>3, TaskBounds DEF Charge
    <2>2. taskBudget' = [taskBudget EXCEPT !.faults = @ - 1]
        BY <1>3 DEF Charge
    <2>. QED BY <1>3, <2>1, <2>2 DEF TaskParts, TaskBudgets
<1>4. CASE what = "revokes"
    <2>1. taskBudget.revokes - 1 \in 0 .. MaxRevokes /\ taskBudget.faults \in Nat
        BY <1>1, <1>4, TaskBounds DEF Charge
    <2>2. taskBudget' = [taskBudget EXCEPT !.revokes = @ - 1]
        BY <1>4 DEF Charge
    <2>. QED BY <1>4, <2>1, <2>2 DEF TaskParts, TaskBudgets
<1>5. what = "crashes" \/ what = "faults" \/ what = "revokes"
    OBVIOUS
<1>. QED BY <1>2, <1>3, <1>4, <1>5, Zenon

\* a worker that executes a task, one step further
LEMMA Advanced ==
    ASSUME TaskParts, NEW w \in Workers, worker[w].step # "idle",
           NEW st \in {"received", "body", "succeeded", "failed", "finished"}
    PROVE  /\ worker[w] \in BusyWorker /\ worker[w].run \in Runs
           /\ [worker[w] EXCEPT !.step = st] \in BusyWorker
           /\ [worker EXCEPT ![w].step = st] = [worker EXCEPT ![w] = [@ EXCEPT !.step = st]]
           /\ [worker EXCEPT ![w].step = st] \in [Workers -> WorkerRow]
<1>1. worker[w] \in BusyWorker
    BY DEF TaskParts, WorkerRow, IdleWorker
<1>2. [worker[w] EXCEPT !.step = st] \in BusyWorker
    BY <1>1 DEF BusyWorker
<1>. QED BY <1>1, <1>2 DEF TaskParts, WorkerRow, BusyWorker

\* an update of the row of a run, made or swallowed
LEMMA RowWritten ==
    ASSUME TaskParts, NEW r \in Runs, NEW st \in Outcomes, NEW k \in BOOLEAN,
           Written([taskRun EXCEPT ![r].status = st, ![r].known = k])
    PROVE  taskRun' \in [Runs -> RunRow] /\ taskBudget' \in TaskBudgets
<1>1. [taskRun EXCEPT ![r].status = st, ![r].known = k] \in [Runs -> RunRow]
    BY DEF TaskParts, RunRow
<1>. QED BY <1>1, Charged DEF Written, TaskParts

LEMMA StatusWritten ==
    ASSUME TaskParts, NEW r \in Runs, NEW st \in Outcomes,
           Written([taskRun EXCEPT ![r].status = st])
    PROVE  taskRun' \in [Runs -> RunRow] /\ taskBudget' \in TaskBudgets
<1>1. [taskRun EXCEPT ![r].status = st] \in [Runs -> RunRow]
    BY DEF TaskParts, RunRow
<1>. QED BY <1>1, Charged DEF Written, TaskParts

LEMMA TaskTypeInit == TaskInit => TaskParts
<1>1. [status |-> "absent", trigger |-> "MANUAL", known |-> FALSE] \in RunRow
    BY DEF RunRow, Outcomes
<1>2. [crashes |-> MaxCrashes, faults |-> MaxFaults, revokes |-> MaxRevokes] \in TaskBudgets
    BY TaskBounds DEF TaskBudgets
<1>3. 0 \in 0 .. MaxRetries
    BY TaskBounds
<1>. QED BY <1>1, <1>2, <1>3 DEF TaskInit, TaskParts, WorkerRow

LEMMA TaskTypeStep ==
    ASSUME TaskParts, [TaskNext]_tvars
    PROVE  TaskParts'
<1>1. CASE UNCHANGED tvars
    BY <1>1 DEF tvars, TaskParts
<1>2. ASSUME NEW r \in Runs, NEW trigger \in {"MANUAL", "SCHEDULED"}, CreateRun(r, trigger)
      PROVE  TaskParts'
    <2>1. [status |-> "PENDING", trigger |-> trigger, known |-> trigger = "MANUAL"] \in RunRow
        BY DEF RunRow, Outcomes
    <2>. QED BY <1>2, <2>1 DEF CreateRun, TaskParts
<1>3. ASSUME NEW r \in Runs, Enqueue(r) PROVE TaskParts'
    BY <1>3 DEF Enqueue, TaskParts
<1>4. ASSUME NEW r \in Runs, EnqueueFails(r) PROVE TaskParts'
    BY <1>4, Charged DEF EnqueueFails, TaskParts
<1>5. ASSUME NEW r \in Runs, Cancel(r) PROVE TaskParts'
    BY <1>5, Charged DEF Cancel, TaskParts
<1>6. ASSUME NEW r \in Runs, CommitCancel(r) PROVE TaskParts'
    <2>1. [taskRun[r] EXCEPT !.status = "REVOKED"] \in RunRow
        BY DEF TaskParts, RunRow, Outcomes, Ended
    <2>. QED BY <1>6, <2>1 DEF CommitCancel, TaskParts
<1>7. ASSUME NEW w \in Workers, NEW r \in Runs, Receive(w, r) PROVE TaskParts'
    <2>1. [run |-> r, step |-> "received"] \in WorkerRow /\ IdleWorker \in WorkerRow
        BY DEF WorkerRow, BusyWorker
    <2>. QED BY <1>7, <2>1 DEF Receive, TaskParts
<1>8. ASSUME NEW w \in Workers, BeforeStart(w) PROVE TaskParts'
    <2>1. worker[w].run \in Runs /\ worker' \in [Workers -> WorkerRow]
        BY <1>8, Advanced DEF BeforeStart
    <2>2. "RUNNING" \in Outcomes
        BY DEF Outcomes
    <2>3. taskRun' \in [Runs -> RunRow] /\ taskBudget' \in TaskBudgets
        BY <1>8, <2>1, <2>2, RowWritten DEF BeforeStart, Running
    <2>. QED BY <1>8, <2>1, <2>3 DEF BeforeStart, TaskParts
<1>9. ASSUME NEW w \in Workers, BodyEnds(w) \/ BodyRaises(w) PROVE TaskParts'
    <2>1. worker' \in [Workers -> WorkerRow]
        BY <1>9, Advanced DEF BodyEnds, BodyRaises
    <2>. QED BY <1>9, <2>1 DEF BodyEnds, BodyRaises, TaskParts
<1>10. ASSUME NEW w \in Workers, Retry(w) PROVE TaskParts'
    <2>1. worker[w].run \in Runs /\ worker' \in [Workers -> WorkerRow]
        BY <1>10, Advanced DEF Retry
    <2>2. tries' \in [Runs -> 0 .. MaxRetries]
        BY <1>10, <2>1, TaskBounds DEF Retry, Attempted, TaskParts
    <2>3. queued' \in [Runs -> Nat]
        BY <1>10, <2>1 DEF Retry, Requeued, TaskParts
    <2>. QED BY <1>10, <2>1, <2>2, <2>3 DEF Retry, TaskParts
<1>11. ASSUME NEW w \in Workers, OnSuccess(w) \/ OnFailure(w) PROVE TaskParts'
    <2>1. worker[w].run \in Runs /\ worker' \in [Workers -> WorkerRow]
        BY <1>11, Advanced DEF OnSuccess, OnFailure
    <2>2. {"SUCCESS", "FAILURE"} \subseteq Outcomes
        BY DEF Outcomes, Ended
    <2>3. taskRun' \in [Runs -> RunRow] /\ taskBudget' \in TaskBudgets
        BY <1>11, <2>1, <2>2, StatusWritten DEF OnSuccess, OnFailure
    <2>. QED BY <1>11, <2>1, <2>3 DEF OnSuccess, OnFailure, TaskParts
<1>12. ASSUME NEW w \in Workers, Acknowledge(w) PROVE TaskParts'
    BY <1>12 DEF Acknowledge, TaskParts, WorkerRow
<1>13. ASSUME NEW w \in Workers, WorkerDies(w) PROVE TaskParts'
    <2>1. queued' \in [Runs -> Nat]
        BY <1>13 DEF WorkerDies, Redelivered, TaskParts
    <2>2. worker' \in [Workers -> WorkerRow]
        BY <1>13 DEF WorkerDies, TaskParts, WorkerRow
    <2>3. taskBudget' \in TaskBudgets
        BY <1>13, Charged DEF WorkerDies
    <2>. QED BY <1>13, <2>1, <2>2, <2>3 DEF WorkerDies, TaskParts
<1>14. ASSUME NEW w \in Workers, NEW r \in Runs, Heed(w, r) PROVE TaskParts'
    <2>1. worker' \in [Workers -> WorkerRow]
        BY <1>14 DEF Heed, TaskParts, WorkerRow
    <2>. QED BY <1>14, <2>1 DEF Heed, TaskParts
<1>15. ASSUME NEW w \in Workers, ChildLost(w) PROVE TaskParts'
    <2>1. worker[w].run \in Runs
        BY <1>15, Advanced DEF ChildLost
    <2>2. worker' \in [Workers -> WorkerRow] /\ abandoned' \subseteq Runs
        BY <1>15, <2>1 DEF ChildLost, TaskParts, WorkerRow
    <2>3. taskBudget' \in TaskBudgets
        BY <1>15, Charged DEF ChildLost
    <2>. QED BY <1>15, <2>2, <2>3 DEF ChildLost, TaskParts
<1>. QED BY <1>1, <1>2, <1>3, <1>4, <1>5, <1>6, <1>7, <1>8, <1>9, <1>10, <1>11, <1>12, <1>13, <1>14,
         <1>15 DEF TaskNext, WorkerStep

\* Rows, copies and workers keep their types, whatever dies or is refused.
THEOREM TaskTypeCorrect == TaskSpec => []TaskTypeOK
<1>1. TaskSpec => []TaskParts
    BY TaskTypeInit, TaskTypeStep, PTL DEF TaskSpec
<1>. QED BY <1>1, TaskNamed, PTL

(***************************************************************************)
(* A worker that has finished holds a copy too, so InFlightHasMessage is   *)
(* not inductive: a copy that can still end the run is one in the broker   *)
(* or at a worker that has not finished, and no worker refuses a run that  *)
(* nobody canceled.                                                        *)
(***************************************************************************)
Carried(r) ==
    \/ queued[r] > 0
    \/ \E w \in Workers : worker[w].run = r /\ worker[w].step # "finished"

InFlight(r) == taskRun[r].status \in {"PENDING", "RUNNING"}

FlightInv ==
    \A r \in Runs :
        /\ canceling[r] = "idle" => \A w \in Workers : r \notin notice[w] /\ r \notin refused[w]
        /\ Untroubled(r) /\ InFlight(r) => sender[r] = "pending" \/ Carried(r)

LEMMA FlightInit == TaskInit => FlightInv
BY DEF TaskInit, FlightInv, InFlight

\* Nothing is untroubled after a step and was not before.
LEMMA TroubleStays ==
    ASSUME TaskParts, [TaskNext]_tvars, NEW r \in Runs, Untroubled(r)'
    PROVE  Untroubled(r)
<1>1. taskBudget.faults \in 0 .. MaxFaults
    BY DEF TaskParts, TaskBudgets
<1>2. taskBudget' = taskBudget \/ \E what \in {"crashes", "faults", "revokes"} : Charge(what)
    BY DEF TaskNext, WorkerStep, tvars, CreateRun, Enqueue, EnqueueFails, Receive, Written, BeforeStart,
       BodyEnds, BodyRaises, Retry, OnSuccess, OnFailure, Acknowledge, WorkerDies, ChildLost, Cancel,
       CommitCancel, Heed
<1>3. taskBudget'.faults <= taskBudget.faults
    BY <1>1, <1>2, Charged, TaskBounds
<1>4. canceling[r] # canceling'[r] => canceling'[r] # "idle"
    BY DEF TaskParts, TaskNext, WorkerStep, tvars, CreateRun, Enqueue, EnqueueFails, Receive, BeforeStart,
       BodyEnds, BodyRaises, Retry, OnSuccess, OnFailure, Acknowledge, WorkerDies, ChildLost, Cancel,
       CommitCancel, Heed
<1>5. abandoned \subseteq abandoned'
    BY DEF TaskNext, WorkerStep, tvars, CreateRun, Enqueue, EnqueueFails, Receive, BeforeStart,
       BodyEnds, BodyRaises, Retry, OnSuccess, OnFailure, Acknowledge, WorkerDies, ChildLost, Cancel,
       CommitCancel, Heed
<1>. QED BY <1>1, <1>3, <1>4, <1>5, TaskBounds DEF Untroubled, Unrefused

\* What a worker does next to a run of its own leaves the other runs as they are.
LEMMA WorkerMoves ==
    ASSUME TaskParts, NEW w \in Workers, worker[w].step \notin {"idle", "finished"},
           NEW st \in {"received", "body", "succeeded", "failed", "finished"},
           worker' = [worker EXCEPT ![w].step = st], NEW r \in Runs, Carried(r),
           \A q \in Runs : queued'[q] >= queued[q] /\ queued'[q] \in Nat,
           r = worker[w].run => st # "finished" \/ queued'[r] > 0
    PROVE  Carried(r)'
<1>1. /\ worker[w].run \in Runs
      /\ \A v \in Workers : worker'[v] = IF v = w THEN [worker[w] EXCEPT !.step = st] ELSE worker[v]
    BY Advanced DEF TaskParts
<1>2. worker'[w].run = worker[w].run /\ worker'[w].step = st
    BY <1>1, Advanced DEF BusyWorker
<1>3. CASE queued[r] > 0
    BY <1>3 DEF Carried, TaskParts
<1>4. CASE ~ queued[r] > 0
    <2>1. PICK v \in Workers : worker[v].run = r /\ worker[v].step # "finished"
        BY <1>4 DEF Carried
    <2>. QED BY <1>1, <1>2, <2>1 DEF Carried
<1>. QED BY <1>3, <1>4

LEMMA FlightStep ==
    ASSUME TaskParts, FlightInv, [TaskNext]_tvars
    PROVE  FlightInv'
<1>1. CASE UNCHANGED tvars
    BY <1>1 DEF tvars, FlightInv, InFlight, Untroubled, Unrefused, Carried
<1> SUFFICES ASSUME TaskNext, NEW q \in Runs
             PROVE  /\ canceling'[q] = "idle" =>
                          \A w \in Workers : q \notin notice'[w] /\ q \notin refused'[w]
                    /\ Untroubled(q)' /\ InFlight(q)' => sender'[q] = "pending" \/ Carried(q)'
    BY <1>1 DEF FlightInv
<1>2. canceling[q] # canceling'[q] => canceling'[q] # "idle"
    BY DEF TaskParts, TaskNext, WorkerStep, CreateRun, Enqueue, EnqueueFails, Receive, BeforeStart,
       BodyEnds, BodyRaises, Retry, OnSuccess, OnFailure, Acknowledge, WorkerDies, ChildLost, Cancel,
       CommitCancel, Heed
<1>3. canceling'[q] = "idle" => \A w \in Workers : q \notin notice'[w] /\ q \notin refused'[w]
    <2> SUFFICES ASSUME canceling'[q] = "idle", NEW w \in Workers
                 PROVE  q \notin notice'[w] /\ q \notin refused'[w]
        OBVIOUS
    <2>1. \A v \in Workers : q \notin notice[v] /\ q \notin refused[v]
        BY <1>2 DEF FlightInv
    <2>2. ASSUME NEW r \in Runs, Cancel(r)
          PROVE  q \notin notice'[w] /\ q \notin refused'[w]
        BY <2>1, <2>2 DEF Cancel, TaskParts
    <2>3. ASSUME NEW v \in Workers, WorkerDies(v)
          PROVE  q \notin notice'[w] /\ q \notin refused'[w]
        BY <2>1, <2>3 DEF WorkerDies, TaskParts
    <2>4. ASSUME NEW v \in Workers, NEW r \in Runs, Heed(v, r)
          PROVE  q \notin notice'[w] /\ q \notin refused'[w]
        <3>1. r # q
            BY <2>1, <2>4 DEF Heed
        <3>. QED BY <2>1, <2>4, <3>1 DEF Heed, TaskParts
    <2>5. CASE UNCHANGED <<notice, refused>>
        BY <2>1, <2>5
    <2>. QED BY <2>2, <2>3, <2>4, <2>5 DEF TaskNext, WorkerStep, CreateRun, Enqueue, EnqueueFails,
             Receive, BeforeStart, BodyEnds, BodyRaises, Retry, OnSuccess, OnFailure, Acknowledge,
             ChildLost, CommitCancel
<1>4. Untroubled(q)' /\ InFlight(q)' => sender'[q] = "pending" \/ Carried(q)'
    <2> SUFFICES ASSUME Untroubled(q)', InFlight(q)'
                 PROVE  sender'[q] = "pending" \/ Carried(q)'
        OBVIOUS
    <2>1. Untroubled(q) /\ taskBudget'.faults = MaxFaults
        BY TroubleStays DEF Untroubled, Unrefused
    <2>2. \A w \in Workers : q \notin notice[w] /\ q \notin refused[w]
        BY <2>1 DEF FlightInv, Untroubled, Unrefused
    <2>3. InFlight(q) => sender[q] = "pending" \/ Carried(q)
        BY <2>1 DEF FlightInv
    <2>4. ~ Charge("faults")
        <3>1. Charge("faults") => taskBudget'.faults \in Nat /\ taskBudget'.faults < MaxFaults
            BY Charged
        <3>. QED BY <2>1, <3>1, TaskBounds
    <2>5. ASSUME NEW r \in Runs, NEW trigger \in {"MANUAL", "SCHEDULED"}, CreateRun(r, trigger)
          PROVE  sender'[q] = "pending" \/ Carried(q)'
        BY <2>3, <2>5 DEF CreateRun, TaskParts, InFlight, Carried
    <2>6. ASSUME NEW r \in Runs, Enqueue(r)
          PROVE  sender'[q] = "pending" \/ Carried(q)'
        BY <2>3, <2>6 DEF Enqueue, TaskParts, InFlight, Carried
    <2>7. ASSUME NEW r \in Runs, EnqueueFails(r)
          PROVE  sender'[q] = "pending" \/ Carried(q)'
        BY <2>4, <2>7 DEF EnqueueFails
    <2>8. ASSUME NEW r \in Runs, Cancel(r)
          PROVE  sender'[q] = "pending" \/ Carried(q)'
        BY <2>3, <2>8 DEF Cancel, InFlight, Carried
    <2>9. ASSUME NEW r \in Runs, CommitCancel(r)
          PROVE  sender'[q] = "pending" \/ Carried(q)'
        BY <2>3, <2>9 DEF CommitCancel, TaskParts, RunRow, InFlight, Carried
    <2>10. ASSUME NEW w \in Workers, NEW r \in Runs, Receive(w, r)
           PROVE  sender'[q] = "pending" \/ Carried(q)'
        <3>1. InFlight(q) /\ sender' = sender
            BY <2>10 DEF Receive, InFlight
        <3>2. CASE q = r
            <4>1. worker'[w] = [run |-> q, step |-> "received"]
                BY <2>2, <2>10, <3>2 DEF Receive, TaskParts
            <4>. QED BY <4>1 DEF Carried
        <3>3. CASE q # r
            <4>1. /\ queued'[q] = queued[q] /\ worker[w].step = "idle"
                  /\ \A v \in Workers \ {w} : worker'[v] = worker[v]
                BY <2>10, <3>3 DEF Receive, TaskParts
            <4>2. worker[w].run # q
                BY <4>1, TaskNames DEF TaskParts, WorkerRow, BusyWorker, IdleWorker
            <4>. QED BY <2>3, <3>1, <4>1, <4>2 DEF Carried
        <3>. QED BY <3>2, <3>3
    <2>11. ASSUME NEW w \in Workers, BeforeStart(w)
           PROVE  sender'[q] = "pending" \/ Carried(q)'
        <3>1. sender' = sender /\ queued' = queued /\ worker[w].step = "received"
              /\ worker' = [worker EXCEPT ![w].step = "body"]
            BY <2>11 DEF BeforeStart
        <3>2. worker[w].run \in Runs
            BY <3>1, Advanced
        <3>3. \A p \in Runs : queued'[p] >= queued[p] /\ queued'[p] \in Nat
            BY <3>1 DEF TaskParts
        <3>4. CASE q = worker[w].run
            <4>1. Carried(q)
                BY <3>1, <3>4 DEF Carried
            <4>. QED BY <3>1, <3>3, <4>1, WorkerMoves
        <3>5. CASE q # worker[w].run
            <4>1. taskRun'[q] = taskRun[q]
                BY <2>11, <3>2, <3>5 DEF BeforeStart, Written, Running, TaskParts
            <4>. QED BY <2>3, <3>1, <3>3, <4>1, WorkerMoves DEF InFlight
        <3>. QED BY <3>4, <3>5
    <2>12. ASSUME NEW w \in Workers, BodyEnds(w) \/ BodyRaises(w)
           PROVE  sender'[q] = "pending" \/ Carried(q)'
        <3>1. /\ sender' = sender /\ queued' = queued /\ taskRun' = taskRun /\ worker[w].step = "body"
              /\ \E st \in {"succeeded", "failed"} : worker' = [worker EXCEPT ![w].step = st]
            BY <2>12 DEF BodyEnds, BodyRaises
        <3>2. \A p \in Runs : queued'[p] >= queued[p] /\ queued'[p] \in Nat
            BY <3>1 DEF TaskParts
        <3>. QED BY <2>3, <3>1, <3>2, WorkerMoves DEF InFlight
    <2>13. ASSUME NEW w \in Workers, Retry(w)
           PROVE  sender'[q] = "pending" \/ Carried(q)'
        <3>1. /\ sender' = sender /\ taskRun' = taskRun /\ worker[w].step = "body"
              /\ worker' = [worker EXCEPT ![w].step = "finished"]
              /\ queued' = [queued EXCEPT ![worker[w].run] = @ + 1]
            BY <2>13 DEF Retry, Requeued
        <3>2. worker[w].run \in Runs
            BY <3>1, Advanced
        <3>3. /\ \A p \in Runs : queued'[p] >= queued[p] /\ queued'[p] \in Nat
              /\ queued'[worker[w].run] > 0
            BY <3>1, <3>2 DEF TaskParts
        <3>. QED BY <2>3, <3>1, <3>3, WorkerMoves DEF InFlight
    <2>14. ASSUME NEW w \in Workers, OnSuccess(w) \/ OnFailure(w)
           PROVE  sender'[q] = "pending" \/ Carried(q)'
        <3>1. /\ sender' = sender /\ queued' = queued /\ worker[w].step \in {"succeeded", "failed"}
              /\ worker' = [worker EXCEPT ![w].step = "finished"]
              /\ \E st \in {"SUCCESS", "FAILURE"} :
                    taskRun' = [taskRun EXCEPT ![worker[w].run].status = st]
            BY <2>4, <2>14 DEF OnSuccess, OnFailure, Written
        <3>2. worker[w].run \in Runs
            BY <3>1, Advanced
        <3>3. \A p \in Runs : queued'[p] >= queued[p] /\ queued'[p] \in Nat
            BY <3>1 DEF TaskParts
        <3>4. q # worker[w].run /\ taskRun'[q] = taskRun[q]
            BY <3>1, <3>2 DEF TaskParts, RunRow, InFlight
        <3>. QED BY <2>3, <3>1, <3>3, <3>4, WorkerMoves DEF InFlight
    <2>15. ASSUME NEW w \in Workers, Acknowledge(w)
           PROVE  sender'[q] = "pending" \/ Carried(q)'
        BY <2>3, <2>15 DEF Acknowledge, TaskParts, InFlight, Carried
    <2>16. ASSUME NEW w \in Workers, WorkerDies(w)
           PROVE  sender'[q] = "pending" \/ Carried(q)'
        <3>1. /\ sender' = sender /\ taskRun' = taskRun /\ queued' = Redelivered(w)
              /\ \A v \in Workers \ {w} : worker'[v] = worker[v]
            BY <2>16 DEF WorkerDies, TaskParts
        <3>2. CASE worker[w].run = q
            <4>1. queued'[q] > 0
                BY <3>1, <3>2 DEF Redelivered, TaskParts
            <4>. QED BY <4>1 DEF Carried
        <3>3. CASE worker[w].run # q
            <4>1. queued'[q] = queued[q]
                BY <3>1, <3>3 DEF Redelivered, TaskParts
            <4>. QED BY <2>3, <3>1, <3>3, <4>1 DEF Carried, InFlight
        <3>. QED BY <3>2, <3>3
    <2>17. ASSUME NEW w \in Workers, NEW r \in Runs, Heed(w, r)
           PROVE  sender'[q] = "pending" \/ Carried(q)'
        <3>1. r # q
            BY <2>2, <2>17 DEF Heed
        <3>. QED BY <2>3, <2>17, <3>1 DEF Heed, TaskParts, Carried, InFlight
    <2>18. ASSUME NEW w \in Workers, ChildLost(w)
           PROVE  sender'[q] = "pending" \/ Carried(q)'
        <3>1. worker[w].run # q
            BY <2>18 DEF ChildLost, Untroubled
        <3>2. \A v \in Workers \ {w} : worker'[v] = worker[v]
            BY <2>18 DEF ChildLost, TaskParts
        <3>. QED BY <2>3, <2>18, <3>1, <3>2 DEF ChildLost, Carried, InFlight
    <2>. QED BY <2>5, <2>6, <2>7, <2>8, <2>9, <2>10, <2>11, <2>12, <2>13, <2>14, <2>15, <2>16, <2>17,
             <2>18 DEF TaskNext, WorkerStep
<1>. QED BY <1>3, <1>4

\* Unless the broker or the database refused something, somebody canceled it or a pool
\* lost the child executing it, a run in flight has a message that will end it, whichever
\* workers die and however often it is retried.
THEOREM InFlightHasMessageHolds == TaskSpec => []InFlightHasMessage
<1>1. TaskSpec => [](TaskParts /\ FlightInv)
    BY TaskTypeInit, TaskTypeStep, FlightInit, FlightStep, PTL DEF TaskSpec
<1>2. FlightInv => InFlightHasMessage
    BY DEF FlightInv, InFlightHasMessage, InFlight, Carried, HasCopy
<1>. QED BY <1>1, <1>2, PTL

-----------------------------------------------------------------------------
(* Departments: the cached map.                                             *)

\* In turns a map that was computed is stored before the tree changes, and a
\* commit is followed by the deletion of what was stored before.
TurnsInv ==
    deptRegime = "turns" =>
        /\ filler = Unset \/ filler = DescendantsMap
        /\ MapCurrent \/ \E e \in Editors : editor[e].at = "committed"

MapInv == TurnsInv /\ DOMAIN editor = Editors

LEMMA SameMap == UNCHANGED <<parent, deptState>> => DescendantsMap' = DescendantsMap
BY DEF DescendantsMap, DescendantsOf, ChildrenOf, ActiveDepts

LEMMA TurnsStart == DeptInit => TurnsInv
BY DEF DeptInit, TurnsInv, MapCurrent

LEMMA TurnsMapStep ==
    ASSUME TurnsInv, DOMAIN editor = Editors, [DeptNext]_dvars
    PROVE  TurnsInv' /\ DOMAIN editor' = Editors
<1> USE SameMap
<1>0. deptRegime' = deptRegime
    BY DEF dvars, DeptNext, ReadToCreate, ReadToPatch, CommitDept, AbandonDept, BustDeptMap, ComputeMap,
       StoreMap, ExpireMap
<1>1. CASE UNCHANGED dvars
    BY <1>1 DEF dvars, TurnsInv, MapCurrent
<1>2. ASSUME NEW e \in Editors, ReadToCreate(e) \/ ReadToPatch(e) \/ AbandonDept(e)
      PROVE  TurnsInv' /\ DOMAIN editor' = Editors
    <2>1. /\ editor[e].at # "committed" /\ UNCHANGED <<parent, deptState, deptMap, filler>>
          /\ \A f \in Editors \ {e} : editor'[f] = editor[f]
          /\ DOMAIN editor' = Editors
        BY <1>2 DEF ReadToCreate, ReadToPatch, AbandonDept
    <2>. QED BY <1>0, <2>1 DEF TurnsInv, MapCurrent
<1>3. ASSUME NEW e \in Editors, CommitDept(e)
      PROVE  TurnsInv' /\ DOMAIN editor' = Editors
    <2>1. editor'[e].at = "committed" /\ filler' = filler /\ DOMAIN editor' = Editors
        BY <1>3 DEF CommitDept
    <2>2. deptRegime = "turns" => filler = Unset
        BY <1>3 DEF CommitDept, AloneBut
    <2>. QED BY <1>0, <2>1, <2>2 DEF TurnsInv
<1>4. ASSUME NEW e \in Editors, BustDeptMap(e)
      PROVE  TurnsInv' /\ DOMAIN editor' = Editors
    BY <1>0, <1>4 DEF TurnsInv, MapCurrent, BustDeptMap
<1>5. CASE ComputeMap
    BY <1>0, <1>5 DEF TurnsInv, MapCurrent, ComputeMap
<1>6. CASE StoreMap
    BY <1>0, <1>6 DEF TurnsInv, MapCurrent, StoreMap
<1>7. CASE ExpireMap
    BY <1>0, <1>7 DEF TurnsInv, MapCurrent, ExpireMap
<1>. QED BY <1>1, <1>2, <1>3, <1>4, <1>5, <1>6, <1>7 DEF DeptNext

LEMMA MapInvStart == DeptInit => MapInv
BY TurnsStart DEF DeptInit, MapInv

LEMMA MapInvStep == MapInv /\ [DeptNext]_dvars => MapInv'
BY TurnsMapStep DEF MapInv

\* In turns the map that decides which departments a user sees is the one of
\* the tree, but between a commit and the deletion of the entry.
THEOREM MapFollowsTreeHolds == DeptSpec => []MapFollowsTree
<1>1. MapInv => MapFollowsTree
    BY DEF MapInv, TurnsInv, MapFollowsTree
<1>. QED BY MapInvStart, MapInvStep, <1>1, PTL DEF DeptSpec

-----------------------------------------------------------------------------
(* Departments: the tree keeps its shape.                                   *)

DeptOps == Patches \union Creations
EditorRow == [at : {"idle", "committed"}] \union [at : {"validated"}, op : DeptOps]

TreeTyped ==
    /\ DeptTypeOK
    /\ editor \in [Editors -> EditorRow]
    /\ \A e \in Editors : (editor[e].at = "validated" /\ editor[e].op.up \in Depts) =>
          deptState[editor[e].op.up] # "absent"

LEMMA EditorAt ==
    /\ IdleEditor \in EditorRow /\ IdleEditor.at = "idle"
    /\ [at |-> "committed"] \in EditorRow
    /\ \A c \in DeptOps : [at |-> "validated", op |-> c] \in EditorRow
    /\ \A r \in EditorRow : /\ r.at \in {"idle", "validated", "committed"}
                            /\ r.at = "validated" => r.op \in DeptOps
BY DEF IdleEditor, EditorRow

\* What a commit writes: no department disappears and no column leaves its type.
LEMMA TreeWritten ==
    ASSUME DeptTypeOK, NEW c \in DeptOps,
           c.up \in Depts => deptState[c.up] # "absent"
    PROVE  /\ WrittenParent(c) \in [Depts -> Depts \union {NoDept}]
           /\ WrittenState(c) \in [Depts -> DeptStates]
           /\ \A d \in Depts : deptState[d] # "absent" => WrittenState(c)[d] # "absent"
           /\ \A d \in Depts : WrittenParent(c)[d] \in Depts =>
                 deptState[WrittenParent(c)[d]] # "absent"
<1>1. c.d \in Depts /\ c.up \in Depts \union {NoDept, Unset}
    BY DEF DeptOps, Patches, Creations
<1>2. WrittenParent(c) \in [Depts -> Depts \union {NoDept}]
    BY <1>1, DeptConstants DEF WrittenParent, DeptTypeOK
<1>3. c.kind # "create" => c.on \in {"active", "inactive", Unset}
    BY DEF DeptOps, Patches, Creations
<1>4. /\ WrittenState(c) \in [Depts -> DeptStates]
      /\ \A d \in Depts : deptState[d] # "absent" => WrittenState(c)[d] # "absent"
    BY <1>1, <1>3, DeptConstants DEF WrittenState, DeptTypeOK, DeptStates
<1>5. \A d \in Depts : WrittenParent(c)[d] \in Depts => deptState[WrittenParent(c)[d]] # "absent"
    BY <1>1, DeptConstants DEF WrittenParent, DeptTypeOK
<1>. QED BY <1>2, <1>4, <1>5

LEMMA TreeStart == DeptInit => TreeTyped
<1> SUFFICES ASSUME DeptInit PROVE TreeTyped
    OBVIOUS
<1>1. PICK seed \in DeptSeeds : parent = seed.parent /\ deptState = seed.deptState
    BY DEF DeptInit
<1>2. /\ parent \in [Depts -> Depts \union {NoDept}] /\ deptState \in [Depts -> DeptStates]
      /\ \A d \in Depts : parent[d] \in Depts => deptState[parent[d]] # "absent"
    BY <1>1, DeptConstants
<1>3. editor \in [Editors -> EditorRow] /\ \A e \in Editors : editor[e].at = "idle"
    BY EditorAt DEF DeptInit
<1>4. deptBudget \in 0 .. DeptChanges /\ deptRegime \in DeptRegimes
    BY DeptConstants DEF DeptInit
<1>. QED BY <1>2, <1>3, <1>4, EditorAt DEF TreeTyped, DeptTypeOK

LEMMA TreeStep ==
    ASSUME TreeTyped, [DeptNext]_dvars
    PROVE  TreeTyped'
<1>1. CASE UNCHANGED dvars
    BY <1>1 DEF dvars, TreeTyped, DeptTypeOK
<1>2. ASSUME NEW e \in Editors, NEW r \in EditorRow, editor' = [editor EXCEPT ![e] = r],
             UNCHANGED <<deptRegime, parent, deptState, deptBudget>>,
             r.at = "validated" => (r.op.up \in Depts => deptState[r.op.up] # "absent")
      PROVE  TreeTyped'
    BY <1>2, EditorAt DEF TreeTyped, DeptTypeOK
<1>3. ASSUME NEW e \in Editors, ReadToCreate(e) \/ ReadToPatch(e)
      PROVE  TreeTyped'
    <2>1. PICK c \in DeptOps :
             /\ editor' = [editor EXCEPT ![e] = [at |-> "validated", op |-> c]]
             /\ c.up \in Depts => c.up \in ActiveDepts
        BY <1>3, DeptConstants DEF ReadToCreate, ReadToPatch, ParentUsable, MayHangFrom, DeptOps
    <2>2. c.up \in Depts => deptState[c.up] # "absent"
        BY <2>1 DEF ActiveDepts
    <2>3. UNCHANGED <<deptRegime, parent, deptState, deptBudget>>
        BY <1>3 DEF ReadToCreate, ReadToPatch
    <2>. QED BY <1>2, <2>1, <2>2, <2>3, EditorAt
<1>4. ASSUME NEW e \in Editors, AbandonDept(e) \/ BustDeptMap(e)
      PROVE  TreeTyped'
    BY <1>2, <1>4, EditorAt DEF AbandonDept, BustDeptMap
<1>5. ASSUME NEW e \in Editors, CommitDept(e)
      PROVE  TreeTyped'
    <2> DEFINE c == editor[e].op
    <2>1. c \in DeptOps /\ (c.up \in Depts => deptState[c.up] # "absent")
        BY <1>5, EditorAt DEF CommitDept, TreeTyped
    <2>2. /\ parent' = WrittenParent(c) /\ deptState' = WrittenState(c)
          /\ editor' = [editor EXCEPT ![e] = [at |-> "committed"]]
          /\ deptBudget' = deptBudget - 1 /\ deptBudget > 0 /\ deptRegime' = deptRegime
        BY <1>5 DEF CommitDept
    <2> HIDE DEF c
    <2>3. /\ parent' \in [Depts -> Depts \union {NoDept}] /\ deptState' \in [Depts -> DeptStates]
          /\ \A d \in Depts : deptState[d] # "absent" => deptState'[d] # "absent"
          /\ \A d \in Depts : parent'[d] \in Depts => deptState[parent'[d]] # "absent"
        BY <2>1, <2>2, TreeWritten DEF TreeTyped
    <2>4. deptBudget' \in 0 .. DeptChanges
        BY <2>2, DeptConstants DEF TreeTyped, DeptTypeOK
    <2>5. editor' \in [Editors -> EditorRow]
        BY <2>2, EditorAt DEF TreeTyped
    <2>6. \A f \in Editors : editor'[f].at = "validated" => editor'[f] = editor[f]
        BY <2>2 DEF TreeTyped
    <2>. QED BY <2>2, <2>3, <2>4, <2>5, <2>6, EditorAt DEF TreeTyped, DeptTypeOK
<1>6. CASE ComputeMap \/ StoreMap \/ ExpireMap
    BY <1>6 DEF ComputeMap, StoreMap, ExpireMap, TreeTyped, DeptTypeOK
<1>. QED BY <1>1, <1>3, <1>4, <1>5, <1>6 DEF DeptNext

\* The columns keep their types and no department hangs from one that does not
\* exist, in both regimes.
THEOREM DeptTypeCorrect == DeptSpec => []DeptTypeOK
<1>1. TreeTyped => DeptTypeOK
    BY DEF TreeTyped
<1>. QED BY TreeStart, TreeStep, <1>1, PTL DEF DeptSpec

-----------------------------------------------------------------------------
(* Departments: what the refusal of update_department achieves.             *)

\* The descendants in a tree given by its column of parents and its active nodes.
HangFrom(up, active, s) == {c \in active : up[c] \in s}

Reach(up, active, d) ==
    {c \in active :
        \A s \in SUBSET active : HangFrom(up, active, s \union {d}) \subseteq s => c \in s}

Acyclic(up, active) == \A d \in active : d \notin Reach(up, active, d)

LEMMA ReachIsDescendants ==
    /\ ActiveCycle <=> ~ Acyclic(parent, ActiveDepts)
    /\ ActiveCycle' <=> ~ Acyclic(parent', ActiveDepts')
    /\ \A d : DescendantsOf(d) = Reach(parent, ActiveDepts, d)
<1>1. \A d : DescendantsOf(d) = Reach(parent, ActiveDepts, d)
    BY DEF DescendantsOf, ChildrenOf, Reach, HangFrom
<1>2. \A d : (DescendantsOf(d) = Reach(parent, ActiveDepts, d))'
    BY DEF DescendantsOf, ChildrenOf, Reach, HangFrom
<1>. QED BY <1>1, <1>2 DEF ActiveCycle, Acyclic

\* What is reached holds the children of the root and those of its own members ...
LEMMA ReachClosed ==
    ASSUME NEW up, NEW active, NEW d
    PROVE  /\ Reach(up, active, d) \subseteq active
           /\ HangFrom(up, active, Reach(up, active, d) \union {d}) \subseteq Reach(up, active, d)
<1> DEFINE r == Reach(up, active, d)
<1>1. r \subseteq active
    BY DEF Reach
<1>2. ASSUME NEW c \in HangFrom(up, active, r \union {d}),
             NEW s \in SUBSET active, HangFrom(up, active, s \union {d}) \subseteq s
      PROVE  c \in s
    <2>1. r \subseteq s
        BY <1>2 DEF Reach
    <2>. QED BY <1>2, <2>1 DEF HangFrom
<1>3. HangFrom(up, active, r \union {d}) \subseteq active
    BY DEF HangFrom
<1>. QED BY <1>1, <1>2, <1>3 DEF Reach

\* ... and is the least such set.
LEMMA ReachLeast ==
    ASSUME NEW up, NEW active, NEW d, NEW s \in SUBSET active,
           HangFrom(up, active, s \union {d}) \subseteq s
    PROVE  Reach(up, active, d) \subseteq s
BY DEF Reach

\* The descendants of a descendant are descendants.
LEMMA ReachTransitive ==
    ASSUME NEW up, NEW active, NEW d, NEW c \in Reach(up, active, d)
    PROVE  Reach(up, active, c) \subseteq Reach(up, active, d)
<1> DEFINE r == Reach(up, active, d)
<1>1. r \in SUBSET active /\ HangFrom(up, active, r \union {d}) \subseteq r
    BY ReachClosed
<1>2. HangFrom(up, active, r \union {c}) \subseteq r
    BY <1>1 DEF HangFrom
<1>. QED BY <1>1, <1>2, ReachLeast

\* A tree that loses departments or parents gains no cycle.  A department that is new has
\* no children yet.
LEMMA PrunedAcyclic ==
    ASSUME NEW up, NEW active, Acyclic(up, active), NEW new, NEW kept,
           \A c \in kept : new[c] \in kept => new[c] \in active /\ c \in active /\ up[c] = new[c]
    PROVE  Acyclic(new, kept)
<1> SUFFICES ASSUME NEW d \in kept
             PROVE  d \notin Reach(new, kept, d)
    BY DEF Acyclic
<1>1. CASE d \in active
    <2> DEFINE s == Reach(up, active, d) \intersect kept
    <2>1. HangFrom(up, active, Reach(up, active, d) \union {d}) \subseteq Reach(up, active, d)
        BY ReachClosed
    <2>2. HangFrom(new, kept, s \union {d}) \subseteq s
        BY <2>1 DEF HangFrom
    <2>3. d \notin s
        BY <1>1 DEF Acyclic
    <2>4. s \in SUBSET kept
        OBVIOUS
    <2> HIDE DEF s
    <2>. QED BY <2>2, <2>3, <2>4, ReachLeast
<1>2. CASE d \notin active
    <2>1. HangFrom(new, kept, {} \union {d}) \subseteq {}
        BY <1>2 DEF HangFrom
    <2>. QED BY <2>1, ReachLeast
<1>. QED BY <1>1, <1>2

\* Hanging m from an active p that is neither m nor one of its descendants closes no cycle.
LEMMA HungAcyclic ==
    ASSUME NEW up, NEW active, Acyclic(up, active), NEW new, NEW kept, NEW m, NEW p,
           p # m, p \notin Reach(up, active, m), new[m] = p,
           \A c \in kept : c # m => c \in active /\ new[c] = up[c]
    PROVE  Acyclic(new, kept)
<1> DEFINE R(d) == Reach(up, active, d)
<1> SUFFICES ASSUME NEW d \in kept
             PROVE  d \notin Reach(new, kept, d)
    BY DEF Acyclic
<1> DEFINE under == IF p \in R(d) \union {d} THEN {m} \union R(m) ELSE {}
           s == (R(d) \union under) \intersect kept
<1>1. /\ HangFrom(up, active, R(d) \union {d}) \subseteq R(d)
      /\ HangFrom(up, active, R(m) \union {m}) \subseteq R(m)
      /\ R(d) \subseteq active /\ R(m) \subseteq active
    BY ReachClosed
<1>2. d \notin R(d)
    BY <1>1 DEF Acyclic
<1>3. d \notin under
    <2> SUFFICES ASSUME p \in R(d) \union {d}
                 PROVE  d # m /\ d \notin R(m)
        OBVIOUS
    <2>1. d # m
        OBVIOUS
    <2>2. d \in R(m) => R(d) \subseteq R(m)
        BY ReachTransitive
    <2>. QED BY <2>1, <2>2
<1>4. HangFrom(new, kept, s \union {d}) \subseteq s
    <2> SUFFICES ASSUME NEW c \in kept, new[c] \in s \union {d}
                 PROVE  c \in s
        BY DEF HangFrom
    <2>1. CASE c # m
        <3>1. c \in active /\ up[c] = new[c]
            BY <2>1
        <3>2. new[c] \in R(d) \union {d} => c \in R(d)
            BY <1>1, <3>1 DEF HangFrom
        <3>3. new[c] \in under => c \in under
            BY <1>1, <3>1 DEF HangFrom
        <3>. QED BY <3>2, <3>3
    <2>2. CASE c = m
        <3>1. p \notin {m} \union R(m)
            OBVIOUS
        <3>2. p \in R(d) \union {d}
            BY <2>2, <3>1
        <3>. QED BY <2>2, <3>2
    <2>. QED BY <2>1, <2>2
<1>5. s \in SUBSET kept /\ d \notin s
    BY <1>2, <1>3
<1> HIDE DEF s
<1>. QED BY <1>4, <1>5, ReachLeast

\* What a request tested and relies on when it writes.
OpSound(c) ==
    /\ c.up \in Depts => c.up \in ActiveDepts
    /\ c.kind = "patch" =>
          /\ deptState[c.d] # "absent" /\ c.on # deptState[c.d]
          /\ c.up \in Depts => MayHangFrom(c.d, c.up)

\* In turns the tree is still the one that was tested.
GuardInv ==
    deptRegime = "turns" =>
        \A e \in Editors : editor[e].at = "validated" => OpSound(editor[e].op)

LEMMA SameSound ==
    ASSUME UNCHANGED <<parent, deptState>>, NEW c
    PROVE  OpSound(c)' <=> OpSound(c)
BY DEF OpSound, MayHangFrom, ParentUsable, DescendantsOf, ChildrenOf, ActiveDepts

LEMMA GuardStart == DeptInit => GuardInv
BY EditorAt DEF DeptInit, GuardInv

LEMMA GuardStep ==
    ASSUME TreeTyped, GuardInv, [DeptNext]_dvars
    PROVE  GuardInv'
<1>0. deptRegime' = deptRegime
    BY DEF dvars, DeptNext, ReadToCreate, ReadToPatch, CommitDept, AbandonDept, BustDeptMap, ComputeMap,
       StoreMap, ExpireMap
<1>1. CASE UNCHANGED <<parent, deptState>> /\ editor' = editor
    <2> SUFFICES ASSUME deptRegime = "turns", NEW f \in Editors, editor[f].at = "validated"
                 PROVE  OpSound(editor[f].op)'
        BY <1>0, <1>1 DEF GuardInv
    <2>1. PICK c : c = editor[f].op
        OBVIOUS
    <2>2. OpSound(c)'
        BY <1>1, <2>1, SameSound DEF GuardInv
    <2>. QED BY <1>1, <2>1, <2>2
<1>2. ASSUME NEW e \in Editors, NEW r \in EditorRow, editor' = [editor EXCEPT ![e] = r],
             UNCHANGED <<parent, deptState>>, r.at = "validated" => OpSound(r.op)
      PROVE  GuardInv'
    <2> SUFFICES ASSUME deptRegime = "turns", NEW f \in Editors, editor'[f].at = "validated"
                 PROVE  OpSound(editor[f].op)'
        BY <1>0 DEF GuardInv
    <2>1. PICK c : c = editor'[f].op
        OBVIOUS
    <2>2. OpSound(c)
        BY <1>2, <2>1 DEF GuardInv, TreeTyped
    <2>3. OpSound(c)'
        BY <1>2, <2>2, SameSound
    <2>. QED BY <2>1, <2>3
<1>3. ASSUME NEW e \in Editors, ReadToCreate(e) \/ ReadToPatch(e)
      PROVE  GuardInv'
    <2>1. PICK c \in DeptOps :
             /\ editor' = [editor EXCEPT ![e] = [at |-> "validated", op |-> c]]
             /\ OpSound(c)
        BY <1>3, DeptConstants DEF ReadToCreate, ReadToPatch, ParentUsable, MayHangFrom, DeptOps, Creations,
           Patches, OpSound
    <2>2. UNCHANGED <<parent, deptState>>
        BY <1>3 DEF ReadToCreate, ReadToPatch
    <2>. QED BY <1>2, <2>1, <2>2, EditorAt
<1>4. ASSUME NEW e \in Editors, AbandonDept(e) \/ BustDeptMap(e)
      PROVE  GuardInv'
    BY <1>2, <1>4, EditorAt DEF AbandonDept, BustDeptMap
<1>5. ASSUME NEW e \in Editors, CommitDept(e)
      PROVE  GuardInv'
    <2>1. deptRegime = "turns" => \A f \in Editors : editor'[f].at # "validated"
        BY <1>5 DEF CommitDept, AloneBut, TreeTyped
    <2>. QED BY <1>0, <2>1 DEF GuardInv
<1>6. CASE ComputeMap \/ StoreMap \/ ExpireMap
    BY <1>1, <1>6 DEF ComputeMap, StoreMap, ExpireMap
<1>. QED BY <1>1, <1>3, <1>4, <1>5, <1>6 DEF DeptNext, dvars

\* A commit of what was tested closes no cycle, unless it activates a department.
LEMMA CommitKeepsForest ==
    ASSUME TreeTyped, NEW c \in DeptOps, OpSound(c), ~ CodeTaken(c),
           parent' = WrittenParent(c), deptState' = WrittenState(c),
           Acyclic(parent, ActiveDepts),
           \A d \in Depts : ~ (deptState[d] = "inactive" /\ deptState'[d] = "active")
    PROVE  Acyclic(parent', ActiveDepts')
<1>1. /\ c.d \in Depts /\ c.up \in Depts \union {NoDept, Unset}
      /\ c.kind \in {"patch", "create"}
      /\ c.kind = "create" => c.up # Unset
      /\ c.kind = "patch" => c.on \in {"active", "inactive", Unset}
    BY DeptConstants DEF DeptOps, Patches, Creations
<1>2. /\ parent \in [Depts -> Depts \union {NoDept}] /\ deptState \in [Depts -> DeptStates]
      /\ \A d \in Depts : parent[d] \in Depts => deptState[parent[d]] # "absent"
    BY DEF TreeTyped, DeptTypeOK
<1>3. \A d \in Depts : d # c.d => parent'[d] = parent[d] /\ deptState'[d] = deptState[d]
    BY <1>1, <1>2 DEF WrittenParent, WrittenState
<1>4. \A d \in Depts : d # c.d => (d \in ActiveDepts' <=> d \in ActiveDepts)
    BY <1>3 DEF ActiveDepts
<1>5. ActiveDepts \subseteq Depts /\ ActiveDepts' \subseteq Depts
    BY DEF ActiveDepts
<1>6. c.kind = "create" => /\ c.d \notin ActiveDepts
                           /\ \A d \in Depts : parent[d] # c.d
    BY <1>1, <1>2 DEF CodeTaken, ActiveDepts
<1>7. c.kind = "patch" => (c.d \in ActiveDepts' => c.d \in ActiveDepts)
    BY <1>1, <1>2, DeptConstants DEF ActiveDepts, OpSound, DeptStates, WrittenState
<1>8. CASE c.d \in ActiveDepts' /\ c.up \in Depts
    <2>1. parent'[c.d] = c.up
        BY <1>1, <1>2, <1>8, DeptConstants DEF WrittenParent
    <2>2. c.up # c.d /\ c.up \notin Reach(parent, ActiveDepts, c.d)
        <3>1. CASE c.kind = "create"
            <4>1. c.up # c.d
                BY <1>6, <1>8, <3>1 DEF OpSound
            <4>2. Reach(parent, ActiveDepts, c.d) = {}
                <5>1. HangFrom(parent, ActiveDepts, {} \union {c.d}) \subseteq {}
                    BY <1>5, <1>6, <3>1 DEF HangFrom
                <5>. QED BY <5>1, ReachLeast
            <4>. QED BY <4>1, <4>2
        <3>2. CASE c.kind = "patch"
            BY <1>7, <1>8, <3>2, ReachIsDescendants DEF OpSound, MayHangFrom, ActiveDepts
        <3>. QED BY <1>1, <3>1, <3>2
    <2>3. \A d \in ActiveDepts' : d # c.d => d \in ActiveDepts /\ parent'[d] = parent[d]
        BY <1>3, <1>4, <1>5
    <2>. QED BY <2>1, <2>2, <2>3, HungAcyclic
<1>9. CASE ~ (c.d \in ActiveDepts' /\ c.up \in Depts)
    <2> SUFFICES ASSUME NEW d \in ActiveDepts', parent'[d] \in ActiveDepts'
                 PROVE  parent'[d] \in ActiveDepts /\ d \in ActiveDepts /\ parent[d] = parent'[d]
        BY PrunedAcyclic
    <2>1. CASE d # c.d
        <3>1. d \in ActiveDepts /\ parent'[d] = parent[d]
            BY <1>3, <1>4, <1>5, <2>1
        <3>2. parent'[d] \in ActiveDepts
            BY <1>1, <1>4, <1>5, <1>6, <1>7, <3>1
        <3>. QED BY <3>1, <3>2
    <2>2. CASE d = c.d
        <3>1. c.up = Unset /\ parent' = parent
            BY <1>1, <1>2, <1>5, <1>9, <2>2, DeptConstants DEF WrittenParent
        <3>2. c.kind = "patch" /\ d \in ActiveDepts
            BY <1>1, <1>7, <2>2, <3>1
        <3>3. parent'[d] \in ActiveDepts
            BY <1>4, <1>5, <2>2, <3>2
        <3>. QED BY <3>1, <3>2, <3>3
    <2>. QED BY <2>1, <2>2
<1>. QED BY <1>8, <1>9

\* The validation of a PATCH keeps the departments in use a forest: whatever is created,
\* moved or switched off in turn, only the activation of one that was inactive can close
\* a cycle.
THEOREM CyclesOnlyByActivationHolds == DeptSpec => CyclesOnlyByActivation
<1>1. ASSUME TreeTyped, GuardInv, [DeptNext]_dvars
      PROVE  deptRegime = "turns" /\ ~ ActiveCycle /\ ActiveCycle'
                => \E d \in Depts : deptState[d] = "inactive" /\ deptState'[d] = "active"
    <2> SUFFICES ASSUME deptRegime = "turns", Acyclic(parent, ActiveDepts),
                        \A d \in Depts : ~ (deptState[d] = "inactive" /\ deptState'[d] = "active")
                 PROVE  Acyclic(parent', ActiveDepts')
        BY ReachIsDescendants
    <2>1. CASE UNCHANGED <<parent, deptState>>
        BY <2>1 DEF ActiveDepts
    <2>2. ASSUME NEW e \in Editors, CommitDept(e)
          PROVE  Acyclic(parent', ActiveDepts')
        <3>1. editor[e].at = "validated" /\ editor[e].op \in DeptOps
            BY <1>1, <2>2, EditorAt DEF CommitDept, TreeTyped
        <3>2. PICK c \in DeptOps : c = editor[e].op
            BY <3>1
        <3>3. OpSound(c)
            BY <1>1, <3>1, <3>2 DEF GuardInv
        <3>4. ~ CodeTaken(c) /\ parent' = WrittenParent(c) /\ deptState' = WrittenState(c)
            BY <2>2, <3>2 DEF CommitDept
        <3>. QED BY <1>1, <3>3, <3>4, CommitKeepsForest
    <2>. QED BY <1>1, <2>1, <2>2
             DEF DeptNext, dvars, ReadToCreate, ReadToPatch, AbandonDept, BustDeptMap, ComputeMap, StoreMap,
                 ExpireMap
<1>. QED BY <1>1, TreeStart, TreeStep, GuardStart, GuardStep, PTL DEF DeptSpec, CyclesOnlyByActivation

-----------------------------------------------------------------------------
(* Authorization: the rows a query reads, and the entries a change busts.   *)

\* the rows on which the answers about user u in app a depend
ReadFor(u, a) ==
    {UserRole(u, a, r) : r \in Roles}
    \cup {UserPerm(u, p, m) : p \in PermsOf[a], m \in BOOLEAN}
    \cup {RolePerm(r, p) : r \in Roles, p \in PermsOf[a]}
    \cup {PosRole(q, a, r) : q \in Positions, r \in Roles}
    \cup {PosPerm(q, p, m) : q \in Positions, p \in PermsOf[a], m \in BOOLEAN}
    \cup {Holds(u, q) : q \in Positions} \cup {Active(q) : q \in Positions}

\* a change touches no row that an entry it leaves alone was computed from
Spared(key, rows) == rows \cap ReadFor(key[3], key[2]) = {}

Covers(op) == \A key \in Keys : key \in op.bust \/ Spared(key, op.del \cup op.add)

AnswersTo(key) ==
    CASE key[1] = "roles" -> SUBSET Roles
      [] key[1] = "perms" -> SUBSET PermsOf[key[2]]
      [] key[1] = "has"   -> BOOLEAN

GrantOps ==
    [at : {"checked", "committed"}, need : SUBSET Rows, clash : SUBSET Rows,
     del : SUBSET Rows, add : SUBSET Rows, bust : SUBSET Keys,
     then : SUBSET (Users \X Positions)]

Seconds == [at : {"second"}, user : Users, position : Positions]

AdminState(x) == x = Idle \/ x \in Seconds \/ (x \in GrantOps /\ Covers(x))

FillState(x) ==
    x # NoEntry =>
        /\ x = [key |-> x.key, done |-> x.done, value |-> x.value]
        /\ x.key \in Keys /\ x.done \in BOOLEAN
        /\ x.value \in AnswersTo(x.key)
        /\ ~ x.done => x.key[1] = "perms"

EntryState(e) ==
    /\ e = [key \in Keys |-> e[key]]
    /\ \A key \in Keys : e[key] = NoEntry \/ e[key] \in AnswersTo(key)

AuthzBudgets == [changes : 0 .. GrantChanges, fills : 0 .. CacheFills, faults : 0 .. CacheFaults]

AuthzTypeOK ==
    /\ authzRegime \in AuthzRegimes
    /\ grants \in SUBSET Rows
    /\ EntryState(entry)
    /\ admin = [s \in Admins |-> admin[s]]
    /\ \A s \in Admins : AdminState(admin[s])
    /\ FillState(fill)
    /\ authzBudget \in AuthzBudgets

\* a pending value is what the tables say, as far as it has been computed
FillTrue ==
    fill # NoEntry =>
        /\ \A s \in Admins : admin[s].at # "checked"
        /\ fill.done => fill.value = Answer(grants, fill.key)
        /\ ~ fill.done => fill.value = Granted(grants, fill.key[3], fill.key[2])

\* an entry that no longer says what the tables say is about to be deleted
StaleIsBusted ==
    \A key \in Keys :
        \/ IsTrue(key)
        \/ \E s \in Admins : admin[s].at = "committed" /\ key \in admin[s].bust

AuthzTurns ==
    authzRegime = "turns" =>
        /\ FillTrue
        /\ authzBudget.faults = CacheFaults => StaleIsBusted

AuthzInv == AuthzTypeOK /\ AuthzTurns

-----------------------------------------------------------------------------
LEMMA KeyParts ==
    ASSUME NEW key \in Keys
    PROVE  /\ key = <<key[1], key[2], key[3]>>
           /\ key[1] \in {"roles", "perms", "has"} /\ key[2] \in Apps /\ key[3] \in Users
BY DEF Keys

LEMMA KeyOf ==
    ASSUME NEW k \in {"roles", "perms", "has"}, NEW a \in Apps, NEW u \in Users
    PROVE  <<k, a, u>> \in Keys
BY DEF Keys

LEMMA RoleRowTyped ==
    ASSUME NEW r \in Roles
    PROVE  /\ RowsOfRole(r) \in SUBSET Rows
           /\ \A u \in Users, a \in Apps : UserRole(u, a, r) \in Rows
           /\ \A q \in Positions, a \in Apps : PosRole(q, a, r) \in Rows
           /\ \A p \in Perms : RolePerm(r, p) \in Rows
<1>1. RowsOfRole(r) \in SUBSET Rows
    BY DEF Rows
<1>2. /\ \A u \in Users, a \in Apps : UserRole(u, a, r) \in RowsOfRole(r)
      /\ \A q \in Positions, a \in Apps : PosRole(q, a, r) \in RowsOfRole(r)
      /\ \A p \in Perms : RolePerm(r, p) \in RowsOfRole(r)
    BY DEF RowsOfRole
<1>. QED BY <1>1, <1>2

LEMMA PermRowTyped ==
    ASSUME NEW p \in Perms
    PROVE  /\ RowsOfPerm(p) \in SUBSET Rows
           /\ \A u \in Users, m \in BOOLEAN : UserPerm(u, p, m) \in Rows
           /\ \A q \in Positions, m \in BOOLEAN : PosPerm(q, p, m) \in Rows
<1>1. RowsOfPerm(p) \in SUBSET Rows
    BY DEF Rows
<1>2. /\ \A u \in Users, m \in BOOLEAN : UserPerm(u, p, m) \in RowsOfPerm(p)
      /\ \A q \in Positions, m \in BOOLEAN : PosPerm(q, p, m) \in RowsOfPerm(p)
    BY DEF RowsOfPerm
<1>. QED BY <1>1, <1>2

LEMMA PositionRowTyped ==
    ASSUME NEW q \in Positions
    PROVE  /\ RowsOfPosition(q) \in SUBSET Rows
           /\ \A u \in Users : Holds(u, q) \in Rows
           /\ Exists(q) \in Rows /\ Active(q) \in Rows /\ Multiple(q) \in Rows
<1>1. RowsOfPosition(q) \in SUBSET Rows
    BY DEF Rows
<1>2. /\ \A u \in Users : Holds(u, q) \in RowsOfPosition(q)
      /\ Exists(q) \in RowsOfPosition(q) /\ Active(q) \in RowsOfPosition(q)
      /\ Multiple(q) \in RowsOfPosition(q)
    BY DEF RowsOfPosition
<1>. QED BY <1>1, <1>2

LEMMA AppRowTyped == \A a \in Apps : Enabled(a) \in Rows
<1>1. \A a \in Apps : Enabled(a) \in {Enabled(b) : b \in Apps}
    OBVIOUS
<1>2. {Enabled(b) : b \in Apps} \subseteq Rows
    BY Zenon DEF Rows
<1>. QED BY <1>1, <1>2

LEMMA PermOfApp == \A a \in Apps : \A p \in PermsOf[a] : p \in Perms
BY DEF Perms

-----------------------------------------------------------------------------
(* Which entries a row concerns.                                            *)

LEMMA UserRoleConcerns ==
    ASSUME NEW key \in Keys, NEW u \in Users, NEW a \in Apps, NEW r \in Roles,
           key \notin UserAppKeys(u, a)
    PROVE  Spared(key, {UserRole(u, a, r)})
<1>1. key[2] # a \/ key[3] # u
    BY DEF UserAppKeys
<1>2. UserRole(u, a, r) \notin {UserRole(key[3], key[2], x) : x \in Roles}
    BY <1>1 DEF UserRole
<1>3. UserRole(u, a, r) \notin ReadFor(key[3], key[2])
    BY <1>2 DEF ReadFor, UserRole, UserPerm, RolePerm, PosRole, PosPerm, Holds, Active
<1>. QED BY <1>3 DEF Spared

LEMMA UserPermConcerns ==
    ASSUME NEW key \in Keys, NEW u \in Users, NEW a \in Apps, NEW p \in PermsOf[a],
           key \notin UserAppKeys(u, a)
    PROVE  Spared(key, {UserPerm(u, p, m) : m \in BOOLEAN})
<1>1. key[2] # a \/ key[3] # u
    BY DEF UserAppKeys
<1>2. key[2] # a => p \notin PermsOf[key[2]]
    BY AuthzApps, KeyParts
<1>3. ASSUME NEW m \in BOOLEAN
      PROVE  UserPerm(u, p, m) \notin ReadFor(key[3], key[2])
    <2>1. UserPerm(u, p, m) \notin {UserPerm(key[3], x, n) : x \in PermsOf[key[2]], n \in BOOLEAN}
        BY <1>1, <1>2 DEF UserPerm
    <2>. QED BY <2>1 DEF ReadFor, UserRole, UserPerm, RolePerm, PosRole, PosPerm, Holds, Active
<1>. QED BY <1>3 DEF Spared

LEMMA HoldsConcerns ==
    ASSUME NEW key \in Keys, NEW u \in Users, NEW q \in Positions, key \notin UserKeys(u)
    PROVE  Spared(key, {Holds(u, q)})
<1>1. key[3] # u
    BY DEF UserKeys
<1>2. Holds(u, q) \notin ReadFor(key[3], key[2])
    BY <1>1 DEF ReadFor, UserRole, UserPerm, RolePerm, PosRole, PosPerm, Holds, Active
<1>. QED BY <1>2 DEF Spared

LEMMA OthersConcernNothing ==
    ASSUME NEW key \in Keys
    PROVE  /\ \A q \in Positions : Spared(key, {Multiple(q)})
           /\ \A a \in Apps : Spared(key, {Enabled(a)})
BY DEF Spared, ReadFor, UserRole, UserPerm, RolePerm, PosRole, PosPerm, Holds, Active,
       Multiple, Enabled

-----------------------------------------------------------------------------
(* The queries read nothing else.                                           *)

SameRows(g, h, u, a) == g \cap ReadFor(u, a) = h \cap ReadFor(u, a)

LEMMA SameRoleRows ==
    ASSUME NEW g, NEW h, NEW u, NEW a, SameRows(g, h, u, a)
    PROVE  /\ \A r \in Roles : UserRole(u, a, r) \in g <=> UserRole(u, a, r) \in h
           /\ \A q \in Positions, r \in Roles : PosRole(q, a, r) \in g <=> PosRole(q, a, r) \in h
           /\ \A q \in Positions : Holds(u, q) \in g <=> Holds(u, q) \in h
           /\ \A q \in Positions : Active(q) \in g <=> Active(q) \in h
<1>1. /\ \A r \in Roles : UserRole(u, a, r) \in ReadFor(u, a)
      /\ \A q \in Positions, r \in Roles : PosRole(q, a, r) \in ReadFor(u, a)
      /\ \A q \in Positions : Holds(u, q) \in ReadFor(u, a)
      /\ \A q \in Positions : Active(q) \in ReadFor(u, a)
    BY DEF ReadFor
<1>2. ASSUME NEW row \in ReadFor(u, a)
      PROVE  row \in g <=> row \in h
    BY DEF SameRows
<1>. QED BY <1>1, <1>2, Zenon

LEMMA SamePermRows ==
    ASSUME NEW g, NEW h, NEW u, NEW a, SameRows(g, h, u, a), NEW p \in PermsOf[a]
    PROVE  /\ \A m \in BOOLEAN : UserPerm(u, p, m) \in g <=> UserPerm(u, p, m) \in h
           /\ \A r \in Roles : RolePerm(r, p) \in g <=> RolePerm(r, p) \in h
           /\ \A q \in Positions, m \in BOOLEAN : PosPerm(q, p, m) \in g <=> PosPerm(q, p, m) \in h
<1>1. /\ \A m \in BOOLEAN : UserPerm(u, p, m) \in ReadFor(u, a)
      /\ \A r \in Roles : RolePerm(r, p) \in ReadFor(u, a)
      /\ \A q \in Positions, m \in BOOLEAN : PosPerm(q, p, m) \in ReadFor(u, a)
    BY DEF ReadFor
<1>2. ASSUME NEW row \in ReadFor(u, a)
      PROVE  row \in g <=> row \in h
    BY DEF SameRows
<1>. QED BY <1>1, <1>2, Zenon

LEMMA SameForce ==
    ASSUME NEW g, NEW h, NEW u, NEW a, SameRows(g, h, u, a)
    PROVE  InForce(g, u) = InForce(h, u) /\ ActivePositions(g, u) = ActivePositions(h, u)
<1>1. InForce(g, u) = InForce(h, u)
    BY SameRoleRows DEF InForce
<1>2. \A q \in Positions : Active(q) \in g <=> Active(q) \in h
    BY SameRoleRows
<1>. QED BY <1>1, <1>2 DEF ActivePositions, InForce

LEMMA SameRoles ==
    ASSUME NEW g, NEW h, NEW u, NEW a, SameRows(g, h, u, a)
    PROVE  RolesIn(g, u, a) = RolesIn(h, u, a)
<1>1. \A r \in Roles : UserRole(u, a, r) \in g <=> UserRole(u, a, r) \in h
    BY SameRoleRows
<1>2. \A q \in Positions, r \in Roles : PosRole(q, a, r) \in g <=> PosRole(q, a, r) \in h
    BY SameRoleRows
<1>3. /\ ActivePositions(g, u) \subseteq Positions
      /\ ActivePositions(g, u) = ActivePositions(h, u)
    BY SameForce DEF ActivePositions, InForce
<1>. QED BY <1>1, <1>2, <1>3 DEF RolesIn

LEMMA SamePerms ==
    ASSUME NEW g, NEW h, NEW u, NEW a, SameRows(g, h, u, a)
    PROVE  Granted(g, u, a) = Granted(h, u, a) /\ Denied(g, u, a) = Denied(h, u, a)
<1>1. \A p \in PermsOf[a] :
        /\ \A m \in BOOLEAN : UserPerm(u, p, m) \in g <=> UserPerm(u, p, m) \in h
        /\ \A r \in Roles : RolePerm(r, p) \in g <=> RolePerm(r, p) \in h
        /\ \A q \in Positions, m \in BOOLEAN : PosPerm(q, p, m) \in g <=> PosPerm(q, p, m) \in h
    BY SamePermRows
<1>2. /\ ActivePositions(g, u) \subseteq Positions
      /\ ActivePositions(g, u) = ActivePositions(h, u)
      /\ InForce(g, u) \subseteq Positions /\ InForce(g, u) = InForce(h, u)
    BY SameForce DEF ActivePositions, InForce
<1>3. RolesIn(g, u, a) \subseteq Roles /\ RolesIn(g, u, a) = RolesIn(h, u, a)
    BY SameRoles DEF RolesIn
<1>4. ASSUME NEW p \in PermsOf[a]
      PROVE  p \in Granted(g, u, a) <=> p \in Granted(h, u, a)
    BY <1>1, <1>2, <1>3 DEF Granted
<1>5. ASSUME NEW p \in PermsOf[a]
      PROVE  p \in Denied(g, u, a) <=> p \in Denied(h, u, a)
    BY <1>1, <1>2 DEF Denied
<1>6. /\ Granted(g, u, a) \subseteq PermsOf[a] /\ Granted(h, u, a) \subseteq PermsOf[a]
      /\ Denied(g, u, a) \subseteq PermsOf[a] /\ Denied(h, u, a) \subseteq PermsOf[a]
    BY DEF Granted, Denied
<1>. QED BY <1>4, <1>5, <1>6

LEMMA SameAssignment ==
    ASSUME NEW g, NEW h, NEW u, NEW a, SameRows(g, h, u, a)
    PROVE  HasAssignment(g, u, a) = HasAssignment(h, u, a)
<1>1. \A p \in PermsOf[a] :
        /\ \A m \in BOOLEAN : UserPerm(u, p, m) \in g <=> UserPerm(u, p, m) \in h
        /\ \A q \in Positions, m \in BOOLEAN : PosPerm(q, p, m) \in g <=> PosPerm(q, p, m) \in h
    BY SamePermRows
<1>2. \A r \in Roles : UserRole(u, a, r) \in g <=> UserRole(u, a, r) \in h
    BY SameRoleRows
<1>3. \A q \in Positions, r \in Roles : PosRole(q, a, r) \in g <=> PosRole(q, a, r) \in h
    BY SameRoleRows
<1>4. InForce(g, u) = InForce(h, u) /\ InForce(g, u) \subseteq Positions
    BY SameForce DEF InForce
<1>5. HasAssignment(g, u, a) <=> HasAssignment(h, u, a)
    BY <1>1, <1>2, <1>3, <1>4 DEF HasAssignment
<1>. QED BY <1>5 DEF HasAssignment

LEMMA SameAnswer ==
    ASSUME NEW g, NEW h, NEW key \in Keys, SameRows(g, h, key[3], key[2])
    PROVE  Answer(g, key) = Answer(h, key)
<1>1. RolesIn(g, key[3], key[2]) = RolesIn(h, key[3], key[2])
    BY SameRoles
<1>2. Effective(g, key[3], key[2]) = Effective(h, key[3], key[2])
    BY SamePerms DEF Effective
<1>3. HasAssignment(g, key[3], key[2]) = HasAssignment(h, key[3], key[2])
    BY SameAssignment
<1>. QED BY <1>1, <1>2, <1>3, KeyParts DEF Answer

LEMMA AnswerTyped ==
    ASSUME NEW key \in Keys, NEW g
    PROVE  /\ Answer(g, key) \in AnswersTo(key)
           /\ key[1] = "perms" => /\ Granted(g, key[3], key[2]) \in AnswersTo(key)
                                  /\ Answer(g, key) = Granted(g, key[3], key[2])
                                                        \ Denied(g, key[3], key[2])
<1>1. RolesIn(g, key[3], key[2]) \in SUBSET Roles
    BY DEF RolesIn
<1>2. Granted(g, key[3], key[2]) \in SUBSET PermsOf[key[2]]
    BY DEF Granted
<1>3. HasAssignment(g, key[3], key[2]) \in BOOLEAN
    BY DEF HasAssignment
<1>4. Effective(g, key[3], key[2]) = Granted(g, key[3], key[2]) \ Denied(g, key[3], key[2])
    BY DEF Effective
<1>5. CASE key[1] = "roles"
    BY <1>1, <1>5 DEF Answer, AnswersTo
<1>6. CASE key[1] = "perms"
    BY <1>2, <1>4, <1>6 DEF Answer, AnswersTo
<1>7. CASE key[1] = "has"
    BY <1>3, <1>7 DEF Answer, AnswersTo
<1>. QED BY <1>5, <1>6, <1>7, KeyParts

-----------------------------------------------------------------------------
(* A request that passes its checks.                                        *)

SoundChange(need, clash, del, add, bust, then) ==
    /\ need \in SUBSET Rows /\ clash \in SUBSET Rows
    /\ del \in SUBSET Rows /\ add \in SUBSET Rows
    /\ bust \in SUBSET Keys /\ then \in SUBSET (Users \X Positions)
    /\ \A key \in Keys : key \in bust \/ Spared(key, del \cup add)

LEMMA BudgetsLeft ==
    ASSUME AuthzTypeOK
    PROVE  /\ authzBudget.changes > 0 =>
                [authzBudget EXCEPT !.changes = @ - 1] \in AuthzBudgets
           /\ authzBudget.fills > 0 => [authzBudget EXCEPT !.fills = @ - 1] \in AuthzBudgets
           /\ authzBudget.faults > 0 =>
                /\ [authzBudget EXCEPT !.faults = @ - 1] \in AuthzBudgets
                /\ authzBudget.faults - 1 # CacheFaults
<1>1. /\ authzBudget.changes \in 0 .. GrantChanges /\ authzBudget.fills \in 0 .. CacheFills
      /\ authzBudget.faults \in 0 .. CacheFaults
    BY DEF AuthzTypeOK, AuthzBudgets
<1>2. ASSUME authzBudget.changes > 0
      PROVE  [authzBudget EXCEPT !.changes = @ - 1] \in AuthzBudgets
    <2>1. authzBudget.changes - 1 \in 0 .. GrantChanges
        BY <1>1, <1>2, AuthzBounds
    <2>. QED BY <2>1 DEF AuthzTypeOK, AuthzBudgets
<1>3. ASSUME authzBudget.fills > 0
      PROVE  [authzBudget EXCEPT !.fills = @ - 1] \in AuthzBudgets
    <2>1. authzBudget.fills - 1 \in 0 .. CacheFills
        BY <1>1, <1>3, AuthzBounds
    <2>. QED BY <2>1 DEF AuthzTypeOK, AuthzBudgets
<1>4. ASSUME authzBudget.faults > 0
      PROVE  /\ [authzBudget EXCEPT !.faults = @ - 1] \in AuthzBudgets
             /\ authzBudget.faults - 1 # CacheFaults
    <2>1. authzBudget.faults - 1 \in 0 .. CacheFaults /\ authzBudget.faults - 1 # CacheFaults
        BY <1>1, <1>4, AuthzBounds
    <2>. QED BY <2>1 DEF AuthzTypeOK, AuthzBudgets
<1>. QED BY <1>2, <1>3, <1>4

\* the only administrator of a step, whatever the other variables do
LEMMA AdminTyped ==
    ASSUME AuthzTypeOK, NEW s \in Admins, NEW x, AdminState(x),
           admin' = [admin EXCEPT ![s] = x]
    PROVE  /\ admin' = [t \in Admins |-> admin'[t]]
           /\ \A t \in Admins : AdminState(admin'[t])
           /\ admin'[s] = x /\ \A t \in Admins \ {s} : admin'[t] = admin[t]
<1>1. admin = [t \in Admins |-> admin[t]]
    BY DEF AuthzTypeOK
<1>2. admin'[s] = x /\ \A t \in Admins \ {s} : admin'[t] = admin[t]
    BY <1>1
<1>3. \A t \in Admins : AdminState(admin'[t])
    BY <1>2 DEF AuthzTypeOK
<1>4. admin' = [t \in Admins |-> admin'[t]]
    BY <1>1
<1>. QED BY <1>2, <1>3, <1>4

LEMMA CheckedKeeps ==
    ASSUME AuthzInv, NEW s \in Admins, admin[s].at # "committed",
           authzBudget.changes > 0, NobodyReads,
           NEW need, NEW clash, NEW del, NEW add, NEW bust, NEW then,
           SoundChange(need, clash, del, add, bust, then),
           Checked(s, need, clash, del, add, bust, then)
    PROVE  AuthzInv'
<1>. DEFINE op == [at |-> "checked", need |-> need, clash |-> clash, del |-> del, add |-> add,
                   bust |-> bust, then |-> then]
<1>1. op \in GrantOps
    BY DEF SoundChange, GrantOps
<1>2. Covers(op)
    BY DEF SoundChange, Covers
<1>3. admin' = [admin EXCEPT ![s] = op]
    BY DEF Checked
<1>4. AdminState(op)
    BY <1>1, <1>2 DEF AdminState
<1>5. op.at = "checked"
    OBVIOUS
<1>. HIDE DEF op
<1>6. /\ admin' = [t \in Admins |-> admin'[t]] /\ \A t \in Admins : AdminState(admin'[t])
      /\ admin'[s] = op /\ \A t \in Admins \ {s} : admin'[t] = admin[t]
    BY <1>3, <1>4, AdminTyped DEF AuthzInv
<1>7. UNCHANGED <<authzRegime, grants, entry, fill>>
    BY DEF Checked
<1>8. authzBudget' \in AuthzBudgets /\ authzBudget'.faults = authzBudget.faults
    <2>1. authzBudget' = [authzBudget EXCEPT !.changes = @ - 1]
        BY DEF Checked
    <2>. QED BY <2>1, BudgetsLeft DEF AuthzInv, AuthzTypeOK, AuthzBudgets
<1>9. AuthzTypeOK'
    BY <1>6, <1>7, <1>8 DEF AuthzInv, AuthzTypeOK, AdminState, EntryState, FillState
<1>10. ASSUME authzRegime' = "turns"
       PROVE  FillTrue'
    <2>1. fill = NoEntry
        BY <1>7, <1>10 DEF NobodyReads
    <2>. QED BY <2>1, <1>7 DEF FillTrue
<1>11. ASSUME authzRegime' = "turns", authzBudget'.faults = CacheFaults, NEW key \in Keys
       PROVE  \/ IsTrue(key)'
              \/ \E t \in Admins : admin'[t].at = "committed" /\ key \in admin'[t].bust
    <2>1. \/ IsTrue(key)
          \/ \E t \in Admins : admin[t].at = "committed" /\ key \in admin[t].bust
        BY <1>7, <1>8, <1>11 DEF AuthzInv, AuthzTurns, StaleIsBusted
    <2>2. IsTrue(key) => IsTrue(key)'
        BY <1>7 DEF IsTrue
    <2>. QED BY <2>1, <2>2, <1>6
<1>. QED BY <1>9, <1>10, <1>11 DEF AuthzInv, AuthzTurns, StaleIsBusted

LEMMA NothingSpared == \A key \in Keys : Spared(key, {} \cup {})
BY DEF Spared

\* every entry is deleted
LEMMA BustAll ==
    ASSUME NEW need \in SUBSET Rows, NEW clash \in SUBSET Rows, NEW del \in SUBSET Rows,
           NEW add \in SUBSET Rows
    PROVE  SoundChange(need, clash, del, add, Keys, {})
BY DEF SoundChange

LEMMA UserAppBust ==
    ASSUME NEW u \in Users, NEW a \in Apps, NEW need \in SUBSET Rows,
           NEW clash \in SUBSET Rows, NEW del \in SUBSET Rows, NEW add \in SUBSET Rows,
           \A key \in Keys : key \notin UserAppKeys(u, a) => Spared(key, del \cup add)
    PROVE  SoundChange(need, clash, del, add, UserAppKeys(u, a), {})
BY DEF SoundChange, UserAppKeys

LEMMA MayStartMeans ==
    ASSUME NEW s \in Admins, MayStart(s)
    PROVE  admin[s].at # "committed" /\ authzBudget.changes > 0 /\ NobodyReads
BY DEF MayStart

LEMMA GrantsOfUsers ==
    ASSUME AuthzInv, NEW s \in Admins,
           GrantRole(s) \/ RevokeRole(s) \/ GrantPerm(s) \/ RevokePerm(s)
    PROVE  AuthzInv'
<1>1. CASE GrantRole(s)
    <2>1. PICK u \in Users, a \in Apps, r \in Roles :
            MayStart(s) /\ Checked(s, {}, {UserRole(u, a, r)}, {}, {UserRole(u, a, r)},
                                   UserAppKeys(u, a), {})
        BY <1>1 DEF GrantRole, Inserts
    <2>2. {UserRole(u, a, r)} \in SUBSET Rows
        BY RoleRowTyped
    <2>3. \A key \in Keys : key \notin UserAppKeys(u, a) =>
              Spared(key, {} \cup {UserRole(u, a, r)})
        BY UserRoleConcerns
    <2>4. SoundChange({}, {UserRole(u, a, r)}, {}, {UserRole(u, a, r)}, UserAppKeys(u, a), {})
        BY <2>2, <2>3, UserAppBust
    <2>. QED BY <2>1, <2>4, MayStartMeans, CheckedKeeps
<1>2. CASE RevokeRole(s)
    <2>1. PICK u \in Users, a \in Apps, r \in Roles :
            MayStart(s) /\ Checked(s, {}, {}, {UserRole(u, a, r)}, {}, UserAppKeys(u, a), {})
        BY <1>2 DEF RevokeRole, Deletes
    <2>2. {UserRole(u, a, r)} \in SUBSET Rows
        BY RoleRowTyped
    <2>3. \A key \in Keys : key \notin UserAppKeys(u, a) =>
              Spared(key, {UserRole(u, a, r)} \cup {})
        BY UserRoleConcerns
    <2>4. SoundChange({}, {}, {UserRole(u, a, r)}, {}, UserAppKeys(u, a), {})
        BY <2>2, <2>3, UserAppBust
    <2>. QED BY <2>1, <2>4, MayStartMeans, CheckedKeeps
<1>3. CASE GrantPerm(s)
    <2>1. PICK u \in Users, a \in Apps : \E p \in PermsOf[a], m \in BOOLEAN :
            LET other == UserPerm(u, p, ~ m) IN
            /\ MayStart(s)
            /\ Checked(s, {other} \cap grants, {UserPerm(u, p, m)} \cup ({other} \ grants),
                       {other}, {UserPerm(u, p, m)}, UserAppKeys(u, a), {})
        BY <1>3 DEF GrantPerm
    <2>2. PICK p \in PermsOf[a], m \in BOOLEAN :
            /\ MayStart(s)
            /\ Checked(s, {UserPerm(u, p, ~ m)} \cap grants,
                       {UserPerm(u, p, m)} \cup ({UserPerm(u, p, ~ m)} \ grants),
                       {UserPerm(u, p, ~ m)}, {UserPerm(u, p, m)}, UserAppKeys(u, a), {})
        BY <2>1
    <2>3. {UserPerm(u, p, ~ m)} \in SUBSET Rows /\ {UserPerm(u, p, m)} \in SUBSET Rows
        BY PermRowTyped, PermOfApp
    <2>4. ASSUME NEW key \in Keys, key \notin UserAppKeys(u, a)
          PROVE  Spared(key, {UserPerm(u, p, ~ m)} \cup {UserPerm(u, p, m)})
        <3>1. Spared(key, {UserPerm(u, p, n) : n \in BOOLEAN})
            BY <2>4, UserPermConcerns
        <3>2. {UserPerm(u, p, ~ m)} \cup {UserPerm(u, p, m)} \subseteq
                    {UserPerm(u, p, n) : n \in BOOLEAN}
            OBVIOUS
        <3>. QED BY <3>1, <3>2 DEF Spared
    <2>5. SoundChange({UserPerm(u, p, ~ m)} \cap grants,
                      {UserPerm(u, p, m)} \cup ({UserPerm(u, p, ~ m)} \ grants),
                      {UserPerm(u, p, ~ m)}, {UserPerm(u, p, m)}, UserAppKeys(u, a), {})
        BY <2>3, <2>4, UserAppBust
    <2>. QED BY <2>2, <2>5, MayStartMeans, CheckedKeeps
<1>4. CASE RevokePerm(s)
    <2>1. PICK u \in Users, a \in Apps : \E p \in PermsOf[a] :
            MayStart(s) /\ Checked(s, {}, {}, {UserPerm(u, p, m) : m \in BOOLEAN}, {},
                                   UserAppKeys(u, a), {})
        BY <1>4 DEF RevokePerm, Deletes
    <2>2. PICK p \in PermsOf[a] :
            MayStart(s) /\ Checked(s, {}, {}, {UserPerm(u, p, m) : m \in BOOLEAN}, {},
                                   UserAppKeys(u, a), {})
        BY <2>1
    <2>3. {UserPerm(u, p, m) : m \in BOOLEAN} \in SUBSET Rows
        BY PermRowTyped, PermOfApp
    <2>4. \A key \in Keys : key \notin UserAppKeys(u, a) =>
              Spared(key, {UserPerm(u, p, m) : m \in BOOLEAN} \cup {})
        BY UserPermConcerns
    <2>5. SoundChange({}, {}, {UserPerm(u, p, m) : m \in BOOLEAN}, {}, UserAppKeys(u, a), {})
        BY <2>3, <2>4, UserAppBust
    <2>. QED BY <2>2, <2>5, MayStartMeans, CheckedKeeps
<1>. QED BY <1>1, <1>2, <1>3, <1>4

LEMMA AssignsKeeps ==
    ASSUME AuthzInv, NEW s \in Admins, admin[s].at # "committed",
           authzBudget.changes > 0, NobodyReads,
           NEW u \in Users, NEW q \in Positions, AssignsUser(s, u, q)
    PROVE  AuthzInv'
<1>1. Checked(s, {Exists(q)}, {Holds(u, q)}, {}, {Holds(u, q)}, UserKeys(u), {})
    BY DEF AssignsUser
<1>2. {Exists(q)} \in SUBSET Rows /\ {Holds(u, q)} \in SUBSET Rows
    BY PositionRowTyped
<1>3. \A key \in Keys : key \in UserKeys(u) \/ Spared(key, {} \cup {Holds(u, q)})
    BY HoldsConcerns
<1>4. UserKeys(u) \in SUBSET Keys
    BY DEF UserKeys
<1>5. SoundChange({Exists(q)}, {Holds(u, q)}, {}, {Holds(u, q)}, UserKeys(u), {})
    BY <1>2, <1>3, <1>4 DEF SoundChange
<1>. QED BY <1>1, <1>5, CheckedKeeps

LEMMA Assignments ==
    ASSUME AuthzInv, NEW s \in Admins,
           AssignUser(s) \/ RemoveUser(s) \/ TransferFrom(s) \/ TransferTo(s)
    PROVE  AuthzInv'
<1>1. CASE AssignUser(s)
    <2>1. PICK u \in Users, q \in Positions : MayStart(s) /\ AssignsUser(s, u, q)
        BY <1>1 DEF AssignUser
    <2>. QED BY <2>1, MayStartMeans, AssignsKeeps
<1>2. ASSUME NEW u \in Users, NEW q \in Positions, NEW then \in SUBSET (Users \X Positions)
      PROVE  SoundChange({}, {}, {Holds(u, q)}, {}, UserKeys(u), then)
    <2>1. {Holds(u, q)} \in SUBSET Rows
        BY PositionRowTyped
    <2>2. \A key \in Keys : key \in UserKeys(u) \/ Spared(key, {Holds(u, q)} \cup {})
        BY HoldsConcerns
    <2>3. UserKeys(u) \in SUBSET Keys
        BY DEF UserKeys
    <2>. QED BY <2>1, <2>2, <2>3 DEF SoundChange
<1>3. CASE RemoveUser(s)
    <2>1. PICK u \in Users, q \in Positions :
            MayStart(s) /\ Checked(s, {}, {}, {Holds(u, q)}, {}, UserKeys(u), {})
        BY <1>3 DEF RemoveUser, Deletes
    <2>2. SoundChange({}, {}, {Holds(u, q)}, {}, UserKeys(u), {})
        BY <1>2
    <2>. QED BY <2>1, <2>2, MayStartMeans, CheckedKeeps
<1>4. CASE TransferFrom(s)
    <2>1. PICK u \in Users, v \in Users, q \in Positions :
            MayStart(s) /\ Checked(s, {}, {}, {Holds(u, q)}, {}, UserKeys(u), {<<v, q>>})
        BY <1>4 DEF TransferFrom
    <2>2. SoundChange({}, {}, {Holds(u, q)}, {}, UserKeys(u), {<<v, q>>})
        BY <1>2
    <2>. QED BY <2>1, <2>2, MayStartMeans, CheckedKeeps
<1>5. CASE TransferTo(s)
    <2>1. /\ admin[s].at = "second" /\ authzBudget.changes > 0 /\ NobodyReads
          /\ AssignsUser(s, admin[s].user, admin[s].position)
        BY <1>5 DEF TransferTo
    <2>2. admin[s] \in Seconds
        BY <2>1 DEF AuthzInv, AuthzTypeOK, AdminState, Idle, GrantOps
    <2>3. admin[s].user \in Users /\ admin[s].position \in Positions
        BY <2>2 DEF Seconds
    <2>4. admin[s].at # "committed"
        BY <2>1
    <2>. QED BY <2>1, <2>3, <2>4, AssignsKeeps
<1>. QED BY <1>1, <1>3, <1>4, <1>5

LEMMA PositionRows ==
    ASSUME NEW q \in Positions
    PROVE  {Exists(q)} \in SUBSET Rows /\ {Active(q)} \in SUBSET Rows
           /\ {Multiple(q)} \in SUBSET Rows /\ RowsOfPosition(q) \in SUBSET Rows
BY PositionRowTyped

LEMMA ChangesOfPositions ==
    ASSUME AuthzInv, NEW s \in Admins,
           PatchPosition(s) \/ DeletePosition(s) \/ AssignRoleToPosition(s)
           \/ RemoveRoleFromPosition(s) \/ SetPositionPerm(s) \/ RemovePositionPerm(s)
    PROVE  AuthzInv'
<1>1. CASE PatchPosition(s)
    <2>1. PICK q \in Positions, on \in BOOLEAN :
            /\ MayStart(s)
            /\ \/ Checked(s, {Exists(q)}, {}, {Active(q)}, IF on THEN {Active(q)} ELSE {}, Keys, {})
               \/ Checked(s, {Exists(q)}, {}, {Multiple(q)}, IF on THEN {Multiple(q)} ELSE {},
                          {}, {})
        BY <1>1 DEF PatchPosition
    <2>. DEFINE active == IF on THEN {Active(q)} ELSE {}
                multiple == IF on THEN {Multiple(q)} ELSE {}
    <2>2. active \in SUBSET Rows /\ multiple \in SUBSET Rows
        BY PositionRows
    <2>3. multiple \subseteq {Multiple(q)}
        OBVIOUS
    <2>4. SoundChange({Exists(q)}, {}, {Active(q)}, active, Keys, {})
        BY <2>2, PositionRows, BustAll
    <2>5. \A key \in Keys : Spared(key, {Multiple(q)} \cup multiple)
        BY <2>3, OthersConcernNothing DEF Spared
    <2>6. SoundChange({Exists(q)}, {}, {Multiple(q)}, multiple, {}, {})
        BY <2>2, <2>5, PositionRows DEF SoundChange
    <2>7. CASE Checked(s, {Exists(q)}, {}, {Active(q)}, active, Keys, {})
        <3>. HIDE DEF active
        <3>. QED BY <2>1, <2>4, <2>7, MayStartMeans, CheckedKeeps
    <2>8. CASE Checked(s, {Exists(q)}, {}, {Multiple(q)}, multiple, {}, {})
        <3>. HIDE DEF multiple
        <3>. QED BY <2>1, <2>6, <2>8, MayStartMeans, CheckedKeeps
    <2>. QED BY <2>1, <2>7, <2>8
<1>2. CASE DeletePosition(s)
    <2>1. PICK q \in Positions :
            MayStart(s) /\ Checked(s, {Exists(q)}, {}, RowsOfPosition(q), {}, Keys, {})
        BY <1>2 DEF DeletePosition
    <2>2. SoundChange({Exists(q)}, {}, RowsOfPosition(q), {}, Keys, {})
        BY PositionRows, BustAll
    <2>. QED BY <2>1, <2>2, MayStartMeans, CheckedKeeps
<1>3. CASE AssignRoleToPosition(s)
    <2>1. PICK q \in Positions, a \in Apps, r \in Roles :
            MayStart(s) /\ Checked(s, {Exists(q)}, {PosRole(q, a, r)}, {}, {PosRole(q, a, r)},
                                   Keys, {})
        BY <1>3 DEF AssignRoleToPosition
    <2>2. {PosRole(q, a, r)} \in SUBSET Rows
        BY RoleRowTyped
    <2>3. SoundChange({Exists(q)}, {PosRole(q, a, r)}, {}, {PosRole(q, a, r)}, Keys, {})
        BY <2>2, PositionRows, BustAll
    <2>. QED BY <2>1, <2>3, MayStartMeans, CheckedKeeps
<1>4. CASE RemoveRoleFromPosition(s)
    <2>1. PICK q \in Positions, a \in Apps, r \in Roles :
            MayStart(s) /\ Checked(s, {}, {}, {PosRole(q, a, r)}, {}, Keys, {})
        BY <1>4 DEF RemoveRoleFromPosition, Deletes
    <2>2. {PosRole(q, a, r)} \in SUBSET Rows
        BY RoleRowTyped
    <2>3. SoundChange({}, {}, {PosRole(q, a, r)}, {}, Keys, {})
        BY <2>2, BustAll
    <2>. QED BY <2>1, <2>3, MayStartMeans, CheckedKeeps
<1>5. CASE SetPositionPerm(s)
    <2>1. PICK q \in Positions, a \in Apps : \E p \in PermsOf[a], m \in BOOLEAN :
            LET other == PosPerm(q, p, ~ m) IN
            /\ MayStart(s)
            /\ Checked(s, {Exists(q)} \cup ({other} \cap grants),
                       {PosPerm(q, p, m)} \cup ({other} \ grants),
                       {other}, {PosPerm(q, p, m)}, Keys, {})
        BY <1>5 DEF SetPositionPerm
    <2>2. PICK p \in PermsOf[a], m \in BOOLEAN :
            /\ MayStart(s)
            /\ Checked(s, {Exists(q)} \cup ({PosPerm(q, p, ~ m)} \cap grants),
                       {PosPerm(q, p, m)} \cup ({PosPerm(q, p, ~ m)} \ grants),
                       {PosPerm(q, p, ~ m)}, {PosPerm(q, p, m)}, Keys, {})
        BY <2>1
    <2>3. {PosPerm(q, p, ~ m)} \in SUBSET Rows /\ {PosPerm(q, p, m)} \in SUBSET Rows
        BY PermRowTyped, PermOfApp
    <2>4. /\ {Exists(q)} \cup ({PosPerm(q, p, ~ m)} \cap grants) \in SUBSET Rows
          /\ {PosPerm(q, p, m)} \cup ({PosPerm(q, p, ~ m)} \ grants) \in SUBSET Rows
        BY <2>3, PositionRows
    <2>5. SoundChange({Exists(q)} \cup ({PosPerm(q, p, ~ m)} \cap grants),
                      {PosPerm(q, p, m)} \cup ({PosPerm(q, p, ~ m)} \ grants),
                      {PosPerm(q, p, ~ m)}, {PosPerm(q, p, m)}, Keys, {})
        BY <2>3, <2>4, BustAll
    <2>. QED BY <2>2, <2>5, MayStartMeans, CheckedKeeps
<1>6. CASE RemovePositionPerm(s)
    <2>1. PICK q \in Positions, a \in Apps : \E p \in PermsOf[a] :
            MayStart(s) /\ Checked(s, {}, {}, {PosPerm(q, p, m) : m \in BOOLEAN}, {}, Keys, {})
        BY <1>6 DEF RemovePositionPerm, Deletes
    <2>2. PICK p \in PermsOf[a] :
            MayStart(s) /\ Checked(s, {}, {}, {PosPerm(q, p, m) : m \in BOOLEAN}, {}, Keys, {})
        BY <2>1
    <2>3. {PosPerm(q, p, m) : m \in BOOLEAN} \in SUBSET Rows
        BY PermRowTyped, PermOfApp
    <2>4. SoundChange({}, {}, {PosPerm(q, p, m) : m \in BOOLEAN}, {}, Keys, {})
        BY <2>3, BustAll
    <2>. QED BY <2>2, <2>4, MayStartMeans, CheckedKeeps
<1>. QED BY <1>1, <1>2, <1>3, <1>4, <1>5, <1>6

LEMMA ChangesOfRoles ==
    ASSUME AuthzInv, NEW s \in Admins,
           AddRolePerm(s) \/ RemoveRolePerm(s) \/ ReplaceRolePerms(s) \/ DeleteRole(s)
           \/ DeletePerm(s) \/ PatchApp(s)
    PROVE  AuthzInv'
<1>1. ASSUME NEW a \in Apps, NEW r \in Roles, NEW new \in SUBSET PermsOf[a]
      PROVE  {RolePerm(r, p) : p \in new} \in SUBSET Rows
    BY RoleRowTyped, PermOfApp
<1>2. ASSUME NEW a \in Apps, NEW r \in Roles, NEW p \in PermsOf[a]
      PROVE  {RolePerm(r, p)} \in SUBSET Rows
    BY RoleRowTyped, PermOfApp
<1>3. CASE AddRolePerm(s)
    <2>1. PICK a \in Apps, r \in Roles : \E p \in PermsOf[a] :
            MayStart(s) /\ Checked(s, {}, {RolePerm(r, p)}, {}, {RolePerm(r, p)}, Keys, {})
        BY <1>3 DEF AddRolePerm, Inserts
    <2>2. PICK p \in PermsOf[a] :
            MayStart(s) /\ Checked(s, {}, {RolePerm(r, p)}, {}, {RolePerm(r, p)}, Keys, {})
        BY <2>1
    <2>3. SoundChange({}, {RolePerm(r, p)}, {}, {RolePerm(r, p)}, Keys, {})
        BY <1>2, BustAll
    <2>. QED BY <2>2, <2>3, MayStartMeans, CheckedKeeps
<1>4. CASE RemoveRolePerm(s)
    <2>1. PICK a \in Apps, r \in Roles : \E p \in PermsOf[a] :
            MayStart(s) /\ Checked(s, {}, {}, {RolePerm(r, p)}, {}, Keys, {})
        BY <1>4 DEF RemoveRolePerm, Deletes
    <2>2. PICK p \in PermsOf[a] :
            MayStart(s) /\ Checked(s, {}, {}, {RolePerm(r, p)}, {}, Keys, {})
        BY <2>1
    <2>3. SoundChange({}, {}, {RolePerm(r, p)}, {}, Keys, {})
        BY <1>2, BustAll
    <2>. QED BY <2>2, <2>3, MayStartMeans, CheckedKeeps
<1>5. CASE ReplaceRolePerms(s)
    <2>1. PICK a \in Apps, r \in Roles : \E new \in SUBSET PermsOf[a] :
            MayStart(s) /\ Checked(s, {}, {}, {RolePerm(r, p) : p \in PermsOf[a]},
                                   {RolePerm(r, p) : p \in new}, Keys, {})
        BY <1>5 DEF ReplaceRolePerms
    <2>2. PICK new \in SUBSET PermsOf[a] :
            MayStart(s) /\ Checked(s, {}, {}, {RolePerm(r, p) : p \in PermsOf[a]},
                                   {RolePerm(r, p) : p \in new}, Keys, {})
        BY <2>1
    <2>3. /\ {RolePerm(r, p) : p \in new} \in SUBSET Rows
          /\ {RolePerm(r, p) : p \in PermsOf[a]} \in SUBSET Rows
        BY <1>1
    <2>4. SoundChange({}, {}, {RolePerm(r, p) : p \in PermsOf[a]}, {RolePerm(r, p) : p \in new},
                      Keys, {})
        BY <2>3, BustAll
    <2>. QED BY <2>2, <2>4, MayStartMeans, CheckedKeeps
<1>6. CASE DeleteRole(s)
    <2>1. PICK r \in Roles : MayStart(s) /\ Checked(s, {}, {}, RowsOfRole(r), {}, Keys, {})
        BY <1>6 DEF DeleteRole, Deletes
    <2>2. SoundChange({}, {}, RowsOfRole(r), {}, Keys, {})
        BY RoleRowTyped, BustAll
    <2>. QED BY <2>1, <2>2, MayStartMeans, CheckedKeeps
<1>7. CASE DeletePerm(s)
    <2>1. PICK a \in Apps : \E p \in PermsOf[a] :
            MayStart(s) /\ Checked(s, {}, {}, RowsOfPerm(p), {}, Keys, {})
        BY <1>7 DEF DeletePerm, Deletes
    <2>2. PICK p \in PermsOf[a] :
            MayStart(s) /\ Checked(s, {}, {}, RowsOfPerm(p), {}, Keys, {})
        BY <2>1
    <2>3. SoundChange({}, {}, RowsOfPerm(p), {}, Keys, {})
        BY PermRowTyped, PermOfApp, BustAll
    <2>. QED BY <2>2, <2>3, MayStartMeans, CheckedKeeps
<1>8. CASE PatchApp(s)
    <2>1. PICK a \in Apps :
            MayStart(s) /\ Checked(s, {}, {}, {Enabled(a)}, {Enabled(a)} \ grants, {}, {})
        BY <1>8 DEF PatchApp
    <2>2. \A key \in Keys : Spared(key, {Enabled(a)} \cup ({Enabled(a)} \ grants))
        BY OthersConcernNothing DEF Spared
    <2>3. SoundChange({}, {}, {Enabled(a)}, {Enabled(a)} \ grants, {}, {})
        BY <2>2, AppRowTyped DEF SoundChange
    <2>. QED BY <2>1, <2>3, MayStartMeans, CheckedKeeps
<1>. QED BY <1>3, <1>4, <1>5, <1>6, <1>7, <1>8

-----------------------------------------------------------------------------
(* The rest of a request: its commit, its deletions.                        *)

LEMMA OpOf ==
    ASSUME AuthzTypeOK, NEW s \in Admins, admin[s].at \in {"checked", "committed"}
    PROVE  admin[s] \in GrantOps /\ Covers(admin[s])
BY DEF AuthzTypeOK, AdminState, Idle, Seconds

LEMMA IdleState == AdminState(Idle) /\ Idle.at = "idle"
BY DEF AdminState, Idle

LEMMA CommitKeeps ==
    ASSUME AuthzInv, NEW s \in Admins, Commit(s)
    PROVE  AuthzInv'
<1>. DEFINE op == [admin[s] EXCEPT !.at = "committed"]
<1>1. admin[s] \in GrantOps /\ Covers(admin[s]) /\ admin[s].at = "checked"
    BY OpOf DEF Commit, AuthzInv
<1>2. op \in GrantOps /\ op.at = "committed" /\ op.bust = admin[s].bust
      /\ op.del = admin[s].del /\ op.add = admin[s].add
    BY <1>1 DEF GrantOps
<1>3. AdminState(op)
    BY <1>1, <1>2 DEF AdminState, Covers
<1>4. admin' = [admin EXCEPT ![s] = op]
    BY DEF Commit
<1>. HIDE DEF op
<1>5. /\ admin' = [t \in Admins |-> admin'[t]] /\ \A t \in Admins : AdminState(admin'[t])
      /\ admin'[s] = op /\ \A t \in Admins \ {s} : admin'[t] = admin[t]
    BY <1>3, <1>4, AdminTyped DEF AuthzInv
<1>6. /\ grants' = (grants \ admin[s].del) \cup admin[s].add
      /\ UNCHANGED <<authzRegime, entry, fill, authzBudget>>
    BY DEF Commit
<1>7. grants' \in SUBSET Rows
    BY <1>1, <1>6 DEF GrantOps, AuthzInv, AuthzTypeOK
<1>8. AuthzTypeOK'
    BY <1>5, <1>6, <1>7 DEF AuthzInv, AuthzTypeOK, EntryState, FillState
<1>9. ASSUME authzRegime' = "turns"
      PROVE  FillTrue'
    <2>1. fill = NoEntry
        BY <1>1, <1>6, <1>9 DEF AuthzInv, AuthzTurns, FillTrue
    <2>. QED BY <2>1, <1>6 DEF FillTrue
<1>10. ASSUME authzRegime' = "turns", authzBudget'.faults = CacheFaults, NEW key \in Keys
       PROVE  \/ IsTrue(key)'
              \/ \E t \in Admins : admin'[t].at = "committed" /\ key \in admin'[t].bust
    <2>1. CASE key \in admin[s].bust
        BY <2>1, <1>2, <1>5
    <2>2. CASE key \notin admin[s].bust
        <3>1. Answer(grants', key) = Answer(grants, key)
            <4>1. key \in admin[s].bust \/ Spared(key, admin[s].del \cup admin[s].add)
                BY <1>1, Zenon DEF Covers
            <4>2. SameRows(grants', grants, key[3], key[2])
                BY <2>2, <4>1, <1>6 DEF SameRows, Spared
            <4>. QED BY <4>2, SameAnswer
        <3>2. \/ IsTrue(key)
              \/ \E t \in Admins : admin[t].at = "committed" /\ key \in admin[t].bust
            BY <1>6, <1>10 DEF AuthzInv, AuthzTurns, StaleIsBusted
        <3>3. IsTrue(key) => IsTrue(key)'
            BY <3>1, <1>6 DEF IsTrue
        <3>. QED BY <3>2, <3>3, <1>1, <1>5
    <2>. QED BY <2>1, <2>2
<1>. QED BY <1>8, <1>9, <1>10 DEF AuthzInv, AuthzTurns, StaleIsBusted

\* a step that takes an administrator, who has committed nothing, to another state
LEMMA LeavesKeep ==
    ASSUME AuthzInv, NEW s \in Admins, admin[s].at # "committed",
           NEW x, AdminState(x), x.at \notin {"checked", "committed"},
           admin' = [admin EXCEPT ![s] = x],
           UNCHANGED <<authzRegime, grants, entry, fill, authzBudget>>
    PROVE  AuthzInv'
<1>1. /\ admin' = [t \in Admins |-> admin'[t]] /\ \A t \in Admins : AdminState(admin'[t])
      /\ admin'[s] = x /\ \A t \in Admins \ {s} : admin'[t] = admin[t]
    BY AdminTyped DEF AuthzInv
<1>2. AuthzTypeOK'
    BY <1>1 DEF AuthzInv, AuthzTypeOK, EntryState, FillState
<1>3. ASSUME authzRegime' = "turns"
      PROVE  FillTrue'
    BY <1>1, <1>3 DEF AuthzInv, AuthzTurns, FillTrue
<1>4. ASSUME authzRegime' = "turns", authzBudget'.faults = CacheFaults, NEW key \in Keys
      PROVE  \/ IsTrue(key)'
             \/ \E t \in Admins : admin'[t].at = "committed" /\ key \in admin'[t].bust
    <2>1. \/ IsTrue(key)
          \/ \E t \in Admins : admin[t].at = "committed" /\ key \in admin[t].bust
        BY <1>4 DEF AuthzInv, AuthzTurns, StaleIsBusted
    <2>2. IsTrue(key) => IsTrue(key)'
        BY DEF IsTrue
    <2>. QED BY <2>1, <2>2, <1>1
<1>. QED BY <1>2, <1>3, <1>4 DEF AuthzInv, AuthzTurns, StaleIsBusted

LEMMA RefusalsKeep ==
    ASSUME AuthzInv, NEW s \in Admins, TransferRefused(s) \/ RollBack(s)
    PROVE  AuthzInv'
BY LeavesKeep, IdleState DEF TransferRefused, RollBack

LEMMA NextState ==
    ASSUME NEW op \in GrantOps
    PROVE  AdminState(Next2(op)) /\ Next2(op).at \notin {"checked", "committed"}
<1>1. CASE op.then = {}
    BY <1>1, IdleState DEF Next2
<1>2. CASE op.then # {}
    <2>. DEFINE to == CHOOSE x \in op.then : TRUE
    <2>1. to \in op.then
        BY <1>2
    <2>2. to[1] \in Users /\ to[2] \in Positions
        BY <2>1 DEF GrantOps
    <2>3. Next2(op) = [at |-> "second", user |-> to[1], position |-> to[2]]
        BY <1>2 DEF Next2
    <2>. QED BY <2>2, <2>3 DEF AdminState, Seconds
<1>. QED BY <1>1, <1>2

LEMMA BustsKeep ==
    ASSUME AuthzInv, NEW s \in Admins, Bust(s) \/ BustFails(s)
    PROVE  AuthzInv'
<1>. DEFINE x == Next2(admin[s])
<1>1. admin[s] \in GrantOps /\ admin[s].at = "committed"
    BY OpOf DEF Bust, BustFails, AuthzInv
<1>2. AdminState(x) /\ x.at \notin {"checked", "committed"}
    BY <1>1, NextState
<1>3. admin' = [admin EXCEPT ![s] = x]
    BY DEF Bust, BustFails
<1>. HIDE DEF x
<1>4. /\ admin' = [t \in Admins |-> admin'[t]] /\ \A t \in Admins : AdminState(admin'[t])
      /\ admin'[s] = x /\ \A t \in Admins \ {s} : admin'[t] = admin[t]
    BY <1>2, <1>3, AdminTyped DEF AuthzInv
<1>5. UNCHANGED <<authzRegime, grants, fill>>
    BY DEF Bust, BustFails
<1>6. ASSUME authzRegime' = "turns"
      PROVE  FillTrue'
    BY <1>2, <1>4, <1>5, <1>6 DEF AuthzInv, AuthzTurns, FillTrue
<1>7. CASE Bust(s)
    <2>1. entry' = [key \in Keys |-> IF key \in admin[s].bust THEN NoEntry ELSE entry[key]]
          /\ authzBudget' = authzBudget
        BY <1>7 DEF Bust
    <2>2. EntryState(entry')
        BY <2>1 DEF EntryState, AuthzInv, AuthzTypeOK
    <2>3. AuthzTypeOK'
        BY <1>4, <1>5, <2>1, <2>2 DEF AuthzInv, AuthzTypeOK, FillState
    <2>4. ASSUME authzRegime' = "turns", authzBudget'.faults = CacheFaults, NEW key \in Keys
          PROVE  \/ IsTrue(key)'
                 \/ \E t \in Admins : admin'[t].at = "committed" /\ key \in admin'[t].bust
        <3>1. CASE key \in admin[s].bust
            BY <3>1, <2>1 DEF IsTrue
        <3>2. CASE key \notin admin[s].bust
            <4>1. \/ IsTrue(key)
                  \/ \E t \in Admins : admin[t].at = "committed" /\ key \in admin[t].bust
                BY <1>5, <2>1, <2>4 DEF AuthzInv, AuthzTurns, StaleIsBusted
            <4>2. IsTrue(key) => IsTrue(key)'
                BY <3>2, <2>1, <1>5 DEF IsTrue
            <4>. QED BY <4>1, <4>2, <3>2, <1>4
        <3>. QED BY <3>1, <3>2
    <2>. QED BY <1>6, <2>3, <2>4 DEF AuthzInv, AuthzTurns, StaleIsBusted
<1>8. CASE BustFails(s)
    <2>1. /\ authzBudget.faults > 0 /\ entry' = entry
          /\ authzBudget' = [authzBudget EXCEPT !.faults = @ - 1]
        BY <1>8 DEF BustFails
    <2>2. authzBudget' \in AuthzBudgets /\ authzBudget'.faults # CacheFaults
        BY <2>1, BudgetsLeft DEF AuthzInv, AuthzTypeOK, AuthzBudgets
    <2>3. AuthzTypeOK'
        BY <1>4, <1>5, <2>1, <2>2 DEF AuthzInv, AuthzTypeOK, EntryState, FillState
    <2>. QED BY <1>6, <2>2, <2>3 DEF AuthzInv, AuthzTurns
<1>. QED BY <1>7, <1>8

-----------------------------------------------------------------------------
(* What a protected request does.                                           *)

LEMMA StaleKept ==
    ASSUME AuthzTurns, UNCHANGED <<authzRegime, grants, admin, entry>>,
           authzBudget'.faults = authzBudget.faults
    PROVE  authzRegime' = "turns" /\ authzBudget'.faults = CacheFaults => StaleIsBusted'
<1>. SUFFICES ASSUME authzRegime = "turns", authzBudget.faults = CacheFaults, NEW key \in Keys
              PROVE  \/ IsTrue(key)'
                     \/ \E s \in Admins : admin[s].at = "committed" /\ key \in admin[s].bust
    BY DEF StaleIsBusted
<1>1. \/ IsTrue(key)
      \/ \E s \in Admins : admin[s].at = "committed" /\ key \in admin[s].bust
    BY DEF AuthzTurns, StaleIsBusted
<1>2. IsTrue(key) => IsTrue(key)'
    BY DEF IsTrue
<1>. QED BY <1>1, <1>2

LEMMA ComputeKeeps ==
    ASSUME AuthzInv, Compute
    PROVE  AuthzInv'
<1>1. PICK key \in Keys :
        fill' = [key |-> key, done |-> key[1] # "perms",
                 value |-> IF key[1] = "perms" THEN Granted(grants, key[3], key[2])
                           ELSE Answer(grants, key)]
    BY DEF Compute
<1>2. UNCHANGED <<authzRegime, grants, entry, admin>> /\ authzBudget.fills > 0 /\ NobodyReads
      /\ authzBudget' = [authzBudget EXCEPT !.fills = @ - 1]
    BY DEF Compute
<1>3. authzBudget' \in AuthzBudgets /\ authzBudget'.faults = authzBudget.faults
    BY <1>2, BudgetsLeft DEF AuthzInv, AuthzTypeOK, AuthzBudgets
<1>4. /\ fill'.key = key /\ fill'.done = (key[1] # "perms")
      /\ fill'.done => fill'.value = Answer(grants, key)
      /\ ~ fill'.done => fill'.value = Granted(grants, key[3], key[2])
      /\ fill' = [key |-> fill'.key, done |-> fill'.done, value |-> fill'.value]
    BY <1>1
<1>5. fill'.value \in AnswersTo(key)
    <2>1. fill'.value = IF key[1] = "perms" THEN Granted(grants, key[3], key[2])
                        ELSE Answer(grants, key)
        BY <1>1
    <2>. QED BY <2>1, AnswerTyped
<1>6. FillState(fill')
    BY <1>4, <1>5 DEF FillState
<1>7. AuthzTypeOK'
    BY <1>2, <1>3, <1>6 DEF AuthzInv, AuthzTypeOK, EntryState
<1>8. ASSUME authzRegime' = "turns"
      PROVE  FillTrue'
    BY <1>2, <1>4, <1>8 DEF NobodyReads, FillTrue
<1>. QED BY <1>2, <1>3, <1>7, <1>8, StaleKept DEF AuthzInv, AuthzTurns

LEMMA ComputeDeniedKeeps ==
    ASSUME AuthzInv, ComputeDenied
    PROVE  AuthzInv'
<1>1. /\ fill # NoEntry /\ ~ fill.done
      /\ fill' = [fill EXCEPT !.done = TRUE,
                              !.value = @ \ Denied(grants, fill.key[3], fill.key[2])]
      /\ UNCHANGED <<authzRegime, grants, entry, admin, authzBudget>>
    BY DEF ComputeDenied
<1>2. /\ fill = [key |-> fill.key, done |-> fill.done, value |-> fill.value]
      /\ fill.key \in Keys /\ fill.key[1] = "perms" /\ fill.value \in AnswersTo(fill.key)
    BY <1>1 DEF AuthzInv, AuthzTypeOK, FillState
<1>3. /\ fill'.key = fill.key /\ fill'.done = TRUE
      /\ fill'.value = fill.value \ Denied(grants, fill.key[3], fill.key[2])
      /\ fill' = [key |-> fill'.key, done |-> fill'.done, value |-> fill'.value]
    BY <1>1, <1>2
<1>4. fill'.value \in AnswersTo(fill.key)
    BY <1>2, <1>3 DEF AnswersTo
<1>5. AuthzTypeOK'
    BY <1>1, <1>2, <1>3, <1>4 DEF AuthzInv, AuthzTypeOK, EntryState, FillState
<1>6. ASSUME authzRegime' = "turns"
      PROVE  FillTrue'
    <2>1. /\ \A s \in Admins : admin[s].at # "checked"
          /\ fill.value = Granted(grants, fill.key[3], fill.key[2])
        BY <1>1, <1>6 DEF AuthzInv, AuthzTurns, FillTrue
    <2>2. fill'.value = Answer(grants, fill.key)
        BY <2>1, <1>2, <1>3, AnswerTyped
    <2>. QED BY <2>1, <2>2, <1>1, <1>3 DEF FillTrue
<1>. QED BY <1>1, <1>5, <1>6, StaleKept DEF AuthzInv, AuthzTurns

\* one entry takes a value that is true, or goes
LEMMA EntryTaken ==
    ASSUME AuthzInv, NEW key \in Keys, NEW value, entry' = [entry EXCEPT ![key] = value],
           UNCHANGED <<authzRegime, grants, admin, authzBudget>>,
           fill' = fill \/ fill' = NoEntry,
           value = NoEntry \/ value \in AnswersTo(key),
           authzRegime = "turns" => value = NoEntry \/ value = Answer(grants, key)
    PROVE  AuthzInv'
<1>1. entry'[key] = value /\ \A k \in Keys \ {key} : entry'[k] = entry[k]
    BY DEF AuthzInv, AuthzTypeOK, EntryState
<1>2. EntryState(entry')
    BY <1>1 DEF AuthzInv, AuthzTypeOK, EntryState
<1>3. AuthzTypeOK'
    BY <1>2 DEF AuthzInv, AuthzTypeOK, FillState
<1>4. ASSUME authzRegime' = "turns"
      PROVE  FillTrue'
    BY <1>4 DEF AuthzInv, AuthzTurns, FillTrue
<1>5. ASSUME authzRegime' = "turns", authzBudget'.faults = CacheFaults, NEW k \in Keys
      PROVE  \/ IsTrue(k)'
             \/ \E s \in Admins : admin'[s].at = "committed" /\ k \in admin'[s].bust
    <2>1. CASE k = key
        <3>1. entry'[k] = NoEntry \/ entry'[k] = Answer(grants', k)
            BY <2>1, <1>1, <1>5
        <3>. QED BY <3>1 DEF IsTrue
    <2>2. CASE k # key
        <3>1. \/ IsTrue(k)
              \/ \E s \in Admins : admin[s].at = "committed" /\ k \in admin[s].bust
            BY <1>5 DEF AuthzInv, AuthzTurns, StaleIsBusted
        <3>2. IsTrue(k) => IsTrue(k)'
            BY <2>2, <1>1 DEF IsTrue
        <3>. QED BY <3>1, <3>2
    <2>. QED BY <2>1, <2>2
<1>. QED BY <1>3, <1>4, <1>5 DEF AuthzInv, AuthzTurns, StaleIsBusted

LEMMA StoreKeeps ==
    ASSUME AuthzInv, Store
    PROVE  AuthzInv'
<1>1. /\ fill # NoEntry /\ fill.done
      /\ entry' = [entry EXCEPT ![fill.key] = fill.value]
      /\ fill' = NoEntry /\ UNCHANGED <<authzRegime, grants, admin, authzBudget>>
    BY DEF Store
<1>2. fill.key \in Keys /\ fill.value \in AnswersTo(fill.key)
    BY <1>1 DEF AuthzInv, AuthzTypeOK, FillState
<1>3. authzRegime = "turns" => fill.value = Answer(grants, fill.key)
    BY <1>1 DEF AuthzInv, AuthzTurns, FillTrue
<1>. QED BY <1>1, <1>2, <1>3, EntryTaken

LEMMA ExpireKeeps ==
    ASSUME AuthzInv, Expire
    PROVE  AuthzInv'
<1>1. PICK key \in Keys : entry' = [entry EXCEPT ![key] = NoEntry]
    BY DEF Expire
<1>2. UNCHANGED <<authzRegime, grants, admin, fill, authzBudget>>
    BY DEF Expire
<1>. QED BY <1>1, <1>2, EntryTaken

-----------------------------------------------------------------------------
LEMMA AuthzInitInv == AuthzInit => AuthzInv
<1>. SUFFICES ASSUME AuthzInit PROVE AuthzInv
    OBVIOUS
<1>1. authzBudget \in AuthzBudgets
    BY AuthzBounds DEF AuthzInit, AuthzBudgets
<1>2. EntryState(entry) /\ \A key \in Keys : entry[key] = NoEntry
    BY DEF AuthzInit, EntryState
<1>3. admin = [s \in Admins |-> admin[s]] /\ \A s \in Admins : admin[s] = Idle
    BY DEF AuthzInit
<1>4. AuthzTypeOK
    BY <1>1, <1>2, <1>3, AuthzSeeds, IdleState DEF AuthzInit, AuthzTypeOK, FillState
<1>5. FillTrue /\ StaleIsBusted
    BY <1>2 DEF AuthzInit, FillTrue, StaleIsBusted, IsTrue
<1>. QED BY <1>4, <1>5 DEF AuthzInv, AuthzTurns

LEMMA AuthzStepInv == AuthzInv /\ [AuthzNext]_avars => AuthzInv'
<1>. SUFFICES ASSUME AuthzInv, [AuthzNext]_avars PROVE AuthzInv'
    OBVIOUS
<1>1. ASSUME NEW s \in Admins, AdminStep(s)
      PROVE  AuthzInv'
    <2>1. CASE GrantRole(s) \/ RevokeRole(s) \/ GrantPerm(s) \/ RevokePerm(s)
        BY <2>1, GrantsOfUsers
    <2>2. CASE AssignUser(s) \/ RemoveUser(s) \/ TransferFrom(s) \/ TransferTo(s)
        BY <2>2, Assignments
    <2>3. CASE \/ PatchPosition(s) \/ DeletePosition(s) \/ AssignRoleToPosition(s)
               \/ RemoveRoleFromPosition(s) \/ SetPositionPerm(s) \/ RemovePositionPerm(s)
        BY <2>3, ChangesOfPositions
    <2>4. CASE \/ AddRolePerm(s) \/ RemoveRolePerm(s) \/ ReplaceRolePerms(s) \/ DeleteRole(s)
               \/ DeletePerm(s) \/ PatchApp(s)
        BY <2>4, ChangesOfRoles
    <2>5. CASE Commit(s)
        BY <2>5, CommitKeeps
    <2>6. CASE TransferRefused(s) \/ RollBack(s)
        BY <2>6, RefusalsKeep
    <2>7. CASE Bust(s) \/ BustFails(s)
        BY <2>7, BustsKeep
    <2>. QED BY <1>1, <2>1, <2>2, <2>3, <2>4, <2>5, <2>6, <2>7 DEF AdminStep
<1>2. CASE Compute
    BY <1>2, ComputeKeeps
<1>3. CASE ComputeDenied
    BY <1>3, ComputeDeniedKeeps
<1>4. CASE Store
    BY <1>4, StoreKeeps
<1>5. CASE Expire
    BY <1>5, ExpireKeeps
<1>6. CASE UNCHANGED avars
    <2>1. AuthzTypeOK'
        BY <1>6 DEF avars, AuthzInv, AuthzTypeOK, EntryState
    <2>2. authzRegime' = "turns" => FillTrue'
        BY <1>6 DEF avars, AuthzInv, AuthzTurns, FillTrue
    <2>. QED BY <1>6, <2>1, <2>2, StaleKept DEF avars, AuthzInv, AuthzTurns
<1>. QED BY <1>1, <1>2, <1>3, <1>4, <1>5, <1>6 DEF AuthzNext

(***************************************************************************)
(* The tables, the entries and the state of every request stay what        *)
(* authz_service.py and authz_cache.py make them, and whatever a request   *)
(* is about to write is among the rows of the tables.                      *)
(***************************************************************************)
THEOREM AuthzTypeCorrect == AuthzSpec => []AuthzTypeOK
<1>1. AuthzInv => AuthzTypeOK
    BY DEF AuthzInv
<1>. QED BY <1>1, AuthzInitInv, AuthzStepInv, PTL DEF AuthzSpec

(***************************************************************************)
(* No change of the API forgets an entry of the cache that it makes stale: *)
(* when changes and computations take turns and Redis loses no deletion,   *)
(* an entry that differs from the tables is about to be deleted            *)
(* (authz_cache.py:26), for every number of users, roles, positions, apps  *)
(* and requests.                                                           *)
(***************************************************************************)
THEOREM EntriesFollowGrantsHolds == AuthzSpec => []EntriesFollowGrants
<1>1. AuthzInv => EntriesFollowGrants
    BY DEF AuthzInv, AuthzTurns, StaleIsBusted, EntriesFollowGrants
<1>. QED BY <1>1, AuthzInitInv, AuthzStepInv, PTL DEF AuthzSpec

=============================================================================
