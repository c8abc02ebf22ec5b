---------------------------- MODULE UserSessions ----------------------------
(***************************************************************************)
(* Sessions of one account: JWT cookies, the version in Redis that revokes *)
(* them (session_service.py), the middleware that checks and renews them   *)
(* (middleware.py), login, logout and the switch of an account             *)
(* (core/api/auth.py, users_admin.py).                                     *)
(*                                                                         *)
(* A cookie carries sv, the version read when it was issued, and is        *)
(* accepted while sv equals the version in Redis.  Logging out, or         *)
(* switching the account off, increments the version.  A renewal reads the *)
(* version again after its handler has answered, whatever it was when the  *)
(* cookie was accepted.                                                    *)
(*                                                                         *)
(* The field session of a cookie is history, which no step reads: how the  *)
(* session the cookie belongs to stands to the last revocation.            *)
(*                                                                         *)
(* "steady": Redis answers and only these handlers touch its keys;         *)
(* "outage": Redis may stop answering; "admin": an administrator's change  *)
(* may run invalidate_all, which deletes every key under authz:v1:, the    *)
(* versions included.                                                      *)
(***************************************************************************)
EXTENDS Naturals, FiniteSets

CONSTANTS Browsers,        \* each holds at most one cookie
          MaxBumps,        \* bound: increments of the version
          MaxOutages,      \* bound: changes of Redis between up and down
          MaxFlushes,      \* bound: runs of invalidate_all
          SessionRegimes   \* the regimes an execution may pick

ASSUME SessionBounds ==
    MaxBumps \in Nat /\ MaxOutages \in Nat /\ MaxFlushes \in Nat
ASSUME SessionWorlds == SessionRegimes \subseteq {"steady", "outage", "admin"}

VARIABLES sessionRegime, \* never changes
          account,       \* core_users.is_active
          redis,         \* [up, version]: authz:v1:sessionver:{uid}
          cookie,        \* what each browser holds
          request,       \* the login, logout or renewal each browser has in flight
          switching,     \* toggle_user_status between its commit and the increment
          sessionBudget

svars == <<sessionRegime, account, redis, cookie, request, switching, sessionBudget>>

\* "current": began after the last revocation; "spared": a renewal of it was in
\* flight when that one happened; "revoked": any other
NoCookie == [sv |-> 0, age |-> "none", session |-> "none"]
Ages == {"none", "fresh", "old"}

NoRequest == [step |-> "none", cookie |-> NoCookie]

\* current_version: 0 when there is no key and when Redis does not answer
CurrentVersion == IF redis.up THEN redis.version ELSE 0

\* JWTMiddleware.dispatch, and current_user_from_environ for sockets
Accepted(c) == c.age # "none" /\ c.sv = CurrentVersion

\* bump_version: lost when Redis does not answer
Bumped == IF redis.up THEN [redis EXCEPT !.version = @ + 1] ELSE redis

Spend(what) == sessionBudget' = [sessionBudget EXCEPT ![what] = @ - 1]

-----------------------------------------------------------------------------
\* authenticate: the account is active and the password right
BeginLogin(b) ==
    /\ request[b].step = "none" /\ account = "active"
    /\ request' = [request EXCEPT ![b] = [step |-> "authenticated", cookie |-> NoCookie]]
    /\ UNCHANGED <<sessionRegime, account, redis, cookie, switching, sessionBudget>>

\* a session begins when login reads the version; a renewal continues one
Origin(b) == IF request[b].step = "authenticated" THEN "current" ELSE request[b].cookie.session

\* login, or the renewal, reads the version for the new cookie ...
ReadVersion(b) ==
    /\ request[b].step \in {"authenticated", "checked"}
    /\ request' = [request EXCEPT ![b] =
          [step |-> "answer",
           cookie |-> [sv |-> CurrentVersion, age |-> "fresh", session |-> Origin(b)]]]
    /\ UNCHANGED <<sessionRegime, account, redis, cookie, switching, sessionBudget>>

\* ... and the browser receives it
ReceiveCookie(b) ==
    /\ request[b].step = "answer"
    /\ cookie' = [cookie EXCEPT ![b] = request[b].cookie]
    /\ request' = [request EXCEPT ![b] = NoRequest]
    /\ UNCHANGED <<sessionRegime, account, redis, switching, sessionBudget>>

\* a request whose cookie is accepted and near its expiry will be renewed
\* when the handler has answered
BeginRequest(b) ==
    /\ request[b].step = "none" /\ Accepted(cookie[b]) /\ cookie[b].age = "old"
    /\ request' = [request EXCEPT ![b] = [step |-> "handled", cookie |-> cookie[b]]]
    /\ UNCHANGED <<sessionRegime, account, redis, cookie, switching, sessionBudget>>

\* mutant: the renewal trusts the cookie it validated
RenewsAnyone == TRUE

StillActive == account = "active"

\* the account is read again; if it is off there is no new cookie
CheckAccount(b) ==
    /\ request[b].step = "handled"
    /\ request' = [request EXCEPT ![b] =
          IF StillActive THEN [request[b] EXCEPT !.step = "checked"] ELSE NoRequest]
    /\ UNCHANGED <<sessionRegime, account, redis, cookie, switching, sessionBudget>>

\* mutant: the cookie is dropped and the other ones stay valid
OnlyDropsCookie == redis

Revoked == Bumped

Superseded(c, how) == [c EXCEPT !.session = IF @ = "none" THEN @ ELSE how]

CookiesSuperseded == [b \in Browsers |-> Superseded(cookie[b], "revoked")]

Renewing(b) == request[b].step \in {"handled", "checked"}

RequestsSuperseded ==
    [b \in Browsers |-> [request[b] EXCEPT
        !.cookie = Superseded(@, IF Renewing(b) THEN "spared" ELSE "revoked")]]

\* logout revokes every cookie of the account and clears its own; another
\* request of the same browser may be in flight
Logout(b) ==
    /\ Accepted(cookie[b]) /\ sessionBudget.bumps > 0
    /\ redis' = Revoked
    /\ cookie' = [CookiesSuperseded EXCEPT ![b] = NoCookie]
    /\ request' = RequestsSuperseded
    /\ Spend("bumps")
    /\ UNCHANGED <<sessionRegime, account, switching>>

\* toggle_user_status: the commit ...
SwitchOff ==
    /\ account = "active" /\ ~ switching /\ sessionBudget.bumps > 0
    /\ account' = "inactive"
    /\ switching' = TRUE
    /\ Spend("bumps")
    /\ UNCHANGED <<sessionRegime, redis, cookie, request>>

\* ... and then the increment
RevokeSwitched ==
    /\ switching
    /\ redis' = Revoked
    /\ cookie' = CookiesSuperseded
    /\ request' = RequestsSuperseded
    /\ switching' = FALSE
    /\ UNCHANGED <<sessionRegime, account, sessionBudget>>

\* switching the account on revokes nothing
SwitchOn ==
    /\ account = "inactive" /\ ~ switching /\ sessionBudget.bumps > 0
    /\ account' = "active"
    /\ Spend("bumps")
    /\ UNCHANGED <<sessionRegime, redis, cookie, request, switching>>

-----------------------------------------------------------------------------
\* mutant: a cookie lives as long as its browser
KeepsCookie(b) == FALSE

\* the time of the cookie passes: near its expiry, then expired
Age(b) ==
    /\ cookie[b].age # "none"
    /\ cookie' = [cookie EXCEPT ![b] =
          IF cookie[b].age = "fresh" THEN [cookie[b] EXCEPT !.age = "old"] ELSE NoCookie]
    /\ UNCHANGED <<sessionRegime, account, redis, request, switching, sessionBudget>>

\* invalidate_all: the key of the version matches authz:v1:* too
InvalidateAll ==
    /\ sessionRegime = "admin" /\ redis.up /\ sessionBudget.flushes > 0
    /\ redis' = [redis EXCEPT !.version = 0]
    /\ Spend("flushes")
    /\ UNCHANGED <<sessionRegime, account, cookie, request, switching>>

RedisOutage ==
    /\ sessionRegime = "outage" /\ sessionBudget.outages > 0
    /\ redis' = [redis EXCEPT !.up = ~ @]
    /\ Spend("outages")
    /\ UNCHANGED <<sessionRegime, account, cookie, request, switching>>

SessionInit ==
    /\ sessionRegime \in SessionRegimes
    /\ account = "active"
    /\ redis = [up |-> TRUE, version |-> 0]
    /\ cookie = [b \in Browsers |-> NoCookie]
    /\ request = [b \in Browsers |-> NoRequest]
    /\ switching = FALSE
    /\ sessionBudget = [bumps |-> MaxBumps, outages |-> MaxOutages, flushes |-> MaxFlushes]

SessionNext ==
    \/ \E b \in Browsers :
          \/ BeginLogin(b) \/ ReadVersion(b) \/ ReceiveCookie(b)
          \/ BeginRequest(b) \/ CheckAccount(b)
          \/ Logout(b) \/ Age(b)
    \/ SwitchOff \/ RevokeSwitched \/ SwitchOn
    \/ InvalidateAll \/ RedisOutage

\* requests end and cookies expire
SessionFairness ==
    /\ \A b \in Browsers : /\ WF_svars(ReadVersion(b) \/ ReceiveCookie(b) \/ CheckAccount(b))
                           /\ WF_svars(Age(b))
    /\ WF_svars(RevokeSwitched)

SessionSpec == SessionInit /\ [][SessionNext]_svars /\ SessionFairness

-----------------------------------------------------------------------------
(***************************************************************************)
(* What a revocation reaches ("invalida al instante TODOS los tokens del   *)
(* usuario", session_service.py:7): every session that began before it is  *)
(* refused from then on, also one whose answer with a new cookie is on its *)
(* way, with one exception.  A renewal that had accepted the old cookie    *)
(* and had not read the version again hands out a cookie of the new        *)
(* version (middleware.py:80-134), and no other session survives.          *)
(***************************************************************************)
RevokedIsRefused ==
    sessionRegime = "steady" =>
        \A b \in Browsers : Accepted(cookie[b]) => cookie[b].session # "revoked"

\* the claim as it stands, without the exception
RevokedAtOnce ==
    sessionRegime = "steady" =>
        \A b \in Browsers : Accepted(cookie[b]) => cookie[b].session = "current"

\* RevokedIsRefused asked of every regime, also of those where an administrator
\* changes roles or positions or Redis does not answer
RevokedStaysRefused ==
    \A b \in Browsers : Accepted(cookie[b]) => cookie[b].session # "revoked"

(***************************************************************************)
(* An account that is off and stays off has no session in the end: a login *)
(* or a renewal that overlapped the switch may still issue one cookie, but *)
(* that one cannot be renewed.  This holds in every regime.                *)
(***************************************************************************)
SwitchedOffIsOut ==
    (<>[](account = "inactive")) => <>[](\A b \in Browsers : ~ Accepted(cookie[b]))
=============================================================================
