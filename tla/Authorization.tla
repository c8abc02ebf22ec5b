--------------------------- MODULE Authorization ---------------------------
(***************************************************************************)
(* Who may do what: the grants of core/services/authz_service.py and       *)
(* positions_service.py, and the Redis entries through which every         *)
(* protected request reads them (authz_cache.py).                          *)
(*                                                                         *)
(* A user holds roles and permissions directly and through the positions   *)
(* assigned to him; a denial wins.  An administrator's request checks,     *)
(* commits, and only then deletes the entries it believes affected; a      *)
(* request that finds no entry queries the database, in several            *)
(* statements, and stores the answer afterwards.                           *)
(*                                                                         *)
(* "turns": nothing is checked or computed across another's commit;        *)
(* "overlap": any interleaving.  Redis may lose a deletion in either; the  *)
(* code swallows the error.                                                *)
(***************************************************************************)
EXTENDS Naturals, FiniteSets

CONSTANTS Users, Roles, Positions, Apps,
          PermsOf,       \* the permissions of an app
          Admins,        \* concurrent requests that change grants
          NoEntry,       \* a key that is not in Redis
          GrantSeeds,    \* what the seed scripts may leave in the tables
          GrantChanges,  \* bound: requests that pass their checks
          CacheFills,    \* bound: values computed for the cache
          CacheFaults,   \* bound: deletions lost by Redis
          AuthzRegimes   \* the regimes an execution may pick

ASSUME AuthzApps ==
    \A a, b \in Apps : a # b => PermsOf[a] \cap PermsOf[b] = {}
ASSUME AuthzBounds ==
    GrantChanges \in Nat /\ CacheFills \in Nat /\ CacheFaults \in Nat
ASSUME AuthzWorlds == AuthzRegimes \subseteq {"turns", "overlap"}

Perms == UNION {PermsOf[a] : a \in Apps}

(***************************************************************************)
(* The tables, as one set of rows.                                         *)
(***************************************************************************)
UserRole(u, a, r)   == <<"user_app_role", u, a, r>>
UserPerm(u, p, m)   == <<"user_app_perm", u, p, m>>      \* m: the column allow
RolePerm(r, p)      == <<"role_permission", r, p>>
Holds(u, q)         == <<"user_position", u, q>>         \* an active assignment
PosRole(q, a, r)    == <<"position_app_role", q, a, r>>
PosPerm(q, p, m)    == <<"position_app_perm", q, p, m>>
Exists(q)           == <<"position", q>>
Active(q)           == <<"position_is_active", q>>
Multiple(q)         == <<"position_allows_multiple", q>>
Enabled(a)          == <<"app_is_active", a>>

RowsOfRole(r) ==
    {UserRole(u, a, r) : u \in Users, a \in Apps}
    \cup {RolePerm(r, p) : p \in Perms}
    \cup {PosRole(q, a, r) : q \in Positions, a \in Apps}

RowsOfPerm(p) ==
    {UserPerm(u, p, m) : u \in Users, m \in BOOLEAN}
    \cup {RolePerm(r, p) : r \in Roles}
    \cup {PosPerm(q, p, m) : q \in Positions, m \in BOOLEAN}

RowsOfPosition(q) ==
    {Holds(u, q) : u \in Users}
    \cup {PosRole(q, a, r) : a \in Apps, r \in Roles}
    \cup {PosPerm(q, p, m) : p \in Perms, m \in BOOLEAN}
    \cup {Exists(q), Active(q), Multiple(q)}

Rows == (UNION ({RowsOfRole(r) : r \in Roles} \cup {RowsOfPerm(p) : p \in Perms}
                \cup {RowsOfPosition(q) : q \in Positions}))
        \cup {Enabled(a) : a \in Apps}

ASSUME AuthzSeeds == GrantSeeds \subseteq SUBSET Rows

VARIABLES authzRegime, \* never changes
          grants,      \* the tables
          entry,       \* authz:v1:{kind}:{app}:{user}
          admin,       \* what each administrator's request is about to do
          fill,        \* what a protected request has computed and not stored
          authzBudget  \* what is left of the three bounds

avars == <<authzRegime, grants, entry, admin, fill, authzBudget>>

-----------------------------------------------------------------------------
(* The queries.                                                            *)

\* _active_position_filter: the assignments in force.  Its date window is left
\* out: the services write end_date only together with is_active = False, and an
\* assignment whose start_date lies ahead (positions.py:285) is granted here on
\* the day it is made, not on the day it starts
InForce(g, u) == {q \in Positions : Holds(u, q) \in g}

ActivePositions(g, u) == {q \in InForce(g, u) : Active(q) \in g}

\* user_roles_in_app
RolesIn(g, u, a) ==
    {r \in Roles : \/ UserRole(u, a, r) \in g
                   \/ \E q \in ActivePositions(g, u) : PosRole(q, a, r) \in g}

\* user_direct_perms_in_app and perms_via_roles
Granted(g, u, a) ==
    {p \in PermsOf[a] : \/ UserPerm(u, p, TRUE) \in g
                        \/ \E q \in ActivePositions(g, u) : PosPerm(q, p, TRUE) \in g
                        \/ \E r \in RolesIn(g, u, a) : RolePerm(r, p) \in g}

\* denied_perms_in_app: the positions it joins need not be active
Denied(g, u, a) ==
    {p \in PermsOf[a] : \/ UserPerm(u, p, FALSE) \in g
                        \/ \E q \in InForce(g, u) : PosPerm(q, p, FALSE) \in g}

\* effective_perm_set
Effective(g, u, a) == Granted(g, u, a) \ Denied(g, u, a)

\* has_any_assignment: the positions it joins need not be active either
HasAssignment(g, u, a) ==
    \/ \E r \in Roles : UserRole(u, a, r) \in g
    \/ \E p \in PermsOf[a] : UserPerm(u, p, TRUE) \in g
    \/ \E q \in InForce(g, u) : \/ \E r \in Roles : PosRole(q, a, r) \in g
                                \/ \E p \in PermsOf[a] : PosPerm(q, p, TRUE) \in g

Keys == {"roles", "perms", "has"} \X Apps \X Users

Answer(g, key) ==
    CASE key[1] = "roles" -> RolesIn(g, key[3], key[2])
      [] key[1] = "perms" -> Effective(g, key[3], key[2])
      [] key[1] = "has"   -> HasAssignment(g, key[3], key[2])

-----------------------------------------------------------------------------
(* The requests of administrators.                                         *)

UserAppKeys(u, a) == {key \in Keys : key[2] = a /\ key[3] = u}  \* invalidate_user_app

\* mutant: a position is believed to matter for permissions only
PermKeys(u) == {key \in Keys : key[1] = "perms" /\ key[3] = u}

UserKeys(u) == {key \in Keys : key[3] = u}                      \* invalidate_user

\* then: the user that transfer_position assigns once the other one is removed
Idle == [at |-> "idle"]

\* nothing is between what it read and what it will write
NobodyReads ==
    \/ authzRegime = "overlap"
    \/ fill = NoEntry /\ \A t \in Admins : admin[t].at # "checked"

(***************************************************************************)
(* The checks of a handler passed: it will insert the rows of add, unless  *)
(* one of clash is there by then; update or delete those of del, unless    *)
(* one of need is gone by then; and delete the entries of bust.            *)
(***************************************************************************)
Checked(s, need, clash, del, add, bust, then) ==
    /\ admin' = [admin EXCEPT ![s] =
          [at |-> "checked", need |-> need, clash |-> clash, del |-> del, add |-> add,
           bust |-> bust, then |-> then]]
    /\ authzBudget' = [authzBudget EXCEPT !.changes = @ - 1]
    /\ UNCHANGED <<authzRegime, grants, entry, fill>>

Inserts(s, row, bust) == Checked(s, {}, {row}, {}, {row}, bust, {})
Deletes(s, rows, bust) == Checked(s, {}, {}, rows, {}, bust, {})

MayStart(s) == admin[s].at = "idle" /\ authzBudget.changes > 0 /\ NobodyReads

GrantRole(s) ==
    \E u \in Users, a \in Apps, r \in Roles :
        /\ MayStart(s) /\ Enabled(a) \in grants /\ UserRole(u, a, r) \notin grants
        /\ Inserts(s, UserRole(u, a, r), UserAppKeys(u, a))

RevokeRole(s) ==
    \E u \in Users, a \in Apps, r \in Roles :
        /\ MayStart(s) /\ Enabled(a) \in grants /\ UserRole(u, a, r) \in grants
        /\ Deletes(s, {UserRole(u, a, r)}, UserAppKeys(u, a))

\* a row with the other mark is updated, else one is inserted
GrantPerm(s) ==
    \E u \in Users, a \in Apps : \E p \in PermsOf[a], m \in BOOLEAN :
        LET other == UserPerm(u, p, ~ m) IN
        /\ MayStart(s) /\ Enabled(a) \in grants /\ UserPerm(u, p, m) \notin grants
        /\ Checked(s, {other} \cap grants, {UserPerm(u, p, m)} \cup ({other} \ grants),
                   {other}, {UserPerm(u, p, m)}, UserAppKeys(u, a), {})

RevokePerm(s) ==
    \E u \in Users, a \in Apps : \E p \in PermsOf[a] :
        LET rows == {UserPerm(u, p, m) : m \in BOOLEAN} IN
        /\ MayStart(s) /\ Enabled(a) \in grants /\ rows \cap grants # {}
        /\ Deletes(s, rows, UserAppKeys(u, a))

MayAssign(u, q) ==
    /\ Exists(q) \in grants /\ Holds(u, q) \notin grants
    /\ Multiple(q) \notin grants => \A v \in Users : Holds(v, q) \notin grants

\* assign_user_to_position: the position need not be active
AssignsUser(s, u, q) ==
    /\ MayAssign(u, q)
    /\ Checked(s, {Exists(q)}, {Holds(u, q)}, {}, {Holds(u, q)}, UserKeys(u), {})

AssignUser(s) ==
    \E u \in Users, q \in Positions : MayStart(s) /\ AssignsUser(s, u, q)

RemoveUser(s) ==
    \E u \in Users, q \in Positions :
        /\ MayStart(s) /\ Holds(u, q) \in grants
        /\ Deletes(s, {Holds(u, q)}, UserKeys(u))

\* transfer_position removes one user, in a commit of its own, and then
\* assigns the other one; the second part may be refused
TransferFrom(s) ==
    \E u, v \in Users, q \in Positions :
        /\ MayStart(s) /\ Holds(u, q) \in grants
        /\ Checked(s, {}, {}, {Holds(u, q)}, {}, UserKeys(u), {<<v, q>>})

TransferTo(s) ==
    /\ admin[s].at = "second" /\ authzBudget.changes > 0 /\ NobodyReads
    /\ AssignsUser(s, admin[s].user, admin[s].position)

TransferRefused(s) ==
    /\ admin[s].at = "second"
    /\ authzBudget.changes = 0 \/ ~ MayAssign(admin[s].user, admin[s].position)
    /\ admin' = [admin EXCEPT ![s] = Idle]
    /\ UNCHANGED <<authzRegime, grants, entry, fill, authzBudget>>

\* update_position with is_active or with allows_multiple; only the first
\* deletes entries
PatchPosition(s) ==
    \E q \in Positions, on \in BOOLEAN :
        /\ MayStart(s) /\ Exists(q) \in grants
        /\ \/ /\ (Active(q) \in grants) # on
              /\ Checked(s, {Exists(q)}, {}, {Active(q)}, IF on THEN {Active(q)} ELSE {},
                         Keys, {})
           \/ /\ (Multiple(q) \in grants) # on
              /\ Checked(s, {Exists(q)}, {}, {Multiple(q)}, IF on THEN {Multiple(q)} ELSE {},
                         {}, {})

\* refused while the position has active users
DeletePosition(s) ==
    \E q \in Positions :
        /\ MayStart(s) /\ Exists(q) \in grants
        /\ \A u \in Users : Holds(u, q) \notin grants
        /\ Checked(s, {Exists(q)}, {}, RowsOfPosition(q), {}, Keys, {})

AssignRoleToPosition(s) ==
    \E q \in Positions, a \in Apps, r \in Roles :
        /\ MayStart(s) /\ Enabled(a) \in grants /\ PosRole(q, a, r) \notin grants
        /\ Checked(s, {Exists(q)}, {PosRole(q, a, r)}, {}, {PosRole(q, a, r)}, Keys, {})

RemoveRoleFromPosition(s) ==
    \E q \in Positions, a \in Apps, r \in Roles :
        /\ MayStart(s) /\ Enabled(a) \in grants /\ PosRole(q, a, r) \in grants
        /\ Deletes(s, {PosRole(q, a, r)}, Keys)

SetPositionPerm(s) ==
    \E q \in Positions, a \in Apps : \E p \in PermsOf[a], m \in BOOLEAN :
        LET other == PosPerm(q, p, ~ m) IN
        /\ MayStart(s) /\ Enabled(a) \in grants /\ PosPerm(q, p, m) \notin grants
        /\ Checked(s, {Exists(q)} \cup ({other} \cap grants),
                   {PosPerm(q, p, m)} \cup ({other} \ grants),
                   {other}, {PosPerm(q, p, m)}, Keys, {})

RemovePositionPerm(s) ==
    \E q \in Positions, a \in Apps : \E p \in PermsOf[a] :
        LET rows == {PosPerm(q, p, m) : m \in BOOLEAN} IN
        /\ MayStart(s) /\ Enabled(a) \in grants /\ rows \cap grants # {}
        /\ Deletes(s, rows, Keys)

AddRolePerm(s) ==
    \E a \in Apps, r \in Roles : \E p \in PermsOf[a] :
        /\ MayStart(s) /\ Enabled(a) \in grants /\ RolePerm(r, p) \notin grants
        /\ Inserts(s, RolePerm(r, p), Keys)

RemoveRolePerm(s) ==
    \E a \in Apps, r \in Roles : \E p \in PermsOf[a] :
        /\ MayStart(s) /\ Enabled(a) \in grants /\ RolePerm(r, p) \in grants
        /\ Deletes(s, {RolePerm(r, p)}, Keys)

\* replace_role_perms: the DELETE and the INSERTs are one commit
ReplaceRolePerms(s) ==
    \E a \in Apps, r \in Roles : \E new \in SUBSET PermsOf[a] :
        /\ MayStart(s) /\ Enabled(a) \in grants
        /\ Checked(s, {}, {}, {RolePerm(r, p) : p \in PermsOf[a]},
                   {RolePerm(r, p) : p \in new}, Keys, {})

\* the cascades; what is deleted may be created again under its name
DeleteRole(s) ==
    \E r \in Roles : MayStart(s) /\ Deletes(s, RowsOfRole(r), Keys)

DeletePerm(s) ==
    \E a \in Apps : \E p \in PermsOf[a] :
        MayStart(s) /\ Enabled(a) \in grants /\ Deletes(s, RowsOfPerm(p), Keys)

\* update_app deletes no entry
PatchApp(s) ==
    \E a \in Apps :
        /\ MayStart(s)
        /\ Checked(s, {}, {}, {Enabled(a)}, {Enabled(a)} \ grants, {}, {})

-----------------------------------------------------------------------------
Lands(op) == op.need \subseteq grants /\ op.clash \cap grants = {}

Commit(s) ==
    /\ admin[s].at = "checked" /\ Lands(admin[s])
    /\ grants' = (grants \ admin[s].del) \cup admin[s].add
    /\ admin' = [admin EXCEPT ![s].at = "committed"]
    /\ UNCHANGED <<authzRegime, entry, fill, authzBudget>>

\* an IntegrityError or a row that is gone: rolled back, nothing deleted
RollBack(s) ==
    /\ admin[s].at = "checked"
    /\ ~ Lands(admin[s])
    /\ admin' = [admin EXCEPT ![s] = Idle]
    /\ UNCHANGED <<authzRegime, grants, entry, fill, authzBudget>>

Next2(op) ==
    IF op.then = {} THEN Idle
    ELSE LET to == CHOOSE x \in op.then : TRUE
         IN  [at |-> "second", user |-> to[1], position |-> to[2]]

\* _bust_user_app, _bust_user, _bust_all
Bust(s) ==
    /\ admin[s].at = "committed"
    /\ entry' = [key \in Keys |-> IF key \in admin[s].bust THEN NoEntry ELSE entry[key]]
    /\ admin' = [admin EXCEPT ![s] = Next2(admin[s])]
    /\ UNCHANGED <<authzRegime, grants, fill, authzBudget>>

BustFails(s) ==
    /\ admin[s].at = "committed" /\ authzBudget.faults > 0
    /\ admin' = [admin EXCEPT ![s] = Next2(admin[s])]
    /\ authzBudget' = [authzBudget EXCEPT !.faults = @ - 1]
    /\ UNCHANGED <<authzRegime, grants, entry, fill>>

-----------------------------------------------------------------------------
(* _get_or_set on a miss.  The denials are a query of their own, after the *)
(* grants.                                                                 *)

Compute ==
    /\ fill = NoEntry /\ authzBudget.fills > 0 /\ NobodyReads
    /\ \E key \in Keys :
        /\ entry[key] = NoEntry /\ Enabled(key[2]) \in grants
        /\ fill' = [key |-> key, done |-> key[1] # "perms",
                    value |-> IF key[1] = "perms" THEN Granted(grants, key[3], key[2])
                              ELSE Answer(grants, key)]
    /\ authzBudget' = [authzBudget EXCEPT !.fills = @ - 1]
    /\ UNCHANGED <<authzRegime, grants, entry, admin>>

ComputeDenied ==
    /\ fill # NoEntry /\ ~ fill.done
    /\ fill' = [fill EXCEPT !.done = TRUE,
                            !.value = @ \ Denied(grants, fill.key[3], fill.key[2])]
    /\ UNCHANGED <<authzRegime, grants, entry, admin, authzBudget>>

Store ==
    /\ fill # NoEntry /\ fill.done
    /\ entry' = [entry EXCEPT ![fill.key] = fill.value]
    /\ fill' = NoEntry
    /\ UNCHANGED <<authzRegime, grants, admin, authzBudget>>

\* mutant: the entry is stored without its time to live
KeepsEntries == FALSE

\* setex: AUTHZ_CACHE_TTL has passed
Expire ==
    /\ \E key \in Keys :
        /\ entry[key] # NoEntry
        /\ entry' = [entry EXCEPT ![key] = NoEntry]
    /\ UNCHANGED <<authzRegime, grants, admin, fill, authzBudget>>

AuthzInit ==
    /\ authzRegime \in AuthzRegimes
    /\ grants \in GrantSeeds
    /\ entry = [key \in Keys |-> NoEntry]
    /\ admin = [s \in Admins |-> Idle]
    /\ fill = NoEntry
    /\ authzBudget = [changes |-> GrantChanges, fills |-> CacheFills, faults |-> CacheFaults]

AdminStep(s) ==
    \/ GrantRole(s) \/ RevokeRole(s) \/ GrantPerm(s) \/ RevokePerm(s)
    \/ AssignUser(s) \/ RemoveUser(s)
    \/ TransferFrom(s) \/ TransferTo(s) \/ TransferRefused(s)
    \/ PatchPosition(s) \/ DeletePosition(s)
    \/ AssignRoleToPosition(s) \/ RemoveRoleFromPosition(s)
    \/ SetPositionPerm(s) \/ RemovePositionPerm(s)
    \/ AddRolePerm(s) \/ RemoveRolePerm(s) \/ ReplaceRolePerms(s)
    \/ DeleteRole(s) \/ DeletePerm(s) \/ PatchApp(s)
    \/ Commit(s) \/ RollBack(s) \/ Bust(s) \/ BustFails(s)

AuthzNext ==
    \/ \E s \in Admins : AdminStep(s)
    \/ Compute \/ ComputeDenied \/ Store \/ Expire

\* a request runs to its end; Redis drops an entry when its time is over
AuthzFairness ==
    /\ \A s \in Admins : WF_avars(Bust(s) \/ BustFails(s))
    /\ WF_avars(ComputeDenied \/ Store)
    /\ WF_avars(Expire)

AuthzSpec == AuthzInit /\ [][AuthzNext]_avars /\ AuthzFairness

-----------------------------------------------------------------------------
IsTrue(key) == entry[key] = NoEntry \/ entry[key] = Answer(grants, key)

(***************************************************************************)
(* Whatever an administrator changes, the entries that no longer say what  *)
(* the tables say are among those his request is about to delete: no path  *)
(* of the API forgets an entry it makes stale (authz_cache.py:26).         *)
(***************************************************************************)
EntriesFollowGrants ==
    (authzRegime = "turns" /\ authzBudget.faults = CacheFaults) =>
        \A key \in Keys :
            Enabled(key[2]) \in grants =>
                \/ IsTrue(key)
                \/ \E s \in Admins : admin[s].at = "committed" /\ key \in admin[s].bust

(***************************************************************************)
(* A value computed before a change and stored after the deletion, or a    *)
(* deletion Redis lost, does not last: in the end every request is         *)
(* answered from what the tables say.                                      *)
(***************************************************************************)
AuthzSettles ==
    <>[](\A key \in Keys :
            \/ entry[key] = NoEntry
            \/ Enabled(key[2]) \in grants /\ entry[key] = Answer(grants, key))
=============================================================================
