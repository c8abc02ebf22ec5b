-------------------------- MODULE MCAuthorization --------------------------
(* A small instance of Authorization for TLC. *)
EXTENDS Authorization, TLC

CONSTANTS u1, u2, r, q, a1, a2, p1

\* the second app has no permission of its own
AppPerms == a1 :> {p1} @@ a2 :> {}

\* a position with its role, held by u1; u2 with the role and a denial
Seeds ==
    {{Enabled(a1), Enabled(a2), Exists(q), Active(q), RolePerm(r, p1),
      Holds(u1, q), PosRole(q, a1, r), UserRole(u2, a1, r), UserPerm(u2, p1, FALSE)}}

=============================================================================
