--------------------------- MODULE MCDepartments ---------------------------
(* A small instance of Departments for TLC. *)
EXTENDS Departments, TLC

CONSTANTS d1, d2, d3

\* a chain of three active departments; two of them, with room for a third
Seeds ==
    {[parent |-> d1 :> NoDept @@ d2 :> d1 @@ d3 :> d2,
      deptState |-> [d \in Depts |-> "active"]],
     [parent |-> d1 :> NoDept @@ d2 :> d1 @@ d3 :> NoDept,
      deptState |-> d1 :> "active" @@ d2 :> "active" @@ d3 :> "absent"]}

=============================================================================
