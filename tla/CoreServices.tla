---------------------------- MODULE CoreServices ----------------------------
(***************************************************************************)
(* The services of src/itcj2/core and src/itcj2/tasks whose requests must  *)
(* also end: the tree of departments and its cached map, the sessions of   *)
(* an account, and the background tasks.  They share no row and no key, so *)
(* that an interleaving of two of them shows nothing that each of them     *)
(* does not show alone: an execution runs one of them, and the others stay *)
(* in an initial state.                                                    *)
(***************************************************************************)
EXTENDS MCDepartments, UserSessions, TaskRuns

VARIABLE service   \* the one that runs

corevars == <<service, dvars, svars, tvars>>

\* of the initial states of a service that does not run one is enough
Still ==
    /\ service # "departments" => deptRegime = "overlap" /\ \A d \in Depts : deptState[d] = "active"
    /\ service # "sessions" => sessionRegime = "steady"

CoreInit ==
    /\ service \in {"departments", "sessions", "tasks"}
    /\ DeptInit /\ SessionInit /\ TaskInit
    /\ Still

CoreNext ==
    \/ service = "departments" /\ DeptNext /\ UNCHANGED <<service, svars, tvars>>
    \/ service = "sessions" /\ SessionNext /\ UNCHANGED <<service, dvars, tvars>>
    \/ service = "tasks" /\ TaskNext /\ UNCHANGED <<service, dvars, svars>>

CoreSpec ==
    /\ CoreInit /\ [][CoreNext]_corevars
    /\ DeptFairness /\ SessionFairness /\ TaskFairness
=============================================================================
