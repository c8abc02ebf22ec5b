---------------------------- MODULE Departments ----------------------------
(***************************************************************************)
(* The tree of departments (core/services/departments_service.py,          *)
(* hierarchy_service.py) and the map of descendants that                   *)
(* scope_service.py reads through a Redis entry (authz_cache.py).           *)
(*                                                                         *)
(* A PATCH validates the new parent against the tree it reads, writes the  *)
(* columns it was given at commit, and only then deletes the cached map.   *)
(* A reader that finds no entry computes the map and stores it afterwards. *)
(* "turns" lets one PATCH and no fill run at a time up to its commit;      *)
(* "overlap" lets them mix.                                                *)
(***************************************************************************)
EXTENDS Naturals, FiniteSets

CONSTANTS Depts,        \* departments that may exist
          Editors,      \* concurrent requests that create or patch one
          NoDept,       \* a null parent_id
          Unset,        \* a field absent from the PATCH; no entry in Redis
          DeptSeeds,    \* trees the seed scripts may leave: [parent, deptState]
          DeptChanges,  \* bound on the number of commits
          DeptRegimes   \* the regimes an execution may pick at the start

DeptStates == {"absent", "active", "inactive"}

ASSUME DeptConstants ==
    /\ NoDept \notin Depts /\ Unset \notin Depts /\ NoDept # Unset
    /\ Unset \notin DeptStates
    /\ DeptSeeds \subseteq [parent : [Depts -> Depts \union {NoDept}],
                            deptState : [Depts -> DeptStates]]
    /\ \A seed \in DeptSeeds : \A d \in Depts :    \* parent_id is a foreign key
          seed.parent[d] \in Depts => seed.deptState[seed.parent[d]] # "absent"
    /\ DeptChanges \in Nat
    /\ DeptRegimes \subseteq {"turns", "overlap"} /\ DeptRegimes # {}

VARIABLES deptRegime, \* never changes
          parent,     \* parent_id
          deptState,  \* is_active, or "absent" before the INSERT
          deptMap,    \* authz:v1:deptmap
          editor,     \* what each request is about to do
          filler,     \* the map a reader computed and has not stored yet
          deptBudget  \* commits left

dvars == <<deptRegime, parent, deptState, deptMap, editor, filler, deptBudget>>

ActiveDepts == {d \in Depts : deptState[d] = "active"}

\* the rows the recursive query joins to those of s, both active
ChildrenOf(s) == {c \in ActiveDepts : parent[c] \in s}

\* the active departments the query reaches from d: the least set that holds the
\* children of d and of its own members (its _MAX_DEPTH of 32 levels is left out)
DescendantsOf(d) ==
    {c \in ActiveDepts :
        \A s \in SUBSET ActiveDepts : ChildrenOf(s \union {d}) \subseteq s => c \in s}

DescendantsMap == [d \in ActiveDepts |-> {d} \union DescendantsOf(d)]

Patches == [kind : {"patch"}, d : Depts,
            up : Depts \union {NoDept, Unset}, on : {"active", "inactive", Unset}]
Creations == [kind : {"create"}, d : Depts, up : Depts \union {NoDept}]

IdleEditor == [at |-> "idle"]

\* nothing else has read and not yet written
AloneBut(e) ==
    \/ deptRegime = "overlap"
    \/ /\ filler = Unset
       /\ \A f \in Editors \ {e} : editor[f].at # "validated"

ParentUsable(p) == p = NoDept \/ p \in ActiveDepts

\* mutant: only the children of d are refused
RefusesChildren(d, p) == p # d /\ ParentUsable(p) /\ parent[p] # d

MayHangFrom(d, p) ==
    /\ p # d /\ ParentUsable(p)
    /\ deptState[d] = "active" => p \notin DescendantsOf(d)

(***************************************************************************)
(* create_department: the code is free and the parent is active.           *)
(***************************************************************************)
ReadToCreate(e) ==
    /\ editor[e].at = "idle" /\ deptBudget > 0
    /\ \E c \in Creations :
        /\ deptState[c.d] = "absent" /\ ParentUsable(c.up)
        /\ editor' = [editor EXCEPT ![e] = [at |-> "validated", op |-> c]]
    /\ UNCHANGED <<deptRegime, parent, deptState, deptMap, filler, deptBudget>>

(***************************************************************************)
(* update_department: a new parent must be another active department that  *)
(* the query of descendants does not return.  That query does not walk     *)
(* through inactive departments.  A field equal to the stored one is not   *)
(* written, so that only fields that change are enumerated.                *)
(***************************************************************************)
ReadToPatch(e) ==
    /\ editor[e].at = "idle" /\ deptBudget > 0
    /\ \E c \in Patches :
        /\ deptState[c.d] # "absent"
        /\ c.up # parent[c.d] /\ c.on # deptState[c.d]
        /\ c.up # Unset \/ c.on # Unset
        /\ c.up \in Depts => MayHangFrom(c.d, c.up)
        /\ editor' = [editor EXCEPT ![e] = [at |-> "validated", op |-> c]]
    /\ UNCHANGED <<deptRegime, parent, deptState, deptMap, filler, deptBudget>>

WrittenParent(c) ==
    IF c.up = Unset THEN parent ELSE [parent EXCEPT ![c.d] = c.up]

WrittenState(c) ==
    IF c.kind = "create" THEN [deptState EXCEPT ![c.d] = "active"]
    ELSE IF c.on = Unset THEN deptState
    ELSE [deptState EXCEPT ![c.d] = c.on]

\* the code column is unique: of two concurrent creations one fails
CodeTaken(c) == c.kind = "create" /\ deptState[c.d] # "absent"

CommitDept(e) ==
    /\ editor[e].at = "validated" /\ AloneBut(e) /\ deptBudget > 0
    /\ ~ CodeTaken(editor[e].op)
    /\ parent' = WrittenParent(editor[e].op)
    /\ deptState' = WrittenState(editor[e].op)
    /\ editor' = [editor EXCEPT ![e] = [at |-> "committed"]]
    /\ deptBudget' = deptBudget - 1
    /\ UNCHANGED <<deptRegime, deptMap, filler>>

\* the INSERT is refused, or the process ends before its commit
AbandonDept(e) ==
    /\ editor[e].at = "validated"
    /\ CodeTaken(editor[e].op) \/ deptBudget = 0
    /\ editor' = [editor EXCEPT ![e] = IdleEditor]
    /\ UNCHANGED <<deptRegime, parent, deptState, deptMap, filler, deptBudget>>

\* mutant: the cached map survives the commit
KeepsDeptMap(e) ==
    /\ editor[e].at = "committed"
    /\ editor' = [editor EXCEPT ![e] = IdleEditor]
    /\ UNCHANGED <<deptRegime, parent, deptState, deptMap, filler, deptBudget>>

\* _bust_dept_map, after the commit
BustDeptMap(e) ==
    /\ editor[e].at = "committed"
    /\ deptMap' = Unset
    /\ editor' = [editor EXCEPT ![e] = IdleEditor]
    /\ UNCHANGED <<deptRegime, parent, deptState, filler, deptBudget>>

(***************************************************************************)
(* cached_descendants_map on a miss, and the expiry of its entry.          *)
(***************************************************************************)
ComputeMap ==
    /\ filler = Unset /\ deptMap = Unset
    /\ filler' = DescendantsMap
    /\ UNCHANGED <<deptRegime, parent, deptState, deptMap, editor, deptBudget>>

StoreMap ==
    /\ filler # Unset
    /\ deptMap' = filler
    /\ filler' = Unset
    /\ UNCHANGED <<deptRegime, parent, deptState, editor, deptBudget>>

\* mutant: the entry is stored without an expiry
NeverExpires == FALSE

ExpireMap ==
    /\ deptMap # Unset
    /\ deptMap' = Unset
    /\ UNCHANGED <<deptRegime, parent, deptState, editor, filler, deptBudget>>

DeptInit ==
    /\ deptRegime \in DeptRegimes
    /\ \E seed \in DeptSeeds : parent = seed.parent /\ deptState = seed.deptState
    /\ deptMap = Unset /\ filler = Unset
    /\ editor = [e \in Editors |-> IdleEditor]
    /\ deptBudget = DeptChanges

DeptNext ==
    \/ \E e \in Editors : \/ ReadToCreate(e)
                          \/ ReadToPatch(e)
                          \/ CommitDept(e)
                          \/ AbandonDept(e)
                          \/ BustDeptMap(e)
    \/ ComputeMap
    \/ StoreMap
    \/ ExpireMap

\* a request runs to its end; Redis drops an entry when its time is over
DeptFairness ==
    /\ \A e \in Editors : WF_dvars(BustDeptMap(e))
    /\ WF_dvars(StoreMap)
    /\ WF_dvars(ExpireMap)

DeptSpec == DeptInit /\ [][DeptNext]_dvars /\ DeptFairness

-----------------------------------------------------------------------------
DeptTypeOK ==
    /\ deptRegime \in DeptRegimes
    /\ parent \in [Depts -> Depts \union {NoDept}]
    /\ deptState \in [Depts -> DeptStates]
    /\ \A d \in Depts : parent[d] \in Depts => deptState[parent[d]] # "absent"
    /\ \A e \in Editors : editor[e].at \in {"idle", "validated", "committed"}
    /\ deptBudget \in 0 .. DeptChanges

MapCurrent == deptMap = Unset \/ deptMap = DescendantsMap

(***************************************************************************)
(* The cached map that decides which departments a user sees is the map of *)
(* the tree, except between a commit and the deletion that follows it      *)
(* (every path that writes the tree reaches _bust_dept_map).               *)
(***************************************************************************)
MapFollowsTree ==
    deptRegime = "turns" =>
        MapCurrent \/ \E e \in Editors : editor[e].at = "committed"

\* some active department is its own descendant
ActiveCycle == \E d \in ActiveDepts : d \in DescendantsOf(d)

(***************************************************************************)
(* "No permitir anclar el dept bajo uno de sus propios descendientes"      *)
(* (departments_service.py:133): the departments in use form a forest.     *)
(***************************************************************************)
ActiveForest == deptRegime = "turns" => ~ ActiveCycle

(***************************************************************************)
(* What the guard of update_department does achieve: no PATCH closes a     *)
(* cycle, unless it activates a department that was inactive.              *)
(***************************************************************************)
CyclesOnlyByActivation ==
    [][deptRegime = "turns" /\ ~ ActiveCycle /\ ActiveCycle'
         => \E d \in Depts : deptState[d] = "inactive" /\ deptState'[d] = "active"]_dvars

(***************************************************************************)
(* Even when a map computed before a commit is stored after the deletion,  *)
(* the entry expires and what is served is the tree again.                 *)
(***************************************************************************)
MapSettles == <>[]MapCurrent

=============================================================================
