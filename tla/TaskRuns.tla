------------------------------ MODULE TaskRuns ------------------------------
(***************************************************************************)
(* Background tasks: the row TaskRun that the API or Beat commits before   *)
(* it queues the message (core/api/tasks.py, tasks/scheduler.py), the      *)
(* hooks of LoggedTask that follow the execution (tasks/base.py) and the   *)
(* cancellation of a run.  Celery is external: acknowledgement after the   *)
(* task (task_acks_late), redelivery of what a dead worker held, revoked   *)
(* ids broadcast to the workers, which keep them in memory, and the loss   *)
(* of a child of a worker's pool, which executes the task and its hooks:   *)
(* celery_app.py does not set task_reject_on_worker_lost, so the worker    *)
(* acknowledges the message of the child.                                  *)
(*                                                                         *)
(* The copies of a message are told apart by their run only: every one     *)
(* carries the same task id.                                               *)
(***************************************************************************)
EXTENDS Naturals, FiniteSets

CONSTANTS Runs, Workers,
          NoRun,           \* what an idle worker holds
          MaxCrashes,      \* bound: workers that die, or children of their pools
          MaxFaults,       \* bound: refused messages and refused updates of a row
          MaxRetries,      \* bound: retries of a run (max_retries bounds those of one copy)
          MaxRevokes       \* bound: cancellations

ASSUME TaskNames == NoRun \notin Runs
ASSUME TaskBounds ==
    /\ MaxCrashes \in Nat /\ MaxFaults \in Nat
    /\ MaxRetries \in Nat /\ MaxRevokes \in Nat

VARIABLES taskRun,     \* [status, trigger, known]: known, the row has the id of the message
          sender,      \* "pending" between the commit of the row and the message
          queued,      \* copies of the message in the broker
          worker,      \* [run, step]
          tries,       \* retries the run has had
          notice,      \* revoked ids on their way to a worker
          refused,     \* revoked ids a worker remembers
          canceling,   \* revoke_run between the broadcast and its commit
          abandoned,   \* history: runs that lost the child executing them
          taskBudget

tvars == <<taskRun, sender, queued, worker, tries, notice, refused, canceling, abandoned, taskBudget>>

Ended == {"SUCCESS", "FAILURE", "REVOKED"}
IdleWorker == [run |-> NoRun, step |-> "idle"]

Charge(what) ==
    /\ taskBudget[what] > 0
    /\ taskBudget' = [taskBudget EXCEPT ![what] = @ - 1]

-----------------------------------------------------------------------------
\* dispatch_task and apply_entry commit the row; the API hands its id to
\* the broker too, Beat does not
CreateRun(r, trigger) ==
    /\ taskRun[r].status = "absent"
    /\ taskRun' = [taskRun EXCEPT ![r] =
          [status |-> "PENDING", trigger |-> trigger, known |-> trigger = "MANUAL"]]
    /\ sender' = [sender EXCEPT ![r] = "pending"]
    /\ UNCHANGED <<queued, worker, tries, notice, refused, canceling, abandoned, taskBudget>>

Enqueue(r) ==
    /\ sender[r] = "pending"
    /\ sender' = [sender EXCEPT ![r] = "done"]
    /\ queued' = [queued EXCEPT ![r] = @ + 1]
    /\ UNCHANGED <<taskRun, worker, tries, notice, refused, canceling, abandoned, taskBudget>>

\* the broker refuses, or the row is not handed over: Beat logs it, the API
\* answers 500, and the row stays
EnqueueFails(r) ==
    /\ sender[r] = "pending"
    /\ Charge("faults")
    /\ sender' = [sender EXCEPT ![r] = "done"]
    /\ UNCHANGED <<taskRun, queued, worker, tries, notice, refused, canceling, abandoned>>

-----------------------------------------------------------------------------
(* A worker.  The broker keeps a copy until the worker acknowledges it.    *)

Receive(w, r) ==
    /\ worker[w].step = "idle" /\ queued[r] > 0
    /\ queued' = [queued EXCEPT ![r] = @ - 1]
    /\ worker' = [worker EXCEPT ![w] =
          IF r \in refused[w] THEN IdleWorker ELSE [run |-> r, step |-> "received"]]
    /\ UNCHANGED <<taskRun, sender, tries, notice, refused, canceling, abandoned, taskBudget>>

\* before_start looks at no status
Running(r) == [taskRun EXCEPT ![r].status = "RUNNING", ![r].known = TRUE]

\* _update_run swallows its errors
Written(rows) ==
    \/ taskRun' = rows /\ UNCHANGED taskBudget
    \/ UNCHANGED taskRun /\ Charge("faults")

BeforeStart(w) ==
    /\ worker[w].step = "received"
    /\ Written(Running(worker[w].run))
    /\ worker' = [worker EXCEPT ![w].step = "body"]
    /\ UNCHANGED <<sender, queued, tries, notice, refused, canceling, abandoned>>

BodyEnds(w) ==
    /\ worker[w].step = "body"
    /\ worker' = [worker EXCEPT ![w].step = "succeeded"]
    /\ UNCHANGED <<taskRun, sender, queued, tries, notice, refused, canceling, abandoned, taskBudget>>

BodyRaises(w) ==
    /\ worker[w].step = "body"
    /\ worker' = [worker EXCEPT ![w].step = "failed"]
    /\ UNCHANGED <<taskRun, sender, queued, tries, notice, refused, canceling, abandoned, taskBudget>>

Requeued(r) == [queued EXCEPT ![r] = @ + 1]

\* mutant: every attempt starts counting again
Uncounted(r) == tries

Attempted(r) == [tries EXCEPT ![r] = @ + 1]

\* self.retry publishes the next attempt; on_retry leaves the status
Retry(w) ==
    LET r == worker[w].run
    IN /\ worker[w].step = "body" /\ tries[r] < MaxRetries
       /\ tries' = Attempted(r)
       /\ queued' = Requeued(r)
       /\ worker' = [worker EXCEPT ![w].step = "finished"]
       /\ UNCHANGED <<taskRun, sender, notice, refused, canceling, abandoned, taskBudget>>

\* on_success
OnSuccess(w) ==
    /\ worker[w].step = "succeeded"
    /\ Written([taskRun EXCEPT ![worker[w].run].status = "SUCCESS"])
    /\ worker' = [worker EXCEPT ![w].step = "finished"]
    /\ UNCHANGED <<sender, queued, tries, notice, refused, canceling, abandoned>>

\* on_failure
OnFailure(w) ==
    /\ worker[w].step = "failed"
    /\ Written([taskRun EXCEPT ![worker[w].run].status = "FAILURE"])
    /\ worker' = [worker EXCEPT ![w].step = "finished"]
    /\ UNCHANGED <<sender, queued, tries, notice, refused, canceling, abandoned>>

Acknowledge(w) ==
    /\ worker[w].step = "finished"
    /\ worker' = [worker EXCEPT ![w] = IdleWorker]
    /\ UNCHANGED <<taskRun, sender, queued, tries, notice, refused, canceling, abandoned, taskBudget>>

\* mutant: task_acks_late = False, a copy is acknowledged when it is received
AcksEarly(w) == queued

\* task_acks_late: the copy a worker held is delivered again when the whole
\* worker (its main process, its container) is gone
Redelivered(w) ==
    IF worker[w].run \in Runs THEN [queued EXCEPT ![worker[w].run] = @ + 1] ELSE queued

WorkerDies(w) ==
    /\ Charge("crashes")
    /\ queued' = Redelivered(w)
    /\ worker' = [worker EXCEPT ![w] = IdleWorker]
    /\ notice' = [notice EXCEPT ![w] = {}]
    /\ refused' = [refused EXCEPT ![w] = {}]
    /\ UNCHANGED <<taskRun, sender, tries, canceling, abandoned>>

\* the pool loses the child (out of memory, or the hard time_limit of a task):
\* no hook runs any more, and the worker acknowledges the message (once the
\* hooks are done that is Acknowledge)
ChildLost(w) ==
    /\ worker[w].step \in {"received", "body", "succeeded", "failed"}
    /\ Charge("crashes")
    /\ worker' = [worker EXCEPT ![w] = IdleWorker]
    /\ abandoned' = abandoned \cup {worker[w].run}
    /\ UNCHANGED <<taskRun, sender, queued, tries, notice, refused, canceling>>

-----------------------------------------------------------------------------
\* revoke_run reads the row and broadcasts the id it has ...
Cancel(r) ==
    /\ taskRun[r].status \in {"PENDING", "RUNNING"} /\ canceling[r] # "sent"
    /\ Charge("revokes")
    /\ notice' = [w \in Workers |->
          IF taskRun[r].known THEN notice[w] \cup {r} ELSE notice[w]]
    /\ canceling' = [canceling EXCEPT ![r] = "sent"]
    /\ UNCHANGED <<taskRun, sender, queued, worker, tries, refused, abandoned>>

\* ... and then writes the status, whatever the row has become
CommitCancel(r) ==
    /\ canceling[r] = "sent"
    /\ taskRun' = [taskRun EXCEPT ![r].status = "REVOKED"]
    /\ canceling' = [canceling EXCEPT ![r] = "done"]
    /\ UNCHANGED <<sender, queued, worker, tries, notice, refused, abandoned, taskBudget>>

\* revoke(terminate=True): a worker executing the task kills its process and
\* acknowledges; no hook of the task runs
Heed(w, r) ==
    /\ r \in notice[w]
    /\ notice' = [notice EXCEPT ![w] = @ \ {r}]
    /\ refused' = [refused EXCEPT ![w] = @ \cup {r}]
    /\ worker' = [worker EXCEPT ![w] = IF @.run = r THEN IdleWorker ELSE @]
    /\ UNCHANGED <<taskRun, sender, queued, tries, canceling, abandoned, taskBudget>>

-----------------------------------------------------------------------------
TaskInit ==
    /\ taskRun = [r \in Runs |-> [status |-> "absent", trigger |-> "MANUAL", known |-> FALSE]]
    /\ sender = [r \in Runs |-> "idle"]
    /\ queued = [r \in Runs |-> 0]
    /\ worker = [w \in Workers |-> IdleWorker]
    /\ tries = [r \in Runs |-> 0]
    /\ notice = [w \in Workers |-> {}]
    /\ refused = [w \in Workers |-> {}]
    /\ canceling = [r \in Runs |-> "idle"]
    /\ abandoned = {}
    /\ taskBudget = [crashes |-> MaxCrashes, faults |-> MaxFaults, revokes |-> MaxRevokes]

WorkerStep(w) ==
    \/ \E r \in Runs : Receive(w, r)
    \/ BeforeStart(w) \/ BodyEnds(w) \/ BodyRaises(w) \/ Retry(w)
    \/ OnSuccess(w) \/ OnFailure(w) \/ Acknowledge(w)

TaskNext ==
    \/ \E r \in Runs :
          \/ CreateRun(r, "MANUAL") \/ CreateRun(r, "SCHEDULED")
          \/ Enqueue(r) \/ EnqueueFails(r)
          \/ Cancel(r) \/ CommitCancel(r)
    \/ \E w \in Workers :
          \/ WorkerStep(w) \/ WorkerDies(w) \/ ChildLost(w)
          \/ \E r \in Runs : Heed(w, r)

\* the request or Beat goes on to queue the message, and workers work
TaskFairness ==
    /\ \A r \in Runs : WF_tvars(Enqueue(r))
    /\ \A w \in Workers : WF_tvars(WorkerStep(w))

TaskSpec == TaskInit /\ [][TaskNext]_tvars /\ TaskFairness

-----------------------------------------------------------------------------
\* the shape of the state
TaskTypeOK ==
    /\ taskRun \in [Runs -> [status : {"absent", "PENDING", "RUNNING"} \cup Ended,
                             trigger : {"MANUAL", "SCHEDULED"}, known : BOOLEAN]]
    /\ sender \in [Runs -> {"idle", "pending", "done"}]
    /\ queued \in [Runs -> Nat]
    /\ worker \in [Workers -> {IdleWorker} \cup
          [run : Runs, step : {"received", "body", "succeeded", "failed", "finished"}]]
    /\ tries \in [Runs -> 0 .. MaxRetries]
    /\ notice \in [Workers -> SUBSET Runs] /\ refused \in [Workers -> SUBSET Runs]
    /\ canceling \in [Runs -> {"idle", "sent", "done"}] /\ abandoned \subseteq Runs
    /\ taskBudget \in [crashes : 0 .. MaxCrashes, faults : 0 .. MaxFaults, revokes : 0 .. MaxRevokes]

\* neither refused by the broker or the database nor canceled
Unrefused(r) == taskBudget.faults = MaxFaults /\ canceling[r] = "idle"

Untroubled(r) == Unrefused(r) /\ r \notin abandoned

HasCopy(r) == queued[r] > 0 \/ \E w \in Workers : worker[w].run = r

(***************************************************************************)
(* "Reconoce la tarea solo al terminar (resiste crashes)"                  *)
(* (celery_app.py:41), as far as it goes: a run shown as PENDING or        *)
(* RUNNING always has a message that will end it, also after a whole       *)
(* worker died, between a retry and its next attempt, and with the copies  *)
(* such a death duplicates, unless the broker or the database refused      *)
(* something, somebody canceled it, or a pool lost the child that was      *)
(* executing it: that loss is acknowledged.                                *)
(***************************************************************************)
InFlightHasMessage ==
    \A r \in Runs :
        (Untroubled(r) /\ taskRun[r].status \in {"PENDING", "RUNNING"}) =>
            sender[r] = "pending" \/ HasCopy(r)

\* the same of every crash, the loss of a child included
CrashesSurvived ==
    \A r \in Runs :
        (Unrefused(r) /\ taskRun[r].status \in {"PENDING", "RUNNING"}) =>
            sender[r] = "pending" \/ HasCopy(r)

(***************************************************************************)
(* A run with none of those troubles reaches an outcome and keeps one,     *)
(* though finished copies may execute again after a worker died, and turn  *)
(* it to RUNNING meanwhile.                                                *)
(***************************************************************************)
RunsEnd ==
    \A r \in Runs :
        [](taskRun[r].status # "absent" /\ [](Untroubled(r)) => <>[](taskRun[r].status \in Ended))

\* revoke_run "Cancela una tarea PENDING o RUNNING" (core/api/tasks.py:408):
\* a canceled run stays canceled
RevokedStaysRevoked ==
    [][\A r \in Runs : taskRun[r].status = "REVOKED" => taskRun'[r].status = "REVOKED"]_tvars
=============================================================================
