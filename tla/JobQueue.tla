------------------------------ MODULE JobQueue -------------------------------
(***************************************************************************)
(* Jobs on the queue: pkg/queue/client.go and pkg/queue/inspector.go.  The *)
(* payload of a task names its job (JobOf).  The task id Enqueue gives a   *)
(* new job is the job's id (FirstTask); every other task of a job is one   *)
(* an administrator's retry pushed under an id of its own.                 *)
(***************************************************************************)
EXTENDS JobRepository, TaskQueue

CONSTANTS JobOf, FirstTask,
          Inputs         \* the EnqueueJobInputs considered

ASSUME JobQueueAssumption ==
  /\ Inputs \subseteq [type: JobType, bad: BOOLEAN, max: Nat,
                       key: Keys \cup {NoKey}, later: BOOLEAN]
  /\ JobOf \in [Tasks -> Jobs]
  /\ FirstTask \in [Jobs -> Tasks]
  /\ \A j \in Jobs : JobOf[FirstTask[j]] = j

VARIABLE due             \* due[j]: the scheduled_at of job j has passed

TasksOf(j) == {t \in Tasks : JobOf[t] = j}

(* Mutant: without the option, asynq's own default. *)
MaxRetry_Default(t) == 25

(* asynq.MaxRetry(job.MaxRetries) of the task's job. *)
MaxRetry(t) == details[JobOf[t]].max

(* Mutant: no clamp. *)
WithBudget_Unclamped(in) == in

(* Enqueue's clamp: a job never has a budget below one attempt. *)
DefaultBudget  == 3
WithBudget(in) == IF in.max = 0 THEN [in EXCEPT !.max = DefaultBudget] ELSE in

DueTypeOK == due \in [Jobs -> BOOLEAN]
DueInit   == due = [j \in Jobs |-> FALSE]

(* The clock passes the job's scheduled_at. *)
TimePasses(j) == /\ details[j].later /\ ~due[j]
                 /\ due' = [due EXCEPT ![j] = TRUE]
                 /\ UNCHANGED <<repoVars, queueVars>>

(* Mutant: ScheduledAt is set, whether or not it has passed. *)
InFuture_Stale(j) == details[j].later

(* ScheduledAt is set and lies ahead. *)
InFuture(j) == details[j].later /\ ~due[j]

(* The forwarder reaches a task: a scheduled one when its time has come, a
   retry when its backoff has run out.                                     *)
Forward(t) == /\ task[t] = "scheduled" => due[JobOf[t]]
              /\ ForwardTask(t)
              /\ UNCHANGED <<repoVars, due>>
=============================================================================
