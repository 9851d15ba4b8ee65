------------------------------ MODULE TaskQueue ------------------------------
(***************************************************************************)
(* External: asynq's default queue in Redis, as the code in src/ uses it   *)
(* (asynq.Client behind pkg/queue/client.go, asynq.Server behind           *)
(* internal/worker/processor.go, asynq.Inspector behind                    *)
(* pkg/queue/inspector.go).  Each operator is one Lua script, atomic in    *)
(* Redis.  A task enqueued with MaxRetry(max) is handed to its handler at  *)
(* most max + 1 times, plus the hand-outs a shutdown gives back.           *)
(***************************************************************************)
EXTENDS Naturals

CONSTANT Tasks           \* asynq task ids

VARIABLES task,          \* where each task is
          retried        \* the message's retried counter

queueVars == <<task, retried>>

TaskState == {"new", "scheduled", "pending", "active", "retry",
              "archived", "finished"}
Live      == {"scheduled", "pending", "active", "retry"}

QueueTypeOK == /\ task \in [Tasks -> TaskState]
               /\ retried \in [Tasks -> Nat]

QueueInit == /\ task = [t \in Tasks |-> "new"]
             /\ retried = [t \in Tasks |-> 0]

Move(t, s) == task' = [task EXCEPT ![t] = s] /\ UNCHANGED retried

-----------------------------------------------------------------------------
(* Client.Enqueue: the task id must be unused; ProcessAt schedules it. *)
EnqueueTask(t, later) == /\ task[t] = "new"
                         /\ Move(t, IF later THEN "scheduled" ELSE "pending")

(* The server hands a pending task to a free worker goroutine. *)
DequeueTask(t) == task[t] = "pending" /\ Move(t, "active")

(* The forwarder moves a task whose time has come. *)
ForwardTask(t) == task[t] \in {"scheduled", "retry"} /\ Move(t, "pending")

(* The handler returned nil. *)
DoneTask(t) == task[t] = "active" /\ Move(t, "finished")

(* The handler returned an error, or the lease of a task whose worker died
   ran out: archived when the retries are used up, retried otherwise.      *)
Exhausted(t, max) == retried[t] >= max

FailTask(t, max) ==
  /\ task[t] = "active"
  /\ \/ Exhausted(t, max) /\ Move(t, "archived")
     \/ /\ ~Exhausted(t, max)
        /\ task' = [task EXCEPT ![t] = "retry"]
        /\ retried' = [retried EXCEPT ![t] = @ + 1]

(* Shutdown's deadline passed: the task goes back unspent. *)
RequeueTask(t) == task[t] = "active" /\ Move(t, "pending")

(* Inspector.DeleteTask: an active task cannot be deleted; a task that is
   not there is reported as ErrTaskNotFound, which DeleteTask ignores.     *)
DeleteTask(t) == \/ task[t] \in (Live \cup {"archived"}) \ {"active"}
                    /\ Move(t, "finished")
                 \/ task[t] \in {"new", "finished"} /\ UNCHANGED queueVars
=============================================================================
