-------------------------------- MODULE JobApi --------------------------------
(***************************************************************************)
(* The API process (cmd/api, internal/delivery/http, internal/usecase/job  *)
(* and .../admin): each client's request runs in a goroutine of its own,   *)
(* one step per call to Postgres or Redis, and requests interleave.  Every *)
(* client sends one request; a client that retries is two clients.         *)
(*                                                                         *)
(* A call to Redis can fail without effect (at most MaxRedisFaults of      *)
(* them); with LostReply it can also fail after Redis has queued the task, *)
(* as when the connection drops before the answer arrives.  The process    *)
(* dies at most MaxApiDowns times, and takes its open requests with it.    *)
(***************************************************************************)
EXTENDS JobQueue

CONSTANTS Clients,
          NewId,             \* NewId[c]: the uuid.New() of client c's request
          Ops,               \* Ops[c]: what client c may ask for
          LostReply,         \* a failed call to Redis may have queued the task
          MaxRedisFaults, MaxApiDowns

ASSUME ApiAssumption ==
  /\ NewId \in [Clients -> Jobs]
  /\ Ops \in [Clients -> SUBSET {"enqueue", "cancel", "retry"}]
  /\ \A c, d \in Clients :
       "enqueue" \in Ops[c] \cap Ops[d] /\ NewId[c] = NewId[d] => c = d
  /\ LostReply \in BOOLEAN
  /\ MaxRedisFaults \in Nat /\ MaxApiDowns \in Nat

VARIABLES at,                \* where each request is
          input,             \* what an Enqueue was asked for
          job,               \* the job a request is about
          seen,              \* the retry_count RetryDeadJob read
          reply,             \* what the client was told
          redisFaults, apiDowns

apiVars == <<at, input, job, seen, reply, redisFaults, apiDowns>>

Stages  == {"start", "lookup", "create", "refetch", "push", "rollback",
            "cancelRead", "cancelWrite", "cancelCheck", "cancelTask",
            "retryRead", "retryReset", "retryPend", "retryPush",
            "undoStatus", "undoCount", "reread", "end"}
Replies == {"none", "created", "replayed", "cancelled", "retried",
            "conflict", "error"}

ApiTypeOK == /\ at \in [Clients -> Stages]
             /\ input \in [Clients -> Inputs \cup {Unset}]
             /\ job \in [Clients -> Jobs]
             /\ seen \in [Clients -> Nat]
             /\ reply \in [Clients -> Replies]
             /\ redisFaults \in 0 .. MaxRedisFaults
             /\ apiDowns \in 0 .. MaxApiDowns

ApiInit == /\ at = [c \in Clients |-> "start"]
           /\ input = [c \in Clients |-> Unset]
           /\ job = NewId
           /\ seen = [c \in Clients |-> 0]
           /\ reply = [c \in Clients |-> "none"]
           /\ redisFaults = MaxRedisFaults
           /\ apiDowns = MaxApiDowns

-----------------------------------------------------------------------------
Advance(c, l) == at' = [at EXCEPT ![c] = l] /\ UNCHANGED <<job, reply>>
Answer(c, r)  == /\ at' = [at EXCEPT ![c] = "end"]
                 /\ reply' = [reply EXCEPT ![c] = r]
                 /\ UNCHANGED job
AnswerWith(c, r, j) == /\ at' = [at EXCEPT ![c] = "end"]
                       /\ reply' = [reply EXCEPT ![c] = r]
                       /\ job' = [job EXCEPT ![c] = j]

RedisFault == redisFaults > 0 /\ redisFaults' = redisFaults - 1
RedisOK    == UNCHANGED redisFaults

(* What a stage leaves alone when it calls only Postgres, or only Redis. *)
Elsewhere == <<queueVars, due, redisFaults, apiDowns>>
OnlyRepo  == UNCHANGED <<Elsewhere, input, seen>>
OnlyQueue == UNCHANGED <<repoVars, due, input, seen, apiDowns>>

(* Client.Enqueue returns an error: the task was not queued, or its reply was
   lost after it was.                                                      *)
EnqueueFails(t, later) == /\ RedisFault
                          /\ \/ UNCHANGED queueVars
                             \/ LostReply /\ EnqueueTask(t, later)

-----------------------------------------------------------------------------
(* POST /jobs: only a request with an idempotency key looks for an earlier
   job.                                                                    *)
SubmitEnqueue(c) ==
  /\ at[c] = "start" /\ "enqueue" \in Ops[c]
  /\ \E in \in Inputs :
       /\ input' = [input EXCEPT ![c] = in]
       /\ Advance(c, IF in.key = NoKey THEN "create" ELSE "lookup")
  /\ UNCHANGED <<repoVars, Elsewhere, seen>>

(* The two GetByIdempotencyKey calls: absent leads on, or is an error. *)
FindReplay(c, absent) ==
  /\ \/ /\ UNCHANGED repoVars
        /\ \E j \in WithKey(input[c].key) : AnswerWith(c, "replayed", j)
     \/ /\ UNCHANGED repoVars
        /\ WithKey(input[c].key) = {}
        /\ absent
     \/ Fault /\ UNCHANGED <<status, retryCount, details>> /\ Answer(c, "error")
  /\ OnlyRepo

Lookup(c)  == at[c] = "lookup" /\ FindReplay(c, Advance(c, "create"))
Refetch(c) == at[c] = "refetch" /\ FindReplay(c, Answer(c, "error"))

CreateRow(c) ==
  /\ at[c] = "create"
  /\ \/ Create(job[c], WithBudget(input[c])) /\ Advance(c, "push")
     \/ /\ ~KeyFree(input[c].key)
        /\ UNCHANGED repoVars
        /\ Advance(c, "refetch")
     \/ CreateFails(job[c], WithBudget(input[c])) /\ Answer(c, "error")
  /\ OnlyRepo

(* Mutant: the error of the queue client is only logged. *)
Push_Ignore(c) ==
  /\ at[c] = "push"
  /\ \/ RedisOK /\ EnqueueTask(FirstTask[job[c]], InFuture(job[c]))
     \/ EnqueueFails(FirstTask[job[c]], InFuture(job[c]))
  /\ Answer(c, "created")
  /\ OnlyQueue

Push(c) ==
  /\ at[c] = "push"
  /\ \/ /\ RedisOK
        /\ EnqueueTask(FirstTask[job[c]], InFuture(job[c]))
        /\ Answer(c, "created")
     \/ /\ EnqueueFails(FirstTask[job[c]], InFuture(job[c]))
        /\ Advance(c, "rollback")
  /\ OnlyQueue

(* Mutant: the row of a refused task is kept. *)
Rollback_Keep(c) == /\ at[c] = "rollback"
                    /\ UNCHANGED repoVars
                    /\ Answer(c, "error")
                    /\ OnlyRepo

Rollback(c) ==
  /\ at[c] = "rollback"
  /\ Delete(job[c]) \/ DeleteFails(job[c])
  /\ Answer(c, "error")
  /\ OnlyRepo

-----------------------------------------------------------------------------
(* A request about a job the client knows of. *)
Submit(c, op, first) ==
  /\ at[c] = "start" /\ op \in Ops[c]
  /\ \E j \in Jobs : /\ status[j] # "absent"
                     /\ job' = [job EXCEPT ![c] = j]
  /\ at' = [at EXCEPT ![c] = first]
  /\ UNCHANGED <<repoVars, reply>> /\ OnlyRepo

(* DELETE /jobs/:id *)
SubmitCancel(c) == Submit(c, "cancel", "cancelRead")

Cancellable(s) == s = "pending"

CancelRead(c) ==
  /\ at[c] = "cancelRead"
  /\ \/ /\ GetByID(job[c])
        /\ IF Cancellable(status[job[c]]) THEN Advance(c, "cancelWrite")
                                          ELSE Answer(c, "conflict")
     \/ GetByIDFails(job[c]) /\ Answer(c, "error")
  /\ OnlyRepo

CancelWrite(c) ==
  /\ at[c] = "cancelWrite"
  /\ \/ UpdateStatus(job[c], "cancelled") /\ Advance(c, "cancelCheck")
     \/ UpdateStatusFails(job[c], "cancelled") /\ Answer(c, "error")
  /\ OnlyRepo

(* ScheduledAt.After(now): only then is there a task to take back. *)
CancelCheck(c) ==
  /\ at[c] = "cancelCheck"
  /\ IF InFuture(job[c]) THEN Advance(c, "cancelTask")
                         ELSE Answer(c, "cancelled")
  /\ UNCHANGED repoVars /\ OnlyRepo

(* A task that cannot be deleted is only logged. *)
CancelTask(c) ==
  /\ at[c] = "cancelTask"
  /\ \/ DeleteTask(FirstTask[job[c]]) /\ RedisOK
     \/ task[FirstTask[job[c]]] = "active" /\ UNCHANGED queueVars /\ RedisOK
     \/ RedisFault /\ UNCHANGED queueVars
  /\ Answer(c, "cancelled")
  /\ OnlyQueue

-----------------------------------------------------------------------------
(* POST /admin/jobs/:id/retry *)
SubmitRetry(c) == Submit(c, "retry", "retryRead")

Retryable(s) == s = "dead"

RetryRead(c) ==
  /\ at[c] = "retryRead"
  /\ \/ /\ GetByID(job[c])
        /\ seen' = [seen EXCEPT ![c] = retryCount[job[c]]]
        /\ IF Retryable(status[job[c]]) THEN Advance(c, "retryReset")
                                        ELSE Answer(c, "conflict")
     \/ GetByIDFails(job[c]) /\ Answer(c, "error") /\ UNCHANGED seen
  /\ UNCHANGED <<Elsewhere, input>>

RetryReset(c) ==
  /\ at[c] = "retryReset"
  /\ \/ UpdateRetryCount(job[c], 0) /\ Advance(c, "retryPend")
     \/ UpdateRetryCountFails(job[c], 0) /\ Answer(c, "error")
  /\ OnlyRepo

RetryPend(c) ==
  /\ at[c] = "retryPend"
  /\ \/ UpdateStatus(job[c], "pending") /\ Advance(c, "retryPush")
     \/ UpdateStatusFails(job[c], "pending") /\ Answer(c, "error")
  /\ OnlyRepo

(* A task id of its own for every manual retry, never a job's id. *)
RetryTasks(j) == {t \in TasksOf(j) : t # FirstTask[j] /\ task[t] = "new"}

RetryPush(c) ==
  /\ at[c] = "retryPush"
  /\ \/ RedisOK /\ \E t \in RetryTasks(job[c]) : EnqueueTask(t, FALSE)
        /\ Advance(c, "reread")
     \/ \E t \in RetryTasks(job[c]) : EnqueueFails(t, FALSE)
        /\ Advance(c, "undoStatus")
  /\ OnlyQueue

(* Mutant: only the count is rolled back. *)
UndoStatus_Skip(c) == /\ at[c] = "undoStatus"
                      /\ UNCHANGED repoVars
                      /\ Advance(c, "undoCount")
                      /\ OnlyRepo

(* The rollback ignores the errors of both of its writes. *)
UndoStatus(c) ==
  /\ at[c] = "undoStatus"
  /\ UpdateStatus(job[c], "dead") \/ UpdateStatusFails(job[c], "dead")
  /\ Advance(c, "undoCount")
  /\ OnlyRepo

UndoCount(c) ==
  /\ at[c] = "undoCount"
  /\ UpdateRetryCount(job[c], seen[c]) \/ UpdateRetryCountFails(job[c], seen[c])
  /\ Answer(c, "error")
  /\ OnlyRepo

Reread(c) ==
  /\ at[c] = "reread"
  /\ \/ GetByID(job[c]) /\ Answer(c, "retried")
     \/ GetByIDFails(job[c]) /\ Answer(c, "error")
  /\ OnlyRepo

-----------------------------------------------------------------------------
Open(c) == at[c] \notin {"start", "end"}

(* The process dies, or its graceful shutdown runs out of time. *)
ApiCrash == /\ apiDowns > 0 /\ \E c \in Clients : Open(c)
            /\ apiDowns' = apiDowns - 1
            /\ at' = [c \in Clients |-> IF Open(c) THEN "end" ELSE at[c]]
            /\ UNCHANGED <<repoVars, queueVars, due, input, job, seen, reply, redisFaults>>

Handle(c) == \/ Lookup(c) \/ CreateRow(c) \/ Refetch(c) \/ Push(c) \/ Rollback(c)
             \/ CancelRead(c) \/ CancelWrite(c) \/ CancelCheck(c) \/ CancelTask(c)
             \/ RetryRead(c) \/ RetryReset(c) \/ RetryPend(c) \/ RetryPush(c)
             \/ UndoStatus(c) \/ UndoCount(c) \/ Reread(c)

ApiNext == \/ \E c \in Clients : \/ SubmitEnqueue(c) \/ SubmitCancel(c)
                                 \/ SubmitRetry(c) \/ Handle(c)
           \/ ApiCrash
=============================================================================
