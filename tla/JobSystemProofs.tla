--------------------------- MODULE JobSystemProofs ---------------------------
(***************************************************************************)
(* Theorems about the API process and the worker process together, for any *)
(* clients, jobs, keys, slots and bounds on faults and crashes.            *)
(***************************************************************************)
EXTENDS JobSystem, JobHandlersProofs

(* A request is accepted, or takes a step. *)
Stage(c) == SubmitEnqueue(c) \/ SubmitCancel(c) \/ SubmitRetry(c) \/ Handle(c)

LEMMA InsertStep ==
  ASSUME RepoTypeOK, NEW j \in Jobs, NEW d \in Details, Create(j, d) \/ CreateFails(j, d)
  PROVE  /\ RepoTypeOK'
         /\ \/ UNCHANGED <<status, details>>
            \/ /\ status[j] = "absent" /\ KeyFree(d.key)
               /\ status' = [status EXCEPT ![j] = "pending"]
               /\ details' = [details EXCEPT ![j] = d]
BY RepositoryAssumption DEF RepoTypeOK, JobStatus, Create, CreateFails, Inserted, Fault

LEMMA DeleteStep ==
  ASSUME RepoTypeOK, NEW j \in Jobs, Delete(j) \/ DeleteFails(j)
  PROVE  /\ RepoTypeOK' /\ details' = details
         /\ \/ status' = status
            \/ HasRow(j) /\ status' = [status EXCEPT ![j] = "deleted"]
BY RepositoryAssumption
   DEF RepoTypeOK, Delete, DeleteFails, UpdateStatusFails, Fault, repoVars

(* What a request can do to a task: one that a handler works on stays. *)
LEMMA ApiQueueStep ==
  ASSUME QueueTypeOK, NEW t \in Tasks,
         \/ \E later \in BOOLEAN : EnqueueTask(t, later)
         \/ DeleteTask(t) \/ UNCHANGED queueVars
  PROVE  /\ QueueTypeOK'
         /\ \A u \in Tasks : /\ task[u] = "active" => task'[u] = "active"
                             /\ task[u] # "new" => task'[u] # "new"
                             /\ u # t => task'[u] = task[u]
BY DEF QueueTypeOK, EnqueueTask, DeleteTask, Move, queueVars, TaskState, Live

LEMMA BudgetedType ==
  ASSUME ApiTypeOK, NEW c \in Clients
  PROVE  WithBudget(input[c]) \in Details
<1>1. /\ input[c] \in [type: JobType, bad: BOOLEAN, max: Nat,
                       key: Keys \cup {NoKey}, later: BOOLEAN]
  <2>1. Unset \in [type: JobType, bad: BOOLEAN, max: Nat,
                   key: Keys \cup {NoKey}, later: BOOLEAN]
    BY DEF Unset, JobType
  <2>2. input[c] \in Inputs \/ input[c] = Unset
    BY DEF ApiTypeOK
  <2> QED BY <2>1, <2>2, JobQueueAssumption
<1> QED BY <1>1 DEF WithBudget, DefaultBudget, Details

LEMMA InFutureType == \A j \in Jobs : Types => InFuture(j) \in BOOLEAN
BY DEF Types, RepoTypeOK, Details, DueTypeOK, InFuture

-----------------------------------------------------------------------------
(* The repository's columns keep their types through every request. *)
LEMMA StageRepo ==
  ASSUME SlotsInv, ApiTypeOK, NEW c \in Clients, Stage(c)
  PROVE  RepoTypeOK'
<1>1. RepoTypeOK /\ job[c] \in Jobs /\ seen[c] \in Nat /\ WithBudget(input[c]) \in Details
  BY BudgetedType DEF SlotsInv, Types, ApiTypeOK
<1>2. ASSUME UNCHANGED repoVars \/ (Fault /\ UNCHANGED <<status, retryCount, details>>)
      PROVE  RepoTypeOK'
  BY <1>1, <1>2, RepositoryAssumption DEF RepoTypeOK, repoVars, Fault
<1>3. CASE \/ SubmitEnqueue(c) \/ SubmitCancel(c) \/ SubmitRetry(c)
           \/ CancelCheck(c) \/ Push(c) \/ CancelTask(c) \/ RetryPush(c)
  BY <1>2, <1>3
  DEF SubmitEnqueue, SubmitCancel, SubmitRetry, Submit, CancelCheck, Push, CancelTask,
      RetryPush, OnlyQueue
<1>4. CASE Lookup(c) \/ Refetch(c)
  BY <1>2, <1>4 DEF Lookup, Refetch, FindReplay
<1>5. CASE CreateRow(c)
  BY <1>1, <1>2, <1>5, InsertStep DEF CreateRow
<1>6. CASE Rollback(c)
  BY <1>1, <1>6, DeleteStep DEF Rollback
<1>7. CASE CancelRead(c) \/ RetryRead(c) \/ Reread(c)
  BY <1>1, <1>7, ReadOnly DEF CancelRead, RetryRead, Reread
<1>8. CASE CancelWrite(c) \/ RetryPend(c) \/ UndoStatus(c)
  BY <1>1, <1>8, StatusWrite DEF CancelWrite, RetryPend, UndoStatus, JobStatus
<1>9. CASE RetryReset(c) \/ UndoCount(c)
  BY <1>1, <1>9, CountWrite DEF RetryReset, UndoCount
<1> QED BY <1>3, <1>4, <1>5, <1>6, <1>7, <1>8, <1>9 DEF Stage, Handle

(* The queue keeps its types, and no request takes a task from a handler. *)
LEMMA StageQueue ==
  ASSUME SlotsInv, ApiTypeOK, NEW c \in Clients, Stage(c)
  PROVE  /\ QueueTypeOK'
         /\ \A u \in Tasks : /\ task[u] = "active" => task'[u] = "active"
                             /\ task[u] # "new" => task'[u] # "new"
         /\ UNCHANGED due
<1>1. /\ QueueTypeOK /\ job[c] \in Jobs /\ FirstTask[job[c]] \in Tasks
      /\ InFuture(job[c]) \in BOOLEAN
  BY JobQueueAssumption, InFutureType DEF SlotsInv, Types, ApiTypeOK
<1>2. ASSUME UNCHANGED <<queueVars, due>> PROVE
         /\ QueueTypeOK'
         /\ \A u \in Tasks : /\ task[u] = "active" => task'[u] = "active"
                             /\ task[u] # "new" => task'[u] # "new"
         /\ UNCHANGED due
  BY <1>1, <1>2 DEF QueueTypeOK, queueVars
<1>3. CASE Push(c)
  <2>1. \/ UNCHANGED queueVars
        \/ EnqueueTask(FirstTask[job[c]], InFuture(job[c]))
    BY <1>3 DEF Push, EnqueueFails
  <2>2. UNCHANGED due
    BY <1>3 DEF Push, OnlyQueue
  <2> QED BY <1>1, <2>1, <2>2, ApiQueueStep
<1>4. CASE CancelTask(c)
  <2>1. UNCHANGED queueVars \/ DeleteTask(FirstTask[job[c]])
    BY <1>4 DEF CancelTask
  <2>2. UNCHANGED due
    BY <1>4 DEF CancelTask, OnlyQueue
  <2> QED BY <1>1, <2>1, <2>2, ApiQueueStep
<1>5. CASE RetryPush(c)
  <2>1. PICK t \in Tasks : UNCHANGED queueVars \/ EnqueueTask(t, FALSE)
    BY <1>5 DEF RetryPush, EnqueueFails, RetryTasks, TasksOf
  <2>2. UNCHANGED due
    BY <1>5 DEF RetryPush, OnlyQueue
  <2> QED BY <1>1, <2>1, <2>2, ApiQueueStep
<1>6. CASE \/ SubmitEnqueue(c) \/ SubmitCancel(c) \/ SubmitRetry(c)
           \/ Lookup(c) \/ Refetch(c) \/ CreateRow(c) \/ Rollback(c)
           \/ CancelRead(c) \/ CancelWrite(c) \/ CancelCheck(c)
           \/ RetryRead(c) \/ RetryReset(c) \/ RetryPend(c)
           \/ UndoStatus(c) \/ UndoCount(c) \/ Reread(c)
  <2>1. UNCHANGED <<queueVars, due>>
    BY <1>6
    DEF SubmitEnqueue, SubmitCancel, SubmitRetry, Submit, Lookup, Refetch, FindReplay,
        CreateRow, Rollback, CancelRead, CancelWrite, CancelCheck, RetryRead, RetryReset,
        RetryPend, UndoStatus, UndoCount, Reread, OnlyRepo, Elsewhere
  <2> QED BY <1>2, <2>1
<1> QED BY <1>3, <1>4, <1>5, <1>6 DEF Stage, Handle

(* A request leaves the handlers' slots in order. *)
LEMMA StageKeepsSlots ==
  ASSUME SlotsInv, ApiTypeOK, NEW c \in Clients, Stage(c), UNCHANGED workerVars
  PROVE  SlotsInv'
<1>1. RepoTypeOK' /\ QueueTypeOK' /\ DueTypeOK' /\ WorkerTypeOK'
  BY StageRepo, StageQueue DEF SlotsInv, Types, DueTypeOK, WorkerTypeOK, workerVars
<1>2. Holding'
  BY StageQueue DEF SlotsInv, Types, WorkerTypeOK, Holding, workerVars
<1>3. Apart' /\ Verdict'
  BY DEF SlotsInv, Apart, Verdict, workerVars
<1> QED BY <1>1, <1>2, <1>3 DEF SlotsInv, Types

(* A request's own variables keep their types. *)
LEMMA StageKeepsApi ==
  ASSUME SlotsInv, ApiTypeOK, NEW c \in Clients, Stage(c)
  PROVE  ApiTypeOK'
<1>2. redisFaults' \in 0 .. MaxRedisFaults
  <2>1. RedisFault \/ UNCHANGED redisFaults
    BY DEF Stage, Handle, SubmitEnqueue, SubmitCancel, SubmitRetry, Submit, Lookup, Refetch,
           FindReplay, CreateRow, Push, Rollback, CancelRead, CancelWrite, CancelCheck,
           CancelTask, RetryRead, RetryReset, RetryPend, RetryPush, UndoStatus, UndoCount,
           Reread, OnlyRepo, Elsewhere, EnqueueFails, RedisOK
  <2> QED BY <2>1, ApiAssumption DEF ApiTypeOK, RedisFault
<1>3. UNCHANGED apiDowns
  BY DEF Stage, Handle, SubmitEnqueue, SubmitCancel, SubmitRetry, Submit, Lookup, Refetch,
         FindReplay, CreateRow, Push, Rollback, CancelRead, CancelWrite, CancelCheck,
         CancelTask, RetryRead, RetryReset, RetryPend, RetryPush, UndoStatus, UndoCount,
         Reread, OnlyRepo, OnlyQueue, Elsewhere
<1>4. input' \in [Clients -> Inputs \cup {Unset}]
  BY DEF Stage, Handle, SubmitEnqueue, SubmitCancel, SubmitRetry, Submit, Lookup, Refetch,
         FindReplay, CreateRow, Push, Rollback, CancelRead, CancelWrite, CancelCheck,
         CancelTask, RetryRead, RetryReset, RetryPend, RetryPush, UndoStatus, UndoCount,
         Reread, OnlyRepo, OnlyQueue, Elsewhere, ApiTypeOK
<1>5. seen' \in [Clients -> Nat]
  <2>1. UNCHANGED seen \/ seen' = [seen EXCEPT ![c] = retryCount[job[c]]]
    BY DEF Stage, Handle, SubmitEnqueue, SubmitCancel, SubmitRetry, Submit, Lookup, Refetch,
           FindReplay, CreateRow, Push, Rollback, CancelRead, CancelWrite, CancelCheck,
           CancelTask, RetryRead, RetryReset, RetryPend, RetryPush, UndoStatus, UndoCount,
           Reread, OnlyRepo, OnlyQueue
  <2> QED BY <2>1 DEF ApiTypeOK, SlotsInv, Types, RepoTypeOK
<1>6. /\ at' \in [Clients -> Stages]
      /\ reply' \in [Clients -> Replies]
      /\ job' \in [Clients -> Jobs]
  <2>1. ASSUME NEW l \in Stages, Advance(c, l)
        PROVE  /\ at' \in [Clients -> Stages] /\ reply' \in [Clients -> Replies]
               /\ job' \in [Clients -> Jobs]
    BY <2>1 DEF ApiTypeOK, Advance
  <2>2. ASSUME NEW r \in Replies, Answer(c, r)
        PROVE  /\ at' \in [Clients -> Stages] /\ reply' \in [Clients -> Replies]
               /\ job' \in [Clients -> Jobs]
    BY <2>2 DEF ApiTypeOK, Answer, Stages
  <2>3. CASE SubmitCancel(c) \/ SubmitRetry(c)
    BY <2>3 DEF SubmitCancel, SubmitRetry, Submit, ApiTypeOK, Stages
  <2>4. CASE Lookup(c) \/ Refetch(c)
    BY <2>1, <2>2, <2>4
    DEF Lookup, Refetch, FindReplay, WithKey, AnswerWith, Answer, ApiTypeOK, Stages, Replies
  <2>5. CASE SubmitEnqueue(c) \/ CancelCheck(c)
    BY <2>1, <2>2, <2>5 DEF SubmitEnqueue, CancelCheck, Stages, Replies
  <2>6. CASE CreateRow(c) \/ Push(c) \/ Rollback(c)
    BY <2>1, <2>2, <2>6 DEF CreateRow, Push, Rollback, Stages, Replies
  <2>7. CASE CancelRead(c) \/ CancelWrite(c) \/ CancelTask(c) \/ RetryRead(c)
    BY <2>1, <2>2, <2>7 DEF CancelRead, CancelWrite, CancelTask, RetryRead, Stages, Replies
  <2>8. CASE \/ RetryReset(c) \/ RetryPend(c) \/ RetryPush(c) \/ UndoStatus(c)
             \/ UndoCount(c) \/ Reread(c)
    BY <2>1, <2>2, <2>8
    DEF RetryReset, RetryPend, RetryPush, UndoStatus, UndoCount, Reread, Stages, Replies
  <2> QED BY <2>3, <2>4, <2>5, <2>6, <2>7, <2>8 DEF Stage, Handle
<1> QED BY <1>2, <1>3, <1>4, <1>5, <1>6 DEF ApiTypeOK

(* The API process dies. *)
LEMMA ApiCrashKeeps ==
  ASSUME SlotsInv, ApiTypeOK, ApiCrash, UNCHANGED workerVars
  PROVE  SlotsInv' /\ ApiTypeOK'
<1>1. ApiTypeOK'
  BY ApiAssumption DEF ApiCrash, ApiTypeOK, Stages
<1>2. SlotsInv'
  BY DEF ApiCrash, SlotsInv, Types, RepoTypeOK, QueueTypeOK, DueTypeOK, WorkerTypeOK,
         Holding, Apart, Verdict, repoVars, queueVars, workerVars
<1> QED BY <1>1, <1>2

LEMMA StepTypes ==
  ASSUME SlotsInv, ApiTypeOK, [Next]_vars
  PROVE  SlotsInv' /\ ApiTypeOK'
<1>1. CASE WorkerNext /\ UNCHANGED apiVars
  BY <1>1, WorkerKeepsSlots DEF ApiTypeOK, apiVars
<1>2. CASE ApiNext /\ UNCHANGED workerVars
  BY <1>2, StageKeepsSlots, StageKeepsApi, ApiCrashKeeps DEF ApiNext, Stage
<1>3. CASE UNCHANGED vars
  <2>1. ApiTypeOK'
    BY <1>3 DEF vars, ApiTypeOK, apiVars
  <2>2. SlotsInv'
    BY <1>3
    DEF vars, SlotsInv, Types, RepoTypeOK, QueueTypeOK, DueTypeOK, WorkerTypeOK,
        Holding, Apart, Verdict, repoVars, queueVars, workerVars
  <2> QED BY <2>1, <2>2
<1> QED BY <1>1, <1>2, <1>3 DEF Next

LEMMA InitTypes == Init => SlotsInv /\ ApiTypeOK
<1> SUFFICES ASSUME Init PROVE SlotsInv /\ ApiTypeOK
  OBVIOUS
<1>1. RepoTypeOK
  BY RepositoryAssumption DEF Init, RepoInit, RepoTypeOK, Unset, Details, JobType
<1>2. QueueTypeOK /\ DueTypeOK
  BY DEF Init, QueueInit, QueueTypeOK, TaskState, DueInit, DueTypeOK
<1>3. WorkerTypeOK
  BY WorkerAssumption DEF Init, WorkerInit, WorkerTypeOK, Labels, JobStatus
<1>4. Holding /\ Apart /\ Verdict
  BY DEF Init, WorkerInit, Holding, Apart, Verdict
<1>5. ApiTypeOK
  BY ApiAssumption DEF Init, ApiInit, ApiTypeOK, Stages, Replies
<1> QED BY <1>1, <1>2, <1>3, <1>4, <1>5 DEF SlotsInv, Types

LEMMA TypesHold == Spec => [](SlotsInv /\ ApiTypeOK)
BY InitTypes, StepTypes, PTL DEF Spec

(* The table, the queue, the handlers and the requests keep their types. *)
THEOREM SystemTypeCorrect == Spec => []TypeOK
<1>1. SlotsInv /\ ApiTypeOK => TypeOK
  BY DEF SlotsInv, Types, TypeOK
<1> QED BY <1>1, TypesHold, PTL

-----------------------------------------------------------------------------
(* job.go, Cancel and base.go, Prepare: what can follow a cancellation that
   no attempt and no manual retry is running past.                          *)
LEMMA WorkerLeavesCancelled ==
  ASSUME SlotsInv, WorkerNext, UNCHANGED apiVars, NEW j \in Jobs, FirmlyCancelled(j)
  PROVE  FirmlyCancelled(j)'
<1>1. /\ status[j] = "cancelled"
      /\ \A w \in Slots : pc[w] \in {"idle", "fetch", "ack", "nack"} \/ JobIn(w) # j
      /\ ~BeingRetried(j)'
  BY DEF FirmlyCancelled, Attempted, BeingRetried, apiVars
<1> SUFFICES /\ status'[j] = "cancelled"
             /\ \A w \in Slots : pc'[w] \in {"idle", "fetch", "ack", "nack"} \/ JobIn(w)' # j
  BY <1>1 DEF FirmlyCancelled, Attempted
<1>2. /\ status \in [Jobs -> JobStatus \cup {"absent", "deleted"}]
      /\ pc \in [Slots -> Labels] /\ hand \in [Slots -> Tasks \cup {NoTask}]
  BY DEF SlotsInv, Types, RepoTypeOK, WorkerTypeOK
<1>3. ASSUME NEW w \in Slots, Handler(w)
      PROVE  /\ status'[j] = "cancelled"
             /\ \A v \in Slots : pc'[v] \in {"idle", "fetch", "ack", "nack"} \/ JobIn(v)' # j
  <2>0. RepoTypeOK
    BY DEF SlotsInv, Types
  <2>1. CASE PrepareFetch(w)
    <3>1. /\ status' = status /\ hand' = hand
          /\ \E l \in {"ack", "mark", "nack"} :
               /\ pc' = [pc EXCEPT ![w] = l]
               /\ l = "mark" => status[JobIn(w)] # "cancelled"
      BY <2>1
      DEF PrepareFetch, GetByID, GetByIDFails, GiveUp, Goto, Skips, repoVars
    <3> QED BY <1>1, <1>2, <3>1 DEF JobIn
  <2>2. CASE PrepareMark(w) \/ Complete(w) \/ Dead(w) \/ FailStatus(w)
    <3>1. pc[w] \in {"mark", "complete", "bury", "fail"} /\ JobIn(w) \in Jobs
      BY <2>2, BusySlot
      DEF PrepareMark, Complete, Dead, FailStatus, SlotsInv, Types
    <3>2. JobIn(w) # j
      BY <1>1, <3>1
    <3>3. PICK s \in JobStatus : UpdateStatus(JobIn(w), s) \/ UpdateStatusFails(JobIn(w), s)
      BY <2>2 DEF PrepareMark, Complete, Dead, Settle, FailStatus, JobStatus
    <3>4. status'[j] = status[j]
      BY <1>2, <2>0, <3>1, <3>2, <3>3, StatusWrite
    <3>5. hand' = hand /\ \E l \in Labels : pc' = [pc EXCEPT ![w] = l]
      BY <2>2
      DEF PrepareMark, Complete, Dead, Settle, FailStatus, GiveUp, Goto, Labels
    <3> QED BY <1>1, <1>2, <3>2, <3>4, <3>5 DEF JobIn
  <2>3. CASE Run(w) \/ Dispatch(w) \/ FailCount(w)
    <3>1. pc[w] \in {"run", "tell", "count"} /\ JobIn(w) \in Jobs /\ NextCount(w) \in Nat
      BY <2>3, BusySlot
      DEF Run, Dispatch, FailCount, SlotsInv, Types, NextCount, WorkerTypeOK
    <3>2. JobIn(w) # j
      BY <1>1, <3>1
    <3>3. status' = status
      BY <2>0, <2>3, <3>1, CountWrite DEF Run, Dispatch, FailCount, repoVars
    <3>4. hand' = hand /\ \E l \in Labels : pc' = [pc EXCEPT ![w] = l]
      BY <2>3 DEF Run, Dispatch, FailCount, GiveUp, Goto, Labels
    <3> QED BY <1>1, <1>2, <3>2, <3>3, <3>4 DEF JobIn
  <2>4. CASE Ack(w) \/ Nack(w)
    BY <1>1, <1>2, <2>4 DEF Ack, Nack, Free, Goto, JobIn, repoVars
  <2> QED BY <1>3, <2>1, <2>2, <2>3, <2>4 DEF Handler
<1>4. CASE \E w \in Slots : Abort(w) \/ \E t \in Tasks : Dequeue(w, t)
  BY <1>1, <1>2, <1>4 DEF Abort, Dequeue, Free, Goto, JobIn, repoVars
<1>5. CASE \E t \in Tasks : WorkerForward(t) \/ Recover(t)
  BY <1>1, <1>5 DEF WorkerForward, Forward, Recover, workerVars, repoVars, JobIn
<1>6. CASE \/ \E i \in Jobs : Clock(i)
           \/ Crash \/ Stop \/ Exit \/ ForceExit \/ Restart
  BY <1>1, <1>6
  DEF Clock, TimePasses, Crash, Stop, Exit, ForceExit, Restart, Die, workerVars, repoVars,
      JobIn
<1> QED BY <1>3, <1>4, <1>5, <1>6 DEF WorkerNext

LEMMA ApiLeavesCancelled ==
  ASSUME SlotsInv, ApiTypeOK, ApiNext, UNCHANGED workerVars, NEW j \in Jobs,
         FirmlyCancelled(j)
  PROVE  FirmlyCancelled(j)' \/ status'[j] = "deleted"
<1> DEFINE Retries == {"retryReset", "retryPend", "retryPush", "undoStatus", "undoCount"}
<1>1. /\ status[j] = "cancelled"
      /\ ~Attempted(j)'
      /\ \A c \in Clients : at[c] \in Retries => job[c] # j
  BY DEF FirmlyCancelled, Attempted, BeingRetried, workerVars, JobIn
<1>2. /\ status \in [Jobs -> JobStatus \cup {"absent", "deleted"}]
      /\ at \in [Clients -> Stages] /\ job \in [Clients -> Jobs]
      /\ RepoTypeOK
  BY DEF SlotsInv, Types, RepoTypeOK, ApiTypeOK
<1>3. ASSUME status'[j] = "cancelled" \/ status'[j] = "deleted",
             \A c \in Clients : at'[c] \in Retries => job'[c] # j
      PROVE  FirmlyCancelled(j)' \/ status'[j] = "deleted"
  BY <1>1, <1>3 DEF FirmlyCancelled, BeingRetried
<1>4. ASSUME NEW c \in Clients, Stage(c)
      PROVE  FirmlyCancelled(j)' \/ status'[j] = "deleted"
  <2>1. CASE \/ SubmitEnqueue(c) \/ SubmitCancel(c) \/ SubmitRetry(c)
             \/ Lookup(c) \/ Refetch(c) \/ CancelRead(c) \/ CancelCheck(c)
             \/ CancelTask(c) \/ Push(c) \/ Reread(c)
    <3>1. status' = status
      BY <2>1
      DEF SubmitEnqueue, SubmitCancel, SubmitRetry, Submit, Lookup, Refetch, FindReplay,
          CancelRead, CancelCheck, CancelTask, Push, Reread, GetByID, GetByIDFails,
          OnlyQueue, repoVars
    <3>2. /\ \A d \in Clients : d # c => at'[d] = at[d] /\ job'[d] = job[d]
          /\ at'[c] \notin Retries
      BY <1>2, <2>1
      DEF SubmitEnqueue, SubmitCancel, SubmitRetry, Submit, Lookup, Refetch, FindReplay,
          CancelRead, CancelCheck, CancelTask, Push, Reread, Advance, Answer, AnswerWith
    <3> QED BY <1>1, <1>3, <3>1, <3>2
  <2>2. CASE CreateRow(c) \/ Rollback(c) \/ CancelWrite(c)
    <3>1. status'[j] = "cancelled" \/ status'[j] = "deleted"
      <4>1. job[c] \in Jobs /\ WithBudget(input[c]) \in Details
        BY <1>2, BudgetedType
      <4>2. CASE CreateRow(c)
        BY <1>1, <1>2, <4>1, <4>2, InsertStep DEF CreateRow, repoVars
      <4>3. CASE Rollback(c)
        BY <1>1, <1>2, <4>1, <4>3, DeleteStep DEF Rollback
      <4>4. CASE CancelWrite(c)
        BY <1>1, <1>2, <4>1, <4>4, StatusWrite DEF CancelWrite, JobStatus
      <4> QED BY <2>2, <4>2, <4>3, <4>4
    <3>2. /\ \A d \in Clients : d # c => at'[d] = at[d] /\ job'[d] = job[d]
          /\ at'[c] \notin Retries
      BY <1>2, <2>2 DEF CreateRow, Rollback, CancelWrite, Advance, Answer
    <3> QED BY <1>1, <1>3, <3>1, <3>2
  <2>3. CASE RetryRead(c)
    <3>1. status' = status
      BY <2>3 DEF RetryRead, GetByID, GetByIDFails, repoVars
    <3>2. /\ \A d \in Clients : d # c => at'[d] = at[d] /\ job'[d] = job[d]
          /\ job'[c] = job[c]
          /\ at'[c] \in Retries => status[job[c]] = "dead"
      BY <1>2, <2>3 DEF RetryRead, Retryable, Advance, Answer
    <3> QED BY <1>1, <1>3, <3>1, <3>2
  <2>4. CASE RetryReset(c) \/ RetryPend(c) \/ RetryPush(c) \/ UndoStatus(c) \/ UndoCount(c)
    <3>1. job[c] # j /\ job[c] \in Jobs /\ seen[c] \in Nat
      BY <1>1, <1>2, <2>4
      DEF RetryReset, RetryPend, RetryPush, UndoStatus, UndoCount, ApiTypeOK
    <3>2. status'[j] = status[j]
      <4>1. CASE RetryReset(c) \/ UndoCount(c)
        BY <1>2, <3>1, <4>1, CountWrite DEF RetryReset, UndoCount
      <4>2. CASE RetryPend(c) \/ UndoStatus(c)
        BY <1>2, <3>1, <4>2, StatusWrite DEF RetryPend, UndoStatus, JobStatus
      <4>3. CASE RetryPush(c)
        BY <4>3 DEF RetryPush, OnlyQueue, repoVars
      <4> QED BY <2>4, <4>1, <4>2, <4>3
    <3>3. job' = job /\ \A d \in Clients : d # c => at'[d] = at[d]
      BY <1>2, <2>4
      DEF RetryReset, RetryPend, RetryPush, UndoStatus, UndoCount, Advance, Answer
    <3> QED BY <1>1, <1>3, <3>1, <3>2, <3>3
  <2> QED BY <1>4, <2>1, <2>2, <2>3, <2>4 DEF Stage, Handle
<1>5. CASE ApiCrash
  BY <1>1, <1>2, <1>3, <1>5 DEF ApiCrash, repoVars
<1> QED BY <1>4, <1>5 DEF ApiNext, Stage

(* job.go, Cancel and base.go, Prepare: a job cancelled while no attempt and
   no manual retry of it is under way is never attempted again.             *)
THEOREM CancelledForGood == Spec => CancelIsFinal
<1>1. SlotsInv /\ ApiTypeOK /\ [Next]_vars =>
        [\A j \in Jobs : FirmlyCancelled(j) =>
            FirmlyCancelled(j)' \/ status'[j] = "deleted"]_vars
  BY WorkerLeavesCancelled, ApiLeavesCancelled DEF Next
<1> QED BY <1>1, TypesHold, PTL DEF Spec, CancelIsFinal

-----------------------------------------------------------------------------
(* Some task of the job was queued. *)
Queued(j) == \E t \in Tasks : JobOf[t] = j /\ task[t] # "new"

(* job_repository.go, the unique index: one row per key. *)
OneRowPerKey ==
  \A i, j \in Jobs : HasRow(i) /\ HasRow(j) /\ details[i].key = details[j].key
                        /\ details[i].key # NoKey => i = j

(* Only a queued job is worked on, and a queued job has its row for good. *)
RunsAreQueued == \A j \in ran : j \in Jobs /\ Queued(j)
QueuedHasRow  == \A j \in Jobs : Queued(j) => HasRow(j)

(* job.go, Enqueue: until its push, the job a request creates is nobody
   else's, and is not queued.                                               *)
Creating(c) ==
  /\ at[c] \in {"start", "lookup", "create", "refetch", "push", "rollback"} =>
        job[c] = NewId[c]
  /\ at[c] \in {"lookup", "create", "refetch", "push", "rollback"} => "enqueue" \in Ops[c]
  /\ at[c] = "push" => HasRow(job[c])
  /\ at[c] \in {"push", "rollback"} => ~Queued(job[c])

(* A job dies of an attempt, so that one retried by hand has been queued. *)
DeadWasQueued == \A j \in Jobs : status[j] = "dead" => Queued(j)
Retrying(c) ==
  at[c] \in {"retryReset", "retryPend", "retryPush", "undoStatus", "undoCount"} =>
     Queued(job[c])

SharedInv  == OneRowPerKey /\ RunsAreQueued /\ QueuedHasRow /\ DeadWasQueued
RequestInv == \A c \in Clients : Creating(c) /\ Retrying(c)

KeyInv == SlotsInv /\ ApiTypeOK /\ SharedInv /\ RequestInv

(* Steps that neither create nor delete a row nor queue a job anew. *)
Quiet == /\ details' = details
         /\ \A j \in Jobs : /\ HasRow(j)' <=> HasRow(j)
                            /\ status'[j] = "absent" <=> status[j] = "absent"
                            /\ Queued(j)' <=> Queued(j)
                            /\ status'[j] = "dead" => status[j] = "dead" \/ Queued(j)
         /\ \A j \in ran' : j \in ran \/ (j \in Jobs /\ Queued(j))

LEMMA QuietKeepsShared ==
  ASSUME SharedInv, Quiet
  PROVE  SharedInv'
<1>1. OneRowPerKey'
  BY DEF SharedInv, Quiet, OneRowPerKey, HasRow
<1>2. RunsAreQueued' /\ QueuedHasRow' /\ DeadWasQueued'
  BY DEF SharedInv, Quiet, RunsAreQueued, QueuedHasRow, DeadWasQueued, HasRow, Queued
<1> QED BY <1>1, <1>2 DEF SharedInv

(* Requests that do not move keep their part of it, whoever moves. *)
LEMMA QuietKeepsRequest ==
  ASSUME ApiTypeOK, Quiet, NEW c \in Clients, at'[c] = at[c], job'[c] = job[c],
         Creating(c), Retrying(c)
  PROVE  Creating(c)' /\ Retrying(c)'
<1>1. job[c] \in Jobs
  BY DEF ApiTypeOK
<1> QED BY <1>1 DEF Quiet, Creating, Retrying, HasRow, Queued

(* A request that moves to a stage which asks for no more than it has. *)
LEMMA QuietMoves ==
  ASSUME KeyInv, Quiet, NEW c \in Clients, NEW l \in Stages,
         at' = [at EXCEPT ![c] = l],
         \A d \in Clients : d # c => job'[d] = job[d],
         l \in {"create", "refetch"} => /\ job'[c] = NewId[c]
                                        /\ "enqueue" \in Ops[c],
         l \notin {"start", "lookup", "push", "rollback"},
         l \in {"retryReset", "retryPend", "retryPush", "undoStatus", "undoCount"} =>
            job'[c] = job[c] /\ Queued(job[c])
  PROVE  SharedInv' /\ RequestInv'
<1>1. SharedInv'
  BY QuietKeepsShared DEF KeyInv
<1>2. at'[c] = l /\ job[c] \in Jobs
  BY DEF KeyInv, ApiTypeOK
<1>3. Creating(c)'
  BY <1>2 DEF Creating
<1>4. Retrying(c)'
  BY <1>2 DEF Retrying, Quiet, Queued
<1>5. ASSUME NEW d \in Clients, d # c PROVE Creating(d)' /\ Retrying(d)'
  <2>1. at'[d] = at[d]
    BY <1>5 DEF KeyInv, ApiTypeOK
  <2> QED BY <1>5, <2>1, QuietKeepsRequest DEF KeyInv, RequestInv
<1> QED BY <1>1, <1>3, <1>4, <1>5 DEF RequestInv

-----------------------------------------------------------------------------
(* A task a handler holds was queued, so its job was. *)
LEMMA HeldIsQueued ==
  ASSUME SlotsInv, NEW w \in Slots, pc[w] # "idle"
  PROVE  hand[w] \in Tasks /\ JobIn(w) \in Jobs /\ Queued(JobIn(w))
<1>1. hand[w] \in Tasks /\ JobIn(w) \in Jobs
  BY BusySlot DEF SlotsInv, Types
<1>2. task[hand[w]] = "active"
  BY <1>1, WorkerAssumption DEF SlotsInv, Holding
<1> QED BY <1>1, <1>2 DEF Queued, JobIn

LEMMA WorkerIsQuiet ==
  ASSUME SlotsInv, WorkerNext
  PROVE  Quiet
<1>1. /\ RepoTypeOK /\ QueueTypeOK
      /\ status \in [Jobs -> JobStatus \cup {"absent", "deleted"}]
  BY DEF SlotsInv, Types, RepoTypeOK
<1>2. ASSUME UNCHANGED <<status, details, task>>,
             \A j \in ran' : j \in ran \/ (j \in Jobs /\ Queued(j))
      PROVE  Quiet
  <2>1. \A j \in Jobs : (HasRow(j)' <=> HasRow(j)) /\ (Queued(j)' <=> Queued(j))
    BY <1>2 DEF HasRow, Queued
  <2> QED BY <1>2, <2>1 DEF Quiet, HasRow, Queued
<1>3. ASSUME NEW w \in Slots, pc[w] # "idle", UNCHANGED <<task, details, ran>>,
             NEW s \in JobStatus,
             status' = status \/ (HasRow(JobIn(w)) /\ status' = [status EXCEPT ![JobIn(w)] = s])
      PROVE  Quiet
  <2>1. JobIn(w) \in Jobs /\ Queued(JobIn(w))
    BY <1>3, HeldIsQueued
  <2>2. \A j \in Jobs : Queued(j)' <=> Queued(j)
    BY <1>3 DEF Queued
  <2>3. \A j \in Jobs : HasRow(j)' <=> HasRow(j)
    BY <1>1, <1>3, <2>1 DEF HasRow
  <2>4. \A j \in Jobs : status'[j] = "dead" => status[j] = "dead" \/ Queued(j)
    BY <1>1, <1>3, <2>1
  <2>5. \A j \in ran' : j \in ran
    BY <1>3
  <2>6. \A j \in Jobs : status'[j] = "absent" <=> status[j] = "absent"
    BY <1>1, <1>3, <2>1 DEF HasRow, JobStatus
  <2> QED BY <1>3, <2>2, <2>3, <2>4, <2>5, <2>6 DEF Quiet, HasRow, Queued
<1>4. ASSUME UNCHANGED <<status, details, ran>>, NEW t \in Tasks, NEW s \in TaskState,
             task[t] # "new", s # "new", task' = [task EXCEPT ![t] = s]
      PROVE  Quiet
  <2>1. \A u \in Tasks : task'[u] # "new" <=> task[u] # "new"
    BY <1>1, <1>4 DEF QueueTypeOK
  <2>2. \A j \in Jobs : Queued(j)' <=> Queued(j)
    BY <2>1 DEF Queued
  <2> QED BY <1>4, <2>2 DEF Quiet, HasRow, Queued
<1>5. ASSUME NEW w \in Slots, Handler(w) PROVE Quiet
  <2>1. pc[w] # "idle"
    BY <1>5 DEF Handler, PrepareFetch, PrepareMark, Run, Complete, Dead, Dispatch,
                FailCount, FailStatus, Ack, Nack
  <2>2. JobIn(w) \in Jobs /\ hand[w] \in Tasks /\ Queued(JobIn(w)) /\ task[hand[w]] # "new"
    <3>1. JobIn(w) \in Jobs /\ hand[w] \in Tasks /\ Queued(JobIn(w))
      BY <2>1, HeldIsQueued
    <3> QED BY <2>1, <3>1, WorkerAssumption DEF SlotsInv, Holding
  <2>3. CASE PrepareFetch(w)
    <3>1. UNCHANGED <<status, details, task, ran>>
      BY <2>3 DEF PrepareFetch, GetByID, GetByIDFails, repoVars, queueVars
    <3> QED BY <1>2, <3>1
  <2>4. CASE PrepareMark(w) \/ Complete(w) \/ Dead(w) \/ FailStatus(w)
    <3>1. PICK s \in JobStatus : UpdateStatus(JobIn(w), s) \/ UpdateStatusFails(JobIn(w), s)
      BY <2>4 DEF PrepareMark, Complete, Dead, Settle, FailStatus, JobStatus
    <3>2. UNCHANGED <<task, ran>>
      BY <2>4 DEF PrepareMark, Complete, Dead, Settle, FailStatus, queueVars
    <3>3. /\ details' = details
          /\ status' = status \/ (HasRow(JobIn(w)) /\ status' = [status EXCEPT ![JobIn(w)] = s])
      BY <1>1, <2>2, <3>1, StatusWrite
    <3> QED BY <1>3, <2>1, <3>2, <3>3
  <2>5. CASE Run(w) \/ Dispatch(w)
    <3>1. UNCHANGED <<status, details, task>> /\ ran' \subseteq ran \cup {JobIn(w)}
      BY <2>5 DEF Run, Dispatch, repoVars, queueVars
    <3> QED BY <1>2, <2>2, <3>1
  <2>6. CASE FailCount(w)
    <3>1. NextCount(w) \in Nat
      BY DEF NextCount, SlotsInv, Types, WorkerTypeOK
    <3>2. UNCHANGED <<task, ran>>
      BY <2>6 DEF FailCount, queueVars
    <3>3. UNCHANGED <<status, details>>
      BY <1>1, <2>2, <2>6, <3>1, CountWrite DEF FailCount
    <3> QED BY <1>2, <3>2, <3>3
  <2>7. CASE Ack(w) \/ Nack(w)
    <3>1. PICK s \in TaskState : s # "new" /\ task' = [task EXCEPT ![hand[w]] = s]
      BY <2>7 DEF Ack, Nack, DoneTask, FailTask, Move, TaskState
    <3>2. UNCHANGED <<status, details, ran>>
      BY <2>7 DEF Ack, Nack, repoVars
    <3> QED BY <1>4, <2>2, <3>1, <3>2
  <2> QED BY <1>5, <2>3, <2>4, <2>5, <2>6, <2>7 DEF Handler
<1>6. ASSUME NEW w \in Slots, NEW t \in Tasks, Dequeue(w, t) PROVE Quiet
  <2>1. task[t] # "new" /\ task' = [task EXCEPT ![t] = "active"] /\ "active" \in TaskState
    BY <1>6 DEF Dequeue, DequeueTask, Move, TaskState
  <2> QED BY <1>4, <1>6, <2>1 DEF Dequeue, repoVars
<1>7. ASSUME NEW w \in Slots, Abort(w) PROVE Quiet
  <2>1. /\ hand[w] \in Tasks /\ task[hand[w]] # "new"
        /\ task' = [task EXCEPT ![hand[w]] = "pending"] /\ "pending" \in TaskState
    BY <1>7, HeldIsQueued DEF Abort, RequeueTask, Move, TaskState
  <2> QED BY <1>4, <1>7, <2>1 DEF Abort, repoVars
<1>8. ASSUME NEW t \in Tasks, WorkerForward(t) \/ Recover(t) PROVE Quiet
  <2>1. PICK s \in TaskState : task[t] # "new" /\ s # "new" /\ task' = [task EXCEPT ![t] = s]
    BY <1>8 DEF WorkerForward, Forward, ForwardTask, Recover, FailTask, Move, TaskState
  <2>2. UNCHANGED <<status, details, ran>>
    BY <1>8 DEF WorkerForward, Forward, Recover, workerVars, repoVars
  <2> QED BY <1>4, <2>1, <2>2
<1>9. CASE \/ \E i \in Jobs : Clock(i)
           \/ Crash \/ Stop \/ Exit \/ ForceExit \/ Restart
  BY <1>2, <1>9
  DEF Clock, TimePasses, Crash, Stop, Exit, ForceExit, Restart, Die, workerVars, repoVars,
      queueVars
<1> QED BY <1>5, <1>6, <1>7, <1>8, <1>9 DEF WorkerNext

-----------------------------------------------------------------------------
LEMMA StutterIsQuiet ==
  ASSUME UNCHANGED <<status, details, task, ran>>
  PROVE  Quiet
<1>1. \A j \in Jobs : (HasRow(j)' <=> HasRow(j)) /\ (Queued(j)' <=> Queued(j))
  BY DEF HasRow, Queued
<1> QED BY <1>1 DEF Quiet, HasRow, Queued

(* A write of a request to a row that is there. *)
LEMMA StatusWriteIsQuiet ==
  ASSUME RepoTypeOK, UNCHANGED <<task, ran>>, NEW j \in Jobs, NEW s \in JobStatus,
         UpdateStatus(j, s) \/ UpdateStatusFails(j, s), s = "dead" => Queued(j)
  PROVE  Quiet
<1>1. /\ status \in [Jobs -> JobStatus \cup {"absent", "deleted"}]
      /\ details' = details
      /\ \/ status' = status
         \/ HasRow(j) /\ status' = [status EXCEPT ![j] = s]
  BY StatusWrite DEF RepoTypeOK
<1>2. \A i \in Jobs : (HasRow(i)' <=> HasRow(i)) /\ (Queued(i)' <=> Queued(i))
  BY <1>1 DEF HasRow, Queued
<1>3. \A i \in Jobs : status'[i] = "dead" => status[i] = "dead" \/ Queued(i)
  BY <1>1
<1>4. \A i \in Jobs : status'[i] = "absent" <=> status[i] = "absent"
  BY <1>1 DEF HasRow, JobStatus
<1> QED BY <1>1, <1>2, <1>3, <1>4 DEF Quiet, HasRow, Queued

(* Requests that neither write to the table nor to the queue. *)
LEMMA ReadingKeeps ==
  ASSUME KeyInv, UNCHANGED workerVars, NEW c \in Clients,
         \/ Lookup(c) \/ Refetch(c) \/ CancelRead(c) \/ CancelCheck(c) \/ RetryRead(c)
         \/ Reread(c) \/ SubmitCancel(c) \/ SubmitRetry(c)
  PROVE  SharedInv' /\ RequestInv'
<1>1. Quiet
  <2>1. UNCHANGED <<status, details, task, ran>>
    BY DEF Lookup, Refetch, FindReplay, CancelRead, CancelCheck, RetryRead, Reread,
           SubmitCancel, SubmitRetry, Submit, GetByID, GetByIDFails, OnlyRepo, Elsewhere,
           repoVars, queueVars, workerVars
  <2> QED BY <2>1, StutterIsQuiet
<1>2. \A d \in Clients : d # c => job'[d] = job[d]
  BY DEF Lookup, Refetch, FindReplay, CancelRead, CancelCheck, RetryRead, Reread,
         SubmitCancel, SubmitRetry, Submit, Advance, Answer, AnswerWith, KeyInv, ApiTypeOK
<1>3. CASE Lookup(c) \/ Refetch(c)
  <2>1. Creating(c)
    BY DEF KeyInv, RequestInv
  <2>2. \/ at' = [at EXCEPT ![c] = "end"]
        \/ at' = [at EXCEPT ![c] = "create"] /\ job' = job /\ at[c] = "lookup"
    BY <1>3 DEF Lookup, Refetch, FindReplay, Advance, Answer, AnswerWith
  <2>3. CASE at' = [at EXCEPT ![c] = "end"]
    BY <1>1, <1>2, <2>3, QuietMoves DEF Stages
  <2>4. CASE at' = [at EXCEPT ![c] = "create"] /\ job' = job /\ at[c] = "lookup"
    BY <1>1, <1>2, <2>1, <2>4, QuietMoves DEF Stages, Creating
  <2> QED BY <2>2, <2>3, <2>4
<1>4. CASE CancelRead(c) \/ CancelCheck(c) \/ Reread(c) \/ SubmitCancel(c) \/ SubmitRetry(c)
  <2>1. PICK l \in {"cancelRead", "cancelWrite", "cancelTask", "retryRead", "end"} :
          at' = [at EXCEPT ![c] = l]
    BY <1>4 DEF CancelRead, CancelCheck, Reread, SubmitCancel, SubmitRetry, Submit, Advance,
                Answer
  <2> QED BY <1>1, <1>2, <2>1, QuietMoves DEF Stages
<1>5. CASE RetryRead(c)
  <2>1. PICK l \in {"retryReset", "end"} :
          /\ at' = [at EXCEPT ![c] = l] /\ job' = job
          /\ l = "retryReset" => status[job[c]] = "dead"
    BY <1>5 DEF RetryRead, Retryable, Advance, Answer
  <2>2. l = "retryReset" => Queued(job[c])
    BY <2>1 DEF KeyInv, SharedInv, DeadWasQueued, ApiTypeOK
  <2> QED BY <1>1, <1>2, <2>1, <2>2, QuietMoves DEF Stages
<1> QED BY <1>3, <1>4, <1>5

(* POST /jobs begins. *)
LEMMA SubmitKeeps ==
  ASSUME KeyInv, UNCHANGED workerVars, NEW c \in Clients, SubmitEnqueue(c)
  PROVE  SharedInv' /\ RequestInv'
<1>1. Quiet
  <2>1. UNCHANGED <<status, details, task, ran>>
    BY DEF SubmitEnqueue, Elsewhere, repoVars, queueVars, workerVars
  <2> QED BY <2>1, StutterIsQuiet
<1>2. /\ at[c] = "start" /\ "enqueue" \in Ops[c] /\ job' = job
      /\ \E l \in {"create", "lookup"} : at' = [at EXCEPT ![c] = l]
  BY DEF SubmitEnqueue, Advance
<1>3. SharedInv'
  BY <1>1, QuietKeepsShared DEF KeyInv
<1>4. Creating(c)' /\ Retrying(c)'
  BY <1>2 DEF Creating, Retrying, KeyInv, RequestInv, ApiTypeOK
<1>5. ASSUME NEW d \in Clients, d # c PROVE Creating(d)' /\ Retrying(d)'
  <2>1. at'[d] = at[d] /\ job'[d] = job[d]
    BY <1>2, <1>5 DEF KeyInv, ApiTypeOK
  <2> QED BY <1>1, <2>1, QuietKeepsRequest DEF KeyInv, RequestInv
<1> QED BY <1>3, <1>4, <1>5 DEF RequestInv

(* Cancel's and RetryDeadJob's writes. *)
LEMMA WritingKeeps ==
  ASSUME KeyInv, UNCHANGED workerVars, NEW c \in Clients,
         \/ CancelWrite(c) \/ CancelTask(c) \/ RetryReset(c) \/ RetryPend(c)
         \/ RetryPush(c) \/ UndoStatus(c) \/ UndoCount(c)
  PROVE  SharedInv' /\ RequestInv'
<1>1. /\ RepoTypeOK /\ QueueTypeOK /\ job[c] \in Jobs /\ seen[c] \in Nat
      /\ Retrying(c) /\ ran' = ran /\ at \in [Clients -> Stages]
  BY DEF KeyInv, SlotsInv, Types, ApiTypeOK, RequestInv, workerVars
<1>2. Quiet
  <2>1. CASE CancelWrite(c) \/ RetryPend(c) \/ UndoStatus(c)
    <3>1. PICK s \in {"cancelled", "pending", "dead"} :
            /\ UpdateStatus(job[c], s) \/ UpdateStatusFails(job[c], s)
            /\ s = "dead" => at[c] = "undoStatus"
      BY <2>1 DEF CancelWrite, RetryPend, UndoStatus
    <3>2. UNCHANGED task
      BY <2>1 DEF CancelWrite, RetryPend, UndoStatus, OnlyRepo, Elsewhere, queueVars
    <3>3. s \in JobStatus /\ (s = "dead" => Queued(job[c]))
      BY <1>1, <3>1 DEF Retrying, JobStatus
    <3> QED BY <1>1, <3>1, <3>2, <3>3, StatusWriteIsQuiet
  <2>2. CASE RetryReset(c) \/ UndoCount(c)
    <3>1. UNCHANGED <<status, details>>
      BY <1>1, <2>2, CountWrite DEF RetryReset, UndoCount
    <3>2. UNCHANGED task
      BY <2>2 DEF RetryReset, UndoCount, OnlyRepo, Elsewhere, queueVars
    <3> QED BY <1>1, <3>1, <3>2, StutterIsQuiet
  <2>3. CASE CancelTask(c)
    <3>1. \A t \in Tasks : task'[t] # "new" <=> task[t] # "new"
      <4>1. FirstTask[job[c]] \in Tasks
        BY <1>1, JobQueueAssumption
      <4>2. UNCHANGED queueVars \/ DeleteTask(FirstTask[job[c]])
        BY <2>3 DEF CancelTask
      <4> QED BY <1>1, <4>1, <4>2 DEF DeleteTask, Move, QueueTypeOK, queueVars, Live
    <3>2. UNCHANGED <<status, details>>
      BY <2>3 DEF CancelTask, OnlyQueue, repoVars
    <3>3. \A j \in Jobs : (HasRow(j)' <=> HasRow(j)) /\ (Queued(j)' <=> Queued(j))
      BY <3>1, <3>2 DEF HasRow, Queued
    <3> QED BY <1>1, <3>2, <3>3 DEF Quiet, HasRow, Queued
  <2>4. CASE RetryPush(c)
    <3>1. PICK t \in Tasks : /\ JobOf[t] = job[c]
                             /\ UNCHANGED queueVars \/ EnqueueTask(t, FALSE)
      BY <2>4 DEF RetryPush, EnqueueFails, RetryTasks, TasksOf
    <3>2. Queued(job[c])
      BY <1>1, <2>4 DEF RetryPush, Retrying
    <3>3. \A u \in Tasks : /\ task[u] # "new" => task'[u] # "new"
                           /\ u # t => task'[u] = task[u]
      BY <1>1, <3>1, ApiQueueStep
    <3>4. \A j \in Jobs : Queued(j)' <=> Queued(j)
      <4>1. ASSUME NEW j \in Jobs, Queued(j) PROVE Queued(j)'
        BY <3>3, <4>1 DEF Queued
      <4>2. ASSUME NEW j \in Jobs, Queued(j)' PROVE Queued(j)
        <5>1. PICK u \in Tasks : JobOf[u] = j /\ task'[u] # "new"
          BY <4>2 DEF Queued
        <5>2. CASE u = t
          BY <3>1, <3>2, <5>1, <5>2
        <5>3. CASE u # t
          BY <3>3, <5>1, <5>3 DEF Queued
        <5> QED BY <5>2, <5>3
      <4> QED BY <4>1, <4>2
    <3>5. UNCHANGED <<status, details>>
      BY <2>4 DEF RetryPush, OnlyQueue, repoVars
    <3> QED BY <1>1, <3>4, <3>5 DEF Quiet, HasRow, Queued
  <2> QED BY <2>1, <2>2, <2>3, <2>4
<1>3. PICK l \in {"cancelCheck", "retryPend", "retryPush", "reread", "undoStatus", "undoCount",
                 "end"} :
        /\ at' = [at EXCEPT ![c] = l] /\ job' = job
        /\ l \in {"retryPend", "retryPush", "undoStatus", "undoCount"} =>
              at[c] \in {"retryReset", "retryPend", "retryPush", "undoStatus"}
  BY DEF CancelWrite, CancelTask, RetryReset, RetryPend, RetryPush, UndoStatus, UndoCount,
         Advance, Answer
<1> QED BY <1>1, <1>2, <1>3, QuietMoves DEF Retrying, Stages

-----------------------------------------------------------------------------
(* At most one request creates a job. *)
LEMMA OneCreator ==
  ASSUME NEW c \in Clients, NEW d \in Clients, Creating(c), Creating(d),
         at[c] \in {"create", "push", "rollback"}, at[d] \in {"push", "rollback"},
         job[c] = job[d]
  PROVE  c = d
BY ApiAssumption DEF Creating

(* job.go, Enqueue: the INSERT *)
LEMMA CreateKeeps ==
  ASSUME KeyInv, UNCHANGED workerVars, NEW c \in Clients, CreateRow(c)
  PROVE  SharedInv' /\ RequestInv'
<1>1. /\ RepoTypeOK /\ job[c] \in Jobs /\ WithBudget(input[c]) \in Details
      /\ Creating(c) /\ at[c] = "create" /\ at \in [Clients -> Stages]
      /\ status \in [Jobs -> JobStatus \cup {"absent", "deleted"}]
      /\ details \in [Jobs -> Details]
  BY BudgetedType
  DEF KeyInv, SlotsInv, Types, ApiTypeOK, RequestInv, CreateRow, RepoTypeOK
<1>2. UNCHANGED <<task, ran, job>>
  BY DEF CreateRow, OnlyRepo, Elsewhere, queueVars, workerVars, Advance, Answer
<1>3. \/ /\ UNCHANGED <<status, details>>
         /\ \E l \in {"refetch", "end"} : at' = [at EXCEPT ![c] = l]
      \/ /\ status[job[c]] = "absent" /\ KeyFree(WithBudget(input[c]).key)
         /\ status' = [status EXCEPT ![job[c]] = "pending"]
         /\ details' = [details EXCEPT ![job[c]] = WithBudget(input[c])]
         /\ \E l \in {"push", "end"} : at' = [at EXCEPT ![c] = l]
  <2>1. CASE Create(job[c], WithBudget(input[c])) /\ Advance(c, "push")
    BY <2>1 DEF Create, Inserted, Advance
  <2>2. CASE UNCHANGED repoVars /\ Advance(c, "refetch")
    BY <2>2 DEF Advance, repoVars
  <2>3. CASE CreateFails(job[c], WithBudget(input[c])) /\ Answer(c, "error")
    BY <2>3 DEF CreateFails, Inserted, Answer
  <2> QED BY <2>1, <2>2, <2>3 DEF CreateRow
<1>4. CASE /\ UNCHANGED <<status, details>>
           /\ \E l \in {"refetch", "end"} : at' = [at EXCEPT ![c] = l]
  <2>1. Quiet
    BY <1>2, <1>4, StutterIsQuiet
  <2> QED BY <1>1, <1>2, <1>4, <2>1, QuietMoves DEF Creating, Stages
<1>5. CASE /\ status[job[c]] = "absent" /\ KeyFree(WithBudget(input[c]).key)
           /\ status' = [status EXCEPT ![job[c]] = "pending"]
           /\ details' = [details EXCEPT ![job[c]] = WithBudget(input[c])]
           /\ \E l \in {"push", "end"} : at' = [at EXCEPT ![c] = l]
  <2>1. \A j \in Jobs : Queued(j)' <=> Queued(j)
    BY <1>2 DEF Queued
  <2>2. /\ HasRow(job[c])'
        /\ ~HasRow(job[c]) /\ ~Queued(job[c])
        /\ \A j \in Jobs : j # job[c] => (HasRow(j)' <=> HasRow(j))
    <3>1. HasRow(job[c])' /\ ~HasRow(job[c])
      <4>1. status'[job[c]] = "pending" /\ status[job[c]] = "absent"
        BY <1>1, <1>5
      <4>2. HasRow(job[c])'
        BY <1>2, <4>1 DEF HasRow, JobStatus
      <4>3. ~HasRow(job[c])
        BY <4>1 DEF HasRow, JobStatus
      <4> QED BY <4>2, <4>3
    <3>2. ~Queued(job[c])
      BY <1>1, <3>1 DEF KeyInv, SharedInv, QueuedHasRow
    <3>3. \A j \in Jobs : j # job[c] => (HasRow(j)' <=> HasRow(j))
      BY <1>1, <1>5 DEF HasRow
    <3> QED BY <3>1, <3>2, <3>3
  <2>3. OneRowPerKey'
    <3>1. ASSUME NEW j \in Jobs, j # job[c], HasRow(j)'
          PROVE  details'[j].key = NoKey \/ details'[j].key # details'[job[c]].key
      BY <1>1, <1>5, <3>1 DEF KeyFree, WithKey, HasRow
    <3>2. ASSUME NEW i \in Jobs, NEW j \in Jobs, HasRow(i)', HasRow(j)',
                 details'[i].key = details'[j].key, details'[i].key # NoKey
          PROVE  i = j
      <4>1. CASE i = job[c] \/ j = job[c]
        BY <3>1, <3>2, <4>1
      <4>2. CASE i # job[c] /\ j # job[c]
        BY <1>1, <1>5, <3>2, <4>2 DEF KeyInv, SharedInv, OneRowPerKey, HasRow
      <4> QED BY <4>1, <4>2
    <3> QED BY <3>2 DEF OneRowPerKey
  <2>4. RunsAreQueued' /\ QueuedHasRow'
    BY <1>2, <2>1, <2>2
    DEF KeyInv, SharedInv, RunsAreQueued, QueuedHasRow, Queued, HasRow
  <2>5. DeadWasQueued'
    BY <1>1, <1>5, <2>1 DEF KeyInv, SharedInv, DeadWasQueued, Queued
  <2>6. Creating(c)' /\ Retrying(c)'
    BY <1>1, <1>2, <1>5, <2>1, <2>2 DEF Creating, Retrying, HasRow, Queued
  <2>7. ASSUME NEW d \in Clients, d # c PROVE Creating(d)' /\ Retrying(d)'
    <3>1. at'[d] = at[d] /\ job'[d] = job[d] /\ job[d] \in Jobs
      BY <1>1, <1>2, <1>5, <2>7 DEF KeyInv, ApiTypeOK
    <3>2. Creating(d) /\ Retrying(d)
      BY DEF KeyInv, RequestInv
    <3>3. HasRow(job[d]) => HasRow(job[d])'
      BY <2>2, <3>1 DEF HasRow
    <3> QED BY <1>2, <3>1, <3>2, <3>3 DEF Creating, Retrying, HasRow, Queued
  <2> QED BY <2>3, <2>4, <2>5, <2>6, <2>7 DEF SharedInv, RequestInv
<1> QED BY <1>3, <1>4, <1>5

(* job.go, Enqueue: the push, when a queue that errs has not taken the task *)
LEMMA PushKeeps ==
  ASSUME ~LostReply, KeyInv, UNCHANGED workerVars, NEW c \in Clients, Push(c)
  PROVE  SharedInv' /\ RequestInv'
<1>1. /\ QueueTypeOK /\ job[c] \in Jobs /\ FirstTask[job[c]] \in Tasks
      /\ JobOf[FirstTask[job[c]]] = job[c] /\ InFuture(job[c]) \in BOOLEAN
      /\ Creating(c) /\ at[c] = "push" /\ at \in [Clients -> Stages]
      /\ status \in [Jobs -> JobStatus \cup {"absent", "deleted"}]
  BY JobQueueAssumption, InFutureType
  DEF KeyInv, SlotsInv, Types, ApiTypeOK, RequestInv, Push, RepoTypeOK
<1>2. UNCHANGED <<status, details, ran, job>>
  BY DEF Push, OnlyQueue, repoVars, workerVars, Advance, Answer
<1>3. CASE UNCHANGED queueVars /\ at' = [at EXCEPT ![c] = "rollback"]
  <2>1. Quiet
    BY <1>2, <1>3, StutterIsQuiet DEF queueVars
  <2>2. SharedInv'
    BY <2>1, QuietKeepsShared DEF KeyInv
  <2>3. Creating(c)' /\ Retrying(c)'
    BY <1>1, <1>2, <1>3 DEF Creating, Retrying, Queued, queueVars
  <2>4. ASSUME NEW d \in Clients, d # c PROVE Creating(d)' /\ Retrying(d)'
    <3>1. at'[d] = at[d] /\ job'[d] = job[d]
      BY <1>1, <1>2, <1>3, <2>4
    <3> QED BY <2>1, <3>1, QuietKeepsRequest DEF KeyInv, RequestInv
  <2> QED BY <2>2, <2>3, <2>4 DEF RequestInv
<1>4. CASE /\ EnqueueTask(FirstTask[job[c]], InFuture(job[c]))
           /\ at' = [at EXCEPT ![c] = "end"]
  <2>1. /\ \A t \in Tasks : /\ task[t] # "new" => task'[t] # "new"
                            /\ t # FirstTask[job[c]] => task'[t] = task[t]
    BY <1>1, <1>4, ApiQueueStep
  <2>2. /\ \A j \in Jobs : Queued(j) => Queued(j)'
        /\ \A j \in Jobs : j # job[c] => (Queued(j)' => Queued(j))
    BY <1>1, <2>1 DEF Queued
  <2>3. HasRow(job[c])
    BY <1>1 DEF Creating
  <2>4. OneRowPerKey' /\ QueuedHasRow'
    BY <1>2, <2>2, <2>3 DEF KeyInv, SharedInv, OneRowPerKey, QueuedHasRow, HasRow, Queued
  <2>5. RunsAreQueued' /\ DeadWasQueued'
    BY <1>2, <2>2 DEF KeyInv, SharedInv, RunsAreQueued, DeadWasQueued, Queued
  <2>6. Creating(c)' /\ Retrying(c)'
    BY <1>1, <1>4 DEF Creating, Retrying
  <2>7. ASSUME NEW d \in Clients, d # c PROVE Creating(d)' /\ Retrying(d)'
    <3>1. /\ at'[d] = at[d] /\ job'[d] = job[d] /\ job[d] \in Jobs
          /\ Creating(d) /\ Retrying(d)
      BY <1>1, <1>2, <1>4, <2>7 DEF KeyInv, ApiTypeOK, RequestInv
    <3>2. at[d] \in {"push", "rollback"} => job[d] # job[c]
      BY <1>1, <2>7, <3>1, OneCreator
    <3>3. at[d] \in {"push", "rollback"} => ~Queued(job[d])'
      BY <2>2, <3>1, <3>2 DEF Creating, Queued
    <3>4. Retrying(d)'
      BY <2>2, <3>1 DEF Retrying, Queued
    <3>5. Creating(d)'
      BY <1>2, <3>1, <3>3 DEF Creating, HasRow, Queued
    <3> QED BY <3>4, <3>5
  <2> QED BY <2>4, <2>5, <2>6, <2>7 DEF SharedInv, RequestInv
<1> QED BY <1>3, <1>4 DEF Push, EnqueueFails, Advance, Answer

(* job.go, Enqueue: the rollback of a row that was never queued *)
LEMMA RollbackKeeps ==
  ASSUME KeyInv, UNCHANGED workerVars, NEW c \in Clients, Rollback(c)
  PROVE  SharedInv' /\ RequestInv'
<1>1. /\ RepoTypeOK /\ job[c] \in Jobs
      /\ Creating(c) /\ at[c] = "rollback" /\ at \in [Clients -> Stages]
      /\ status \in [Jobs -> JobStatus \cup {"absent", "deleted"}]
  BY DEF KeyInv, SlotsInv, Types, ApiTypeOK, RequestInv, Rollback, RepoTypeOK
<1>2. /\ UNCHANGED <<task, ran, job>>
      /\ at' = [at EXCEPT ![c] = "end"]
  BY DEF Rollback, OnlyRepo, Elsewhere, queueVars, workerVars, Answer
<1>3. details' = details /\ (status' = status \/ status' = [status EXCEPT ![job[c]] = "deleted"])
  BY <1>1, DeleteStep DEF Rollback
<1>4. ~Queued(job[c])
  BY <1>1 DEF Creating
<1>5. /\ \A j \in Jobs : HasRow(j)' => HasRow(j)
      /\ \A j \in Jobs : j # job[c] => (HasRow(j) => HasRow(j)')
      /\ \A j \in Jobs : Queued(j)' <=> Queued(j)
  BY <1>1, <1>2, <1>3 DEF HasRow, JobStatus, Queued
<1>6. OneRowPerKey' /\ QueuedHasRow'
  BY <1>3, <1>4, <1>5 DEF KeyInv, SharedInv, OneRowPerKey, QueuedHasRow, HasRow, Queued
<1>7. RunsAreQueued' /\ DeadWasQueued'
  BY <1>1, <1>2, <1>3, <1>5
  DEF KeyInv, SharedInv, RunsAreQueued, DeadWasQueued, Queued
<1>8. Creating(c)' /\ Retrying(c)'
  BY <1>1, <1>2 DEF Creating, Retrying
<1>9. ASSUME NEW d \in Clients, d # c PROVE Creating(d)' /\ Retrying(d)'
  <2>1. /\ at'[d] = at[d] /\ job'[d] = job[d] /\ job[d] \in Jobs
        /\ Creating(d) /\ Retrying(d)
    BY <1>1, <1>2, <1>9 DEF KeyInv, ApiTypeOK, RequestInv
  <2>2. at[d] = "push" => job[d] # job[c]
    BY <1>1, <1>9, <2>1, OneCreator
  <2>3. at[d] = "push" => HasRow(job[d])'
    BY <1>5, <2>1, <2>2 DEF Creating, HasRow
  <2> QED BY <1>5, <2>1, <2>3 DEF Creating, Retrying, HasRow, Queued
<1> QED BY <1>6, <1>7, <1>8, <1>9 DEF SharedInv, RequestInv

LEMMA ApiCrashKeepsKeys ==
  ASSUME KeyInv, UNCHANGED workerVars, ApiCrash
  PROVE  SharedInv' /\ RequestInv'
<1>1. UNCHANGED <<status, details, task, ran, job>>
  BY DEF ApiCrash, repoVars, queueVars, workerVars
<1>2. Quiet
  BY <1>1, StutterIsQuiet
<1>3. ASSUME NEW c \in Clients PROVE Creating(c)' /\ Retrying(c)'
  <2>1. at'[c] = at[c] \/ at'[c] = "end"
    BY DEF ApiCrash
  <2>2. CASE at'[c] = at[c]
    BY <1>1, <1>2, <2>2, QuietKeepsRequest DEF KeyInv, RequestInv
  <2>3. CASE at'[c] = "end"
    BY <2>3 DEF Creating, Retrying
  <2> QED BY <2>1, <2>2, <2>3
<1> QED BY <1>2, <1>3, QuietKeepsShared DEF KeyInv, RequestInv

LEMMA KeyInvKept ==
  ASSUME ~LostReply, KeyInv, [Next]_vars
  PROVE  KeyInv'
<1>1. SlotsInv' /\ ApiTypeOK'
  BY StepTypes DEF KeyInv
<1>2. ASSUME Quiet, UNCHANGED apiVars PROVE SharedInv' /\ RequestInv'
  <2>1. \A c \in Clients : at'[c] = at[c] /\ job'[c] = job[c]
    BY <1>2 DEF apiVars
  <2> QED BY <1>2, <2>1, QuietKeepsShared, QuietKeepsRequest DEF KeyInv, RequestInv
<1>3. SharedInv' /\ RequestInv'
  <2>1. CASE WorkerNext /\ UNCHANGED apiVars
    BY <1>2, <2>1, WorkerIsQuiet DEF KeyInv
  <2>2. CASE ApiNext /\ UNCHANGED workerVars
    <3>1. ASSUME NEW c \in Clients, Stage(c) PROVE SharedInv' /\ RequestInv'
      BY <2>2, <3>1, ReadingKeeps, SubmitKeeps, WritingKeeps, CreateKeeps, PushKeeps,
         RollbackKeeps DEF Stage, Handle
    <3> QED BY <2>2, <3>1, ApiCrashKeepsKeys DEF ApiNext, Stage
  <2>3. CASE UNCHANGED vars
    BY <1>2, <2>3, StutterIsQuiet DEF vars, repoVars, queueVars, workerVars
  <2> QED BY <2>1, <2>2, <2>3 DEF Next
<1> QED BY <1>1, <1>3 DEF KeyInv

LEMMA KeyInvInit == Init => KeyInv
<1> SUFFICES ASSUME Init PROVE KeyInv
  OBVIOUS
<1>1. \A j \in Jobs : ~HasRow(j) /\ ~Queued(j) /\ status[j] # "dead"
  BY DEF Init, RepoInit, QueueInit, HasRow, JobStatus, Queued
<1>2. SharedInv
  BY <1>1
  DEF Init, WorkerInit, SharedInv, OneRowPerKey, RunsAreQueued, QueuedHasRow, DeadWasQueued
<1>3. RequestInv
  BY DEF Init, ApiInit, RequestInv, Creating, Retrying
<1> QED BY <1>2, <1>3, InitTypes DEF KeyInv

(* job.go, Enqueue's lookup, unique index and rollback: where a call to the
   queue that errs has not queued the task, of all jobs created under one
   idempotency key at most one is ever worked on, whichever requests race,
   fail half way or die.  The assumption is needed: system_lost_reply.      *)
THEOREM KeyRunsOnce ==
  ASSUME ~LostReply
  PROVE  Spec => []OneRunPerKey
<1>1. Init => KeyInv
  BY KeyInvInit
<1>2. KeyInv /\ [Next]_vars => KeyInv'
  BY KeyInvKept
<1>3. KeyInv => OneRunPerKey
  BY DEF KeyInv, SharedInv, RunsAreQueued, QueuedHasRow, OneRowPerKey, OneRunPerKey
<1> QED BY <1>1, <1>2, <1>3, PTL DEF Spec

-----------------------------------------------------------------------------
(* job.go and admin.go: a job that was queued, or is about to be, was created,
   so that its budget does not change any more.                             *)
Undone  == {"retryReset", "retryPend", "retryPush", "undoStatus", "undoCount"}
Created == /\ \A j \in Jobs : Queued(j) => status[j] # "absent"
           /\ \A c \in Clients : at[c] \in Undone \cup {"push"} => status[job[c]] # "absent"

(* base.go, Fail is reached only below the last attempt; admin.go, the count
   RetryDeadJob may write back is one the row had.                          *)
Affordable == \A w \in Slots :
  pc[w] = "count" => local[w].retry + 1 < details[JobIn(w)].max
Remembered == \A c \in Clients : at[c] \in Undone => seen[c] < details[job[c]].max

BudgetInv == /\ SlotsInv /\ ApiTypeOK
             /\ Created /\ Affordable /\ Remembered /\ RetryCountBelowMax

(* A write of a count below the budget. *)
LEMMA CountBelow ==
  ASSUME RepoTypeOK, RetryCountBelowMax, NEW j \in Jobs, NEW n \in Nat, n < details[j].max,
         UpdateRetryCount(j, n) \/ UpdateRetryCountFails(j, n)
  PROVE  RetryCountBelowMax'
<1>1. /\ status' = status /\ details' = details /\ retryCount \in [Jobs -> Nat]
      /\ retryCount' = retryCount \/ retryCount' = [retryCount EXCEPT ![j] = n]
  BY CountWrite DEF RepoTypeOK
<1> QED BY <1>1 DEF RetryCountBelowMax, HasRow

LEMMA WorkerKeepsBudget ==
  ASSUME BudgetInv, WorkerNext, UNCHANGED apiVars
  PROVE  BudgetInv'
<1>1. SlotsInv' /\ ApiTypeOK' /\ Quiet
  BY WorkerKeepsSlots, WorkerIsQuiet DEF BudgetInv, ApiTypeOK, apiVars
<1>2. Created' /\ Remembered'
  BY <1>1 DEF BudgetInv, Created, Remembered, Quiet, Queued, apiVars, ApiTypeOK
<1>3. Affordable'
  <2>1. /\ pc \in [Slots -> Labels] /\ hand \in [Slots -> Tasks \cup {NoTask}]
        /\ local \in [Slots -> [status: JobStatus, retry: Nat]]
        /\ \A v \in Slots : pc[v] = "count" => local[v].retry + 1 < details[JobOf[hand[v]]].max
        /\ details' = details
    BY <1>1 DEF BudgetInv, SlotsInv, Types, WorkerTypeOK, Affordable, JobIn, Quiet
  <2> SUFFICES \A v \in Slots : pc'[v] = "count" =>
                  local'[v].retry + 1 < details[JobOf[hand'[v]]].max
    BY <2>1 DEF Affordable, JobIn
  <2>2. ASSUME NEW w \in Slots, Handler(w)
        PROVE  \A v \in Slots : pc'[v] = "count" =>
                  local'[v].retry + 1 < details[JobOf[hand'[v]]].max
    <3>1. CASE Run(w)
      <4>1. /\ local' = local /\ hand' = hand
            /\ \E l \in {"complete", "bury", "count"} :
                 /\ pc' = [pc EXCEPT ![w] = l]
                 /\ l = "count" => ~IsLastAttempt(w)
        BY <3>1 DEF Run, Goto
      <4>2. JobIn(w) \in Jobs
        BY <3>1, BusySlot DEF Run, BudgetInv, SlotsInv, Types
      <4>3. details[JobIn(w)].max \in Nat /\ local[w].retry \in Nat
        BY <4>2 DEF BudgetInv, SlotsInv, Types, RepoTypeOK, WorkerTypeOK, Details
      <4>4. ~IsLastAttempt(w) => local[w].retry + 1 < details[JobOf[hand[w]]].max
        BY <4>3 DEF IsLastAttempt, JobIn
      <4> QED BY <2>1, <4>1, <4>4
    <3>2. CASE ~Run(w)
      <4>1. PICK l \in Labels \ {"count"} :
              /\ pc' = [pc EXCEPT ![w] = l]
              /\ \A v \in Slots : v # w => hand'[v] = hand[v] /\ local'[v] = local[v]
        BY <2>1, <2>2, <3>2
        DEF Handler, PrepareFetch, PrepareMark, Complete, Dead, Settle, Dispatch, FailCount,
            FailStatus, Ack, Nack, GiveUp, Free, Goto, Labels
      <4> QED BY <2>1, <4>1
    <3> QED BY <3>1, <3>2
  <2>3. CASE \E w \in Slots : Abort(w) \/ \E t \in Tasks : Dequeue(w, t)
    BY <2>1, <2>3 DEF Abort, Dequeue, Free, Goto
  <2>4. CASE \E t \in Tasks : WorkerForward(t) \/ Recover(t)
    BY <2>1, <2>4 DEF WorkerForward, Recover, workerVars
  <2>5. CASE \/ \E i \in Jobs : Clock(i)
             \/ Crash \/ Stop \/ Exit \/ ForceExit \/ Restart
    BY <2>1, <2>5
    DEF Clock, Crash, Stop, Exit, ForceExit, Restart, Die, workerVars
  <2> QED BY <2>2, <2>3, <2>4, <2>5 DEF WorkerNext
<1>4. RetryCountBelowMax'
  <2>1. RepoTypeOK /\ RetryCountBelowMax
    BY DEF BudgetInv, SlotsInv, Types
  <2>2. ASSUME UNCHANGED retryCount PROVE RetryCountBelowMax'
    BY <1>1, <2>1, <2>2 DEF Quiet, RetryCountBelowMax, HasRow
  <2>3. ASSUME NEW w \in Slots, FailCount(w) PROVE RetryCountBelowMax'
    <3>1. NextCount(w) \in Nat /\ JobIn(w) \in Jobs /\ NextCount(w) < details[JobIn(w)].max
      BY <2>3, BusySlot
      DEF FailCount, NextCount, BudgetInv, SlotsInv, Types, WorkerTypeOK, Affordable
    <3> QED BY <2>1, <2>3, <3>1, CountBelow DEF FailCount
  <2>4. ASSUME NEW w \in Slots, Handler(w), ~FailCount(w) PROVE RetryCountBelowMax'
    <3>1. UNCHANGED retryCount
      BY <2>4
      DEF Handler, PrepareFetch, PrepareMark, Run, Complete, Dead, Settle, Dispatch,
          FailStatus, Ack, Nack, GetByID, GetByIDFails, UpdateStatus, UpdateStatusFails,
          repoVars
    <3> QED BY <2>2, <3>1
  <2>5. CASE \/ \E w \in Slots : Abort(w) \/ \E t \in Tasks : Dequeue(w, t)
             \/ \E t \in Tasks : WorkerForward(t) \/ Recover(t)
             \/ \E i \in Jobs : Clock(i)
             \/ Crash \/ Stop \/ Exit \/ ForceExit \/ Restart
    <3>1. UNCHANGED retryCount
      BY <2>5
      DEF Abort, Dequeue, WorkerForward, Forward, Recover, Clock, TimePasses, Crash, Stop,
          Exit, ForceExit, Restart, Die, repoVars
    <3> QED BY <2>2, <3>1
  <2> QED BY <2>3, <2>4, <2>5 DEF WorkerNext
<1> QED BY <1>1, <1>2, <1>3, <1>4 DEF BudgetInv

(* job_repository.go: once a row was created its fixed columns stay. *)
Fixed == \A j \in Jobs : status[j] # "absent" =>
            status'[j] # "absent" /\ details'[j] = details[j]

LEMMA StageRow ==
  ASSUME BudgetInv, NEW c \in Clients, Stage(c)
  PROVE  Fixed /\ RetryCountBelowMax'
<1>1. /\ RepoTypeOK /\ RetryCountBelowMax
      /\ status \in [Jobs -> JobStatus \cup {"absent", "deleted"}]
      /\ retryCount \in [Jobs -> Nat] /\ details \in [Jobs -> Details]
      /\ job[c] \in Jobs /\ seen[c] \in Nat /\ WithBudget(input[c]) \in Details
  BY BudgetedType DEF BudgetInv, SlotsInv, Types, RepoTypeOK, ApiTypeOK
<1>2. ASSUME UNCHANGED <<status, retryCount, details>> PROVE Fixed /\ RetryCountBelowMax'
  BY <1>1, <1>2 DEF Fixed, RetryCountBelowMax, HasRow
<1>3. CASE \/ SubmitEnqueue(c) \/ SubmitCancel(c) \/ SubmitRetry(c)
           \/ Lookup(c) \/ Refetch(c) \/ Push(c) \/ CancelRead(c) \/ CancelCheck(c)
           \/ CancelTask(c) \/ RetryRead(c) \/ RetryPush(c) \/ Reread(c)
  <2>1. UNCHANGED <<status, retryCount, details>>
    BY <1>3
    DEF SubmitEnqueue, SubmitCancel, SubmitRetry, Submit, Lookup, Refetch, FindReplay, Push,
        CancelRead, CancelCheck, CancelTask, RetryRead, RetryPush, Reread, GetByID,
        GetByIDFails, OnlyQueue, repoVars
  <2> QED BY <1>2, <2>1
<1>4. CASE CreateRow(c)
  <2>1. \/ UNCHANGED <<status, retryCount, details>>
        \/ status[job[c]] = "absent" /\ Inserted(job[c], WithBudget(input[c]))
    BY <1>4 DEF CreateRow, Create, CreateFails, repoVars
  <2>2. WithBudget(input[c]).max \in Nat /\ 0 < WithBudget(input[c]).max
    BY <1>1 DEF Details
  <2>3. CASE status[job[c]] = "absent" /\ Inserted(job[c], WithBudget(input[c]))
    BY <1>1, <2>2, <2>3 DEF Inserted, Fixed, RetryCountBelowMax, HasRow
  <2> QED BY <1>2, <2>1, <2>3
<1>5. CASE Rollback(c)
  <2>1. /\ UNCHANGED <<retryCount, details>>
        /\ status' = status \/ status' = [status EXCEPT ![job[c]] = "deleted"]
    BY <1>5 DEF Rollback, Delete, DeleteFails, UpdateStatusFails, repoVars
  <2> QED BY <1>1, <2>1 DEF Fixed, RetryCountBelowMax, HasRow, JobStatus
<1>6. CASE CancelWrite(c) \/ RetryPend(c) \/ UndoStatus(c)
  <2>1. PICK s \in JobStatus : UpdateStatus(job[c], s) \/ UpdateStatusFails(job[c], s)
    BY <1>6 DEF CancelWrite, RetryPend, UndoStatus, JobStatus
  <2>2. /\ retryCount' = retryCount /\ details' = details
        /\ \/ status' = status
           \/ HasRow(job[c]) /\ status' = [status EXCEPT ![job[c]] = s]
    BY <1>1, <2>1, StatusWrite
  <2> QED BY <1>1, <2>2 DEF Fixed, RetryCountBelowMax, HasRow, JobStatus
<1>7. CASE RetryReset(c) \/ UndoCount(c)
  <2>1. PICK n \in Nat : /\ UpdateRetryCount(job[c], n) \/ UpdateRetryCountFails(job[c], n)
                         /\ n < details[job[c]].max
    <3>1. 0 < details[job[c]].max
      BY <1>1 DEF Details
    <3>2. at[c] \in Undone => seen[c] < details[job[c]].max
      BY DEF BudgetInv, Remembered
    <3> QED BY <1>1, <1>7, <3>1, <3>2 DEF RetryReset, UndoCount, Undone
  <2>2. status' = status /\ details' = details
    BY <1>1, <2>1, CountWrite
  <2>3. RetryCountBelowMax'
    BY <1>1, <2>1, CountBelow
  <2> QED BY <2>2, <2>3 DEF Fixed
<1> QED BY <1>3, <1>4, <1>5, <1>6, <1>7 DEF Stage, Handle

(* The job of a request that queues it was created. *)
LEMMA StageQueues ==
  ASSUME BudgetInv, NEW c \in Clients, Stage(c)
  PROVE  \A j \in Jobs : Queued(j)' => status[j] # "absent"
<1>1. /\ QueueTypeOK /\ job[c] \in Jobs /\ FirstTask[job[c]] \in Tasks
      /\ JobOf[FirstTask[job[c]]] = job[c] /\ InFuture(job[c]) \in BOOLEAN
      /\ \A j \in Jobs : Queued(j) => status[j] # "absent"
      /\ at[c] \in Undone \cup {"push"} => status[job[c]] # "absent"
  BY JobQueueAssumption, InFutureType DEF BudgetInv, SlotsInv, Types, ApiTypeOK, Created
<1>2. ASSUME NEW t \in Tasks, status[JobOf[t]] # "absent",
             \A u \in Tasks : u # t => task'[u] = task[u]
      PROVE  \A j \in Jobs : Queued(j)' => status[j] # "absent"
  BY <1>1, <1>2 DEF Queued
<1>3. ASSUME \A u \in Tasks : task'[u] # "new" => task[u] # "new"
      PROVE  \A j \in Jobs : Queued(j)' => status[j] # "absent"
  BY <1>1, <1>3 DEF Queued
<1>4. CASE Push(c)
  <2>1. UNCHANGED queueVars \/ EnqueueTask(FirstTask[job[c]], InFuture(job[c]))
    BY <1>4 DEF Push, EnqueueFails
  <2>2. at[c] = "push"
    BY <1>4 DEF Push
  <2>3. \A u \in Tasks : u # FirstTask[job[c]] => task'[u] = task[u]
    BY <1>1, <2>1, ApiQueueStep
  <2> QED BY <1>1, <1>2, <2>2, <2>3
<1>5. CASE RetryPush(c)
  <2>1. PICK t \in Tasks : /\ JobOf[t] = job[c]
                           /\ UNCHANGED queueVars \/ EnqueueTask(t, FALSE)
    BY <1>5 DEF RetryPush, EnqueueFails, RetryTasks, TasksOf
  <2>2. at[c] \in Undone
    BY <1>5 DEF RetryPush, Undone
  <2>3. \A u \in Tasks : u # t => task'[u] = task[u]
    BY <1>1, <2>1, ApiQueueStep
  <2> QED BY <1>1, <1>2, <2>1, <2>2, <2>3
<1>6. CASE CancelTask(c)
  <2>1. UNCHANGED queueVars \/ DeleteTask(FirstTask[job[c]])
    BY <1>6 DEF CancelTask
  <2>2. \A u \in Tasks : task'[u] # "new" => task[u] # "new"
    BY <1>1, <2>1 DEF DeleteTask, Move, QueueTypeOK, queueVars, Live
  <2> QED BY <1>3, <2>2
<1>7. CASE \/ SubmitEnqueue(c) \/ SubmitCancel(c) \/ SubmitRetry(c)
           \/ Lookup(c) \/ Refetch(c) \/ CreateRow(c) \/ Rollback(c)
           \/ CancelRead(c) \/ CancelWrite(c) \/ CancelCheck(c)
           \/ RetryRead(c) \/ RetryReset(c) \/ RetryPend(c)
           \/ UndoStatus(c) \/ UndoCount(c) \/ Reread(c)
  <2>1. task' = task
    BY <1>7
    DEF SubmitEnqueue, SubmitCancel, SubmitRetry, Submit, Lookup, Refetch, FindReplay,
        CreateRow, Rollback, CancelRead, CancelWrite, CancelCheck, RetryRead, RetryReset,
        RetryPend, UndoStatus, UndoCount, Reread, OnlyRepo, Elsewhere, queueVars
  <2> QED BY <1>3, <2>1
<1> QED BY <1>4, <1>5, <1>6, <1>7 DEF Stage, Handle

(* A request leaves the others alone, and comes to the stages of a manual
   retry, or to the push, only with a row that is there.                    *)
LEMMA StageClient ==
  ASSUME BudgetInv, NEW c \in Clients, Stage(c)
  PROVE  /\ \A d \in Clients \ {c} : /\ at'[d] = at[d] /\ job'[d] = job[d]
                                     /\ seen'[d] = seen[d]
         /\ at'[c] \in Undone \cup {"push"} =>
              job'[c] = job[c] /\ status'[job[c]] # "absent"
         /\ at'[c] \in Undone =>
              status[job[c]] # "absent" /\ seen'[c] < details[job[c]].max
<1>1. /\ at \in [Clients -> Stages] /\ job \in [Clients -> Jobs]
      /\ seen \in [Clients -> Nat] /\ job[c] \in Jobs
      /\ status \in [Jobs -> JobStatus \cup {"absent", "deleted"}]
      /\ Fixed
  BY StageRow DEF BudgetInv, ApiTypeOK, SlotsInv, Types, RepoTypeOK
<1>2. \A d \in Clients \ {c} : at'[d] = at[d] /\ job'[d] = job[d] /\ seen'[d] = seen[d]
  <2>1. seen' = seen \/ seen' = [seen EXCEPT ![c] = retryCount[job[c]]]
    BY DEF Stage, Handle, SubmitEnqueue, SubmitCancel, SubmitRetry, Submit, Lookup, Refetch,
           FindReplay, CreateRow, Push, Rollback, CancelRead, CancelWrite, CancelCheck,
           CancelTask, RetryRead, RetryReset, RetryPend, RetryPush, UndoStatus, UndoCount,
           Reread, OnlyRepo, OnlyQueue
  <2>2. /\ \E l \in Stages : at' = [at EXCEPT ![c] = l]
        /\ job' = job \/ \E j \in Jobs : job' = [job EXCEPT ![c] = j]
    <3>1. CASE SubmitEnqueue(c) \/ SubmitCancel(c) \/ SubmitRetry(c)
      BY <3>1 DEF SubmitEnqueue, SubmitCancel, SubmitRetry, Submit, Advance, Stages
    <3>2. CASE Lookup(c) \/ Refetch(c)
      BY <3>2 DEF Lookup, Refetch, FindReplay, WithKey, Advance, Answer, AnswerWith, Stages
    <3>3. CASE ~(\/ SubmitEnqueue(c) \/ SubmitCancel(c) \/ SubmitRetry(c)
                 \/ Lookup(c) \/ Refetch(c))
      BY <3>3
      DEF Stage, Handle, CreateRow, Push, Rollback, CancelRead, CancelWrite, CancelCheck,
          CancelTask, RetryRead, RetryReset, RetryPend, RetryPush, UndoStatus, UndoCount,
          Reread, Advance, Answer, Stages
    <3> QED BY <3>1, <3>2, <3>3
  <2> QED BY <1>1, <2>1, <2>2
<1>3. CASE CreateRow(c)
  <2>1. at'[c] \in Undone \cup {"push"} => at'[c] = "push" /\ status'[job[c]] = "pending"
    BY <1>1, <1>3
    DEF CreateRow, Create, Inserted, Advance, Answer, Undone
  <2>2. job' = job
    BY <1>3 DEF CreateRow, Advance, Answer
  <2> QED BY <1>2, <2>1, <2>2 DEF Undone
<1>4. CASE RetryRead(c)
  <2>1. /\ job' = job
        /\ at'[c] \in Undone \cup {"push"} =>
             HasRow(job[c]) /\ status[job[c]] = "dead" /\ seen'[c] = retryCount[job[c]]
    BY <1>1, <1>4 DEF RetryRead, GetByID, Retryable, Advance, Answer, Undone
  <2> QED BY <1>1, <1>2, <2>1 DEF BudgetInv, RetryCountBelowMax, Fixed
<1>5. CASE RetryReset(c) \/ RetryPend(c) \/ RetryPush(c) \/ UndoStatus(c) \/ UndoCount(c)
  <2>1. at[c] \in Undone /\ job' = job /\ seen' = seen
    BY <1>5
    DEF RetryReset, RetryPend, RetryPush, UndoStatus, UndoCount, OnlyRepo, OnlyQueue,
        Advance, Answer, Undone
  <2>2. at'[c] # "push"
    BY <1>1, <1>5
    DEF RetryReset, RetryPend, RetryPush, UndoStatus, UndoCount, Advance, Answer
  <2> QED BY <1>1, <1>2, <2>1, <2>2 DEF BudgetInv, Created, Remembered, Fixed
<1>6. CASE \/ SubmitEnqueue(c) \/ SubmitCancel(c) \/ SubmitRetry(c)
           \/ Lookup(c) \/ Refetch(c) \/ Push(c) \/ Rollback(c) \/ CancelRead(c)
           \/ CancelWrite(c) \/ CancelCheck(c) \/ CancelTask(c) \/ Reread(c)
  <2>1. at'[c] \notin Undone \cup {"push"}
    BY <1>1, <1>6
    DEF SubmitEnqueue, SubmitCancel, SubmitRetry, Submit, Lookup, Refetch, FindReplay, Push,
        Rollback, CancelRead, CancelWrite, CancelCheck, CancelTask, Reread, Advance, Answer,
        AnswerWith, Undone
  <2> QED BY <1>2, <2>1
<1> QED BY <1>3, <1>4, <1>5, <1>6 DEF Stage, Handle

LEMMA StageKeepsBudget ==
  ASSUME BudgetInv, NEW c \in Clients, Stage(c), UNCHANGED workerVars
  PROVE  BudgetInv'
<1>1. /\ SlotsInv' /\ ApiTypeOK' /\ RetryCountBelowMax' /\ Fixed
  BY StageKeepsSlots, StageKeepsApi, StageRow DEF BudgetInv
<1>2. job \in [Clients -> Jobs] /\ job' \in [Clients -> Jobs]
  BY <1>1 DEF BudgetInv, ApiTypeOK
<1>3. Created'
  <2>1. \A j \in Jobs : Queued(j)' => status'[j] # "absent"
    BY <1>1, StageQueues DEF Fixed
  <2>2. \A d \in Clients : at'[d] \in Undone \cup {"push"} => status'[job'[d]] # "absent"
    BY <1>1, <1>2, StageClient DEF BudgetInv, Created, Fixed
  <2> QED BY <2>1, <2>2 DEF Created
<1>4. Remembered'
  BY <1>1, <1>2, StageClient DEF BudgetInv, Created, Remembered, Fixed
<1>5. Affordable'
  <2>1. ASSUME NEW w \in Slots, pc[w] = "count" PROVE details'[JobIn(w)] = details[JobIn(w)]
    BY <1>1, <2>1, HeldIsQueued DEF BudgetInv, Created, Fixed
  <2> QED BY <2>1 DEF BudgetInv, Affordable, workerVars, JobIn
<1> QED BY <1>1, <1>3, <1>4, <1>5 DEF BudgetInv

LEMMA BudgetKept ==
  ASSUME BudgetInv, [Next]_vars
  PROVE  BudgetInv'
<1>1. SlotsInv' /\ ApiTypeOK'
  BY StepTypes DEF BudgetInv
<1>2. CASE WorkerNext /\ UNCHANGED apiVars
  BY <1>2, WorkerKeepsBudget
<1>3. CASE \E c \in Clients : Stage(c) /\ UNCHANGED workerVars
  BY <1>3, StageKeepsBudget
<1>4. CASE (ApiCrash /\ UNCHANGED workerVars) \/ UNCHANGED vars
  <2>1. UNCHANGED <<status, retryCount, details, task, pc, hand, local, job, seen>>
    BY <1>4 DEF ApiCrash, vars, repoVars, queueVars, workerVars, apiVars
  <2>2. \A c \in Clients : at'[c] = at[c] \/ at'[c] = "end"
    BY <1>4 DEF ApiCrash, vars, apiVars
  <2>3. Created' /\ Remembered'
    BY <2>1, <2>2 DEF BudgetInv, Created, Remembered, Queued, Undone
  <2>4. Affordable' /\ RetryCountBelowMax'
    BY <2>1 DEF BudgetInv, Affordable, RetryCountBelowMax, JobIn, HasRow
  <2> QED BY <1>1, <2>3, <2>4 DEF BudgetInv
<1> QED BY <1>2, <1>3, <1>4 DEF Next, ApiNext, Stage

(* base.go, Fail and IsLastAttempt with admin.go, RetryDeadJob: whatever
   requests, manual retries and their rollbacks race with the handlers, the
   retry_count of a job stays below its max_retries.                        *)
THEOREM CountInBudget == Spec => []RetryCountBelowMax
<1>1. Init => BudgetInv
  <2> SUFFICES ASSUME Init PROVE BudgetInv
    OBVIOUS
  <2>1. Created /\ Remembered /\ Affordable /\ RetryCountBelowMax
    BY DEF Init, RepoInit, QueueInit, WorkerInit, ApiInit, Created, Remembered, Affordable,
           RetryCountBelowMax, Queued, HasRow, JobStatus, Undone
  <2> QED BY <2>1, InitTypes DEF BudgetInv
<1>2. BudgetInv /\ [Next]_vars => BudgetInv'
  BY BudgetKept
<1>3. BudgetInv => RetryCountBelowMax
  BY DEF BudgetInv
<1> QED BY <1>1, <1>2, <1>3, PTL DEF Spec
=============================================================================
