--------------------------- MODULE JobWorkerProofs ---------------------------
(***************************************************************************)
(* The worker on its own, for any jobs, tasks, slots and numbers of faults *)
(* and crashes.  Its inductive invariant IInv adds to the slots            *)
(* (JobHandlersProofs) and the books (JobAccountsProofs) what holds only   *)
(* where no request takes a job back: a row stays, and a task that is      *)
(* finished was announced.                                                 *)
(***************************************************************************)
EXTENDS JobWorker, JobAccountsProofs

(* No row is deleted or cancelled without a request of the API. *)
Rows == \A j \in Jobs : status[j] \in JobStatus \ {"cancelled"}

(* The handler returns nil only after Complete announced the job as done. *)
Acked == \A w \in Slots : pc[w] = "ack" => "done" \in announced[JobIn(w)]

JobsInv == Rows /\ Acked /\ FinishedAnnounced

IInv == SlotsInv /\ AccountsInv /\ JobsInv

-----------------------------------------------------------------------------
(* A step inside a handler, that writes s to the row at most. *)
LEMMA AttemptStep ==
  ASSUME SlotsInv, JobsInv, NEW w \in Slots, pc[w] # "idle",
         NEW l \in Labels, Moves(w, l), NEW s \in JobStatus \ {"cancelled"},
         status' = status \/ status' = [status EXCEPT ![JobIn(w)] = s],
         \A j \in Jobs : announced[j] \subseteq announced'[j],
         l = "ack" => "done" \in announced'[JobIn(w)]
  PROVE  JobsInv'
<1>1. hand' = hand /\ task' = task /\ pc' = [pc EXCEPT ![w] = l]
  BY DEF Moves, queueVars
<1>2. Rows'
  BY DEF JobsInv, Rows, SlotsInv, Types, RepoTypeOK
<1>3. Acked'
  <2> SUFFICES ASSUME NEW v \in Slots, pc'[v] = "ack" PROVE "done" \in announced'[JobIn(v)]
    BY <1>1 DEF Acked, JobIn
  <2>1. CASE v = w
    BY <1>1, <2>1 DEF SlotsInv, Types, WorkerTypeOK
  <2>2. CASE v # w
    <3>1. pc[v] = "ack"
      BY <1>1, <2>2 DEF SlotsInv, Types, WorkerTypeOK
    <3>2. JobIn(v) \in Jobs
      BY <3>1, BusySlot DEF SlotsInv, Types
    <3> QED BY <3>1, <3>2 DEF JobsInv, Acked
  <2> QED BY <2>1, <2>2
<1>4. FinishedAnnounced'
  BY <1>1, JobQueueAssumption DEF JobsInv, FinishedAnnounced
<1> QED BY <1>2, <1>3, <1>4 DEF JobsInv

(* base.go: every call of a handler *)
LEMMA CallStep ==
  ASSUME SlotsInv, JobsInv, NEW w \in Slots, Handler(w), ~Ack(w), ~Nack(w)
  PROVE  JobsInv'
<1>1. /\ pc[w] # "idle" /\ hand[w] \in Tasks /\ JobIn(w) \in Jobs /\ RepoTypeOK
      /\ NextCount(w) \in Nat /\ announced \in [Jobs -> SUBSET {"done", "dead"}]
  BY BusySlot
  DEF Handler, PrepareFetch, PrepareMark, Run, Complete, Dead, Dispatch, FailCount,
      FailStatus, NextCount, SlotsInv, Types, WorkerTypeOK
<1>2. PICK s \in JobStatus \ {"cancelled"} :
        status' = status \/ status' = [status EXCEPT ![JobIn(w)] = s]
  <2>1. CASE PrepareFetch(w) \/ Run(w) \/ Dispatch(w) \/ FailCount(w)
    <3>1. status' = status
      BY <1>1, <2>1, ReadOnly, CountWrite
      DEF PrepareFetch, Run, Dispatch, FailCount, repoVars
    <3> QED BY <3>1 DEF JobStatus
  <2>2. CASE PrepareMark(w)
    BY <1>1, <2>2, StatusWrite DEF PrepareMark, JobStatus
  <2>3. CASE Complete(w) \/ Dead(w)
    <3>1. \E s \in {"done", "dead"} : UpdateStatus(JobIn(w), s) \/ UpdateStatusFails(JobIn(w), s)
      BY <2>3 DEF Complete, Dead, Settle
    <3> QED BY <1>1, <3>1, StatusWrite DEF JobStatus
  <2>4. CASE FailStatus(w)
    BY <1>1, <2>4, StatusWrite DEF FailStatus, JobStatus
  <2> QED BY <2>1, <2>2, <2>3, <2>4 DEF Handler
<1>3. PICK l \in Labels : Moves(w, l)
  BY DEF Handler, PrepareFetch, PrepareMark, Run, Complete, Dead, Settle, Dispatch,
         FailCount, FailStatus, Moves, Goto, GiveUp, Process, Labels
<1>4. /\ \A j \in Jobs : announced[j] \subseteq announced'[j]
      /\ pc'[w] = "ack" => "done" \in announced'[JobIn(w)]
  <2>1. CASE Dispatch(w)
    BY <1>1, <2>1 DEF Dispatch, Goto, SlotsInv, Types, WorkerTypeOK
  <2>2. CASE ~Dispatch(w)
    <3>1. announced' = announced
      BY <2>2 DEF Handler, PrepareFetch, PrepareMark, Run, Complete, Dead, Settle, FailCount,
                  FailStatus
    <3>2. ~Skips(status[JobIn(w)])
      BY <1>1 DEF JobsInv, Rows, Skips
    <3>3. pc'[w] # "ack"
      BY <2>2, <3>2
      DEF Handler, PrepareFetch, PrepareMark, Run, Complete, Dead, Settle, FailCount,
          FailStatus, Goto, GiveUp, SlotsInv, Types, WorkerTypeOK
    <3> QED BY <3>1, <3>3
  <2> QED BY <2>1, <2>2
<1>5. pc'[w] = l
  BY <1>3 DEF Moves, SlotsInv, Types, WorkerTypeOK
<1> QED BY <1>1, <1>2, <1>3, <1>4, <1>5, AttemptStep

(* Steps that leave the jobs alone: a task is finished only by an ack. *)
LEMMA QueueStep ==
  ASSUME SlotsInv, JobsInv, JobsKept,
         \A v \in Slots : pc'[v] = "ack" => pc[v] = "ack" /\ hand'[v] = hand[v],
         \A t \in Tasks : task'[t] = "finished" =>
            \/ task[t] = "finished"
            \/ \E v \in Slots : hand[v] = t /\ pc[v] = "ack"
  PROVE  JobsInv'
<1>1. Rows'
  BY DEF JobsKept, JobsInv, Rows
<1>2. Acked'
  BY DEF JobsKept, JobsInv, Acked, JobIn
<1>3. FinishedAnnounced'
  BY DEF JobsKept, JobsInv, Acked, FinishedAnnounced, JobIn
<1> QED BY <1>1, <1>2, <1>3 DEF JobsInv

(* processor.go and main.go: every other step of the worker *)
LEMMA RestStep ==
  ASSUME SlotsInv, JobsInv, WorkerNext, ~ \E w \in Slots : Handler(w) /\ ~Ack(w) /\ ~Nack(w)
  PROVE  JobsInv'
<1>1. CASE \E w \in Slots : Ack(w) \/ Nack(w) \/ Abort(w)
  <2>1. PICK w \in Slots : Ack(w) \/ Nack(w) \/ Abort(w)
    BY <1>1
  <2>2. /\ JobsKept /\ Free(w)
        /\ \E s \in TaskState : /\ task' = [task EXCEPT ![hand[w]] = s]
                                /\ s = "finished" => pc[w] = "ack"
    BY <2>1 DEF Ack, Nack, Abort, DoneTask, FailTask, RequeueTask, Move, JobsKept, repoVars,
                TaskState
  <2> QED BY <2>2, QueueStep DEF Free, Goto, SlotsInv, Types, QueueTypeOK, WorkerTypeOK
<1>2. CASE \E w \in Slots, t \in Tasks : Dequeue(w, t)
  <2>1. PICK w \in Slots, t \in Tasks : Dequeue(w, t)
    BY <1>2
  <2>2. /\ JobsKept /\ pc[w] = "idle"
        /\ pc' = [pc EXCEPT ![w] = "fetch"] /\ hand' = [hand EXCEPT ![w] = t]
        /\ task' = [task EXCEPT ![t] = "active"]
    BY <2>1 DEF Dequeue, DequeueTask, Move, Goto, JobsKept, repoVars
  <2> QED BY <2>2, QueueStep DEF SlotsInv, Types, QueueTypeOK, WorkerTypeOK
<1>3. CASE \E t \in Tasks : WorkerForward(t) \/ Recover(t)
  <2>1. PICK t \in Tasks : WorkerForward(t) \/ Recover(t)
    BY <1>3
  <2>2. /\ JobsKept /\ pc' = pc /\ hand' = hand
        /\ \E s \in {"pending", "retry", "archived"} : task' = [task EXCEPT ![t] = s]
    BY <2>1 DEF WorkerForward, Forward, ForwardTask, Recover, FailTask, Move, workerVars,
                JobsKept, repoVars
  <2> QED BY <2>2, QueueStep DEF SlotsInv, Types, QueueTypeOK
<1>4. CASE \/ Crash \/ Stop \/ Exit \/ ForceExit \/ Restart
           \/ \E j \in Jobs : Clock(j)
  <2>1. /\ JobsKept /\ task' = task
        /\ \/ pc' = pc /\ hand' = hand
           \/ \A v \in Slots : pc'[v] = "idle"
    BY <1>4 DEF Crash, Stop, Exit, ForceExit, Restart, Die, Clock, TimePasses, workerVars,
                repoVars, queueVars, JobsKept
  <2> QED BY <2>1, QueueStep
<1> QED BY <1>1, <1>2, <1>3, <1>4 DEF WorkerNext

-----------------------------------------------------------------------------
(* The states Enqueue leaves behind satisfy the invariant. *)
LEMMA InitInv == Init => IInv
<1> SUFFICES ASSUME Init PROVE IInv
  OBVIOUS
<1> USE DEF Init, WorkerInit, DueInit
<1>1. \A j \in Jobs : details[j] \in Details
  <2>1. ASSUME NEW in \in Inputs PROVE WithBudget(in) \in Details
    <3>1. in \in [type: JobType, bad: BOOLEAN, max: Nat,
                 key: Keys \cup {NoKey}, later: BOOLEAN]
      BY JobQueueAssumption
    <3>2. CASE in.max = 0
      BY <3>1, <3>2 DEF WithBudget, DefaultBudget, Details
    <3>3. CASE in.max # 0
      BY <3>1, <3>3 DEF WithBudget, Details
    <3> QED BY <3>2, <3>3
  <2> QED BY <2>1
<1>2. Types
  <2>1. RepoTypeOK
    BY <1>1, RepositoryAssumption DEF RepoTypeOK, JobStatus
  <2>2. WorkerTypeOK
    BY WorkerAssumption DEF WorkerTypeOK, Labels, JobStatus
  <2> QED BY <2>1, <2>2 DEF Types, QueueTypeOK, DueTypeOK, TaskState
<1>3. SlotsInv
  BY <1>2 DEF SlotsInv, Holding, Apart, Verdict
<1>4. JobsInv
  BY DEF JobsInv, Rows, Acked, FinishedAnnounced, JobStatus
<1>5. OneTaskPerJob /\ InSync /\ Counting /\ Spent
  BY DEF OneTaskPerJob, InSync, Counting, Spent
<1>6. BelowMax
  <2>1. \A m \in Nat : m # 0 => 0 < m
    OBVIOUS
  <2>2. SUFFICES ASSUME NEW j \in Jobs PROVE retryCount[j] < details[j].max
    BY DEF BelowMax
  <2>3. details[j].max \in Nat /\ details[j].max # 0
    BY <1>1 DEF Details
  <2>4. retryCount[j] = 0
    OBVIOUS
  <2> HIDE DEF Init
  <2> QED BY <2>1, <2>3, <2>4
<1>7. RetryAccounting
  BY JobQueueAssumption DEF RetryAccounting, Owed, Held
<1> QED BY <1>3, <1>4, <1>5, <1>6, <1>7 DEF IInv, AccountsInv

(* Every step of the worker, and every stutter, keeps the invariant. *)
LEMMA NextInv == IInv /\ [Next]_vars => IInv'
<1> SUFFICES ASSUME IInv, [Next]_vars PROVE IInv'
  OBVIOUS
<1>1. CASE Next
  <2>1. SlotsInv'
    BY <1>1, WorkerKeepsSlots DEF Next, IInv
  <2>2. AccountsInv'
    BY <1>1, <2>1, WorkerKeepsAccounts DEF Next, IInv
  <2>3. JobsInv'
    BY <1>1, CallStep, RestStep DEF Next, IInv
  <2> QED BY <2>1, <2>2, <2>3 DEF IInv
<1>2. CASE UNCHANGED vars
  BY <1>2
  DEF vars, repoVars, queueVars, workerVars, IInv, SlotsInv, Types, RepoTypeOK,
      QueueTypeOK, DueTypeOK, WorkerTypeOK, Holding, Apart, Verdict, AccountsInv,
      OneTaskPerJob, InSync, Counting, Spent, Exhausted, MaxRetry, BelowMax, JobsInv, Rows,
      Acked, JobIn, FinishedAnnounced, RetryAccounting, Owed, Held
<1> QED BY <1>1, <1>2

(* The invariant all of the following rest on. *)
LEMMA Invariance == Spec => []IInv
BY InitInv, NextInv, PTL DEF Spec

(* Every variable keeps its type, whatever the handlers and asynq do. *)
THEOREM TypeCorrect == Spec => []TypeOK
<1>1. IInv => TypeOK
  BY DEF IInv, SlotsInv, Types, TypeOK
<1> QED BY <1>1, Invariance, PTL

(* base.go, Fail and IsLastAttempt: retry_count never reaches max_retries. *)
THEOREM CountStaysBelowMax == Spec => []RetryCountBelowMax
<1>1. IInv => RetryCountBelowMax
  BY DEF IInv, AccountsInv, BelowMax, RetryCountBelowMax
<1> QED BY <1>1, Invariance, PTL

(* base.go, Complete: a task leaves the queue for good only after the done
   event of its job was dispatched.                                        *)
THEOREM FinishedOnlyAnnounced == Spec => []FinishedAnnounced
<1>1. IInv => FinishedAnnounced
  BY DEF IInv, JobsInv
<1> QED BY <1>1, Invariance, PTL

(* base.go, Fail: until a death is announced, retry_count has followed every
   attempt asynq charged, but for those that were lost.                    *)
THEOREM RetriesAccountedFor == Spec => []RetryAccounting
<1>1. IInv => RetryAccounting
  BY DEF IInv, AccountsInv
<1> QED BY <1>1, Invariance, PTL

(* base.go, FailOrDead: asynq's one attempt more than max_retries is room for
   one lost attempt, so that no task is given up on in silence.            *)
THEOREM ArchivedOnlyAnnounced == Spec => []ExhaustedAnnounced
<1>1. IInv => ExhaustedAnnounced
  BY SilenceTakesTwo DEF IInv
<1> QED BY <1>1, Invariance, PTL
=============================================================================
