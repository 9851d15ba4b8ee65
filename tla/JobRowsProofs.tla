----------------------------- MODULE JobRowsProofs -----------------------------
(***************************************************************************)
(* Theorems about the two stores together, where nobody retries by hand: a *)
(* pending row has a task that is coming, or a request that sees to it; a  *)
(* job that has ended its work has an end the row tells, unless a running  *)
(* step or request still owes it; the counters of the row and of the task  *)
(* agree, and an archived task stays silent only if attempts were lost.    *)
(***************************************************************************)
EXTENDS JobSystemProofs, JobAccountsProofs

NoManualRetry == \A c \in Clients : "retry" \notin Ops[c]
NoRetries     == \A c \in Clients : at[c] \notin Undone \cup {"retryRead", "reread"}

(* An attempt of t that is over, but that asynq has not charged to it yet. *)
Uncharged(t) == \/ task[t] = "active" /\ t \notin Held
                \/ \E w \in Slots : hand[w] = t /\ pc[w] = "nack"

(* base.go, Prepare: as long as the row of a queued task says pending, every
   attempt asynq has charged to the task was lost.                          *)
AllLost == \A t \in Tasks : status[JobOf[t]] = "pending" /\ task[t] # "new" =>
  /\ task[t] \in Live \/ lost[t] > MaxRetry(t)
  /\ retried[t] <= lost[t]
  /\ Uncharged(t) => retried[t] < lost[t]

(* ... and no attempt has come past Prepare. *)
Untouched == \A w \in Slots :
  pc[w] # "idle" /\ status[JobIn(w)] = "pending" => pc[w] \in {"fetch", "mark", "nack"}

NewIsUnspent == \A t \in Tasks : task[t] = "new" => retried[t] = 0

RowInv == AllLost /\ Untouched /\ NewIsUnspent

-----------------------------------------------------------------------------
(* A step of the handler of slot w, which loses its attempt or does not. *)
LEMMA HandlerKeepsRows ==
  ASSUME SlotsInv, RowInv, NEW w \in Slots, pc[w] # "idle", NEW l \in Labels \ {"idle"},
         Moves(w, l), details' = details,
         \A j \in Jobs : status'[j] = "pending" => status[j] = "pending",
         \/ lost' = lost
         \/ lost' = [lost EXCEPT ![hand[w]] = @ + 1],
         status'[JobIn(w)] = "pending" =>
            \/ l = "mark"
            \/ l = "nack" /\ lost' = [lost EXCEPT ![hand[w]] = @ + 1] /\ pc[w] # "nack"
  PROVE  RowInv'
<1>1. /\ hand[w] \in Tasks /\ JobIn(w) \in Jobs /\ \A t \in Tasks : JobOf[t] \in Jobs
      /\ pc \in [Slots -> Labels] /\ hand \in [Slots -> Tasks \cup {NoTask}]
      /\ lost \in [Tasks -> Nat] /\ retried \in [Tasks -> Nat]
      /\ UNCHANGED <<task, retried, hand>> /\ pc' = [pc EXCEPT ![w] = l]
  BY BusySlot, JobQueueAssumption
  DEF SlotsInv, Types, WorkerTypeOK, QueueTypeOK, Moves, queueVars
<1>2. \A t \in Tasks : /\ lost'[t] = lost[t] \/ (t = hand[w] /\ lost'[t] = lost[t] + 1)
                       /\ lost[t] \in Nat /\ retried[t] \in Nat /\ MaxRetry(t) \in Nat
  <2>1. \A t \in Tasks : MaxRetry(t) \in Nat
    BY <1>1 DEF MaxRetry, SlotsInv, Types, RepoTypeOK, Details
  <2> QED BY <1>1, <2>1
<1>3. ASSUME NEW t \in Tasks, status'[JobOf[t]] = "pending", task[t] # "new"
      PROVE  /\ task[t] \in Live \/ lost'[t] > MaxRetry(t)
             /\ retried[t] <= lost'[t]
             /\ Uncharged(t)' => retried[t] < lost'[t]
  <2>1. /\ task[t] \in Live \/ lost[t] > MaxRetry(t)
        /\ retried[t] <= lost[t]
        /\ Uncharged(t) => retried[t] < lost[t]
    BY <1>1, <1>3 DEF RowInv, AllLost
  <2>2. CASE t # hand[w]
    <3>1. Uncharged(t)' => Uncharged(t)
      BY <1>1, <2>2 DEF Uncharged, Held
    <3> QED BY <1>2, <2>1, <2>2, <3>1
  <2>3. CASE t = hand[w]
    <3>1. \A v \in Slots : hand[v] = t => v = w
      BY <1>1, <2>3, WorkerAssumption DEF SlotsInv, Apart
    <3>2. t \in Held
      BY <1>1, <2>3, WorkerAssumption DEF Held
    <3>3. Uncharged(t)' => l = "nack"
      BY <1>1, <3>1, <3>2 DEF Uncharged, Held
    <3>4. Uncharged(t)' => lost'[t] = lost[t] + 1
      BY <1>1, <1>3, <2>3, <3>3 DEF JobIn
    <3> QED BY <1>2, <2>1, <3>4
  <2> QED BY <2>2, <2>3
<1>4. AllLost'
  <2>1. \A t \in Tasks : MaxRetry(t)' = MaxRetry(t)
    BY DEF MaxRetry
  <2> QED BY <1>1, <1>3, <2>1 DEF AllLost
<1>5. Untouched'
  <2> SUFFICES ASSUME NEW v \in Slots, pc'[v] # "idle", status'[JobOf[hand[v]]] = "pending"
               PROVE  pc'[v] \in {"fetch", "mark", "nack"}
    BY <1>1 DEF Untouched, JobIn
  <2>1. CASE v = w
    BY <1>1, <2>1 DEF JobIn
  <2>2. CASE v # w
    <3>1. pc[v] # "idle" /\ pc'[v] = pc[v]
      BY <1>1, <2>2
    <3>2. JobIn(v) \in Jobs
      BY <3>1, BusySlot DEF SlotsInv, Types
    <3> QED BY <3>1, <3>2 DEF RowInv, Untouched, JobIn
  <2> QED BY <2>1, <2>2
<1> QED BY <1>1, <1>4, <1>5 DEF RowInv, NewIsUnspent

(* asynq takes t back from the slot that had it, or from a dead process. *)
LEMMA ReturnKeepsRows ==
  ASSUME SlotsInv, RowInv, NEW t \in Tasks,
         UNCHANGED <<status, details, lost>>,
         pc' \in [Slots -> Labels], hand' \in [Slots -> Tasks \cup {NoTask}],
         \A v \in Slots : \/ pc'[v] = pc[v] /\ hand'[v] = hand[v] /\ hand[v] # t
                          \/ pc'[v] = "idle" /\ hand'[v] = NoTask /\ hand[v] = t,
         \/ DoneTask(t) /\ status[JobOf[t]] # "pending"
         \/ FailTask(t, MaxRetry(t)) /\ (status[JobOf[t]] = "pending" => Uncharged(t))
         \/ RequeueTask(t)
  PROVE  RowInv'
<1>1. /\ \A u \in Tasks : JobOf[u] \in Jobs
      /\ task \in [Tasks -> TaskState] /\ retried \in [Tasks -> Nat]
      /\ lost \in [Tasks -> Nat] /\ hand \in [Slots -> Tasks \cup {NoTask}]
  BY JobQueueAssumption DEF SlotsInv, Types, WorkerTypeOK, QueueTypeOK
<1>2. \A u \in Tasks : MaxRetry(u) \in Nat /\ MaxRetry(u)' = MaxRetry(u)
  BY <1>1 DEF MaxRetry, SlotsInv, Types, RepoTypeOK, Details
<1>3. /\ \A u \in Tasks \ {t} : task'[u] = task[u] /\ retried'[u] = retried[u]
      /\ task[t] = "active" /\ task'[t] \in {"finished", "archived", "retry", "pending"}
  BY <1>1 DEF DoneTask, FailTask, RequeueTask, Move
<1>4. ASSUME NEW u \in Tasks \ {t} PROVE Uncharged(u)' => Uncharged(u)
  <2>1. u \in Held => u \in Held'
    BY WorkerAssumption DEF Held
  <2>2. \A v \in Slots : hand'[v] = u => pc'[v] = pc[v] /\ hand[v] = u
    BY WorkerAssumption
  <2> QED BY <1>3, <2>1, <2>2 DEF Uncharged
<1>5. ~Uncharged(t)'
  BY <1>3, WorkerAssumption DEF Uncharged
<1>6. AllLost'
  <2>1. ASSUME NEW u \in Tasks \ {t} PROVE status[JobOf[u]] = "pending" /\ task'[u] # "new" =>
            /\ task'[u] \in Live \/ lost[u] > MaxRetry(u)
            /\ retried'[u] <= lost[u]
            /\ Uncharged(u)' => retried'[u] < lost[u]
    BY <1>3, <1>4 DEF RowInv, AllLost
  <2>2. status[JobOf[t]] = "pending" =>
            /\ task'[t] \in Live \/ lost[t] > MaxRetry(t)
            /\ retried'[t] <= lost[t]
    <3>1. ASSUME status[JobOf[t]] = "pending"
          PROVE  /\ retried[t] <= lost[t] /\ (Uncharged(t) => retried[t] < lost[t])
                 /\ retried[t] \in Nat /\ lost[t] \in Nat /\ MaxRetry(t) \in Nat
      BY <1>1, <1>2, <1>3, <3>1 DEF RowInv, AllLost
    <3>2. CASE RequeueTask(t)
      BY <1>1, <3>1, <3>2 DEF RequeueTask, Move, Live
    <3>3. CASE FailTask(t, MaxRetry(t)) /\ (status[JobOf[t]] = "pending" => Uncharged(t))
      BY <1>1, <1>3, <3>1, <3>3 DEF FailTask, Exhausted, Move, Live
    <3> QED BY <3>2, <3>3
  <2> QED BY <1>2, <1>5, <2>1, <2>2 DEF AllLost
<1>7. Untouched'
  BY DEF RowInv, Untouched, JobIn
<1>8. NewIsUnspent'
  BY <1>3 DEF RowInv, NewIsUnspent
<1> QED BY <1>6, <1>7, <1>8 DEF RowInv

(* The worker process ends, and leaves the attempts it made behind. *)
LEMMA DieKeepsRows ==
  ASSUME SlotsInv, RowInv, Die
  PROVE  RowInv'
<1>1. /\ \A t \in Tasks : JobOf[t] \in Jobs
      /\ pc' = [w \in Slots |-> "idle"] /\ hand' = [w \in Slots |-> NoTask]
      /\ UNCHANGED <<status, details, task, retried>>
      /\ lost \in [Tasks -> Nat] /\ retried \in [Tasks -> Nat]
      /\ lost' = [t \in Tasks |-> IF \E w \in Slots : hand[w] = t /\ Unrecorded(w)
                                 THEN lost[t] + 1 ELSE lost[t]]
  BY JobQueueAssumption
  DEF Die, SlotsInv, Types, WorkerTypeOK, QueueTypeOK, repoVars, queueVars
<1>2. \A t \in Tasks : MaxRetry(t) \in Nat /\ MaxRetry(t)' = MaxRetry(t)
  BY <1>1 DEF MaxRetry, SlotsInv, Types, RepoTypeOK, Details
<1>3. ASSUME NEW t \in Tasks, status[JobOf[t]] = "pending", task[t] # "new"
      PROVE  /\ task[t] \in Live \/ lost'[t] > MaxRetry(t)
             /\ retried[t] <= lost'[t]
             /\ Uncharged(t)' => retried[t] < lost'[t]
  <2>1. /\ task[t] \in Live \/ lost[t] > MaxRetry(t)
        /\ retried[t] <= lost[t]
        /\ Uncharged(t) => retried[t] < lost[t]
    BY <1>3 DEF RowInv, AllLost
  <2>2. /\ lost[t] \in Nat /\ retried[t] \in Nat
        /\ lost'[t] = lost[t] \/ lost'[t] = lost[t] + 1
    BY <1>1
  <2>3. ASSUME Uncharged(t)', ~Uncharged(t) PROVE lost'[t] = lost[t] + 1
    <3>1. PICK w \in Slots : hand[w] = t /\ pc[w] # "nack"
      BY <1>1, <2>3 DEF Uncharged, Held
    <3>2. pc[w] \in {"fetch", "mark"}
      BY <1>3, <3>1, WorkerAssumption DEF RowInv, Untouched, JobIn, SlotsInv, Holding
    <3> QED BY <1>1, <3>1, <3>2 DEF Unrecorded
  <2> QED BY <1>2, <2>1, <2>2, <2>3
<1>4. AllLost'
  BY <1>1, <1>2, <1>3 DEF AllLost
<1>5. Untouched' /\ NewIsUnspent'
  BY <1>1 DEF RowInv, Untouched, NewIsUnspent
<1> QED BY <1>4, <1>5 DEF RowInv

(* Tasks that go from one live state to another, none of them at work. *)
LEMMA WaitingKeepsRows ==
  ASSUME SlotsInv, RowInv, UNCHANGED <<status, details, lost, retried, pc, hand>>,
         NEW t \in Tasks, task[t] # "new", task[t] # "active",
         task' = task \/ task' = [task EXCEPT ![t] = "pending"]
  PROVE  RowInv'
<1>1. task \in [Tasks -> TaskState] /\ Held' = Held
  BY DEF SlotsInv, Types, QueueTypeOK, Held
<1>2. \A u \in Tasks : /\ Uncharged(u)' => Uncharged(u)
                       /\ task'[u] = task[u] \/ (task[u] # "new" /\ task'[u] = "pending")
  BY <1>1 DEF Uncharged
<1> QED BY <1>1, <1>2 DEF RowInv, AllLost, Untouched, NewIsUnspent, MaxRetry, JobIn, Live

(* base.go: no handler makes a row pending. *)
LEMMA WorkerNeverPends ==
  ASSUME SlotsInv, WorkerNext
  PROVE  \A j \in Jobs : status'[j] = "pending" => status[j] = "pending"
<1>1. ASSUME NEW w \in Slots, PrepareMark(w) \/ Complete(w) \/ Dead(w) \/ FailStatus(w)
      PROVE  \A j \in Jobs : status'[j] = "pending" => status[j] = "pending"
  <2>1. PICK s \in {"processing", "done", "dead", "failed"} :
          UpdateStatus(JobIn(w), s) \/ UpdateStatusFails(JobIn(w), s)
    BY <1>1 DEF PrepareMark, Complete, Dead, Settle, FailStatus
  <2>2. JobIn(w) \in Jobs /\ RepoTypeOK /\ s \in JobStatus
    BY <1>1, BusySlot
    DEF PrepareMark, Complete, Dead, FailStatus, SlotsInv, Types, JobStatus
  <2>3. status' = status \/ status' = [status EXCEPT ![JobIn(w)] = s]
    BY <2>1, <2>2, StatusWrite
  <2> QED BY <2>2, <2>3 DEF RepoTypeOK
<1>2. ASSUME NEW w \in Slots,
             PrepareFetch(w) \/ Run(w) \/ Dispatch(w) \/ FailCount(w) \/ Ack(w) \/ Nack(w)
      PROVE  status' = status
  BY <1>2
  DEF PrepareFetch, Run, Dispatch, FailCount, Ack, Nack, GetByID, GetByIDFails,
      UpdateRetryCount, UpdateRetryCountFails, repoVars
<1>3. ASSUME \/ \E w \in Slots : Abort(w) \/ \E t \in Tasks : Dequeue(w, t)
             \/ \E t \in Tasks : WorkerForward(t) \/ Recover(t)
             \/ \E i \in Jobs : Clock(i)
             \/ Crash \/ Stop \/ Exit \/ ForceExit \/ Restart
      PROVE  status' = status
  BY <1>3
  DEF Abort, Dequeue, WorkerForward, Forward, Recover, Clock, TimePasses, Crash, Stop,
      Exit, ForceExit, Restart, Die, repoVars
<1> QED BY <1>1, <1>2, <1>3 DEF WorkerNext, Handler

LEMMA WorkerKeepsRows ==
  ASSUME SlotsInv, RowInv, WorkerNext
  PROVE  RowInv'
<1>1. /\ details' = details
      /\ \A j \in Jobs : status'[j] = "pending" => status[j] = "pending"
      /\ SlotsInv'
  BY WorkerIsQuiet, WorkerNeverPends, WorkerKeepsSlots DEF Quiet
<1>2. /\ pc \in [Slots -> Labels] /\ hand \in [Slots -> Tasks \cup {NoTask}]
      /\ pc' \in [Slots -> Labels] /\ hand' \in [Slots -> Tasks \cup {NoTask}]
  BY <1>1 DEF SlotsInv, Types, WorkerTypeOK
<1>3. ASSUME NEW w \in Slots, PrepareFetch(w) \/ PrepareMark(w) PROVE RowInv'
  <2>1. pc[w] \in {"fetch", "mark"} /\ JobIn(w) \in Jobs /\ RepoTypeOK
    BY <1>3, BusySlot DEF PrepareFetch, PrepareMark, SlotsInv, Types
  <2>2. CASE PrepareFetch(w)
    <3>1. \/ /\ Moves(w, "nack") /\ lost' = [lost EXCEPT ![hand[w]] = @ + 1]
          \/ /\ lost' = lost
             /\ \/ Moves(w, "mark")
                \/ Moves(w, "ack") /\ status[JobIn(w)] = "cancelled" /\ status' = status
      BY <2>2
      DEF PrepareFetch, Skips, GetByID, Moves, GiveUp, Goto, Process, repoVars
    <3> QED BY <1>1, <2>1, <3>1, HandlerKeepsRows DEF Labels
  <2>3. CASE PrepareMark(w)
    <3>1. \/ Moves(w, "nack") /\ lost' = [lost EXCEPT ![hand[w]] = @ + 1]
          \/ Moves(w, "run") /\ lost' = lost /\ UpdateStatus(JobIn(w), "processing")
      BY <2>3 DEF PrepareMark, Moves, GiveUp, Goto, Process
    <3>2. UpdateStatus(JobIn(w), "processing") => status'[JobIn(w)] = "processing"
      BY <2>1 DEF UpdateStatus, RepoTypeOK
    <3> QED BY <1>1, <2>1, <3>1, <3>2, HandlerKeepsRows DEF Labels
  <2> QED BY <1>3, <2>2, <2>3
<1>4. ASSUME NEW w \in Slots, \/ Run(w) \/ Complete(w) \/ Dead(w) \/ Dispatch(w)
                              \/ FailCount(w) \/ FailStatus(w)
      PROVE  RowInv'
  <2>1. pc[w] \in {"run", "complete", "bury", "tell", "count", "fail"}
    BY <1>4 DEF Run, Complete, Dead, Dispatch, FailCount, FailStatus
  <2>2. status'[JobIn(w)] # "pending"
    BY <1>1, <2>1, BusySlot DEF RowInv, Untouched, SlotsInv, Types
  <2>3. \E l \in Labels \ {"idle"} : Moves(w, l)
    BY <1>4
    DEF Run, Complete, Dead, Settle, Dispatch, FailCount, FailStatus, GiveUp, Goto, Moves,
        Process, Labels
  <2>4. lost' = lost \/ lost' = [lost EXCEPT ![hand[w]] = @ + 1]
    BY <1>4 DEF Run, Complete, Dead, Settle, Dispatch, FailCount, FailStatus, GiveUp
  <2> QED BY <1>1, <2>1, <2>2, <2>3, <2>4, HandlerKeepsRows
<1>5. ASSUME NEW w \in Slots, Ack(w) \/ Nack(w) \/ Abort(w) PROVE RowInv'
  <2>1. pc[w] # "idle" /\ hand[w] \in Tasks /\ hand[w] # NoTask
    BY <1>5, BusySlot, WorkerAssumption DEF Ack, Nack, Abort, SlotsInv, Types
  <2>2. \A v \in Slots : \/ pc'[v] = pc[v] /\ hand'[v] = hand[v] /\ hand[v] # hand[w]
                         \/ pc'[v] = "idle" /\ hand'[v] = NoTask /\ hand[v] = hand[w]
    BY <1>2, <1>5, <2>1 DEF Ack, Nack, Abort, Free, Goto, SlotsInv, Apart
  <2>3. UNCHANGED <<status, details, lost>>
    BY <1>5 DEF Ack, Nack, Abort, repoVars
  <2>4. \/ DoneTask(hand[w]) /\ status[JobOf[hand[w]]] # "pending"
        \/ /\ FailTask(hand[w], MaxRetry(hand[w]))
           /\ status[JobOf[hand[w]]] = "pending" => Uncharged(hand[w])
        \/ RequeueTask(hand[w])
    BY <1>5 DEF Ack, Nack, Abort, RowInv, Untouched, JobIn, Uncharged
  <2> QED BY <1>2, <2>1, <2>2, <2>3, <2>4, ReturnKeepsRows
<1>6. ASSUME NEW t \in Tasks, Recover(t) PROVE RowInv'
  <2>1. \A v \in Slots : hand[v] # t
    BY <1>6, WorkerAssumption DEF Recover, Held
  <2>2. UNCHANGED <<status, details, lost, pc, hand>>
    BY <1>6 DEF Recover, repoVars, workerVars
  <2>3. FailTask(t, MaxRetry(t)) /\ Uncharged(t)
    BY <1>6 DEF Recover, Uncharged, FailTask
  <2> QED BY <1>2, <2>1, <2>2, <2>3, ReturnKeepsRows
<1>7. ASSUME NEW w \in Slots, NEW t \in Tasks, Dequeue(w, t) PROVE RowInv'
  <2>1. /\ pc[w] = "idle" /\ task[t] = "pending" /\ task' = [task EXCEPT ![t] = "active"]
        /\ pc' = [pc EXCEPT ![w] = "fetch"] /\ hand' = [hand EXCEPT ![w] = t]
        /\ UNCHANGED <<status, details, retried, lost>>
        /\ task \in [Tasks -> TaskState] /\ hand[w] = NoTask
    BY <1>7
    DEF Dequeue, DequeueTask, Move, Goto, repoVars, SlotsInv, Types, QueueTypeOK, Holding
  <2>2. ASSUME NEW u \in Tasks PROVE Uncharged(u)' => Uncharged(u)
    <3>1. \A v \in Slots : hand'[v] = u /\ pc'[v] = "nack" => hand[v] = u /\ pc[v] = "nack"
      BY <1>2, <2>1
    <3>2. u \in Held => u \in Held'
      BY <1>2, <2>1, WorkerAssumption DEF Held
    <3>3. t \in Held'
      BY <1>2, <2>1, WorkerAssumption DEF Held
    <3>4. task'[u] = "active" /\ u # t => task[u] = "active"
      BY <2>1
    <3> QED BY <3>1, <3>2, <3>3, <3>4 DEF Uncharged
  <2>3. AllLost' /\ NewIsUnspent'
    BY <2>1, <2>2 DEF RowInv, AllLost, NewIsUnspent, MaxRetry, Live
  <2>4. Untouched'
    BY <1>2, <2>1 DEF RowInv, Untouched, JobIn
  <2> QED BY <2>3, <2>4 DEF RowInv
<1>8. ASSUME NEW t \in Tasks, WorkerForward(t) PROVE RowInv'
  <2>1. /\ UNCHANGED <<status, details, lost, retried, pc, hand>>
        /\ task[t] \in {"scheduled", "retry"} /\ task' = [task EXCEPT ![t] = "pending"]
    BY <1>8 DEF WorkerForward, Forward, ForwardTask, Move, repoVars, workerVars
  <2> QED BY <2>1, WaitingKeepsRows
<1>9. CASE Crash \/ ForceExit
  BY <1>9, DieKeepsRows DEF Crash, ForceExit
<1>10. CASE Stop \/ Exit \/ Restart \/ \E j \in Jobs : Clock(j)
  <2>1. UNCHANGED <<status, details, lost, retried, task, pc, hand>>
    BY <1>10
    DEF Stop, Exit, Restart, Clock, TimePasses, repoVars, queueVars, workerVars
  <2> QED BY <2>1 DEF RowInv, AllLost, Untouched, NewIsUnspent, MaxRetry, JobIn, Uncharged, Held
<1> QED BY <1>3, <1>4, <1>5, <1>6, <1>7, <1>8, <1>9, <1>10 DEF WorkerNext, Handler

-----------------------------------------------------------------------------
(* job.go, Enqueue: who creates a job, and that a row waits for the push. *)
Owning(c) ==
  /\ at[c] \in {"start", "lookup", "create", "refetch", "push", "rollback"} =>
        job[c] = NewId[c]
  /\ at[c] \in {"lookup", "create", "refetch", "push", "rollback"} \/ reply[c] = "created" =>
        "enqueue" \in Ops[c]
  /\ at[c] = "push" => HasRow(job[c])

(* job.go, Cancel: the row it writes is not pending afterwards. *)
PastCancel(c) ==
  at[c] \in {"cancelCheck", "cancelTask"} => status[job[c]] \notin {"pending", "absent"}

(* A job whose creation was answered was queued, and has its row. *)
Answered(c) ==
  reply[c] = "created" => at[c] = "end" /\ Queued(NewId[c]) /\ HasRow(NewId[c])

(* Without faults, a pending row that was not queued is still its creator's. *)
Creator(c, j) == at[c] \in {"push", "rollback"} /\ job[c] = j
Tended == NoFaultYet => \A j \in Jobs : status[j] = "pending" /\ ~Queued(j) =>
                           \E c \in Clients : Creator(c, j)

ClientInv == \A c \in Clients : Owning(c) /\ PastCancel(c) /\ Answered(c)
KeptInv   == BudgetInv /\ NoRetries /\ RowInv /\ ClientInv /\ Tended

(* What there is to do for a request when nobody retries by hand. *)
Serve(c) == \/ SubmitEnqueue(c) \/ SubmitCancel(c) \/ Lookup(c) \/ Refetch(c)
            \/ CreateRow(c) \/ Push(c) \/ Rollback(c) \/ CancelRead(c)
            \/ CancelWrite(c) \/ CancelCheck(c) \/ CancelTask(c)

LEMMA OnlyServed ==
  ASSUME NoManualRetry, NoRetries, NEW c \in Clients, Stage(c)
  PROVE  Serve(c)
<1>1. ~SubmitRetry(c)
  BY DEF NoManualRetry, SubmitRetry, Submit
<1>2. ~(\/ RetryRead(c) \/ RetryReset(c) \/ RetryPend(c) \/ RetryPush(c) \/ UndoStatus(c)
        \/ UndoCount(c) \/ Reread(c))
  BY DEF NoRetries, Undone, RetryRead, RetryReset, RetryPend, RetryPush, UndoStatus, UndoCount,
         Reread
<1> QED BY <1>1, <1>2 DEF Stage, Handle, Serve

(* What a request does to the statuses. *)
LEMMA ServeStatus ==
  ASSUME KeptInv, NEW c \in Clients, Serve(c)
  PROVE  /\ dbFaults' = dbFaults \/ (dbFaults' = dbFaults - 1 /\ dbFaults > 0)
         /\ \A j \in Jobs : status'[j] = "pending" /\ status[j] # "pending" =>
              status[j] = "absent" /\ j = job[c] /\ (dbFaults' = dbFaults => at'[c] = "push")
         /\ \A j \in Jobs : HasRow(j) /\ ~HasRow(j)' => at[c] = "rollback" /\ j = job[c]
         /\ at[c] = "rollback" /\ status'[job[c]] = "pending" => dbFaults' # dbFaults
<1>1. /\ RepoTypeOK /\ job[c] \in Jobs /\ at \in [Clients -> Stages]
      /\ status \in [Jobs -> JobStatus \cup {"absent", "deleted"}] /\ dbFaults \in Nat
  BY RepositoryAssumption DEF KeptInv, BudgetInv, SlotsInv, Types, RepoTypeOK, ApiTypeOK
<1>2. CASE \/ SubmitEnqueue(c) \/ SubmitCancel(c) \/ Lookup(c) \/ Refetch(c) \/ Push(c)
           \/ CancelRead(c) \/ CancelCheck(c) \/ CancelTask(c)
  <2>1. status' = status /\ at[c] # "rollback"
    BY <1>2
    DEF SubmitEnqueue, SubmitCancel, Submit, Lookup, Refetch, FindReplay, Push, CancelRead,
        CancelCheck, CancelTask, GetByID, GetByIDFails, OnlyQueue, repoVars
  <2>2. dbFaults' = dbFaults \/ Fault
    BY <1>2
    DEF SubmitEnqueue, SubmitCancel, Submit, Lookup, Refetch, FindReplay, Push, CancelRead,
        CancelCheck, CancelTask, GetByID, GetByIDFails, OnlyQueue, repoVars
  <2> QED BY <2>1, <2>2 DEF Fault, HasRow
<1>3. CASE CreateRow(c)
  <2>1. /\ at[c] = "create"
        /\ \/ status' = status /\ (dbFaults' = dbFaults \/ Fault)
           \/ /\ status[job[c]] = "absent"
              /\ status' = [status EXCEPT ![job[c]] = "pending"]
              /\ Fault \/ (dbFaults' = dbFaults /\ at' = [at EXCEPT ![c] = "push"])
    BY <1>3 DEF CreateRow, Create, CreateFails, Inserted, Advance, repoVars
  <2> QED BY <1>1, <2>1 DEF Fault, HasRow, JobStatus
<1>4. CASE Rollback(c)
  <2>1. /\ at[c] = "rollback"
        /\ \/ status' = [status EXCEPT ![job[c]] = "deleted"] /\ dbFaults' = dbFaults
           \/ ~HasRow(job[c]) /\ status' = status /\ dbFaults' = dbFaults
           \/ Fault /\ (status' = status \/ status' = [status EXCEPT ![job[c]] = "deleted"])
    BY <1>4 DEF Rollback, Delete, DeleteFails, UpdateStatusFails, repoVars
  <2> QED BY <1>1, <2>1 DEF Fault, HasRow, JobStatus
<1>5. CASE CancelWrite(c)
  <2>1. /\ at[c] = "cancelWrite" /\ (dbFaults' = dbFaults \/ Fault)
        /\ \/ status' = status
           \/ HasRow(job[c]) /\ status' = [status EXCEPT ![job[c]] = "cancelled"]
    BY <1>5 DEF CancelWrite, UpdateStatus, UpdateStatusFails, repoVars
  <2> QED BY <1>1, <2>1 DEF Fault, HasRow, JobStatus
<1> QED BY <1>2, <1>3, <1>4, <1>5 DEF Serve

(* What a request does to the queue, when it does not take a task back. *)
LEMMA ServeQueue ==
  ASSUME KeptInv, NEW c \in Clients, Serve(c)
  PROVE  /\ retried' = retried
         /\ \A t \in Tasks : \/ task'[t] = task[t]
                             \/ task[t] = "new" /\ task'[t] \in {"scheduled", "pending"}
                             \/ task[t] # "new" /\ status[JobOf[t]] # "pending"
         /\ at[c] = "push" => /\ job' = job
                              /\ at' = [at EXCEPT ![c] = "rollback"] \/ Queued(job[c])'
<1>1. /\ task \in [Tasks -> TaskState] /\ job[c] \in Jobs /\ FirstTask[job[c]] \in Tasks
      /\ JobOf[FirstTask[job[c]]] = job[c] /\ at \in [Clients -> Stages]
  BY JobQueueAssumption DEF KeptInv, BudgetInv, SlotsInv, Types, QueueTypeOK, ApiTypeOK
<1>2. CASE Push(c)
  <2>1. job' = job /\ retried' = retried
    BY <1>2 DEF Push, EnqueueFails, EnqueueTask, Move, Advance, Answer, queueVars
  <2>2. \/ task' = task /\ at' = [at EXCEPT ![c] = "rollback"]
        \/ /\ task[FirstTask[job[c]]] = "new"
           /\ \E s \in {"scheduled", "pending"} : task' = [task EXCEPT ![FirstTask[job[c]]] = s]
    BY <1>2 DEF Push, EnqueueFails, EnqueueTask, Move, Advance, queueVars
  <2>3. CASE task' = task /\ at' = [at EXCEPT ![c] = "rollback"]
    BY <2>1, <2>3
  <2>4. CASE /\ task[FirstTask[job[c]]] = "new"
             /\ \E s \in {"scheduled", "pending"} : task' = [task EXCEPT ![FirstTask[job[c]]] = s]
    <3>1. PICK s \in {"scheduled", "pending"} : task' = [task EXCEPT ![FirstTask[job[c]]] = s]
      BY <2>4
    <3>2. task'[FirstTask[job[c]]] = s /\ s # "new"
      BY <1>1, <3>1
    <3>3. Queued(job[c])'
      BY <1>1, <2>1, <3>2 DEF Queued
    <3> QED BY <1>1, <2>1, <2>4, <3>1, <3>3
  <2> QED BY <2>2, <2>3, <2>4
<1>3. CASE CancelTask(c)
  <2>1. /\ at[c] = "cancelTask"
        /\ UNCHANGED queueVars \/ DeleteTask(FirstTask[job[c]])
    BY <1>3 DEF CancelTask
  <2>2. status[job[c]] # "pending"
    BY <2>1 DEF KeptInv, ClientInv, PastCancel
  <2> QED BY <1>1, <2>1, <2>2 DEF DeleteTask, Move, queueVars, Live
<1>4. CASE \/ SubmitEnqueue(c) \/ SubmitCancel(c) \/ Lookup(c) \/ Refetch(c) \/ CreateRow(c)
           \/ Rollback(c) \/ CancelRead(c) \/ CancelWrite(c) \/ CancelCheck(c)
  <2>1. UNCHANGED queueVars /\ at[c] # "push"
    BY <1>4
    DEF SubmitEnqueue, SubmitCancel, Submit, Lookup, Refetch, FindReplay, CreateRow, Rollback,
        CancelRead, CancelWrite, CancelCheck, OnlyRepo, Elsewhere, queueVars
  <2> QED BY <2>1 DEF queueVars
<1> QED BY <1>2, <1>3, <1>4 DEF Serve

LEMMA ServeKeepsRows ==
  ASSUME KeptInv, NEW c \in Clients, Serve(c), Stage(c), UNCHANGED workerVars
  PROVE  RowInv'
<1>1. /\ Fixed /\ Created
      /\ \A t \in Tasks : JobOf[t] \in Jobs /\ lost[t] \in Nat /\ retried[t] \in Nat
      /\ UNCHANGED <<lost, pc, hand, retried>>
      /\ SlotsInv /\ RowInv
  BY StageRow, ServeQueue, JobQueueAssumption
  DEF KeptInv, BudgetInv, SlotsInv, Types, WorkerTypeOK, QueueTypeOK, workerVars
<1>2. \A j \in Jobs : status'[j] = "pending" => status[j] \in {"pending", "absent"}
  BY ServeStatus
<1>3. ASSUME NEW t \in Tasks, task[t] # "new", status'[JobOf[t]] = "pending"
      PROVE  status[JobOf[t]] = "pending" /\ details'[JobOf[t]] = details[JobOf[t]]
  BY <1>1, <1>2, <1>3 DEF Created, Queued, Fixed
<1>4. ASSUME NEW t \in Tasks, status'[JobOf[t]] = "pending", task'[t] # "new"
      PROVE  /\ task'[t] \in Live \/ lost[t] > MaxRetry(t)'
             /\ retried[t] <= lost[t]
             /\ Uncharged(t)' => retried[t] < lost[t]
  <2>1. CASE task[t] = "new"
    <3>1. retried[t] = 0 /\ task'[t] \in {"scheduled", "pending"}
      BY <1>1, <1>4, <2>1, ServeQueue DEF RowInv, NewIsUnspent
    <3>2. \A w \in Slots : hand[w] # t
      BY <1>1, <2>1, WorkerAssumption DEF SlotsInv, Holding
    <3> QED BY <1>1, <3>1, <3>2 DEF Uncharged, Live
  <2>2. CASE task[t] # "new"
    <3>1. status[JobOf[t]] = "pending" /\ MaxRetry(t)' = MaxRetry(t)
      BY <1>3, <1>4, <2>2 DEF MaxRetry
    <3>2. task'[t] = task[t]
      BY <2>2, <3>1, ServeQueue
    <3>3. Uncharged(t)' => Uncharged(t)
      BY <1>1, <3>2 DEF Uncharged, Held
    <3> QED BY <1>1, <2>2, <3>1, <3>2, <3>3 DEF RowInv, AllLost
  <2> QED BY <2>1, <2>2
<1>5. AllLost'
  BY <1>1, <1>4 DEF AllLost
<1>6. Untouched'
  <2> SUFFICES ASSUME NEW w \in Slots, pc[w] # "idle", status'[JobIn(w)] = "pending"
               PROVE  pc[w] \in {"fetch", "mark", "nack"}
    BY <1>1 DEF Untouched, JobIn
  <2>1. hand[w] \in Tasks /\ task[hand[w]] = "active"
    BY <1>1, BusySlot, WorkerAssumption DEF SlotsInv, Types, Holding
  <2>2. status[JobIn(w)] = "pending"
    BY <1>3, <2>1 DEF JobIn
  <2> QED BY <1>1, <2>2 DEF RowInv, Untouched
<1>7. NewIsUnspent'
  <2>1. \A t \in Tasks : task'[t] = "new" => task[t] = "new"
    BY StageQueue DEF KeptInv, BudgetInv
  <2> QED BY <1>1, <2>1 DEF RowInv, NewIsUnspent
<1> QED BY <1>5, <1>6, <1>7 DEF RowInv

(* What a request does to its own variables. *)
LEMMA ServeMoves ==
  ASSUME KeptInv, NEW c \in Clients, Serve(c)
  PROVE  /\ at[c] # "end" /\ UNCHANGED apiDowns
         /\ \A d \in Clients \ {c} : reply'[d] = reply[d]
         /\ at'[c] \notin Undone \cup {"retryRead", "reread"}
<1>1. at \in [Clients -> Stages] /\ reply \in [Clients -> Replies]
  BY DEF KeptInv, BudgetInv, ApiTypeOK
<1>2. CASE SubmitEnqueue(c) \/ SubmitCancel(c)
  <2>1. /\ at[c] = "start" /\ reply' = reply /\ UNCHANGED apiDowns
        /\ \E l \in {"create", "lookup", "cancelRead"} : at' = [at EXCEPT ![c] = l]
    BY <1>2 DEF SubmitEnqueue, SubmitCancel, Submit, Advance, OnlyRepo, Elsewhere
  <2> QED BY <1>1, <2>1 DEF Undone
<1>3. CASE Lookup(c) \/ Refetch(c)
  <2>1. /\ at[c] \in {"lookup", "refetch"} /\ UNCHANGED apiDowns
        /\ reply' = reply \/ \E r \in Replies : reply' = [reply EXCEPT ![c] = r]
        /\ \E l \in {"create", "end"} : at' = [at EXCEPT ![c] = l]
    BY <1>3
    DEF Lookup, Refetch, FindReplay, Advance, Answer, AnswerWith, OnlyRepo, Elsewhere, Replies
  <2> QED BY <1>1, <2>1 DEF Undone
<1>4. CASE \/ CreateRow(c) \/ Push(c) \/ Rollback(c) \/ CancelRead(c) \/ CancelWrite(c)
           \/ CancelCheck(c) \/ CancelTask(c)
  <2>1. /\ at[c] # "end" /\ UNCHANGED apiDowns
        /\ reply' = reply \/ \E r \in Replies : reply' = [reply EXCEPT ![c] = r]
        /\ \E l \in {"push", "refetch", "rollback", "cancelWrite", "cancelCheck",
                      "cancelTask", "end"} : at' = [at EXCEPT ![c] = l]
    BY <1>4
    DEF CreateRow, Push, Rollback, CancelRead, CancelWrite, CancelCheck, CancelTask, Advance,
        Answer, OnlyRepo, OnlyQueue, Elsewhere, Replies
  <2> QED BY <1>1, <2>1 DEF Undone
<1> QED BY <1>2, <1>3, <1>4 DEF Serve

LEMMA ServeOwn ==
  ASSUME KeptInv, NEW c \in Clients, Serve(c)
  PROVE  Owning(c)' /\ PastCancel(c)' /\ Answered(c)'
<1>1. /\ at \in [Clients -> Stages] /\ reply \in [Clients -> Replies]
      /\ job \in [Clients -> Jobs] /\ job[c] \in Jobs /\ NewId[c] \in Jobs
      /\ status \in [Jobs -> JobStatus \cup {"absent", "deleted"}]
      /\ Owning(c) /\ PastCancel(c) /\ Answered(c)
      /\ at[c] # "end" /\ reply[c] # "created"
  BY ServeMoves, ApiAssumption
  DEF KeptInv, BudgetInv, ApiTypeOK, SlotsInv, Types, RepoTypeOK, ClientInv, Answered
<1>2. ASSUME at'[c] \notin {"start", "lookup", "create", "refetch", "push", "rollback",
                           "cancelCheck", "cancelTask"},
             reply'[c] # "created"
      PROVE  Owning(c)' /\ PastCancel(c)' /\ Answered(c)'
  BY <1>2 DEF Owning, PastCancel, Answered
<1>3. ASSUME at[c] \in {"start", "lookup", "create", "push"}, "enqueue" \in Ops[c],
             job' = job, reply' = reply,
             at'[c] \in {"lookup", "create", "refetch", "push", "rollback"},
             at'[c] = "push" => HasRow(job[c])'
      PROVE  Owning(c)' /\ PastCancel(c)' /\ Answered(c)'
  BY <1>1, <1>3 DEF Owning, PastCancel, Answered
<1>4. CASE SubmitEnqueue(c)
  <2>1. /\ at[c] = "start" /\ "enqueue" \in Ops[c] /\ job' = job /\ reply' = reply
        /\ at'[c] \in {"lookup", "create"}
    BY <1>1, <1>4 DEF SubmitEnqueue, Advance
  <2> QED BY <1>3, <2>1
<1>5. CASE SubmitCancel(c) \/ CancelRead(c)
  <2>1. at'[c] \in {"cancelRead", "cancelWrite", "end"} /\ reply'[c] # "created"
    BY <1>1, <1>5 DEF SubmitCancel, Submit, CancelRead, Advance, Answer
  <2> QED BY <1>2, <2>1
<1>6. CASE Lookup(c) \/ Refetch(c)
  <2>1. /\ at[c] \in {"lookup", "refetch"} /\ "enqueue" \in Ops[c]
        /\ \/ at'[c] = "end" /\ reply'[c] # "created"
           \/ at'[c] = "create" /\ at[c] = "lookup" /\ job' = job /\ reply' = reply
    BY <1>1, <1>6 DEF Lookup, Refetch, FindReplay, Advance, Answer, AnswerWith, Owning
  <2> QED BY <1>2, <1>3, <2>1
<1>7. CASE CreateRow(c)
  <2>1. at[c] = "create" /\ "enqueue" \in Ops[c]
    BY <1>1, <1>7 DEF CreateRow, Owning
  <2>2. \/ at'[c] = "end" /\ reply'[c] # "created"
        \/ at'[c] = "refetch" /\ job' = job /\ reply' = reply
        \/ /\ at'[c] = "push" /\ job' = job /\ reply' = reply
           /\ status'[job[c]] = "pending"
    BY <1>1, <1>7 DEF CreateRow, Create, Inserted, Advance, Answer
  <2>3. status'[job[c]] = "pending" /\ job' = job => HasRow(job[c])'
    BY DEF HasRow, JobStatus
  <2> QED BY <1>2, <1>3, <2>1, <2>2, <2>3
<1>8. CASE Push(c)
  <2>1. /\ at[c] = "push" /\ "enqueue" \in Ops[c] /\ job[c] = NewId[c] /\ HasRow(job[c])
        /\ status' = status /\ job' = job
    BY <1>1, <1>8 DEF Push, Owning, OnlyQueue, repoVars, Advance, Answer
  <2>2. \/ at'[c] = "rollback" /\ reply' = reply
        \/ at'[c] = "end" /\ Queued(job[c])'
    <3>1. \/ at' = [at EXCEPT ![c] = "rollback"] /\ reply' = reply
          \/ at' = [at EXCEPT ![c] = "end"]
      BY <1>8 DEF Push, Advance, Answer
    <3> QED BY <1>1, <2>1, <3>1, ServeQueue
  <2>3. CASE at'[c] = "rollback" /\ reply' = reply
    BY <1>3, <2>1, <2>3
  <2>4. CASE at'[c] = "end" /\ Queued(job[c])'
    <3>1. Queued(NewId[c])'
      BY <2>1, <2>4 DEF Queued
    <3> QED BY <2>1, <2>4, <3>1 DEF Owning, PastCancel, Answered, HasRow
  <2> QED BY <2>2, <2>3, <2>4
<1>9. CASE Rollback(c) \/ CancelTask(c)
  <2>1. at'[c] = "end" /\ reply'[c] # "created"
    BY <1>1, <1>9 DEF Rollback, CancelTask, Answer
  <2> QED BY <1>2, <2>1
<1>10. CASE CancelWrite(c)
  <2>1. /\ reply'[c] # "created" /\ job' = job
        /\ \/ at'[c] = "end"
           \/ at'[c] = "cancelCheck" /\ status'[job[c]] = "cancelled"
    BY <1>1, <1>10 DEF CancelWrite, UpdateStatus, Advance, Answer
  <2> QED BY <2>1 DEF Owning, PastCancel, Answered
<1>11. CASE CancelCheck(c)
  <2>1. /\ reply'[c] # "created" /\ job' = job /\ status' = status
        /\ at[c] = "cancelCheck" /\ at'[c] \in {"end", "cancelTask"}
    BY <1>1, <1>11 DEF CancelCheck, Advance, Answer, repoVars
  <2> QED BY <1>1, <2>1 DEF Owning, PastCancel, Answered
<1> QED BY <1>4, <1>5, <1>6, <1>7, <1>8, <1>9, <1>10, <1>11 DEF Serve

(* A request keeps what the others rely on. *)
LEMMA ServeKeepsClients ==
  ASSUME KeptInv, NEW c \in Clients, Serve(c), Stage(c)
  PROVE  ClientInv' /\ NoRetries'
<1>1. \A d \in Clients \ {c} : at'[d] = at[d] /\ job'[d] = job[d] /\ reply'[d] = reply[d]
  BY StageClient, ServeMoves DEF KeptInv
<1>2. /\ job \in [Clients -> Jobs] /\ NewId \in [Clients -> Jobs]
      /\ status \in [Jobs -> JobStatus \cup {"absent", "deleted"}]
      /\ Owning(c) /\ Fixed
  BY StageRow, ApiAssumption
  DEF KeptInv, BudgetInv, ApiTypeOK, SlotsInv, Types, RepoTypeOK, ClientInv
<1>3. ASSUME NEW d \in Clients \ {c} PROVE Owning(d)' /\ PastCancel(d)' /\ Answered(d)'
  <2>1. Owning(d) /\ PastCancel(d) /\ Answered(d)
    BY DEF KeptInv, ClientInv
  <2>2. ASSUME "enqueue" \in Ops[d], HasRow(NewId[d]) PROVE HasRow(NewId[d])'
    <3>1. at[c] = "rollback" => job[c] # NewId[d]
      BY <1>2, <2>2, ApiAssumption DEF Owning
    <3> QED BY <1>2, <2>2, <3>1, ServeStatus
  <2>3. Owning(d)'
    <3>1. at[d] = "push" => "enqueue" \in Ops[d] /\ HasRow(NewId[d]) /\ job[d] = NewId[d]
      BY <2>1 DEF Owning
    <3>2. at[d] = "push" => HasRow(job[d])'
      BY <1>1, <2>2, <3>1 DEF HasRow
    <3> QED BY <1>1, <2>1, <3>2 DEF Owning, HasRow
  <2>4. PastCancel(d)'
    BY <1>1, <1>2, <2>1, ServeStatus DEF PastCancel, Fixed
  <2>5. Answered(d)'
    <3>1. Queued(NewId[d]) => Queued(NewId[d])'
      BY StageQueue DEF KeptInv, BudgetInv, Queued
    <3>2. reply[d] = "created" => "enqueue" \in Ops[d]
      BY <2>1 DEF Owning
    <3> QED BY <1>1, <2>1, <2>2, <3>1, <3>2 DEF Answered
  <2> QED BY <2>3, <2>4, <2>5
<1>4. Owning(c)' /\ PastCancel(c)' /\ Answered(c)'
  BY ServeOwn
<1>5. NoRetries'
  BY <1>1, ServeMoves DEF KeptInv, NoRetries
<1> QED BY <1>3, <1>4, <1>5 DEF ClientInv

(* job.go, Enqueue: what was created is pushed, or rolled back. *)
LEMMA ServeKeepsTended ==
  ASSUME KeptInv, NEW c \in Clients, Serve(c), Stage(c)
  PROVE  Tended'
<1> SUFFICES ASSUME NoFaultYet', NEW j \in Jobs, status'[j] = "pending", ~Queued(j)'
             PROVE  \E d \in Clients : Creator(d, j)'
  BY DEF Tended
<1>1. dbFaults \in 0 .. MaxDbFaults /\ MaxDbFaults \in Nat
  BY RepositoryAssumption DEF KeptInv, BudgetInv, SlotsInv, Types, RepoTypeOK
<1>2. NoFaultYet /\ dbFaults' = dbFaults
  BY <1>1, ServeStatus, ServeMoves DEF NoFaultYet
<1>3. ~Queued(j)
  BY StageQueue DEF KeptInv, BudgetInv, Queued
<1>4. CASE status[j] # "pending"
  <2>1. j = job[c] /\ at'[c] = "push"
    BY <1>2, <1>4, ServeStatus
  <2>2. job'[c] = job[c]
    BY <2>1, StageClient DEF KeptInv
  <2> QED BY <2>1, <2>2 DEF Creator
<1>5. CASE status[j] = "pending"
  <2>1. PICK d \in Clients : Creator(d, j)
    BY <1>2, <1>3, <1>5 DEF KeptInv, Tended
  <2>2. CASE d # c
    BY <2>1, <2>2, StageClient DEF KeptInv, Creator
  <2>3. CASE d = c
    <3>1. at[c] = "push" /\ job[c] = j
      BY <1>2, <2>1, <2>3, ServeStatus DEF Creator
    <3>2. job' = job /\ at' = [at EXCEPT ![c] = "rollback"]
      BY <3>1, ServeQueue DEF Queued
    <3>3. at \in [Clients -> Stages]
      BY DEF KeptInv, BudgetInv, ApiTypeOK
    <3> QED BY <3>1, <3>2, <3>3 DEF Creator
  <2> QED BY <2>2, <2>3
<1> QED BY <1>4, <1>5

-----------------------------------------------------------------------------
(* No step of a handler gives a call to Postgres back. *)
LEMMA WorkerFaults ==
  ASSUME WorkerNext
  PROVE  dbFaults' = dbFaults \/ Fault
<1>1. ASSUME NEW w \in Slots, Handler(w) PROVE dbFaults' = dbFaults \/ Fault
  BY <1>1
  DEF Handler, PrepareFetch, PrepareMark, Run, Complete, Dead, Settle, Dispatch, FailCount,
      FailStatus, Ack, Nack, GetByID, GetByIDFails, UpdateStatus, UpdateStatusFails,
      UpdateRetryCount, UpdateRetryCountFails, repoVars
<1>2. ASSUME \/ \E w \in Slots : Abort(w) \/ \E t \in Tasks : Dequeue(w, t)
             \/ \E t \in Tasks : WorkerForward(t) \/ Recover(t)
             \/ \E j \in Jobs : Clock(j)
             \/ Crash \/ Stop \/ Exit \/ ForceExit \/ Restart
      PROVE  dbFaults' = dbFaults
  BY <1>2
  DEF Abort, Dequeue, WorkerForward, Forward, Recover, Clock, TimePasses, Crash, Stop,
      Exit, ForceExit, Restart, Die, repoVars
<1> QED BY <1>1, <1>2 DEF WorkerNext

LEMMA WorkerKeepsAll ==
  ASSUME KeptInv, WorkerNext, UNCHANGED apiVars
  PROVE  NoRetries' /\ RowInv' /\ ClientInv' /\ Tended'
<1>1. /\ Quiet /\ \A j \in Jobs : status'[j] = "pending" => status[j] = "pending"
      /\ UNCHANGED <<at, job, reply, apiDowns>>
      /\ job \in [Clients -> Jobs] /\ NewId \in [Clients -> Jobs]
  BY WorkerIsQuiet, WorkerNeverPends, ApiAssumption
  DEF KeptInv, BudgetInv, ApiTypeOK, apiVars
<1>2. RowInv' /\ NoRetries'
  BY <1>1, WorkerKeepsRows DEF KeptInv, BudgetInv, NoRetries
<1>3. ClientInv'
  <2> SUFFICES ASSUME NEW c \in Clients PROVE Owning(c)' /\ PastCancel(c)' /\ Answered(c)'
    BY DEF ClientInv
  <2>1. Owning(c) /\ PastCancel(c) /\ Answered(c) /\ job[c] \in Jobs /\ NewId[c] \in Jobs
    BY <1>1 DEF KeptInv, ClientInv
  <2>2. Owning(c)'
    BY <1>1, <2>1 DEF Quiet, Owning, HasRow
  <2>3. PastCancel(c)'
    BY <1>1, <2>1 DEF Quiet, PastCancel
  <2>4. Answered(c)'
    BY <1>1, <2>1 DEF Quiet, Answered, HasRow, Queued
  <2> QED BY <2>2, <2>3, <2>4
<1>4. Tended'
  <2>1. NoFaultYet' => NoFaultYet
    <3>1. dbFaults \in 0 .. MaxDbFaults /\ MaxDbFaults \in Nat
      BY RepositoryAssumption DEF KeptInv, BudgetInv, SlotsInv, Types, RepoTypeOK
    <3> QED BY <1>1, <3>1, WorkerFaults DEF NoFaultYet, Fault
  <2>2. \A j \in Jobs : ~Queued(j)' => ~Queued(j)
    BY <1>1 DEF Quiet
  <2> QED BY <1>1, <2>1, <2>2 DEF KeptInv, Tended, Creator
<1> QED BY <1>2, <1>3, <1>4

LEMMA CrashKeepsAll ==
  ASSUME KeptInv, (ApiCrash /\ UNCHANGED workerVars) \/ UNCHANGED vars
  PROVE  NoRetries' /\ RowInv' /\ ClientInv' /\ Tended'
<1>1. /\ UNCHANGED <<repoVars, queueVars, workerVars>> /\ UNCHANGED <<job, reply>>
      /\ \A c \in Clients : at'[c] = at[c] \/ at'[c] = "end"
  BY DEF ApiCrash, vars, apiVars, repoVars, queueVars, workerVars
<1>2. UNCHANGED <<status, details, dbFaults, task, retried, lost, pc, hand, job, reply>>
  BY <1>1 DEF repoVars, queueVars, workerVars
<1>3. RowInv'
  BY <1>2 DEF KeptInv, RowInv, AllLost, Untouched, NewIsUnspent, MaxRetry, JobIn, Uncharged,
              Held
<1>4. NoRetries'
  BY <1>1 DEF KeptInv, NoRetries, Undone
<1>5. ClientInv'
  <2> SUFFICES ASSUME NEW c \in Clients PROVE Owning(c)' /\ PastCancel(c)' /\ Answered(c)'
    BY DEF ClientInv
  <2>1. Owning(c) /\ PastCancel(c) /\ Answered(c)
    BY DEF KeptInv, ClientInv
  <2> QED BY <1>1, <1>2, <2>1 DEF Owning, PastCancel, Answered, HasRow, Queued
<1>6. Tended'
  <2>1. CASE ApiCrash
    <3>1. ~NoFaultYet'
      BY <2>1 DEF ApiCrash, NoFaultYet, KeptInv, BudgetInv, ApiTypeOK
    <3> QED BY <3>1 DEF Tended
  <2>2. CASE UNCHANGED vars
    <3>1. UNCHANGED <<at, apiDowns>>
      BY <2>2 DEF vars, apiVars
    <3> QED BY <1>2, <3>1 DEF KeptInv, Tended, NoFaultYet, Queued, Creator
  <2> QED BY <2>1, <2>2
<1> QED BY <1>3, <1>4, <1>5, <1>6

LEMMA KeptInvInit == Init => KeptInv
<1> SUFFICES ASSUME Init PROVE KeptInv
  OBVIOUS
<1>1. Created /\ Remembered /\ Affordable /\ RetryCountBelowMax
  BY DEF Init, RepoInit, QueueInit, WorkerInit, ApiInit, Created, Remembered, Affordable,
         RetryCountBelowMax, Queued, HasRow, JobStatus, Undone
<1>2. NoRetries /\ ClientInv
  BY DEF Init, ApiInit, NoRetries, Undone, ClientInv, Owning, PastCancel, Answered
<1>3. RowInv
  BY DEF Init, QueueInit, WorkerInit, RowInv, AllLost, Untouched, NewIsUnspent
<1>4. Tended
  BY DEF Init, RepoInit, Tended
<1> QED BY <1>1, <1>2, <1>3, <1>4, InitTypes DEF KeptInv, BudgetInv

LEMMA KeptInvKept ==
  ASSUME NoManualRetry, KeptInv, [Next]_vars
  PROVE  KeptInv'
<1>1. BudgetInv'
  BY BudgetKept DEF KeptInv
<1>2. CASE WorkerNext /\ UNCHANGED apiVars
  BY <1>1, <1>2, WorkerKeepsAll DEF KeptInv
<1>3. CASE \E c \in Clients : Stage(c) /\ UNCHANGED workerVars
  <2>1. PICK c \in Clients : Stage(c) /\ UNCHANGED workerVars
    BY <1>3
  <2>2. Serve(c)
    BY <2>1, OnlyServed DEF KeptInv
  <2>3. RowInv' /\ ClientInv' /\ NoRetries' /\ Tended'
    BY <2>1, <2>2, ServeKeepsRows, ServeKeepsClients, ServeKeepsTended
  <2> QED BY <1>1, <2>3 DEF KeptInv
<1>4. CASE (ApiCrash /\ UNCHANGED workerVars) \/ UNCHANGED vars
  BY <1>1, <1>4, CrashKeepsAll DEF KeptInv
<1> QED BY <1>2, <1>3, <1>4 DEF Next, ApiNext, Stage

LEMMA KeptInvHolds ==
  ASSUME NoManualRetry
  PROVE  Spec => []KeptInv
BY KeptInvInit, KeptInvKept, PTL DEF Spec

(* A pending row that was queued has a task that is coming, or was forgotten. *)
LEMMA QueuedIsComing ==
  ASSUME KeptInv, NEW j \in Jobs, status[j] = "pending", Queued(j)
  PROVE  LiveTask(j) \/ Forgotten(j)
BY DEF KeptInv, RowInv, AllLost, Queued, LiveTask, Forgotten, TasksOf

(* job.go, the order of INSERT, push and answer: where nobody retries by hand,
   whatever fails, dies or races for the key, a client that was told its job is
   created has the job, and a task for it unless all its attempts were lost.   *)
THEOREM CreationHolds ==
  ASSUME NoManualRetry
  PROVE  Spec => []CreatedIsKept
<1>1. KeptInv => CreatedIsKept
  <2> SUFFICES ASSUME KeptInv, NEW c \in Clients, reply[c] = "created"
               PROVE  /\ HasRow(NewId[c])
                      /\ status[NewId[c]] = "pending" =>
                           LiveTask(NewId[c]) \/ Forgotten(NewId[c])
    BY DEF CreatedIsKept
  <2>1. Queued(NewId[c]) /\ HasRow(NewId[c]) /\ NewId[c] \in Jobs
    BY ApiAssumption DEF KeptInv, ClientInv, Answered
  <2> QED BY <2>1, QueuedIsComing
<1> QED BY <1>1, KeptInvHolds, PTL

(* job.go, Enqueue's rollback: where nobody retries by hand and neither a call
   to Postgres failed nor the API process died, a pending row has a task that
   is coming or a request that sees to it, or all its attempts were lost.      *)
THEOREM NoRowOrphaned ==
  ASSUME NoManualRetry
  PROVE  Spec => []NoOrphan
<1>1. KeptInv => NoOrphan
  <2> SUFFICES ASSUME KeptInv, NoFaultYet, NEW j \in Jobs, status[j] = "pending"
               PROVE  LiveTask(j) \/ Handling(j) \/ Forgotten(j)
    BY DEF NoOrphan
  <2>1. CASE Queued(j)
    BY <2>1, QueuedIsComing
  <2>2. CASE ~Queued(j)
    BY <2>2 DEF KeptInv, Tended, Creator, Handling, Open
  <2> QED BY <2>1, <2>2
<1> QED BY <1>1, KeptInvHolds, PTL

-----------------------------------------------------------------------------
(* A job whose task was not queued yet has not been worked on. *)
Unstarted == \A j \in Jobs : task[FirstTask[j]] = "new" =>
  announced[j] = {} /\ status[j] \in {"absent", "pending", "cancelled", "deleted"}

(* job.go, ScheduledAt: a task of the future is not handed out before its time. *)
Early == \A j \in Jobs : InFuture(j) => task[FirstTask[j]] \in {"new", "scheduled", "finished"}

(* base.go, Complete and Prepare: a handler returns nil for a job that is done,
   and a task is finished with its job, unless a request took the job back.    *)
AcksHold     == \A w \in Slots : pc[w] = "ack" => Says(JobIn(w), "done")
FinishedRest == \A t \in Tasks : task[t] = "finished" => Says(JobOf[t], "done")

(* job.go, Cancel: the job whose task it is going to take back stays cancelled. *)
Withdrawn(c) ==
  at[c] = "cancelTask" \/ (at[c] = "cancelCheck" /\ InFuture(job[c])) =>
     status[job[c]] = "deleted" \/ FirmlyCancelled(job[c])

RestInv == /\ Unstarted /\ Early /\ AcksHold /\ FinishedRest
           /\ \A c \in Clients : Withdrawn(c)

EndInv == KeptInv /\ AccountsInv /\ OutcomeInv /\ RestInv

(* What a request makes of a row: it inserts it, or takes it back. *)
RowStep(j) ==
  \/ status'[j] = status[j] /\ retryCount'[j] = retryCount[j] /\ details'[j] = details[j]
  \/ /\ status[j] = "absent" /\ status'[j] = "pending"
     /\ retryCount'[j] = 0 /\ details'[j].max \in Nat \ {0}
  \/ /\ status[j] # "absent" /\ status'[j] \in {"cancelled", "deleted"}
     /\ status[j] = "deleted" => status'[j] = "deleted"
     /\ retryCount'[j] = retryCount[j] /\ details'[j] = details[j]

(* ... and of a task: it pushes it, or takes it back with its job. *)
TaskStep(t) ==
  \/ task'[t] = task[t]
  \/ /\ task[t] = "new" /\ t = FirstTask[JobOf[t]] /\ status[JobOf[t]] # "absent"
     /\ task'[t] = IF InFuture(JobOf[t]) THEN "scheduled" ELSE "pending"
  \/ /\ task[t] \in {"scheduled", "pending", "retry", "archived"} /\ task'[t] = "finished"
     /\ status[JobOf[t]] \in {"cancelled", "deleted"}

(* job.go: Enqueue and Cancel *)
LEMMA ServeSteps ==
  ASSUME EndInv, NEW c \in Clients, Serve(c)
  PROVE  /\ retried' = retried /\ due' = due
         /\ \A j \in Jobs : RowStep(j)
         /\ \A t \in Tasks : TaskStep(t)
<1>1. /\ RepoTypeOK /\ QueueTypeOK /\ job[c] \in Jobs
      /\ FirstTask[job[c]] \in Tasks /\ JobOf[FirstTask[job[c]]] = job[c]
      /\ WithBudget(input[c]) \in Details /\ Withdrawn(c)
      /\ at[c] = "push" => status[job[c]] # "absent"
  BY JobQueueAssumption, BudgetedType
  DEF EndInv, RestInv, KeptInv, BudgetInv, Created, SlotsInv, Types, ApiTypeOK
<1>2. CASE \/ SubmitEnqueue(c) \/ SubmitCancel(c) \/ Lookup(c) \/ Refetch(c)
           \/ CancelRead(c) \/ CancelCheck(c)
  <2>1. UNCHANGED <<status, retryCount, details, task, retried, due>>
    BY <1>2
    DEF SubmitEnqueue, SubmitCancel, Submit, Lookup, Refetch, FindReplay, CancelRead,
        CancelCheck, GetByID, GetByIDFails, OnlyRepo, Elsewhere, repoVars, queueVars
  <2> QED BY <2>1 DEF RowStep, TaskStep
<1>3. CASE CreateRow(c) \/ Rollback(c) \/ CancelWrite(c)
  <2>1. UNCHANGED <<task, retried, due>>
    BY <1>3 DEF CreateRow, Rollback, CancelWrite, OnlyRepo, Elsewhere, queueVars
  <2>2. CASE CreateRow(c)
    <3>1. \/ UNCHANGED <<status, retryCount, details>>
          \/ status[job[c]] = "absent" /\ Inserted(job[c], WithBudget(input[c]))
      BY <2>2 DEF CreateRow, Create, CreateFails, repoVars
    <3>2. WithBudget(input[c]).max \in Nat \ {0}
      BY <1>1 DEF Details
    <3>3. \A j \in Jobs : RowStep(j)
      BY <1>1, <3>1, <3>2 DEF Inserted, RowStep, RepoTypeOK
    <3> QED BY <2>1, <3>3 DEF TaskStep
  <2>3. CASE Rollback(c) \/ CancelWrite(c)
    <3>1. /\ UNCHANGED <<retryCount, details>>
          /\ \/ status' = status
             \/ /\ HasRow(job[c])
                /\ \E s \in {"cancelled", "deleted"} : status' = [status EXCEPT ![job[c]] = s]
      BY <2>3
      DEF Rollback, Delete, DeleteFails, CancelWrite, UpdateStatus, UpdateStatusFails, repoVars
    <3>2. \A j \in Jobs : RowStep(j)
      BY <1>1, <3>1 DEF RowStep, RepoTypeOK, HasRow, JobStatus
    <3> QED BY <2>1, <3>2 DEF TaskStep
  <2> QED BY <1>3, <2>2, <2>3
<1>4. CASE Push(c) \/ CancelTask(c)
  <2>1. UNCHANGED <<status, retryCount, details, due>>
    BY <1>4 DEF Push, CancelTask, OnlyQueue, repoVars
  <2>2. CASE Push(c)
    <3>1. /\ at[c] = "push"
          /\ UNCHANGED queueVars \/ EnqueueTask(FirstTask[job[c]], InFuture(job[c]))
      BY <2>2 DEF Push, EnqueueFails
    <3>2. /\ retried' = retried
          /\ \/ task' = task
             \/ /\ task[FirstTask[job[c]]] = "new"
                /\ task' = [task EXCEPT ![FirstTask[job[c]]] =
                              IF InFuture(job[c]) THEN "scheduled" ELSE "pending"]
      BY <3>1 DEF EnqueueTask, Move, queueVars
    <3>3. \A t \in Tasks : TaskStep(t)
      BY <1>1, <3>1, <3>2 DEF TaskStep, QueueTypeOK
    <3> QED BY <2>1, <3>2, <3>3 DEF RowStep
  <2>3. CASE CancelTask(c)
    <3>1. /\ status[job[c]] \in {"cancelled", "deleted"}
          /\ UNCHANGED queueVars \/ DeleteTask(FirstTask[job[c]])
      BY <1>1, <2>3 DEF CancelTask, Withdrawn, FirmlyCancelled
    <3>2. /\ retried' = retried
          /\ \/ task' = task
             \/ /\ task[FirstTask[job[c]]] \in {"scheduled", "pending", "retry", "archived"}
                /\ task' = [task EXCEPT ![FirstTask[job[c]]] = "finished"]
      BY <3>1 DEF DeleteTask, Move, queueVars, Live
    <3>3. \A t \in Tasks : TaskStep(t)
      BY <1>1, <3>1, <3>2 DEF TaskStep, QueueTypeOK
    <3> QED BY <2>1, <3>2, <3>3 DEF RowStep
  <2> QED BY <1>4, <2>2, <2>3
<1> QED BY <1>2, <1>3, <1>4 DEF Serve

(* The books of a job are untouched by requests: one that is worked on keeps
   its count and its budget, and one that is created has not been worked on. *)
LEMMA ServeKeepsAccounts ==
  ASSUME EndInv, NEW c \in Clients, Serve(c), UNCHANGED workerVars
  PROVE  AccountsInv'
<1>1. /\ SlotsInv /\ AccountsInv /\ NewIsUnspent
      /\ UNCHANGED <<pc, hand, local, announced, lost, retried>> /\ Held' = Held
      /\ \A t \in Tasks : JobOf[t] \in Jobs /\ TaskStep(t)
      /\ \A j \in Jobs : RowStep(j)
  BY ServeSteps, JobQueueAssumption
  DEF EndInv, KeptInv, BudgetInv, RowInv, workerVars, Held
<1>2. \A t \in Tasks : task[t] # "new" =>
         /\ retryCount'[JobOf[t]] = retryCount[JobOf[t]]
         /\ details'[JobOf[t]] = details[JobOf[t]]
  BY <1>1 DEF RowStep, EndInv, KeptInv, BudgetInv, Created, Queued
<1>3. \A w \in Slots : pc[w] # "idle" =>
         /\ hand[w] \in Tasks /\ task[hand[w]] = "active"
         /\ retryCount'[JobIn(w)] = retryCount[JobIn(w)]
         /\ details'[JobIn(w)] = details[JobIn(w)]
  BY <1>1, <1>2, BusySlot, WorkerAssumption DEF SlotsInv, Types, Holding, JobIn
<1>4. OneTaskPerJob'
  BY <1>1 DEF AccountsInv, OneTaskPerJob, TaskStep
<1>5. InSync' /\ Counting'
  BY <1>1, <1>3 DEF AccountsInv, InSync, Counting, JobIn
<1>6. Spent'
  BY <1>1, <1>2 DEF AccountsInv, Spent, TaskStep, Exhausted, MaxRetry
<1>7. BelowMax'
  <2> SUFFICES ASSUME NEW j \in Jobs PROVE retryCount'[j] < details'[j].max
    BY DEF BelowMax
  <2>1. RowStep(j) /\ retryCount[j] < details[j].max
    BY <1>1 DEF AccountsInv, BelowMax
  <2>2. \A m \in Nat \ {0} : 0 < m
    OBVIOUS
  <2> QED BY <2>1, <2>2 DEF RowStep
<1>8. RetryAccounting'
  <2> SUFFICES ASSUME NEW t \in Tasks, "dead" \notin announced[JobOf[t]], task'[t] # "new"
               PROVE  retried[t] + Owed(t)' <= retryCount'[JobOf[t]] + lost[t]
    BY <1>1 DEF RetryAccounting
  <2>1. \A w \in Slots : hand[w] = t => task[t] = "active"
    BY <1>1, WorkerAssumption DEF SlotsInv, Holding
  <2>2. /\ retried[t] \in Nat /\ lost[t] \in Nat /\ retryCount[JobOf[t]] \in Nat
        /\ Owed(t) \in {0, 1} /\ Owed(t)' \in {0, 1}
    BY <1>1 DEF SlotsInv, Types, QueueTypeOK, WorkerTypeOK, RepoTypeOK, Owed
  <2>3. CASE task[t] = "new"
    <3>1. retried[t] = 0
      BY <1>1, <2>3 DEF NewIsUnspent
    <3>2. task'[t] \in {"scheduled", "pending"}
      BY <1>1, <2>3 DEF TaskStep
    <3>3. Owed(t)' = 0
      BY <1>1, <2>1, <2>3, <3>2 DEF Owed
    <3>4. retryCount'[JobOf[t]] \in Nat
      BY <1>1, <2>2 DEF RowStep
    <3> QED BY <2>2, <3>1, <3>3, <3>4
  <2>4. CASE task[t] # "new"
    <3>1. retried[t] + Owed(t) <= retryCount[JobOf[t]] + lost[t]
      BY <1>1, <2>4 DEF AccountsInv, RetryAccounting
    <3>2. Owed(t)' = Owed(t) \/ Owed(t)' = 0
      <4>1. task'[t] = task[t] \/ (task[t] # "active" /\ task'[t] = "finished")
        BY <1>1, <2>4 DEF TaskStep
      <4> QED BY <1>1, <2>1, <4>1 DEF Owed
    <3> QED BY <1>2, <2>2, <2>4, <3>1, <3>2
  <2> QED BY <2>3, <2>4
<1> QED BY <1>4, <1>5, <1>6, <1>7, <1>8 DEF AccountsInv

(* ... and a request takes a job back, or leaves what its row says. *)
LEMMA ServeKeepsOutcomes ==
  ASSUME EndInv, NEW c \in Clients, Serve(c), UNCHANGED workerVars
  PROVE  OutcomeInv'
<1>1. /\ SlotsInv /\ OutcomeInv /\ Unstarted
      /\ UNCHANGED <<pc, hand, local, announced, lost, retried>> /\ Held' = Held
      /\ \A t \in Tasks : JobOf[t] \in Jobs /\ TaskStep(t)
      /\ \A j \in Jobs : RowStep(j) /\ FirstTask[j] \in Tasks /\ JobOf[FirstTask[j]] = j
  BY ServeSteps, JobQueueAssumption
  DEF EndInv, KeptInv, BudgetInv, RestInv, workerVars, Held
<1>2. \A t \in Tasks : task[t] # "new" => status[JobOf[t]] # "absent"
  BY <1>1 DEF EndInv, KeptInv, BudgetInv, Created, Queued
<1>3. ASSUME NEW j \in Jobs, status[j] # "absent"
      PROVE  /\ \A s \in JobStatus : Says(j, s) => Says(j, s)'
             /\ BudgetUsed(j)' <=> BudgetUsed(j)
  BY <1>1, <1>3 DEF RowStep, Says, BudgetUsed
<1>4. AttemptsKnow'
  <2> SUFFICES ASSUME NEW w \in Slots, pc[w] # "idle" PROVE Knows(w)'
    BY <1>1 DEF AttemptsKnow
  <2>1. /\ JobIn(w) \in Jobs /\ status[JobIn(w)] # "absent" /\ Knows(w)
        /\ local[w].status \in JobStatus /\ JobIn(w)' = JobIn(w)
    BY <1>1, <1>2, BusySlot, WorkerAssumption
    DEF SlotsInv, Types, WorkerTypeOK, Holding, JobIn, OutcomeInv, AttemptsKnow
  <2>2. /\ \A s \in JobStatus : Says(JobIn(w), s) => Says(JobIn(w), s)'
        /\ BudgetUsed(JobIn(w))' <=> BudgetUsed(JobIn(w))
    BY <1>3, <2>1
  <2> QED BY <1>1, <2>1, <2>2 DEF Knows, Says, BudgetUsed, JobStatus
<1>5. DeathsDue'
  <2> SUFFICES ASSUME NEW j \in Jobs, "dead" \in announced[j] PROVE BudgetUsed(j)'
    BY <1>1 DEF DeathsDue
  <2>1. status[j] # "absent"
    BY <1>1, <1>2 DEF Unstarted
  <2> QED BY <1>1, <1>3, <2>1 DEF OutcomeInv, DeathsDue
<1>6. DeathsLast'
  <2> SUFFICES ASSUME NEW t \in Tasks, Over(t)', "dead" \in announced[JobOf[t]], lost[t] = 0
               PROVE  Says(JobOf[t], "dead")'
    BY <1>1 DEF DeathsLast, Says
  <2>1. Over(t) /\ task[t] # "new"
    BY <1>1 DEF Over, TaskStep
  <2>2. Says(JobOf[t], "dead")
    BY <1>1, <2>1 DEF OutcomeInv, DeathsLast
  <2> QED BY <1>1, <1>2, <1>3, <2>1, <2>2 DEF JobStatus
<1> QED BY <1>4, <1>5, <1>6 DEF OutcomeInv

(* Timeless facts of a request: a task that is finished has its job at rest. *)
LEMMA ServeKeepsRest ==
  ASSUME EndInv, NEW c \in Clients, Serve(c), UNCHANGED workerVars
  PROVE  Unstarted' /\ Early' /\ AcksHold' /\ FinishedRest'
<1>1. /\ SlotsInv /\ Unstarted /\ Early /\ AcksHold /\ FinishedRest
      /\ UNCHANGED <<pc, hand, announced, due>>
      /\ \A t \in Tasks : JobOf[t] \in Jobs /\ TaskStep(t)
      /\ \A j \in Jobs : RowStep(j) /\ FirstTask[j] \in Tasks /\ JobOf[FirstTask[j]] = j
  BY ServeSteps, JobQueueAssumption DEF EndInv, KeptInv, BudgetInv, RestInv, workerVars
<1>2. \A t \in Tasks : task[t] # "new" => status[JobOf[t]] # "absent"
  BY <1>1 DEF EndInv, KeptInv, BudgetInv, Created, Queued
<1>3. Unstarted'
  BY <1>1 DEF Unstarted, TaskStep, RowStep
<1>4. Early'
  <2> SUFFICES ASSUME NEW j \in Jobs, InFuture(j)'
               PROVE  task'[FirstTask[j]] \in {"new", "scheduled", "finished"}
    BY DEF Early
  <2>1. CASE status[j] = "absent"
    BY <1>1, <1>2, <2>1 DEF TaskStep
  <2>2. CASE status[j] # "absent"
    <3>1. InFuture(j)
      BY <1>1, <2>2 DEF RowStep, InFuture
    <3> QED BY <1>1, <3>1 DEF Early, TaskStep
  <2> QED BY <2>1, <2>2
<1>5. ASSUME NEW j \in Jobs, status[j] # "absent", Says(j, "done") PROVE Says(j, "done")'
  BY <1>1, <1>5 DEF RowStep, Says
<1>6. AcksHold'
  <2> SUFFICES ASSUME NEW w \in Slots, pc[w] = "ack" PROVE Says(JobIn(w), "done")'
    BY <1>1 DEF AcksHold
  <2>1. JobIn(w) \in Jobs /\ status[JobIn(w)] # "absent" /\ JobIn(w)' = JobIn(w)
    BY <1>1, <1>2, BusySlot, WorkerAssumption DEF SlotsInv, Types, Holding, JobIn
  <2> QED BY <1>1, <1>5, <2>1 DEF AcksHold, Says
<1>7. FinishedRest'
  <2> SUFFICES ASSUME NEW t \in Tasks, task'[t] = "finished" PROVE Says(JobOf[t], "done")'
    BY DEF FinishedRest
  <2>1. task[t] # "new" /\ Says(JobOf[t], "done")
    BY <1>1 DEF TaskStep, FinishedRest, Says
  <2> QED BY <1>1, <1>2, <1>5, <2>1
<1> QED BY <1>3, <1>4, <1>6, <1>7

(* job.go, Cancel: when it finds the job's time still ahead, no attempt of the
   job can be under way, so that its status write stands.                     *)
LEMMA ServeKeepsWithdrawn ==
  ASSUME NoManualRetry, EndInv, NEW c \in Clients, Serve(c), Stage(c), UNCHANGED workerVars
  PROVE  \A d \in Clients : Withdrawn(d)'
<1>1. /\ SlotsInv /\ ApiTypeOK /\ OneTaskPerJob /\ Early /\ due' = due
      /\ \A j \in Jobs : RowStep(j)
      /\ \A d \in Clients : job[d] \in Jobs /\ Withdrawn(d) /\ PastCancel(d)
      /\ \A d \in Clients \ {c} : at'[d] = at[d] /\ job'[d] = job[d]
      /\ NoRetries'
  BY ServeSteps, StageClient, ServeKeepsClients
  DEF EndInv, KeptInv, BudgetInv, AccountsInv, RestInv, ClientInv, ApiTypeOK
<1>2. ASSUME NEW j \in Jobs, status[j] = "deleted" \/ FirmlyCancelled(j)
      PROVE  status'[j] = "deleted" \/ FirmlyCancelled(j)'
  <2>1. CASE status[j] = "deleted"
    BY <1>1, <2>1 DEF RowStep
  <2>2. CASE FirmlyCancelled(j)
    BY <1>1, <2>2, ApiLeavesCancelled DEF ApiNext, Stage
  <2> QED BY <1>2, <2>1, <2>2
<1>3. ASSUME NEW d \in Clients \ {c} PROVE Withdrawn(d)'
  <2>1. status[job[d]] # "absent" /\ InFuture(job[d])' => InFuture(job[d])
    BY <1>1 DEF RowStep, InFuture
  <2>2. at[d] \in {"cancelCheck", "cancelTask"} => status[job[d]] # "absent"
    BY <1>1 DEF PastCancel
  <2>3. ASSUME at[d] = "cancelTask" \/ (at[d] = "cancelCheck" /\ InFuture(job[d])')
        PROVE  status'[job[d]] = "deleted" \/ FirmlyCancelled(job[d])'
    BY <1>1, <1>2, <2>1, <2>2, <2>3 DEF Withdrawn
  <2>4. /\ at'[d] = at[d] /\ job'[d] = job[d]
    BY <1>1
  <2> QED BY <2>3, <2>4 DEF Withdrawn, InFuture, FirmlyCancelled, Attempted, BeingRetried
<1>4. Withdrawn(c)'
  <2>0. at \in [Clients -> Stages] /\ status \in [Jobs -> JobStatus \cup {"absent", "deleted"}]
    BY <1>1 DEF ApiTypeOK, SlotsInv, Types, RepoTypeOK
  <2>1. CASE CancelWrite(c)
    <3>1. /\ job' = job /\ UNCHANGED <<details, due, pc, hand, task>>
          /\ \/ at'[c] = "end"
             \/ at'[c] = "cancelCheck" /\ status'[job[c]] = "cancelled"
      BY <1>1, <2>0, <2>1
      DEF CancelWrite, UpdateStatus, UpdateStatusFails, Advance, Answer, OnlyRepo, Elsewhere,
          repoVars, queueVars, workerVars
    <3>2. ASSUME InFuture(job[c]) PROVE ~Attempted(job[c])'
      <4>1. ASSUME NEW w \in Slots, pc[w] # "idle", JobIn(w) = job[c] PROVE FALSE
        <5>1. hand[w] \in Tasks /\ task[hand[w]] = "active"
          BY <1>1, <4>1, BusySlot, WorkerAssumption DEF SlotsInv, Types, Holding
        <5>2. hand[w] = FirstTask[job[c]]
          BY <1>1, <4>1, <5>1 DEF OneTaskPerJob, JobIn
        <5> QED BY <1>1, <3>2, <5>1, <5>2 DEF Early
      <4> QED BY <3>1, <4>1 DEF Attempted, JobIn
    <3>3. ~BeingRetried(job[c])'
      BY <1>1 DEF BeingRetried, NoRetries, Undone
    <3>4. InFuture(job[c])' <=> InFuture(job[c])
      BY <3>1 DEF InFuture
    <3>5. at'[c] = "cancelCheck" /\ InFuture(job[c])' => FirmlyCancelled(job[c])'
      BY <3>1, <3>2, <3>3, <3>4 DEF FirmlyCancelled
    <3> QED BY <3>1, <3>5 DEF Withdrawn, InFuture, FirmlyCancelled, Attempted, BeingRetried
  <2>2. CASE CancelCheck(c)
    <3>1. /\ job' = job /\ at[c] = "cancelCheck"
          /\ at'[c] = "end" \/ (at'[c] = "cancelTask" /\ InFuture(job[c]))
      BY <2>0, <2>2 DEF CancelCheck, Advance, Answer
    <3>2. at'[c] = "cancelTask" => status'[job[c]] = "deleted" \/ FirmlyCancelled(job[c])'
      BY <1>1, <1>2, <3>1 DEF Withdrawn
    <3> QED BY <3>1, <3>2 DEF Withdrawn, InFuture, FirmlyCancelled, Attempted, BeingRetried
  <2>3. CASE ~CancelWrite(c) /\ ~CancelCheck(c)
    <3>1. at'[c] \notin {"cancelCheck", "cancelTask"}
      BY <2>0, <2>3
      DEF Serve, SubmitEnqueue, SubmitCancel, Submit, Lookup, Refetch, FindReplay, CreateRow,
          Push, Rollback, CancelRead, CancelTask, Advance, Answer, AnswerWith
    <3> QED BY <3>1 DEF Withdrawn
  <2> QED BY <2>1, <2>2, <2>3
<1> QED BY <1>3, <1>4

-----------------------------------------------------------------------------
(* base.go: a handler writes the row of its own job, and sends its events. *)
LEMMA WorkerWrites ==
  ASSUME SlotsInv, WorkerNext, NEW j \in Jobs
  PROVE  /\ \/ status'[j] = status[j]
            \/ \E w \in Slots : pc[w] \in {"mark", "complete", "bury", "fail"} /\ JobIn(w) = j
         /\ \/ announced'[j] = announced[j]
            \/ \E w \in Slots : pc[w] = "tell" /\ JobIn(w) = j
<1>1. RepoTypeOK /\ announced \in [Jobs -> SUBSET {"done", "dead"}]
  BY DEF SlotsInv, Types, WorkerTypeOK
<1>2. ASSUME NEW w \in Slots, PrepareMark(w) \/ Complete(w) \/ Dead(w) \/ FailStatus(w)
      PROVE  /\ pc[w] \in {"mark", "complete", "bury", "fail"} /\ announced' = announced
             /\ status'[j] = status[j] \/ JobIn(w) = j
  <2>1. PICK s \in {"processing", "done", "dead", "failed"} :
          UpdateStatus(JobIn(w), s) \/ UpdateStatusFails(JobIn(w), s)
    BY <1>2 DEF PrepareMark, Complete, Dead, Settle, FailStatus
  <2>2. JobIn(w) \in Jobs /\ s \in JobStatus
    BY <1>2, BusySlot
    DEF PrepareMark, Complete, Dead, FailStatus, SlotsInv, Types, JobStatus
  <2>3. status' = status \/ status' = [status EXCEPT ![JobIn(w)] = s]
    BY <1>1, <2>1, <2>2, StatusWrite
  <2> QED
    BY <1>1, <1>2, <2>2, <2>3
    DEF PrepareMark, Complete, Dead, Settle, FailStatus, RepoTypeOK
<1>3. ASSUME NEW w \in Slots, Dispatch(w)
      PROVE  /\ pc[w] = "tell" /\ status' = status
             /\ announced'[j] = announced[j] \/ JobIn(w) = j
  BY <1>1, <1>3 DEF Dispatch, repoVars
<1>4. ASSUME NEW w \in Slots, PrepareFetch(w) \/ Run(w) \/ FailCount(w) \/ Ack(w) \/ Nack(w)
      PROVE  status' = status /\ announced' = announced
  BY <1>4
  DEF PrepareFetch, Run, FailCount, Ack, Nack, GetByID, GetByIDFails, UpdateRetryCount,
      UpdateRetryCountFails, repoVars
<1>5. ASSUME \/ \E w \in Slots : Abort(w) \/ \E t \in Tasks : Dequeue(w, t)
             \/ \E t \in Tasks : WorkerForward(t) \/ Recover(t)
             \/ \E i \in Jobs : Clock(i)
             \/ Crash \/ Stop \/ Exit \/ ForceExit \/ Restart
      PROVE  status' = status /\ announced' = announced
  BY <1>5
  DEF Abort, Dequeue, WorkerForward, Forward, Recover, Clock, TimePasses, Crash, Stop,
      Exit, ForceExit, Restart, Die, repoVars, workerVars
<1> QED BY <1>2, <1>3, <1>4, <1>5 DEF WorkerNext, Handler

(* processor.go: where a task goes, and when a handler returns nil. *)
LEMMA WorkerMoves ==
  ASSUME SlotsInv, WorkerNext
  PROVE  /\ \A t \in Tasks :
              /\ task'[t] = "new" <=> task[t] = "new"
              /\ task'[t] = task[t] \/ task[t] \in {"pending", "active", "retry"}
                   \/ (task[t] = "scheduled" /\ due[JobOf[t]])
              /\ task'[t] = "finished" => \/ task[t] = "finished"
                                          \/ \E w \in Slots : hand[w] = t /\ pc[w] = "ack"
         /\ \A w \in Slots : pc'[w] = "ack" =>
              /\ hand'[w] = hand[w]
              /\ \/ pc[w] = "ack"
                 \/ pc[w] = "fetch" /\ status[JobIn(w)] = "cancelled"
                 \/ pc[w] = "tell" /\ local[w].status = "done"
         /\ \A j \in Jobs : due[j] => due'[j]
<1>1. /\ task \in [Tasks -> TaskState] /\ pc \in [Slots -> Labels]
      /\ due \in [Jobs -> BOOLEAN] /\ hand \in [Slots -> Tasks \cup {NoTask}]
  BY DEF SlotsInv, Types, QueueTypeOK, DueTypeOK, WorkerTypeOK
<1>2. ASSUME NEW w \in Slots, Handler(w), ~Ack(w), ~Nack(w)
      PROVE  /\ task' = task /\ hand' = hand /\ due' = due
             /\ \E l \in Labels : pc' = [pc EXCEPT ![w] = l]
             /\ pc'[w] = "ack" => \/ pc[w] = "fetch" /\ status[JobIn(w)] = "cancelled"
                                  \/ pc[w] = "tell" /\ local[w].status = "done"
  <2>1. task' = task /\ hand' = hand /\ due' = due
    BY <1>2
    DEF Handler, PrepareFetch, PrepareMark, Run, Complete, Dead, Settle, Dispatch, FailCount,
        FailStatus, queueVars
  <2>2. PICK l \in Labels :
          /\ pc' = [pc EXCEPT ![w] = l]
          /\ l = "ack" => \/ pc[w] = "fetch" /\ status[JobIn(w)] = "cancelled"
                          \/ pc[w] = "tell" /\ local[w].status = "done"
    <3>1. CASE PrepareFetch(w)
      <4>1. PICK l \in {"nack", "mark", "ack"} :
              /\ pc[w] = "fetch" /\ Goto(w, l)
              /\ l = "ack" => status[JobIn(w)] = "cancelled"
        BY <3>1 DEF PrepareFetch, GiveUp, Skips
      <4>2. l \in Labels
        BY DEF Labels
      <4> QED BY <4>1, <4>2 DEF Goto
    <3>2. CASE Dispatch(w)
      BY <3>2 DEF Dispatch, Goto, Labels
    <3>3. CASE ~PrepareFetch(w) /\ ~Dispatch(w)
      BY <1>2, <3>3
      DEF Handler, PrepareMark, Run, Complete, Dead, Settle, FailCount, FailStatus, GiveUp,
          Goto, Labels
    <3> QED BY <3>1, <3>2, <3>3
  <2> QED BY <1>1, <2>1, <2>2
<1>3. ASSUME NEW w \in Slots, Ack(w) \/ Nack(w) \/ Abort(w)
      PROVE  /\ due' = due /\ pc' = [pc EXCEPT ![w] = "idle"]
             /\ hand' = [hand EXCEPT ![w] = NoTask] /\ task[hand[w]] = "active"
             /\ \E s \in TaskState \ {"new"} : /\ task' = [task EXCEPT ![hand[w]] = s]
                                               /\ s = "finished" => pc[w] = "ack"
  BY <1>3
  DEF Ack, Nack, Abort, DoneTask, FailTask, RequeueTask, Move, Free, Goto, TaskState
<1>4. ASSUME NEW t \in Tasks, Recover(t) \/ WorkerForward(t) \/ \E w \in Slots : Dequeue(w, t)
      PROVE  /\ due' = due
             /\ \/ task[t] \in {"pending", "active", "retry"}
                \/ task[t] = "scheduled" /\ due[JobOf[t]]
             /\ \E s \in TaskState \ {"new", "finished"} : task' = [task EXCEPT ![t] = s]
  BY <1>4
  DEF Recover, WorkerForward, Forward, ForwardTask, Dequeue, DequeueTask, FailTask, Move,
      TaskState
<1>5. ASSUME NEW t \in Tasks, Recover(t) \/ WorkerForward(t) \/ \E w \in Slots : Dequeue(w, t)
      PROVE  \A w \in Slots : pc'[w] = "ack" => pc[w] = "ack" /\ hand'[w] = hand[w]
  BY <1>1, <1>5 DEF Recover, WorkerForward, Dequeue, Goto, workerVars
<1>6. CASE \/ \E i \in Jobs : Clock(i)
           \/ Crash \/ Stop \/ Exit \/ ForceExit \/ Restart
  <2>1. /\ task' = task
        /\ due' = due \/ \E i \in Jobs : due' = [due EXCEPT ![i] = TRUE]
        /\ (pc' = pc /\ hand' = hand) \/ pc' = [w \in Slots |-> "idle"]
    BY <1>6
    DEF Clock, TimePasses, Crash, Stop, Exit, ForceExit, Restart, Die, queueVars, workerVars
  <2> QED BY <1>1, <2>1
<1>7. CASE \E w \in Slots : Handler(w) /\ ~Ack(w) /\ ~Nack(w)
  BY <1>1, <1>2, <1>7
<1>8. CASE \E w \in Slots : Ack(w) \/ Nack(w) \/ Abort(w)
  BY <1>1, <1>3, <1>8
<1>9. CASE \E t \in Tasks : Recover(t) \/ WorkerForward(t) \/ \E w \in Slots : Dequeue(w, t)
  BY <1>1, <1>4, <1>5, <1>9
<1> QED BY <1>6, <1>7, <1>8, <1>9 DEF WorkerNext, Handler

LEMMA WorkerKeepsRest ==
  ASSUME EndInv, WorkerNext, UNCHANGED apiVars
  PROVE  RestInv'
<1>1. /\ SlotsInv /\ ApiTypeOK /\ OneTaskPerJob
      /\ Unstarted /\ Early /\ AcksHold /\ FinishedRest
      /\ \A c \in Clients : Withdrawn(c) /\ PastCancel(c) /\ job[c] \in Jobs
      /\ \A j \in Jobs : FirstTask[j] \in Tasks /\ JobOf[FirstTask[j]] = j
      /\ \A t \in Tasks : JobOf[t] \in Jobs
      /\ Quiet /\ UNCHANGED <<at, job>>
  BY WorkerIsQuiet, JobQueueAssumption
  DEF EndInv, KeptInv, BudgetInv, AccountsInv, RestInv, ClientInv, ApiTypeOK, apiVars
<1>2. \A w \in Slots : pc[w] # "idle" =>
         /\ hand[w] \in Tasks /\ task[hand[w]] = "active" /\ hand[w] = FirstTask[JobIn(w)]
         /\ JobIn(w) \in Jobs
  BY <1>1, BusySlot, WorkerAssumption DEF SlotsInv, Types, Holding, OneTaskPerJob, JobIn
<1>3. \A j \in Jobs : task[FirstTask[j]] # "active" =>
         status'[j] = status[j] /\ announced'[j] = announced[j]
  BY <1>1, <1>2, WorkerWrites
<1>4. \A j \in Jobs : InFuture(j)' => InFuture(j)
  BY <1>1, WorkerMoves DEF Quiet, InFuture
<1>5. Unstarted'
  BY <1>1, <1>3, WorkerMoves DEF Unstarted
<1>6. Early'
  <2> SUFFICES ASSUME NEW j \in Jobs, InFuture(j)'
               PROVE  task'[FirstTask[j]] \in {"new", "scheduled", "finished"}
    BY DEF Early
  <2>1. InFuture(j) /\ task[FirstTask[j]] \in {"new", "scheduled", "finished"}
    BY <1>1, <1>4 DEF Early
  <2> QED BY <1>1, <2>1, WorkerMoves DEF InFuture
<1>7. ASSUME NEW w \in Slots, pc[w] \in {"fetch", "tell", "ack"}
      PROVE  status'[JobIn(w)] = status[JobIn(w)]
  <2>1. ASSUME NEW v \in Slots, pc[v] \in {"mark", "complete", "bury", "fail"},
               JobIn(v) = JobIn(w)
        PROVE  FALSE
    <3>1. v = w
      BY <1>1, <1>7, <2>1, OneSlotPerJob
    <3> QED BY <1>7, <2>1, <3>1
  <2> QED BY <1>2, <1>7, <2>1, <1>1, WorkerWrites
<1>8. AcksHold'
  <2> SUFFICES ASSUME NEW w \in Slots, pc'[w] = "ack" PROVE Says(JobIn(w), "done")'
    BY DEF AcksHold
  <2>1. /\ hand'[w] = hand[w]
        /\ \/ pc[w] = "ack"
           \/ pc[w] = "fetch" /\ status[JobIn(w)] = "cancelled"
           \/ pc[w] = "tell" /\ local[w].status = "done"
    BY <1>1, WorkerMoves
  <2>2. Says(JobIn(w), "done")
    BY <1>1, <2>1 DEF AcksHold, Says, EndInv, OutcomeInv, AttemptsKnow, Knows
  <2>3. status'[JobIn(w)] = status[JobIn(w)]
    BY <1>7, <2>1
  <2> QED BY <2>1, <2>2, <2>3 DEF Says, JobIn
<1>9. FinishedRest'
  <2> SUFFICES ASSUME NEW t \in Tasks, task'[t] = "finished" PROVE Says(JobOf[t], "done")'
    BY DEF FinishedRest
  <2>1. CASE task[t] = "finished"
    <3>1. t = FirstTask[JobOf[t]] /\ Says(JobOf[t], "done")
      BY <1>1, <2>1 DEF OneTaskPerJob, FinishedRest
    <3> QED BY <1>1, <1>3, <2>1, <3>1 DEF Says
  <2>2. CASE \E w \in Slots : hand[w] = t /\ pc[w] = "ack"
    <3>1. PICK w \in Slots : hand[w] = t /\ pc[w] = "ack"
      BY <2>2
    <3> QED BY <1>1, <1>7, <3>1 DEF AcksHold, Says, JobIn
  <2> QED BY <1>1, <2>1, <2>2, WorkerMoves
<1>10. ASSUME NEW c \in Clients PROVE Withdrawn(c)'
  <2>1. ASSUME at[c] = "cancelTask" \/ (at[c] = "cancelCheck" /\ InFuture(job[c])')
        PROVE  status'[job[c]] = "deleted" \/ FirmlyCancelled(job[c])'
    <3>1. status[job[c]] = "deleted" \/ FirmlyCancelled(job[c])
      BY <1>1, <1>4, <2>1 DEF Withdrawn
    <3>2. CASE status[job[c]] = "deleted"
      <4>1. status'[job[c]] \notin JobStatus /\ status'[job[c]] # "absent"
        BY <1>1, <3>2 DEF Quiet, HasRow, JobStatus
      <4>2. status'[job[c]] \in JobStatus \cup {"absent", "deleted"}
        BY <1>1, WorkerKeepsSlots DEF SlotsInv, Types, RepoTypeOK
      <4> QED BY <4>1, <4>2
    <3>3. CASE FirmlyCancelled(job[c])
      BY <1>1, <3>3, WorkerLeavesCancelled
    <3> QED BY <3>1, <3>2, <3>3
  <2> QED BY <1>1, <2>1 DEF Withdrawn, InFuture, FirmlyCancelled, Attempted, BeingRetried
<1> QED BY <1>5, <1>6, <1>8, <1>9, <1>10 DEF RestInv

(* The API process dies, or nothing happens. *)
LEMMA CrashKeepsEnd ==
  ASSUME EndInv, (ApiCrash /\ UNCHANGED workerVars) \/ UNCHANGED vars
  PROVE  AccountsInv' /\ OutcomeInv' /\ RestInv'
<1>1. /\ UNCHANGED <<status, retryCount, details, task, retried, due, pc, hand, local,
                     announced, lost, job>>
      /\ \A c \in Clients : at'[c] = at[c] \/ at'[c] = "end"
  BY DEF ApiCrash, vars, apiVars, repoVars, queueVars, workerVars
<1>2. AccountsInv'
  BY <1>1
  DEF EndInv, AccountsInv, OneTaskPerJob, InSync, Counting, Spent, BelowMax, RetryAccounting,
      Owed, Held, Exhausted, MaxRetry, JobIn
<1>3. OutcomeInv'
  BY <1>1
  DEF EndInv, OutcomeInv, AttemptsKnow, Knows, Says, BudgetUsed, DeathsDue, DeathsLast, Over,
      Held, JobIn
<1>4. Unstarted' /\ Early' /\ AcksHold' /\ FinishedRest'
  BY <1>1
  DEF EndInv, RestInv, Unstarted, Early, AcksHold, FinishedRest, InFuture, Says, JobIn
<1>5. ASSUME NEW c \in Clients PROVE Withdrawn(c)'
  BY <1>1
  DEF EndInv, RestInv, Withdrawn, InFuture, FirmlyCancelled, Attempted, BeingRetried, JobIn
<1> QED BY <1>2, <1>3, <1>4, <1>5 DEF RestInv

LEMMA EndInvInit == Init => EndInv
<1> SUFFICES ASSUME Init PROVE EndInv
  OBVIOUS
<1>1. /\ \A j \in Jobs : status[j] = "absent" /\ retryCount[j] = 0 /\ announced[j] = {}
                        /\ details[j].max = 1
      /\ \A t \in Tasks : task[t] = "new"
      /\ \A w \in Slots : pc[w] = "idle"
      /\ \A c \in Clients : at[c] = "start"
  BY DEF Init, RepoInit, Unset, QueueInit, WorkerInit, ApiInit
<1>2. AccountsInv
  BY <1>1
  DEF AccountsInv, OneTaskPerJob, InSync, Counting, Spent, BelowMax, RetryAccounting
<1>3. OutcomeInv
  BY <1>1, JobQueueAssumption DEF OutcomeInv, AttemptsKnow, DeathsDue, DeathsLast
<1>4. RestInv
  BY <1>1, JobQueueAssumption DEF RestInv, Unstarted, Early, AcksHold, FinishedRest, Withdrawn
<1> QED BY <1>2, <1>3, <1>4, KeptInvInit DEF EndInv

LEMMA EndInvKept ==
  ASSUME NoManualRetry, EndInv, [Next]_vars
  PROVE  EndInv'
<1>1. KeptInv' /\ SlotsInv' /\ KeptInv /\ SlotsInv
  BY KeptInvKept DEF EndInv, KeptInv, BudgetInv
<1>2. CASE WorkerNext /\ UNCHANGED apiVars
  BY <1>1, <1>2, WorkerKeepsAccounts, WorkerKeepsOutcomes, WorkerKeepsRest DEF EndInv
<1>3. CASE \E c \in Clients : Stage(c) /\ UNCHANGED workerVars
  <2>1. PICK c \in Clients : Stage(c) /\ UNCHANGED workerVars
    BY <1>3
  <2>2. Serve(c)
    BY <1>1, <2>1, OnlyServed DEF KeptInv
  <2>3. AccountsInv' /\ OutcomeInv'
    BY <2>1, <2>2, ServeKeepsAccounts, ServeKeepsOutcomes
  <2>4. RestInv'
    BY <2>1, <2>2, ServeKeepsRest, ServeKeepsWithdrawn DEF RestInv
  <2> QED BY <1>1, <2>3, <2>4 DEF EndInv
<1>4. CASE (ApiCrash /\ UNCHANGED workerVars) \/ UNCHANGED vars
  BY <1>1, <1>4, CrashKeepsEnd DEF EndInv
<1> QED BY <1>2, <1>3, <1>4 DEF Next, ApiNext, Stage

LEMMA EndInvHolds ==
  ASSUME NoManualRetry
  PROVE  Spec => []EndInv
BY EndInvInit, EndInvKept, PTL DEF Spec

(* job.go, Cancel against base.go, Complete and Fail: where nobody retries by
   hand, and no call to Postgres, no API process and no attempt was lost, a job
   that is not at rest has a task that will move it, or a request that sees to
   it, however its cancellations race with its attempts.                       *)
THEOREM NobodyStranded ==
  ASSUME NoManualRetry
  PROVE  Spec => []NothingStranded
<1>1. EndInv => NothingStranded
  <2> SUFFICES ASSUME EndInv, NoFaultYet, \A t \in Tasks : lost[t] = 0,
                      NEW j \in Jobs, status[j] \in {"pending", "processing", "failed"},
                      ~LiveTask(j)
               PROVE  Handling(j)
    BY DEF NothingStranded
  <2>1. /\ FirstTask[j] \in Tasks /\ JobOf[FirstTask[j]] = j
        /\ task[FirstTask[j]] \in {"new", "archived", "finished"}
    BY JobQueueAssumption
    DEF LiveTask, TasksOf, Live, EndInv, KeptInv, BudgetInv, SlotsInv, Types, QueueTypeOK,
        TaskState
  <2>2. task[FirstTask[j]] # "finished"
    BY <2>1 DEF EndInv, RestInv, FinishedRest, Says
  <2>3. task[FirstTask[j]] # "archived"
    BY <2>1, ArchivedSaysDead DEF EndInv, KeptInv, BudgetInv, Says
  <2>4. status[j] = "pending" /\ ~Queued(j)
    <3>1. task[FirstTask[j]] = "new" /\ status[j] = "pending"
      BY <2>1, <2>2, <2>3 DEF EndInv, RestInv, Unstarted
    <3> QED BY <3>1 DEF Queued, EndInv, AccountsInv, OneTaskPerJob
  <2> QED BY <2>4 DEF EndInv, KeptInv, Tended, Creator, Handling, Open
<1> QED BY <1>1, EndInvHolds, PTL

(* base.go, FailOrDead: the requests of the API do not silence a death: where
   nobody retries by hand, asynq archives a task of which at most one attempt
   was lost only after the job was announced as dead.                          *)
THEOREM SilenceNeedsLosses ==
  ASSUME NoManualRetry
  PROVE  Spec => []ExhaustedAnnounced
<1>1. EndInv => ExhaustedAnnounced
  BY SilenceTakesTwo DEF EndInv, KeptInv, BudgetInv
<1> QED BY <1>1, EndInvHolds, PTL
=============================================================================
