-------------------------- MODULE JobAccountsProofs --------------------------
(***************************************************************************)
(* What the steps of the worker keep of a job's books and of its outcome,  *)
(* as long as a job has one task and, while that is on the queue, nobody   *)
(* else writes its retry_count: the counters of the row, of asynq and of   *)
(* the attempts agree (AccountsInv), and the row says how the attempts     *)
(* went, unless it was cancelled or deleted meanwhile (OutcomeInv).        *)
(***************************************************************************)
EXTENDS JobHandlersProofs

(* Enqueue gives a job one task, and nothing here adds another. *)
OneTaskPerJob == \A t \in Tasks : task[t] # "new" => t = FirstTask[JobOf[t]]

(* base.go, Prepare to Fail: the count a handler read is still the row's. *)
InSync == \A w \in Slots : pc[w] \in {"mark", "run", "count"} =>
            local[w].retry = retryCount[JobIn(w)]

(* base.go, FailOrDead: Fail is reached only below the last attempt. *)
Counting == \A w \in Slots : pc[w] = "count" =>
              local[w].retry + 1 < details[JobIn(w)].max

(* asynq archives a task only when its retries are used up. *)
Spent == \A t \in Tasks : task[t] = "archived" => Exhausted(t, MaxRetry(t))

(* base.go, IsLastAttempt: the count stays below the budget, row or no row. *)
BelowMax == \A j \in Jobs : retryCount[j] < details[j].max

AccountsInv == /\ OneTaskPerJob /\ InSync /\ Counting /\ Spent /\ BelowMax
               /\ RetryAccounting

-----------------------------------------------------------------------------
(* Two working slots never work on the same job. *)
LEMMA OneSlotPerJob ==
  ASSUME SlotsInv, OneTaskPerJob, NEW v \in Slots, NEW w \in Slots,
         pc[v] # "idle", pc[w] # "idle", JobIn(v) = JobIn(w)
  PROVE  v = w
<1>1. hand[v] \in Tasks /\ hand[w] \in Tasks
  BY BusySlot DEF SlotsInv, Types
<1>2. task[hand[v]] = "active" /\ task[hand[w]] = "active"
  BY <1>1, WorkerAssumption DEF SlotsInv, Holding
<1>3. hand[v] = hand[w]
  BY <1>1, <1>2 DEF OneTaskPerJob, JobIn
<1> QED BY <1>1, <1>3, WorkerAssumption DEF SlotsInv, Apart

(* Another task than the one in hand belongs to another job. *)
LEMMA OtherTask ==
  ASSUME SlotsInv, OneTaskPerJob, NEW w \in Slots, pc[w] # "idle",
         NEW t \in Tasks, t # hand[w], task[t] # "new"
  PROVE  JobOf[t] # JobIn(w)
<1>1. hand[w] \in Tasks /\ task[hand[w]] = "active"
  BY BusySlot, WorkerAssumption DEF SlotsInv, Types, Holding
<1> QED BY <1>1 DEF OneTaskPerJob, JobIn

(* 1 when a handler at label l has accounted for its attempt. *)
Accounted(l) == IF l \in {"fail", "nack"} THEN 1 ELSE 0

(* What a step inside a handler does to the attempts that are owed. *)
LEMMA OwedMoves ==
  ASSUME SlotsInv, SlotsInv', NEW w \in Slots, pc[w] # "idle",
         NEW l \in Labels \ {"idle"}, Moves(w, l)
  PROVE  \A t \in Tasks :
           /\ t = hand[w] => Owed(t) = Accounted(pc[w]) /\ Owed(t)' = Accounted(l)
           /\ t # hand[w] => Owed(t)' = Owed(t)
<1>1. hand[w] \in Tasks /\ task[hand[w]] = "active"
  BY BusySlot, WorkerAssumption DEF SlotsInv, Types, Holding
<1>2. /\ hand' = hand /\ task' = task
      /\ pc' = [pc EXCEPT ![w] = l]
  BY DEF Moves, queueVars
<1>3. \A v \in Slots : hand[v] = hand[w] => v = w
  BY <1>1, WorkerAssumption DEF SlotsInv, Apart
<1>4. hand[w] \in Held /\ Held' = Held
  BY <1>1, <1>2, WorkerAssumption DEF Held
<1>5. ASSUME NEW t \in Tasks, t = hand[w] PROVE Owed(t) = Accounted(pc[w])
  BY <1>1, <1>3, <1>4, <1>5 DEF Owed, Accounted
<1>6. ASSUME NEW t \in Tasks, t = hand[w] PROVE Owed(t)' = Accounted(l)
  BY <1>1, <1>2, <1>3, <1>4, <1>6 DEF Owed, Accounted, SlotsInv, Types, WorkerTypeOK
<1>7. ASSUME NEW t \in Tasks, t # hand[w] PROVE Owed(t)' = Owed(t)
  BY <1>2, <1>4, <1>7 DEF Owed, SlotsInv, Types, WorkerTypeOK
<1> QED BY <1>5, <1>6, <1>7

(* A step inside a handler keeps the accounts if what it takes from the
   attempts that are owed it adds to the count or to the lost ones.        *)
LEMMA MovesAccounts ==
  ASSUME SlotsInv, AccountsInv, SlotsInv', NEW w \in Slots, pc[w] # "idle",
         NEW l \in Labels \ {"idle"}, Moves(w, l),
         \A j \in Jobs : j # JobIn(w) => /\ retryCount'[j] = retryCount[j]
                                         /\ announced'[j] = announced[j],
         \A t \in Tasks : t # hand[w] => lost'[t] = lost[t],
         "dead" \notin announced'[JobIn(w)] =>
            /\ "dead" \notin announced[JobIn(w)]
            /\ retryCount[JobIn(w)] + lost[hand[w]] + Accounted(l)
                 <= retryCount'[JobIn(w)] + lost'[hand[w]] + Accounted(pc[w])
  PROVE  RetryAccounting'
<1> SUFFICES ASSUME NEW t \in Tasks,
                    "dead" \notin announced'[JobOf[t]], task'[t] # "new"
             PROVE  retried'[t] + Owed(t)' <= retryCount'[JobOf[t]] + lost'[t]
  BY DEF RetryAccounting
<1>1. task' = task /\ retried' = retried
  BY DEF Moves, queueVars
<1>2. JobOf[t] \in Jobs
  BY JobQueueAssumption
<1>3. /\ t = hand[w] => Owed(t) = Accounted(pc[w]) /\ Owed(t)' = Accounted(l)
      /\ t # hand[w] => Owed(t)' = Owed(t)
  BY OwedMoves
<1>4. CASE t = hand[w]
  <2>1. JobOf[t] = JobIn(w)
    BY <1>4 DEF JobIn
  <2>2. retried[t] + Accounted(pc[w]) <= retryCount[JobIn(w)] + lost[t]
    BY <1>1, <1>3, <1>4, <2>1 DEF AccountsInv, RetryAccounting
  <2>3. /\ retried[t] \in Nat /\ lost[t] \in Nat /\ lost'[t] \in Nat
        /\ retryCount[JobIn(w)] \in Nat /\ retryCount'[JobIn(w)] \in Nat
    BY <1>2, <2>1
    DEF SlotsInv, Types, QueueTypeOK, WorkerTypeOK, RepoTypeOK
  <2>4. Accounted(l) \in Nat /\ Accounted(pc[w]) \in Nat
    BY DEF Accounted
  <2>5. retryCount[JobIn(w)] + lost[t] + Accounted(l)
          <= retryCount'[JobIn(w)] + lost'[t] + Accounted(pc[w])
    BY <1>4, <2>1
  <2>6. retried[t] + Accounted(l) <= retryCount'[JobIn(w)] + lost'[t]
    BY <2>2, <2>3, <2>4, <2>5
  <2> QED BY <1>1, <1>3, <1>4, <2>1, <2>6
<1>5. CASE t # hand[w]
  <2>1. JobOf[t] # JobIn(w)
    BY <1>1, <1>5, OtherTask DEF AccountsInv
  <2> QED BY <1>1, <1>2, <1>3, <1>5, <2>1 DEF AccountsInv, RetryAccounting
<1> QED BY <1>4, <1>5

-----------------------------------------------------------------------------
(* base.go, Prepare *)
LEMMA PrepareStep ==
  ASSUME SlotsInv, AccountsInv, SlotsInv', NEW w \in Slots, PrepareFetch(w) \/ PrepareMark(w)
  PROVE  AccountsInv'
<1>1. /\ pc[w] \in {"fetch", "mark"}
      /\ hand[w] \in Tasks /\ JobIn(w) \in Jobs
  BY BusySlot DEF PrepareFetch, PrepareMark, SlotsInv, Types
<1>2. /\ retryCount' = retryCount /\ details' = details
      /\ \/ status' = status
         \/ HasRow(JobIn(w)) /\ status' = [status EXCEPT ![JobIn(w)] = "processing"]
  BY <1>1, ReadOnly, StatusWrite
  DEF PrepareFetch, PrepareMark, SlotsInv, Types, JobStatus
<1>3. PICK l \in {"mark", "ack", "run", "nack"} :
         /\ Moves(w, l)
         /\ l \in {"mark", "ack"} =>
              local' = [local EXCEPT ![w] = [status |-> status[JobIn(w)],
                                             retry |-> retryCount[JobIn(w)]]]
         /\ l \notin {"mark", "ack"} => local' = local
         /\ l = "run" => pc[w] = "mark"
         /\ l # "nack" => lost' = lost
         /\ l = "nack" => lost' = [lost EXCEPT ![hand[w]] = @ + 1]
  BY DEF PrepareFetch, PrepareMark, Moves, Goto, GiveUp, Process
<1>4. UNCHANGED <<announced, task, retried>>
  BY DEF PrepareFetch, PrepareMark, queueVars
<1>5. BelowMax'
  BY <1>2 DEF AccountsInv, BelowMax
<1>6. InSync' /\ Counting'
  BY <1>1, <1>2, <1>3, <1>4
  DEF AccountsInv, InSync, Counting, Moves, JobIn, SlotsInv, Types, WorkerTypeOK
<1>7. OneTaskPerJob' /\ Spent'
  BY <1>2, <1>4
  DEF AccountsInv, OneTaskPerJob, Spent, Exhausted, MaxRetry
<1>8. RetryAccounting'
  <2>1. retryCount[JobIn(w)] + lost[hand[w]] + Accounted(l)
          <= retryCount'[JobIn(w)] + lost'[hand[w]] + Accounted(pc[w])
    BY <1>1, <1>2, <1>3 DEF Accounted, SlotsInv, Types, WorkerTypeOK, RepoTypeOK
  <2>2. \A t \in Tasks : t # hand[w] => lost'[t] = lost[t]
    BY <1>3 DEF SlotsInv, Types, WorkerTypeOK
  <2> QED
    BY <1>1, <1>2, <1>3, <1>4, <2>1, <2>2, MovesAccounts DEF Labels
<1> QED BY <1>5, <1>6, <1>7, <1>8 DEF AccountsInv

(* The body of Handle, and Complete and Dead *)
LEMMA WorkStep ==
  ASSUME SlotsInv, AccountsInv, SlotsInv', NEW w \in Slots, Run(w) \/ Complete(w) \/ Dead(w)
  PROVE  AccountsInv'
<1>1. /\ pc[w] \in {"run", "complete", "bury"}
      /\ hand[w] \in Tasks /\ JobIn(w) \in Jobs
  BY BusySlot DEF Run, Complete, Dead, SlotsInv, Types
<1>2. /\ retryCount' = retryCount /\ details' = details
      /\ \/ status' = status
         \/ /\ HasRow(JobIn(w))
            /\ \E s \in {"done", "dead"} : status' = [status EXCEPT ![JobIn(w)] = s]
  BY <1>1, StatusWrite
  DEF Run, Complete, Dead, Settle, SlotsInv, Types, JobStatus, repoVars
<1>3. PICK l \in {"complete", "bury", "count", "tell", "nack"} :
         /\ Moves(w, l)
         /\ l = "count" => pc[w] = "run" /\ ~IsLastAttempt(w)
         /\ l # "nack" => lost' = lost
         /\ l = "nack" => lost' = [lost EXCEPT ![hand[w]] = @ + 1]
  BY DEF Run, Complete, Dead, Settle, Moves, Goto, GiveUp, Process
<1>4. /\ UNCHANGED <<announced, task, retried>>
      /\ \A v \in Slots : local'[v].retry = local[v].retry
  <2>1. CASE Run(w)
    BY <2>1 DEF Run, queueVars
  <2>2. CASE Complete(w) \/ Dead(w)
    BY <2>2 DEF Complete, Dead, Settle, queueVars, SlotsInv, Types, WorkerTypeOK
  <2> QED BY <2>1, <2>2
<1>5. BelowMax'
  BY <1>2 DEF AccountsInv, BelowMax
<1>6. InSync'
  BY <1>1, <1>2, <1>3, <1>4
  DEF AccountsInv, InSync, Moves, JobIn, SlotsInv, Types, WorkerTypeOK
<1>7. Counting'
  <2>1. l = "count" => local[w].retry + 1 < details[JobIn(w)].max
    <3>1. local[w].retry \in Nat /\ details[JobIn(w)].max \in Nat
      BY <1>1 DEF SlotsInv, Types, WorkerTypeOK, RepoTypeOK, Details
    <3> QED BY <1>3, <3>1 DEF IsLastAttempt
  <2> QED
    BY <1>2, <1>3, <1>4, <2>1
    DEF AccountsInv, Counting, Moves, JobIn, SlotsInv, Types, WorkerTypeOK
<1>8. OneTaskPerJob' /\ Spent'
  BY <1>2, <1>4
  DEF AccountsInv, OneTaskPerJob, Spent, Exhausted, MaxRetry
<1>9. RetryAccounting'
  <2>1. retryCount[JobIn(w)] + lost[hand[w]] + Accounted(l)
          <= retryCount'[JobIn(w)] + lost'[hand[w]] + Accounted(pc[w])
    BY <1>1, <1>2, <1>3 DEF Accounted, SlotsInv, Types, WorkerTypeOK, RepoTypeOK
  <2>2. \A t \in Tasks : t # hand[w] => lost'[t] = lost[t]
    BY <1>3 DEF SlotsInv, Types, WorkerTypeOK
  <2> QED
    BY <1>1, <1>2, <1>3, <1>4, <2>1, <2>2, MovesAccounts DEF Labels
<1> QED BY <1>5, <1>6, <1>7, <1>8, <1>9 DEF AccountsInv

(* base.go, dispatch *)
LEMMA DispatchStep ==
  ASSUME SlotsInv, AccountsInv, SlotsInv', NEW w \in Slots, Dispatch(w)
  PROVE  AccountsInv'
<1>1. /\ pc[w] = "tell" /\ local[w].status \in {"done", "dead"}
      /\ hand[w] \in Tasks /\ JobIn(w) \in Jobs
  BY BusySlot DEF Dispatch, SlotsInv, Types, Verdict
<1>2. /\ UNCHANGED <<status, retryCount, details, task, retried, local, lost>>
      /\ announced' = [announced EXCEPT ![JobIn(w)] = @ \cup {local[w].status}]
  BY DEF Dispatch, repoVars, queueVars
<1>3. PICK l \in {"ack", "nack"} :
         /\ Moves(w, l)
         /\ l = "ack" => local[w].status = "done"
         /\ l = "nack" => local[w].status = "dead"
  BY <1>1 DEF Dispatch, Moves, Goto, Process
<1>4. BelowMax' /\ OneTaskPerJob' /\ Spent'
  BY <1>2
  DEF AccountsInv, BelowMax, OneTaskPerJob, Spent, Exhausted,
      MaxRetry
<1>5. InSync' /\ Counting'
  BY <1>1, <1>2, <1>3
  DEF AccountsInv, InSync, Counting, Moves, JobIn, SlotsInv, Types, WorkerTypeOK
<1>6. RetryAccounting'
  <2>1. "dead" \notin announced'[JobIn(w)] =>
           l = "ack" /\ "dead" \notin announced[JobIn(w)]
    BY <1>1, <1>2, <1>3 DEF SlotsInv, Types, WorkerTypeOK
  <2>2. l = "ack" => retryCount[JobIn(w)] + lost[hand[w]] + Accounted(l)
                       <= retryCount'[JobIn(w)] + lost'[hand[w]] + Accounted(pc[w])
    BY <1>1, <1>2 DEF Accounted, SlotsInv, Types, WorkerTypeOK, RepoTypeOK
  <2>3. \A j \in Jobs : j # JobIn(w) => announced'[j] = announced[j]
    BY <1>2 DEF SlotsInv, Types, WorkerTypeOK
  <2> QED
    BY <1>1, <1>2, <1>3, <2>1, <2>2, <2>3, MovesAccounts DEF Labels
<1> QED BY <1>4, <1>5, <1>6 DEF AccountsInv

(* base.go, Fail *)
LEMMA FailStep ==
  ASSUME SlotsInv, AccountsInv, SlotsInv', NEW w \in Slots, FailCount(w) \/ FailStatus(w)
  PROVE  AccountsInv'
<1>1. /\ pc[w] \in {"count", "fail"}
      /\ hand[w] \in Tasks /\ JobIn(w) \in Jobs /\ NextCount(w) \in Nat
  BY BusySlot
  DEF FailCount, FailStatus, NextCount, SlotsInv, Types, WorkerTypeOK
<1>2. /\ details' = details
      /\ \/ status' = status
         \/ /\ pc[w] = "fail" /\ HasRow(JobIn(w))
            /\ status' = [status EXCEPT ![JobIn(w)] = "failed"]
      /\ \/ retryCount' = retryCount
         \/ /\ pc[w] = "count" /\ HasRow(JobIn(w))
            /\ retryCount' = [retryCount EXCEPT ![JobIn(w)] = NextCount(w)]
  BY <1>1, StatusWrite, CountWrite
  DEF FailCount, FailStatus, SlotsInv, Types, JobStatus
<1>3. PICK l \in {"fail", "nack"} :
         /\ Moves(w, l)
         /\ pc[w] = "count" => \/ /\ lost' = lost
                                  /\ retryCount' = [retryCount EXCEPT ![JobIn(w)] = NextCount(w)]
                               \/ lost' = [lost EXCEPT ![hand[w]] = @ + 1]
         /\ pc[w] = "fail" => lost' = lost
  BY DEF FailCount, FailStatus, UpdateRetryCount, Moves, Goto, GiveUp, Process
<1>4. UNCHANGED <<announced, task, retried, local>>
  BY DEF FailCount, FailStatus, queueVars
<1>5. pc[w] = "count" => /\ NextCount(w) = retryCount[JobIn(w)] + 1
                         /\ NextCount(w) < details[JobIn(w)].max
  BY DEF AccountsInv, InSync, Counting, NextCount
<1>6. BelowMax'
  BY <1>1, <1>2, <1>5 DEF AccountsInv, BelowMax, SlotsInv, Types, RepoTypeOK
<1>7. InSync'
  <2> SUFFICES ASSUME NEW v \in Slots, pc'[v] \in {"mark", "run", "count"}
               PROVE  local'[v].retry = retryCount'[JobIn(v)']
    BY DEF InSync, JobIn
  <2>1. v # w /\ pc[v] = pc'[v] /\ JobIn(v)' = JobIn(v)
    BY <1>3 DEF Moves, JobIn, SlotsInv, Types, WorkerTypeOK
  <2>2. JobIn(v) \in Jobs /\ JobIn(v) # JobIn(w)
    BY <1>1, <2>1, BusySlot, OneSlotPerJob DEF AccountsInv, SlotsInv, Types
  <2>3. retryCount'[JobIn(v)] = retryCount[JobIn(v)]
    BY <1>1, <1>2, <2>2 DEF SlotsInv, Types, RepoTypeOK
  <2> QED BY <1>4, <2>1, <2>3 DEF AccountsInv, InSync
<1>8. Counting'
  BY <1>2, <1>3, <1>4
  DEF AccountsInv, Counting, Moves, JobIn, SlotsInv, Types, WorkerTypeOK
<1>9. OneTaskPerJob' /\ Spent'
  BY <1>2, <1>4
  DEF AccountsInv, OneTaskPerJob, Spent, Exhausted, MaxRetry
<1>10. RetryAccounting'
  <2>1. retryCount[JobIn(w)] + lost[hand[w]] + Accounted(l)
          <= retryCount'[JobIn(w)] + lost'[hand[w]] + Accounted(pc[w])
    BY <1>1, <1>2, <1>3, <1>5
    DEF Accounted, SlotsInv, Types, WorkerTypeOK, RepoTypeOK
  <2>2. \A t \in Tasks : t # hand[w] => lost'[t] = lost[t]
    BY <1>1, <1>3 DEF SlotsInv, Types, WorkerTypeOK
  <2>3. \A j \in Jobs : j # JobIn(w) => retryCount'[j] = retryCount[j]
    BY <1>2 DEF SlotsInv, Types, RepoTypeOK
  <2> QED
    BY <1>1, <1>3, <1>4, <2>1, <2>2, <2>3, MovesAccounts DEF Labels
<1> QED BY <1>6, <1>7, <1>8, <1>9, <1>10 DEF AccountsInv

-----------------------------------------------------------------------------
(* Steps that leave every row and every event as it is. *)
JobsKept == UNCHANGED <<status, retryCount, details, announced>>

(* asynq's move of one task t that is in no other slot's hands: what it keeps
   of the accounts whatever the move is.                                   *)
LEMMA TaskMoves ==
  ASSUME SlotsInv, AccountsInv, SlotsInv', JobsKept, NEW t \in Tasks, NEW s \in TaskState \ {"new"},
         task[t] # "new", task' = [task EXCEPT ![t] = s],
         s = "archived" => Exhausted(t, MaxRetry(t)),
         \A u \in Tasks : task'[u] = "archived" => retried'[u] = retried[u]
  PROVE  BelowMax' /\ OneTaskPerJob' /\ Spent'
<1> USE DEF JobsKept
<1>1. BelowMax'
  BY DEF AccountsInv, BelowMax
<1>2. OneTaskPerJob'
  BY DEF AccountsInv, OneTaskPerJob, SlotsInv, Types, QueueTypeOK
<1>3. Spent'
  BY DEF AccountsInv, Spent, Exhausted, MaxRetry, SlotsInv, Types, QueueTypeOK
<1> QED BY <1>1, <1>2, <1>3

(* processor.go: a free slot takes a task *)
LEMMA DequeueStep ==
  ASSUME SlotsInv, AccountsInv, SlotsInv', NEW w \in Slots, NEW t \in Tasks, Dequeue(w, t)
  PROVE  AccountsInv'
<1>1. /\ pc[w] = "idle" /\ pc' = [pc EXCEPT ![w] = "fetch"]
      /\ hand' = [hand EXCEPT ![w] = t]
      /\ task[t] = "pending" /\ task' = [task EXCEPT ![t] = "active"]
      /\ UNCHANGED <<retried, local, lost>> /\ JobsKept
  BY DEF Dequeue, DequeueTask, Move, Goto, repoVars, JobsKept
<1>2. BelowMax' /\ OneTaskPerJob' /\ Spent'
  BY <1>1, TaskMoves DEF TaskState
<1>3. InSync' /\ Counting'
  BY <1>1
  DEF JobsKept, AccountsInv, InSync, Counting, JobIn, SlotsInv, Types,
      WorkerTypeOK
<1>4. RetryAccounting'
  <2> SUFFICES ASSUME NEW u \in Tasks
               PROVE  /\ task'[u] # "new" => task[u] # "new"
                      /\ Owed(u)' = Owed(u)
    BY <1>1 DEF JobsKept, AccountsInv, RetryAccounting
  <2>1. task'[u] # "new" => task[u] # "new"
    BY <1>1 DEF SlotsInv, Types, QueueTypeOK
  <2>2. hand[w] = NoTask /\ hand'[w] = t
    BY <1>1 DEF SlotsInv, Holding, Types, WorkerTypeOK
  <2>3. \A v \in Slots : v # w => hand'[v] = hand[v] /\ pc'[v] = pc[v]
    BY <1>1 DEF SlotsInv, Types, WorkerTypeOK
  <2>4. \A v \in Slots : hand[v] # t
    BY <1>1, WorkerAssumption DEF SlotsInv, Holding
  <2>5. CASE u = t
    <3>1. Owed(u) = 0
      BY <1>1, <2>4, <2>5 DEF Owed
    <3>2. Owed(u)' = 0
      <4>1. task'[u] = "active" /\ u \in Held'
        BY <1>1, <2>2, <2>5, WorkerAssumption DEF Held, SlotsInv, Types, QueueTypeOK
      <4>2. \A v \in Slots : hand'[v] = u => v = w
        BY <2>3, <2>4, <2>5
      <4>3. pc'[w] = "fetch"
        BY <1>1 DEF SlotsInv, Types, WorkerTypeOK
      <4> QED BY <4>1, <4>2, <4>3 DEF Owed
    <3> QED BY <2>1, <3>1, <3>2
  <2>6. CASE u # t
    <3>1. task'[u] = task[u] /\ (u \in Held' <=> u \in Held)
      BY <1>1, <2>2, <2>3, <2>6, WorkerAssumption
      DEF Held, SlotsInv, Types, QueueTypeOK
    <3>2. \A v \in Slots : /\ hand'[v] = u <=> hand[v] = u
                           /\ hand[v] = u => pc'[v] = pc[v]
      BY <2>2, <2>3, <2>6, WorkerAssumption
    <3> QED BY <2>1, <3>1, <3>2 DEF Owed
  <2> QED BY <2>5, <2>6
<1> QED BY <1>2, <1>3, <1>4 DEF AccountsInv

(* What a slot that gives its task back does to the attempts that are owed. *)
LEMMA OwedFree ==
  ASSUME SlotsInv, SlotsInv', NEW w \in Slots, pc[w] # "idle", Free(w),
         NEW s \in TaskState \ {"active"}, task' = [task EXCEPT ![hand[w]] = s]
  PROVE  \A t \in Tasks :
           /\ t = hand[w] => /\ Owed(t) = Accounted(pc[w])
                             /\ Owed(t)' = IF s = "archived" THEN 1 ELSE 0
           /\ t # hand[w] => Owed(t)' = Owed(t)
<1>1. hand[w] \in Tasks /\ task[hand[w]] = "active" /\ hand'[w] = NoTask
  BY BusySlot, WorkerAssumption DEF SlotsInv, Types, Holding, Free, WorkerTypeOK
<1>2. \A v \in Slots : hand[v] = hand[w] => v = w
  BY <1>1, WorkerAssumption DEF SlotsInv, Apart
<1>3. \A v \in Slots : v # w => hand'[v] = hand[v] /\ pc'[v] = pc[v]
  BY DEF Free, Goto, SlotsInv, Types, WorkerTypeOK
<1>4. ASSUME NEW t \in Tasks, t = hand[w] PROVE Owed(t) = Accounted(pc[w])
  <2>1. t \in Held
    BY <1>1, <1>4, WorkerAssumption DEF Held
  <2> QED BY <1>1, <1>2, <1>4, <2>1 DEF Owed, Accounted
<1>5. ASSUME NEW t \in Tasks, t = hand[w]
      PROVE  Owed(t)' = IF s = "archived" THEN 1 ELSE 0
  <2>1. task'[t] = s
    BY <1>5 DEF SlotsInv, Types, QueueTypeOK
  <2>2. \A v \in Slots : hand'[v] # t
    BY <1>1, <1>2, <1>3, <1>5, WorkerAssumption
  <2> QED BY <2>1, <2>2 DEF Owed
<1>6. ASSUME NEW t \in Tasks, t # hand[w] PROVE Owed(t)' = Owed(t)
  <2>1. task'[t] = task[t] /\ (t \in Held' <=> t \in Held)
    BY <1>1, <1>3, <1>6, WorkerAssumption DEF Held, SlotsInv, Types, QueueTypeOK
  <2>2. \A v \in Slots : /\ hand'[v] = t <=> hand[v] = t
                         /\ hand[v] = t => pc'[v] = pc[v]
    BY <1>1, <1>3, <1>6, WorkerAssumption
  <2> QED BY <2>1, <2>2 DEF Owed
<1> QED BY <1>4, <1>5, <1>6

(* Moving tasks keeps the accounts if asynq charges no attempt that was not
   owed.                                                                   *)
LEMMA AccountsShrink ==
  ASSUME SlotsInv, AccountsInv, SlotsInv', JobsKept, lost' = lost,
         \A t \in Tasks : task'[t] # "new" =>
            task[t] # "new" /\ retried'[t] + Owed(t)' <= retried[t] + Owed(t)
  PROVE  RetryAccounting'
<1> SUFFICES ASSUME NEW t \in Tasks, "dead" \notin announced[JobOf[t]], task'[t] # "new"
             PROVE  retried'[t] + Owed(t)' <= retryCount[JobOf[t]] + lost[t]
  BY DEF JobsKept, RetryAccounting
<1>1. JobOf[t] \in Jobs
  BY JobQueueAssumption
<1>2. /\ retried[t] \in Nat /\ retried'[t] \in Nat /\ lost[t] \in Nat
      /\ retryCount[JobOf[t]] \in Nat
  BY <1>1 DEF SlotsInv, Types, QueueTypeOK, WorkerTypeOK, RepoTypeOK
<1>3. Owed(t) \in Nat /\ Owed(t)' \in Nat
  BY DEF Owed
<1>4. retried[t] + Owed(t) <= retryCount[JobOf[t]] + lost[t]
  BY DEF AccountsInv, RetryAccounting
<1> QED BY <1>2, <1>3, <1>4

(* processor.go: asynq acts on what the handler returned, or takes a task back *)
LEMMA ReturnStep ==
  ASSUME SlotsInv, AccountsInv, SlotsInv', NEW w \in Slots, Ack(w) \/ Nack(w) \/ Abort(w)
  PROVE  AccountsInv'
<1>1. /\ pc[w] # "idle" /\ Free(w) /\ hand[w] \in Tasks /\ task[hand[w]] = "active"
      /\ UNCHANGED <<local, lost>> /\ JobsKept
  BY BusySlot, WorkerAssumption
  DEF Ack, Nack, Abort, repoVars, JobsKept, SlotsInv, Types, Holding
<1>2. PICK s \in {"finished", "archived", "retry", "pending"} :
        /\ task' = [task EXCEPT ![hand[w]] = s]
        /\ s = "finished" => pc[w] = "ack"
        /\ s \in {"archived", "retry"} => pc[w] = "nack"
        /\ s = "archived" => Exhausted(hand[w], MaxRetry(hand[w]))
        /\ IF s = "retry" THEN retried' = [retried EXCEPT ![hand[w]] = @ + 1]
                          ELSE retried' = retried
  <2>1. CASE Ack(w)
    BY <2>1 DEF Ack, DoneTask, Move
  <2>2. CASE Nack(w)
    BY <2>2 DEF Nack, FailTask, Move
  <2>3. CASE Abort(w)
    BY <2>3 DEF Abort, RequeueTask, Move
  <2> QED BY <2>1, <2>2, <2>3
<1>3. BelowMax' /\ OneTaskPerJob' /\ Spent'
  <2>1. \A u \in Tasks : task'[u] = "archived" => retried'[u] = retried[u]
    BY <1>1, <1>2 DEF SlotsInv, Types, QueueTypeOK
  <2> QED BY <1>1, <1>2, <2>1, TaskMoves DEF TaskState
<1>4. InSync' /\ Counting'
  BY <1>1
  DEF Free, Goto, JobsKept, AccountsInv, InSync, Counting, JobIn, SlotsInv,
      Types, WorkerTypeOK
<1>5. RetryAccounting'
  <2> SUFFICES ASSUME NEW t \in Tasks, task'[t] # "new"
               PROVE  task[t] # "new" /\ retried'[t] + Owed(t)' <= retried[t] + Owed(t)
    BY <1>1, AccountsShrink
  <2>1. /\ t = hand[w] => /\ Owed(t) = Accounted(pc[w])
                          /\ Owed(t)' = IF s = "archived" THEN 1 ELSE 0
        /\ t # hand[w] => Owed(t)' = Owed(t)
    BY <1>1, <1>2, OwedFree DEF TaskState
  <2>2. Owed(t) \in Nat
    BY DEF Owed
  <2>3. retried[t] \in Nat /\ retried \in [Tasks -> Nat]
    BY DEF SlotsInv, Types, QueueTypeOK
  <2>4. CASE t = hand[w]
    BY <1>1, <1>2, <2>1, <2>3, <2>4 DEF Accounted
  <2>5. CASE t # hand[w]
    BY <1>2, <2>1, <2>2, <2>3, <2>5 DEF SlotsInv, Types, QueueTypeOK
  <2> QED BY <2>4, <2>5
<1> QED BY <1>3, <1>4, <1>5 DEF AccountsInv

(* The forwarder and the recoverer *)
LEMMA ServerStep ==
  ASSUME SlotsInv, AccountsInv, SlotsInv', NEW t \in Tasks, WorkerForward(t) \/ Recover(t)
  PROVE  AccountsInv'
<1>1. /\ UNCHANGED <<pc, hand, local, lost>> /\ JobsKept
      /\ Held' = Held
  BY DEF WorkerForward, Forward, Recover, workerVars, repoVars, JobsKept, Held
<1>2. PICK s \in {"archived", "retry", "pending"} :
        /\ task' = [task EXCEPT ![t] = s]
        /\ task[t] \notin {"new", "archived"}
        /\ s # "pending" => task[t] = "active" /\ t \notin Held
        /\ s = "archived" => Exhausted(t, MaxRetry(t))
        /\ IF s = "retry" THEN retried' = [retried EXCEPT ![t] = @ + 1]
                          ELSE retried' = retried
        /\ s = "pending" => task[t] # "active"
  <2>1. CASE WorkerForward(t)
    BY <2>1 DEF WorkerForward, Forward, ForwardTask, Move
  <2>2. CASE Recover(t)
    BY <2>2 DEF Recover, FailTask, Move
  <2> QED BY <2>1, <2>2
<1>3. BelowMax' /\ OneTaskPerJob' /\ Spent'
  <2>1. \A u \in Tasks : task'[u] = "archived" => retried'[u] = retried[u]
    BY <1>2 DEF SlotsInv, Types, QueueTypeOK
  <2> QED BY <1>1, <1>2, <2>1, TaskMoves DEF TaskState
<1>4. InSync' /\ Counting'
  BY <1>1 DEF JobsKept, AccountsInv, InSync, Counting, JobIn
<1>5. RetryAccounting'
  <2> SUFFICES ASSUME NEW u \in Tasks, task'[u] # "new"
               PROVE  task[u] # "new" /\ retried'[u] + Owed(u)' <= retried[u] + Owed(u)
    BY <1>1, AccountsShrink
  <2>1. retried[u] \in Nat /\ retried \in [Tasks -> Nat] /\ task \in [Tasks -> TaskState]
    BY DEF SlotsInv, Types, QueueTypeOK
  <2>2. CASE u # t
    <3>1. task'[u] = task[u] /\ retried'[u] = retried[u]
      BY <1>2, <2>1, <2>2
    <3>2. Owed(u)' = Owed(u) /\ Owed(u) \in Nat
      BY <1>1, <3>1 DEF Owed
    <3> QED BY <2>1, <3>1, <3>2
  <2>3. CASE u = t
    <3>1. t \notin Held
      BY <1>2, WorkerAssumption DEF Held, SlotsInv, Holding
    <3>2. task'[t] = s
      BY <1>2, <2>1
    <3>3. \A v \in Slots : hand[v] # t
      BY <3>1, WorkerAssumption DEF Held
    <3>4. Owed(t)' = IF s = "archived" THEN 1 ELSE 0
      BY <1>1, <1>2, <3>2, <3>3 DEF Owed
    <3>5. Owed(t) = IF s = "pending" THEN 0 ELSE 1
      BY <1>2, <3>1, <3>3 DEF Owed
    <3> QED BY <1>2, <2>1, <2>3, <3>4, <3>5
  <2> QED BY <2>2, <2>3
<1> QED BY <1>3, <1>4, <1>5 DEF AccountsInv

(* main.go: the process stops, dies, exits and comes back; time passes *)
LEMMA ProcessStep ==
  ASSUME SlotsInv, AccountsInv, SlotsInv',
         \/ Crash \/ Stop \/ Exit \/ ForceExit \/ Restart
         \/ \E j \in Jobs : Clock(j)
  PROVE  AccountsInv'
<1>1. JobsKept /\ UNCHANGED <<task, retried>>
  BY DEF Crash, Stop, Exit, ForceExit, Restart, Die, Clock, TimePasses, workerVars,
         repoVars, queueVars, JobsKept
<1>2. BelowMax' /\ OneTaskPerJob' /\ Spent'
  BY <1>1
  DEF JobsKept, AccountsInv, BelowMax, OneTaskPerJob,
      Spent, Exhausted, MaxRetry
<1>3. CASE Crash \/ ForceExit
  <2>1. Die
    BY <1>3 DEF Crash, ForceExit
  <2>2. InSync' /\ Counting'
    BY <2>1 DEF Die, InSync, Counting
  <2>3. ASSUME NEW t \in Tasks
        PROVE  /\ lost[t] \in Nat /\ lost'[t] \in Nat
               /\ Owed(t) \in Nat /\ Owed(t)' \in Nat
               /\ Owed(t)' + lost[t] <= Owed(t) + lost'[t]
    <3>1. Owed(t)' = IF task[t] \in {"archived", "active"} THEN 1 ELSE 0
      BY <1>1, <2>1, WorkerAssumption DEF Owed, Die, Held
    <3>2. lost[t] \in Nat
      BY DEF SlotsInv, Types, WorkerTypeOK
    <3>3. lost'[t] = IF \E w \in Slots : hand[w] = t /\ Unrecorded(w)
                     THEN lost[t] + 1 ELSE lost[t]
      BY <2>1 DEF Die
    <3>4. CASE \E w \in Slots : hand[w] = t /\ Unrecorded(w)
      BY <3>1, <3>2, <3>3, <3>4 DEF Owed
    <3>5. CASE ~ \E w \in Slots : hand[w] = t /\ Unrecorded(w)
      <4>1. Owed(t) = 1 \/ task[t] \notin {"archived", "active"}
        <5>1. CASE t \in Held
          <6>1. PICK w \in Slots : hand[w] = t
            BY <5>1 DEF Held
          <6>2. pc[w] \in {"idle", "fail", "nack"} /\ pc[w] # "idle"
            BY <3>5, <6>1, WorkerAssumption DEF Unrecorded, SlotsInv, Holding
          <6> QED BY <6>1, <6>2 DEF Owed
        <5>2. CASE t \notin Held
          BY <5>2 DEF Owed
        <5> QED BY <5>1, <5>2
      <4>2. Owed(t) \in {0, 1}
        BY DEF Owed
      <4> QED BY <3>1, <3>2, <3>3, <3>5, <4>1, <4>2
    <3> QED BY <3>4, <3>5
  <2>4. RetryAccounting'
    <3> SUFFICES ASSUME NEW t \in Tasks,
                        "dead" \notin announced[JobOf[t]], task[t] # "new"
                 PROVE  retried[t] + Owed(t)' <= retryCount[JobOf[t]] + lost'[t]
      BY <1>1 DEF JobsKept, RetryAccounting
    <3>1. JobOf[t] \in Jobs
      BY JobQueueAssumption
    <3>2. retried[t] \in Nat /\ retryCount[JobOf[t]] \in Nat
      BY <3>1 DEF SlotsInv, Types, QueueTypeOK, RepoTypeOK
    <3>3. retried[t] + Owed(t) <= retryCount[JobOf[t]] + lost[t]
      BY DEF AccountsInv, RetryAccounting
    <3> QED BY <2>3, <3>2, <3>3
  <2> QED BY <1>2, <2>2, <2>4 DEF AccountsInv
<1>4. CASE ~(Crash \/ ForceExit)
  <2>1. UNCHANGED <<pc, hand, local, lost>>
    BY <1>4 DEF Stop, Exit, Restart, Clock, workerVars
  <2>2. InSync' /\ Counting'
    BY <1>1, <2>1 DEF JobsKept, AccountsInv, InSync, Counting, JobIn
  <2>3. RetryAccounting'
    BY <1>1, <2>1 DEF JobsKept, AccountsInv, RetryAccounting, Owed, Held
  <2> QED BY <1>2, <2>2, <2>3 DEF AccountsInv
<1> QED BY <1>3, <1>4

-----------------------------------------------------------------------------
(* Every step of the worker keeps the books. *)
LEMMA WorkerKeepsAccounts ==
  ASSUME SlotsInv, AccountsInv, SlotsInv', WorkerNext
  PROVE  AccountsInv'
<1>1. ASSUME NEW w \in Slots, Handler(w) PROVE AccountsInv'
  BY <1>1, PrepareStep, WorkStep, DispatchStep, FailStep, ReturnStep DEF Handler
<1> QED BY <1>1, DequeueStep, ReturnStep, ServerStep, ProcessStep DEF WorkerNext

(* FailOrDead against asynq's counter: the arithmetic of the last attempt. *)
LEMMA SilenceTakesTwo ==
  ASSUME SlotsInv, AccountsInv
  PROVE  ExhaustedAnnounced
<1> SUFFICES ASSUME NEW t \in Tasks, task[t] = "archived", lost[t] <= 1,
                    "dead" \notin announced[JobOf[t]]
             PROVE  FALSE
  BY DEF ExhaustedAnnounced
<1>1. JobOf[t] \in Jobs
  BY JobQueueAssumption
<1>2. retried[t] + 1 <= retryCount[JobOf[t]] + lost[t]
  BY DEF AccountsInv, RetryAccounting, Owed
<1>3. retried[t] >= details[JobOf[t]].max
  BY DEF AccountsInv, Spent, Exhausted, MaxRetry
<1>4. retryCount[JobOf[t]] < details[JobOf[t]].max
  BY <1>1 DEF AccountsInv, BelowMax
<1>5. /\ retried[t] \in Nat /\ lost[t] \in Nat /\ retryCount[JobOf[t]] \in Nat
      /\ details[JobOf[t]].max \in Nat
  BY <1>1 DEF SlotsInv, Types, QueueTypeOK, WorkerTypeOK, RepoTypeOK, Details
<1> QED BY <1>2, <1>3, <1>4, <1>5

-----------------------------------------------------------------------------
BudgetUsed(j) == retryCount[j] + 1 >= details[j].max

(* The row of j says s, unless a request has taken the job back meanwhile. *)
Says(j, s) == status[j] \in {s, "cancelled", "deleted"}

(* base.go: what the handler in slot w relies on, at each of its calls. *)
Knows(w) ==
  /\ pc[w] \in {"run", "complete", "bury", "count", "fail"}
       => Says(JobIn(w), "processing")
  /\ pc[w] = "tell" => Says(JobIn(w), local[w].status)
  /\ pc[w] = "bury" \/ (pc[w] = "tell" /\ local[w].status = "dead")
       => BudgetUsed(JobIn(w))
  /\ pc[w] = "fail" => "dead" \notin announced[JobIn(w)]
  /\ pc[w] = "nack" /\ "dead" \in announced[JobIn(w)] /\ lost[hand[w]] = 0
       => Says(JobIn(w), "dead")

AttemptsKnow == \A w \in Slots : pc[w] # "idle" => Knows(w)

(* A death is announced only when the budget is used up, and stays so. *)
DeathsDue == \A j \in Jobs : "dead" \in announced[j] => BudgetUsed(j)

(* A task that asynq has archived, or is about to take from a dead process. *)
Over(t) == task[t] = "archived" \/ (task[t] = "active" /\ t \notin Held)

DeathsLast == \A t \in Tasks :
  Over(t) /\ "dead" \in announced[JobOf[t]] /\ lost[t] = 0 => Says(JobOf[t], "dead")

OutcomeInv == AttemptsKnow /\ DeathsDue /\ DeathsLast

(* A step inside the handler of slot w keeps OutcomeInv if it touches no other job
   and leaves w with what it relies on.                                    *)
LEMMA AttemptKeeps ==
  ASSUME SlotsInv, AccountsInv, OutcomeInv, SlotsInv', NEW w \in Slots, pc[w] # "idle",
         NEW l \in Labels \ {"idle"}, Moves(w, l), details' = details,
         \A j \in Jobs : j # JobIn(w) => /\ status'[j] = status[j]
                                         /\ retryCount'[j] = retryCount[j]
                                         /\ announced'[j] = announced[j],
         \A t \in Tasks : t # hand[w] => lost'[t] = lost[t],
         \A v \in Slots : v # w => local'[v] = local[v],
         Knows(w)',
         "dead" \in announced'[JobIn(w)] => BudgetUsed(JobIn(w))'
  PROVE  OutcomeInv'
<1>1. /\ hand' = hand /\ task' = task
      /\ pc' = [pc EXCEPT ![w] = l]
  BY DEF Moves, queueVars
<1>2. hand[w] \in Tasks /\ JobIn(w) \in Jobs
  BY BusySlot DEF SlotsInv, Types
<1>3. AttemptsKnow'
  <2> SUFFICES ASSUME NEW v \in Slots, pc'[v] # "idle", v # w PROVE Knows(v)'
    BY DEF AttemptsKnow
  <2>1. pc'[v] = pc[v] /\ Knows(v)
    BY <1>1 DEF OutcomeInv, AttemptsKnow, SlotsInv, Types, WorkerTypeOK
  <2>2. hand[v] \in Tasks /\ JobIn(v) \in Jobs
    BY <2>1, BusySlot DEF SlotsInv, Types
  <2>3. JobIn(v) # JobIn(w)
    BY <2>1, OneSlotPerJob DEF AccountsInv
  <2>4. hand[v] # hand[w] /\ JobIn(v)' = JobIn(v)
    BY <1>1, <2>3 DEF JobIn
  <2> QED
    BY <1>1, <1>2, <2>1, <2>2, <2>3, <2>4 DEF Says, Knows, BudgetUsed
<1>4. DeathsDue'
  <2> SUFFICES ASSUME NEW j \in Jobs, "dead" \in announced'[j] PROVE BudgetUsed(j)'
    BY DEF DeathsDue
  <2>1. CASE j = JobIn(w)
    <3>1. JobIn(w)' = JobIn(w)
      BY <1>1 DEF JobIn
    <3> QED BY <2>1, <3>1 DEF BudgetUsed
  <2>2. CASE j # JobIn(w)
    BY <2>2 DEF OutcomeInv, DeathsDue, BudgetUsed
  <2> QED BY <2>1, <2>2
<1>5. DeathsLast'
  <2> SUFFICES ASSUME NEW t \in Tasks, Over(t)', "dead" \in announced'[JobOf[t]],
                      lost'[t] = 0
               PROVE  Says(JobOf[t], "dead")'
    BY DEF DeathsLast, Says
  <2>1. Over(t) /\ task[t] # "new" /\ JobOf[t] \in Jobs
    BY <1>1, JobQueueAssumption DEF Over, Held
  <2>2. t # hand[w]
    BY <1>2, <2>1, WorkerAssumption DEF Over, Held, SlotsInv, Holding
  <2>3. JobOf[t] # JobIn(w)
    BY <2>1, <2>2, OtherTask DEF AccountsInv
  <2> QED BY <2>1, <2>2, <2>3 DEF OutcomeInv, DeathsLast, Says
<1> QED BY <1>3, <1>4, <1>5 DEF OutcomeInv

(* base.go, Prepare *)
LEMMA PrepareKnows ==
  ASSUME SlotsInv, AccountsInv, OutcomeInv, SlotsInv', NEW w \in Slots, PrepareFetch(w) \/ PrepareMark(w)
  PROVE  OutcomeInv'
<1>1. /\ pc[w] \in {"fetch", "mark"}
      /\ hand[w] \in Tasks /\ JobIn(w) \in Jobs
  BY BusySlot DEF PrepareFetch, PrepareMark, SlotsInv, Types
<1>2. /\ retryCount' = retryCount /\ details' = details
      /\ \/ status' = status
         \/ HasRow(JobIn(w)) /\ status' = [status EXCEPT ![JobIn(w)] = "processing"]
  BY <1>1, ReadOnly, StatusWrite
  DEF PrepareFetch, PrepareMark, SlotsInv, Types, JobStatus
<1>3. PICK l \in {"mark", "ack", "run", "nack"} :
         /\ Moves(w, l)
         /\ l # "nack" => lost' = lost
         /\ l = "nack" => lost' = [lost EXCEPT ![hand[w]] = @ + 1]
         /\ l = "run" => status' = [status EXCEPT ![JobIn(w)] = "processing"]
  BY DEF PrepareFetch, PrepareMark, UpdateStatus, Moves, Goto, GiveUp, Process
<1>4. /\ announced' = announced
      /\ \A v \in Slots : v # w => local'[v] = local[v]
  BY DEF PrepareFetch, PrepareMark, SlotsInv, Types, WorkerTypeOK
<1>5. Knows(w)'
  BY <1>1, <1>2, <1>3, <1>4
  DEF Says, Knows, Moves, JobIn, SlotsInv, Types, WorkerTypeOK, RepoTypeOK
<1>6. "dead" \in announced'[JobIn(w)] => BudgetUsed(JobIn(w))'
  BY <1>1, <1>2, <1>3, <1>4 DEF OutcomeInv, DeathsDue, BudgetUsed, JobIn, Moves
<1>7. /\ \A t \in Tasks : t # hand[w] => lost'[t] = lost[t]
      /\ \A j \in Jobs : j # JobIn(w) => status'[j] = status[j]
  BY <1>1, <1>2, <1>3 DEF SlotsInv, Types, WorkerTypeOK, RepoTypeOK
<1> QED BY <1>1, <1>2, <1>3, <1>4, <1>5, <1>6, <1>7, AttemptKeeps DEF Labels

(* The body of Handle, and Complete and Dead *)
LEMMA WorkKnows ==
  ASSUME SlotsInv, AccountsInv, OutcomeInv, SlotsInv', NEW w \in Slots, Run(w) \/ Complete(w) \/ Dead(w)
  PROVE  OutcomeInv'
<1>1. /\ pc[w] \in {"run", "complete", "bury"} /\ Knows(w)
      /\ hand[w] \in Tasks /\ JobIn(w) \in Jobs
  BY BusySlot
  DEF Run, Complete, Dead, SlotsInv, Types, OutcomeInv, AttemptsKnow
<1>2. /\ retryCount' = retryCount /\ details' = details
      /\ \/ status' = status
         \/ /\ HasRow(JobIn(w))
            /\ \E s \in {"done", "dead"} : status' = [status EXCEPT ![JobIn(w)] = s]
  BY <1>1, StatusWrite
  DEF Run, Complete, Dead, Settle, SlotsInv, Types, JobStatus, repoVars
<1>3. PICK l \in {"complete", "bury", "count", "tell", "nack"} :
         /\ Moves(w, l)
         /\ l \in {"complete", "bury", "count"} => pc[w] = "run" /\ status' = status
         /\ l = "bury" => IsLastAttempt(w)
         /\ l = "tell" => /\ status'[JobIn(w)] = local'[w].status
                          /\ local'[w].status = "dead" => pc[w] = "bury"
         /\ l # "nack" => lost' = lost
         /\ l = "nack" => lost' = [lost EXCEPT ![hand[w]] = @ + 1]
  <2>1. CASE Run(w)
    BY <2>1 DEF Run, Moves, Goto, Process, repoVars
  <2>2. CASE Complete(w)
    BY <1>1, <2>2
    DEF Complete, Settle, UpdateStatus, Moves, Goto, GiveUp, Process, SlotsInv, Types, WorkerTypeOK, RepoTypeOK
  <2>3. CASE Dead(w)
    BY <1>1, <2>3
    DEF Dead, Settle, UpdateStatus, Moves, Goto, GiveUp, Process, SlotsInv, Types, WorkerTypeOK, RepoTypeOK
  <2> QED BY <2>1, <2>2, <2>3
<1>4. /\ announced' = announced
      /\ \A v \in Slots : v # w => local'[v] = local[v]
  BY DEF Run, Complete, Dead, Settle, SlotsInv, Types, WorkerTypeOK
<1>5. l = "bury" => BudgetUsed(JobIn(w))
  BY <1>3 DEF IsLastAttempt, BudgetUsed, AccountsInv, InSync, JobIn
<1>6. Knows(w)'
  <2>1. pc'[w] = l /\ JobIn(w)' = JobIn(w) /\ hand' = hand
    BY <1>3 DEF Moves, JobIn, SlotsInv, Types, WorkerTypeOK
  <2>2. pc[w] = "bury" => BudgetUsed(JobIn(w))
    BY <1>1 DEF Says, Knows
  <2>3. l = "nack" => lost'[hand[w]] # 0
    BY <1>1, <1>3 DEF SlotsInv, Types, WorkerTypeOK
  <2>4. l \in {"complete", "bury", "count"} => Says(JobIn(w), "processing")'
    BY <1>1, <1>3, <2>1 DEF Says, Knows
  <2> QED
    BY <1>1, <1>2, <1>3, <1>5, <2>1, <2>2, <2>3, <2>4 DEF Says, Knows, BudgetUsed
<1>7. "dead" \in announced'[JobIn(w)] => BudgetUsed(JobIn(w))'
  BY <1>1, <1>2, <1>3, <1>4 DEF OutcomeInv, DeathsDue, BudgetUsed, JobIn, Moves
<1>8. /\ \A t \in Tasks : t # hand[w] => lost'[t] = lost[t]
      /\ \A j \in Jobs : j # JobIn(w) => status'[j] = status[j]
  BY <1>1, <1>2, <1>3 DEF SlotsInv, Types, WorkerTypeOK, RepoTypeOK
<1> QED BY <1>1, <1>2, <1>3, <1>4, <1>6, <1>7, <1>8, AttemptKeeps DEF Labels

(* base.go, dispatch *)
LEMMA DispatchKnows ==
  ASSUME SlotsInv, AccountsInv, OutcomeInv, SlotsInv', NEW w \in Slots, Dispatch(w)
  PROVE  OutcomeInv'
<1>1. /\ pc[w] = "tell" /\ local[w].status \in {"done", "dead"} /\ Knows(w)
      /\ hand[w] \in Tasks /\ JobIn(w) \in Jobs
  BY BusySlot DEF Dispatch, SlotsInv, Types, Verdict, OutcomeInv, AttemptsKnow
<1>2. /\ UNCHANGED <<status, retryCount, details, local, lost>>
      /\ announced' = [announced EXCEPT ![JobIn(w)] = @ \cup {local[w].status}]
  BY DEF Dispatch, repoVars
<1>3. PICK l \in {"ack", "nack"} :
         Moves(w, l) /\ (l = "nack" => local[w].status = "dead")
  BY <1>1 DEF Dispatch, Moves, Goto, Process
<1>4. /\ pc'[w] = l /\ JobIn(w)' = JobIn(w)
      /\ announced'[JobIn(w)] = announced[JobIn(w)] \cup {local[w].status}
  BY <1>1, <1>2, <1>3 DEF Moves, JobIn, SlotsInv, Types, WorkerTypeOK
<1>5. Knows(w)'
  BY <1>1, <1>2, <1>3, <1>4 DEF Says, Knows
<1>6. "dead" \in announced'[JobIn(w)] => BudgetUsed(JobIn(w))'
  BY <1>1, <1>2, <1>4 DEF Says, Knows, OutcomeInv, DeathsDue, BudgetUsed
<1>7. \A j \in Jobs : j # JobIn(w) => announced'[j] = announced[j]
  BY <1>2 DEF SlotsInv, Types, WorkerTypeOK
<1> QED BY <1>1, <1>2, <1>3, <1>5, <1>6, <1>7, AttemptKeeps DEF Labels

(* base.go, Fail *)
LEMMA FailKnows ==
  ASSUME SlotsInv, AccountsInv, OutcomeInv, SlotsInv', NEW w \in Slots, FailCount(w) \/ FailStatus(w)
  PROVE  OutcomeInv'
<1>1. /\ pc[w] \in {"count", "fail"} /\ Knows(w)
      /\ hand[w] \in Tasks /\ JobIn(w) \in Jobs /\ NextCount(w) \in Nat
  BY BusySlot
  DEF FailCount, FailStatus, NextCount, SlotsInv, Types, WorkerTypeOK,
      OutcomeInv, AttemptsKnow
<1>2. pc[w] = "count" => /\ NextCount(w) = retryCount[JobIn(w)] + 1
                         /\ NextCount(w) < details[JobIn(w)].max
  BY DEF AccountsInv, InSync, Counting, NextCount
<1>3. "dead" \notin announced[JobIn(w)]
  <2>1. CASE pc[w] = "fail"
    BY <1>1, <2>1 DEF Says, Knows
  <2>2. CASE pc[w] = "count"
    <3>1. retryCount[JobIn(w)] \in Nat /\ details[JobIn(w)].max \in Nat
      BY <1>1 DEF SlotsInv, Types, RepoTypeOK, Details
    <3>2. ~BudgetUsed(JobIn(w))
      BY <1>2, <2>2, <3>1 DEF BudgetUsed
    <3> QED BY <1>1, <3>2 DEF OutcomeInv, DeathsDue
  <2> QED BY <1>1, <2>1, <2>2
<1>4. /\ details' = details /\ announced' = announced /\ local' = local
      /\ \/ status' = status
         \/ /\ pc[w] = "fail" /\ HasRow(JobIn(w))
            /\ status' = [status EXCEPT ![JobIn(w)] = "failed"]
      /\ \/ retryCount' = retryCount
         \/ /\ pc[w] = "count" /\ HasRow(JobIn(w))
            /\ retryCount' = [retryCount EXCEPT ![JobIn(w)] = NextCount(w)]
  BY <1>1, StatusWrite, CountWrite
  DEF FailCount, FailStatus, SlotsInv, Types, JobStatus
<1>5. PICK l \in {"fail", "nack"} :
         /\ Moves(w, l)
         /\ l = "fail" => pc[w] = "count"
         /\ \/ lost' = lost
            \/ lost' = [lost EXCEPT ![hand[w]] = @ + 1]
  BY DEF FailCount, FailStatus, Moves, Goto, GiveUp, Process
<1>6. Knows(w)'
  <2>1. /\ pc'[w] = l /\ JobIn(w)' = JobIn(w)
        /\ l = "fail" => status' = status
    BY <1>4, <1>5 DEF Moves, JobIn, SlotsInv, Types, WorkerTypeOK
  <2> QED BY <1>1, <1>3, <1>4, <1>5, <2>1 DEF Says, Knows
<1>7. /\ \A t \in Tasks : t # hand[w] => lost'[t] = lost[t]
      /\ \A j \in Jobs : j # JobIn(w) => /\ status'[j] = status[j]
                                         /\ retryCount'[j] = retryCount[j]
  BY <1>1, <1>4, <1>5 DEF SlotsInv, Types, WorkerTypeOK, RepoTypeOK
<1> QED BY <1>1, <1>3, <1>4, <1>5, <1>6, <1>7, AttemptKeeps DEF Labels

-----------------------------------------------------------------------------
(* A step that leaves the jobs alone keeps OutcomeInv if no handler goes on from it
   but a fresh one, and no task is over that was not, or whose handler had
   not already failed.                                                     *)
LEMMA QueueKeeps ==
  ASSUME SlotsInv, AccountsInv, OutcomeInv, SlotsInv', JobsKept, local' = local,
         \A v \in Slots : pc'[v] \in {"idle", "fetch"}
                          \/ (pc'[v] = pc[v] /\ hand'[v] = hand[v]),
         \A v \in Slots : pc'[v] = "nack" => lost'[hand[v]] = lost[hand[v]],
         \A t \in Tasks : Over(t)' /\ lost'[t] = 0 =>
            /\ lost[t] = 0
            /\ Over(t) \/ \E v \in Slots : hand[v] = t /\ pc[v] \in {"fail", "nack"}
  PROVE  OutcomeInv'
<1> USE DEF JobsKept
<1>1. AttemptsKnow'
  <2> SUFFICES ASSUME NEW v \in Slots, pc'[v] # "idle" PROVE Knows(v)'
    BY DEF AttemptsKnow
  <2>1. CASE pc'[v] = "fetch"
    BY <2>1 DEF Says, Knows
  <2>2. CASE pc'[v] # "fetch"
    <3>1. pc'[v] = pc[v] /\ hand'[v] = hand[v] /\ Knows(v)
      BY <2>2 DEF OutcomeInv, AttemptsKnow
    <3> QED BY <3>1 DEF Says, Knows, JobIn, BudgetUsed
  <2> QED BY <2>1, <2>2
<1>2. DeathsDue'
  BY DEF OutcomeInv, DeathsDue, BudgetUsed
<1>3. DeathsLast'
  <2> SUFFICES ASSUME NEW t \in Tasks, Over(t)', "dead" \in announced[JobOf[t]],
                      lost'[t] = 0
               PROVE  Says(JobOf[t], "dead")
    BY DEF DeathsLast, Says
  <2>1. CASE Over(t)
    BY <2>1 DEF OutcomeInv, DeathsLast, Says
  <2>2. CASE \E v \in Slots : hand[v] = t /\ pc[v] \in {"fail", "nack"}
    <3>1. PICK v \in Slots : hand[v] = t /\ pc[v] \in {"fail", "nack"}
      BY <2>2
    <3>2. Knows(v) /\ lost[hand[v]] = 0
      BY <3>1 DEF OutcomeInv, AttemptsKnow
    <3> QED BY <3>1, <3>2 DEF Says, Knows, JobIn
  <2> QED BY <2>1, <2>2
<1> QED BY <1>1, <1>2, <1>3 DEF OutcomeInv

(* processor.go: tasks are handed out, given back, forwarded and recovered *)
LEMMA QueueKnows ==
  ASSUME SlotsInv, AccountsInv, OutcomeInv, SlotsInv',
         \/ \E w \in Slots, t \in Tasks : Dequeue(w, t)
         \/ \E w \in Slots : Ack(w) \/ Nack(w) \/ Abort(w)
         \/ \E t \in Tasks : WorkerForward(t) \/ Recover(t)
  PROVE  OutcomeInv'
<1>1. JobsKept /\ UNCHANGED <<local, lost>>
  BY DEF Dequeue, Ack, Nack, Abort, WorkerForward, Forward, Recover, JobsKept, repoVars,
         workerVars
<1>2. \A v \in Slots : pc'[v] \in {"idle", "fetch"}
                       \/ (pc'[v] = pc[v] /\ hand'[v] = hand[v])
  BY DEF Dequeue, Ack, Nack, Abort, WorkerForward, Recover, Free, Goto, workerVars, SlotsInv, Types, WorkerTypeOK
<1>3. ASSUME NEW u \in Tasks, Over(u)'
      PROVE  Over(u) \/ \E v \in Slots : hand[v] = u /\ pc[v] \in {"fail", "nack"}
  <2>1. CASE \E w \in Slots, t \in Tasks : Dequeue(w, t)
    <3>1. PICK w \in Slots, t \in Tasks : Dequeue(w, t)
      BY <2>1
    <3>2. /\ task' = [task EXCEPT ![t] = "active"] /\ hand' = [hand EXCEPT ![w] = t]
          /\ pc[w] = "idle"
      BY <3>1 DEF Dequeue, DequeueTask, Move
    <3>3. hand'[w] = t /\ t \in Held' /\ hand[w] = NoTask
      BY <3>2, WorkerAssumption DEF Held, SlotsInv, Types, WorkerTypeOK, Holding
    <3>4. u # t /\ task'[u] = task[u]
      BY <1>3, <3>2, <3>3 DEF Over, SlotsInv, Types, QueueTypeOK
    <3>5. u \in Held => u \in Held'
      BY <3>2, <3>3, WorkerAssumption DEF Held, SlotsInv, Types, WorkerTypeOK
    <3> QED BY <1>3, <3>4, <3>5 DEF Over
  <2>2. CASE \E w \in Slots : Ack(w) \/ Nack(w) \/ Abort(w)
    <3>1. PICK w \in Slots : Ack(w) \/ Nack(w) \/ Abort(w)
      BY <2>2
    <3>2. /\ hand' = [hand EXCEPT ![w] = NoTask]
          /\ \E s \in TaskState \ {"active"} :
               /\ task' = [task EXCEPT ![hand[w]] = s]
               /\ s = "archived" => pc[w] = "nack"
      BY <3>1
      DEF Ack, Nack, Abort, Free, DoneTask, FailTask, RequeueTask, Move, TaskState
    <3>3. CASE u = hand[w]
      BY <1>3, <3>2, <3>3 DEF Over, SlotsInv, Types, QueueTypeOK
    <3>4. CASE u # hand[w]
      <4>1. task'[u] = task[u] /\ (u \in Held => u \in Held')
        BY <3>2, <3>4, WorkerAssumption
        DEF Held, SlotsInv, Types, QueueTypeOK, WorkerTypeOK
      <4> QED BY <1>3, <4>1 DEF Over
    <3> QED BY <3>3, <3>4
  <2>3. CASE \E t \in Tasks : WorkerForward(t) \/ Recover(t)
    <3>1. PICK t \in Tasks : WorkerForward(t) \/ Recover(t)
      BY <2>3
    <3>2. /\ Held' = Held
          /\ \/ task' = [task EXCEPT ![t] = "pending"]
             \/ /\ task[t] = "active" /\ t \notin Held
                /\ \E s \in TaskState : task' = [task EXCEPT ![t] = s]
      BY <3>1
      DEF WorkerForward, Forward, ForwardTask, Recover, FailTask, Move, workerVars, Held,
          TaskState
    <3> QED BY <1>3, <3>2 DEF Over, SlotsInv, Types, QueueTypeOK
  <2> QED BY <2>1, <2>2, <2>3
<1> QED BY <1>1, <1>2, <1>3, QueueKeeps

(* main.go: the process stops, dies, exits and comes back; time passes *)
LEMMA ProcessKnows ==
  ASSUME SlotsInv, AccountsInv, OutcomeInv, SlotsInv',
         \/ Crash \/ Stop \/ Exit \/ ForceExit \/ Restart
         \/ \E j \in Jobs : Clock(j)
  PROVE  OutcomeInv'
<1>1. JobsKept /\ local' = local /\ task' = task
  BY DEF Crash, Stop, Exit, ForceExit, Restart, Die, Clock, TimePasses, workerVars,
         repoVars, queueVars, JobsKept
<1>2. CASE Crash \/ ForceExit
  <2>1. Die
    BY <1>2 DEF Crash, ForceExit
  <2>2. ASSUME NEW t \in Tasks, Over(t)', lost'[t] = 0
        PROVE  /\ lost[t] = 0
               /\ Over(t) \/ \E v \in Slots : hand[v] = t /\ pc[v] \in {"fail", "nack"}
    <3>1. lost[t] = 0 /\ ~ \E v \in Slots : hand[v] = t /\ Unrecorded(v)
      BY <2>1, <2>2 DEF Die, SlotsInv, Types, WorkerTypeOK
    <3>2. ASSUME t \in Held
          PROVE  \E v \in Slots : hand[v] = t /\ pc[v] \in {"fail", "nack"}
      BY <3>1, <3>2, WorkerAssumption DEF Held, Unrecorded, SlotsInv, Holding
    <3> QED BY <1>1, <2>2, <3>1, <3>2 DEF Over
  <2>3. \A v \in Slots : pc'[v] = "idle"
    BY <2>1 DEF Die
  <2> QED BY <1>1, <2>2, <2>3, QueueKeeps
<1>3. CASE ~(Crash \/ ForceExit)
  <2>1. UNCHANGED <<pc, hand, lost>>
    BY <1>3 DEF Stop, Exit, Restart, Clock, workerVars
  <2> QED BY <1>1, <2>1, QueueKeeps DEF Over, Held
<1> QED BY <1>2, <1>3

-----------------------------------------------------------------------------
(* Every step of the worker keeps what the attempts know. *)
LEMMA WorkerKeepsOutcomes ==
  ASSUME SlotsInv, AccountsInv, OutcomeInv, SlotsInv', WorkerNext
  PROVE  OutcomeInv'
<1>1. ASSUME NEW w \in Slots, Handler(w) PROVE OutcomeInv'
  BY <1>1, PrepareKnows, WorkKnows, DispatchKnows, FailKnows, QueueKnows DEF Handler
<1> QED BY <1>1, QueueKnows, ProcessKnows DEF WorkerNext

(* base.go, FailOrDead: a task asynq gave up on without having lost an attempt
   leaves a job that says so.                                              *)
LEMMA ArchivedSaysDead ==
  ASSUME SlotsInv, AccountsInv, OutcomeInv, NEW t \in Tasks,
         task[t] = "archived", lost[t] = 0
  PROVE  Says(JobOf[t], "dead")
<1>1. "dead" \in announced[JobOf[t]]
  BY SilenceTakesTwo DEF ExhaustedAnnounced
<1> QED BY <1>1 DEF OutcomeInv, DeathsLast, Over
=============================================================================
