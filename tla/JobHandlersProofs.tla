-------------------------- MODULE JobHandlersProofs --------------------------
(***************************************************************************)
(* Facts about the steps of the worker that hold whatever else shares the  *)
(* table and the queue with it: the types it keeps, and which slot holds   *)
(* which task.                                                             *)
(***************************************************************************)
EXTENDS JobHandlers, TLAPS

Types == RepoTypeOK /\ QueueTypeOK /\ DueTypeOK /\ WorkerTypeOK

(* A slot that works holds a task, which asynq has marked active. *)
Holding == \A w \in Slots :
             /\ pc[w] = "idle" <=> hand[w] = NoTask
             /\ hand[w] # NoTask => task[hand[w]] = "active"

(* No two slots hold the same task. *)
Apart == \A v, w \in Slots : hand[v] = hand[w] /\ hand[v] # NoTask => v = w

(* Complete and Dead have set the status they are about to announce. *)
Verdict == \A w \in Slots : pc[w] = "tell" => local[w].status \in {"done", "dead"}

SlotsInv == Types /\ Holding /\ Apart /\ Verdict

-----------------------------------------------------------------------------
(* job_repository.go: what every outcome of a write to status can do. *)
LEMMA StatusWrite ==
  ASSUME RepoTypeOK, NEW j \in Jobs, NEW s \in JobStatus,
         UpdateStatus(j, s) \/ UpdateStatusFails(j, s)
  PROVE  /\ RepoTypeOK'
         /\ retryCount' = retryCount /\ details' = details
         /\ \/ status' = status
            \/ HasRow(j) /\ status' = [status EXCEPT ![j] = s]
BY RepositoryAssumption DEF RepoTypeOK, UpdateStatus, UpdateStatusFails, Fault, repoVars

(* job_repository.go: what every outcome of a write to retry_count can do. *)
LEMMA CountWrite ==
  ASSUME RepoTypeOK, NEW j \in Jobs, NEW n \in Nat,
         UpdateRetryCount(j, n) \/ UpdateRetryCountFails(j, n)
  PROVE  /\ RepoTypeOK'
         /\ status' = status /\ details' = details
         /\ \/ retryCount' = retryCount
            \/ HasRow(j) /\ retryCount' = [retryCount EXCEPT ![j] = n]
BY RepositoryAssumption
   DEF RepoTypeOK, UpdateRetryCount, UpdateRetryCountFails, Fault, repoVars

(* job_repository.go: what every outcome of a read can do. *)
LEMMA ReadOnly ==
  ASSUME RepoTypeOK, NEW j \in Jobs, GetByID(j) \/ GetByIDFails(j)
  PROVE  /\ RepoTypeOK'
         /\ status' = status /\ retryCount' = retryCount /\ details' = details
BY RepositoryAssumption DEF RepoTypeOK, GetByID, GetByIDFails, Fault, repoVars

(* A slot that works holds a task, and the task names a job. *)
LEMMA BusySlot ==
  ASSUME WorkerTypeOK, Holding, NEW w \in Slots, pc[w] # "idle"
  PROVE  hand[w] \in Tasks /\ JobIn(w) \in Jobs
BY JobQueueAssumption DEF WorkerTypeOK, Holding, JobIn

-----------------------------------------------------------------------------
(* What a step inside a handler can do to the slots: w moves to another label
   with the task it has.                                                    *)
Moves(w, l) == /\ pc' = [pc EXCEPT ![w] = l]
               /\ UNCHANGED <<queueVars, due, hand, server, downs>>

(* A step of a handler keeps the slots in order. *)
LEMMA MovesKeepsSlots ==
  ASSUME Types, Types', Holding, Apart, NEW w \in Slots, pc[w] # "idle",
         NEW l \in Labels \ {"idle"}, Moves(w, l)
  PROVE  Holding' /\ Apart'
BY DEF Types, WorkerTypeOK, QueueTypeOK, Holding, Apart, Moves, queueVars

(* A slot gives its task back to the queue, in whatever state, and is free. *)
LEMMA FreeKeepsSlots ==
  ASSUME Types, Types', Holding, Apart, NEW w \in Slots, pc[w] # "idle",
         Free(w), NEW s \in TaskState, task' = [task EXCEPT ![hand[w]] = s]
  PROVE  Holding' /\ Apart'
BY DEF Types, WorkerTypeOK, QueueTypeOK, Holding, Apart, Free, Goto

(* base.go, Prepare *)
LEMMA PrepareKeepsSlots ==
  ASSUME SlotsInv, NEW w \in Slots, PrepareFetch(w) \/ PrepareMark(w)
  PROVE  SlotsInv'
<1> USE DEF SlotsInv
<1>1. hand[w] \in Tasks /\ JobIn(w) \in Jobs
  BY BusySlot DEF PrepareFetch, PrepareMark, Types
<1>2. CASE PrepareFetch(w)
  <2>1. RepoTypeOK' /\ status' = status /\ retryCount' = retryCount
    BY <1>1, <1>2, ReadOnly DEF PrepareFetch, Types
  <2>2. Types'
    <3>1. local' \in [Slots -> [status : JobStatus, retry : Nat]]
      BY <1>1, <1>2
      DEF PrepareFetch, Types, WorkerTypeOK, RepoTypeOK, GetByID, HasRow
    <3>2. pc' \in [Slots -> Labels]
      BY <1>2 DEF PrepareFetch, Types, WorkerTypeOK, GiveUp, Goto, Labels
    <3>3. lost' \in [Tasks -> Nat]
      BY <1>1, <1>2 DEF PrepareFetch, Types, WorkerTypeOK, GiveUp
    <3> QED
      BY <1>2, <2>1, <3>1, <3>2, <3>3
      DEF PrepareFetch, Types, QueueTypeOK, DueTypeOK, WorkerTypeOK, Process, queueVars
  <2>3. PICK l \in {"ack", "mark", "nack"} : Moves(w, l)
    BY <1>2 DEF PrepareFetch, Moves, GiveUp, Goto, Process
  <2>4. Holding' /\ Apart'
    BY <1>2, <2>2, <2>3, MovesKeepsSlots DEF PrepareFetch, Labels
  <2>5. Verdict'
    BY <1>2, <2>2, <2>3 DEF PrepareFetch, Verdict, Moves, Types, WorkerTypeOK
  <2> QED BY <2>2, <2>4, <2>5
<1>3. CASE PrepareMark(w)
  <2>1. RepoTypeOK'
    BY <1>1, <1>3, StatusWrite DEF PrepareMark, Types, JobStatus
  <2>2. Types'
    <3>1. pc' \in [Slots -> Labels]
      BY <1>3 DEF PrepareMark, Types, WorkerTypeOK, GiveUp, Goto, Labels
    <3>2. lost' \in [Tasks -> Nat]
      BY <1>1, <1>3 DEF PrepareMark, Types, WorkerTypeOK, GiveUp
    <3> QED
      BY <1>3, <2>1, <3>1, <3>2
      DEF PrepareMark, Types, QueueTypeOK, DueTypeOK, WorkerTypeOK, Process, queueVars
  <2>3. PICK l \in {"run", "nack"} : Moves(w, l)
    BY <1>3 DEF PrepareMark, Moves, GiveUp, Goto, Process
  <2>4. Holding' /\ Apart'
    BY <1>3, <2>2, <2>3, MovesKeepsSlots DEF PrepareMark, Labels
  <2>5. Verdict'
    BY <1>3, <2>2, <2>3 DEF PrepareMark, Verdict, Moves, Types, WorkerTypeOK
  <2> QED BY <2>2, <2>4, <2>5
<1> QED BY <1>2, <1>3

(* email.go, sms.go, webhook.go, report.go: the work itself *)
LEMMA RunKeepsSlots ==
  ASSUME SlotsInv, NEW w \in Slots, Run(w)
  PROVE  SlotsInv'
<1> USE DEF SlotsInv
<1>1. hand[w] \in Tasks /\ JobIn(w) \in Jobs
  BY BusySlot DEF Run, Types
<1>2. PICK l \in {"complete", "bury", "count"} : Moves(w, l)
  BY DEF Run, Moves, Goto, Process
<1>3. Types'
  BY <1>1, <1>2
  DEF Run, Types, RepoTypeOK, QueueTypeOK, DueTypeOK, WorkerTypeOK, Moves, Labels,
      repoVars, queueVars
<1>4. Holding' /\ Apart'
  BY <1>2, <1>3, MovesKeepsSlots DEF Run, Labels
<1>5. Verdict'
  BY <1>2, <1>3 DEF Run, Verdict, Moves, Types, WorkerTypeOK
<1> QED BY <1>3, <1>4, <1>5

(* base.go, Complete and Dead *)
LEMMA SettleKeepsSlots ==
  ASSUME SlotsInv, NEW w \in Slots, Complete(w) \/ Dead(w)
  PROVE  SlotsInv'
<1> USE DEF SlotsInv
<1>1. hand[w] \in Tasks /\ JobIn(w) \in Jobs /\ pc[w] \notin {"idle", "tell"}
  BY BusySlot DEF Complete, Dead, Types
<1>2. PICK s \in {"done", "dead"} : Settle(w, s)
  BY DEF Complete, Dead
<1>3. RepoTypeOK'
  BY <1>1, <1>2, StatusWrite DEF Settle, Types, JobStatus
<1>4. PICK l \in {"tell", "nack"} : Moves(w, l)
  BY <1>2 DEF Settle, Moves, GiveUp, Goto, Process
<1>5. \/ local' = local
      \/ local' = [local EXCEPT ![w].status = s]
  BY <1>2 DEF Settle
<1>6. lost' \in [Tasks -> Nat]
  BY <1>1, <1>2 DEF Settle, GiveUp, Types, WorkerTypeOK
<1>7. Types'
  <2>1. local' \in [Slots -> [status : JobStatus, retry : Nat]]
    BY <1>2, <1>5 DEF Types, WorkerTypeOK, JobStatus
  <2> QED
    BY <1>2, <1>3, <1>4, <1>6, <2>1
    DEF Settle, Moves, Types, QueueTypeOK, DueTypeOK, WorkerTypeOK, Process,
        queueVars, Labels
<1>8. Holding' /\ Apart'
  BY <1>1, <1>4, <1>7, MovesKeepsSlots DEF Labels
<1>9. Verdict'
  <2>1. \/ l = "tell" /\ local' = [local EXCEPT ![w].status = s]
        \/ pc'[w] = "nack" /\ local' = local
    BY <1>1, <1>2, <1>4 DEF Settle, Moves, GiveUp, Goto, Types, WorkerTypeOK
  <2> QED
    BY <1>2, <1>4, <2>1 DEF Verdict, Moves, Types, WorkerTypeOK
<1> QED BY <1>7, <1>8, <1>9

(* base.go, dispatch *)
LEMMA DispatchKeepsSlots ==
  ASSUME SlotsInv, NEW w \in Slots, Dispatch(w)
  PROVE  SlotsInv'
<1> USE DEF SlotsInv
<1>1. /\ hand[w] \in Tasks /\ JobIn(w) \in Jobs
      /\ local[w].status \in {"done", "dead"}
  BY BusySlot DEF Dispatch, Types, Verdict
<1>2. PICK l \in {"ack", "nack"} : Moves(w, l)
  BY DEF Dispatch, Moves, Goto, Process
<1>3. Types'
  <2>1. announced' \in [Jobs -> SUBSET {"done", "dead"}]
    BY <1>1 DEF Dispatch, Types, WorkerTypeOK
  <2> QED
    BY <1>2, <2>1
    DEF Dispatch, Moves, Types, RepoTypeOK, QueueTypeOK, DueTypeOK, WorkerTypeOK, Process,
        repoVars, queueVars, Labels
<1>4. Holding' /\ Apart'
  BY <1>2, <1>3, MovesKeepsSlots DEF Dispatch, Labels
<1>5. Verdict'
  BY <1>2 DEF Dispatch, Verdict, Moves, Types, WorkerTypeOK
<1> QED BY <1>3, <1>4, <1>5

(* base.go, Fail *)
LEMMA FailKeepsSlots ==
  ASSUME SlotsInv, NEW w \in Slots, FailCount(w) \/ FailStatus(w)
  PROVE  SlotsInv'
<1> USE DEF SlotsInv
<1>1. hand[w] \in Tasks /\ JobIn(w) \in Jobs /\ NextCount(w) \in Nat
  BY BusySlot DEF FailCount, FailStatus, Types, WorkerTypeOK, NextCount
<1>2. RepoTypeOK'
  BY <1>1, StatusWrite, CountWrite DEF FailCount, FailStatus, Types, JobStatus
<1>3. PICK l \in {"fail", "nack"} : Moves(w, l)
  BY DEF FailCount, FailStatus, Moves, GiveUp, Goto, Process
<1>4. lost' \in [Tasks -> Nat]
  BY <1>1 DEF FailCount, FailStatus, GiveUp, Types, WorkerTypeOK
<1>5. /\ UNCHANGED <<due, local, server, downs, ran, announced>>
      /\ UNCHANGED <<task, retried>>
  BY DEF FailCount, FailStatus, Process, queueVars
<1>6. Types'
  BY <1>2, <1>3, <1>4, <1>5
  DEF Moves, Types, QueueTypeOK, DueTypeOK, WorkerTypeOK, Labels
<1>7. Holding' /\ Apart'
  BY <1>3, <1>6, MovesKeepsSlots DEF FailCount, FailStatus, Labels
<1>8. Verdict'
  BY <1>3, <1>5 DEF Verdict, Moves, Types, WorkerTypeOK
<1> QED BY <1>6, <1>7, <1>8

(* processor.go: what asynq does with a task whose handler has returned, or
   that a shutdown takes away                                              *)
LEMMA ReturnKeepsSlots ==
  ASSUME SlotsInv, NEW w \in Slots, Ack(w) \/ Nack(w) \/ Abort(w)
  PROVE  SlotsInv'
<1> USE DEF SlotsInv
<1>1. hand[w] \in Tasks /\ pc[w] # "idle"
  BY BusySlot DEF Ack, Nack, Abort, Types
<1>2. /\ Free(w)
      /\ UNCHANGED <<due, local, server, downs, ran, announced, lost>>
      /\ UNCHANGED <<status, retryCount, details, dbFaults>>
  BY DEF Ack, Nack, Abort, Process, repoVars
<1>3. retried' \in [Tasks -> Nat]
  BY <1>1 DEF Ack, Nack, Abort, DoneTask, FailTask, RequeueTask, Move, Types, QueueTypeOK
<1>4. PICK s \in TaskState : task' = [task EXCEPT ![hand[w]] = s]
  BY DEF Ack, Nack, Abort, DoneTask, FailTask, RequeueTask, Move, TaskState
<1>5. Types'
  BY <1>1, <1>2, <1>3, <1>4
  DEF Free, Goto, Types, RepoTypeOK, QueueTypeOK, DueTypeOK, WorkerTypeOK, Labels
<1>6. Holding' /\ Apart'
  BY <1>1, <1>2, <1>4, <1>5, FreeKeepsSlots
<1>7. Verdict'
  BY <1>1, <1>2 DEF Free, Goto, Verdict, Types, WorkerTypeOK
<1> QED BY <1>5, <1>6, <1>7

(* processor.go: asynq hands a task to a free slot *)
LEMMA DequeueKeepsSlots ==
  ASSUME SlotsInv, NEW w \in Slots, NEW t \in Tasks, Dequeue(w, t)
  PROVE  SlotsInv'
<1> USE DEF SlotsInv
<1>1. /\ pc[w] = "idle" /\ pc' = [pc EXCEPT ![w] = "fetch"]
      /\ hand' = [hand EXCEPT ![w] = t]
      /\ task[t] = "pending" /\ task' = [task EXCEPT ![t] = "active"]
      /\ UNCHANGED <<retried, due, local, server, downs, ran, announced, lost>>
      /\ UNCHANGED <<status, retryCount, details, dbFaults>>
  BY DEF Dequeue, DequeueTask, Move, Goto, Process, repoVars
<1>2. Types'
  BY <1>1
  DEF Types, RepoTypeOK, QueueTypeOK, DueTypeOK, WorkerTypeOK, Labels, TaskState
<1>3. \A v \in Slots : hand[v] # t
  BY <1>1, WorkerAssumption DEF Holding
<1>4. Holding' /\ Apart'
  BY <1>1, <1>3, WorkerAssumption
  DEF Holding, Apart, Types, QueueTypeOK, WorkerTypeOK
<1>5. Verdict'
  BY <1>1 DEF Verdict, Types, WorkerTypeOK
<1> QED BY <1>2, <1>4, <1>5

(* The forwarder and the recoverer touch no task a slot holds. *)
LEMMA ServerKeepsSlots ==
  ASSUME SlotsInv, NEW t \in Tasks, WorkerForward(t) \/ Recover(t)
  PROVE  SlotsInv'
<1> USE DEF SlotsInv
<1>1. /\ UNCHANGED <<pc, hand, due, local, server, downs, ran, announced, lost>>
      /\ UNCHANGED <<status, retryCount, details, dbFaults>>
  BY DEF WorkerForward, Forward, Recover, workerVars, repoVars
<1>2. PICK s \in TaskState : task' = [task EXCEPT ![t] = s]
  BY DEF WorkerForward, Forward, ForwardTask, Recover, FailTask, Move, TaskState
<1>3. retried' \in [Tasks -> Nat]
  BY DEF WorkerForward, Forward, ForwardTask, Recover, FailTask, Move, Types, QueueTypeOK
<1>4. Types'
  BY <1>1, <1>2, <1>3 DEF Types, RepoTypeOK, QueueTypeOK, DueTypeOK, WorkerTypeOK
<1>5. \A v \in Slots : hand[v] # t
  <2>1. CASE WorkerForward(t)
    BY <2>1, WorkerAssumption DEF WorkerForward, Forward, ForwardTask, Holding
  <2>2. CASE Recover(t)
    BY <2>2, WorkerAssumption DEF Recover, Held
  <2> QED BY <2>1, <2>2
<1>6. Holding' /\ Apart'
  BY <1>1, <1>2, <1>5 DEF Holding, Apart, Types, QueueTypeOK
<1>7. Verdict'
  BY <1>1 DEF Verdict
<1> QED BY <1>4, <1>6, <1>7

(* main.go: the process stops, dies, exits and comes back; time passes *)
LEMMA ProcessKeepsSlots ==
  ASSUME SlotsInv,
         \/ Crash \/ Stop \/ Exit \/ ForceExit \/ Restart
         \/ \E j \in Jobs : Clock(j)
  PROVE  SlotsInv'
<1> USE DEF SlotsInv
<1>1. ASSUME Die, downs' \in 0 .. MaxDowns PROVE SlotsInv'
  <2>1. lost' \in [Tasks -> Nat]
    BY <1>1 DEF Die, Types, WorkerTypeOK
  <2>2. Types'
    BY <1>1, <2>1
    DEF Die, Types, RepoTypeOK, QueueTypeOK, DueTypeOK, WorkerTypeOK, Labels, repoVars,
        queueVars
  <2> QED BY <1>1, <2>2 DEF Die, Holding, Apart, Verdict
<1>2. CASE Crash \/ ForceExit
  BY <1>1, <1>2, WorkerAssumption DEF Crash, ForceExit, Types, WorkerTypeOK
<1>3. CASE Stop \/ Exit \/ Restart
  BY <1>3, WorkerAssumption
  DEF Stop, Exit, Restart, Types, RepoTypeOK, QueueTypeOK, DueTypeOK, WorkerTypeOK,
      Holding, Apart, Verdict, repoVars, queueVars
<1>4. CASE \E j \in Jobs : Clock(j)
  BY <1>4
  DEF Clock, TimePasses, Types, RepoTypeOK, QueueTypeOK, DueTypeOK, WorkerTypeOK,
      Holding, Apart, Verdict, repoVars, queueVars, workerVars
<1> QED BY <1>2, <1>3, <1>4

(* Every step of the worker process keeps the types, and leaves every working
   slot with an active task that no other slot works on.                   *)
LEMMA WorkerKeepsSlots ==
  ASSUME SlotsInv, WorkerNext
  PROVE  SlotsInv'
<1>1. ASSUME NEW w \in Slots, Handler(w) PROVE SlotsInv'
  BY <1>1, PrepareKeepsSlots, RunKeepsSlots, SettleKeepsSlots, DispatchKeepsSlots,
     FailKeepsSlots, ReturnKeepsSlots DEF Handler
<1> QED
  BY <1>1, DequeueKeepsSlots, ReturnKeepsSlots, ServerKeepsSlots, ProcessKeepsSlots
  DEF WorkerNext
=============================================================================
