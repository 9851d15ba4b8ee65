------------------------------ MODULE JobSystem -------------------------------
(***************************************************************************)
(* The whole job path: requests of the API process and handlers of the     *)
(* worker process interleave over the jobs table and the queue, which are  *)
(* all that they share.                                                    *)
(***************************************************************************)
EXTENDS JobHandlers, JobApi

vars == <<repoVars, queueVars, due, workerVars, apiVars>>

TypeOK == /\ RepoTypeOK /\ QueueTypeOK /\ DueTypeOK
          /\ WorkerTypeOK /\ ApiTypeOK

Init == /\ RepoInit /\ QueueInit /\ DueInit
        /\ WorkerInit /\ ApiInit

Next == \/ WorkerNext /\ UNCHANGED apiVars
        \/ ApiNext /\ UNCHANGED workerVars

Spec == Init /\ [][Next]_vars

-----------------------------------------------------------------------------
(* job.go, Enqueue's lookup, unique index and rollback, and README.md:15,
   "Prevents duplicate jobs with idempotency keys": of all jobs created under
   one idempotency key, at most one is ever worked on, whichever requests
   race, fail half way or die.                                             *)
OneRunPerKey ==
  \A i, j \in ran : details[i].key = details[j].key /\ details[i].key # NoKey
                    => i = j

(* A handler that has passed Prepare's check and may still write. *)
Attempted(j) == \E w \in Slots :
  pc[w] \notin {"idle", "fetch", "ack", "nack"} /\ JobIn(w) = j

(* A manual retry that has passed RetryDeadJob's check. *)
BeingRetried(j) == \E c \in Clients :
  job[c] = j /\ at[c] \in {"retryReset", "retryPend", "retryPush",
                           "undoStatus", "undoCount"}

FirmlyCancelled(j) == /\ status[j] = "cancelled"
                      /\ ~Attempted(j) /\ ~BeingRetried(j)

(* job.go, Cancel and base.go, Prepare: a job cancelled while no attempt and
   no manual retry of it is under way stays cancelled and is not attempted
   again; only the rollback of its own Enqueue may still remove it.        *)
CancelIsFinal ==
  [][\A j \in Jobs : FirmlyCancelled(j) =>
        FirmlyCancelled(j)' \/ status'[j] = "deleted"]_vars

(* Requests that may still change a job or its task. *)
Handling(j) == \E c \in Clients : Open(c) /\ job[c] = j
LiveTask(j) == \E t \in TasksOf(j) : task[t] \in Live

NoFaultYet == dbFaults = MaxDbFaults /\ apiDowns = MaxApiDowns

(* Every attempt of one of its tasks ended without reaching the row. *)
Forgotten(j) == \E t \in TasksOf(j) : lost[t] > MaxRetry(t)

(* job.go, Enqueue's rollback: a row never waits for a task that is not
   coming; a queue that refuses the task leaves no row behind.             *)
NoOrphan ==
  NoFaultYet => \A j \in Jobs :
     status[j] = "pending" => LiveTask(j) \/ Handling(j) \/ Forgotten(j)

(* job.go, the order of INSERT, push and answer: whatever fails, dies or races
   for the key, a client that was told its job is created has the job, and a
   task that will run it unless every attempt of it was lost.               *)
CreatedIsKept ==
  \A c \in Clients : reply[c] = "created" =>
     LET j == NewId[c] IN
     HasRow(j) /\ (status[j] = "pending" => LiveTask(j) \/ Forgotten(j))

(* job.go, Cancel against base.go, Complete and Fail: as long as nobody
   retries by hand and no attempt is lost, a job that is not at rest has a
   task that will move it.                                                 *)
NothingStranded ==
  NoFaultYet /\ (\A t \in Tasks : lost[t] = 0) => \A j \in Jobs :
     status[j] \in {"pending", "processing", "failed"} =>
        LiveTask(j) \/ Handling(j)

-----------------------------------------------------------------------------
(* Requests that were accepted run to their end, and the worker is as fair as
   it is on its own.                                                       *)
Fairness == /\ \A c \in Clients : WF_vars(Handle(c) /\ UNCHANGED workerVars)
            /\ \A w \in Slots : WF_vars(Handler(w) /\ UNCHANGED apiVars)
            /\ \A t \in Tasks :
                 /\ WF_vars((\E w \in Slots : Dequeue(w, t)) /\ UNCHANGED apiVars)
                 /\ WF_vars(WorkerForward(t) /\ UNCHANGED apiVars)
                 /\ WF_vars(Recover(t) /\ UNCHANGED apiVars)
            /\ \A j \in Jobs : WF_vars(Clock(j) /\ UNCHANGED apiVars)
            /\ WF_vars(Exit /\ UNCHANGED apiVars)
            /\ WF_vars(Restart /\ UNCHANGED apiVars)

FairSpec == Spec /\ Fairness

(* Enqueue, Cancel and the handlers together: with no fault and no attempt
   lost, every job that is created ends done, dead, cancelled or rolled
   back, and stays so, however its cancellation races with its attempts.   *)
Ended(j) == status[j] \in {"absent", "deleted", "done", "dead", "cancelled"}
JobsEnd  == [](NoFaultYet /\ \A t \in Tasks : lost[t] = 0)
              => \A j \in Jobs : <>[]Ended(j)

-----------------------------------------------------------------------------
(* README.md:463, "cancelled: DELETE /jobs/:id called before worker picked it
   up": the work of a cancelled job was never started.                     *)
CancelledNotStarted == \A j \in Jobs : status[j] = "cancelled" => j \notin ran

(* README.md:582, "a failed enqueue never orphans a row": a client whose
   Enqueue failed has left no row.                                         *)
FailedEnqueueLeavesNoRow ==
  \A c \in Clients : reply[c] = "error" /\ input[c] # Unset =>
     ~HasRow(NewId[c])
=============================================================================
