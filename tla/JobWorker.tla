------------------------------ MODULE JobWorker ------------------------------
(***************************************************************************)
(* The worker on its own: the jobs are already on the queue and no request *)
(* of the API touches them while the handlers run.                         *)
(***************************************************************************)
EXTENDS JobHandlers

vars == <<repoVars, queueVars, due, workerVars>>

TypeOK == RepoTypeOK /\ QueueTypeOK /\ DueTypeOK /\ WorkerTypeOK

(* The worker starts where Enqueue has left every job. *)
Init == /\ status = [j \in Jobs |-> "pending"]
        /\ retryCount = [j \in Jobs |-> 0]
        /\ details \in [Jobs -> {WithBudget(in) : in \in Inputs}]
        /\ dbFaults = MaxDbFaults
        /\ task = [t \in Tasks |->
                     IF t # FirstTask[JobOf[t]] THEN "new"
                     ELSE IF details[JobOf[t]].later THEN "scheduled"
                     ELSE "pending"]
        /\ retried = [t \in Tasks |-> 0]
        /\ DueInit
        /\ WorkerInit

Next == WorkerNext

Spec == Init /\ [][Next]_vars

(* Handlers run to their end, asynq hands out, forwards and recovers, and a
   process that went down is started again (restart: unless-stopped).      *)
Fairness == /\ \A w \in Slots : WF_vars(Handler(w))
            /\ \A t \in Tasks : /\ WF_vars(\E w \in Slots : Dequeue(w, t))
                                /\ WF_vars(WorkerForward(t))
                                /\ WF_vars(Recover(t))
            /\ \A j \in Jobs : WF_vars(Clock(j))
            /\ WF_vars(Exit) /\ WF_vars(Restart)

FairSpec == Spec /\ Fairness

-----------------------------------------------------------------------------
(* base.go, Complete: a job nobody cancels leaves the queue for good only
   after its done event was dispatched, whatever crashed on the way.       *)
FinishedAnnounced ==
  \A t \in Tasks : task[t] = "finished" => "done" \in announced[JobOf[t]]

(* Dispatch, with asynq's retries and recovery: the owner hears of every job,
   although one attempt of it is lost to a crash or a failed write.        *)
OutcomeAnnounced ==
  \A j \in Jobs : [](lost[FirstTask[j]] <= 1) => <>(announced[j] # {})

(* Prepare to Dead: a job none of whose attempts is lost comes to rest as done
   or dead, whatever stops, aborts and failed status writes it goes through. *)
JobConcludes ==
  \A j \in Jobs : [](lost[FirstTask[j]] = 0) =>
                    <>[](status[j] \in {"done", "dead"})

(* What becomes of a job's only task, and what the owner is promised. *)
Whereabouts(s) == IF s = "active" THEN "working"
                  ELSE IF s \in {"finished", "archived"} THEN "gone" ELSE "queued"

JD == INSTANCE JobDelivery WITH
        place  <- [j \in Jobs |-> Whereabouts(task[FirstTask[j]])],
        count  <- retryCount,
        told   <- announced,
        missed <- [j \in Jobs |-> lost[FirstTask[j]]],
        budget <- [j \in Jobs |-> details[j].max]

(* base.go on asynq, with everything that goes wrong, keeps the promises of
   JobDelivery: a row is written only by an attempt that holds the job, dead
   means that the budget is used up, what is announced is what the row says,
   and no job leaves the queue in silence unless two attempts are missed.  *)
KeepsPromises == JD!Spec

-----------------------------------------------------------------------------
(* README.md:460-461, "(after max retries exhausted) dead": a task asynq has
   given up on belongs to a dead job.                                      *)
ArchivedIsDead ==
  \A t \in Tasks : task[t] = "archived" => status[JobOf[t]] = "dead"

(* README.md:461, "dead  needs manual intervention via admin API": without an
   administrator (there is none here) a dead job stays dead.               *)
DeadAwaitsAdmin ==
  [][\A j \in Jobs : status[j] = "dead" => status'[j] = "dead"]_vars
=============================================================================
