----------------------------- MODULE JobHandlers -----------------------------
(***************************************************************************)
(* The worker process (cmd/worker, internal/worker): asynq's goroutines    *)
(* (Slots) run the job handlers of internal/worker/handlers, each step of  *)
(* which is one call to Postgres, to the dispatcher or to the queue.       *)
(* Handlers interleave; the process can be stopped, aborted or killed      *)
(* between any two steps and comes back, at most MaxDowns times.           *)
(*                                                                         *)
(* ran, announced and lost are history variables: no action reads them.    *)
(***************************************************************************)
EXTENDS JobQueue

CONSTANTS Slots,         \* asynq.Config.Concurrency goroutines
          NoTask,
          MaxDowns       \* bound: stops and crashes of the process

ASSUME WorkerAssumption == NoTask \notin Tasks /\ MaxDowns \in Nat

VARIABLES pc,            \* where the handler in each slot is
          hand,          \* the task a slot works on
          local,         \* the *entity.Job Prepare returned to it
          server,        \* the process
          downs,         \* stops and crashes left
          ran,           \* jobs whose work was started
          announced,     \* events handed to DispatchJobEvent, per job
          lost           \* attempts of a task that left no trace in the job

workerVars == <<pc, hand, local, server, downs, ran, announced, lost>>
Labels == {"idle", "fetch", "mark", "run", "complete", "count", "fail",
           "bury", "tell", "ack", "nack"}

WorkerTypeOK == /\ pc \in [Slots -> Labels]
                /\ hand \in [Slots -> Tasks \cup {NoTask}]
                /\ local \in [Slots -> [status: JobStatus, retry: Nat]]
                /\ server \in {"up", "draining", "down"}
                /\ downs \in 0 .. MaxDowns
                /\ ran \subseteq Jobs
                /\ announced \in [Jobs -> SUBSET {"done", "dead"}]
                /\ lost \in [Tasks -> Nat]

WorkerInit == /\ pc = [w \in Slots |-> "idle"]
              /\ hand = [w \in Slots |-> NoTask]
              /\ local = [w \in Slots |-> [status |-> "pending", retry |-> 0]]
              /\ server = "up"
              /\ downs = MaxDowns
              /\ ran = {}
              /\ announced = [j \in Jobs |-> {}]
              /\ lost = [t \in Tasks |-> 0]

-----------------------------------------------------------------------------
JobIn(w)   == JobOf[hand[w]]
Goto(w, l) == pc' = [pc EXCEPT ![w] = l]
Free(w)    == Goto(w, "idle") /\ hand' = [hand EXCEPT ![w] = NoTask]
Process    == <<server, downs>>

(* The handler returns an error before anything it did was recorded. *)
GiveUp(w) == /\ Goto(w, "nack")
             /\ lost' = [lost EXCEPT ![hand[w]] = @ + 1]

Dequeue(w, t) == /\ server = "up"
                 /\ pc[w] = "idle"
                 /\ DequeueTask(t)
                 /\ Goto(w, "fetch")
                 /\ hand' = [hand EXCEPT ![w] = t]
                 /\ UNCHANGED <<repoVars, due, local, Process, ran, announced, lost>>

(* Mutant: a job already done is skipped too. *)
Skips_Done(s) == s \in {"cancelled", "done"}

(* Mutant: a job that another attempt has marked is skipped too. *)
Skips_Busy(s) == s \in {"cancelled", "processing"}

(* Mutant: cancelled jobs are worked on. *)
Skips_None(s) == FALSE

(* Prepare, first half: only a job seen cancelled is skipped. *)
Skips(s) == s = "cancelled"

PrepareFetch(w) ==
  /\ pc[w] = "fetch"
  /\ \/ /\ GetByID(JobIn(w))
        /\ local' = [local EXCEPT ![w] = [status |-> status[JobIn(w)],
                                          retry |-> retryCount[JobIn(w)]]]
        /\ Goto(w, IF Skips(status[JobIn(w)]) THEN "ack" ELSE "mark")
        /\ UNCHANGED lost
     \/ GetByIDFails(JobIn(w)) /\ GiveUp(w) /\ UNCHANGED local
  /\ UNCHANGED <<queueVars, due, hand, Process, ran, announced>>

(* Prepare, second half. *)
PrepareMark(w) ==
  /\ pc[w] = "mark"
  /\ \/ UpdateStatus(JobIn(w), "processing") /\ Goto(w, "run") /\ UNCHANGED lost
     \/ UpdateStatusFails(JobIn(w), "processing") /\ GiveUp(w)
  /\ UNCHANGED <<queueVars, due, hand, local, Process, ran, announced>>

(* Mutant: asynq's reading of MaxRetry, one attempt more. *)
IsLastAttempt_Asynq(w) == local[w].retry + 1 > details[JobIn(w)].max

IsLastAttempt(w) == local[w].retry + 1 >= details[JobIn(w)].max

(* What the handlers of the four job types can make of a payload: sms and
   report never fail, a payload that does not decode always fails, and a
   webhook may be refused by its receiver.                                 *)
CanFail(d)    == d.type = "webhook" \/ (d.type = "email" /\ d.bad)
CanSucceed(d) == d.type \in {"sms", "report"} \/ ~d.bad

(* The body of Handle, up to its call of Complete or FailOrDead. *)
Run(w) ==
  /\ pc[w] = "run"
  /\ ran' = ran \cup {JobIn(w)}
  /\ \/ CanSucceed(details[JobIn(w)]) /\ Goto(w, "complete")
     \/ CanFail(details[JobIn(w)])
        /\ Goto(w, IF IsLastAttempt(w) THEN "bury" ELSE "count")
  /\ UNCHANGED <<repoVars, queueVars, due, hand, local, Process, announced, lost>>

(* Mutant: a failed write is logged, and the event sent all the same. *)
Settle_Regardless(w, s) ==
  /\ UpdateStatus(JobIn(w), s) \/ UpdateStatusFails(JobIn(w), s)
  /\ local' = [local EXCEPT ![w].status = s]
  /\ Goto(w, "tell")
  /\ UNCHANGED <<queueVars, due, hand, Process, ran, announced, lost>>

(* The status write that Complete and Dead share, and its early return. *)
Settle(w, s) ==
  /\ \/ /\ UpdateStatus(JobIn(w), s)
        /\ local' = [local EXCEPT ![w].status = s]
        /\ Goto(w, "tell")
        /\ UNCHANGED lost
     \/ UpdateStatusFails(JobIn(w), s) /\ GiveUp(w) /\ UNCHANGED local
  /\ UNCHANGED <<queueVars, due, hand, Process, ran, announced>>

Complete(w) == pc[w] = "complete" /\ Settle(w, "done")

(* Mutant: the event is sent but the row not written. *)
Dead_NoWrite(w) == /\ pc[w] = "bury"
                   /\ local' = [local EXCEPT ![w].status = "dead"]
                   /\ Goto(w, "tell")
                   /\ UNCHANGED <<repoVars, queueVars, due, hand, Process, ran, announced, lost>>

Dead(w) == pc[w] = "bury" /\ Settle(w, "dead")

(* DispatchJobEvent, then Complete and Dead return: a handler that failed
   returns its error whatever Dead did.                                    *)
Dispatch(w) ==
  /\ pc[w] = "tell"
  /\ announced' = [announced EXCEPT ![JobIn(w)] = @ \cup {local[w].status}]
  /\ Goto(w, IF local[w].status = "done" THEN "ack" ELSE "nack")
  /\ UNCHANGED <<repoVars, queueVars, due, hand, local, Process, ran, lost>>

(* Mutant: the count is written back as it was read. *)
NextCount_Same(w) == local[w].retry

NextCount(w) == local[w].retry + 1

(* Fail writes the count it read in Prepare plus one, then the status. *)
FailCount(w) ==
  /\ pc[w] = "count"
  /\ \/ UpdateRetryCount(JobIn(w), NextCount(w)) /\ Goto(w, "fail")
        /\ UNCHANGED lost
     \/ UpdateRetryCountFails(JobIn(w), NextCount(w)) /\ GiveUp(w)
  /\ UNCHANGED <<queueVars, due, hand, local, Process, ran, announced>>

FailStatus(w) ==
  /\ pc[w] = "fail"
  /\ UpdateStatus(JobIn(w), "failed") \/ UpdateStatusFails(JobIn(w), "failed")
  /\ Goto(w, "nack")
  /\ UNCHANGED <<queueVars, due, hand, local, Process, ran, announced, lost>>

(* asynq acts on what the handler returned. *)
Ack(w) == /\ pc[w] = "ack"
          /\ DoneTask(hand[w])
          /\ Free(w)
          /\ UNCHANGED <<repoVars, due, local, Process, ran, announced, lost>>

Nack(w) == /\ pc[w] = "nack"
           /\ FailTask(hand[w], MaxRetry(hand[w]))
           /\ Free(w)
           /\ UNCHANGED <<repoVars, due, local, Process, ran, announced, lost>>

-----------------------------------------------------------------------------
(* The forwarder and the recoverer run only in a server that is up. *)
WorkerForward(t) == server = "up" /\ Forward(t) /\ UNCHANGED workerVars

Held == {hand[w] : w \in Slots} \ {NoTask}

Recover(t) == /\ server = "up"
              /\ t \notin Held
              /\ FailTask(t, MaxRetry(t))
              /\ UNCHANGED <<repoVars, due, workerVars>>

(* The attempts a dying process takes with it: those that have recorded
   neither a count nor a death that was announced.                         *)
Unrecorded(w) == pc[w] \notin {"idle", "fail", "nack"}

Die == /\ server' = "down"
       /\ pc' = [w \in Slots |-> "idle"]
       /\ hand' = [w \in Slots |-> NoTask]
       /\ lost' = [t \in Tasks |->
                     IF \E w \in Slots : hand[w] = t /\ Unrecorded(w)
                     THEN lost[t] + 1 ELSE lost[t]]
       /\ UNCHANGED <<repoVars, queueVars, due, local, ran, announced>>

Crash == server # "down" /\ downs > 0 /\ downs' = downs - 1 /\ Die

(* SIGTERM: Shutdown stops taking tasks and waits for the handlers. *)
Stop == /\ server = "up" /\ downs > 0
        /\ downs' = downs - 1
        /\ server' = "draining"
        /\ UNCHANGED <<repoVars, queueVars, due, pc, hand, local, ran, announced, lost>>

(* The deadline of Shutdown passes: a task goes back, its context cancelled. *)
Abort(w) == /\ server = "draining"
            /\ pc[w] # "idle"
            /\ RequeueTask(hand[w])
            /\ Free(w)
            /\ UNCHANGED <<repoVars, due, local, Process, ran, announced, lost>>

Exit == /\ server = "draining"
        /\ \A w \in Slots : pc[w] = "idle"
        /\ server' = "down"
        /\ UNCHANGED <<repoVars, queueVars, due, pc, hand, local, downs, ran, announced, lost>>

(* main's own timeout ran out before Shutdown returned. *)
ForceExit == server = "draining" /\ UNCHANGED downs /\ Die

Restart == /\ server = "down"
           /\ server' = "up"
           /\ UNCHANGED <<repoVars, queueVars, due, pc, hand, local, downs, ran, announced, lost>>

Clock(j) == TimePasses(j) /\ UNCHANGED workerVars

Handler(w) == \/ PrepareFetch(w) \/ PrepareMark(w) \/ Run(w)
              \/ Complete(w) \/ Dead(w) \/ Dispatch(w)
              \/ FailCount(w) \/ FailStatus(w) \/ Ack(w) \/ Nack(w)

WorkerNext == \/ \E w \in Slots, t \in Tasks : Dequeue(w, t)
              \/ \E w \in Slots : Handler(w) \/ Abort(w)
              \/ \E t \in Tasks : WorkerForward(t) \/ Recover(t)
              \/ \E j \in Jobs : Clock(j)
              \/ Crash \/ Stop \/ Exit \/ ForceExit \/ Restart

-----------------------------------------------------------------------------
(* 1 while an attempt of t that asynq has not charged yet is already
   accounted for: its handler is past Fail's count or Dead's event, or the
   process that ran it is gone.                                            *)
Owed(t) == IF \/ task[t] = "archived"
              \/ task[t] = "active" /\ t \notin Held
              \/ \E w \in Slots : hand[w] = t /\ pc[w] \in {"fail", "nack"}
           THEN 1 ELSE 0

(* base.go, Fail against asynq's retried counter: until a death is announced,
   every attempt asynq has charged to a task has been counted in retry_count
   or was lost (an error before the count, or a crash).                    *)
RetryAccounting ==
  \A t \in Tasks : "dead" \notin announced[JobOf[t]] /\ task[t] # "new" =>
     retried[t] + Owed(t) <= retryCount[JobOf[t]] + lost[t]

(* base.go, Dead: asynq gives up on a task (archives it) only after the
   owner's webhooks were told that the job is dead, although one attempt was
   lost to a crash or a failed write.                                      *)
ExhaustedAnnounced ==
  \A t \in Tasks : task[t] = "archived" /\ lost[t] <= 1 =>
     "dead" \in announced[JobOf[t]]

(* base.go, FailOrDead: when asynq gives up on a task and no attempt was lost,
   the job's row says dead, whatever stops and aborts came between.        *)
ExhaustedDead ==
  \A t \in Tasks : task[t] = "archived" /\ lost[t] = 0 =>
     status[JobOf[t]] = "dead"

(* base.go, Fail and IsLastAttempt: retry_count stays below max_retries. *)
RetryCountBelowMax ==
  \A j \in Jobs : HasRow(j) => retryCount[j] < details[j].max
=============================================================================
