-------------------------- MODULE JobDeliveryProofs --------------------------
(***************************************************************************)
(* The worker implements JobDelivery, and the row of a job that asynq has  *)
(* given up on says so (ExhaustedDead).  The invariant adds to the one of  *)
(* JobWorkerProofs what an attempt knows about the status of its job, and  *)
(* what becomes of it when the attempt is over (JobAccountsProofs).        *)
(***************************************************************************)
EXTENDS JobWorkerProofs

OInv == IInv /\ OutcomeInv

(* base.go: what the handler in slot w relies on, at each of its calls.  With
   no request to take a job back, what it knows is what the row says.      *)
Sound(w) ==
  /\ pc[w] \in {"run", "complete", "bury", "count", "fail"}
       => status[JobIn(w)] = "processing"
  /\ pc[w] = "tell" => status[JobIn(w)] = local[w].status
  /\ pc[w] = "bury" \/ (pc[w] = "tell" /\ local[w].status = "dead")
       => BudgetUsed(JobIn(w))

AttemptsSound == \A w \in Slots : pc[w] # "idle" => Sound(w)

(* base.go: the attempts are sound. *)
LEMMA KnownIsSound == OInv => AttemptsSound
<1> SUFFICES ASSUME OInv, NEW w \in Slots, pc[w] # "idle" PROVE Sound(w)
  BY DEF AttemptsSound
<1>1. Knows(w) /\ JobIn(w) \in Jobs
  BY BusySlot DEF OInv, OutcomeInv, AttemptsKnow, IInv, SlotsInv, Types
<1>2. status[JobIn(w)] \notin {"cancelled", "deleted"}
  BY <1>1 DEF OInv, IInv, JobsInv, Rows, JobStatus
<1> QED BY <1>1, <1>2 DEF Knows, Says, Sound

(* base.go, FailOrDead: silence takes two lost attempts (SilenceTakesTwo). *)
LEMMA SilenceIsLoss == OInv => ExhaustedAnnounced
BY SilenceTakesTwo DEF OInv, IInv

-----------------------------------------------------------------------------
(* What an attempt knows holds where the worker starts, and after every step. *)
LEMMA InitSound == Init => OInv
<1> SUFFICES ASSUME Init PROVE OInv
  OBVIOUS
<1>1. /\ \A w \in Slots : pc[w] = "idle"
      /\ \A j \in Jobs : announced[j] = {}
  BY DEF Init, WorkerInit
<1>2. DeathsLast
  BY <1>1, JobQueueAssumption DEF DeathsLast
<1> QED BY <1>1, <1>2, InitInv DEF OInv, OutcomeInv, AttemptsKnow, DeathsDue

LEMMA NextSound == OInv /\ [Next]_vars => OInv'
<1> SUFFICES ASSUME OInv, [Next]_vars PROVE OInv'
  OBVIOUS
<1>1. IInv'
  BY NextInv DEF OInv
<1>2. CASE Next
  <2>1. OutcomeInv'
    BY <1>1, <1>2, WorkerKeepsOutcomes DEF Next, OInv, IInv
  <2> QED BY <1>1, <2>1 DEF OInv
<1>3. CASE UNCHANGED vars
  BY <1>1, <1>3
  DEF vars, repoVars, queueVars, workerVars, OInv, OutcomeInv, AttemptsKnow, Knows, Says,
      DeathsDue, BudgetUsed, DeathsLast, Over, Held, JobIn
<1> QED BY <1>2, <1>3

LEMMA Soundness == Spec => []OInv
BY InitSound, NextSound, PTL DEF Spec

(* base.go, FailOrDead: when asynq gives up on a task no attempt of which was
   lost, the job's row says dead.                                          *)
THEOREM ArchivedOnlyDead == Spec => []ExhaustedDead
<1>1. OInv => ExhaustedDead
  <2> SUFFICES ASSUME OInv, NEW t \in Tasks, task[t] = "archived", lost[t] = 0
               PROVE  status[JobOf[t]] = "dead"
    BY DEF ExhaustedDead
  <2>1. Says(JobOf[t], "dead") /\ JobOf[t] \in Jobs
    BY ArchivedSaysDead, JobQueueAssumption DEF OInv, IInv
  <2> QED BY <2>1 DEF Says, OInv, IInv, JobsInv, Rows, JobStatus
<1> QED BY <1>1, Soundness, PTL

-----------------------------------------------------------------------------
(* The refinement mapping of JobWorker!JD. *)
Place  == [j \in Jobs |-> Whereabouts(task[FirstTask[j]])]
Missed == [j \in Jobs |-> lost[FirstTask[j]]]
Budget == [j \in Jobs |-> details[j].max]

(* A job is where its only task is. *)
LEMMA PlaceMoves ==
  ASSUME IInv, NEW t \in Tasks, NEW s \in TaskState, task[t] # "new",
         task' = [task EXCEPT ![t] = s]
  PROVE  /\ JobOf[t] \in Jobs /\ FirstTask[JobOf[t]] = t
         /\ Place[JobOf[t]] = Whereabouts(task[t])
         /\ Place' = [Place EXCEPT ![JobOf[t]] = Whereabouts(s)]
<1>1. JobOf[t] \in Jobs /\ FirstTask[JobOf[t]] = t
  BY JobQueueAssumption DEF IInv, AccountsInv, OneTaskPerJob
<1>2. ASSUME NEW j \in Jobs
      PROVE  Place'[j] = IF j = JobOf[t] THEN Whereabouts(s) ELSE Place[j]
  <2>1. FirstTask[j] \in Tasks /\ JobOf[FirstTask[j]] = j
    BY JobQueueAssumption
  <2>2. task'[FirstTask[j]] = IF j = JobOf[t] THEN s ELSE task[FirstTask[j]]
    BY <1>1, <2>1 DEF IInv, SlotsInv, Types, QueueTypeOK
  <2> QED BY <2>2 DEF Place
<1> QED BY <1>1, <1>2 DEF Place

(* A step inside a handler: its job stays with it, and at most this attempt
   is missed.                                                              *)
LEMMA AttemptMaps ==
  ASSUME IInv, NEW w \in Slots, pc[w] # "idle", NEW l \in Labels, Moves(w, l),
         details' = details,
         lost' = lost \/ lost' = [lost EXCEPT ![hand[w]] = @ + 1]
  PROVE  /\ JobIn(w) \in Jobs /\ Place[JobIn(w)] = "working"
         /\ Place' = Place /\ Budget' = Budget
         /\ Missed' \in {Missed, [Missed EXCEPT ![JobIn(w)] = @ + 1]}
<1>1. hand[w] \in Tasks /\ JobIn(w) \in Jobs /\ task[hand[w]] = "active"
  BY BusySlot, WorkerAssumption DEF IInv, SlotsInv, Types, Holding
<1>2. FirstTask[JobIn(w)] = hand[w]
  BY <1>1 DEF IInv, AccountsInv, OneTaskPerJob, JobIn
<1>3. Place[JobIn(w)] = "working"
  BY <1>1, <1>2 DEF Place, Whereabouts
<1>4. Place' = Place /\ Budget' = Budget
  BY DEF Moves, queueVars, Place, Budget
<1>5. Missed' \in {Missed, [Missed EXCEPT ![JobIn(w)] = @ + 1]}
  <2>1. CASE lost' = lost
    BY <2>1 DEF Missed
  <2>2. CASE lost' = [lost EXCEPT ![hand[w]] = @ + 1]
    <3>1. ASSUME NEW j \in Jobs
          PROVE  Missed'[j] = IF j = JobIn(w) THEN Missed[j] + 1 ELSE Missed[j]
      <4>1. FirstTask[j] \in Tasks /\ (FirstTask[j] = hand[w] <=> j = JobIn(w))
        BY <1>2, JobQueueAssumption DEF JobIn
      <4> QED BY <1>1, <2>2, <4>1 DEF Missed, IInv, SlotsInv, Types, WorkerTypeOK
    <3> QED BY <1>1, <3>1 DEF Missed
  <2> QED BY <2>1, <2>2
<1> QED BY <1>1, <1>3, <1>4, <1>5

(* base.go: every call of a handler is a Write or a Tell, or changes nothing. *)
LEMMA HandlerMaps ==
  ASSUME OInv, OInv', NEW w \in Slots, Handler(w), ~Ack(w), ~Nack(w)
  PROVE  JD!Next
<1>1. pc[w] # "idle" /\ Sound(w) /\ JobIn(w) \in Jobs
  BY BusySlot, KnownIsSound
  DEF Handler, PrepareFetch, PrepareMark, Run, Complete, Dead, Dispatch, FailCount,
      FailStatus, OInv, AttemptsSound, IInv, SlotsInv, Types
<1>2. PICK l \in Labels :
        /\ Moves(w, l)
        /\ lost' = lost \/ lost' = [lost EXCEPT ![hand[w]] = @ + 1]
  BY DEF Handler, PrepareFetch, PrepareMark, Run, Complete, Dead, Settle, Dispatch,
         FailCount, FailStatus, Moves, Goto, GiveUp, Process, Labels
<1>3. RepoTypeOK
  BY DEF OInv, IInv, SlotsInv, Types
<1>4. details' = details
  BY <1>1, <1>3, ReadOnly, StatusWrite, CountWrite
  DEF Handler, PrepareFetch, PrepareMark, Run, Complete, Dead, Settle, Dispatch,
      FailCount, FailStatus, repoVars, JobStatus, NextCount, OInv, IInv, SlotsInv, Types,
      WorkerTypeOK
<1>0. PICK j \in Jobs : j = JobIn(w)
  BY <1>1
<1>5. /\ Place[j] = "working" /\ Place' = Place /\ Budget' = Budget
      /\ Missed' \in {Missed, [Missed EXCEPT ![j] = @ + 1]}
  BY <1>1, <1>0, <1>2, <1>4, AttemptMaps DEF OInv
<1>6. CASE Dispatch(w)
  <2>1. /\ status[j] \in {"done", "dead"}
        /\ announced' = [announced EXCEPT ![j] = @ \cup {status[j]}]
        /\ UNCHANGED <<status, retryCount, lost>>
    BY <1>1, <1>0, <1>6 DEF Dispatch, Sound, OInv, IInv, SlotsInv, Verdict, repoVars
  <2>2. Missed' = Missed
    BY <2>1 DEF Missed
  <2>3. JD!Tell(j)
    BY <1>5, <2>1, <2>2 DEF JD!Tell, JD!record, Place, Missed, Budget
  <2> QED BY <1>1, <1>0, <2>3 DEF JD!Next
<1>7. CASE ~Dispatch(w)
  <2>1. announced' = announced
    BY <1>7 DEF Handler, PrepareFetch, PrepareMark, Run, Complete, Dead, Settle, FailCount,
                FailStatus
  <2>2. \/ JD!Mark(j) \/ JD!Count(j) \/ UNCHANGED <<status, retryCount>>
        \/ \E s \in {"done", "dead", "failed"} : JD!Settle(j, s)
    <3>1. CASE PrepareFetch(w) \/ PrepareMark(w)
      BY <1>1, <1>0, <1>3, <3>1, ReadOnly, StatusWrite
      DEF PrepareFetch, PrepareMark, JobStatus, JD!Mark
    <3>2. CASE Run(w)
      BY <3>2 DEF Run, repoVars
    <3>3. CASE Complete(w) \/ Dead(w)
      <4>1. /\ status[j] = "processing"
            /\ Dead(w) => BudgetUsed(j)
        BY <1>1, <1>0, <3>3 DEF Complete, Dead, Sound
      <4>2. CASE Complete(w)
        <5>1. /\ retryCount' = retryCount
              /\ status' = status \/ status' = [status EXCEPT ![j] = "done"]
          BY <1>1, <1>3, <1>0, <4>2, StatusWrite DEF Complete, Settle, JobStatus
        <5> QED BY <4>1, <5>1 DEF JD!Settle
      <4>3. CASE Dead(w)
        <5>1. /\ retryCount' = retryCount
              /\ status' = status \/ status' = [status EXCEPT ![j] = "dead"]
          BY <1>1, <1>3, <1>0, <4>3, StatusWrite DEF Dead, Settle, JobStatus
        <5> QED BY <4>1, <4>3, <5>1 DEF JD!Settle, BudgetUsed
      <4> QED BY <3>3, <4>2, <4>3
    <3>4. CASE FailCount(w)
      <4>1. /\ status[j] = "processing" /\ NextCount(w) \in Nat
            /\ NextCount(w) = retryCount[j] + 1
            /\ NextCount(w) < details[j].max
        BY <1>1, <1>0, <3>4
        DEF FailCount, Sound, NextCount, OInv, IInv, AccountsInv, InSync, Counting, SlotsInv,
            Types, WorkerTypeOK
      <4>2. /\ status' = status
            /\ \/ retryCount' = retryCount
               \/ retryCount' = [retryCount EXCEPT ![j] = NextCount(w)]
        BY <1>1, <1>0, <1>3, <3>4, <4>1, CountWrite DEF FailCount
      <4> QED BY <1>1, <1>0, <4>1, <4>2 DEF JD!Count
    <3>5. CASE FailStatus(w)
      <4>1. status[j] = "processing"
        BY <1>1, <1>0, <3>5 DEF FailStatus, Sound
      <4>2. /\ retryCount' = retryCount
            /\ status' = status \/ status' = [status EXCEPT ![j] = "failed"]
        BY <1>1, <1>0, <1>3, <3>5, StatusWrite DEF FailStatus, JobStatus
      <4> QED BY <1>1, <1>0, <4>1, <4>2 DEF JD!Settle
    <3> QED BY <1>7, <3>1, <3>2, <3>3, <3>4, <3>5 DEF Handler
  <2>3. JD!Write(j)
    BY <1>5, <2>1, <2>2 DEF JD!Write, JD!record, Place, Missed, Budget
  <2> QED BY <2>3 DEF JD!Next
<1> QED BY <1>6, <1>7

(* asynq moving one task is an Attempt, a Return, a Leave, or no step. *)
LEMMA QueueMaps ==
  ASSUME OInv, OInv',
         \/ \E w \in Slots, t \in Tasks : Dequeue(w, t)
         \/ \E w \in Slots : Ack(w) \/ Nack(w) \/ Abort(w)
         \/ \E t \in Tasks : WorkerForward(t) \/ Recover(t)
  PROVE  JD!Next \/ UNCHANGED JD!vars
<1>1. JobsKept /\ lost' = lost /\ Missed' = Missed /\ Budget' = Budget
  BY DEF Dequeue, Ack, Nack, Abort, WorkerForward, Forward, Recover, JobsKept, repoVars,
         workerVars, Missed, Budget
<1>2. PICK t \in Tasks, s \in TaskState :
        /\ task[t] # "new" /\ task' = [task EXCEPT ![t] = s]
        /\ \/ task[t] = "pending" /\ s = "active"
           \/ task[t] = "active" /\ s \in {"pending", "retry", "archived"}
           \/ /\ task[t] = "active" /\ s = "finished"
              /\ announced[JobOf[t]] # {}
           \/ task[t] \in {"scheduled", "retry"} /\ s = "pending"
  <2>1. CASE \E w \in Slots, t \in Tasks : Dequeue(w, t)
    BY <2>1 DEF Dequeue, DequeueTask, Move, TaskState
  <2>2. CASE \E w \in Slots : Ack(w) \/ Nack(w) \/ Abort(w)
    <3>1. PICK w \in Slots : Ack(w) \/ Nack(w) \/ Abort(w)
      BY <2>2
    <3>2. hand[w] \in Tasks /\ task[hand[w]] = "active"
      BY <3>1, BusySlot, WorkerAssumption
      DEF Ack, Nack, Abort, OInv, IInv, SlotsInv, Types, Holding
    <3>3. Ack(w) => announced[JobOf[hand[w]]] # {}
      BY DEF Ack, OInv, IInv, JobsInv, Acked, JobIn
    <3> QED
      BY <3>1, <3>2, <3>3
      DEF Ack, Nack, Abort, DoneTask, FailTask, RequeueTask, Move, TaskState
  <2>3. CASE \E t \in Tasks : WorkerForward(t) \/ Recover(t)
    BY <2>3 DEF WorkerForward, Forward, ForwardTask, Recover, FailTask, Move, TaskState
  <2> QED BY <2>1, <2>2, <2>3
<1>3. /\ JobOf[t] \in Jobs /\ FirstTask[JobOf[t]] = t
      /\ Place[JobOf[t]] = Whereabouts(task[t])
      /\ Place' = [Place EXCEPT ![JobOf[t]] = Whereabouts(s)]
  BY <1>2, PlaceMoves DEF OInv
<1>4. UNCHANGED <<status, retryCount, announced>>
  BY <1>1 DEF JobsKept
<1>5. CASE task[t] = "pending" /\ s = "active"
  <2>1. JD!Move(JobOf[t], "queued", "working")
    BY <1>1, <1>3, <1>4, <1>5 DEF JD!Move, JD!record, Whereabouts, Place, Missed, Budget
  <2> QED BY <1>3, <2>1 DEF JD!Next, JD!Attempt
<1>6. CASE task[t] = "active" /\ s \in {"pending", "retry"}
  <2>1. JD!Move(JobOf[t], "working", "queued")
    BY <1>1, <1>3, <1>4, <1>6 DEF JD!Move, JD!record, Whereabouts, Place, Missed, Budget
  <2> QED BY <1>3, <2>1 DEF JD!Next, JD!Return
<1>7. CASE task[t] = "active" /\ s \in {"archived", "finished"}
  <2>1. announced[JobOf[t]] # {} \/ Missed[JobOf[t]] > 1
    <3>1. CASE s = "finished"
      BY <1>2, <3>1
    <3>2. CASE s = "archived"
      <4>1. task'[t] = "archived"
        BY <1>2, <3>2 DEF OInv, IInv, SlotsInv, Types, QueueTypeOK
      <4>2. lost[t] <= 1 => "dead" \in announced[JobOf[t]]
        <5>1. ExhaustedAnnounced'
          BY SilenceIsLoss, PTL
        <5> QED BY <1>1, <4>1, <5>1 DEF ExhaustedAnnounced, JobsKept
      <4>3. lost[t] \in Nat /\ Missed[JobOf[t]] = lost[t]
        BY <1>3 DEF Missed, OInv, IInv, SlotsInv, Types, WorkerTypeOK
      <4> QED BY <4>2, <4>3
    <3> QED BY <1>7, <3>1, <3>2
  <2>2. JD!Move(JobOf[t], "working", "gone")
    BY <1>1, <1>3, <1>4, <1>7 DEF JD!Move, JD!record, Whereabouts, Place, Missed, Budget
  <2> QED BY <1>3, <2>1, <2>2 DEF JD!Next, JD!Leave, Missed
<1>8. CASE task[t] \in {"scheduled", "retry"} /\ s = "pending"
  <2>1. Place' = Place
    BY <1>3, <1>8 DEF Whereabouts, Place
  <2> QED BY <1>1, <1>4, <2>1 DEF JD!vars, JD!record, Place, Missed, Budget
<1> QED BY <1>2, <1>5, <1>6, <1>7, <1>8

(* main.go: a death of the process is a Die, its other steps are invisible. *)
LEMMA ProcessMaps ==
  ASSUME OInv,
         \/ Crash \/ Stop \/ Exit \/ ForceExit \/ Restart
         \/ \E j \in Jobs : Clock(j)
  PROVE  JD!Next \/ UNCHANGED JD!vars
<1>1. JobsKept /\ Place' = Place /\ Budget' = Budget
  BY DEF Crash, Stop, Exit, ForceExit, Restart, Die, Clock, TimePasses, workerVars,
         repoVars, queueVars, JobsKept, Place, Budget
<1>2. CASE Crash \/ ForceExit
  <2>1. Die
    BY <1>2 DEF Crash, ForceExit
  <2> DEFINE Cut(j) == \E w \in Slots : hand[w] = FirstTask[j] /\ Unrecorded(w)
             js == {j \in Jobs : Cut(j)}
  <2>2. js \in SUBSET {j \in Jobs : Place[j] = "working"}
    <3> SUFFICES ASSUME NEW j \in Jobs, Cut(j) PROVE Place[j] = "working"
      OBVIOUS
    <3>1. FirstTask[j] \in Tasks
      BY JobQueueAssumption
    <3>2. task[FirstTask[j]] = "active"
      BY <3>1, WorkerAssumption DEF OInv, IInv, SlotsInv, Holding
    <3> QED BY <3>2 DEF Place, Whereabouts
  <2>3. Missed' = [j \in Jobs |-> IF j \in js THEN Missed[j] + 1 ELSE Missed[j]]
    <3>1. ASSUME NEW j \in Jobs
          PROVE  Missed'[j] = IF j \in js THEN Missed[j] + 1 ELSE Missed[j]
      <4>1. FirstTask[j] \in Tasks
        BY JobQueueAssumption
      <4> QED BY <2>1, <4>1 DEF Die, Missed
    <3> QED BY <3>1 DEF Missed
  <2> HIDE DEF js
  <2>4. JD!Die
    BY <1>1, <2>2, <2>3 DEF JD!Die, JD!record, JobsKept, Place, Missed, Budget
  <2> QED BY <2>4 DEF JD!Next
<1>3. CASE ~(Crash \/ ForceExit)
  <2>1. Missed' = Missed
    BY <1>3 DEF Stop, Exit, Restart, Clock, workerVars, Missed
  <2> QED BY <1>1, <2>1 DEF JobsKept, JD!vars, JD!record, Place, Missed, Budget
<1> QED BY <1>2, <1>3

LEMMA InitMaps == Init => JD!Init
<1> SUFFICES ASSUME Init PROVE JD!Init
  OBVIOUS
<1>1. \A j \in Jobs : /\ FirstTask[j] \in Tasks
                      /\ FirstTask[JobOf[FirstTask[j]]] = FirstTask[j]
  BY JobQueueAssumption
<1>2. Place = [j \in Jobs |-> "queued"]
  BY <1>1 DEF Init, Place, Whereabouts
<1>3. Missed = [j \in Jobs |-> 0]
  BY <1>1 DEF Init, WorkerInit, Missed
<1>4. Budget \in [Jobs -> Nat \ {0}]
  BY InitInv DEF IInv, SlotsInv, Types, RepoTypeOK, Details, Budget
<1> QED BY <1>2, <1>3, <1>4 DEF JD!Init, Init, WorkerInit, Place, Missed, Budget

LEMMA NextMaps == OInv /\ OInv' /\ [Next]_vars => [JD!Next]_JD!vars
<1> SUFFICES ASSUME OInv, OInv', [Next]_vars PROVE JD!Next \/ UNCHANGED JD!vars
  OBVIOUS
<1>1. CASE Next
  BY <1>1, HandlerMaps, QueueMaps, ProcessMaps DEF Next, WorkerNext, Handler
<1>2. CASE UNCHANGED vars
  BY <1>2
  DEF vars, repoVars, queueVars, workerVars, JD!vars, JD!record
<1> QED BY <1>1, <1>2

(* base.go on asynq implements JobDelivery: see KeepsPromises. *)
THEOREM WorkerDelivers == Spec => KeepsPromises
<1>1. Init => JD!Init
  BY InitMaps
<1>2. OInv /\ OInv' /\ [Next]_vars => [JD!Next]_JD!vars
  BY NextMaps
<1> QED BY <1>1, <1>2, Soundness, PTL DEF Spec, KeepsPromises, JD!Spec
=============================================================================
