------------------------ MODULE JobNotificationProofs ------------------------
(***************************************************************************)
(* Theorems about attempts and fan-outs in one process.                    *)
(***************************************************************************)
EXTENDS JobNotification, JobDeliveryProofs, FiniteSetTheorems

(* The delivery side on its own: the faults of the whole process are its. *)
DP == INSTANCE WebhookDeliveryProofs WITH
       Tasks <- Events \X Hooks, task <- delivery, retried <- deliveryRetried,
       faults <- faults + downs, MaxFaults <- MaxFaults + MaxDowns

-----------------------------------------------------------------------------
(* Every step of the composition is a step of the worker, or none for it. *)
LEMMA JobStep ==
  ASSUME [NotificationNext]_notificationVars
  PROVE  [Next]_vars
<1>1. CASE \E w \in Slots : StartJob(w) \/ Work(w) \/ AbortJob(w)
  BY <1>1
  DEF StartJob, Work, Tell, Told, AbortJob, Next, WorkerNext, vars, jobVars, Handler,
      workerVars, W!DispatchJobEvent, W!Idling
<1>2. CASE \E t \in Tasks : Queue(t)
  BY <1>2 DEF Queue, Next, WorkerNext
<1>3. CASE \/ \E e \in Events : FanOut(e)
           \/ \E t \in Events \X Hooks : StartDelivery(t) \/ DeliveryQueue(t)
           \/ \E s \in Senders : Deliver(s) \/ AbortDelivery(s)
           \/ \E h \in Hooks : Unsubscribe(h)
  <2>1. UNCHANGED <<jobVars, server>>
    BY <1>3
    DEF FanOut, StartDelivery, DeliveryQueue, Deliver, AbortDelivery, Unsubscribe,
        DeliverySide, W!ListHooks, W!PushDelivery, W!Idling, W!Take, W!RetryDelivery,
        W!RecoverDelivery, W!Calm, W!deliveryVars, W!processVars, W!Delivering, W!Load,
        W!Send, W!Finish, W!AbortDelivery, W!Unregister
  <2> QED BY <2>1 DEF jobVars, vars, workerVars
<1>4. CASE \E j \in Jobs : Tick(j)
  BY <1>4 DEF Tick, Next, WorkerNext
<1>5. CASE StopAll \/ CrashAll \/ ForcedExit \/ CleanExit \/ RestartAll
  BY <1>5 DEF StopAll, CrashAll, ForcedExit, CleanExit, RestartAll, Next, WorkerNext
<1>6. CASE UNCHANGED notificationVars
  BY <1>6 DEF notificationVars, jobVars, vars, workerVars
<1> QED BY <1>1, <1>2, <1>3, <1>4, <1>5, <1>6 DEF NotificationNext

THEOREM WorkerKept == NotificationSpec => Spec
<1>1. NotificationInit => Init
  BY DEF NotificationInit
<1>2. [NotificationNext]_notificationVars => [Next]_vars
  BY JobStep
<1> QED BY <1>1, <1>2, PTL DEF NotificationSpec, Spec

-----------------------------------------------------------------------------
(* Steps of the delivery side alone, and what a fault of either side is to it. *)
LEMMA FaultSeen ==
  ASSUME faults \in Nat, downs \in Nat, UNCHANGED downs
  PROVE  /\ W!Fault => DP!Fault
         /\ UNCHANGED faults => UNCHANGED (faults + downs)
BY DEF W!Fault, DP!Fault

LEMMA DispatcherSeen ==
  ASSUME faults \in Nat, downs \in Nat, UNCHANGED downs, NEW e \in Events,
         \/ W!DispatchJobEvent(e) \/ W!ListHooks(e) \/ W!AbortDispatch(e)
         \/ \E h \in Hooks : W!PushDelivery(e, h)
  PROVE  DP!Dispatching(e) \/ DP!AbortDispatch(e)
<1> USE DEF W!queueVars, DP!queueVars, W!Idling, DP!Idling, W!registryVars, DP!registryVars,
            W!senderVars, DP!senderVars
<1>1. CASE W!DispatchJobEvent(e)
  BY <1>1, FaultSeen DEF W!DispatchJobEvent, DP!DispatchJobEvent, DP!Dispatching
<1>2. CASE W!ListHooks(e)
  <2>1. DP!ListHooks(e)
    BY <1>2, FaultSeen DEF W!ListHooks, DP!ListHooks, W!ListByUserID, DP!ListByUserID
  <2> QED BY <2>1 DEF DP!Dispatching
<1>3. CASE W!AbortDispatch(e)
  BY <1>3, FaultSeen DEF W!AbortDispatch, DP!AbortDispatch
<1>4. ASSUME NEW h \in Hooks, W!PushDelivery(e, h) PROVE DP!PushDelivery(e, h)
  BY <1>4, FaultSeen
  DEF W!PushDelivery, DP!PushDelivery, W!Remaining, DP!Remaining, W!EnqueueTask,
      DP!EnqueueTask, W!Move, DP!Move
<1> QED BY <1>1, <1>2, <1>3, <1>4 DEF DP!Dispatching

LEMMA SenderSeen ==
  ASSUME faults \in Nat, downs \in Nat, UNCHANGED downs, NEW s \in Senders,
         W!Delivering(s) \/ W!AbortDelivery(s) \/ \E t \in Events \X Hooks : W!Take(s, t)
  PROVE  DP!Delivering(s) \/ DP!AbortDelivery(s) \/ \E t \in Events \X Hooks : DP!Take(s, t)
<1> USE DEF W!queueVars, DP!queueVars, W!Calm, DP!Calm, W!registryVars, DP!registryVars,
            W!dispatchVars, DP!dispatchVars, W!Goto, DP!Goto,
            W!HookOf, DP!HookOf, W!Move, DP!Move
<1>1. CASE W!Load(s)
  <2>1. DP!Load(s)
    BY <1>1, FaultSeen DEF W!Load, DP!Load, W!Found, DP!Found, W!Begin, DP!Begin
  <2> QED BY <2>1 DEF DP!Delivering
<1>2. CASE W!Send(s)
  <2>1. \A result : W!Exchange(s, result) <=> DP!Exchange(s, result)
    BY DEF W!Exchange, DP!Exchange, W!Dials, DP!Dials, W!Control, DP!Control, W!isBlocked,
       DP!isBlocked, W!CheckRedirect, DP!CheckRedirect, W!Follow, DP!Follow, W!NoRequest,
       DP!NoRequest, W!Redirects, DP!Redirects
  <2>2. DP!Send(s)
    BY <1>2, <2>1, FaultSeen
    DEF W!Send, DP!Send, W!Return, DP!Return, W!Taken, DP!Taken, W!Results, DP!Results
  <2> QED BY <2>2 DEF DP!Delivering
<1>3. CASE W!Finish(s)
  <2>1. DP!Finish(s)
    BY <1>3, FaultSeen
    DEF W!Finish, DP!Finish, W!DoneTask, DP!DoneTask, W!FailTask, DP!FailTask, W!Exhausted,
        DP!Exhausted, W!Release, DP!Release, W!webhookDeliveryMaxRetry,
        DP!webhookDeliveryMaxRetry
  <2> QED BY <2>1 DEF DP!Delivering
<1>4. CASE W!AbortDelivery(s)
  BY <1>4, FaultSeen
  DEF W!AbortDelivery, DP!AbortDelivery, W!RequeueTask, DP!RequeueTask, W!CutOff, DP!CutOff,
      W!Drop, DP!Drop, W!NoRequest, DP!NoRequest, W!Release, DP!Release
<1>5. ASSUME NEW t \in Events \X Hooks, W!Take(s, t) PROVE DP!Take(s, t)
  BY <1>5, FaultSeen DEF W!Take, DP!Take, W!DequeueTask, DP!DequeueTask
<1> QED BY <1>1, <1>2, <1>3, <1>4, <1>5 DEF W!Delivering

LEMMA QueueSeen ==
  ASSUME faults \in Nat, downs \in Nat, UNCHANGED downs, NEW t \in Events \X Hooks,
         W!RetryDelivery(t) \/ W!RecoverDelivery(t)
  PROVE  DP!RetryDelivery(t) \/ DP!RecoverDelivery(t)
BY FaultSeen
DEF W!RetryDelivery, DP!RetryDelivery, W!RecoverDelivery, DP!RecoverDelivery, W!ForwardTask,
    DP!ForwardTask, W!FailTask, DP!FailTask, W!Exhausted, DP!Exhausted, W!Move, DP!Move,
    W!webhookDeliveryMaxRetry, DP!webhookDeliveryMaxRetry, W!deliveryVars, DP!deliveryVars,
    W!registryVars, DP!registryVars, W!dispatchVars, DP!dispatchVars, W!senderVars,
    DP!senderVars, W!processVars, DP!processVars

LEMMA RegistrySeen ==
  ASSUME faults \in Nat, downs \in Nat, UNCHANGED downs, NEW h \in Hooks, NEW u,
         W!Unregister(h, u)
  PROVE  DP!Unregister(h, u)
BY DEF W!Unregister, DP!Unregister, W!queueVars, DP!queueVars, W!dispatchVars,
   DP!dispatchVars, W!senderVars, DP!senderVars, W!processVars, DP!processVars

(* main.go: the process ends for both sides at once. *)
LEMMA CutSeen ==
  ASSUME faults \in Nat, downs \in Nat, Cut
  PROVE  DP!Halt
BY DEF Cut, W!Halt, DP!Halt, W!CutOff, DP!CutOff, W!Drop, DP!Drop, W!NoRequest, DP!NoRequest,
   W!queueVars, DP!queueVars, W!registryVars, DP!registryVars

(* The faults of the delivery side, and the calls of the handlers. *)
CallTypes == /\ faults \in 0 .. MaxFaults
             /\ call \in [Slots -> Events \cup {NoEvent}]

LEMMA FaultsLower ==
  ASSUME CallTypes, W!Fault \/ UNCHANGED faults
  PROVE  faults' \in 0 .. faults /\ faults' \in 0 .. MaxFaults
BY DeliverySideAssumption DEF CallTypes, W!Fault

LEMMA DeliveryStep ==
  ASSUME CallTypes, downs \in Nat, [NotificationNext]_notificationVars
  PROVE  [DP!Next]_DP!vars
<1>0. faults \in Nat
  BY DeliverySideAssumption DEF CallTypes
<1> DEFINE Still == UNCHANGED <<notifyVars, server>> /\ UNCHANGED (faults + downs)
<1>1. Still => UNCHANGED DP!vars
  BY DEF notifyVars, DP!vars, DP!queueVars, DP!deliveryVars, DP!registryVars,
     DP!dispatchVars, DP!senderVars, DP!processVars
<1>2. JobSide /\ UNCHANGED <<server, downs>> => Still
  BY DEF JobSide, notifyVars
<1> HIDE DEF Still
<1>3. CASE \E w \in Slots : StartJob(w) \/ Work(w) \/ AbortJob(w)
  <2> PICK w \in Slots : StartJob(w) \/ Work(w) \/ AbortJob(w)
    BY <1>3
  <2>1. CASE StartJob(w)
    BY <1>1, <1>2, <2>1 DEF StartJob, Dequeue, Process
  <2>2. CASE Handler(w) /\ JobSide
    BY <1>1, <1>2, <2>2
    DEF Handler, PrepareFetch, PrepareMark, Run, Complete, Dead, Settle, Dispatch, FailCount,
        FailStatus, Ack, Nack, Process
  <2>3. CASE Tell(w)
    <3>1. PICK e \in Events : W!DispatchJobEvent(e)
      BY <2>3 DEF Tell
    <3>2. UNCHANGED downs
      BY <2>3 DEF Tell, jobVars
    <3> QED BY <3>1, <3>2, <1>0, DispatcherSeen DEF DP!Next
  <2>4. CASE Told(w)
    <3>1. UNCHANGED <<notifyVars, server, downs>>
      BY <2>4 DEF Told, Dispatch, Process
    <3>2. Still
      BY <3>1 DEF Still, notifyVars
    <3> QED BY <1>1, <3>2
  <2>5. CASE AbortJob(w)
    <3>1. UNCHANGED <<server, downs>>
      BY <2>5 DEF AbortJob, Abort, Process
    <3>2. CASE call[w] # NoEvent /\ dispatch[call[w]] = "list"
      <4>1. W!AbortDispatch(call[w])
        BY <2>5, <3>2 DEF AbortJob
      <4>2. call[w] \in Events
        BY <3>2 DEF CallTypes
      <4> QED BY <3>1, <4>1, <4>2, <1>0, DispatcherSeen DEF DP!Next
    <3>3. CASE ~(call[w] # NoEvent /\ dispatch[call[w]] = "list")
      BY <1>1, <2>5, <3>1, <3>3 DEF AbortJob, Still, notifyVars
    <3> QED BY <3>2, <3>3
  <2> QED BY <2>1, <2>2, <2>3, <2>4, <2>5 DEF Work
<1>4. CASE \/ \E t \in Tasks : Queue(t)
           \/ \E j \in Jobs : Tick(j)
           \/ RestartAll
  <2>1. CASE \/ \E t \in Tasks : Queue(t)
             \/ \E j \in Jobs : Tick(j)
    BY <1>1, <1>2, <2>1 DEF Queue, Tick, WorkerForward, Recover, Clock, workerVars
  <2>2. CASE RestartAll
    <3>1. DP!RestartWorker
      BY <2>2
      DEF RestartAll, JobSide, Restart, notifyVars, DP!RestartWorker, DP!queueVars,
          DP!registryVars, DP!dispatchVars, DP!senderVars
    <3> QED BY <3>1 DEF DP!Next
  <2> QED BY <1>4, <2>1, <2>2
<1>5. CASE \/ \E e \in Events : FanOut(e)
           \/ \E t \in Events \X Hooks : StartDelivery(t) \/ DeliveryQueue(t)
           \/ \E s \in Senders : Deliver(s) \/ AbortDelivery(s)
           \/ \E h \in Hooks : Unsubscribe(h)
  <2>1. UNCHANGED downs
    BY <1>5
    DEF FanOut, StartDelivery, DeliveryQueue, Deliver, AbortDelivery, Unsubscribe,
        DeliverySide, jobVars
  <2>2. CASE \E e \in Events : FanOut(e)
    BY <2>1, <2>2, <1>0, DispatcherSeen DEF FanOut, DP!Next
  <2>3. CASE \/ \E t \in Events \X Hooks : StartDelivery(t)
             \/ \E s \in Senders : Deliver(s) \/ AbortDelivery(s)
    BY <2>1, <2>3, <1>0, SenderSeen DEF StartDelivery, Deliver, AbortDelivery, DP!Next
  <2>4. CASE \E t \in Events \X Hooks : DeliveryQueue(t)
    BY <2>1, <2>4, <1>0, QueueSeen DEF DeliveryQueue, DP!Next
  <2>5. CASE \E h \in Hooks : Unsubscribe(h)
    <3>1. \A h \in Hooks : HookUser[h] \in Users
      BY DeliverySideAssumption
    <3> QED BY <2>1, <2>5, <3>1, <1>0, RegistrySeen DEF Unsubscribe, DP!Next
  <2> QED BY <1>5, <2>2, <2>3, <2>4, <2>5
<1>6. CASE StopAll
  <2>1. DP!StopWorker
    BY <1>0, <1>6
    DEF StopAll, Stop, JobSide, notifyVars, DP!StopWorker, DP!Fault, DP!queueVars,
        DP!registryVars, DP!dispatchVars, DP!senderVars
  <2> QED BY <2>1 DEF DP!Next
<1>7. CASE CrashAll
  <2>1. DP!CrashWorker
    BY <1>7, <1>0, CutSeen DEF CrashAll, Crash, Cut, DP!CrashWorker, DP!Fault
  <2> QED BY <2>1 DEF DP!Next
<1>8. CASE ForcedExit \/ CleanExit
  <2>1. DP!ExitWorker
    BY <1>8, <1>0, CutSeen
    DEF ForcedExit, CleanExit, ForceExit, Exit, Cut, DP!ExitWorker
  <2> QED BY <2>1 DEF DP!Next
<1>9. CASE UNCHANGED notificationVars
  BY <1>1, <1>9 DEF notificationVars, jobVars, Still, notifyVars
<1> QED BY <1>3, <1>4, <1>5, <1>6, <1>7, <1>8, <1>9 DEF NotificationNext

(* Which events are called and how many faults are left, at every step. *)
LEMMA FaultsStep ==
  ASSUME CallTypes, [NotificationNext]_notificationVars
  PROVE  W!Fault \/ UNCHANGED faults
<1>1. CASE \E w \in Slots : StartJob(w) \/ Work(w) \/ AbortJob(w)
  BY <1>1
  DEF StartJob, Work, Tell, Told, AbortJob, JobSide, notifyVars, W!DispatchJobEvent,
      W!AbortDispatch
<1>2. CASE \E e \in Events : FanOut(e)
  BY <1>2 DEF FanOut, W!ListHooks, W!PushDelivery
<1>3. CASE \/ \E t \in Events \X Hooks : StartDelivery(t) \/ DeliveryQueue(t)
           \/ \E s \in Senders : Deliver(s) \/ AbortDelivery(s)
           \/ \E h \in Hooks : Unsubscribe(h)
  BY <1>3
  DEF StartDelivery, DeliveryQueue, Deliver, AbortDelivery, Unsubscribe, W!Take,
      W!RetryDelivery, W!RecoverDelivery, W!deliveryVars, W!processVars, W!Delivering,
      W!Load, W!Send, W!Finish, W!AbortDelivery, W!Unregister
<1>4. CASE \/ \E t \in Tasks : Queue(t)
           \/ \E j \in Jobs : Tick(j)
           \/ StopAll \/ CrashAll \/ ForcedExit \/ CleanExit \/ RestartAll
           \/ UNCHANGED notificationVars
  BY <1>4
  DEF Queue, Tick, StopAll, CrashAll, ForcedExit, CleanExit, RestartAll, Cut, JobSide,
      notifyVars, notificationVars
<1> QED BY <1>1, <1>2, <1>3, <1>4 DEF NotificationNext

LEMMA CallsStep ==
  ASSUME CallTypes, [NotificationNext]_notificationVars
  PROVE  CallTypes'
<1>1. faults' \in 0 .. MaxFaults
  BY FaultsStep, FaultsLower
<1>2. call' \in [Slots -> Events \cup {NoEvent}]
  <2>1. CASE \E w \in Slots : Work(w) \/ AbortJob(w)
    BY <2>1 DEF CallTypes, Work, Tell, Told, AbortJob, JobSide, callVars
  <2>2. CASE CrashAll \/ ForcedExit \/ CleanExit
    BY <2>2 DEF CrashAll, ForcedExit, CleanExit, Cut
  <2>3. CASE UNCHANGED callVars
    BY <2>3 DEF CallTypes, callVars
  <2> QED BY <2>1, <2>2, <2>3
      DEF NotificationNext, StartJob, Queue, FanOut, StartDelivery, DeliveryQueue, Deliver,
          AbortDelivery, Unsubscribe, Tick, StopAll, RestartAll, JobSide, DeliverySide,
          notificationVars
<1> QED BY <1>1, <1>2 DEF CallTypes

LEMMA CallTypesHold == NotificationSpec => []CallTypes
<1>1. NotificationInit => CallTypes
  BY DeliverySideAssumption DEF NotificationInit, W!Init, CallTypes
<1> QED BY <1>1, CallsStep, PTL DEF NotificationSpec

LEMMA WorkerInvariant == NotificationSpec => []OInv
BY WorkerKept, Soundness, PTL

(* The delivery side starts as it does alone. *)
LEMMA DeliveryStart == NotificationInit => DP!Init
<1> SUFFICES ASSUME NotificationInit PROVE DP!Init
  OBVIOUS
<1>1. W!Init /\ downs = MaxDowns
  BY DEF NotificationInit, Init, WorkerInit
<1> QED BY <1>1
    DEF W!Init, DP!Init, W!QueueInit, DP!QueueInit, W!HttpInit, DP!HttpInit, W!NoRequest,
        DP!NoRequest

LEMMA DeliveriesFollowed == NotificationSpec => DP!Spec
<1>1. OInv => downs \in Nat
  BY WorkerAssumption DEF OInv, IInv, SlotsInv, Types, WorkerTypeOK
<1>2. CallTypes /\ OInv /\ [NotificationNext]_notificationVars => [DP!Next]_DP!vars
  BY <1>1, DeliveryStep
<1> QED BY <1>2, DeliveryStart, CallTypesHold, WorkerInvariant, PTL
        DEF NotificationSpec, DP!Spec

LEMMA SideAssumptions ==
  DP!DeliveryAssumption /\ DP!SafeHttpAssumption /\ DP!BackoffAssumption
BY DeliverySideAssumption, WorkerAssumption
DEF DP!Address, W!Address, DP!Reply, W!Reply, DP!Redirects, W!Redirects, DP!IsFiniteSet,
    W!IsFiniteSet

LEMMA DeliveryInvariant == NotificationSpec => [](DP!DInv /\ DP!Counted)
<1>1. DP!Spec => []DP!DInv
  BY DP!DInvHolds, SideAssumptions
<1>2. DP!Spec => []DP!Counted
  BY DP!CountedHolds, SideAssumptions
<1> QED BY <1>1, <1>2, DeliveriesFollowed, PTL
-----------------------------------------------------------------------------
(* What the attempt in w has to tell. *)
News(w) == [job |-> JobIn(w), status |-> local[w].status]

(* A handler waits only for the event it dispatched, which says what became of
   its job and carries its owner.                                           *)
Called(w) == call[w] # NoEvent =>
               /\ pc[w] = "tell"
               /\ about[call[w]] = News(w) /\ EventUser[call[w]] = Owner[JobIn(w)]
               /\ dispatch[call[w]] \in {"list", "push", "returned", "unlisted"}

(* An event has news of a job from the call that dispatches it on. *)
AllNews == [job : Jobs, status : {"done", "dead"}]
Fresh == /\ about \in [Events -> AllNews \cup {NoNews}]
         /\ \A e \in Events : about[e] = NoNews <=> dispatch[e] = "due"

CallsInv == (\A w \in Slots : Called(w)) /\ Fresh

(* Both sides, each with what is known of it alone. *)
Sides == OInv /\ CallTypes /\ DP!DInv /\ DP!Counted

(* What one slot does leaves the others where they are. *)
LEMMA OthersStay ==
  ASSUME SlotsInv, NEW w \in Slots,
         Handler(w) \/ Abort(w) \/ \E t \in Tasks : Dequeue(w, t)
  PROVE  \A v \in Slots : v # w => /\ pc'[v] = pc[v] /\ hand'[v] = hand[v]
                                   /\ local'[v] = local[v]
<1> USE DEF SlotsInv, Types, WorkerTypeOK
<1>1. CASE PrepareFetch(w) \/ PrepareMark(w) \/ Run(w)
  BY <1>1 DEF PrepareFetch, PrepareMark, Run, GiveUp, Goto
<1>2. CASE Complete(w) \/ Dead(w) \/ Dispatch(w)
  BY <1>2 DEF Complete, Dead, Settle, Dispatch, GiveUp, Goto
<1>3. CASE FailCount(w) \/ FailStatus(w)
  BY <1>3 DEF FailCount, FailStatus, GiveUp, Goto
<1>4. CASE Ack(w) \/ Nack(w) \/ Abort(w)
  BY <1>4 DEF Ack, Nack, Abort, Free, Goto
<1>5. CASE \E t \in Tasks : Dequeue(w, t)
  BY <1>5 DEF Dequeue, Goto
<1> QED BY <1>1, <1>2, <1>3, <1>4, <1>5 DEF Handler

(* Steps of the delivery side that are not the fan-out's. *)
Elsewhere == \/ \E t \in Events \X Hooks : StartDelivery(t) \/ DeliveryQueue(t)
             \/ \E s \in Senders : Deliver(s) \/ AbortDelivery(s)
             \/ \E h \in Hooks : Unsubscribe(h)

(* Steps of the worker that are no slot's. *)
Besides == \/ \E t \in Tasks : Queue(t)
           \/ \E j \in Jobs : Tick(j)
           \/ StopAll \/ RestartAll

Ends == CrashAll \/ ForcedExit \/ CleanExit

LEMMA StepKinds ==
  ASSUME NotificationNext
  PROVE  \/ \E w \in Slots : \/ StartJob(w) \/ Tell(w) \/ Told(w) \/ AbortJob(w)
                             \/ Handler(w) /\ ~Dispatch(w) /\ JobSide
         \/ \E e \in Events : FanOut(e)
         \/ Elsewhere \/ Besides \/ Ends
BY DEF NotificationNext, Work, Elsewhere, Besides, Ends

LEMMA ElsewhereSides ==
  ASSUME Elsewhere
  PROVE  UNCHANGED <<jobVars, callVars, dispatch, listed, todo, server>>
BY DEF Elsewhere, StartDelivery, DeliveryQueue, Deliver, AbortDelivery, Unsubscribe,
   DeliverySide, W!Take, W!RetryDelivery, W!RecoverDelivery, W!deliveryVars, W!processVars,
   W!Delivering, W!Load, W!Send, W!Finish, W!AbortDelivery, W!Unregister, W!Calm,
   W!dispatchVars

LEMMA BesidesSides ==
  ASSUME Besides
  PROVE  JobSide /\ UNCHANGED <<pc, hand, local, announced>>
BY DEF Besides, Queue, Tick, StopAll, RestartAll, WorkerForward, Recover, Clock, Stop,
   Restart, workerVars

(* No two handlers wait for one event. *)
LEMMA OwnCall ==
  ASSUME Sides, CallsInv, NEW v \in Slots, NEW w \in Slots, v # w, call[v] # NoEvent
  PROVE  call[v] # call[w]
<1> SUFFICES ASSUME call[v] = call[w] PROVE v = w
  OBVIOUS
<1>1. News(v) = News(w) /\ pc[v] # "idle" /\ pc[w] # "idle"
  BY DEF CallsInv, Called
<1>2. News(v).job = JobIn(v) /\ News(w).job = JobIn(w)
  BY DEF News
<1> QED BY <1>1, <1>2, OneSlotPerJob DEF Sides, OInv, IInv, AccountsInv

LEMMA CallsInvStep ==
  ASSUME Sides, CallsInv, [NotificationNext]_notificationVars
  PROVE  CallsInv'
<1> USE DEF Called, Fresh, CallsInv
<1>0. /\ SlotsInv
      /\ dispatch \in [Events -> {"due", "list", "push", "returned", "unlisted", "cut"}]
      /\ call \in [Slots -> Events \cup {NoEvent}]
      /\ \A w \in Slots : pc[w] # "idle" => JobIn(w) \in Jobs
      /\ \A w \in Slots : pc[w] = "tell" => local[w].status \in {"done", "dead"}
  BY BusySlot DEF Sides, OInv, IInv, SlotsInv, Types, Verdict, DP!DInv, DP!TypeOK, CallTypes
<1>1. ASSUME NEW w \in Slots,
             StartJob(w) \/ (Handler(w) /\ ~Dispatch(w) /\ JobSide)
      PROVE  CallsInv'
  <2>1. UNCHANGED <<call, about, dispatch>>
    BY <1>1 DEF StartJob, JobSide, callVars, notifyVars
  <2>2. pc[w] # "tell"
    BY <1>1
    DEF StartJob, Dequeue, Handler, PrepareFetch, PrepareMark, Run, Complete, Dead,
        Dispatch, FailCount, FailStatus, Ack, Nack
  <2>3. \A v \in Slots : v # w => /\ pc'[v] = pc[v] /\ hand'[v] = hand[v]
                                  /\ local'[v] = local[v]
    BY <1>0, <1>1, OthersStay DEF StartJob
  <2>4. \A v \in Slots : v # w => JobIn(v)' = JobIn(v) /\ News(v)' = News(v)
    BY <2>3 DEF JobIn, News
  <2> QED BY <2>1, <2>2, <2>3, <2>4
<1>2. ASSUME NEW w \in Slots, Tell(w) PROVE CallsInv'
  <2>1. PICK e \in Events : /\ dispatch[e] = "due" /\ EventUser[e] = Owner[JobIn(w)]
                            /\ W!DispatchJobEvent(e)
                            /\ call' = [call EXCEPT ![w] = e]
                            /\ about' = [about EXCEPT ![e] = News(w)]
    BY <1>2 DEF Tell, News, W!DispatchJobEvent
  <2>2. PICK d \in {"list", "returned"} : dispatch' = [dispatch EXCEPT ![e] = d]
    BY <2>1 DEF W!DispatchJobEvent
  <2>3. pc[w] = "tell" /\ News(w) \in AllNews /\ UNCHANGED <<pc, hand, local>>
    BY <1>0, <1>2 DEF Tell, jobVars, News, AllNews
  <2>6. \A v \in Slots : JobIn(v)' = JobIn(v) /\ News(v)' = News(v)
    BY <2>3 DEF JobIn, News
  <2>4. Fresh'
    BY <1>0, <2>1, <2>2, <2>3, NotificationAssumption DEF AllNews
  <2>5. ASSUME NEW v \in Slots PROVE Called(v)'
    <3>1. CASE v = w
      BY <1>0, <2>1, <2>2, <2>3, <2>6, <3>1
    <3>2. CASE v # w /\ call[v] # NoEvent
      <4>1. call[v] # e /\ call[v] \in Events
        BY <1>0, <2>1, <3>2
      <4> QED BY <1>0, <2>1, <2>2, <2>3, <2>6, <3>2, <4>1
    <3>3. CASE v # w /\ call[v] = NoEvent
      BY <1>0, <2>1, <3>3
    <3> QED BY <3>1, <3>2, <3>3
  <2> QED BY <2>4, <2>5
<1>3. ASSUME NEW w \in Slots, Told(w) PROVE CallsInv'
  <2>1. /\ call' = [call EXCEPT ![w] = NoEvent]
        /\ UNCHANGED <<about, dispatch>> /\ Dispatch(w)
    BY <1>3 DEF Told, notifyVars
  <2>2. \A v \in Slots : v # w => /\ pc'[v] = pc[v] /\ hand'[v] = hand[v]
                                  /\ local'[v] = local[v]
    BY <1>0, <2>1, OthersStay DEF Handler
  <2>3. \A v \in Slots : v # w => JobIn(v)' = JobIn(v) /\ News(v)' = News(v)
    BY <2>2 DEF JobIn, News
  <2> QED BY <1>0, <2>1, <2>2, <2>3
<1>4. ASSUME NEW w \in Slots, AbortJob(w) PROVE CallsInv'
  <2>1. /\ call' = [call EXCEPT ![w] = NoEvent] /\ Abort(w)
        /\ UNCHANGED about
        /\ \/ UNCHANGED dispatch
           \/ /\ call[w] \in Events /\ dispatch[call[w]] = "list"
              /\ dispatch' = [dispatch EXCEPT ![call[w]] = "cut"]
    BY <1>0, <1>4 DEF AbortJob, W!AbortDispatch, notifyVars
  <2>2. \A v \in Slots : v # w => /\ pc'[v] = pc[v] /\ hand'[v] = hand[v]
                                  /\ local'[v] = local[v]
    BY <1>0, <2>1, OthersStay
  <2>3. \A v \in Slots : v # w => JobIn(v)' = JobIn(v) /\ News(v)' = News(v)
    BY <2>2 DEF JobIn, News
  <2>4. \A v \in Slots : v # w /\ call[v] # NoEvent => call[v] # call[w]
    BY OwnCall
  <2>5. Fresh'
    BY <1>0, <2>1
  <2>6. ASSUME NEW v \in Slots PROVE Called(v)'
    BY <1>0, <2>1, <2>2, <2>3, <2>4
  <2> QED BY <2>5, <2>6
<1>5. ASSUME NEW e \in Events, FanOut(e) PROVE CallsInv'
  <2>1. UNCHANGED <<call, about, pc, hand, local>>
    BY <1>5 DEF FanOut, DeliverySide, jobVars, callVars
  <2>2. /\ dispatch[e] \in {"list", "push"}
        /\ \E d \in {"push", "returned", "unlisted"} :
             dispatch' = [dispatch EXCEPT ![e] = d]
    BY <1>5 DEF FanOut, W!ListHooks, W!PushDelivery
  <2> QED BY <1>0, <2>1, <2>2 DEF JobIn, News
<1>6. CASE Elsewhere \/ Besides \/ UNCHANGED notificationVars
  <2>1. UNCHANGED <<call, about, dispatch, pc, hand, local>>
    BY <1>6, ElsewhereSides, BesidesSides
    DEF JobSide, jobVars, callVars, notifyVars, notificationVars
  <2> QED BY <2>1 DEF JobIn, News
<1>7. CASE Ends
  <2>1. /\ call' = [w \in Slots |-> NoEvent] /\ UNCHANGED about
        /\ dispatch' = [e \in Events |->
             IF dispatch[e] \in {"list", "push"} THEN "cut" ELSE dispatch[e]]
    BY <1>7 DEF Ends, CrashAll, ForcedExit, CleanExit, Cut, W!Halt
  <2> QED BY <1>0, <2>1
<1> QED BY <1>1, <1>2, <1>3, <1>4, <1>5, <1>6, <1>7, StepKinds

LEMMA CallsInvHolds == NotificationSpec => [](Sides /\ CallsInv)
<1>1. NotificationInit => CallsInv
  BY DEF NotificationInit, W!Init, CallsInv, Called, Fresh
<1>2. Sides /\ CallsInv /\ [NotificationNext]_notificationVars => CallsInv'
  BY CallsInvStep
<1>3. NotificationSpec => []Sides
  BY CallTypesHold, WorkerInvariant, DeliveryInvariant, PTL DEF Sides
<1> QED BY <1>1, <1>2, <1>3, PTL DEF NotificationSpec
-----------------------------------------------------------------------------
Sent(j) == Cardinality(EventsOf(j))

(* 1 when the attempt of j at hand, or asynq's last one, is accounted for: its
   count is written, its event dispatched, or its process gone.             *)
Paid(j) == LET t == FirstTask[j] IN
           IF \/ task[t] \in {"archived", "finished"}
              \/ task[t] = "active" /\ t \notin Held
              \/ \E w \in Slots :
                   hand[w] = t /\ (pc[w] \in {"fail", "nack", "ack"} \/ call[w] # NoEvent)
           THEN 1 ELSE 0

(* 1 while an event of j was dispatched by the attempt that still has it, or by
   the one that finished it.                                                *)
Kept(j) == LET t == FirstTask[j] IN
           IF \/ task[t] = "finished"
              \/ \E w \in Slots : hand[w] = t /\ (pc[w] = "ack" \/ call[w] # NoEvent)
           THEN 1 ELSE 0

(* The stops and crashes that may have cost j an event; that of a process which
   drains has cost the attempt at hand none yet.                            *)
Room(j) == IF server = "draining" /\ FirstTask[j] \in Held
           THEN (MaxDowns - downs) - 1 ELSE MaxDowns - downs

EventsPaid(j) ==
  /\ IsFiniteSet(EventsOf(j))
  /\ Sent(j) + retryCount[j] <= retried[FirstTask[j]] + Paid(j) + Room(j)
  /\ retried[FirstTask[j]] <= details[j].max
  /\ ~BudgetUsed(j) => Sent(j) <= Kept(j) + Room(j)

EventsInv == \A j \in Jobs : EventsPaid(j)

LEMMA Numbers ==
  ASSUME OInv, NEW j \in Jobs
  PROVE  /\ retried[FirstTask[j]] \in Nat /\ retryCount[j] \in Nat /\ details[j].max \in Nat
         /\ Paid(j) \in {0, 1} /\ Kept(j) \in {0, 1} /\ Room(j) \in Int
         /\ downs \in 0 .. MaxDowns /\ MaxDowns \in Nat
         /\ FirstTask[j] \in Tasks
<1>1. FirstTask[j] \in Tasks
  BY JobQueueAssumption
<1> QED BY <1>1, WorkerAssumption
    DEF Paid, Kept, Room, OInv, IInv, SlotsInv, Types, QueueTypeOK, WorkerTypeOK,
        RepoTypeOK, Details

(* What is accounted for while a slot has the job, and while none has. *)
LEMMA AtHand ==
  ASSUME SlotsInv, SlotsInv', NEW j \in Jobs, NEW w \in Slots
  PROVE  /\ hand[w] = FirstTask[j] =>
              /\ FirstTask[j] \in Held
              /\ Paid(j) = IF pc[w] \in {"fail", "nack", "ack"} \/ call[w] # NoEvent
                           THEN 1 ELSE 0
              /\ Kept(j) = IF pc[w] = "ack" \/ call[w] # NoEvent THEN 1 ELSE 0
         /\ hand'[w] = FirstTask[j] =>
              /\ FirstTask[j] \in Held'
              /\ Paid(j)' = IF pc'[w] \in {"fail", "nack", "ack"} \/ call'[w] # NoEvent
                           THEN 1 ELSE 0
              /\ Kept(j)' = IF pc'[w] = "ack" \/ call'[w] # NoEvent THEN 1 ELSE 0
<1>1. FirstTask[j] \in Tasks /\ FirstTask[j] # NoTask
  BY JobQueueAssumption, WorkerAssumption
<1>2. ASSUME hand[w] = FirstTask[j]
      PROVE  /\ FirstTask[j] \in Held /\ task[FirstTask[j]] = "active"
             /\ \A v \in Slots : hand[v] = FirstTask[j] => v = w
  BY <1>1, <1>2 DEF Held, SlotsInv, Holding, Apart
<1>3. ASSUME hand'[w] = FirstTask[j]
      PROVE  /\ FirstTask[j] \in Held' /\ task'[FirstTask[j]] = "active"
             /\ \A v \in Slots : hand'[v] = FirstTask[j] => v = w
  BY <1>1, <1>3 DEF Held, SlotsInv, Holding, Apart
<1> QED BY <1>2, <1>3 DEF Paid, Kept

LEMMA AtRest ==
  ASSUME NEW j \in Jobs
  PROVE  /\ FirstTask[j] \notin Held =>
              /\ Paid(j) = IF task[FirstTask[j]] \in {"archived", "finished", "active"}
                           THEN 1 ELSE 0
              /\ Kept(j) = IF task[FirstTask[j]] = "finished" THEN 1 ELSE 0
         /\ FirstTask[j] \notin Held' =>
              /\ Paid(j)' = IF task'[FirstTask[j]] \in {"archived", "finished", "active"}
                           THEN 1 ELSE 0
              /\ Kept(j)' = IF task'[FirstTask[j]] = "finished" THEN 1 ELSE 0
<1>1. FirstTask[j] # NoTask
  BY JobQueueAssumption, WorkerAssumption
<1> QED BY <1>1 DEF Paid, Kept, Held

LEMMA OneEventMore ==
  ASSUME NEW S, IsFiniteSet(S), NEW e
  PROVE  /\ IsFiniteSet(S \cup {e}) /\ Cardinality(S \cup {e}) \in Nat
         /\ Cardinality(S) \in Nat /\ Cardinality(S \cup {e}) <= Cardinality(S) + 1
BY FS_AddElement, FS_CardinalityType

(* The books of one job after a step that dispatches gain events of it. *)
LEMMA BooksKept ==
  ASSUME OInv, OInv', NEW j \in Jobs, EventsPaid(j), NEW gain \in {0, 1},
         details' = details,
         IF gain = 0 THEN EventsOf(j)' = EventsOf(j)
                     ELSE \E e \in Events : EventsOf(j)' = EventsOf(j) \cup {e},
         retried'[FirstTask[j]] <= details[j].max,
         gain + retryCount'[j] + retried[FirstTask[j]] + Paid(j) + Room(j)
           <= retryCount[j] + retried'[FirstTask[j]] + Paid(j)' + Room(j)',
         ~BudgetUsed(j)' => ~BudgetUsed(j) /\ gain + Kept(j) + Room(j) <= Kept(j)' + Room(j)'
  PROVE  EventsPaid(j)'
<1>1. /\ IsFiniteSet(EventsOf(j)') /\ Sent(j) \in Nat /\ Sent(j)' \in Nat
      /\ Sent(j)' <= Sent(j) + gain
  <2>1. Sent(j) \in Nat
    BY FS_CardinalityType DEF EventsPaid, Sent
  <2>2. CASE gain = 0
    BY <2>1, <2>2 DEF EventsPaid, Sent
  <2>3. CASE gain = 1
    <3>1. PICK e \in Events : EventsOf(j)' = EventsOf(j) \cup {e}
      BY <2>3
    <3>2. /\ IsFiniteSet(EventsOf(j)') /\ Cardinality(EventsOf(j)') \in Nat
          /\ Cardinality(EventsOf(j)') <= Cardinality(EventsOf(j)) + 1
      BY <3>1, OneEventMore DEF EventsPaid
    <3> QED BY <2>1, <2>3, <3>2 DEF Sent
  <2> QED BY <2>2, <2>3
<1>2. /\ retried[FirstTask[j]] \in Nat /\ retryCount[j] \in Nat
      /\ Paid(j) \in {0, 1} /\ Kept(j) \in {0, 1} /\ Room(j) \in Int
  BY Numbers
<1>3. /\ retried'[FirstTask[j]] \in Nat /\ retryCount'[j] \in Nat
      /\ Paid(j)' \in {0, 1} /\ Kept(j)' \in {0, 1} /\ Room(j)' \in Int
  <2>1. FirstTask[j] \in Tasks
    BY JobQueueAssumption
  <2> QED BY <2>1, WorkerAssumption
      DEF Paid, Kept, Room, OInv, IInv, SlotsInv, Types, QueueTypeOK, WorkerTypeOK,
          RepoTypeOK
<1>4. Sent(j)' + retryCount'[j] <= retried'[FirstTask[j]] + Paid(j)' + Room(j)'
  BY <1>1, <1>2, <1>3 DEF EventsPaid
<1>5. ~BudgetUsed(j)' => Sent(j)' <= Kept(j)' + Room(j)'
  BY <1>1, <1>2, <1>3 DEF EventsPaid
<1> QED BY <1>1, <1>4, <1>5 DEF EventsPaid

(* Steps that touch neither the job nor the attempt that has it. *)
LEMMA BooksShut ==
  ASSUME OInv, OInv', NEW j \in Jobs, EventsPaid(j), details' = details,
         EventsOf(j)' = EventsOf(j), UNCHANGED <<server, downs>>,
         retryCount'[j] = retryCount[j],
         retried'[FirstTask[j]] = retried[FirstTask[j]],
         task'[FirstTask[j]] = task[FirstTask[j]],
         \A w \in Slots : /\ hand'[w] = FirstTask[j] <=> hand[w] = FirstTask[j]
                          /\ hand[w] = FirstTask[j] => pc'[w] = pc[w] /\ call'[w] = call[w]
  PROVE  EventsPaid(j)'
<1>1. FirstTask[j] # NoTask
  BY JobQueueAssumption, WorkerAssumption
<1>2. FirstTask[j] \in Held' <=> FirstTask[j] \in Held
  BY <1>1 DEF Held
<1>3. Paid(j)' = Paid(j) /\ Kept(j)' = Kept(j) /\ Room(j)' = Room(j)
  BY <1>2 DEF Paid, Kept, Room
<1>4. BudgetUsed(j)' <=> BudgetUsed(j)
  BY DEF BudgetUsed
<1> QED BY <1>3, <1>4, BooksKept, Numbers DEF EventsPaid

(* A step of slot w, seen from a job that w neither has nor gets. *)
LEMMA OtherBooks ==
  ASSUME OInv, OInv', NEW j \in Jobs, EventsPaid(j), NEW w \in Slots,
         hand[w] # FirstTask[j], hand'[w] # FirstTask[j], details' = details,
         EventsOf(j)' = EventsOf(j), UNCHANGED <<server, downs>>,
         retryCount'[j] = retryCount[j],
         retried'[FirstTask[j]] = retried[FirstTask[j]],
         task'[FirstTask[j]] = task[FirstTask[j]],
         \A v \in Slots : v # w => /\ pc'[v] = pc[v] /\ hand'[v] = hand[v]
                                   /\ call'[v] = call[v]
  PROVE  EventsPaid(j)'
BY BooksShut

(* A slot at work has the task that Enqueue pushed for its job. *)
LEMMA FirstInHand ==
  ASSUME OInv, NEW w \in Slots, pc[w] # "idle"
  PROVE  /\ JobIn(w) \in Jobs /\ hand[w] = FirstTask[JobIn(w)]
         /\ task[hand[w]] = "active"
         /\ \A j \in Jobs : hand[w] = FirstTask[j] => j = JobIn(w)
<1>1. hand[w] \in Tasks /\ JobIn(w) \in Jobs /\ task[hand[w]] = "active"
  BY BusySlot, WorkerAssumption DEF OInv, IInv, SlotsInv, Types, Holding
<1> QED BY <1>1, JobQueueAssumption DEF OInv, IInv, AccountsInv, OneTaskPerJob, JobIn

(* base.go: a call that an attempt makes of the database *)
LEMMA AttemptBooks ==
  ASSUME OInv, OInv', CallsInv, EventsInv, JobSide, NEW w \in Slots,
         \/ PrepareFetch(w) \/ PrepareMark(w) \/ Run(w) \/ Complete(w) \/ Dead(w)
         \/ FailCount(w) \/ FailStatus(w)
  PROVE  EventsInv'
<1>1. /\ pc[w] \in {"fetch", "mark", "run", "complete", "bury", "count", "fail"}
      /\ call[w] = NoEvent
  BY DEF PrepareFetch, PrepareMark, Run, Complete, Dead, FailCount, FailStatus, CallsInv,
         Called
<1>2. /\ JobIn(w) \in Jobs /\ hand[w] = FirstTask[JobIn(w)]
      /\ retryCount \in [Jobs -> Nat] /\ NextCount(w) \in Nat
      /\ pc[w] = "count" => NextCount(w) = retryCount[JobIn(w)] + 1
  BY <1>1, FirstInHand
  DEF NextCount, OInv, IInv, AccountsInv, InSync, SlotsInv, Types, RepoTypeOK, WorkerTypeOK
<1>3. /\ details' = details
      /\ \/ retryCount' = retryCount
         \/ /\ pc[w] = "count"
            /\ retryCount' = [retryCount EXCEPT ![JobIn(w)] = NextCount(w)]
  BY <1>1, <1>2, ReadOnly, StatusWrite, CountWrite
  DEF PrepareFetch, PrepareMark, Run, Complete, Dead, Settle, FailCount, FailStatus, OInv,
      IInv, SlotsInv, Types, JobStatus, repoVars
<1>4. PICK l \in Labels \ {"idle"} :
        /\ Moves(w, l)
        /\ pc[w] \in {"count", "fail"} => l \in {"fail", "nack"}
  BY DEF PrepareFetch, PrepareMark, Run, Complete, Dead, Settle, FailCount, FailStatus,
         Moves, Goto, GiveUp, Process, Labels
<1>5. /\ hand' = hand /\ UNCHANGED <<task, retried, server, downs, call, about>>
      /\ pc' = [pc EXCEPT ![w] = l] /\ pc'[w] = l
  BY <1>4 DEF Moves, queueVars, JobSide, callVars, OInv, IInv, SlotsInv, Types, WorkerTypeOK
<1>6. ASSUME NEW j \in Jobs PROVE EventsPaid(j)'
  <2>1. EventsPaid(j) /\ EventsOf(j)' = EventsOf(j)
    BY <1>5 DEF EventsInv, EventsOf, EventsAs
  <2>2. CASE j = JobIn(w)
    <3>1. Paid(j) = (IF pc[w] = "fail" THEN 1 ELSE 0) /\ Kept(j) = 0 /\ Room(j)' = Room(j)
      BY <1>1, <1>2, <1>5, <2>2, AtHand DEF OInv, IInv, Room, Held
    <3>2. /\ Paid(j)' = IF l \in {"fail", "nack", "ack"} THEN 1 ELSE 0
          /\ Kept(j)' \in {0, 1}
      BY <1>1, <1>2, <1>5, <2>2, AtHand DEF OInv, IInv, Kept
    <3>3. /\ retryCount'[j] <= retryCount[j] + (Paid(j)' - Paid(j))
          /\ retryCount[j] <= retryCount'[j] /\ retryCount'[j] \in Nat
      BY <1>2, <1>3, <1>4, <2>2, <3>1, <3>2
    <3>4. ~BudgetUsed(j)' => ~BudgetUsed(j)
      BY <1>2, <1>3, <3>3, Numbers DEF BudgetUsed
    <3>5. /\ 0 + retryCount'[j] + retried[FirstTask[j]] + Paid(j) + Room(j)
               <= retryCount[j] + retried'[FirstTask[j]] + Paid(j)' + Room(j)'
          /\ 0 + Kept(j) + Room(j) <= Kept(j)' + Room(j)'
          /\ retried'[FirstTask[j]] <= details[j].max
      BY <1>5, <2>1, <3>1, <3>2, <3>3, Numbers DEF EventsPaid
    <3> QED BY <1>3, <2>1, <3>4, <3>5, BooksKept
  <2>3. CASE j # JobIn(w)
    <3>1. hand[w] # FirstTask[j]
      BY <1>1, <2>3, FirstInHand
    <3>2. retryCount'[j] = retryCount[j]
      BY <1>2, <1>3, <2>3
    <3> QED BY <1>3, <1>5, <2>1, <3>1, <3>2, OtherBooks
            DEF OInv, IInv, SlotsInv, Types, WorkerTypeOK
  <2> QED BY <2>2, <2>3
<1> QED BY <1>6 DEF EventsInv

(* dispatch.go: the attempt in slot w calls the dispatcher *)
LEMMA TellBooks ==
  ASSUME OInv, OInv', CallTypes, CallsInv, EventsInv, NEW w \in Slots, Tell(w)
  PROVE  EventsInv'
<1>1. PICK e \in Events : /\ dispatch[e] = "due"
                          /\ call' = [call EXCEPT ![w] = e]
                          /\ about' = [about EXCEPT ![e] = News(w)]
  BY DEF Tell, News, W!DispatchJobEvent
<1>2. /\ pc[w] = "tell" /\ call[w] = NoEvent
      /\ UNCHANGED <<pc, hand, task, retried, retryCount, details, server, downs>>
      /\ JobIn(w) \in Jobs /\ hand[w] = FirstTask[JobIn(w)]
  BY FirstInHand DEF Tell, jobVars, repoVars, queueVars, W!DispatchJobEvent, W!Idling
<1>3. /\ about[e] = NoNews /\ e # NoEvent /\ about \in [Events -> AllNews \cup {NoNews}]
      /\ \A f \in Events : about'[f] = IF f = e THEN News(w) ELSE about[f]
  BY <1>1, NotificationAssumption DEF CallsInv, Fresh
<1>5. /\ News(w).job = JobIn(w) /\ News(w) = [job |-> JobIn(w), status |-> local[w].status]
      /\ local[w].status \in {"done", "dead"}
      /\ \A j \in Jobs, s \in {"done", "dead"} : [job |-> j, status |-> s] # NoNews
  BY <1>2, NotificationAssumption DEF News, OInv, IInv, SlotsInv, Verdict
<1>4. ASSUME NEW j \in Jobs PROVE EventsPaid(j)'
  <2>1. EventsPaid(j)
    BY DEF EventsInv
  <2>2. CASE j = JobIn(w)
    <3>1. EventsOf(j)' = EventsOf(j) \cup {e}
      BY <1>3, <1>5, <2>2 DEF EventsOf, EventsAs
    <3>2. /\ Paid(j) = 0 /\ Kept(j) = 0
          /\ Paid(j)' = IF call'[w] # NoEvent THEN 1 ELSE 0
          /\ Kept(j)' = IF call'[w] # NoEvent THEN 1 ELSE 0
      BY <1>2, <2>2, AtHand DEF OInv, IInv
    <3>3. (Paid(j)' = 1 /\ Kept(j)' = 1) \/ call'[w] = NoEvent
      BY <3>2
    <3>4. Room(j)' = Room(j) /\ (BudgetUsed(j)' <=> BudgetUsed(j))
      BY <1>2 DEF Room, Held, BudgetUsed
    <3>5. CASE call'[w] = e
      <4>1. /\ 1 + retryCount'[j] + retried[FirstTask[j]] + Paid(j) + Room(j)
                 <= retryCount[j] + retried'[FirstTask[j]] + Paid(j)' + Room(j)'
            /\ 1 + Kept(j) + Room(j) <= Kept(j)' + Room(j)'
            /\ retried'[FirstTask[j]] <= details[j].max
        BY <1>2, <1>3, <2>1, <3>2, <3>4, <3>5, Numbers DEF EventsPaid
      <4>2. \E f \in Events : EventsOf(j)' = EventsOf(j) \cup {f}
        BY <3>1
      <4> QED BY <1>2, <2>1, <3>4, <4>1, <4>2, BooksKept
    <3> QED BY <1>1, <3>5 DEF CallTypes
  <2>3. CASE j # JobIn(w)
    <3>1. EventsOf(j)' = EventsOf(j)
      BY <1>3, <1>5, <2>3 DEF EventsOf, EventsAs
    <3>2. hand[w] # FirstTask[j]
      BY <1>2, <2>3, FirstInHand
    <3>3. \A v \in Slots : v # w => call'[v] = call[v]
      BY <1>1
    <3> QED BY <1>2, <2>1, <3>1, <3>2, <3>3, OtherBooks
  <2> QED BY <2>2, <2>3
<1> QED BY <1>4 DEF EventsInv

(* ... and is told that it has returned. *)
LEMMA ToldBooks ==
  ASSUME OInv, OInv', CallsInv, EventsInv, NEW w \in Slots, Told(w)
  PROVE  EventsInv'
<1>1. /\ pc[w] = "tell" /\ call[w] # NoEvent /\ Sound(w)
      /\ local[w].status \in {"done", "dead"}
      /\ call' = [call EXCEPT ![w] = NoEvent]
      /\ UNCHANGED <<hand, about, task, retried, retryCount, details, server, downs>>
      /\ JobIn(w) \in Jobs /\ hand[w] = FirstTask[JobIn(w)]
  BY FirstInHand, KnownIsSound
  DEF Told, Dispatch, Process, queueVars, repoVars, OInv, AttemptsSound, IInv, SlotsInv,
      Verdict
<1>2. pc' = [pc EXCEPT ![w] = IF local[w].status = "done" THEN "ack" ELSE "nack"]
  BY DEF Told, Dispatch, Goto
<1>3. pc \in [Slots -> Labels]
  BY DEF OInv, IInv, SlotsInv, Types, WorkerTypeOK
<1>4. ASSUME NEW j \in Jobs PROVE EventsPaid(j)'
  <2>1. EventsPaid(j) /\ EventsOf(j)' = EventsOf(j)
    BY <1>1 DEF EventsInv, EventsOf, EventsAs
  <2>2. CASE j = JobIn(w)
    <3>1. /\ Paid(j) = 1 /\ Kept(j) = 1 /\ Paid(j)' = 1
          /\ local[w].status = "done" => Kept(j)' = 1
      BY <1>1, <1>2, <1>3, <2>2, AtHand DEF OInv, IInv
    <3>2. Room(j)' = Room(j) /\ (BudgetUsed(j)' <=> BudgetUsed(j))
      BY <1>1 DEF Room, Held, BudgetUsed
    <3>3. local[w].status # "done" => BudgetUsed(j)
      BY <1>1, <2>2 DEF Sound
    <3>4. /\ 0 + retryCount'[j] + retried[FirstTask[j]] + Paid(j) + Room(j)
               <= retryCount[j] + retried'[FirstTask[j]] + Paid(j)' + Room(j)'
          /\ local[w].status = "done" => 0 + Kept(j) + Room(j) <= Kept(j)' + Room(j)'
          /\ retried'[FirstTask[j]] <= details[j].max
      BY <1>1, <2>1, <3>1, <3>2, Numbers DEF EventsPaid
    <3> QED BY <1>1, <2>1, <3>2, <3>3, <3>4, BooksKept
  <2>3. CASE j # JobIn(w)
    <3>1. hand[w] # FirstTask[j]
      BY <1>1, <2>3, FirstInHand
    <3>2. \A v \in Slots : v # w => call'[v] = call[v] /\ pc'[v] = pc[v]
      BY <1>1, <1>2
    <3> QED BY <1>1, <2>1, <3>1, <3>2, OtherBooks
  <2> QED BY <2>2, <2>3
<1> QED BY <1>4 DEF EventsInv

(* processor.go: asynq takes an attempt's task back *)
LEMMA ReturnBooks ==
  ASSUME OInv, OInv', CallTypes, CallsInv, EventsInv, NEW w \in Slots,
         ((Ack(w) \/ Nack(w)) /\ JobSide) \/ AbortJob(w)
  PROVE  EventsInv'
<1>1. /\ pc[w] # "idle" /\ hand' = [hand EXCEPT ![w] = NoTask]
      /\ UNCHANGED <<about, retryCount, details, server, downs>>
      /\ \A v \in Slots : v # w => call'[v] = call[v] /\ pc'[v] = pc[v] /\ hand'[v] = hand[v]
      /\ JobIn(w) \in Jobs /\ hand[w] = FirstTask[JobIn(w)] /\ hand[w] \in Tasks
  <2>1. /\ pc[w] # "idle" /\ Free(w)
        /\ UNCHANGED <<about, retryCount, details, server, downs>>
        /\ call' = call \/ call' = [call EXCEPT ![w] = NoEvent]
    BY DEF Ack, Nack, Abort, AbortJob, JobSide, callVars, Process, repoVars
  <2>2. JobIn(w) \in Jobs /\ hand[w] = FirstTask[JobIn(w)] /\ hand[w] \in Tasks
    BY <2>1, FirstInHand, JobQueueAssumption
  <2> QED BY <2>1, <2>2
      DEF Free, Goto, CallTypes, OInv, IInv, SlotsInv, Types, WorkerTypeOK
<1>2. PICK s \in {"finished", "archived", "retry", "pending"} :
        /\ task' = [task EXCEPT ![hand[w]] = s]
        /\ s = "finished" => pc[w] = "ack"
        /\ s \in {"archived", "retry"} => pc[w] = "nack"
        /\ s = "pending" => server = "draining"
        /\ IF s = "retry" THEN /\ ~Exhausted(hand[w], MaxRetry(hand[w]))
                               /\ retried' = [retried EXCEPT ![hand[w]] = @ + 1]
                          ELSE retried' = retried
  <2>1. CASE Ack(w)
    BY <2>1 DEF Ack, DoneTask, Move
  <2>2. CASE Nack(w)
    BY <2>2 DEF Nack, FailTask, Move
  <2>3. CASE AbortJob(w)
    BY <2>3 DEF AbortJob, Abort, RequeueTask, Move
  <2> QED BY <2>1, <2>2, <2>3
<1>3. /\ task \in [Tasks -> TaskState] /\ retried \in [Tasks -> Nat]
      /\ hand \in [Slots -> Tasks \cup {NoTask}]
  BY DEF OInv, IInv, SlotsInv, Types, QueueTypeOK, WorkerTypeOK
<1>4. ASSUME NEW j \in Jobs PROVE EventsPaid(j)'
  <2>1. EventsPaid(j) /\ EventsOf(j)' = EventsOf(j)
    BY <1>1 DEF EventsInv, EventsOf, EventsAs
  <2>2. CASE j = JobIn(w)
    <3>1. FirstTask[j] \in Held /\ FirstTask[j] \notin Held'
      BY <1>1, <1>3, <2>2, FirstInHand, WorkerAssumption
      DEF Held, OInv, IInv, SlotsInv, Apart
    <3>2. /\ Paid(j) = IF pc[w] \in {"fail", "nack", "ack"} \/ call[w] # NoEvent THEN 1 ELSE 0
          /\ Kept(j) = IF pc[w] = "ack" \/ call[w] # NoEvent THEN 1 ELSE 0
      BY <1>1, <2>2, AtHand DEF OInv, IInv
    <3>3. /\ Paid(j)' = IF s \in {"archived", "finished"} THEN 1 ELSE 0
          /\ Kept(j)' = IF s = "finished" THEN 1 ELSE 0
      BY <1>1, <1>2, <1>3, <2>2, <3>1, AtRest
    <3>4. /\ BudgetUsed(j)' <=> BudgetUsed(j)
          /\ s = "pending" => Room(j)' = Room(j) + 1
          /\ s # "pending" => Room(j)' >= Room(j)
      BY <1>1, <1>2, <3>1, Numbers DEF Room, BudgetUsed
    <3>5. /\ s = "retry" => /\ retried[FirstTask[j]] < details[j].max
                            /\ retried'[FirstTask[j]] = retried[FirstTask[j]] + 1
          /\ s # "retry" => retried'[FirstTask[j]] = retried[FirstTask[j]]
      BY <1>1, <1>2, <1>3, <2>2, Numbers DEF Exhausted, MaxRetry, JobIn
    <3>6. s \in {"finished", "archived", "retry"} => call[w] = NoEvent
      BY <1>2 DEF CallsInv, Called
    <3>7. Kept(j) \in {0, 1} /\ Room(j)' \in Int
      BY <1>1, <1>2, <3>4, Numbers DEF Room
    <3>8. /\ 0 + retryCount'[j] + retried[FirstTask[j]] + Paid(j) + Room(j)
               <= retryCount[j] + retried'[FirstTask[j]] + Paid(j)' + Room(j)'
          /\ 0 + Kept(j) + Room(j) <= Kept(j)' + Room(j)'
          /\ retried'[FirstTask[j]] <= details[j].max
      BY <1>1, <1>2, <2>1, <3>2, <3>3, <3>4, <3>5, <3>6, <3>7, Numbers DEF EventsPaid
    <3> QED BY <1>1, <2>1, <3>4, <3>8, BooksKept
  <2>3. CASE j # JobIn(w)
    <3>1. /\ hand[w] # FirstTask[j] /\ hand'[w] # FirstTask[j] /\ FirstTask[j] \in Tasks
      BY <1>1, <1>3, <2>3, FirstInHand, JobQueueAssumption, WorkerAssumption
    <3>2. /\ task'[FirstTask[j]] = task[FirstTask[j]]
          /\ retried'[FirstTask[j]] = retried[FirstTask[j]]
      BY <1>2, <1>3, <3>1
    <3> QED BY <1>1, <2>1, <3>1, <3>2, OtherBooks
  <2> QED BY <2>2, <2>3
<1> QED BY <1>4 DEF EventsInv

(* processor.go: a slot takes a task *)
LEMMA StartBooks ==
  ASSUME OInv, OInv', CallsInv, EventsInv, NEW w \in Slots, StartJob(w)
  PROVE  EventsInv'
<1>1. PICK t \in Tasks : Dequeue(w, t)
  BY DEF StartJob
<1>2. /\ UNCHANGED <<about, call, retryCount, details, retried, server, downs>>
      /\ pc[w] = "idle" /\ call[w] = NoEvent /\ hand[w] = NoTask /\ server = "up"
      /\ task[t] = "pending" /\ task' = [task EXCEPT ![t] = "active"]
      /\ hand' = [hand EXCEPT ![w] = t] /\ pc' = [pc EXCEPT ![w] = "fetch"]
  BY <1>1
  DEF StartJob, Dequeue, DequeueTask, Move, Goto, Process, JobSide, callVars, repoVars,
      CallsInv, Called, OInv, IInv, SlotsInv, Holding
<1>3. /\ task \in [Tasks -> TaskState] /\ hand \in [Slots -> Tasks \cup {NoTask}]
      /\ pc \in [Slots -> Labels]
  BY DEF OInv, IInv, SlotsInv, Types, QueueTypeOK, WorkerTypeOK
<1>4. hand'[w] = t /\ pc'[w] = "fetch" /\ t = FirstTask[JobOf[t]]
  BY <1>2, <1>3 DEF OInv, IInv, AccountsInv, OneTaskPerJob
<1>5. ASSUME NEW j \in Jobs PROVE EventsPaid(j)'
  <2>1. EventsPaid(j) /\ EventsOf(j)' = EventsOf(j)
    BY <1>2 DEF EventsInv, EventsOf, EventsAs
  <2>2. CASE t = FirstTask[j]
    <3>1. t \notin Held
      BY <1>2, WorkerAssumption DEF Held, OInv, IInv, SlotsInv, Holding
    <3>2. /\ Paid(j) = 0 /\ Kept(j) = 0 /\ Paid(j)' = 0 /\ Kept(j)' = 0
      BY <1>2, <1>4, <2>2, <3>1, AtRest, AtHand DEF OInv, IInv
    <3>3. Room(j)' = Room(j) /\ (BudgetUsed(j)' <=> BudgetUsed(j))
      BY <1>2 DEF Room, BudgetUsed
    <3> QED BY <1>2, <2>1, <3>2, <3>3, BooksKept, Numbers DEF EventsPaid
  <2>3. CASE t # FirstTask[j]
    <3>1. /\ hand[w] # FirstTask[j] /\ hand'[w] # FirstTask[j] /\ FirstTask[j] \in Tasks
      BY <1>2, <1>4, <2>3, JobQueueAssumption, WorkerAssumption
    <3>2. task'[FirstTask[j]] = task[FirstTask[j]]
      BY <1>2, <1>3, <2>3
    <3>3. \A v \in Slots : v # w => pc'[v] = pc[v] /\ hand'[v] = hand[v]
      BY <1>2, <1>3
    <3> QED BY <1>2, <2>1, <3>1, <3>2, <3>3, OtherBooks
  <2> QED BY <2>2, <2>3
<1> QED BY <1>5 DEF EventsInv

(* processor.go: the forwarder and the recoverer; main.go: a stop, a start *)
LEMMA BesidesBooks ==
  ASSUME OInv, OInv', CallsInv, EventsInv, Besides
  PROVE  EventsInv'
<1>1. /\ UNCHANGED <<about, call, retryCount, details, pc, hand>>
      /\ Held' = Held
  BY BesidesSides
  DEF Besides, JobSide, callVars, Queue, Tick, StopAll, RestartAll, WorkerForward, Forward,
      Recover, Clock, TimePasses, Stop, Restart, repoVars, Held
<1>2. /\ task \in [Tasks -> TaskState] /\ retried \in [Tasks -> Nat]
  BY DEF OInv, IInv, SlotsInv, Types, QueueTypeOK
<1>3. ASSUME NEW j \in Jobs PROVE EventsPaid(j)'
  <2>1. EventsPaid(j) /\ EventsOf(j)' = EventsOf(j) /\ (BudgetUsed(j)' <=> BudgetUsed(j))
    BY <1>1 DEF EventsInv, EventsOf, EventsAs, BudgetUsed
  <2>2. CASE \E t \in Tasks : Queue(t)
    <3>1. PICK t \in Tasks : Queue(t)
      BY <2>2
    <3>2. UNCHANGED <<server, downs>>
      BY <3>1 DEF Queue, WorkerForward, Recover, workerVars
    <3>3. CASE t # FirstTask[j]
      <4>1. /\ task'[FirstTask[j]] = task[FirstTask[j]]
            /\ retried'[FirstTask[j]] = retried[FirstTask[j]]
        BY <1>2, <3>1, <3>3, JobQueueAssumption
        DEF Queue, WorkerForward, Forward, ForwardTask, Recover, FailTask, Move
      <4> QED BY <1>1, <2>1, <3>2, <4>1, BooksShut
    <3>4. CASE t = FirstTask[j]
      <4>1. t \notin Held
        BY <3>1, WorkerAssumption
        DEF Queue, WorkerForward, Forward, ForwardTask, Recover, Held, OInv, IInv, SlotsInv,
            Holding
      <4>2. Room(j)' = Room(j)
        BY <1>1, <3>2 DEF Room
      <4>3. \/ /\ task[t] \in {"scheduled", "retry"} /\ task'[t] = "pending"
               /\ retried'[t] = retried[t]
            \/ /\ task[t] = "active" /\ task'[t] = "archived" /\ retried'[t] = retried[t]
            \/ /\ task[t] = "active" /\ task'[t] = "retry"
               /\ retried[t] < details[j].max /\ retried'[t] = retried[t] + 1
        BY <1>2, <3>1, <3>4, JobQueueAssumption, Numbers
        DEF Queue, WorkerForward, Forward, ForwardTask, Recover, FailTask, Move, Exhausted,
            MaxRetry
      <4>4. /\ Paid(j) = IF task[t] \in {"archived", "finished", "active"} THEN 1 ELSE 0
            /\ Kept(j) = 0 /\ Kept(j)' = 0
            /\ Paid(j)' = IF task'[t] \in {"archived", "finished", "active"} THEN 1 ELSE 0
        BY <1>1, <3>4, <4>1, <4>3, AtRest
      <4>5. /\ 0 + retryCount'[j] + retried[t] + Paid(j) + Room(j)
                 <= retryCount[j] + retried'[t] + Paid(j)' + Room(j)'
            /\ retried'[t] <= details[j].max
        BY <1>1, <2>1, <3>4, <4>2, <4>3, <4>4, Numbers DEF EventsPaid
      <4>6. 0 + Kept(j) + Room(j) <= Kept(j)' + Room(j)'
        BY <4>2, <4>4, Numbers
      <4> QED BY <1>1, <2>1, <3>4, <4>5, <4>6, BooksKept
    <3> QED BY <3>3, <3>4
  <2>3. CASE \E k \in Jobs : Tick(k)
    <3>1. UNCHANGED <<task, retried, server, downs>>
      BY <2>3 DEF Tick, Clock, TimePasses, queueVars, workerVars
    <3> QED BY <1>1, <2>1, <3>1, BooksShut
  <2>4. CASE StopAll \/ RestartAll
    <3>1. UNCHANGED <<task, retried>> /\ Room(j)' >= Room(j)
      BY <1>1, <2>4, Numbers DEF StopAll, RestartAll, Stop, Restart, Room, queueVars
    <3>2. Paid(j)' = Paid(j) /\ Kept(j)' = Kept(j) /\ Room(j)' \in Int
      BY <1>1, <2>4, <3>1, Numbers DEF Paid, Kept, Room, StopAll, RestartAll, Stop, Restart
    <3>3. /\ 0 + retryCount'[j] + retried[FirstTask[j]] + Paid(j) + Room(j)
               <= retryCount[j] + retried'[FirstTask[j]] + Paid(j)' + Room(j)'
          /\ 0 + Kept(j) + Room(j) <= Kept(j)' + Room(j)'
          /\ retried'[FirstTask[j]] <= details[j].max
      BY <1>1, <2>1, <3>1, <3>2, Numbers DEF EventsPaid
    <3> QED BY <1>1, <2>1, <3>3, BooksKept
  <2> QED BY <2>2, <2>3, <2>4 DEF Besides
<1> QED BY <1>3 DEF EventsInv

(* main.go: the process ends, and the attempts in its slots with it *)
LEMMA EndBooks ==
  ASSUME OInv, OInv', CallsInv, EventsInv, Ends
  PROVE  EventsInv'
<1>1. /\ UNCHANGED <<about, retryCount, details, task, retried>>
      /\ server' = "down" /\ server # "down"
      /\ \/ downs' = downs - 1
         \/ downs' = downs /\ server = "draining"
      /\ Held' = {} /\ (CleanExit => Held = {})
  BY WorkerAssumption
  DEF Ends, CrashAll, ForcedExit, CleanExit, Cut, Crash, ForceExit, Exit, Die, Held,
      repoVars, queueVars, OInv, IInv, SlotsInv, Holding
<1>2. ASSUME NEW j \in Jobs PROVE EventsPaid(j)'
  <2>1. EventsPaid(j) /\ EventsOf(j)' = EventsOf(j) /\ (BudgetUsed(j)' <=> BudgetUsed(j))
    BY <1>1 DEF EventsInv, EventsOf, EventsAs, BudgetUsed
  <2>2. /\ Paid(j)' = IF task[FirstTask[j]] \in {"archived", "finished", "active"} THEN 1 ELSE 0
        /\ Kept(j)' = IF task[FirstTask[j]] = "finished" THEN 1 ELSE 0
    BY <1>1, AtRest
  <2>3. Room(j)' \in Int /\ Kept(j)' \in {0, 1}
    BY <1>1, <2>2, Numbers DEF Room
  <2>4. /\ Paid(j) + Room(j) <= Paid(j)' + Room(j)'
        /\ Kept(j) + Room(j) <= Kept(j)' + Room(j)'
    <3>1. CASE FirstTask[j] \in Held
      <4>1. task[FirstTask[j]] = "active"
        BY <3>1 DEF Held, OInv, IInv, SlotsInv, Holding
      <4>2. Paid(j)' = 1 /\ Room(j)' >= Room(j) + 1
        BY <1>1, <2>2, <3>1, <4>1, Numbers DEF Room
      <4> QED BY <2>3, <4>2, Numbers
    <3>2. CASE FirstTask[j] \notin Held
      <4>1. Paid(j)' = Paid(j) /\ Kept(j)' = Kept(j) /\ Room(j)' >= Room(j)
        BY <1>1, <2>2, <3>2, AtRest, Numbers DEF Room
      <4> QED BY <2>3, <4>1, Numbers
    <3> QED BY <3>1, <3>2
  <2>5. /\ 0 + retryCount'[j] + retried[FirstTask[j]] + Paid(j) + Room(j)
             <= retryCount[j] + retried'[FirstTask[j]] + Paid(j)' + Room(j)'
        /\ 0 + Kept(j) + Room(j) <= Kept(j)' + Room(j)'
        /\ retried'[FirstTask[j]] <= details[j].max
    BY <1>1, <2>1, <2>2, <2>3, <2>4, Numbers DEF EventsPaid
  <2> QED BY <1>1, <2>1, <2>5, BooksKept
<1> QED BY <1>2 DEF EventsInv

LEMMA EventsInvStep ==
  ASSUME OInv, OInv', CallTypes, CallsInv, EventsInv, [NotificationNext]_notificationVars
  PROVE  EventsInv'
<1>1. ASSUME NEW w \in Slots, Handler(w), ~Dispatch(w), JobSide PROVE EventsInv'
  BY <1>1, AttemptBooks, ReturnBooks DEF Handler
<1>2. ASSUME NEW w \in Slots, StartJob(w) \/ Tell(w) \/ Told(w) \/ AbortJob(w)
      PROVE  EventsInv'
  BY <1>2, StartBooks, TellBooks, ToldBooks, ReturnBooks
<1>3. CASE (\E e \in Events : FanOut(e)) \/ Elsewhere \/ UNCHANGED notificationVars
  <2>1. UNCHANGED <<jobVars, callVars, server>>
    BY <1>3, ElsewhereSides
    DEF FanOut, DeliverySide, W!ListHooks, W!PushDelivery, W!Idling, notificationVars
  <2>2. UNCHANGED <<about, call, retryCount, details, task, retried, pc, hand, server, downs>>
    BY <2>1 DEF jobVars, callVars, repoVars, queueVars
  <2>3. ASSUME NEW j \in Jobs PROVE EventsPaid(j)'
    <3>1. EventsPaid(j) /\ EventsOf(j)' = EventsOf(j)
      BY <2>2 DEF EventsInv, EventsOf, EventsAs
    <3> QED BY <2>2, <3>1, BooksShut
  <2> QED BY <2>3 DEF EventsInv
<1> QED BY <1>1, <1>2, <1>3, BesidesBooks, EndBooks, StepKinds

LEMMA EventsInvStart == NotificationInit => EventsInv
<1> SUFFICES ASSUME NotificationInit, NEW j \in Jobs PROVE EventsPaid(j)
  BY DEF EventsInv
<1>1. EventsOf(j) = {}
  BY NotificationAssumption DEF NotificationInit, EventsOf, EventsAs
<1>2. OInv
  BY InitSound DEF NotificationInit
<1>3. /\ retryCount[j] = 0 /\ retried[FirstTask[j]] = 0
      /\ server = "up" /\ downs = MaxDowns
  BY JobQueueAssumption DEF NotificationInit, Init, WorkerInit
<1>4. Room(j) = 0
  BY <1>3, WorkerAssumption DEF Room
<1>5. IsFiniteSet(EventsOf(j)) /\ Sent(j) = 0
  BY <1>1, FS_EmptySet DEF Sent
<1> QED BY <1>2, <1>3, <1>4, <1>5, Numbers DEF EventsPaid

LEMMA EventsInvHolds == NotificationSpec => []EventsInv
<1>1. ASSUME Sides, Sides', CallsInv, EventsInv, [NotificationNext]_notificationVars
      PROVE  EventsInv'
  BY <1>1, EventsInvStep DEF Sides
<1> QED BY <1>1, EventsInvStart, CallsInvHolds, PTL DEF NotificationSpec

(* base.go, dispatch.go: whatever stops, crashes and write faults there are,
   and however often asynq retries, the events of one job are two at most,
   and one more for each stop or crash.                                    *)
THEOREM FewEventsPerJob == NotificationSpec => []EventsAccounted
<1>1. OInv /\ EventsInv => EventsAccounted
  <2> SUFFICES ASSUME OInv, EventsInv, NEW j \in Jobs
               PROVE  Cardinality(EventsOf(j)) <= 2 + (MaxDowns - downs)
    BY DEF EventsAccounted
  <2>1. EventsPaid(j) /\ Sent(j) \in Nat
    BY FS_CardinalityType DEF EventsInv, EventsPaid, Sent
  <2>2. Room(j) <= MaxDowns - downs
    BY Numbers DEF Room
  <2>3. Sent(j) <= 2 + Room(j)
    BY <2>1, Numbers DEF EventsPaid, BudgetUsed
  <2> QED BY <2>1, <2>2, <2>3, Numbers DEF Sent
<1>2. Sides => OInv
  BY DEF Sides
<1> QED BY <1>1, <1>2, EventsInvHolds, CallsInvHolds, PTL

-----------------------------------------------------------------------------
(* Every webhook of the owner of e has its delivery, is gone, or is in hs. *)
Reached(e, hs) ==
  \A h \in Hooks : HookUser[h] = EventUser[e] =>
     hook[h] = "deleted" \/ delivery[<<e, h>>] # "new" \/ h \in hs

(* While no call of the delivery side has failed, a fan-out that an attempt waits
   for has listed the webhooks and missed none so far ...                   *)
Reaching == \A w \in Slots :
  call[w] # NoEvent /\ dispatch[call[w]] # "list" =>
    dispatch[call[w]] # "unlisted" /\ Reached(call[w], todo[call[w]])

(* ... and whatever was announced of a job, an event that says so has reached
   its owner's webhooks.                                                    *)
InformedAs(j, s) == \E e \in EventsAs(j, s) :
  EventUser[e] = Owner[j] /\ dispatch[e] = "returned" /\ Reached(e, {})
Informed(j) == \A s \in announced[j] : InformedAs(j, s)

ToldInv == /\ \A h \in Hooks : hook[h] # "absent"
           /\ faults = MaxFaults => Reaching /\ \A j \in Jobs : Informed(j)

(* The same after a step. *)
ReachedNow(e, hs) ==
  \A h \in Hooks : HookUser[h] = EventUser[e] =>
     hook'[h] = "deleted" \/ delivery'[<<e, h>>] # "new" \/ h \in hs

LEMMA ReachingNow ==
  ASSUME \A w \in Slots : call'[w] # NoEvent /\ dispatch'[call'[w]] # "list"
                           => /\ dispatch'[call'[w]] # "unlisted"
                              /\ ReachedNow(call'[w], todo'[call'[w]])
  PROVE  Reaching'
BY DEF ReachedNow, Reaching, Reached

(* What the owner's webhooks were told stays told. *)
LEMMA ReachedLasts ==
  ASSUME DP!Lasting, NEW e \in Events, NEW hs, Reached(e, hs)
  PROVE  ReachedNow(e, hs)
<1>1. \A h \in Hooks : <<e, h>> \in Events \X Hooks
  OBVIOUS
<1> QED BY <1>1 DEF DP!Lasting, Reached, ReachedNow

LEMMA InformedAsLasts ==
  ASSUME DP!Lasting, CallsInv, NEW j \in Jobs, NEW s, InformedAs(j, s),
         \/ about' = about
         \/ \E e \in Events : dispatch[e] = "due" /\ \E k : about' = [about EXCEPT ![e] = k]
  PROVE  InformedAs(j, s)'
<1>1. PICK e \in EventsAs(j, s) : /\ EventUser[e] = Owner[j] /\ dispatch[e] = "returned"
                                  /\ Reached(e, {})
  BY DEF InformedAs
<1>2. about'[e] = about[e] /\ e \in Events
  BY <1>1 DEF EventsAs, CallsInv, Fresh
<1>3. dispatch'[e] = "returned" /\ ReachedNow(e, {})
  BY <1>1, <1>2, ReachedLasts DEF DP!Lasting
<1> QED BY <1>1, <1>2, <1>3 DEF InformedAs, EventsAs, Reached, ReachedNow

LEMMA InformedLasts ==
  ASSUME DP!Lasting, CallsInv, NEW j \in Jobs, Informed(j), announced'[j] = announced[j],
         \/ about' = about
         \/ \E e \in Events : dispatch[e] = "due" /\ \E k : about' = [about EXCEPT ![e] = k]
  PROVE  Informed(j)'
<1>1. \A s \in announced[j] : InformedAs(j, s)'
  BY InformedAsLasts DEF Informed
<1> QED BY <1>1 DEF Informed

(* A step of the worker during which no call changes and no fan-out moves. *)
LEMMA ReachingLasts ==
  ASSUME DP!Lasting, CallTypes, Reaching, UNCHANGED <<dispatch, todo>>,
         \A w \in Slots : call'[w] = call[w] \/ call'[w] = NoEvent
  PROVE  Reaching'
<1> SUFFICES ASSUME NEW w \in Slots, call'[w] # NoEvent, dispatch'[call'[w]] # "list"
             PROVE  /\ dispatch'[call'[w]] # "unlisted"
                    /\ ReachedNow(call'[w], todo'[call'[w]])
  BY ReachingNow
<1>1. call'[w] = call[w] /\ call[w] \in Events
  BY DEF CallTypes
<1>2. dispatch[call[w]] # "unlisted" /\ Reached(call[w], todo[call[w]])
  BY <1>1 DEF Reaching
<1> QED BY <1>1, <1>2, ReachedLasts

(* dispatch.go: DispatchJobEvent starts, or has nobody to tell *)
LEMMA TellReaching ==
  ASSUME Sides, CallsInv, DP!Lasting, Reaching, NEW w \in Slots, Tell(w)
  PROVE  Reaching'
<1>1. PICK e \in Events :
        /\ dispatch[e] = "due" /\ todo' = todo
        /\ call' = [call EXCEPT ![w] = e]
        /\ dispatch' = [dispatch EXCEPT ![e] =
                          IF EventUser[e] = NoUser THEN "returned" ELSE "list"]
  BY DEF Tell, W!DispatchJobEvent
<1>2. /\ call \in [Slots -> Events \cup {NoEvent}]
      /\ dispatch \in [Events -> {"due", "list", "push", "returned", "unlisted", "cut"}]
  BY DEF Sides, CallTypes, DP!DInv, DP!TypeOK
<1>3. ASSUME NEW v \in Slots, call'[v] # NoEvent, dispatch'[call'[v]] # "list"
      PROVE  dispatch'[call'[v]] # "unlisted" /\ ReachedNow(call'[v], todo'[call'[v]])
  <2>1. CASE v = w
    <3>1. call'[v] = e /\ EventUser[e] = NoUser /\ dispatch'[e] = "returned"
      BY <1>1, <1>2, <1>3, <2>1
    <3> QED BY <3>1, DeliverySideAssumption DEF ReachedNow, W!DeliveryAssumption
  <2>2. CASE v # w
    <3>1. call'[v] = call[v] /\ call[v] \in Events /\ call[v] # e
      BY <1>1, <1>2, <1>3, <2>2 DEF CallsInv, Called
    <3>2. dispatch[call[v]] # "unlisted" /\ Reached(call[v], todo[call[v]])
      BY <1>1, <1>2, <1>3, <3>1 DEF Reaching
    <3> QED BY <1>1, <1>2, <3>1, <3>2, ReachedLasts
  <2> QED BY <2>1, <2>2
<1> QED BY <1>3, ReachingNow

(* dispatch.go: the webhooks are listed, and their deliveries enqueued *)
LEMMA FanOutReaching ==
  ASSUME Sides, CallsInv, DP!Lasting, ToldInv, faults = MaxFaults, faults' = MaxFaults,
         NEW e \in Events, FanOut(e)
  PROVE  Reaching'
<1>1. /\ UNCHANGED <<call, hook>> /\ call \in [Slots -> Events \cup {NoEvent}]
      /\ dispatch \in [Events -> {"due", "list", "push", "returned", "unlisted", "cut"}]
      /\ todo \in [Events -> SUBSET Hooks] /\ delivery \in [Events \X Hooks -> W!TaskState]
      /\ hook \in [Hooks -> {"absent", "live", "deleted"}]
  BY DEF FanOut, DeliverySide, callVars, W!ListHooks, W!PushDelivery, W!Idling,
     W!registryVars, Sides, CallTypes, DP!DInv, DP!TypeOK, DP!QueueTypeOK, W!TaskState,
     DP!TaskState
<1>2. Reaching
  BY DEF ToldInv
<1>3. faults \in Nat
  BY DeliverySideAssumption DEF Sides, CallTypes
<1>4. /\ dispatch[e] \in {"list", "push"}
      /\ \A f \in Events : f # e => dispatch'[f] = dispatch[f] /\ todo'[f] = todo[f]
  BY <1>1 DEF FanOut, W!ListHooks, W!PushDelivery
<1>5. ASSUME NEW w \in Slots, call[w] # NoEvent, dispatch'[call[w]] # "list"
      PROVE  dispatch'[call[w]] # "unlisted" /\ ReachedNow(call[w], todo'[call[w]])
  <2>1. call[w] \in Events
    BY <1>1, <1>5
  <2>2. CASE call[w] # e
    <3>1. dispatch[call[w]] # "unlisted" /\ Reached(call[w], todo[call[w]])
      BY <1>2, <1>4, <1>5, <2>1, <2>2 DEF Reaching
    <3> QED BY <1>4, <2>1, <2>2, <3>1, ReachedLasts
  <2>3. CASE W!ListHooks(e)
    <3>1. /\ todo'[e] = {h \in Hooks : hook[h] = "live" /\ HookUser[h] = EventUser[e]}
          /\ dispatch'[e] # "unlisted"
      BY <1>1, <1>3, <2>3 DEF W!ListHooks, W!Fault, W!ListByUserID
    <3>2. \A h \in Hooks : hook[h] \in {"live", "deleted"}
      BY <1>1 DEF ToldInv
    <3>3. ReachedNow(e, todo'[e])
      BY <1>1, <3>1, <3>2 DEF ReachedNow
    <3> QED BY <2>1, <2>2, <3>1, <3>3
  <2>4. ASSUME NEW h \in Hooks, W!PushDelivery(e, h), call[w] = e
        PROVE  dispatch'[e] # "unlisted" /\ ReachedNow(e, todo'[e])
    <3>1. /\ todo'[e] = todo[e] \ {h} /\ <<e, h>> \in Events \X Hooks
          /\ delivery'[<<e, h>>] = "pending"
          /\ dispatch[e] = "push" /\ dispatch'[e] # "unlisted"
      BY <1>1, <1>3, <2>4
      DEF W!PushDelivery, W!Fault, W!Remaining, W!EnqueueTask, W!Move
    <3>2. Reached(e, todo[e])
      BY <1>2, <1>5, <2>4, <3>1 DEF Reaching
    <3>3. ReachedNow(e, todo[e])
      BY <3>2, ReachedLasts
    <3> QED BY <3>1, <3>3 DEF ReachedNow
  <2> QED BY <2>1, <2>2, <2>3, <2>4 DEF FanOut
<1> QED BY <1>1, <1>5, ReachingNow

(* processor.go: an attempt is aborted, and the listing it waits for fails *)
LEMMA AbortReaching ==
  ASSUME Sides, CallsInv, DP!Lasting, Reaching, NEW w \in Slots, AbortJob(w)
  PROVE  Reaching'
<1>1. /\ call \in [Slots -> Events \cup {NoEvent}]
      /\ dispatch \in [Events -> {"due", "list", "push", "returned", "unlisted", "cut"}]
      /\ call' = [call EXCEPT ![w] = NoEvent] /\ todo' = todo /\ pc[w] # "idle"
      /\ \/ dispatch' = dispatch
         \/ /\ call[w] \in Events
            /\ dispatch' = [dispatch EXCEPT ![call[w]] = "cut"]
  BY DEF Sides, CallTypes, DP!DInv, DP!TypeOK, AbortJob, Abort, W!AbortDispatch, notifyVars
<1>2. ASSUME NEW v \in Slots, call'[v] # NoEvent, dispatch'[call'[v]] # "list"
      PROVE  dispatch'[call'[v]] # "unlisted" /\ ReachedNow(call'[v], todo'[call'[v]])
  <2>1. v # w /\ call'[v] = call[v] /\ call[v] \in Events
    BY <1>1, <1>2
  <2>2. call[v] # call[w]
    BY <2>1, <1>2, OwnCall
  <2>3. dispatch[call[v]] # "unlisted" /\ Reached(call[v], todo[call[v]])
    BY <1>1, <1>2, <2>1, <2>2 DEF Reaching
  <2> QED BY <1>1, <2>1, <2>2, <2>3, ReachedLasts
<1> QED BY <1>2, ReachingNow

(* webhook_repository.go: here webhooks are only deleted. *)
LEMMA HookMoves ==
  ASSUME [NotificationNext]_notificationVars
  PROVE  UNCHANGED hook \/ \E h \in Hooks : hook' = [hook EXCEPT ![h] = "deleted"]
<1>1. CASE \E w \in Slots : StartJob(w) \/ Work(w) \/ AbortJob(w)
  BY <1>1
  DEF StartJob, Work, Tell, Told, AbortJob, JobSide, notifyVars, W!DispatchJobEvent,
      W!AbortDispatch, W!Idling, W!registryVars
<1>2. CASE \/ \E e \in Events : FanOut(e)
           \/ \E t \in Events \X Hooks : StartDelivery(t) \/ DeliveryQueue(t)
           \/ \E s \in Senders : Deliver(s) \/ AbortDelivery(s)
           \/ \E h \in Hooks : Unsubscribe(h)
  BY <1>2
  DEF FanOut, StartDelivery, DeliveryQueue, Deliver, AbortDelivery, Unsubscribe,
      W!ListHooks, W!PushDelivery, W!Idling, W!Take, W!RetryDelivery, W!RecoverDelivery,
      W!Calm, W!deliveryVars, W!Delivering, W!Load, W!Send, W!Finish, W!AbortDelivery,
      W!Unregister, W!registryVars
<1>3. CASE \/ \E t \in Tasks : Queue(t)
           \/ \E j \in Jobs : Tick(j)
           \/ StopAll \/ CrashAll \/ ForcedExit \/ CleanExit \/ RestartAll
           \/ UNCHANGED notificationVars
  BY <1>3
  DEF Queue, Tick, StopAll, CrashAll, ForcedExit, CleanExit, RestartAll, Cut, W!Halt,
      W!registryVars, JobSide, notifyVars, notificationVars
<1> QED BY <1>1, <1>2, <1>3 DEF NotificationNext

LEMMA ToldStep ==
  ASSUME Sides, Sides', CallsInv, ToldInv, [NotificationNext]_notificationVars
  PROVE  ToldInv'
<1>1. DP!Lasting
  <2>1. downs \in Nat
    BY WorkerAssumption DEF Sides, OInv, IInv, SlotsInv, Types, WorkerTypeOK
  <2> QED BY <2>1, DeliveryStep, DP!StepsLast, SideAssumptions DEF Sides
<1>2. \A h \in Hooks : hook'[h] # "absent"
  <2>1. UNCHANGED hook \/ \E h \in Hooks : hook' = [hook EXCEPT ![h] = "deleted"]
    BY HookMoves
  <2> QED BY <2>1 DEF ToldInv, Sides, DP!DInv, DP!TypeOK
<1>3. ASSUME faults' = MaxFaults PROVE Reaching' /\ \A j \in Jobs : Informed(j)'
  <2>1. faults = MaxFaults /\ Reaching /\ \A j \in Jobs : Informed(j)
    BY <1>3, FaultsStep, FaultsLower, DeliverySideAssumption DEF Sides, CallTypes, ToldInv
  <2>2. ASSUME UNCHANGED announced, UNCHANGED about PROVE \A j \in Jobs : Informed(j)'
    BY <1>1, <2>1, <2>2, InformedLasts
  <2>3. ASSUME NEW w \in Slots, StartJob(w) \/ (Handler(w) /\ ~Dispatch(w) /\ JobSide)
        PROVE  Reaching' /\ \A j \in Jobs : Informed(j)'
    <3>1. UNCHANGED <<call, about, dispatch, todo, announced>>
      BY <2>3
      DEF StartJob, JobSide, callVars, notifyVars, Dequeue, Handler, PrepareFetch,
          PrepareMark, Run, Complete, Dead, Settle, FailCount, FailStatus, Ack, Nack
    <3> QED BY <1>1, <2>1, <2>2, <3>1, ReachingLasts DEF Sides
  <2>4. ASSUME NEW w \in Slots, Tell(w)
        PROVE  Reaching' /\ \A j \in Jobs : Informed(j)'
    <3>1. /\ announced' = announced
          /\ \E e \in Events : /\ dispatch[e] = "due"
                               /\ \E k : about' = [about EXCEPT ![e] = k]
      <4>1. PICK e \in Events : /\ dispatch[e] = "due"
                                /\ about' = [about EXCEPT ![e] = News(w)]
        BY <2>4 DEF Tell, News, W!DispatchJobEvent
      <4>2. announced' = announced
        BY <2>4 DEF Tell, jobVars
      <4> QED BY <4>1, <4>2
    <3>2. Reaching'
      BY <1>1, <2>1, <2>4, TellReaching
    <3>3. \A j \in Jobs : Informed(j)'
      BY <1>1, <2>1, <3>1, InformedLasts
    <3> QED BY <3>2, <3>3
  <2>5. ASSUME NEW w \in Slots, Told(w)
        PROVE  Reaching' /\ \A j \in Jobs : Informed(j)'
    <3>1. /\ UNCHANGED <<about, dispatch, todo, hook, delivery>>
          /\ call[w] # NoEvent /\ dispatch[call[w]] \in {"returned", "unlisted"}
          /\ call' = [call EXCEPT ![w] = NoEvent]
          /\ announced' = [announced EXCEPT ![JobIn(w)] = @ \cup {local[w].status}]
      BY <2>5 DEF Told, Dispatch, notifyVars
    <3>2. Reaching'
      BY <1>1, <2>1, <3>1, ReachingLasts DEF Sides, CallTypes
    <3>3. /\ call[w] \in Events /\ dispatch[call[w]] = "returned"
          /\ about[call[w]] = News(w) /\ EventUser[call[w]] = Owner[JobIn(w)]
          /\ todo[call[w]] = {} /\ Reached(call[w], todo[call[w]])
      BY <2>1, <3>1
      DEF Sides, CallTypes, CallsInv, Called, Reaching, DP!Counted, DP!Rested
    <3>4. ASSUME NEW j \in Jobs PROVE Informed(j)'
      <4>1. CASE j = JobIn(w)
        <5>1. PICK s : s = local[w].status
          OBVIOUS
        <5>2. /\ call[w] \in {e \in Events : about'[e] = [job |-> j, status |-> s]}
              /\ EventUser[call[w]] = Owner[j]
              /\ dispatch'[call[w]] = "returned" /\ ReachedNow(call[w], {})
          BY <1>1, <3>1, <3>3, <4>1, <5>1, ReachedLasts DEF News
        <5>3. \E e \in Events : /\ about'[e] = [job |-> j, status |-> s]
                               /\ EventUser[e] = Owner[j]
                               /\ dispatch'[e] = "returned" /\ ReachedNow(e, {})
          BY <5>2
        <5>4. InformedAs(j, s)'
          BY <5>3 DEF InformedAs, EventsAs, Reached, ReachedNow
        <5>5. announced'[j] = announced[j] \cup {s}
          BY <3>1, <4>1, <5>1 DEF Sides, OInv, IInv, SlotsInv, Types, WorkerTypeOK
        <5>6. \A r \in announced[j] : InformedAs(j, r)'
          BY <1>1, <2>1, <3>1, InformedAsLasts DEF Informed
        <5>7. \A r \in announced'[j] : InformedAs(j, r)'
          BY <5>4, <5>5, <5>6
        <5> QED BY <5>7 DEF Informed
      <4>2. CASE j # JobIn(w)
        <5>1. announced'[j] = announced[j]
          BY <3>1, <4>2 DEF Sides, OInv, IInv, SlotsInv, Types, WorkerTypeOK
        <5> QED BY <1>1, <2>1, <3>1, <5>1, InformedLasts
      <4> QED BY <4>1, <4>2
    <3> QED BY <3>2, <3>4
  <2>6. ASSUME NEW w \in Slots, AbortJob(w)
        PROVE  Reaching' /\ \A j \in Jobs : Informed(j)'
    <3>1. UNCHANGED <<about, announced>>
      BY <2>6 DEF AbortJob, Abort
    <3> QED BY <1>1, <2>1, <2>2, <2>6, <3>1, AbortReaching
  <2>7. ASSUME NEW e \in Events, FanOut(e)
        PROVE  Reaching' /\ \A j \in Jobs : Informed(j)'
    <3>1. UNCHANGED <<about, announced>>
      BY <2>7 DEF FanOut, DeliverySide, jobVars, callVars
    <3> QED BY <1>1, <1>3, <2>1, <2>2, <2>7, <3>1, FanOutReaching
  <2>8. CASE Elsewhere \/ Besides \/ UNCHANGED notificationVars
    <3>1. UNCHANGED <<call, about, dispatch, todo, announced>>
      BY <2>8, ElsewhereSides, BesidesSides
      DEF JobSide, jobVars, callVars, notifyVars, notificationVars
    <3> QED BY <1>1, <2>1, <2>2, <3>1, ReachingLasts DEF Sides
  <2>9. CASE Ends
    <3>1. UNCHANGED <<about, announced>> /\ call' = [w \in Slots |-> NoEvent]
      BY <2>9 DEF Ends, CrashAll, ForcedExit, CleanExit, Cut, Crash, ForceExit, Exit, Die
    <3>2. Reaching'
      BY <3>1, ReachingNow
    <3> QED BY <2>2, <3>1, <3>2
  <2> QED BY <2>3, <2>4, <2>5, <2>6, <2>7, <2>8, <2>9, StepKinds
<1> QED BY <1>2, <1>3 DEF ToldInv

LEMMA ToldInvHolds == NotificationSpec => []ToldInv
<1>1. NotificationInit => ToldInv
  BY DEF NotificationInit, Init, WorkerInit, ToldInv, Reaching, Informed
<1>2. ASSUME Sides, Sides', CallsInv, ToldInv, [NotificationNext]_notificationVars
      PROVE  ToldInv'
  BY <1>2, ToldStep
<1> QED BY <1>1, <1>2, CallsInvHolds, PTL DEF NotificationSpec

(* base.go to dispatch.go: a job that left the queue as finished has a delivery
   that says done for each webhook of its owner that was not deleted, and one
   that asynq gave up, with at most one attempt lost, a delivery that says dead,
   whatever stops, drains and aborts there were, one crash in the middle of a
   fan-out included, as long as no call the deliveries make of Postgres or Redis
   fails; for any number of jobs, webhooks and slots.                       *)
THEOREM OwnersEnqueued == NotificationSpec => []LeftToldAll
<1>1. OInv /\ ToldInv => LeftToldAll
  <2> SUFFICES ASSUME OInv, ToldInv, faults = MaxFaults, NEW j \in Jobs
               PROVE  /\ task[FirstTask[j]] = "finished" => AllTold(j, "done")
                      /\ task[FirstTask[j]] = "archived" /\ lost[FirstTask[j]] <= 1
                           => AllTold(j, "dead")
    BY DEF LeftToldAll
  <2>1. FirstTask[j] \in Tasks /\ JobOf[FirstTask[j]] = j
    BY JobQueueAssumption
  <2>2. /\ task[FirstTask[j]] = "finished" => "done" \in announced[j]
        /\ task[FirstTask[j]] = "archived" /\ lost[FirstTask[j]] <= 1
             => "dead" \in announced[j]
    BY <2>1, SilenceIsLoss DEF OInv, IInv, JobsInv, FinishedAnnounced, ExhaustedAnnounced
  <2>3. ASSUME NEW s \in announced[j] PROVE AllTold(j, s)
    <3>1. PICK e \in EventsAs(j, s) : EventUser[e] = Owner[j] /\ Reached(e, {})
      BY <2>3 DEF ToldInv, Informed, InformedAs
    <3> QED BY <3>1 DEF Reached, AllTold
  <2> QED BY <2>2, <2>3
<1>2. Sides => OInv
  BY DEF Sides
<1> QED BY <1>1, <1>2, ToldInvHolds, CallsInvHolds, PTL

-----------------------------------------------------------------------------
(* What was proved of each side alone holds of the whole process: an attempt
   keeps its promises although its handler waits for a fan-out and dies with
   the deliveries ...                                                        *)
THEOREM PromisesKept == NotificationSpec => KeepsPromises
BY WorkerKept, WorkerDelivers, PTL

(* ... and deliveries are as safe among attempts as on their own: finished only
   if taken, or their webhook is gone; a webhook that misses an event, or a whole
   event, only for a fault of its own unless the process ends; retried ever
   later; silent once their webhook is deleted.                              *)
THEOREM DeliveriesSafe ==
  NotificationSpec => /\ [](DP!FinishedWasTaken /\ DP!OneFaultOneLoss)
                      /\ []DP!RetriesSlowDown
                      /\ DP!DeletedStaysSilent
<1>1. DP!Spec => [](DP!FinishedWasTaken /\ DP!OneFaultOneLoss)
  <2>1. DP!Spec => []DP!FinishedWasTaken
    BY DP!NeverDroppedSilently, SideAssumptions
  <2>2. DP!Spec => []DP!OneFaultOneLoss
    BY DP!AFaultCostsOneLoss, SideAssumptions
  <2> QED BY <2>1, <2>2, PTL
<1>2. DP!Spec => []DP!RetriesSlowDown
  BY DP!RetriesBackOff, SideAssumptions
<1>3. DP!Spec => DP!DeletedStaysSilent
  BY DP!SilentOnceDeleted, SideAssumptions
<1> QED BY <1>1, <1>2, <1>3, DeliveriesFollowed, PTL
=============================================================================
