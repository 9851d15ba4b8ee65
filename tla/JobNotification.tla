--------------------------- MODULE JobNotification ---------------------------
(***************************************************************************)
(* From a job's attempt to the receivers of its owner, in one process:     *)
(* JobWorker with the call of the dispatcher taken apart into the steps    *)
(* of WebhookDelivery.  A handler at "tell" calls DispatchJobEvent and     *)
(* goes on when it has returned; deliveries are tasks of the same queue    *)
(* (kept in variables of their own here), for the same asynq goroutines,   *)
(* and end with the same process.                                          *)
(***************************************************************************)
EXTENDS JobWorker, FiniteSets

CONSTANTS Events, Hooks, Users, NoUser, EventUser, HookUser, HookUrls, Buildable,
          MaxFaults, Senders, Urls, NoUrl, Resolves, Replies, AllowPrivate,
          baseDelay, maxDelay, jitterMax, MaxDuration,  \* as in WebhookDelivery
          Concurrency,   \* asynq.Config.Concurrency
          Owner,         \* the UserID of a job, which its events carry
          NoEvent, NoNews

ASSUME NotificationAssumption ==
  /\ Concurrency \in Nat \ {0} /\ NoEvent \notin Events
  /\ NoNews \notin [job : Jobs, status : {"done", "dead"}]
  /\ Owner \in [Jobs -> Users \cup {NoUser}]

VARIABLES delivery, deliveryRetried,  \* the delivery tasks in the queue
          hook, url, dispatch, listed, todo, sender, carries, got, request,
          faults,                     \* as in WebhookDelivery
          call,          \* the call of the dispatcher each handler waits for
          about          \* what each event says: the job and its status

W == INSTANCE WebhookDelivery WITH
       Tasks <- Events \X Hooks, task <- delivery, retried <- deliveryRetried

(* What WebhookDelivery and the modules below it assume. *)
ASSUME DeliverySideAssumption ==
  W!DeliveryAssumption /\ W!SafeHttpAssumption /\ W!BackoffAssumption

jobVars    == <<repoVars, queueVars, due, pc, hand, local, downs, ran, announced, lost>>
callVars   == <<call, about>>
notifyVars == <<delivery, deliveryRetried, hook, url, dispatch, listed, todo, sender,
                carries, got, request, faults>>
notificationVars == <<jobVars, callVars, notifyVars, server>>

(* The jobs are queued and the webhooks of their owners registered. *)
NotificationInit ==
  /\ Init
  /\ W!Init /\ \A h \in Hooks : hook[h] = "live"
  /\ call = [w \in Slots |-> NoEvent]
  /\ about = [e \in Events |-> NoNews]

-----------------------------------------------------------------------------
PoolFree == Cardinality({w \in Slots : pc[w] # "idle"})
            + Cardinality({s \in Senders : sender[s] # "idle"}) < Concurrency

JobSide      == UNCHANGED <<callVars, notifyVars>>
DeliverySide == UNCHANGED <<jobVars, callVars>>

StartJob(w) == PoolFree /\ (\E t \in Tasks : Dequeue(w, t)) /\ JobSide

(* Complete and Dead call the dispatcher ... *)
Tell(w) == /\ pc[w] = "tell" /\ call[w] = NoEvent
           /\ \E e \in Events :
                /\ EventUser[e] = Owner[JobIn(w)]
                /\ \A f \in Events :
                     dispatch[f] = "due" /\ EventUser[f] = EventUser[e] => e <= f
                /\ W!DispatchJobEvent(e)
                /\ call' = [call EXCEPT ![w] = e]
                /\ about' = [about EXCEPT
                      ![e] = [job |-> JobIn(w), status |-> local[w].status]]
           /\ UNCHANGED jobVars

(* ... and return when it has. *)
Told(w) == /\ call[w] # NoEvent /\ dispatch[call[w]] \in {"returned", "unlisted"}
           /\ Dispatch(w)
           /\ call' = [call EXCEPT ![w] = NoEvent]
           /\ UNCHANGED <<about, notifyVars>>

Work(w) == \/ Handler(w) /\ ~Dispatch(w) /\ JobSide
           \/ Tell(w) \/ Told(w)

FanOut(e) == (W!ListHooks(e) \/ \E h \in Hooks : W!PushDelivery(e, h)) /\ DeliverySide

StartDelivery(t) == PoolFree /\ (\E s \in Senders : W!Take(s, t)) /\ DeliverySide
Deliver(s)       == W!Delivering(s) /\ DeliverySide

Queue(t) == (WorkerForward(t) \/ Recover(t)) /\ JobSide
DeliveryQueue(t) == (W!RetryDelivery(t) \/ W!RecoverDelivery(t)) /\ DeliverySide

Unsubscribe(h) == W!Unregister(h, HookUser[h]) /\ DeliverySide

(* The process: what happens to the jobs' side happens to the other side. *)
AbortJob(w) ==
  /\ Abort(w)
  /\ call' = [call EXCEPT ![w] = NoEvent]
  /\ UNCHANGED about
  /\ IF call[w] # NoEvent /\ dispatch[call[w]] = "list"
     THEN W!AbortDispatch(call[w]) ELSE UNCHANGED notifyVars

AbortDelivery(s) == W!AbortDelivery(s) /\ DeliverySide

(* The end of the process, for the calls and deliveries under way. *)
Cut == W!Halt /\ call' = [w \in Slots |-> NoEvent] /\ UNCHANGED <<about, faults>>

StopAll    == Stop /\ JobSide
CrashAll   == Crash /\ Cut
ForcedExit == ForceExit /\ Cut
CleanExit  == Exit /\ (\A s \in Senders : sender[s] = "idle") /\ Cut
RestartAll == Restart /\ JobSide

Tick(j) == Clock(j) /\ JobSide

NotificationNext ==
  \/ \E w \in Slots : StartJob(w) \/ Work(w) \/ AbortJob(w)
  \/ \E t \in Tasks : Queue(t)
  \/ \E e \in Events : FanOut(e)
  \/ \E t \in Events \X Hooks : StartDelivery(t) \/ DeliveryQueue(t)
  \/ \E s \in Senders : Deliver(s) \/ AbortDelivery(s)
  \/ \E h \in Hooks : Unsubscribe(h)
  \/ \E j \in Jobs : Tick(j)
  \/ StopAll \/ CrashAll \/ ForcedExit \/ CleanExit \/ RestartAll

(* As in JobWorker and WebhookDelivery; jobs and deliveries wait for the pool
   in one queue, and both are finite in number.                            *)
NotificationFairness ==
  /\ \A w \in Slots : WF_notificationVars(StartJob(w)) /\ WF_notificationVars(Work(w))
  /\ \A t \in Tasks : WF_notificationVars(Queue(t))
  /\ \A j \in Jobs : WF_notificationVars(Tick(j))
  /\ \A e \in Events : WF_notificationVars(FanOut(e))
  /\ \A t \in Events \X Hooks : /\ WF_notificationVars(StartDelivery(t))
                                /\ WF_notificationVars(DeliveryQueue(t))
  /\ \A s \in Senders : WF_notificationVars(Deliver(s))
  /\ WF_notificationVars(ForcedExit) /\ WF_notificationVars(RestartAll)

NotificationSpec == NotificationInit /\ [][NotificationNext]_notificationVars
NotificationFairSpec == NotificationSpec /\ NotificationFairness

-----------------------------------------------------------------------------
EventsAs(j, s) == {e \in Events : about[e] = [job |-> j, status |-> s]}
EventsOf(j)    == EventsAs(j, "done") \cup EventsAs(j, "dead")

(* Every webhook of j's owner that was not deleted has a delivery of the news. *)
AllTold(j, s) ==
  \A h \in Hooks : \/ HookUser[h] # Owner[j]
                   \/ hook[h] = "deleted"
                   \/ \E e \in EventsAs(j, s) : delivery[<<e, h>>] # "new"

(* dispatch.go, called by an attempt that may be cut short: as long as Postgres
   and Redis do not fail the deliveries, a job that left the queue as finished
   has told all of its owner's webhooks that it is done, and one that asynq gave
   up, that it is dead, unless two of its attempts were lost: whichever attempt
   got through the fan-out.  A job told dead which the attempt after that brings
   to done may still be given up, by a process that ends in the second fan-out;
   nothing is promised of that news.                                        *)
LeftToldAll ==
  faults = MaxFaults =>
    \A j \in Jobs :
       LET t == FirstTask[j] IN
       /\ task[t] = "finished" => AllTold(j, "done")
       /\ task[t] = "archived" /\ lost[t] <= 1 => AllTold(j, "dead")

(* base.go: an owner is told of one job once, once more by the attempt asynq
   makes of a dead job, and once more for each stop or crash, at most.      *)
EventsAccounted ==
  \A j \in Jobs : Cardinality(EventsOf(j)) <= 2 + (MaxDowns - downs)

(* The whole way: a job that was queued leaves the queue, and each receiver that
   takes requests gets the news it left with, done if it finished and dead if
   asynq gave it up; unless its webhook is deleted, two attempts of the job were
   lost, or a call that the deliveries make of Postgres or Redis failed.    *)
Heard(j, h, s) == \E e \in EventsAs(j, s) : <<<<e, h>>, TRUE>> \in got

OwnerHears ==
  \A j \in Jobs, h \in Hooks :
     HookUser[h] = Owner[j] /\ url[h] \in W!Taking \cup W!Relaying =>
     LET t == FirstTask[j] IN
     ([](lost[t] <= 1 /\ faults = MaxFaults)
        => <>(\/ task[t] = "finished" /\ (hook[h] = "deleted" \/ Heard(j, h, "done"))
              \/ task[t] = "archived" /\ (hook[h] = "deleted" \/ Heard(j, h, "dead"))))
=============================================================================
