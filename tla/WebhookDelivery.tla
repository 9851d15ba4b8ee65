--------------------------- MODULE WebhookDelivery ---------------------------
(***************************************************************************)
(* The owner's side of a job: webhooks are registered and deleted through  *)
(* the API (usecase/webhook, postgres/webhook_repository.go), the          *)
(* dispatcher fans an event out to them (usecase/notification/dispatch.go) *)
(* and each delivery is a task of its own, retried independently           *)
(* (worker/handlers/webhook_delivery.go).  JobHandlers!Dispatch is where a *)
(* handler calls the dispatcher; here a call is an event e, and the task   *)
(* it enqueues for webhook h is <<e, h>>.                                  *)
(*                                                                         *)
(* Faults: failed calls to Postgres and Redis, stops and crashes of the    *)
(* worker, at most MaxFaults in all; listed and got are history variables. *)
(***************************************************************************)
EXTENDS TaskQueue, SafeHttp, Backoff, FiniteSets

CONSTANTS Events,        \* calls of DispatchJobEvent
          Hooks, Users, NoUser,
          EventUser,     \* the UserID of the event's job; NoUser is nil
          HookUser,      \* the owner a webhook is registered for
          HookUrls,      \* the URLs it may be registered with
          Buildable,     \* URLs http.NewRequest accepts
          NoTask,
          MaxFaults      \* bound

ASSUME DeliveryAssumption ==
  /\ Tasks = Events \X Hooks /\ IsFiniteSet(Hooks)
  /\ NoUser \notin Users /\ NoTask \notin Tasks
  /\ EventUser \in [Events -> Users \cup {NoUser}]
  /\ HookUser \in [Hooks -> Users]
  /\ HookUrls \in [Hooks -> SUBSET Urls]
  /\ Buildable \subseteq Urls
  /\ MaxFaults \in Nat

VARIABLES hook,          \* the webhooks table; "deleted" is the soft delete
          url,           \* its url column
          dispatch,      \* where each DispatchJobEvent is
          listed,        \* the webhooks it listed, if it could
          todo,          \* those it has not enqueued a delivery for yet
          sender,        \* where the delivery handler in each slot is
          carries,       \* the delivery it works on
          got,           \* deliveries receivers took, with the event or without
          server,        \* the worker process
          faults

registryVars == <<hook, url>>
dispatchVars == <<dispatch, listed, todo>>
senderVars   == <<sender, carries, got, request>>
processVars  == <<server, faults>>
deliveryVars == <<registryVars, dispatchVars, senderVars, processVars>>
vars == <<queueVars, deliveryVars>>

TypeOK == /\ QueueTypeOK /\ HttpTypeOK
          /\ hook \in [Hooks -> {"absent", "live", "deleted"}]
          /\ url \in [Hooks -> Urls \cup {NoUrl}]
          /\ dispatch \in [Events -> {"due", "list", "push", "returned", "unlisted", "cut"}]
          /\ listed \in [Events -> SUBSET Hooks]
          /\ todo \in [Events -> SUBSET Hooks]
          /\ sender \in [Senders -> {"idle", "load", "send", "ack", "nack", "skip"}]
          /\ carries \in [Senders -> Tasks \cup {NoTask}]
          /\ got \subseteq Tasks \X BOOLEAN
          /\ server \in {"up", "draining", "down"}
          /\ faults \in 0 .. MaxFaults

(* Some webhooks may have been registered before the events. *)
Init == /\ QueueInit /\ HttpInit
        /\ hook \in [Hooks -> {"absent", "live"}]
        /\ url \in [Hooks -> Urls \cup {NoUrl}]
        /\ \A h \in Hooks : url[h] \in IF hook[h] = "live" THEN HookUrls[h] ELSE {NoUrl}
        /\ dispatch = [e \in Events |-> "due"]
        /\ listed = [e \in Events |-> {}]
        /\ todo = [e \in Events |-> {}]
        /\ sender = [s \in Senders |-> "idle"]
        /\ carries = [s \in Senders |-> NoTask]
        /\ got = {}
        /\ server = "up"
        /\ faults = MaxFaults

Fault == faults > 0 /\ faults' = faults - 1

-----------------------------------------------------------------------------
(* POST /webhooks, answered or not. *)
Register(h) == /\ hook[h] = "absent"
               /\ hook' = [hook EXCEPT ![h] = "live"]
               /\ \E u \in HookUrls[h] : url' = [url EXCEPT ![h] = u]
               /\ UNCHANGED <<queueVars, dispatchVars, senderVars, processVars>>

(* DELETE /webhooks/:id?user_id=u deletes the row that has both. *)
Unregister(h, u) == /\ hook[h] = "live" /\ HookUser[h] = u
                    /\ hook' = [hook EXCEPT ![h] = "deleted"]
                    /\ UNCHANGED <<queueVars, url, dispatchVars, senderVars, processVars>>

(* ListByUserID; gorm leaves soft-deleted rows out. *)
ListByUserID(u) == {h \in Hooks : hook[h] = "live" /\ HookUser[h] = u}

-----------------------------------------------------------------------------
Idling == UNCHANGED <<registryVars, senderVars, server>>

(* DispatchJobEvent: a job without an owner has nobody to notify. *)
DispatchJobEvent(e) ==
  /\ server # "down" /\ dispatch[e] = "due"
  /\ dispatch' = [dispatch EXCEPT ![e] =
                    IF EventUser[e] = NoUser THEN "returned" ELSE "list"]
  /\ UNCHANGED <<queueVars, listed, todo, faults>> /\ Idling

(* A listing that fails is all there is: the dispatcher returns. *)
ListHooks(e) ==
  /\ dispatch[e] = "list"
  /\ \/ LET hs == ListByUserID(EventUser[e]) IN
          /\ listed' = [listed EXCEPT ![e] = hs]
          /\ todo' = [todo EXCEPT ![e] = hs]
          /\ dispatch' = [dispatch EXCEPT ![e] =
                            IF hs = {} THEN "returned" ELSE "push"]
          /\ UNCHANGED faults
     \/ /\ Fault
        /\ dispatch' = [dispatch EXCEPT ![e] = "unlisted"]
        /\ UNCHANGED <<listed, todo>>
  /\ UNCHANGED queueVars /\ Idling

(* Mutant: an error ends the whole fan-out. *)
Remaining_Return(e, h, failed) == IF failed THEN {} ELSE todo[e] \ {h}

(* What is left to do after the turn of h: an error only ends that turn. *)
Remaining(e, h, failed) == todo[e] \ {h}

PushDelivery(e, h) ==
  /\ dispatch[e] = "push" /\ h \in todo[e]
  /\ \E failed \in BOOLEAN :
       /\ IF failed THEN Fault /\ (UNCHANGED queueVars \/ EnqueueTask(<<e, h>>, FALSE))
                    ELSE EnqueueTask(<<e, h>>, FALSE) /\ UNCHANGED faults
       /\ todo' = [todo EXCEPT ![e] = Remaining(e, h, failed)]
       /\ dispatch' = [dispatch EXCEPT ![e] =
                         IF Remaining(e, h, failed) = {} THEN "returned" ELSE "push"]
  /\ UNCHANGED listed /\ Idling

-----------------------------------------------------------------------------
HookOf(s) == carries[s][2]
Calm      == UNCHANGED <<registryVars, dispatchVars, server>>
Goto(s, l) == sender' = [sender EXCEPT ![s] = l]
Release(s) == Goto(s, "idle") /\ carries' = [carries EXCEPT ![s] = NoTask]

Take(s, t) == /\ server = "up" /\ sender[s] = "idle"
              /\ DequeueTask(t)
              /\ Goto(s, "load")
              /\ carries' = [carries EXCEPT ![s] = t]
              /\ UNCHANGED <<got, request, faults>> /\ Calm

(* Mutant: the lookup does not leave soft-deleted rows out. *)
Found_Unscoped(h) == hook[h] # "absent"

(* Mutant: the payload names the job where it should name the webhook. *)
Found_None(h) == FALSE

(* GetByID of the webhook: one that is gone ends the task, an error retries. *)
Found(h) == hook[h] = "live"

Load(s) ==
  /\ sender[s] = "load"
  /\ \/ /\ Found(HookOf(s)) /\ url[HookOf(s)] \in Buildable
        /\ Goto(s, "send") /\ Begin(s, url[HookOf(s)])
        /\ UNCHANGED faults
     \/ /\ Found(HookOf(s)) /\ url[HookOf(s)] \notin Buildable
        /\ Goto(s, "skip") /\ UNCHANGED <<request, faults>>
     \/ /\ ~Found(HookOf(s))
        /\ Goto(s, "ack") /\ UNCHANGED <<request, faults>>
     \/ Fault /\ Goto(s, "nack") /\ UNCHANGED request
  /\ UNCHANGED <<queueVars, carries, got>> /\ Calm

(* Mutant: the status of the answer is not looked at. *)
Return_AnyStatus == [ok |-> "ack", error |-> "ack", silent |-> "nack", failed |-> "nack"]

(* What Handle returns for each result of Do, as asynq takes it. *)
Return == [ok |-> "ack", error |-> "nack", silent |-> "nack", failed |-> "nack"]

(* A receiver that takes a request has the event in it, or only the GET. *)
Taken(s) == got \cup {<<carries[s], request[s].post>>}

Send(s) == /\ sender[s] = "send"
           /\ \E result \in Results :
                /\ Exchange(s, result)
                /\ IF result = "again" THEN UNCHANGED sender
                                       ELSE Goto(s, Return[result])
                /\ got' = IF result \in {"ok", "silent"} THEN Taken(s) ELSE got
           /\ UNCHANGED <<queueVars, carries, faults>> /\ Calm

(* Mutant: a single retry. *)
webhookDeliveryMaxRetry_One == 1

webhookDeliveryMaxRetry == 5

Finish(s) == /\ \/ sender[s] = "ack" /\ DoneTask(carries[s])
                \/ sender[s] = "nack" /\ FailTask(carries[s], webhookDeliveryMaxRetry)
                \/ sender[s] = "skip" /\ FailTask(carries[s], 0)
             /\ Release(s)
             /\ UNCHANGED <<got, request, faults>> /\ Calm

-----------------------------------------------------------------------------
RetryDelivery(t) == server = "up" /\ ForwardTask(t) /\ UNCHANGED deliveryVars

RecoverDelivery(t) == /\ server = "up" /\ \A s \in Senders : carries[s] # t
                      /\ FailTask(t, webhookDeliveryMaxRetry)
                      /\ UNCHANGED deliveryVars

(* Requests the handlers in ss have under way are cut off: a receiver may
   have taken them all the same.                                           *)
CutOff(ss) ==
  /\ \E seen \in SUBSET {s \in ss : sender[s] = "send"} :
       got' = got \cup {<<carries[s], request[s].post>> : s \in seen}
  /\ Drop(ss)

(* The process ends: its handlers and its calls of the dispatcher with it. *)
Halt == /\ server' = "down"
        /\ CutOff(Senders)
        /\ sender' = [s \in Senders |-> "idle"]
        /\ carries' = [s \in Senders |-> NoTask]
        /\ dispatch' = [e \in Events |->
             IF dispatch[e] \in {"list", "push"} THEN "cut" ELSE dispatch[e]]
        /\ todo' = [e \in Events |-> {}]
        /\ UNCHANGED <<queueVars, registryVars, listed>>

CrashWorker == server # "down" /\ Fault /\ Halt

(* SIGTERM: Shutdown stops taking tasks and waits for the handlers. *)
StopWorker == /\ server = "up" /\ Fault
              /\ server' = "draining"
              /\ UNCHANGED <<queueVars, registryVars, dispatchVars, senderVars>>

(* The deadline of Shutdown passes: a delivery goes back unspent, and its
   context is cancelled.                                                   *)
AbortDelivery(s) == /\ server = "draining" /\ sender[s] # "idle"
                    /\ RequeueTask(carries[s])
                    /\ CutOff({s}) /\ Release(s)
                    /\ UNCHANGED faults /\ Calm

(* The same for a job that has just called the dispatcher: the listing is cut.
   Enqueue takes no context, so a fan-out goes on until the process ends.  *)
AbortDispatch(e) == /\ server = "draining" /\ dispatch[e] = "list"
                    /\ dispatch' = [dispatch EXCEPT ![e] = "cut"]
                    /\ UNCHANGED <<queueVars, listed, todo, faults>> /\ Idling

(* main returns: Shutdown did, or main's own timeout has passed. *)
ExitWorker == server = "draining" /\ UNCHANGED faults /\ Halt

RestartWorker == /\ server = "down" /\ server' = "up"
                 /\ UNCHANGED <<queueVars, registryVars, dispatchVars, senderVars, faults>>

Dispatching(e) == DispatchJobEvent(e) \/ ListHooks(e)
                  \/ \E h \in Hooks : PushDelivery(e, h)
Delivering(s)  == Load(s) \/ Send(s) \/ Finish(s)

Next == \/ \E h \in Hooks : Register(h) \/ \E u \in Users : Unregister(h, u)
        \/ \E e \in Events : Dispatching(e)
        \/ \E s \in Senders : Delivering(s) \/ \E t \in Tasks : Take(s, t)
        \/ \E t \in Tasks : RetryDelivery(t) \/ RecoverDelivery(t)
        \/ \E s \in Senders : AbortDelivery(s)
        \/ \E e \in Events : AbortDispatch(e)
        \/ CrashWorker \/ StopWorker \/ ExitWorker \/ RestartWorker

Fairness == /\ \A e \in Events : WF_vars(Dispatching(e))
            /\ \A s \in Senders : WF_vars(Delivering(s))
            /\ \A t \in Tasks : /\ WF_vars(\E s \in Senders : Take(s, t))
                                /\ WF_vars(RetryDelivery(t))
                                /\ WF_vars(RecoverDelivery(t))
            /\ WF_vars(ExitWorker) /\ WF_vars(RestartWorker)

Spec     == Init /\ [][Next]_vars
FairSpec == Spec /\ Fairness

-----------------------------------------------------------------------------
(* dispatch.go: what a fan-out that was not cut has lost; one webhook the event,
   where its turn failed, or all of them, where the listing did.            *)
Missed == {t \in Tasks : /\ dispatch[t[1]] # "cut"
                         /\ t[2] \in listed[t[1]] \ todo[t[1]] /\ task[t] = "new"}
Unheard == {e \in Events : dispatch[e] = "unlisted"}

(* dispatch.go:43-47, 64-72: a delivery that cannot be enqueued costs its own
   webhook the event, never another one's; a listing that fails costs the whole
   event, of that one call.  Unless the process ends in the middle, nothing else
   is lost: every loss has a fault of its own.                              *)
OneFaultOneLoss ==
  Cardinality(Missed) + Cardinality(Unheard) <= MaxFaults - faults

(* webhook_delivery.go, Handle: once a webhook is deleted and no handler is
   past loading it, no handler ever sends to it again, whatever is queued,
   retried or recovered.                                                   *)
Silenced(h) == /\ hook[h] = "deleted"
               /\ \A s \in Senders : sender[s] = "send" => HookOf(s) # h

DeletedStaysSilent == [][\A h \in Hooks : Silenced(h) => Silenced(h)']_vars

(* Receivers that never turn a POST into a GET, whoever they redirect to. *)
Lossless ==
  {u \in Urls : \E S \in SUBSET Urls :
     /\ u \in S
     /\ \A v \in S : \A r \in Replies[v] :
          r.kind # "moved" /\ (r.kind \in Redirects => r.to \in S)}

(* webhook_delivery.go, the check of the status: a delivery leaves the queue
   as done only if its webhook is deleted or a receiver took the event; where
   one on the way may answer 301-303, perhaps only a GET without it.        *)
FinishedWasTaken ==
  \A t \in Tasks : task[t] = "finished" =>
     \/ hook[t[2]] = "deleted"
     \/ <<t, TRUE>> \in got
     \/ <<t, FALSE>> \in got /\ url[t[2]] \notin Lossless

(* backoff.go: no retry is due in the past or later than maxDelay, nor, by
   more than the jitter, sooner than the one before it.                    *)
RetriesSlowDown ==
  \A t \in Tasks : task[t] = "retry" =>
     LET attempt == retried[t] - 1 IN
     \A d \in Delays(attempt) :
        /\ 0 < d /\ d <= maxDelay
        /\ attempt > 0 => \A before \in Delays(attempt - 1) : before < d + jitterMax

(* Receivers that take every request, perhaps behind as many redirects that
   keep it as the cap allows.                                               *)
Reachable == {u \in Urls \cap Buildable : Resolves[u] = {"public"}}
Taking    == {u \in Reachable : \A r \in Replies[u] : r.kind = "ok"}
Before(us) == {u \in Reachable : \A r \in Replies[u] : r.kind = "kept" /\ r.to \in us}
Relaying  == Before(Taking \cup Before(Taking))

(* webhook_delivery.go and dispatch.go: every delivery that was enqueued
   reaches a receiver that takes it, or its webhook is deleted, although the
   owner's other receivers refuse every attempt and failed loads, stops or
   crashes cost this one attempts; MaxFaults is below the six it has.      *)
DeliveredOrDeleted ==
  \A e \in Events, h \in Hooks : HookUrls[h] \subseteq Taking \cup Relaying =>
     (task[<<e, h>>] # "new" ~> <<<<e, h>>, TRUE>> \in got \/ hook[h] = "deleted")
=============================================================================
