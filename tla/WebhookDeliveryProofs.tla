------------------------ MODULE WebhookDeliveryProofs ------------------------
(***************************************************************************)
(* Theorems about the owner's side of a job, for any webhooks, receivers,  *)
(* goroutines and number of faults.                                        *)
(***************************************************************************)
EXTENDS WebhookDelivery, FiniteSetTheorems, TLAPS

(* What the queue does to deliveries: types are kept and none becomes new. *)
Onward == /\ QueueTypeOK'
          /\ \A t \in Tasks : task[t] # "new" => task'[t] # "new"

LEMMA QueueOnward ==
  ASSUME QueueTypeOK, NEW t \in Tasks, NEW max \in Nat,
         \/ \E later \in BOOLEAN : EnqueueTask(t, later)
         \/ DequeueTask(t) \/ ForwardTask(t) \/ DoneTask(t)
         \/ FailTask(t, max) \/ RequeueTask(t) \/ UNCHANGED queueVars
  PROVE  Onward
BY DEF QueueTypeOK, Onward, EnqueueTask, DequeueTask, ForwardTask, DoneTask, FailTask,
       Exhausted, RequeueTask, Move, queueVars, TaskState

(* Receivers that keep a request redirect it to their like. *)
LEMMA LosslessKeeps ==
  ASSUME NEW u \in Lossless, NEW r \in Replies[u], r.kind \in Redirects
  PROVE  r.kind = "kept" /\ r.to \in Lossless
<1>1. PICK S \in SUBSET Urls :
        /\ u \in S
        /\ \A v \in S : \A q \in Replies[v] :
             q.kind # "moved" /\ (q.kind \in Redirects => q.to \in S)
  BY DEF Lossless
<1> QED BY <1>1 DEF Lossless, Redirects

(* net/http: one request of Do keeps the types; a request that carries the event
   to a receiver which never drops it still does when it is redirected.     *)
LEMMA ExchangeKeeps ==
  ASSUME HttpTypeOK, NEW s \in Senders, NEW result, Exchange(s, result),
         request[s].url \in Urls
  PROVE  /\ HttpTypeOK'
         /\ result = "again" => request'[s].url \in Urls
         /\ result = "again" /\ request[s].url \in Lossless /\ request[s].post
              => request'[s].url \in Lossless /\ request'[s].post
<1>1. PICK a \in Resolves[request[s].url], r \in Replies[request[s].url] :
        LET next == IF ~Dials(a) THEN "failed"
                    ELSE IF r.kind \notin Redirects THEN r.kind
                    ELSE IF CheckRedirect(s) THEN "again" ELSE "failed"
        IN /\ result = next
           /\ request' = [request EXCEPT ![s] =
                            IF next = "again" THEN Follow(s, r) ELSE NoRequest]
  BY DEF Exchange
<1>2. r \in Reply /\ (r.kind \in Redirects => r.to \in Urls)
  BY SafeHttpAssumption
<1>3. r.kind # "again"
  BY <1>2 DEF Reply
<1>4. NoRequest \in Requests
  BY DEF NoRequest, Requests
<1>5. CheckRedirect(s) /\ r.kind \in Redirects => Follow(s, r) \in Requests
  <2>1. request[s].via \in 0 .. 2 /\ request[s].post \in BOOLEAN
    BY DEF HttpTypeOK, Requests
  <2>2. CheckRedirect(s) => request[s].via + 1 \in 0 .. 2
    BY <2>1 DEF CheckRedirect
  <2>3. (request[s].post /\ r.kind = "kept") \in BOOLEAN
    OBVIOUS
  <2> QED BY <1>2, <2>2, <2>3 DEF Follow, Requests
<1>6. HttpTypeOK'
  BY <1>1, <1>2, <1>3, <1>4, <1>5 DEF HttpTypeOK
<1>7. ASSUME result = "again"
      PROVE  r.kind \in Redirects /\ request'[s] = Follow(s, r)
  BY <1>1, <1>3, <1>7 DEF HttpTypeOK
<1>8. result = "again" => request'[s].url \in Urls
  BY <1>2, <1>7 DEF Follow
<1>9. ASSUME result = "again", request[s].url \in Lossless, request[s].post
      PROVE  request'[s].url \in Lossless /\ request'[s].post
  <2>1. r.kind = "kept" /\ r.to \in Lossless
    BY <1>7, <1>9, LosslessKeeps
  <2>2. request'[s] = Follow(s, r)
    BY <1>7, <1>9
  <2>3. request'[s].url = r.to
    BY <2>2 DEF Follow
  <2>4. (request[s].post /\ r.kind = "kept") = TRUE
    BY <1>9, <2>1
  <2>5. request'[s] = [url |-> r.to, via |-> request[s].via + 1, post |-> TRUE]
    BY <2>2, <2>4, Zenon DEF Follow
  <2> QED BY <2>1, <2>3, <2>5
<1> QED BY <1>6, <1>8, <1>9

-----------------------------------------------------------------------------
(* webhook_repository.go: only registered webhooks are listed, so that every
   delivery in the queue is for a webhook that is live or deleted.          *)
Known == /\ \A e \in Events : \A h \in todo[e] : hook[h] # "absent"
         /\ \A t \in Tasks : task[t] # "new" => hook[t[2]] # "absent"

(* A slot that works holds a delivery that was enqueued. *)
Holding == \A s \in Senders :
             /\ sender[s] # "idle" => carries[s] \in Tasks
             /\ carries[s] # NoTask => task[carries[s]] # "new"

(* A request under way goes to a URL; it carries the event as long as no receiver
   on its way can have dropped it.                                          *)
Addressed ==
  \A s \in Senders : sender[s] = "send" =>
     /\ request[s].url \in Urls
     /\ url[HookOf(s)] \in Lossless => request[s].url \in Lossless /\ request[s].post

(* Handle returns nil only for a delivery that was taken, or whose webhook is
   gone; both last.                                                         *)
Settled(t) == \/ hook[t[2]] = "deleted"
              \/ <<t, TRUE>> \in got
              \/ <<t, FALSE>> \in got /\ url[t[2]] \notin Lossless
Acked == \A s \in Senders : sender[s] = "ack" => Settled(carries[s])

DInv == TypeOK /\ Known /\ Holding /\ Addressed /\ Acked /\ FinishedWasTaken

LEMMA DeliveryHook == \A t \in Tasks : t[2] \in Hooks
BY DeliveryAssumption

LEMMA FaultInRange ==
  ASSUME TypeOK, Fault \/ UNCHANGED faults
  PROVE  faults' \in 0 .. MaxFaults
BY DeliveryAssumption DEF TypeOK, Fault

(* Registering and deleting webhooks. *)
LEMMA RegistryKeeps ==
  ASSUME DInv, NEW h \in Hooks, Register(h) \/ \E u \in Users : Unregister(h, u)
  PROVE  DInv'
<1>1. /\ hook' \in [Hooks -> {"absent", "live", "deleted"}]
      /\ \A g \in Hooks : /\ hook[g] # "absent" => hook'[g] # "absent"
                          /\ hook[g] = "deleted" => hook'[g] = "deleted"
  BY DEF Register, Unregister, DInv, TypeOK
<1>2. url' \in [Hooks -> Urls \cup {NoUrl}]
  BY DeliveryAssumption DEF Register, Unregister, DInv, TypeOK
<1>3. UNCHANGED <<queueVars, dispatchVars, senderVars, processVars>>
  BY DEF Register, Unregister
<1>4. TypeOK'
  BY <1>1, <1>2, <1>3
  DEF DInv, TypeOK, QueueTypeOK, HttpTypeOK, queueVars, dispatchVars, senderVars,
      processVars
<1>5. Known'
  BY <1>1, <1>3, DeliveryHook
  DEF DInv, Known, TypeOK, queueVars, dispatchVars
<1>6. \A t \in Tasks : task[t] # "new" => url'[t[2]] = url[t[2]]
  BY DeliveryHook DEF Register, Unregister, DInv, TypeOK, Known
<1>7. \A s \in Senders : sender[s] # "idle" => url'[carries[s][2]] = url[carries[s][2]]
  BY <1>6, DeliveryAssumption DEF DInv, Holding
<1>8. Holding'
  BY <1>3 DEF DInv, Holding, queueVars, senderVars
<1>9. Addressed'
  BY <1>3, <1>7 DEF DInv, Addressed, HookOf, senderVars
<1>10. \A t \in Tasks : task[t] # "new" /\ Settled(t) => Settled(t)'
  BY <1>1, <1>3, <1>6, DeliveryHook DEF Settled, senderVars
<1>11. Acked'
  <2>1. \A s \in Senders : sender[s] = "ack" =>
          carries[s] \in Tasks /\ task[carries[s]] # "new"
    BY DeliveryAssumption DEF DInv, Holding
  <2>2. \A s \in Senders : sender[s] = "ack" => Settled(carries[s])'
    BY <1>10, <2>1, <1>3 DEF DInv, Acked, senderVars
  <2> QED BY <1>3, <2>2 DEF Acked, senderVars
<1>12. FinishedWasTaken'
  BY <1>3, <1>10 DEF DInv, FinishedWasTaken, Settled, queueVars
<1> QED BY <1>4, <1>5, <1>8, <1>9, <1>11, <1>12 DEF DInv

(* dispatch.go *)
LEMMA DispatchingKeeps ==
  ASSUME DInv, NEW e \in Events, Dispatching(e) \/ AbortDispatch(e)
  PROVE  DInv'
<1>1. Onward
  <2>1. CASE DispatchJobEvent(e) \/ ListHooks(e) \/ AbortDispatch(e)
    BY <2>1, QueueOnward DEF DispatchJobEvent, ListHooks, AbortDispatch, DInv, TypeOK,
       Onward, queueVars, QueueTypeOK
  <2>2. CASE \E h \in Hooks : PushDelivery(e, h)
    <3>1. PICK h \in Hooks : PushDelivery(e, h)
      BY <2>2
    <3>2. UNCHANGED queueVars \/ EnqueueTask(<<e, h>>, FALSE)
      BY <3>1 DEF PushDelivery
    <3>3. <<e, h>> \in Tasks
      BY DeliveryAssumption
    <3> QED BY <3>2, <3>3, QueueOnward DEF DInv, TypeOK
  <2> QED BY <2>1, <2>2 DEF Dispatching
<1>2. UNCHANGED <<registryVars, senderVars, server>>
  BY DEF Dispatching, DispatchJobEvent, ListHooks, PushDelivery, AbortDispatch, Idling
<1>3. /\ dispatch' \in [Events -> {"due", "list", "push", "returned", "unlisted", "cut"}]
      /\ listed' \in [Events -> SUBSET Hooks]
      /\ todo' \in [Events -> SUBSET Hooks]
      /\ faults' \in 0 .. MaxFaults
      /\ \A f \in Events : \A h \in todo'[f] : hook[h] # "absent"
  <2>1. CASE DispatchJobEvent(e) \/ AbortDispatch(e)
    BY <2>1 DEF DispatchJobEvent, AbortDispatch, DInv, TypeOK, Known
  <2>2. CASE ListHooks(e)
    <3>1. faults' \in 0 .. MaxFaults
      BY <2>2, FaultInRange DEF ListHooks, DInv
    <3>2. PICK hs \in SUBSET Hooks, d \in {"returned", "push", "unlisted"} :
            /\ \A h \in hs : hook[h] # "absent"
            /\ dispatch' = [dispatch EXCEPT ![e] = d]
            /\ \/ /\ listed' = [listed EXCEPT ![e] = hs]
                  /\ todo' = [todo EXCEPT ![e] = hs]
               \/ UNCHANGED <<listed, todo>>
      <4>1. /\ ListByUserID(EventUser[e]) \in SUBSET Hooks
            /\ \A h \in ListByUserID(EventUser[e]) : hook[h] # "absent"
        BY DEF ListByUserID
      <4> QED BY <2>2, <4>1 DEF ListHooks
    <3> QED BY <3>1, <3>2 DEF DInv, TypeOK, Known
  <2>3. CASE \E h \in Hooks : PushDelivery(e, h)
    <3>1. PICK h \in Hooks, failed \in BOOLEAN :
            /\ IF failed THEN Fault /\ (UNCHANGED queueVars \/ EnqueueTask(<<e, h>>, FALSE))
                         ELSE EnqueueTask(<<e, h>>, FALSE) /\ UNCHANGED faults
            /\ todo' = [todo EXCEPT ![e] = Remaining(e, h, failed)]
            /\ dispatch' = [dispatch EXCEPT ![e] =
                              IF Remaining(e, h, failed) = {} THEN "returned" ELSE "push"]
            /\ UNCHANGED listed
      BY <2>3 DEF PushDelivery
    <3>2. faults' \in 0 .. MaxFaults
      <4>1. Fault \/ UNCHANGED faults
        BY <3>1, Zenon
      <4> QED BY <4>1, FaultInRange DEF DInv
    <3>3. Remaining(e, h, failed) \subseteq todo[e] /\ todo[e] \subseteq Hooks
      BY DEF Remaining, DInv, TypeOK
    <3> QED BY <3>1, <3>2, <3>3 DEF DInv, TypeOK, Known
  <2> QED BY <2>1, <2>2, <2>3 DEF Dispatching
<1>5. \A t \in Tasks :
        /\ task'[t] # "new" => task[t] # "new" \/ hook[t[2]] # "absent"
        /\ task'[t] = "finished" => task[t] = "finished"
  <2>1. CASE DispatchJobEvent(e) \/ ListHooks(e) \/ AbortDispatch(e)
    BY <2>1 DEF DispatchJobEvent, ListHooks, AbortDispatch, queueVars
  <2>2. CASE \E h \in Hooks : PushDelivery(e, h)
    <3>1. PICK h \in Hooks : PushDelivery(e, h)
      BY <2>2
    <3>2. UNCHANGED queueVars \/ EnqueueTask(<<e, h>>, FALSE)
      BY <3>1 DEF PushDelivery
    <3>3. hook[h] # "absent"
      BY <3>1 DEF PushDelivery, DInv, Known
    <3>4. <<e, h>> \in Tasks /\ <<e, h>>[2] = h
      BY DeliveryAssumption
    <3> QED BY <3>2, <3>3, <3>4
        DEF EnqueueTask, Move, queueVars, DInv, TypeOK, QueueTypeOK
  <2> QED BY <2>1, <2>2 DEF Dispatching
<1>6. TypeOK'
  BY <1>1, <1>2, <1>3
  DEF Onward, DInv, TypeOK, HttpTypeOK, registryVars, senderVars
<1>7. Known' /\ Holding'
  BY <1>1, <1>2, <1>3, <1>5
  DEF Onward, DInv, Known, Holding, TypeOK, registryVars, senderVars
<1>8. Addressed'
  BY <1>2 DEF DInv, Addressed, HookOf, senderVars, registryVars
<1>9. Acked' /\ FinishedWasTaken'
  BY <1>2, <1>5
  DEF DInv, Acked, Settled, FinishedWasTaken, registryVars, senderVars
<1> QED BY <1>6, <1>7, <1>8, <1>9 DEF DInv

(* asynq hands a delivery to a goroutine. *)
LEMMA TakeKeeps ==
  ASSUME DInv, NEW s \in Senders, NEW t \in Tasks, Take(s, t)
  PROVE  DInv'
<1>1. Onward /\ task[t] = "pending" /\ task' = [task EXCEPT ![t] = "active"]
  BY QueueOnward DEF Take, DequeueTask, Move, DInv, TypeOK
<1>2. /\ sender' = [sender EXCEPT ![s] = "load"]
      /\ carries' = [carries EXCEPT ![s] = t]
      /\ UNCHANGED <<got, request, faults, registryVars, dispatchVars, server>>
  BY DEF Take, Calm, Goto
<1>3. TypeOK'
  BY <1>1, <1>2
  DEF Onward, DInv, TypeOK, HttpTypeOK, registryVars, dispatchVars
<1>4. Known'
  BY <1>1, <1>2
  DEF DInv, TypeOK, QueueTypeOK, Known, registryVars, dispatchVars
<1>5. Holding'
  BY <1>1, <1>2, DeliveryAssumption DEF Onward, DInv, TypeOK, QueueTypeOK, Holding
<1>6. Addressed'
  BY <1>2 DEF DInv, TypeOK, Addressed, HookOf, registryVars
<1>7. Acked' /\ FinishedWasTaken'
  BY <1>1, <1>2
  DEF DInv, TypeOK, QueueTypeOK, Acked, Settled, FinishedWasTaken, registryVars
<1> QED BY <1>3, <1>4, <1>5, <1>6, <1>7 DEF DInv

(* webhook_delivery.go, up to the call of Do. *)
LEMMA LoadKeeps ==
  ASSUME DInv, NEW s \in Senders, Load(s)
  PROVE  DInv'
<1>1. /\ sender[s] = "load"
      /\ UNCHANGED <<queueVars, carries, got, registryVars, dispatchVars, server>>
      /\ Fault \/ UNCHANGED faults
      /\ carries[s] \in Tasks
  BY DEF Load, Calm, Begin, DInv, Holding
<1>2. HookOf(s) \in Hooks
  BY <1>1, DeliveryHook DEF HookOf
<1>3. PICK l \in {"send", "skip", "ack", "nack"} :
        /\ sender' = [sender EXCEPT ![s] = l]
        /\ l = "send" => /\ url[HookOf(s)] \in Urls
                         /\ request' = [request EXCEPT ![s] =
                              [url |-> url[HookOf(s)], via |-> 0, post |-> TRUE]]
        /\ l # "send" => UNCHANGED request
        /\ l = "ack" => hook[HookOf(s)] # "live"
  <2>1. CASE Goto(s, "send") /\ Begin(s, url[HookOf(s)]) /\ url[HookOf(s)] \in Buildable
    BY <2>1, DeliveryAssumption DEF Goto, Begin
  <2>2. CASE Goto(s, "skip") /\ UNCHANGED request
    BY <2>2 DEF Goto
  <2>3. CASE Goto(s, "ack") /\ ~Found(HookOf(s)) /\ UNCHANGED request
    BY <2>3 DEF Goto, Found
  <2>4. CASE Goto(s, "nack") /\ UNCHANGED request
    BY <2>4 DEF Goto
  <2> QED BY <2>1, <2>2, <2>3, <2>4 DEF Load
<1>4. HttpTypeOK'
  <2>1. \A u \in Urls : [url |-> u, via |-> 0, post |-> TRUE] \in Requests
    BY DEF Requests
  <2> QED BY <1>1, <1>3, <2>1 DEF DInv, TypeOK, HttpTypeOK
<1>5. TypeOK'
  <2>1. faults' \in 0 .. MaxFaults
    BY <1>1, FaultInRange DEF DInv
  <2> QED BY <1>1, <1>3, <1>4, <2>1
      DEF DInv, TypeOK, QueueTypeOK, queueVars, registryVars, dispatchVars
<1>6. Known' /\ Holding'
  BY <1>1, <1>3 DEF DInv, Known, Holding, TypeOK, queueVars, registryVars,
     dispatchVars
<1>7. Addressed'
  BY <1>1, <1>3 DEF DInv, TypeOK, HttpTypeOK, Addressed, HookOf, registryVars
<1>8. hook[HookOf(s)] # "live" => Settled(carries[s])
  <2>1. task[carries[s]] # "new"
    BY <1>1, DeliveryAssumption DEF DInv, Holding
  <2> QED BY <1>1, <1>2, <2>1 DEF DInv, TypeOK, Known, Settled, HookOf
<1>9. Acked' /\ FinishedWasTaken'
  BY <1>1, <1>3, <1>8
  DEF DInv, TypeOK, Acked, Settled, FinishedWasTaken, queueVars, registryVars
<1> QED BY <1>5, <1>6, <1>7, <1>9 DEF DInv

(* webhook_delivery.go, the call of Do and what Handle returns. *)
LEMMA SendKeeps ==
  ASSUME DInv, NEW s \in Senders, Send(s)
  PROVE  DInv'
<1>1. PICK result \in Results :
        /\ Exchange(s, result)
        /\ IF result = "again" THEN UNCHANGED sender ELSE Goto(s, Return[result])
        /\ got' = IF result \in {"ok", "silent"} THEN Taken(s) ELSE got
  BY DEF Send
<1>2. /\ sender[s] = "send" /\ carries[s] \in Tasks /\ request[s].url \in Urls
      /\ UNCHANGED <<queueVars, carries, faults, registryVars, dispatchVars, server>>
  BY DEF Send, Calm, DInv, Holding, Addressed
<1>3. /\ HttpTypeOK'
      /\ result = "again" => request'[s].url \in Urls
      /\ result = "again" /\ request[s].url \in Lossless /\ request[s].post
           => request'[s].url \in Lossless /\ request'[s].post
  BY <1>1, <1>2, ExchangeKeeps DEF DInv, TypeOK
<1>4. request[s].post \in BOOLEAN
  BY DEF DInv, TypeOK, HttpTypeOK, Requests
<1>5. got \subseteq got' /\ got' \subseteq Tasks \X BOOLEAN
  BY <1>1, <1>2, <1>4 DEF Taken, DInv, TypeOK
<1>6. /\ sender' \in [Senders -> {"idle", "load", "send", "ack", "nack", "skip"}]
      /\ \A r \in Senders : r # s => sender'[r] = sender[r]
      /\ sender'[s] # "idle"
      /\ sender'[s] = "send" => result = "again"
      /\ sender'[s] = "ack" => result = "ok"
  <2>1. CASE result = "again"
    BY <1>1, <1>2, <2>1 DEF DInv, TypeOK
  <2>2. CASE result # "again"
    BY <1>1, <1>2, <2>2 DEF DInv, TypeOK, Goto, Return, Results
  <2> QED BY <2>1, <2>2
<1>7. \A r \in Senders : r # s => request'[r] = request[r]
  BY <1>1 DEF Exchange, DInv, TypeOK, HttpTypeOK
<1>8. TypeOK'
  BY <1>2, <1>3, <1>5, <1>6
  DEF DInv, TypeOK, QueueTypeOK, queueVars, registryVars, dispatchVars
<1>9. Known' /\ Holding'
  BY <1>2, <1>6 DEF DInv, Known, Holding, TypeOK, queueVars, registryVars, dispatchVars
<1>10. Addressed'
  <2>1. sender'[s] = "send" /\ url[HookOf(s)] \in Lossless
          => request'[s].url \in Lossless /\ request'[s].post
    BY <1>2, <1>3, <1>6 DEF DInv, Addressed
  <2>2. sender'[s] = "send" => request'[s].url \in Urls
    BY <1>3, <1>6
  <2>3. \A r \in Senders : HookOf(r)' = HookOf(r)
    BY <1>2 DEF HookOf
  <2>4. url' = url
    BY <1>2 DEF registryVars
  <2> QED BY <1>6, <1>7, <2>1, <2>2, <2>3, <2>4 DEF DInv, Addressed
<1>11. sender'[s] = "ack" => Settled(carries[s])'
  <2> SUFFICES ASSUME sender'[s] = "ack" PROVE Settled(carries[s])'
    OBVIOUS
  <2>1. <<carries[s], request[s].post>> \in got'
    BY <1>1, <1>6 DEF Taken
  <2>2. url[HookOf(s)] \in Lossless => request[s].post = TRUE
    BY <1>2, <1>4 DEF DInv, Addressed
  <2>3. UNCHANGED <<hook, url, carries>>
    BY <1>2 DEF registryVars
  <2> QED BY <1>4, <2>1, <2>2, <2>3 DEF Settled, HookOf
<1>12. Acked' /\ FinishedWasTaken'
  BY <1>2, <1>5, <1>6, <1>11
  DEF DInv, Acked, Settled, FinishedWasTaken, queueVars, registryVars
<1> QED BY <1>3, <1>8, <1>9, <1>10, <1>12 DEF DInv

(* Handle has returned, and asynq settles the task. *)
LEMMA FinishKeeps ==
  ASSUME DInv, NEW s \in Senders, Finish(s)
  PROVE  DInv'
<1>1. /\ sender' = [sender EXCEPT ![s] = "idle"]
      /\ carries' = [carries EXCEPT ![s] = NoTask]
      /\ UNCHANGED <<got, request, faults, registryVars, dispatchVars, server>>
  BY DEF Finish, Release, Goto, Calm
<1>2. carries[s] \in Tasks
  BY DEF Finish, DInv, Holding
<1>3. Onward
  BY <1>2, QueueOnward DEF Finish, webhookDeliveryMaxRetry, DInv, TypeOK
<1>4. /\ \A t \in Tasks : task'[t] # "new" => task[t] # "new"
      /\ \A t \in Tasks : task'[t] = "finished" => task[t] = "finished" \/ Settled(t)
  <2>1. /\ \A t \in Tasks \ {carries[s]} : task'[t] = task[t]
        /\ task[carries[s]] # "new"
        /\ task'[carries[s]] = "finished" => sender[s] = "ack"
    BY <1>2 DEF Finish, DoneTask, FailTask, Move, DInv, TypeOK, QueueTypeOK
  <2> QED BY <1>2, <2>1 DEF DInv, Acked
<1>5. TypeOK'
  BY <1>1, <1>3
  DEF Onward, DInv, TypeOK, HttpTypeOK, registryVars, dispatchVars
<1>6. Known'
  BY <1>1, <1>4 DEF DInv, Known, registryVars, dispatchVars
<1>7. Holding' /\ Addressed'
  BY <1>1, <1>3, DeliveryAssumption
  DEF Onward, DInv, TypeOK, Holding, Addressed, HookOf, registryVars
<1>8. Acked' /\ FinishedWasTaken'
  BY <1>1, <1>4 DEF DInv, TypeOK, Acked, Settled, FinishedWasTaken, registryVars
<1> QED BY <1>5, <1>6, <1>7, <1>8 DEF DInv

(* The forwarder and the recoverer. *)
LEMMA QueueStepKeeps ==
  ASSUME DInv, NEW t \in Tasks, RetryDelivery(t) \/ RecoverDelivery(t)
  PROVE  DInv'
<1>1. UNCHANGED deliveryVars
  BY DEF RetryDelivery, RecoverDelivery
<1>2. Onward
  BY QueueOnward
  DEF RetryDelivery, RecoverDelivery, webhookDeliveryMaxRetry, DInv, TypeOK
<1>3. \A u \in Tasks : /\ task'[u] # "new" => task[u] # "new"
                       /\ task'[u] = "finished" => task[u] = "finished"
  BY DEF RetryDelivery, RecoverDelivery, ForwardTask, FailTask, Move, DInv, TypeOK,
         QueueTypeOK
<1>4. TypeOK'
  BY <1>1, <1>2
  DEF Onward, DInv, TypeOK, HttpTypeOK, deliveryVars, registryVars, dispatchVars,
      senderVars, processVars
<1>5. Known' /\ Holding' /\ Addressed' /\ Acked' /\ FinishedWasTaken'
  BY <1>1, <1>2, <1>3, DeliveryAssumption
  DEF Onward, DInv, TypeOK, Known, Holding, Addressed, HookOf, Acked, Settled,
      FinishedWasTaken, deliveryVars, registryVars, dispatchVars, senderVars
<1> QED BY <1>4, <1>5 DEF DInv

(* Requests that are cut off keep the types, and can only add to got. *)
LEMMA CutOffKeeps ==
  ASSUME TypeOK, Holding, NEW ss \in SUBSET Senders, CutOff(ss)
  PROVE  /\ HttpTypeOK'
         /\ \A s \in Senders \ ss : request'[s] = request[s]
         /\ got \subseteq got' /\ got' \subseteq Tasks \X BOOLEAN
<1>1. PICK seen \in SUBSET {s \in ss : sender[s] = "send"} :
        got' = got \cup {<<carries[s], request[s].post>> : s \in seen}
  BY DEF CutOff
<1>2. \A s \in seen : carries[s] \in Tasks /\ request[s].post \in BOOLEAN
  BY <1>1 DEF Holding, TypeOK, HttpTypeOK, Requests
<1>3. NoRequest \in Requests
  BY DEF NoRequest, Requests
<1>4. request' = [c \in Senders |-> IF c \in ss THEN NoRequest ELSE request[c]]
  BY DEF CutOff, Drop
<1>5. HttpTypeOK' /\ \A s \in Senders \ ss : request'[s] = request[s]
  BY <1>3, <1>4 DEF TypeOK, HttpTypeOK
<1> QED BY <1>1, <1>2, <1>4, <1>5 DEF TypeOK

(* Shutdown's deadline. *)
LEMMA AbortDeliveryKeeps ==
  ASSUME DInv, NEW s \in Senders, AbortDelivery(s)
  PROVE  DInv'
<1>1. /\ sender' = [sender EXCEPT ![s] = "idle"]
      /\ carries' = [carries EXCEPT ![s] = NoTask]
      /\ UNCHANGED <<faults, registryVars, dispatchVars, server>>
      /\ RequeueTask(carries[s]) /\ CutOff({s})
  BY DEF AbortDelivery, Release, Goto, Calm
<1>2. carries[s] \in Tasks
  BY DEF AbortDelivery, DInv, Holding
<1>3. Onward
  BY <1>1, <1>2, QueueOnward DEF DInv, TypeOK
<1>4. /\ HttpTypeOK'
      /\ \A r \in Senders \ {s} : request'[r] = request[r]
      /\ got \subseteq got' /\ got' \subseteq Tasks \X BOOLEAN
  BY <1>1, CutOffKeeps DEF DInv
<1>5. \A t \in Tasks : /\ task'[t] # "new" => task[t] # "new"
                       /\ task'[t] = "finished" => task[t] = "finished"
  BY <1>1, <1>2 DEF RequeueTask, Move, DInv, TypeOK, QueueTypeOK
<1>6. TypeOK'
  BY <1>1, <1>3, <1>4 DEF Onward, DInv, TypeOK, registryVars, dispatchVars
<1>7. Known'
  BY <1>1, <1>5 DEF DInv, Known, registryVars, dispatchVars
<1>8. Holding' /\ Addressed'
  <2>1. Holding'
    BY <1>1, <1>3, DeliveryAssumption DEF Onward, DInv, TypeOK, Holding
  <2>2. Addressed'
    BY <1>1, <1>4 DEF DInv, TypeOK, Addressed, HookOf, registryVars
  <2> QED BY <2>1, <2>2
<1>9. Acked' /\ FinishedWasTaken'
  BY <1>1, <1>4, <1>5 DEF DInv, TypeOK, Acked, Settled, FinishedWasTaken, registryVars
<1> QED BY <1>6, <1>7, <1>8, <1>9 DEF DInv

(* The process ends. *)
LEMMA HaltKeeps ==
  ASSUME DInv, CrashWorker \/ ExitWorker
  PROVE  DInv'
<1>1. /\ Halt
      /\ Fault \/ UNCHANGED faults
  BY DEF CrashWorker, ExitWorker
<1>2. /\ HttpTypeOK'
      /\ got \subseteq got' /\ got' \subseteq Tasks \X BOOLEAN
  BY <1>1, CutOffKeeps DEF Halt, DInv
<1>3. faults' \in 0 .. MaxFaults
  BY <1>1, FaultInRange DEF DInv
<1>4. /\ server' = "down"
      /\ sender' = [s \in Senders |-> "idle"]
      /\ carries' = [s \in Senders |-> NoTask]
      /\ dispatch' = [e \in Events |->
           IF dispatch[e] \in {"list", "push"} THEN "cut" ELSE dispatch[e]]
      /\ todo' = [e \in Events |-> {}]
      /\ UNCHANGED <<queueVars, registryVars, listed>>
  BY <1>1 DEF Halt
<1>5. TypeOK'
  BY <1>2, <1>3, <1>4 DEF DInv, TypeOK, QueueTypeOK, queueVars, registryVars
<1>6. Known' /\ Holding' /\ Addressed'
  BY <1>2, <1>4
  DEF DInv, Known, Holding, Addressed, queueVars, registryVars
<1>7. Acked' /\ FinishedWasTaken'
  BY <1>2, <1>4 DEF DInv, Acked, Settled, FinishedWasTaken, queueVars, registryVars
<1> QED BY <1>5, <1>6, <1>7 DEF DInv

(* SIGTERM, a start, and steps that change nothing. *)
LEMMA ServerKeeps ==
  ASSUME DInv, StopWorker \/ RestartWorker \/ UNCHANGED vars
  PROVE  DInv'
<1>1. /\ UNCHANGED <<queueVars, registryVars, dispatchVars, senderVars>>
      /\ server' \in {"up", "draining", "down"}
      /\ Fault \/ UNCHANGED faults
  BY DEF StopWorker, RestartWorker, vars, deliveryVars, processVars, DInv, TypeOK
<1>2. faults' \in 0 .. MaxFaults
  BY <1>1, FaultInRange DEF DInv
<1>3. TypeOK'
  BY <1>1, <1>2
  DEF DInv, TypeOK, QueueTypeOK, HttpTypeOK, queueVars, registryVars, dispatchVars,
      senderVars
<1>4. Known' /\ Holding' /\ Addressed' /\ Acked' /\ FinishedWasTaken'
  BY <1>1
  DEF DInv, Known, Holding, Addressed, HookOf, Acked, Settled, FinishedWasTaken,
      queueVars, registryVars, dispatchVars, senderVars
<1> QED BY <1>3, <1>4 DEF DInv

-----------------------------------------------------------------------------
LEMMA DInvHolds == Spec => []DInv
<1>1. Init => DInv
  <2> SUFFICES ASSUME Init PROVE DInv
    OBVIOUS
  <2>1. TypeOK
    <3>1. NoRequest \in Requests
      BY DEF NoRequest, Requests
    <3> QED BY <3>1, DeliveryAssumption
        DEF Init, QueueInit, HttpInit, TypeOK, QueueTypeOK, HttpTypeOK, TaskState
  <2>2. Known /\ Holding /\ Addressed /\ Acked /\ FinishedWasTaken
    BY DEF Init, QueueInit, HttpInit, Known, Holding, Addressed, Acked, FinishedWasTaken
  <2> QED BY <2>1, <2>2 DEF DInv
<1>2. DInv /\ [Next]_vars => DInv'
  <2> SUFFICES ASSUME DInv, [Next]_vars PROVE DInv'
    OBVIOUS
  <2>1. CASE \E h \in Hooks : Register(h) \/ \E u \in Users : Unregister(h, u)
    BY <2>1, RegistryKeeps
  <2>2. CASE \E e \in Events : Dispatching(e) \/ AbortDispatch(e)
    BY <2>2, DispatchingKeeps
  <2>3. CASE \E s \in Senders : Delivering(s)
    BY <2>3, LoadKeeps, SendKeeps, FinishKeeps DEF Delivering
  <2>4. CASE \E s \in Senders, t \in Tasks : Take(s, t)
    BY <2>4, TakeKeeps
  <2>5. CASE \E t \in Tasks : RetryDelivery(t) \/ RecoverDelivery(t)
    BY <2>5, QueueStepKeeps
  <2>6. CASE \E s \in Senders : AbortDelivery(s)
    BY <2>6, AbortDeliveryKeeps
  <2>7. CASE CrashWorker \/ ExitWorker
    BY <2>7, HaltKeeps
  <2>8. CASE StopWorker \/ RestartWorker \/ UNCHANGED vars
    BY <2>8, ServerKeeps
  <2> QED BY <2>1, <2>2, <2>3, <2>4, <2>5, <2>6, <2>7, <2>8 DEF Next
<1> QED BY <1>1, <1>2, PTL DEF Spec

(* webhook.go, dispatch.go, webhook_delivery.go: every variable keeps its
   type, whatever the webhooks, receivers and faults.                       *)
THEOREM TypeCorrect == Spec => []TypeOK
BY DInvHolds, PTL DEF DInv

(* webhook_delivery.go, the check of the status: no delivery leaves the queue
   as done unless a receiver took the event, or its webhook was deleted; where
   one on the way may answer 301-303, the receiver may have taken a GET without
   it.  It holds through redirects, shutdowns, crashes and recoveries.      *)
THEOREM NeverDroppedSilently == Spec => []FinishedWasTaken
BY DInvHolds, PTL DEF DInv

-----------------------------------------------------------------------------
LEMMA SilencedStays ==
  ASSUME DInv, [Next]_vars, NEW h \in Hooks, Silenced(h)
  PROVE  Silenced(h)'
<1>1. hook[h] = "deleted" /\ \A s \in Senders : sender[s] = "send" => carries[s][2] # h
  BY DEF Silenced, HookOf
<1> SUFFICES /\ hook'[h] = "deleted"
             /\ \A s \in Senders : sender'[s] = "send" => carries'[s][2] # h
  BY DEF Silenced, HookOf
<1>2. CASE \E g \in Hooks : Register(g) \/ \E u \in Users : Unregister(g, u)
  BY <1>1, <1>2 DEF Register, Unregister, senderVars, DInv, TypeOK
<1>3. CASE \E e \in Events : Dispatching(e) \/ AbortDispatch(e)
  BY <1>1, <1>3
  DEF Dispatching, DispatchJobEvent, ListHooks, PushDelivery, AbortDispatch, Idling,
      registryVars, senderVars
<1>4. CASE \E s \in Senders, t \in Tasks : Take(s, t)
  BY <1>1, <1>4 DEF Take, Goto, Calm, registryVars, DInv, TypeOK
<1>5. CASE \E s \in Senders : Delivering(s)
  <2>1. PICK s \in Senders : Load(s) \/ Send(s) \/ Finish(s)
    BY <1>5 DEF Delivering
  <2>2. CASE Load(s)
    BY <1>1, <2>2 DEF Load, Goto, Found, HookOf, Calm, registryVars, DInv, TypeOK
  <2>3. CASE Send(s)
    BY <1>1, <2>3 DEF Send, Goto, Calm, registryVars, DInv, TypeOK
  <2>4. CASE Finish(s)
    BY <1>1, <2>4 DEF Finish, Release, Goto, Calm, registryVars, DInv, TypeOK
  <2> QED BY <2>1, <2>2, <2>3, <2>4
<1>6. CASE \E t \in Tasks : RetryDelivery(t) \/ RecoverDelivery(t)
  BY <1>1, <1>6
  DEF RetryDelivery, RecoverDelivery, deliveryVars, registryVars, senderVars
<1>7. CASE \E s \in Senders : AbortDelivery(s)
  BY <1>1, <1>7 DEF AbortDelivery, Release, Goto, Calm, registryVars, DInv, TypeOK
<1>8. CASE CrashWorker \/ ExitWorker
  BY <1>1, <1>8 DEF CrashWorker, ExitWorker, Halt, registryVars
<1>9. CASE StopWorker \/ RestartWorker \/ UNCHANGED vars
  BY <1>1, <1>9
  DEF StopWorker, RestartWorker, vars, deliveryVars, registryVars, senderVars
<1> QED BY <1>2, <1>3, <1>4, <1>5, <1>6, <1>7, <1>8, <1>9 DEF Next

(* webhook_delivery.go, Handle: once a webhook is deleted and no handler is
   sending to it, no handler ever sends to it again.                        *)
THEOREM SilentOnceDeleted == Spec => DeletedStaysSilent
<1>1. DInv /\ [Next]_vars => [\A h \in Hooks : Silenced(h) => Silenced(h)']_vars
  BY SilencedStays
<1> QED BY <1>1, DInvHolds, PTL DEF Spec, DeletedStaysSilent

-----------------------------------------------------------------------------
(* A fan-out that is not under way has nothing left to do; with it, what a
   halt drops is only ever a fan-out that it cuts.                          *)
Rested == \A e \in Events : dispatch[e] # "push" => todo[e] = {}

Counted == Rested /\ IsFiniteSet(Missed) /\ IsFiniteSet(Unheard) /\ OneFaultOneLoss

LEMMA AtMostOneMore ==
  ASSUME NEW S, IsFiniteSet(S), NEW x, NEW T, T \subseteq S \cup {x}
  PROVE  /\ IsFiniteSet(T) /\ Cardinality(T) \in Nat /\ Cardinality(S) \in Nat
         /\ Cardinality(T) <= Cardinality(S) + 1
         /\ T \subseteq S => Cardinality(T) <= Cardinality(S)
<1>1. /\ IsFiniteSet(S \cup {x}) /\ Cardinality(S \cup {x}) <= Cardinality(S) + 1
      /\ Cardinality(S \cup {x}) \in Nat /\ Cardinality(S) \in Nat
  BY FS_AddElement, FS_CardinalityType
<1>2. /\ IsFiniteSet(T) /\ Cardinality(T) <= Cardinality(S \cup {x})
      /\ Cardinality(T) \in Nat
  BY <1>1, FS_Subset, FS_CardinalityType
<1>3. T \subseteq S => Cardinality(T) <= Cardinality(S)
  BY FS_Subset
<1> QED BY <1>1, <1>2, <1>3

(* A step that loses nothing, or one webhook or one event for one fault. *)
LEMMA Tally ==
  ASSUME Counted, TypeOK, Rested',
         \/ /\ Missed' \subseteq Missed /\ Unheard' \subseteq Unheard
            /\ Fault \/ UNCHANGED faults
         \/ /\ Fault /\ Unheard' \subseteq Unheard
            /\ \E t : Missed' \subseteq Missed \cup {t}
         \/ /\ Fault /\ Missed' \subseteq Missed
            /\ \E e : Unheard' \subseteq Unheard \cup {e}
  PROVE  Counted'
<1>1. /\ IsFiniteSet(Missed) /\ IsFiniteSet(Unheard) /\ faults \in Nat /\ MaxFaults \in Nat
      /\ Cardinality(Missed) + Cardinality(Unheard) <= MaxFaults - faults
  BY DeliveryAssumption DEF Counted, OneFaultOneLoss, TypeOK
<1>2. PICK t, e : /\ Missed' \subseteq Missed \cup {t} /\ Unheard' \subseteq Unheard \cup {e}
                  /\ Missed' \subseteq Missed \/ (Unheard' \subseteq Unheard /\ Fault)
                  /\ Unheard' \subseteq Unheard \/ (Missed' \subseteq Missed /\ Fault)
                  /\ Fault \/ UNCHANGED faults
  OBVIOUS
<1>3. /\ IsFiniteSet(Missed') /\ Cardinality(Missed') \in Nat /\ Cardinality(Missed) \in Nat
      /\ Cardinality(Missed') <= Cardinality(Missed) + 1
      /\ Missed' \subseteq Missed => Cardinality(Missed') <= Cardinality(Missed)
  BY <1>1, <1>2, AtMostOneMore
<1>4. /\ IsFiniteSet(Unheard') /\ Cardinality(Unheard') \in Nat
      /\ Cardinality(Unheard) \in Nat
      /\ Cardinality(Unheard') <= Cardinality(Unheard) + 1
      /\ Unheard' \subseteq Unheard => Cardinality(Unheard') <= Cardinality(Unheard)
  BY <1>1, <1>2, AtMostOneMore
<1>5. /\ faults' = faults \/ faults' = faults - 1
      /\ Fault => faults' = faults - 1
  BY <1>2 DEF Fault
<1>6. Cardinality(Missed') + Cardinality(Unheard') <= MaxFaults - faults'
  BY <1>1, <1>2, <1>3, <1>4, <1>5
<1> QED BY <1>3, <1>4, <1>6 DEF Counted, OneFaultOneLoss

LEMMA TaskPairs ==
  \A t \in Tasks : t[1] \in Events /\ t[2] \in Hooks /\ t = <<t[1], t[2]>>
BY DeliveryAssumption

(* Steps that leave the dispatchers alone. *)
LEMMA QuietCounted ==
  ASSUME Counted, DInv, UNCHANGED dispatchVars, Fault \/ UNCHANGED faults,
         \A t \in Tasks : task[t] # "new" => task'[t] # "new"
  PROVE  Counted'
<1>1. Rested'
  BY DEF Counted, Rested, dispatchVars
<1>2. Missed' \subseteq Missed /\ Unheard' \subseteq Unheard
  BY DEF Missed, Unheard, dispatchVars
<1> QED BY <1>1, <1>2, Tally DEF DInv

(* A dispatcher's own steps. *)
LEMMA DispatchingCounted ==
  ASSUME Counted, DInv, NEW e \in Events, Dispatching(e) \/ AbortDispatch(e)
  PROVE  Counted'
<1>1. /\ dispatch \in [Events -> {"due", "list", "push", "returned", "unlisted", "cut"}]
      /\ listed \in [Events -> SUBSET Hooks] /\ todo \in [Events -> SUBSET Hooks]
      /\ task \in [Tasks -> TaskState]
      /\ \A f \in Events : dispatch[f] # "push" => todo[f] = {}
  BY DEF DInv, TypeOK, QueueTypeOK, Counted, Rested
<1>2. CASE DispatchJobEvent(e) \/ AbortDispatch(e)
  <2>1. PICK p \in {"list", "returned", "cut"} :
          /\ dispatch' = [dispatch EXCEPT ![e] = p]
          /\ dispatch[e] \in {"due", "list"}
          /\ UNCHANGED <<queueVars, listed, todo, faults>>
    BY <1>2 DEF DispatchJobEvent, AbortDispatch
  <2>2. Rested'
    BY <1>1, <2>1 DEF Rested
  <2>3. Missed' \subseteq Missed /\ Unheard' \subseteq Unheard
    BY <1>1, <2>1, TaskPairs DEF Missed, Unheard, queueVars
  <2> QED BY <2>1, <2>2, <2>3, Tally DEF DInv
<1>3. CASE ListHooks(e)
  <2>1. dispatch[e] = "list" /\ UNCHANGED queueVars
    BY <1>3 DEF ListHooks
  <2>2. CASE /\ Fault
             /\ dispatch' = [dispatch EXCEPT ![e] = "unlisted"]
             /\ UNCHANGED <<listed, todo>>
    <3>1. Rested'
      BY <1>1, <2>1, <2>2 DEF Rested
    <3>2. Missed' \subseteq Missed /\ Unheard' \subseteq Unheard \cup {e}
      BY <1>1, <2>1, <2>2, TaskPairs DEF Missed, Unheard, queueVars
    <3> QED BY <2>2, <3>1, <3>2, Tally DEF DInv
  <2>3. CASE LET hs == ListByUserID(EventUser[e]) IN
               /\ listed' = [listed EXCEPT ![e] = hs]
               /\ todo' = [todo EXCEPT ![e] = hs]
               /\ dispatch' = [dispatch EXCEPT ![e] =
                                 IF hs = {} THEN "returned" ELSE "push"]
               /\ UNCHANGED faults
    <3>1. Rested'
      BY <1>1, <2>3 DEF Rested
    <3>2. Missed' \subseteq Missed
      <4>1. listed'[e] \ todo'[e] = {}
        BY <1>1, <2>3
      <4>2. \A f \in Events \ {e} :
              dispatch'[f] = dispatch[f] /\ listed'[f] = listed[f] /\ todo'[f] = todo[f]
        BY <1>1, <2>3
      <4> QED BY <2>1, <4>1, <4>2, TaskPairs DEF Missed, queueVars
    <3>3. Unheard' \subseteq Unheard
      BY <1>1, <2>3 DEF Unheard
    <3> QED BY <2>3, <3>1, <3>2, <3>3, Tally DEF DInv
  <2> QED BY <1>3, <2>2, <2>3 DEF ListHooks
<1>4. CASE \E h \in Hooks : PushDelivery(e, h)
  <2>1. PICK h \in Hooks, failed \in BOOLEAN :
          /\ dispatch[e] = "push"
          /\ IF failed THEN Fault /\ (UNCHANGED queueVars \/ EnqueueTask(<<e, h>>, FALSE))
                       ELSE EnqueueTask(<<e, h>>, FALSE) /\ UNCHANGED faults
          /\ todo' = [todo EXCEPT ![e] = todo[e] \ {h}]
          /\ dispatch' = [dispatch EXCEPT ![e] =
                            IF todo[e] \ {h} = {} THEN "returned" ELSE "push"]
          /\ UNCHANGED listed
    BY <1>4 DEF PushDelivery, Remaining
  <2>2. /\ UNCHANGED queueVars \/ EnqueueTask(<<e, h>>, FALSE)
        /\ Fault \/ (UNCHANGED faults /\ EnqueueTask(<<e, h>>, FALSE))
    BY <2>1, Zenon
  <2>3. /\ EnqueueTask(<<e, h>>, FALSE) => task' = [task EXCEPT ![<<e, h>>] = "pending"]
        /\ <<e, h>> \in Tasks
    BY DeliveryAssumption DEF EnqueueTask, Move
  <2>4. /\ \A t \in Tasks : task[t] # "new" => task'[t] # "new"
        /\ Fault \/ (UNCHANGED faults /\ task'[<<e, h>>] # "new")
    BY <1>1, <2>2, <2>3 DEF queueVars
  <2>5. Rested'
    BY <1>1, <2>1 DEF Rested
  <2>6. Missed' \subseteq Missed \cup {<<e, h>>} /\ Unheard' \subseteq Unheard
    BY <1>1, <2>1, <2>4, TaskPairs DEF Missed, Unheard
  <2>7. task'[<<e, h>>] # "new" => Missed' \subseteq Missed
    BY <2>6 DEF Missed
  <2> QED BY <2>4, <2>5, <2>6, <2>7, Tally DEF DInv
<1> QED BY <1>2, <1>3, <1>4 DEF Dispatching

LEMMA HaltCounted ==
  ASSUME Counted, DInv, CrashWorker \/ ExitWorker
  PROVE  Counted'
<1>1. /\ dispatch' = [e \in Events |->
           IF dispatch[e] \in {"list", "push"} THEN "cut" ELSE dispatch[e]]
      /\ todo' = [e \in Events |-> {}]
      /\ UNCHANGED <<queueVars, listed>>
      /\ Fault \/ UNCHANGED faults
  BY DEF CrashWorker, ExitWorker, Halt
<1>2. Rested'
  BY <1>1 DEF Rested
<1>3. \A e \in Events : dispatch'[e] # "cut" =>
         dispatch[e] = dispatch'[e] /\ todo[e] = {} /\ todo'[e] = {}
  BY <1>1 DEF Counted, Rested
<1>4. Missed' \subseteq Missed /\ Unheard' \subseteq Unheard
  BY <1>1, <1>3, TaskPairs DEF Missed, Unheard, queueVars
<1> QED BY <1>1, <1>2, <1>4, Tally DEF DInv

LEMMA CountedHolds == Spec => []Counted
<1>1. Init => Counted
  <2> SUFFICES ASSUME Init PROVE Counted
    OBVIOUS
  <2>1. Missed = {} /\ Unheard = {}
    BY TaskPairs DEF Init, Missed, Unheard
  <2>2. IsFiniteSet({}) /\ Cardinality({}) = 0
    BY FS_EmptySet
  <2>3. OneFaultOneLoss
    BY <2>1, <2>2, DeliveryAssumption DEF Init, OneFaultOneLoss
  <2> QED BY <2>1, <2>2, <2>3 DEF Init, Counted, Rested
<1>2. Counted /\ DInv /\ [Next]_vars => Counted'
  <2> SUFFICES ASSUME Counted, DInv, [Next]_vars PROVE Counted'
    OBVIOUS
  <2> DEFINE Later == \A t \in Tasks : task[t] # "new" => task'[t] # "new"
             Quiet == UNCHANGED dispatchVars /\ (Fault \/ UNCHANGED faults) /\ Later
  <2>0. Quiet => Counted'
    BY QuietCounted
  <2>1. CASE \E h \in Hooks : Register(h) \/ \E u \in Users : Unregister(h, u)
    BY <2>0, <2>1 DEF Register, Unregister, queueVars, processVars
  <2>2. CASE \E e \in Events : Dispatching(e) \/ AbortDispatch(e)
    BY <2>2, DispatchingCounted
  <2>3. CASE \E s \in Senders : Load(s) \/ Send(s)
    BY <2>0, <2>3 DEF Load, Send, Calm, queueVars
  <2>4. CASE \E s \in Senders : Finish(s) \/ AbortDelivery(s)
    <3>1. PICK s \in Senders : Finish(s) \/ AbortDelivery(s)
      BY <2>4
    <3>2. carries[s] \in Tasks
      BY <3>1 DEF Finish, AbortDelivery, DInv, Holding
    <3>3. Later
      BY <3>1, <3>2, QueueOnward
      DEF Finish, AbortDelivery, webhookDeliveryMaxRetry, Onward, DInv, TypeOK
    <3> QED BY <2>0, <3>1, <3>3 DEF Finish, AbortDelivery, Calm
  <2>5. CASE \E t \in Tasks : \/ RetryDelivery(t) \/ RecoverDelivery(t)
                              \/ \E s \in Senders : Take(s, t)
    <3>1. Later
      BY <2>5, QueueOnward
      DEF RetryDelivery, RecoverDelivery, Take, webhookDeliveryMaxRetry, Onward, DInv, TypeOK
    <3> QED BY <2>0, <2>5, <3>1
        DEF RetryDelivery, RecoverDelivery, Take, Calm, deliveryVars, processVars
  <2>6. CASE CrashWorker \/ ExitWorker
    BY <2>6, HaltCounted
  <2>7. CASE StopWorker \/ RestartWorker \/ UNCHANGED vars
    BY <2>0, <2>7 DEF StopWorker, RestartWorker, vars, deliveryVars, processVars, queueVars
  <2> QED BY <2>1, <2>2, <2>3, <2>4, <2>5, <2>6, <2>7 DEF Next, Delivering
<1> QED BY <1>1, <1>2, DInvHolds, PTL DEF Spec

(* What no step takes back: a delivery enqueued, a webhook deleted, a call that
   has returned.                                                            *)
Lasting ==
  /\ \A t \in Tasks : task[t] # "new" => task'[t] # "new"
  /\ \A h \in Hooks : hook[h] = "deleted" => hook'[h] = "deleted"
  /\ \A e \in Events : dispatch[e] = "returned" => dispatch'[e] = "returned"

LEMMA StepsLast ==
  ASSUME DInv, [Next]_vars
  PROVE  Lasting
<1> USE DEF Lasting
<1>1. CASE \E h \in Hooks : Register(h) \/ \E u \in Users : Unregister(h, u)
  BY <1>1 DEF Register, Unregister, queueVars, dispatchVars, DInv, TypeOK
<1>2. CASE \E e \in Events : Dispatching(e) \/ AbortDispatch(e)
  <2>1. PICK e \in Events : Dispatching(e) \/ AbortDispatch(e)
    BY <1>2
  <2>2. /\ hook' = hook /\ dispatch[e] # "returned"
        /\ \E d : dispatch' = [dispatch EXCEPT ![e] = d]
    BY <2>1
    DEF Dispatching, DispatchJobEvent, ListHooks, PushDelivery, AbortDispatch, Idling,
        registryVars
  <2>3. \/ UNCHANGED queueVars
        \/ \E h \in Hooks : EnqueueTask(<<e, h>>, FALSE)
    BY <2>1 DEF Dispatching, DispatchJobEvent, ListHooks, PushDelivery, AbortDispatch
  <2>4. \A t \in Tasks : task[t] # "new" => task'[t] # "new"
    BY <2>3 DEF EnqueueTask, Move, queueVars, DInv, TypeOK, QueueTypeOK
  <2> QED BY <2>2, <2>4 DEF DInv, TypeOK
<1>3. CASE \E s \in Senders : Load(s) \/ Send(s)
  BY <1>3 DEF Load, Send, Calm, queueVars, registryVars, dispatchVars
<1>4. CASE \E s \in Senders : Finish(s) \/ AbortDelivery(s)
  <2>1. PICK s \in Senders : Finish(s) \/ AbortDelivery(s)
    BY <1>4
  <2>2. carries[s] \in Tasks
    BY <2>1 DEF Finish, AbortDelivery, DInv, Holding
  <2>3. \A t \in Tasks : task[t] # "new" => task'[t] # "new"
    BY <2>1, <2>2, QueueOnward
    DEF Finish, AbortDelivery, webhookDeliveryMaxRetry, Onward, DInv, TypeOK
  <2> QED BY <2>1, <2>3 DEF Finish, AbortDelivery, Calm, registryVars, dispatchVars
<1>5. CASE \E t \in Tasks : \/ RetryDelivery(t) \/ RecoverDelivery(t)
                            \/ \E s \in Senders : Take(s, t)
  <2>1. \A t \in Tasks : task[t] # "new" => task'[t] # "new"
    BY <1>5, QueueOnward
    DEF RetryDelivery, RecoverDelivery, Take, webhookDeliveryMaxRetry, Onward, DInv, TypeOK
  <2> QED BY <1>5, <2>1
      DEF RetryDelivery, RecoverDelivery, Take, Calm, deliveryVars, registryVars, dispatchVars
<1>6. CASE CrashWorker \/ ExitWorker
  BY <1>6 DEF CrashWorker, ExitWorker, Halt, queueVars, registryVars
<1>7. CASE StopWorker \/ RestartWorker \/ UNCHANGED vars
  BY <1>7
  DEF StopWorker, RestartWorker, vars, deliveryVars, queueVars, registryVars, dispatchVars
<1> QED BY <1>1, <1>2, <1>3, <1>4, <1>5, <1>6, <1>7 DEF Next, Delivering

(* dispatch.go:43-47, 64-72: of fan-outs that the end of the process did not cut,
   a failed enqueue has cost its own webhook the event and a failed listing has
   cost one event, and there are no more of these together than there were
   faults: for any number of events, webhooks and faults.                   *)
THEOREM AFaultCostsOneLoss == Spec => []OneFaultOneLoss
BY CountedHolds, PTL DEF Counted
-----------------------------------------------------------------------------
(* A retry was charged: only below the limit of its caller. *)
RetriesCharged ==
  \A t \in Tasks : task[t] = "retry" => retried[t] <= webhookDeliveryMaxRetry

(* backoff.go: the powers of two that the attempts of a delivery reach. *)
LEMMA Doubling ==
  ASSUME NEW attempt \in -1 .. 4
  PROVE  LET power(a) == 2 ^ (IF a < 0 THEN 0 ELSE a) IN
         /\ power(attempt) \in {1, 2, 4, 8, 16}
         /\ attempt > 0 => power(attempt) = 2 * power(attempt - 1)
<1>1. attempt \in {-1, 0, 1, 2, 3, 4}
  OBVIOUS
<1>2. 2 ^ 0 = 1 /\ 2 ^ 1 = 2 /\ 2 ^ 2 = 4 /\ 2 ^ 3 = 8 /\ 2 ^ 4 = 16
  OBVIOUS
<1>3. CASE attempt = -1
  BY <1>2, <1>3
<1>8. CASE attempt = 0
  BY <1>2, <1>8
<1>4. CASE attempt = 1
  BY <1>2, <1>4
<1>5. CASE attempt = 2
  BY <1>2, <1>5
<1>6. CASE attempt = 3
  BY <1>2, <1>6
<1>7. CASE attempt = 4
  BY <1>2, <1>7
<1> QED BY <1>1, <1>3, <1>4, <1>5, <1>6, <1>7, <1>8

(* The clamp comes before the conversion, which never overflows. *)
LEMMA Clamped ==
  ASSUME NEW total \in Nat
  PROVE  Capped(total) = IF total >= maxDelay THEN maxDelay ELSE total
BY BackoffAssumption DEF Capped, Duration

(* The next delay, jitter included, is the one before it or longer. *)
LEMMA DelaysGrow ==
  ASSUME NEW attempt \in -1 .. 4, NEW j \in 0 .. jitterMax - 1
  PROVE  /\ Total(attempt, j) \in Nat \ {0}
         /\ attempt > 0 => \A i \in 0 .. jitterMax - 1 :
              /\ Total(attempt - 1, i) \in Nat
              /\ Total(attempt - 1, i) < Total(attempt, j) + jitterMax
<1> DEFINE power(a) == 2 ^ (IF a < 0 THEN 0 ELSE a)
<1>1. /\ power(attempt) \in {1, 2, 4, 8, 16}
      /\ attempt > 0 => power(attempt) = 2 * power(attempt - 1)
  BY Doubling
<1>2. attempt > 0 => power(attempt - 1) \in {1, 2, 4, 8, 16}
  <2>1. attempt > 0 => attempt - 1 \in -1 .. 4
    OBVIOUS
  <2> QED BY <2>1, Doubling
<1>3. \A a, i : Total(a, i) = baseDelay * power(a) + i
  BY DEF Total
<1> HIDE DEF power
<1>4. Total(attempt, j) \in Nat \ {0}
  BY <1>1, <1>3, BackoffAssumption
<1>5. ASSUME attempt > 0, NEW i \in 0 .. jitterMax - 1
      PROVE  /\ Total(attempt - 1, i) \in Nat
             /\ Total(attempt - 1, i) < Total(attempt, j) + jitterMax
  BY <1>1, <1>2, <1>3, <1>5, BackoffAssumption
<1> QED BY <1>4, <1>5

LEMMA ChargedSlowsDown ==
  ASSUME TypeOK, RetriesCharged
  PROVE  RetriesSlowDown
<1> SUFFICES ASSUME NEW t \in Tasks, task[t] = "retry", NEW d \in Delays(retried[t] - 1)
             PROVE  /\ 0 < d /\ d <= maxDelay
                    /\ retried[t] - 1 > 0 =>
                         \A before \in Delays(retried[t] - 1 - 1) : before < d + jitterMax
  BY DEF RetriesSlowDown
<1> DEFINE attempt == retried[t] - 1
<1>1. attempt \in -1 .. 4
  BY DEF TypeOK, QueueTypeOK, RetriesCharged, webhookDeliveryMaxRetry
<1>2. PICK j \in 0 .. jitterMax - 1 : d = Capped(Total(attempt, j))
  BY DEF Delays
<1>3. Total(attempt, j) \in Nat \ {0}
  BY <1>1, DelaysGrow
<1>4. 0 < d /\ d <= maxDelay
  BY <1>2, <1>3, Clamped, BackoffAssumption
<1>5. ASSUME attempt > 0, NEW before \in Delays(attempt - 1)
      PROVE  before < d + jitterMax
  <2>1. PICK i \in 0 .. jitterMax - 1 : before = Capped(Total(attempt - 1, i))
    BY DEF Delays
  <2>2. Total(attempt - 1, i) \in Nat /\ Total(attempt - 1, i) < Total(attempt, j) + jitterMax
    BY <1>1, <1>5, DelaysGrow
  <2> QED BY <1>2, <1>3, <2>1, <2>2, Clamped, BackoffAssumption
<1> QED BY <1>1, <1>4, <1>5

LEMMA RetriesChargedHolds == Spec => []RetriesCharged
<1>1. Init => RetriesCharged
  BY DEF Init, QueueInit, RetriesCharged
<1>2. DInv /\ RetriesCharged /\ [Next]_vars => RetriesCharged'
  <2> SUFFICES ASSUME DInv, RetriesCharged, [Next]_vars PROVE RetriesCharged'
    OBVIOUS
  <2>1. ASSUME NEW t \in Tasks,
               \/ EnqueueTask(t, FALSE) \/ DequeueTask(t) \/ ForwardTask(t) \/ DoneTask(t)
               \/ FailTask(t, webhookDeliveryMaxRetry) \/ FailTask(t, 0) \/ RequeueTask(t)
        PROVE  RetriesCharged'
    BY <2>1
    DEF EnqueueTask, DequeueTask, ForwardTask, DoneTask, FailTask, Exhausted, RequeueTask,
        Move, RetriesCharged, webhookDeliveryMaxRetry, DInv, TypeOK, QueueTypeOK
  <2>2. UNCHANGED queueVars => RetriesCharged'
    BY DEF queueVars, RetriesCharged
  <2>3. CASE \E h \in Hooks : Register(h) \/ \E u \in Users : Unregister(h, u)
    BY <2>2, <2>3 DEF Register, Unregister
  <2>4. CASE \E e \in Events : Dispatching(e) \/ AbortDispatch(e)
    <3>1. CASE \E e \in Events, h \in Hooks : PushDelivery(e, h)
      <4>1. PICK e \in Events, h \in Hooks : UNCHANGED queueVars \/ EnqueueTask(<<e, h>>, FALSE)
        BY <3>1 DEF PushDelivery
      <4>2. <<e, h>> \in Tasks
        BY DeliveryAssumption
      <4> QED BY <2>1, <2>2, <4>1, <4>2
    <3> QED BY <2>2, <2>4, <3>1
        DEF Dispatching, DispatchJobEvent, ListHooks, AbortDispatch
  <2>5. CASE \E s \in Senders : Load(s) \/ Send(s)
    BY <2>2, <2>5 DEF Load, Send
  <2>6. CASE \E s \in Senders : Finish(s) \/ AbortDelivery(s)
    <3>1. PICK s \in Senders : Finish(s) \/ AbortDelivery(s)
      BY <2>6
    <3>2. carries[s] \in Tasks
      BY <3>1 DEF Finish, AbortDelivery, DInv, Holding
    <3> QED BY <2>1, <3>1, <3>2 DEF Finish, AbortDelivery
  <2>7. CASE \E t \in Tasks : \/ RetryDelivery(t) \/ RecoverDelivery(t)
                              \/ \E s \in Senders : Take(s, t)
    BY <2>1, <2>7 DEF RetryDelivery, RecoverDelivery, Take
  <2>8. CASE CrashWorker \/ ExitWorker \/ StopWorker \/ RestartWorker \/ UNCHANGED vars
    BY <2>2, <2>8 DEF CrashWorker, ExitWorker, Halt, StopWorker, RestartWorker, vars
  <2> QED BY <2>3, <2>4, <2>5, <2>6, <2>7, <2>8 DEF Next, Delivering
<1> QED BY <1>1, <1>2, DInvHolds, PTL DEF Spec

(* backoff.go: no retry of a delivery is due in the past or later than
   maxDelay, nor, by more than the jitter, sooner than the one before it.   *)
THEOREM RetriesBackOff == Spec => []RetriesSlowDown
BY RetriesChargedHolds, ChargedSlowsDown, DInvHolds, PTL DEF DInv
=============================================================================
