# Verification of notiq

notiq is a job queue: an API process takes jobs over HTTP, stores them in
Postgres and pushes a task for each to Redis (through asynq); a worker process
runs the tasks, retries those that fail, and notifies the owner's webhooks.
Nothing ties the two stores together: every operation is a sequence of separate
calls to Postgres and to Redis, made by requests and handlers that interleave
and can fail or die between any two of them. That is what is modelled here,
checked with TLC and, for the safety properties that matter most, proved with
TLAPS. Paths are relative to
`src/`; `PROJECT.json` maps each definition to the lines it stands for.

## Inventory

| Part | State | Operations | What makes it correct | Module |
|---|---|---|---|---|
| jobs table (`internal/repository/postgres/job_repository.go`) | a row per job: status, retry_count, fixed columns; unique index on the key | Create, GetByID, GetByIdempotencyKey, UpdateStatus, UpdateRetryCount, Delete | one row per key; each call atomic, all unconditional | `JobRepository` |
| asynq's queue (`pkg/queue`) | where each task is, how often it was retried | Enqueue, DeleteTask; dequeue, forward, recover, archive inside asynq | at-least-once: at most MaxRetry + 1 attempts | `TaskQueue` (external), `JobQueue` |
| job handlers (`internal/worker/handlers`) | the `*entity.Job` each attempt read | Prepare, Handle, Complete, Fail, Dead | counters agree; outcome recorded, then announced; the job comes to rest | `JobHandlers`, `JobWorker`; promises: `JobDelivery` |
| worker process (`cmd/worker`, `internal/worker/processor.go`) | up, draining or down; one pool of goroutines | SIGTERM, drain, abort, forced exit, crash, restart | no attempt disappears without a trace | `JobHandlers`, `WebhookDelivery`, `JobNotification` |
| job use case (`internal/usecase/job`, HTTP handler) | one request's progress | Enqueue, Cancel | one run per key; what was answered is kept; a cancellation holds | `JobApi`, `JobSystem` |
| admin use case (`internal/usecase/admin`) | one request's progress | RetryDeadJob | budget restored; a refused retry leaves the job dead | `JobApi`, `JobSystem` |
| webhook registry (`internal/usecase/webhook`, repository) | live and soft-deleted webhooks, their URLs | Create, List, Delete by owner | deletion silences | `WebhookDelivery` |
| dispatcher (`internal/usecase/notification/dispatch.go`) | progress of a fan-out | DispatchJobEvent | a failed enqueue costs one webhook the event, a failed listing all of them; a dead worker costs nobody the news a job ends with | `WebhookDelivery`, `JobNotification` |
| delivery handler (`internal/worker/handlers/webhook_delivery.go`) | progress of a delivery | Handle | delivered, or the webhook is gone | `WebhookDelivery` |
| guarded HTTP client (`pkg/safehttp`) | the request under way | Do: resolve, dial guard, redirect cap | refused ranges are looked for in the address connected to; two redirects are followed, three are not | `SafeHttp` |
| backoff (`pkg/retry`) | none | Backoff | clamp before conversion; delays grow | `Backoff` |
| signature, router, middleware, health, config, logging, metrics | none that jobs depend on | | | not modelled |

The API and the worker share only the table and the queue. A handler calls the
dispatcher, which lists webhooks and puts deliveries on the same queue.

The hard behaviour, with its lines, is under `hazards` in `PROJECT.json`:
check-then-write in `Prepare`, `Cancel` and `RetryDeadJob`; three counters
(`retry_count`, asynq's `retried`, and the attempts really made) kept by
separate steps; writes that fail after they were committed; compensations that
fail themselves; shutdown with handlers running; a fan-out cut in the middle and
done again; deletion racing with delivery; addresses that change between a check
and its use.

## Modules

```
JobRepository   TaskQueue ------+    SafeHttp  Backoff
        \        /              |       |      /
         JobQueue               WebhookDelivery ------- MCWebhookDelivery
         /      \                      :
 JobHandlers    JobApi                 : INSTANCE
   |      \      /                     :
   |      JobSystem --- MCJobSystem    :
   |                                   :
 JobWorker ----------------------- JobNotification ---- MCJobNotification
   |    :
   |    :.. INSTANCE JobDelivery
MCJobWorker

proofs: JobHandlersProofs > JobAccountsProofs > JobWorkerProofs > JobDeliveryProofs
        JobHandlersProofs > JobSystemProofs
        JobSystemProofs + JobAccountsProofs > JobRowsProofs
        WebhookDeliveryProofs
        JobDeliveryProofs + WebhookDeliveryProofs (INSTANCE) > JobNotificationProofs
```

Modules build on one another by EXTENDS: they are about the same rows and the
same queue, and an action of a process names the calls it makes.

* **JobRepository**: one operator per repository call. Every call has a `...Fails`
  form that covers a missing row, a call that failed without effect and one that
  failed after its commit (the answer was lost, or the request's context was
  cancelled meanwhile). A soft-deleted job does not exist in this code: `Delete`
  is `Unscoped`. Columns that no statement updates are one record, `details`.
* **TaskQueue**: asynq as an external component, one operator per Lua script.
  Assumed of it: a task id is unique, a task is handed to one slot at a time,
  `retried` grows by one per failed attempt and the task is archived when it has
  reached MaxRetry, a shutdown gives a task back without charging it, and the
  recoverer charges the task of a dead worker like a failure. A lease that
  expires under a live worker, and asynq's 30-minute default timeout of a
  handler, are not modelled.
* **JobQueue**: a task belongs to a job; the clamp of `max_retries`; the clock
  passing `scheduled_at`.
* **JobHandlers**: the worker process. `pc[w]` is the next outside call of the
  handler in slot `w`: `fetch` and `mark` (Prepare), `run` (the body of Handle),
  `complete` or `bury` (the status write of Complete, Dead), `tell` (dispatch),
  `count` and `fail` (the two writes of Fail), `ack` or `nack` (what the handler
  returned). `local[w]` is the `*entity.Job` Prepare returned, as stale as in the
  code. A handler whose call fails takes the early return that is in the code.
  `ran`, `announced` and `lost` are history: `lost[t]` counts the attempts of `t`
  that ended without having recorded a count or announced a death.
* **JobWorker**: the worker alone, started where Enqueue leaves a job.
* **JobDelivery**: what the worker promises, without slots, processes, stale
  copies or asynq's counter: a job is queued, worked on or gone; its row is written
  only while it is worked on; dead needs the budget used up; what is told is what
  the row says; and a job leaves only when its owner was told, unless two attempts
  were missed. `JobWorker` implements it under the mapping `JD`: `place` is where
  the job's task is, `count` is `retry_count`, `told` is `announced`, `missed` is
  `lost`. Most of what asynq and the process do is a stutter or one of `Attempt`,
  `Return`, `Leave`.
* **JobApi**: requests, one step per outside call: Enqueue (`lookup`, `create`,
  `refetch`, `push`, `rollback`), Cancel (`cancelRead` to `cancelTask`) and
  RetryDeadJob (`retryRead` to `reread`, `undoStatus`, `undoCount`).
* **JobSystem**: both processes over the same table and queue.
* **WebhookDelivery**: registry, fan-out and deliveries. `JobHandlers!Dispatch` is
  where a handler calls the dispatcher; here each call is an event `e`, and the
  delivery it enqueues for webhook `h` is the task `<<e, h>>`. The worker process
  of this side stops, drains, aborts, exits, crashes and restarts like the one of
  `JobHandlers`. An abort cancels the context of a delivery, so that a request is
  cut off, with or without its receiver having it; in a fan-out only the listing
  has a context, so that the enqueueing goes on until the process ends (`cut`). A
  listing that fails loses the event for every webhook (`unlisted`). Some
  webhooks may be registered before the first event.
* **SafeHttp**: the loop inside `http.Client.Do`. Each request resolves its host
  anew (`Resolves` says to which kinds of address it can), the dial guard looks at
  the address about to be connected to and refuses the ranges `isBlocked` names (the
  others that are not public, `special` here, it lets through), and the answer
  (`Replies`) ends the call or
  redirects it, until three requests were made. A 301-303 turns the POST into a
  GET without the event.
* **Backoff**: the delay before the next attempt, for every outcome of the jitter,
  with the conversion to a 64-bit Duration where the code has it.
* **JobNotification**: an attempt and its fan-out in one process. `JobWorker`
  with its call of the dispatcher taken apart: a handler at `tell` starts an event
  of `W` (an instance of `WebhookDelivery` whose tasks live in variables of their
  own) and goes on when it has returned; `call` says which event a handler waits
  for, `about` which job an event is about and with which status, `Owner` whose it
  is. Jobs and deliveries
  take goroutines from one pool of `Concurrency`, and stops, aborts and crashes hit
  both sides at once. Each step is one of `JobWorker` or leaves it alone, and one of
  `WebhookDelivery` (with a fault for each stop or crash) or leaves that alone, so
  that it implements the worker and what holds of the deliveries alone holds in it.

## What the runs check

| Run | World | Properties | States |
|---|---|---|---|
| `worker` | one job of five kinds (receiver that may refuse with budgets 3 by default, 1 and 2; payload that never decodes; a scheduled job that cannot fail), two slots, 2 database faults, 2 stops or crashes | `TypeOK`, `RetryAccounting`, `ExhaustedAnnounced`, `ExhaustedDead`, `RetryCountBelowMax`, `FinishedAnnounced`, `KeepsPromises`; with fairness `OutcomeAnnounced`, `JobConcludes` | 298,666 |
| `system_idempotency` | three requests under one key, one slot, one fault of each kind, one crash of each process, honest Redis errors | `TypeOK`, `OneRunPerKey`, `CreatedIsKept`, `NoOrphan` | 124,960 |
| `system_cancel` | one job, perhaps scheduled, two cancellations, one fault of each kind, lost replies | `NothingStranded`, `ExhaustedAnnounced`, `CancelIsFinal` | about 1.14 million |
| `system_retry` | one job with two attempts, two manual retries, a Redis fault that may be a lost reply | `RetryCountBelowMax`, `NoOrphan` | about 2.18 million |
| `system_liveness` | one job, perhaps scheduled, one cancellation, one Redis fault, one stop, with fairness | `JobsEnd` | 7,201 |
| `delivery` | two events (one without owner), two webhooks of one owner (one is redirected twice to a receiver that accepts; the other is unbuildable, or refuses, times out, redirects in a loop or to the first one's receiver, at an address that changes), one slot, two faults, stops or crashes, with fairness | `TypeOK`, `OneFaultOneLoss`, `FinishedWasTaken`, `RetriesSlowDown`, `DeletedStaysSilent`, `DeliveredOrDeleted` | 167,566 |
| `notification` | one scheduled job that may fail, two webhooks of its owner that take requests (one by a redirect), a pool of one goroutine, one stop or crash, with fairness | `LeftToldAll`, `EventsAccounted`, `OwnerHears` | 401,237 |

Every property of a passing run has a mutant in `PROJECT.json`, a plausible bug
of the code under which TLC finds it violated.

What they say:

* `retry_count` and asynq's counter drift apart only by attempts that were lost
  (`RetryAccounting`), and because asynq makes one attempt more than
  `max_retries`, one lost attempt of a task is made up for: the owner is told
  that a job is dead before asynq gives it up (`ExhaustedAnnounced`). Without a
  lost attempt the row says so too (`ExhaustedDead`).
* The lookup, the unique index and the rollback together keep a key to one run
  (`OneRunPerKey`), as long as an error of Redis means that nothing was queued.
* A cancellation written while no attempt and no manual retry of the job is
  under way is final (`CancelIsFinal`), and no cancellation strands a job that
  an attempt has taken back from it (`NothingStranded`).
* A refused task leaves no pending row, after Enqueue and after RetryDeadJob
  (`NoOrphan`), as long as the compensating writes succeed. Whatever fails, a
  client that was told its job is created has a row, and a task if the row is
  pending (`CreatedIsKept`): the danger is all in what is answered with an error.
* All of the worker together keeps the promises of `JobDelivery` (`KeepsPromises`).
* A fan-out that fails in part loses no more than failed: one webhook for a failed
  enqueue, one event for a failed listing (`OneFaultOneLoss`). One that the end of
  the process cuts short is done again, as a whole, by the attempt that follows:
  each live webhook has a delivery of the news the job left the queue with, `done`
  if its task finished, `dead` if asynq gave it up (`LeftToldAll`). Not of every
  status the row ever had: when a job told dead is brought to done by asynq's
  extra attempt, and the process ends inside that second fan-out, the task is
  archived and a webhook may never get the `done`.
* An owner is told of a job at most twice, and once more per stop or crash
  (`EventsAccounted`), and that news reaches every receiver that takes requests,
  although jobs and deliveries wait for one goroutine (`OwnerHears`).
* A delivery is done when its webhook is gone or a receiver took the event; where a
  receiver on the way may answer 301-303, perhaps only a GET without it
  (`FinishedWasTaken`). One receiver's refusals cost another nothing
  (`DeliveredOrDeleted`), and no attempt follows sooner than the one before it did,
  but for the jitter (`RetriesSlowDown`).

Five runs state what the documentation says, and TLC refutes it by what the code does:

| Run | Says | Happens |
|---|---|---|
| `worker_archived` | README.md:460-461, exhausted retries mean dead | the attempt after the last one marks the dead job processing; a crash in it archives the task and the row stays processing |
| `worker_dead_again` | README.md:461, a dead job waits for the administrator | asynq makes one attempt more than `max_retries`, and it takes the dead job back to processing, with no fault at all |
| `system_cancel_late` | README.md:463, cancelled means never picked up | cancel overwrites the status of an attempt that began after its check |
| `system_orphan` | README.md:582, a failed enqueue never orphans a row | the INSERT's answer is lost, or the rollback's DELETE fails |
| `system_lost_reply` | README.md:15, keys prevent duplicate jobs | Redis queues the task, the answer is lost, the task runs, the rollback frees the key, the client tries again |

### Bounds

`MaxDbFaults`, `MaxRedisFaults`, `MaxApiDowns`, `MaxDowns` and `MaxFaults` bound the
faults of a behaviour; everything else is finite by itself, since a client sends
one request, a task has a bounded number of attempts and a stop is a fault. Two
slots and one job are enough for the worker: slots meet only through the tasks
of one job, and a job has one task unless it is retried by hand. `system_retry`
has three tasks of one job. Two faults are needed to separate
`ExhaustedAnnounced` from its wrong variant without the `lost <= 1`; three
clients are needed for a request that replays, one that rolls back and one that
takes the freed key. `DeliveredOrDeleted` needs fewer faults than the six
attempts of a delivery; its receiver is behind two redirects, as many as the cap
allows. `notification` has four events because one job, with one
stop or crash, makes at most three calls of the dispatcher: the bound that
`EventsAccounted` states, so that the fourth would be seen; a pool of one is the
smallest, where jobs and deliveries wait for each other. `Backoff` is scaled: base
2, cap 20, jitter 2, and a Duration that holds 31, so that the cap (attempt 4) and
the overflow of the conversion (attempt 4 too, at 32) are inside the six attempts
of a delivery, as they are inside the attempts a job may ask for in the code.
No symmetry is used.

### Fairness

Weak fairness of each handler, of each fan-out and delivery, of each request
once accepted, of asynq's handing out, forwarding and recovering of each task, of
the clock, of the exit of a process that drains (main's own timeout ends it) and
of the restart. Goroutines of a live process are scheduled, asynq polls all of its
sets, and `docker-compose.yml:49,63` restarts both processes (`restart:
unless-stopped`). Crashes, stops, aborts, faults and requests are not fair. That
`Dequeue` is fair per task asks of asynq that it does not starve a pending task:
it takes them in order; in `JobNotification`, where jobs and deliveries wait for
one pool, both are finite in number. The premises of `OutcomeAnnounced`, `JobConcludes` and
`JobsEnd` set aside behaviours in which an attempt is lost, in which the job may
really never conclude (run `worker_archived`).

## What is proved

For all values of the constants that satisfy the `ASSUME`s of the modules:

| Module | Theorem | Property |
|---|---|---|
| `JobWorkerProofs` | `TypeCorrect` | `Spec => []TypeOK` |
| | `CountStaysBelowMax` | `Spec => []RetryCountBelowMax` |
| | `FinishedOnlyAnnounced` | `Spec => []FinishedAnnounced` |
| | `RetriesAccountedFor` | `Spec => []RetryAccounting` |
| | `ArchivedOnlyAnnounced` | `Spec => []ExhaustedAnnounced` |
| `JobDeliveryProofs` | `ArchivedOnlyDead` | `Spec => []ExhaustedDead` |
| | `WorkerDelivers` | `Spec => KeepsPromises`, the refinement |
| `JobSystemProofs` | `SystemTypeCorrect` | `Spec => []TypeOK` |
| | `CancelledForGood` | `Spec => CancelIsFinal` |
| | `KeyRunsOnce` | `Spec => []OneRunPerKey`, assuming `~LostReply` |
| | `CountInBudget` | `Spec => []RetryCountBelowMax` |
| `JobRowsProofs` | `CreationHolds` | `Spec => []CreatedIsKept`, assuming `NoManualRetry` |
| | `NoRowOrphaned` | `Spec => []NoOrphan`, assuming `NoManualRetry` |
| | `NobodyStranded` | `Spec => []NothingStranded`, assuming `NoManualRetry` |
| | `SilenceNeedsLosses` | `Spec => []ExhaustedAnnounced`, assuming `NoManualRetry` |
| `WebhookDeliveryProofs` | `TypeCorrect` | `Spec => []TypeOK` |
| | `NeverDroppedSilently` | `Spec => []FinishedWasTaken` |
| | `AFaultCostsOneLoss` | `Spec => []OneFaultOneLoss` |
| | `SilentOnceDeleted` | `Spec => DeletedStaysSilent` |
| | `RetriesBackOff` | `Spec => []RetriesSlowDown` |
| `JobNotificationProofs` | `WorkerKept` | `NotificationSpec => Spec`, the worker's |
| | `FewEventsPerJob` | `NotificationSpec => []EventsAccounted` |
| | `OwnersEnqueued` | `NotificationSpec => []LeftToldAll` |
| | `PromisesKept` | `NotificationSpec => KeepsPromises` |
| | `DeliveriesSafe` | what is proved of the deliveries, in the composition |

`JobHandlersProofs` proves of every step of the worker, whatever shares the table
and the queue with it, that it keeps the types and that a slot at work holds an
active task which no other slot holds (`SlotsInv`). `JobAccountsProofs` proves of
the same steps that they keep a job's books and its outcome; the worker alone and
the two processes together both build on it.

**The books and the outcome.** `AccountsInv` says that a job has one task
(`OneTaskPerJob`), that the count a handler writes is the row's count plus one
(`InSync`), that Fail is reached only below the last attempt (`Counting`), that an
archived task was retried MaxRetry times (`Spent`), that the count stays below the
budget (`BelowMax`), and `RetryAccounting`. None of these is inductive alone:
another handler could spoil `InSync`, which takes one task per job and one slot
per task. The bookkeeping of an attempt is in two lemmas, `OwedMoves` and
`OwedFree`: what a step of a handler, and the return of a task, do to the attempts
that are accounted for but not charged. `OutcomeInv` says what a handler may rely on
at each of its calls (`Knows`: past `mark` the row says processing, at `tell` the
outcome that is announced), that a death is announced only when the budget is used
up (`DeathsDue`), and that it stands when asynq gives the task up (`DeathsLast`);
each of these up to a request that took the job back meanwhile (`Says`). By
arithmetic, an archived task with at most one lost attempt leaves no room for
silence (`SilenceTakesTwo`): the task has one attempt more than the budget, and a
count below the budget does not cover them.

**The worker.** `JobWorkerProofs` puts `AccountsInv` together with what holds only
without the API: nobody cancels (`Rows`), and a handler returns nil only after
Complete announced (`Acked`), from which `FinishedAnnounced` follows. `IInv` is
the inductive invariant.

**The refinement.** In `JobDeliveryProofs`, `OInv` is `IInv` and `OutcomeInv`; with
no request to take a job back, what an attempt knows is what the row says
(`KnownIsSound`). Each action of the worker is mapped to a step of `JobDelivery` or
to a stutter, one lemma per kind of step, and `ArchivedOnlyDead` comes from the
same invariant.

**Both processes.** In `JobSystem` a job has several tasks and its row is written
by requests too, so that `IInv` does not hold there. `CancelledForGood` needs
only `SlotsInv` and the types: a firmly cancelled job has no handler and no retry
that may still write, and none can start. `KeyRunsOnce` rests on `KeyInv`: a row
under a key is the only one (`OneRowPerKey`), what runs was queued, what is queued
or was dead has a row, and a request that creates or retries works on a row of
its own making or on a queued one. Its assumption is needed: with lost replies
the property fails (`system_lost_reply`). `CountInBudget` rests on `BudgetInv`:
what is queued, or about to be, was created, so that its budget is fixed
(`Created`); Fail is reached only below the last attempt by the handler's own copy
(`Affordable`), however stale; and the count a rollback restores is one that the
row had (`Remembered`).

**The two stores.** `JobRowsProofs` relates a row to its task, where no client may
ask for a manual retry (`NoManualRetry`; such a retry resets a row and pushes a
second task, and `system_retry` checks `NoOrphan` with it). Its first invariant, `KeptInv`,
adds to `BudgetInv` three facts. As long as the row of a queued task says pending,
no attempt came past Prepare (`Untouched`), so that every attempt asynq charged was
lost and the task is live or has lost more than its budget (`AllLost`). A request
whose creation was answered queued the job (`Answered`), and only its own rollback
could take the row away (`Owning`). Without faults, a pending row that was not
queued is at its creator's push or rollback (`Tended`). Lost replies are allowed.

`NobodyStranded` needs to know how far each attempt came, too. `EndInv` is `KeptInv`,
the books and the outcome (an enqueue and a cancellation keep both: the first
writes a row before its task is queued, the second never writes a count, and
`Says` allows for what it does to the status) and `RestInv`: a handler returns nil
for a job that is done, and a finished task has such a job behind it (`AcksHold`,
`FinishedRest`), a job whose task was never queued was never worked on
(`Unstarted`). So a job that is not at rest and has no live task was not queued
yet, and then its creator is still at it. The one difficult case is Cancel of a
scheduled job, which takes the task back after it wrote the status: its task cannot
have been handed out before its time (`Early`), so that the row it takes the task
from is still cancelled (`Withdrawn`). `SilenceNeedsLosses` comes from the books.

**Deliveries.** `WebhookDeliveryProofs` rests on `DInv`: only registered webhooks
are listed and have deliveries (`Known`); a slot at work holds a delivery that was
enqueued (`Holding`); a request under way goes to a URL and, as long as no receiver
on its way can have dropped it, carries the event (`Addressed`); a slot at `ack`
has a deleted webhook or a taken request behind it (`Acked`).
`AFaultCostsOneLoss` counts: each step of a dispatcher adds at most one webhook to
those that miss the event, or one event to those that were never listed, and only
with a fault (`Tally`, `Counted`; a dispatcher that does not push has nothing left
to do, so that a halt only cuts the others, `Rested`), with the cardinality lemmas of
the library. `RetriesBackOff` needs that a delivery which waits for its next attempt
was charged at most five (`RetriesCharged`): for the exponents that leaves, the
solver knows the powers (`Doubling`), so that the capped delay grows but for the
jitter (`DelaysGrow`) and the conversion is made of a number that fits (`Clamped`),
for every base, cap and jitter.

**One process.** `JobNotificationProofs` shows that each step of the composition is a
step of `JobWorker` or leaves it alone, and a step of `WebhookDelivery` or leaves
that alone, with a fault for each stop or crash (`JobStep`, `DeliveryStep`). So the
invariants of both sides hold in it (`Sides`), and so do their theorems
(`PromisesKept`, `DeliveriesSafe`). What relates the two sides is proved on top of
that. `CallsInv`: a handler that waits for the dispatcher is at `tell`, and waits for
an event about its job, with the status it wrote, and of its owner. `EventsInv` keeps the books of the
events: those sent, and those attempts counted as failures, were paid for by an
attempt asynq charged, by the one at hand, or by a stop or crash (`Paid`, `Room`);
and while the budget is not used up, there is at most the event of the attempt at
hand or of a finished job (`Kept`). The worker's counts turn that into
`EventsAccounted`, at most two and one for each stop or crash. `ToldInv`: as long
as no call of the delivery side failed, a fan-out that an attempt waits for has
missed nobody (`Reaching`), and whatever was announced of a job, an event with that
status reached every webhook of the owner that is still there (`Informed`), which
deliveries and deletions keep. `LeftToldAll` follows, since a task that has left the
queue was announced: as done if it finished (`FinishedAnnounced`), as dead if it was
archived with at most one attempt lost (`ExhaustedAnnounced`).

TLC finds `IInv`, `OInv`, `KeyInv`, `BudgetInv`, `KeptInv`, `AccountsInv`, `OutcomeInv`,
`RestInv`, `DInv`, `Counted`, `CallsInv`, `EventsInv` and `ToldInv` to hold in the worlds
of the runs too.

Only model-checked: `NoOrphan` beside manual retries, which give a job several tasks
and write the count behind a handler's back, so that `AccountsInv` fails there
(`NothingStranded`, `CreatedIsKept` and the API's `ExhaustedAnnounced` are checked and
proved without them);
and all liveness (`OutcomeAnnounced`, `JobConcludes`, `JobsEnd`,
`DeliveredOrDeleted`, `OwnerHears`), which is out of the prover's reach.

## Not modelled, and why

* Reads that change nothing (List, GetByID over HTTP, statistics, health).
* Timestamps, payloads and secrets, beyond whether a payload decodes.
* Postgres and Redis losing acknowledged writes.
* The statement of an aborted handler that is still on its way when its task is
  given back: an abort comes before or after a statement, never within.
* How long a delay lasts: the forwarder may act at any time. `Backoff` says which
  delays there can be, not when they end.
* The order of an owner's events: none is promised, and deliveries are retried
  independently, so that none is kept.
* Signatures and generated secrets (pure cryptography), the router, API-key check,
  middleware, configuration, logging and metrics: they keep no state that a job or
  a delivery depends on.

## Plan

Done, in this order: the repository, queue, handlers and API; their composition;
the worker's proofs; deliveries with the client and the backoff below them; the
abstract specification and its refinement; the composition of attempts and
fan-outs; the proofs about both processes and about deliveries; the proofs about
the composition, and about how cancelled and enqueued jobs come to rest.

Left to prove: `NoRowOrphaned` and `CreationHolds` beside manual retries, by adding
to `KeptInv` what RetryDeadJob does between its reset and its push.

Left, should the code change: an outbox (AUDIT_REMAINING.md:122) would replace
Enqueue's rollback and let `NoOrphan` be stated, and proved, with faults.
