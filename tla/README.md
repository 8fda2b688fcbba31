# A verification project for webhook-ai-router

The router accepts signed webhook deliveries over HTTP, deduplicates them by
`Idempotency-Key`, stores each as a row, and queues a job. A worker classifies
the event with an LLM, sends it to every configured target, and records how it
went, or buries it in `dead_letter_events` after its last try.

This directory holds TLA+ models of that program, the TLC runs that check them
on small instances, and theorems about them that TLAPS proves for instances of
any size. Paths below are relative to `src/webhook_ai_router/` of the
repository. `PROJECT.json` maps every definition to the lines it models and
lists the runs, the mutants, the hazards and the theorems.

## Inventory

| Part | State | Operations | Interacts with |
|---|---|---|---|
| Webhook intake, `api/routes/webhooks.py` | none of its own; one coroutine per request | `receive_webhook` | idempotency store, verification, parsing, event repository, arq pool |
| Idempotency store, `core/idempotency.py` | Redis: response cache (24 h), per-key lock (60 s) | `get`, `set`, `lock`, `unlock`, expiry | intake of every app process |
| Event repository, `services/events.py`, `db/models.py` | Postgres: `webhook_events` (unique `idempotency_key`), `dead_letter_events` (unique `original_event_id`) | `create_received`, `mark_*`, `insert_dead_letter`; each commits on its own | intake, worker task |
| arq (library) | Redis: queue, in-progress keys, try counters | enqueue, start, finish, retry, cancel | intake, worker task |
| Worker task, `workers/tasks.py` | none of its own; up to ten runs per process | `process_webhook`, `_handle_failure` | arq, repository, LLM client, dispatch |
| LLM clients, `services/llm.py` | one call's attempts | `classify_lead` of two providers | worker task |
| Dispatch, `services/dispatch.py` | one call's attempts per target | `dispatch`, `_send_one_with_retry` | worker task, targets |
| Verification, `core/security.py`; parsing, `services/ingest.py` | none | `verify_hmac`, `parse_webhook_event` | intake |
| Application, `main.py`, `api/` | connections, counters | lifespan, problem responses, health, readiness, request id | all |
| Worker process, `workers/tasks.py` | connections | `_on_startup`, `_on_shutdown` | worker task |
| Metrics, logging, settings, factories, migrations | counters; none; none; none; schema | | |

What is hard here is the same in most parts: every `await` is a point where
another request or run may act, where a call may fail with or without its
effect, where the process may die or be told to stop, and where a TTL or a
timeout may strike. Four stores (cache, lock, tables, queue) have to agree and
no transaction spans two of them.

What makes the parts correct:

- Intake: one job per key for ever; all 202 answers for a key agree; a 202
  means row and job exist; the worker finds the row of its job; the lock
  excludes and is never lost; a 409 means what it says; a committed row gets
  its job.
- Worker: one run per event at a time; a failure that is final stays final; a
  dead letter and its event agree; no task ends without its outcome on record;
  every event is settled; every job leaves the queue.
- Dispatch: one result per target, bounded overrun, always returns.
- LLM clients: transient errors are retried to the last attempt, verdicts are
  not; bounded time.
- Router, both together: a key is settled once, and what was answered with 202
  is settled; the lead of a key goes into one dispatch while no worker stops, and
  into a bounded number otherwise.
- Verification: a punctual delivery is not too old, up to the second its
  timestamp is cut to; a captured one cannot be accepted for long.
- Application and worker process: each close independent of the others, nothing
  left open, a received-counter that agrees with the responses, a readiness
  probe that tells the truth.

## Modules

| Module | Models | Extends or instantiates |
|---|---|---|
| `IdempotentIntake` | abstract: what the senders of a key are promised | |
| `Ingest` | the intake with the stores it awaits | instantiates `IdempotentIntake` |
| `MCIngest` | symmetry for TLC | extends `Ingest` |
| `Reenqueue` | the intake with a history of failed enqueues, for one finding | extends `MCIngest` |
| `Received` | the counter `webhook_received_total` over the intake | extends `Ingest` |
| `IngestProofs` | theorems about `Ingest` and `Received` | extends `Received`, `TLAPS` |
| `EventFate` | abstract: an accepted event is settled once; under interruptions a dispatched one is reopened | |
| `Worker` | the worker task, the repository's marks, arq as far as used | instantiates `EventFate` |
| `MCWorker` | symmetry for TLC | extends `Worker` |
| `WorkerProofs` | theorems about `Worker` | extends `Worker`, `TLAPS` |
| `WorkerFateProofs` | theorems about the fate of events: without faults, while no worker stops, and under all hazards | extends `WorkerProofs`, `TLAPS` |
| `Router` | intake and worker over the shared table and queue | extends `Worker`, instantiates `Ingest`, `EventFate` |
| `RouterProofs` | theorems about `Router` | extends `Router`, `WorkerFateProofs`, `TLAPS`, instantiates `IngestProofs` |
| `Dispatch` | one call of `dispatch` against a clock | |
| `DispatchProofs` | theorems about `Dispatch` | extends `Dispatch`, `TLAPS` |
| `Classify` | one call of `classify_lead` against a clock | |
| `ClassifyProofs` | theorems about `Classify` | extends `Classify`, `TLAPS` |
| `Job` | classify, then dispatch, on one clock | extends `Classify`, instantiates `Dispatch` |
| `JobProofs` | theorems about `Job` | extends `Job`, `ClassifyProofs`, `TLAPS`, instantiates `DispatchProofs` |
| `Lifespan` | startup and shutdown of the application and of the worker | |
| `Verify` | the timestamp window of `verify_hmac`, on two clocks | |
| `Application` | `Lifespan`, with `GET /readyz` and `Verify` while it serves | extends `Lifespan`, `Verify` |
| `ApplicationProofs` | theorems about these three | extends `Application`, `TLAPS` |

A definition that follows a comment beginning with `Mutant:` is not part of a
specification. It is the definition after it with a plausible bug, and names
what a property is able to notice.

### Ingest

A request stands at the await it is about to perform (`pc`): `get`, `lock`,
then inside the `try` block `recheck`, `verify`, `insert`, `enqueue`, `store`,
and `unlock` in the `finally`. An action performs the await and runs the code
up to the next one. `answer` is the response that has been built; inside the
`try` block it is only sent once `finally` is over, so `LeaveTry` sets it and
goes to `unlock`, and an `unlock` that raises replaces it by a 500. `cache` and
`lock` are the two Redis keys, `rows` the table, `jobs` every job ever pushed.

The effects of the calls (`SetLock`, `InsertRow`, `PushJob`, ...) are separate
operators because a call that raises may have had its effect: `CallFails` lets
each call fail with the effect and without. `VerifyFails` covers the refusals of
`verify_hmac` (401) and of the parser (422), and a missing secret or a broken
body (500). `Crash` stops a request at any await, without `finally`. The
constant `Hazards` says which faults a run permits, so that a property which
needs their absence says so in its run.

`Reenqueue` adds one history variable, `enqueueFailed`, so that what the handler
says about a failed enqueue is asked of failed enqueues only. A `create_received`
that raises after its commit leaves the same 409 behind, and is not meant there.

### IdempotentIntake

A key is sent with any number of requests. One of them is queued for it, once and
for good (`Queue`), and only then may requests be acknowledged, all with that one
(`Accept`); any request may be refused (`Refuse`) or stay without an answer.
`Ingest` maps the pushed jobs to the queued event of a key, and the `answer` of a
finished request to its reply: an answer that has been built but is still behind
`unlock` has not been given.

### Received

`Received` adds one variable, `counted`: the series of
`webhook_received_total` each request was counted in. The handler increments
for the responses it builds itself (`Replay`, `Accept`), before `finally`; the
exception handler of `main.py` increments for every `WebhookError` (`Refuse`),
after `finally` has unlocked. Each action of `Received` is one or more actions of
`Ingest` with the increment that goes with it. A 500 after a success stays
counted as that success, and no 500 is counted as a refusal.

### Worker

A slot is one of the concurrent runs of all worker processes. Its `pc` names
the await of `process_webhook` it stands at; `return` and `raise` are how the
task ended, before arq has dealt with it. `rows` holds the columns the worker
writes. `_handle_failure` is two awaits, `StoreFailed` and `Bury`, because the two
writes commit separately.

`taken` counts, for each event and target, the dispatches in which the target
took the event. It does not count requests: within one dispatch an attempt whose
answer is lost is repeated, and the target takes the event again. For the same
reason a target that took the event need not be among those that `succeeded`,
and only the latter decide whether the dispatch is good.

arq is external and modelled from what the code relies on: a job stays queued
until it is finished; a run holds an in-progress key that other workers respect
and that outlives a crash; the try counter belongs to the job, and a job
started once too often is finished without a run. The in-progress key of arq
lives longer than `job_timeout`, so `InProgressExpires` waits for the end of the
run. The locked arq version, 0.28, runs a job again for `Retry`, `RetryJob` and
cancellation only. The task raises neither of the first two, so a job whose task
raised is finished (`TaskRaised`), and a further try follows only a shutdown or a
crash.

Faults: a database call raises, `classify_lead` raises something else than
`LLMClassificationError`, `job_timeout` cancels the run, the worker is shut
down, the process dies. Each may strike at any await, and `CutOff` lets that
await have had its effect or not.

### Router

`Router` keeps the state of both modules and has two steps. `TakeIn` is a step of
`Ingest`; if it pushes a job, `HandOver` puts the event into the worker's queue
and its row at "received" in the same step. `WorkOff` is any step of the worker
but its `Receive`, the stand-in for the intake in `Worker`. The event id that a
request mints is named by the request, so `Requests` is `Events`. The row appears
to the worker with the push and not with the commit, which nobody can tell: only
a run of a queued job looks at it.

### Dispatch, Classify, Job

Each has a clock, `now`, and for every coroutine a `timer`: when the request was
sent, when the sleep ends, or when it finished. `Tick` cannot pass the end of a
sleep or the longest attempt. tenacity is external: `stop` is asked after a
failed attempt and before the sleep. `Dispatch` has one coroutine per target;
`Gather` ends the call. `Classify` models the replies of each provider by the
facts its client tests. `Job` runs one after the other without a timeout, to say
how long a run would take.

The longest attempt (`AttemptMax`, `CallMax`) is an assumption. httpx's timeouts
bound each read, not a whole response, and the Anthropic SDK has retries of its
own; both make the real bound larger, never smaller.

### EventFate

Each event is absent, pending, or settled: dispatched, dead or failed. It is
accepted once and settled once. `Worker` maps a row to its fate: a dispatched row
is dispatched, a row with a dead letter is dead, a failed row whose job is gone
is failed, and any other row is pending. So a failed row whose job is still queued
is pending: its run may yet bury it, or another try may follow. "Failed" is not
what the task's comments mean to end in, see `WorkerNoRetry`; it is where the
program leaves an event whose first try fails.

That is the promise while no worker is stopped or dies (`Spec`). A run that is cut
off after its `mark_dispatched` leaves the job queued, and the next run takes the
event up again: `InterruptedSpec` adds `Reopen`, from dispatched to pending. Nothing
leads out of dead or failed, and nothing from absent past pending.

`Router` maps a key to the fate of the one event queued for it, and implements
`EventFate` over keys: what clients name an event by is accepted once and settled
once.

### Lifespan, Verify, Application

`Lifespan` is one process, of either program (`kind`). `todo` is what is left to
open, or to close, in the order of the code; `visible` is what the code that
closes has a reference to, which for the worker is what `ctx` contains. The
application's `finally` closes each resource in a `try` of its own, so
`CloseFails` goes on; the worker's `_on_shutdown` does not. arq is external: it
calls `_on_shutdown` also after a startup that raised, and closes its own pool
after it.

`Verify` is one signed delivery that may arrive any number of times, on the
receiver's clock `now` and a sender's clock that is off by `drift`. `time.time()`
has a fraction and the timestamp has none, so the clocks run in ticks, of which
`TicksPerSecond` make a second, and `ToSecond` cuts to whole seconds. The theorems
hold for every `TicksPerSecond`.

`Application` joins them: while the application serves, probes and deliveries go
on. `/readyz` is two awaits, `CheckRedis` and `CheckDatabase`, and the backends
fail and recover between them; `always` and `sometime` record what was up since
the probe began. `pooled` is the engine's idle connection, which a restart of
Postgres makes stale; `pool_pre_ping` is why `CheckDatabase` does not mind. The
three parts share no state but the phase of the process, so the run explores
them side by side and the theorems reduce to each.

## Runs

Every run ends with a state where nothing is left to do (a finite set of
requests or events has been served), so deadlock is not checked.

| Run | Instance | Shows |
|---|---|---|
| `IngestFaults` | `Received`; 3 requests, 1 key, all hazards, fair | `OneJobPerKey`, `AcceptedIsDurable`, `PersistedBeforeQueued` survive everything; `KeyIsServedOnce`: the refinement of `IdempotentIntake` under all hazards; `CountedAsAnswered` and `AcceptedSeriesCountsJobs`: the counter agrees with the responses and counts events once; `LockIsOwned`: only a request inside its `try`, one that died or one answered 500 leaves a lock to its TTL; `PersistedEventuallyQueued` although locks expire under their holders |
| `IngestQuiet` | `Received`; 3 requests, 1 key, no faults, fair | `MutualExclusion`; `ConstraintNeverFires`: the second lookup suffices; `ConflictMeansInFlight`; `LockEventuallyFree` by `finally` alone |
| `WorkerFaults` | 2 events, 2 slots, 1 target, 2 tries, all hazards, fair | `OneRunPerEvent`, `DeadLetterIsFinal`, `BuriesOnce`, `DispatchedMeansDelivered`, `NoFailureSwallowed`, `DispatchesBounded`, `AttemptsNeverDecrease`, `QueueDrains`; `FateUnderFaults`: the refinement of `EventFate` with `Reopen` |
| `RouterFate` | `Router`; 2 requests, 2 keys, locks expire; 1 slot, 2 targets, 2 tries, no fault in the worker; fair | `NothingLost`, `OneDispatchPerKey`, `AcceptedIsSettled`; `FateIsSettled` and `KeyIsSettledOnce`: the refinements of `EventFate` by events and by keys, with its fairness |
| `DispatchBudget` | 2 targets, budget 4, wait 3, attempt 2, fair | `OverrunBounded`, `OneResultPerTarget`, `CallReturns` |
| `JobBound` | 4 attempts of 2, wait 3; then 1 target, budget 4 | `GivesUpOnlyWhenExhausted`, `CallBounded`, `JobBounded` |
| `Application` | both programs, opens and closes fail; 3 ticks to a second, window 1 s, drift up to 4 ticks, 9 ticks | `ClosesAreIndependent`, `WorkerLeavesEngineAtMost`, `ReadyTellsTheTruth`, `PunctualIsNotExpired`, `AcceptedWithinTwoWindows` |

Three requests are enough for a holder, a successor that took an expired lock,
and a third that the holder's `unlock` lets in. They share one key, because that
is where they meet; that keys do not disturb each other is part of `RouterFate`
with its two keys, and of the theorems, which are about any set of keys.
`Received` wraps the actions of `Ingest`, so TLC counts their steps under `Proceed`,
`Refuse` and so on; with `-coverage` every one of them is seen to happen in
`IngestFaults`, each fault and expiry included.

Two tries are the least with a first try that is not the last; two events on two
slots in `WorkerFaults` is the least where a slot can take the wrong one. It has one
target, because two take TLC most of the time a run may take: the outcomes of a
dispatch in which one target fails and another succeeds occur in `RouterFate`, which
has two, and `DispatchedIsDelivered` and `DispatchesAreBounded` are theorems about
any set of targets. In `RouterFate` no run is cut off, so no event gets a second try,
and one slot is enough: the runs of two events share nothing, and that two slots do
not run one event is `OneRunPerEvent`. It leaves the intake only its lock expiry,
the hazard that lets two requests of one key work at once; the theorems about
`Router` cover all of them.

The budgets and waits of `DispatchBudget` and `JobBound` are small but keep their
order: the wait is below the budget, an attempt below the wait. In `Application`
three ticks to a second let a timestamp lose more than half of one, the drift
exceeds the window, so that a delivery can be expired on arrival, and the time
exceeds two windows, so that it can expire after its last acceptance.

Five runs check what a comment or a document says, and fail:

| Run | What is said | What happens |
|---|---|---|
| `IngestRetry` | after a failed enqueue "a retry can re-enqueue" | `enqueue_job` raises, but the row is already committed; every retry gets a 409 and the event never gets a job |
| `IngestForeignUnlock` | `unlock` is "safe to call if not held" | it deletes the lock of whoever holds it |
| `WorkerNoRetry` | a failed dispatch is retried by arq | arq finishes a job whose task raised: the event stays failed after its first try, without a dead letter |
| `WorkerLLMRaises` | any classification failure is recorded as failed | provider errors other than `LLMClassificationError` leave the row in processing |
| `JobTimeout` | `job_timeout` exceeds the dispatch budget and the LLM's time | in ticks of 10 s: up to four LLM attempts and a dispatch that overruns its budget by one sleep and one attempt take longer than 180 s |

The lock of `IngestForeignUnlock` changes in the step of the `unlock` itself: that a
lock expires, or that a successor takes it, is not what the run complains of.

## Fairness

`Ingest`: an await of a live request is answered, with a result or an exception,
and the event loop schedules the coroutine (`WF` of each request's next step);
Redis expires locks (`WF`). Clients, crashes and single faults are owed nothing.
Cache expiry has no fairness, no property needs it. Nor does any property rest on
the expiry of locks alone: `LockEventuallyFree` is checked where no TTL runs out
and so is owed to `finally`, and what a crash leaves to the TTL is `LockIsOwned`.

`Worker`: a live run moves on, arq's poll loop starts or discards a job that can
be started as long as it can, Redis expires an in-progress key no run stands
behind. Weak fairness of the start suffices because slots become free again: a
job that stays startable is started, whichever slot is free.

`Router`: the two together. A client that is answered 202 owes nothing more; the
event is settled by the fairness of the worker alone.

`Received` adds no fairness of its own: an increment is part of the step it
counts.

`Application`: none. Its properties are invariants.

`Dispatch`: time passes and a coroutine that can act does (`WF` of their
disjunction: time cannot pass a deadline, so it waits for them).

## Proofs

`IngestProofs`, `WorkerProofs` and `WorkerFateProofs` hold for every set of
requests, keys, events, slots and targets, every `MaxTries` and every `Hazards`,
unless a theorem says otherwise; `DispatchProofs`, `ClassifyProofs` and `JobProofs`
for every number of targets and attempts and every length of a wait, an attempt, a
request and a budget; `RouterProofs` for all that the first two are quantified over
and every `IntakeHazards`; `ApplicationProofs` for every window, drift, time and
number of ticks in a second. The assumptions are those named `ConstantsAssumption`
in the modules, `FanoutAssumption` in `Job`, `IntakeAssumption` in `Router`,
`FaultsAssumption` in `Lifespan` and `VerifyAssumption` in `Verify`: `None` is no
member of the sets, `Hazards` names known hazards, `MaxTries` and the other numbers
are naturals, positive except the number of targets, the waits and the bounds of
`Verify`.

Ingest. The invariant `Bookkeeping` says that a row is named after the request
that inserted it, that there is one row per key, and that a request past
`insert` has its own row and, past `enqueue`, its own job. The Redis lock does not
occur in it: `QueuesOnce`, `AnswersConsistently`, `AcceptsDurably` and
`PersistsFirst` rest on the unique constraint and the order of the awaits only,
and hold whatever expires. `ExcludesMutually` assumes that no lock expires and
uses a second invariant: whoever is inside holds the lock. `RecheckSuffices`
assumes that no call fails and nothing expires, and adds that a persisted key
has its response cached, or belongs to a request that holds the lock or died
with it. `ConflictsAreReal` assumes no faults and adds the converse of the second
invariant, that a lock names a request that is inside. `LocksAreOwned` assumes nothing: a lock
is set by a request that goes inside, and leaves `finally` behind only by an
`unlock` that raised, which is a 500, or not at all.

`ServesOnce` is the refinement of `IdempotentIntake`, under all hazards. It needs
`PushedIsPast`, that a request whose job is pushed is past its push, so that no
request pushes twice, and `Prepared`, that an answer which waits behind `unlock` is
a refusal or a 202, and that a request which has not arrived has no key. That the
202 names the event of the key's one job is `AcceptedIsDurable` and
`OneJobPerKey`. `StepIsPromised` then maps the
push to `Queue`, the end of a request to `Accept` or `Refuse`, the arrival to
`Send`, and everything else to a stutter, a request that dies included.

Received. `Accounted` says, for each place a request can be at, what it may have
been counted in: nothing before its response is built, the series of a success
from then on, and at `unlock` nothing yet if the response is a refusal. From it:
`CountsItsAnswers`. `CountsEvents` adds `OneJobPerKey` and that a request counted
as accepted is past its push.

Worker. The safety properties are not inductive. `Ownership` adds that a run's
job is queued and in progress and that its `jobTry` is the job's counter; that
no row is ahead of the counter; that a run at `bury` is the last try of a row it
has marked failed; and that no run touches an event that has a dead letter.
`CutOffWrites` says what one await may do to the tables, `RunKeepsTables` that
this keeps the invariant, so each action only has to be shown to be such an
await. From it: `RunsOnce`, `DeadLettersStand`, `BuriesAtMostOnce`,
`AttemptsMonotone`. `DispatchedIsDelivered` adds that a run at `mark_dispatched`
has an answer of a target.

`DispatchesAreBounded` needs `DispatchesPaid`: the dispatches in which a target took
an event are paid for by the tries that are used up, and a run that has yet to
dispatch has its own try in hand. A cut-off between the answer and the row does not
matter to it, and neither do attempts that are repeated within one dispatch.
`NoRetryNoDeadLetter` is about `MaxTries > 1` without shutdowns and crashes.
`TriedIsRunning` says that a job that has a try behind it is being run, so every run
is a first one; such a run never stands in front of the dead-letter table.

`QueueIsNeverStuck` and `StepsSpendTries` are the safety half of `QueueDrains`.
The first: for a queued job there is always a slot that can take it, a run that
can go on, or a key of a dead run that can expire; `BuriesOnce` is needed, since
a run in front of a unique constraint could not go on. The second is the measure:
a step takes an event in, lets one go, uses up one of its bounded tries, drops an
in-progress key, or takes one run forward (`StepsLeft`). What is left to TLC is
that fairness makes one of these steps happen. `CallIsNeverStuck` and
`CallSpendsItself` say the same of a call of dispatch for `CallReturns`, where
what is bounded is the time.

The fate of events. `SwallowsNoFailure` is an invariant under all hazards, shown
slot by slot (`Recorded`): `SlotsMove` says which steps let a task end, `Ownership`
what a run at `bury` has in its row, and `OthersStand` that the step of one run leaves
the row of another alone, since no two runs have one event.

`LosesNothing` (`Hazards = {}`) adds `RaisesItsOwn`, that a task which raises does so
with an error of its own, and so with its failure in the row; and by `TriedIsRunning`
no queued job is out of tries, so arq discards none (`NoDiscard`).

`ImplementsInterruptedFate` uses `Ownership` only, so it holds for all hazards: by
`StepWrites` a step changes tables and queue as a POST, as one await of a run, or by
letting a job go, and by `WritesMoveFate` and `LettingGoSettles` that moves the fate
of the step's own event, which is not dead.

`ImplementsEventFate` assumes that no worker is stopped or dies. `NoRerun` is what
that buys: a task has an open event in front of it until it settles it
(`TaskIsOpen`), so no run starts from a dispatched event and `Reopen` never happens.
Both are the safety part of the refinement; the fairness of `EventFate` stays with
TLC.

Router. The router is an `Ingest` because the worker stays off the intake's
state; the theorems about `Ingest` are cited through the instance `Front` of
`IngestProofs`. It is a `Worker` for a reason: a push hands over an event whose
job was never pushed before (`PushedIsPast`), and of which the worker therefore
has never heard (`Shared`: no row, no dead letter, no run, taken by no target), as the
`Receive` of `Worker` asks (`HandOverReceives`). So `RouterIsWorker`, and all
theorems about `Worker` hold in the router. `DispatchesKeysOnce` joins one job per
key with one dispatch per event, while no worker stops or dies, and so does
`RouterImplementsKeyFate`, which turns the refinement by events into one by keys: a
step that pushes a job accepts its key, any other moves a key as it moves the key's
event. `RouterImplementsInterruptedKeyFate` does so under all hazards of both sides.

Four more theorems about the router assume nothing about hazards: `RunsKeysOnce`
(no two slots work for one key), `WorksOnCommittedRows` (the row a run looks for is
there, under the right key), `DispatchesKeysBounded` (the targets are sent one event
of a key, each in at most `MaxTries` dispatches) and `BuriesKeysOnce` (one dead letter per key, and
none of a key that is dispatched). They join an invariant of `Worker` with the
unique constraint of the intake, through `WorkWasPushed`: whatever the worker
holds in queue, slot or table was pushed by its request. They have no run
of their own; with `RouterSpec`, two requests, one key, two slots, two tries and
every hazard of both sides TLC finds them kept in 269 424 states.

Dispatch. `Pacing` places every coroutine in time: a request begins before the
budget and the longest wait have passed and is no older than the longest
attempt, a sleep ends before the two have passed, a result exists exactly when
the coroutine is done, and the clock of a call that has begun is within the
bound of the three. The bound on the clock is needed in itself because the last
coroutine's times are gone when it is done. `StepsKeepPacing` reduces an action
of a coroutine to where it leaves that coroutine. From it: `TypeCorrect`,
`OverrunIsBounded`, `ReportsEveryTarget`.

Classify. `Paced` counts time in laps of one request and one wait: the n-th
request begins within n - 1 laps, the sleep after it ends within n. `LastLap`
is the arithmetic that the last request then ends within `CallBounded`. From it:
`CallIsBounded`, `RetriesToTheLast`.

Job. `JobPaced` joins the two: `Paced` until dispatch is called, `Pacing` all
the time, and in between that the call's start is within the bound of
`classify_lead`. The steps of the stages are those proved for each of them, cited
through the instance `Fan` of `DispatchProofs`; what is left is that a stage does
not disturb the other. From it: `RunIsBounded`, and the properties of `Classify`
for the whole run.

Application. Each property is an invariant of one part that the others leave
alone. `InWindow`: a verdict is about the present moment, and the first acceptance
is as close to the timestamp as the present one, so that the two are within two
windows; `CutsLessThanASecond` is what a timestamp loses. `Probed`: what answered was up at some time since the probe began, and
what did not was not up all that time. `Lived`: a startup stands at one of the
places of the code (`OpenedSoFar`); a shutdown has left open only what is still to
be closed, or what raised, or the engine of a half-started worker (`Excused`).

Only model-checked: everything temporal beyond invariants and action properties
(liveness under fairness and ENABLED are beyond the prover): `LockEventuallyFree`,
`PersistedEventuallyQueued`, `QueueDrains`, `CallReturns`, `AcceptedIsSettled`,
and the fairness in `FateIsSettled` and `KeyIsSettledOnce`, whose safety parts are
proved. Of `QueueDrains` and `CallReturns` it is proved that nothing blocks and
that nothing goes on for ever, which leaves the scheduling.

## Not modelled

- The contents of payloads, prompts, enrichments and dispatch summaries: no
  control depends on them.
- The parser beyond its outcome, and header values that are not ASCII: a
  timestamp or a signature with such characters raises a `TypeError` or a
  `UnicodeEncodeError` in `verify_hmac`, and a body that is not UTF-8 a
  `UnicodeDecodeError` in the parser. They escape as a 500, as `VerifyFails` in
  `Ingest` allows.
- `GET /healthz`, request ids, logging: no state that anything reads.
- The metrics but `webhook_received_total`: increments next to transitions of
  `Dispatch` and `Worker`, which nothing reads.
- Cancellation of the shutdown code itself, the construction of the application
  and of library clients.
- Tests, scripts and deployment files: no part of the running program.
- arq's retention of jobs and results, and its delay before a retry.
- Queue-level deduplication by `_job_id`: the id is fresh for every request, so
  it never meets a second job.

## Known consequences without a run of their own

- Tries that end in cancellation count. When shutdowns use up the tries, arq
  discards the job and no dead letter is written.
- A crash between dispatch and `mark_dispatched` makes the next try deliver
  again; if the later tries fail, a delivered event is dead-lettered. A target
  takes an event in at most `MAX_TRIES` dispatches (`DispatchesAreBounded`).
- Within one dispatch a target may take the event several times: an attempt whose
  answer is lost (`ReadTimeout`, `ReadError`) is repeated. It may also have taken it
  although the dispatch counts it as failed. Nothing tells the target that the
  requests are the same.
- A timestamp is a whole second, so a delivery may be refused up to a second
  before it is `max_age_seconds` old.
- A run that is cut off after `mark_dispatched` leaves the job queued: the next
  run sets the event back to processing, may fail, and may bury it.
- An event whose first try fails is not tried again and stays failed, and a
  client that was answered 202 for it is told nothing. The dead-letter table stays empty unless a worker
  is stopped or dies (`NoRetryNoDeadLetter`): the first failure is the last try,
  and only the fifth try buries.
- The first request after a cached response has expired meets the unique
  constraint and gets the in-flight 409, although nothing is in flight.
- A dispatch may send a request after its budget is used, by one sleep.
- A startup of the application that fails after Redis or the arq pool was built
  ends in front of the `try` and closes neither; the process ends with it.
- `/readyz` may answer 200 although the two backends were never up at one moment:
  each was up when it was asked.
- The comment in `core/metrics.py` calls a processing time past 120 s
  unexpected; `JobTimeout` shows runs of 180 s and more.
- The module docstring of `db/session.py` says a session commits implicitly; it
  does not, and the docstring of `get_db_session` says so. Every mark commits
  itself.
- A run that is cut off between the commit of a dead letter and the increment
  of `dlq_events_total` leaves a dead letter that is not counted.

## Plan

Done: the intake, the worker, their composition, dispatch, classification and
both on one clock, the received-counter, verification, readiness and the life of
the processes, with theorems for all their safety properties, for the safety
part of every refinement with interruptions and without, and for the two halves
of termination that need no fairness.

What could be added:

1. The measure of `classify_lead` and of a whole run, as for dispatch.
2. `Received` over `Router`: the series accepted counts the events that are
   settled.
3. The process life of `Lifespan` under `Router`: several application and worker
   processes that are replaced one after another.
