# A verification development of the Camunda 8 JS SDK

TLA+ models of `camunda-8-js-sdk`, checked with TLC on small instances, and
theorems about them proved with TLAPS for every value of the constants.
Paths below are relative to the repository; `ZBStreamWorker.ts:349` means
`src/zeebe/lib/ZBStreamWorker.ts`, line 349.

## 1. The system

A client library. One process, one JavaScript event loop: no two statements run
at once, but every `await`, timer and stream event is a point where anything
else that is due may run. Everything interesting is therefore an interleaving of
*macrotasks* (a timer, a socket event, a call from the application), each with
the promise continuations it leads to.

| Component | State it keeps | Operations | Talks to | What makes it correct |
|---|---|---|---|---|
| Streaming job worker, `ZBStreamWorker.ts` | per call: `handleClosed`, `currentStream`, state machine, `reconnectTimer`, `sidecarTimer`, `consecutiveFailures`, `activationReserved`, `backfillRequested`; per worker: `closed`, `streams`, `machines`, `pollTimers`, `reconnectTimers` | `streamJobs`, `close`, the handle's `close`, callbacks of streams and timers | gRPC channel, `activateJobs`, task handlers | one polled batch at a time; every open followed by a backfill; recovery never stalls; `state` is true; nothing outlives a close |
| Stream lifecycle, `StreamLifecycle.ts` | `settled`, `state`, `done` | `attachStream`, `dispose`, `transition` | raw streams | one settlement per stream; `closed` is terminal |
| Polling job worker, `ZBWorkerBase.ts`, `ZBWorker.ts` | `activeJobs`, `pollMutex`, `jobStream`, `closing`, `stalled`, `closePromise`, timers | constructor, `poll`, job actions, `close` | gRPC channel, task handlers | one poll at a time; the count is the jobs in hand; polling resumes; close waits for jobs |
| REST job worker, `CamundaJobWorker.ts` | `currentlyActiveJobCount`, `pollLock`, `backoffTimer`, `loopHandle`, `activePoll` | `start`, `stop`, `poll` | REST client, task handlers | same, plus restart |
| OAuth provider, `OAuthProvider.ts` | memory and file cache, in-flight requests, `failed`, `failureCount`, `memoized401`, tarpit set and files | `getHeaders`, flushes, `clear401Tarpit` | token endpoint, file system, other processes | one request per credential; no expired token; a refusal stands; every call settles |
| HTTP client, `HttpClient.ts` | attempt count, abort signal | a request, `cancel` | network, hooks | bounded attempts; a cancellation ends them |
| gRPC channel, `GrpcClient.ts`, `GrpcMiddleware.ts` | `closing`, `channelClosed`, ready and fail timers, `blocking`, `state` | unary and streaming calls, `close` | network | the status told follows the last outcome, as the channel took it |
| Zeebe gRPC client, `ZeebeGrpcClient.ts` | `workers`, `streamWorker`, `closing`, `connected`, `readied` | commands, `activateJobs`, `createWorker`, `streamJobs`, `close` | all of the above | every command the gateway answers settles; close leaves nothing open and is the last event |
| Query subscription, `QuerySubscription.ts` | both locks, `_state`, ring of emitted items, interval | `poll`, `pause`, `resume`, `cancel`, listeners | REST client | polls do not overlap; an item once per window; none swallowed |
| Polling operation, `PollingOperation.ts` | start time | `poll` | an operation, usually a request | settles; keeps its deadline |
| Client factory, `c8/index.ts` | caches of clients | getters, `closeAllClients` | clients | |
| The rest | none, or constant after start-up | pure functions, single requests | | listed in `PROJECT.json` with the reason each is left out |

**What is hard here**: state read before an `await` and used after it (poll
loops, token requests, stream opens); three events for one dead stream; a close
in the middle of anything; failures in the second of two steps; timers that
re-arm themselves; capacity counters updated from several callbacks; files that
other processes write.
`PROJECT.json` lists each as a hazard, at its line, with the properties that
would catch it.

## 2. What is modelled

### One `streamJobs` call

| Module | Models |
|---|---|
| `StreamCall` | where `pollAndStream()` stands (`pc`) and the two closed flags |
| `StreamConnection` | `openStream`, `attachStream`, `onStreamDown`, `scheduleReconnect`, the reconnect timer, the state machine, the connection's part of both closes |
| `BacklogDrain` | `backfill`, `activate`, `drain`, `runDrain`, the sidecar poll, the sidecar's part of both closes |
| `StreamWorker` | the composition: `pollAndStream()`, the caller, the broker, fairness, properties |
| `StreamHandle` | the abstract promise of a handle: what `state`, `done` and the pushing of jobs have to do with each other |
| `MCStreamWorker` | symmetry for the runs |
| `StreamWorkerProofs`, `StreamPromiseProofs` | theorems: the worker's own safety; what it promises the caller |

State and code: `machine` is `createStreamStateMachine`; `failures` is
`consecutiveFailures`; `reserved` and `requested` are `activationReserved` and
`backfillRequested`; `current`, `streams`, `reconnectTimer`, `sidecarTimer` and
`pollTimers` keep their names. Promises in flight are explicit: a slot of
`Stream` is one raw stream from the call that opens it to its last event, a slot
of `Poller` is one chain "activation, then drain". The number of slots bounds
nothing the code bounds; the theorems hold for any number.

**Atomicity.** One action is one macrotask with the microtasks it leads to. The
microtask queue drains before the next macrotask, so this is what Node does;
what may come between two actions is exactly what may come between two
macrotasks. Each `await` on the gateway or on task handlers ends an action.

**Callbacks** run inside the action that notifies them. A callback that closes
the handle is modelled where it makes a difference, in `onStreamReconnect`
(`ZBStreamWorker.ts:405`): `reconnect()` then still opens a stream.
`onStreamError` and `onStreamEnd` run just before `onStreamDown`, so a close in
them equals a close just before the event.

**Jobs** are only counted. `backlog` counts the jobs that only a poll can reach:
those activatable while no stream is up, or re-queued after a timeout. Pushed
jobs start a handler nobody awaits, so they leave no state behind.

**Failures**: opens fail, streams drop (`error`, `end` and `close` in any order,
any of them missing until `close`), activations are rejected, both closes come
at any time.

### The polling job workers

| Module | Models |
|---|---|
| `JobService` | the abstract promise of a job worker: its capacity, no job taken once it is told to stop, "stopped" only when drained |
| `PollWorker` | the gRPC worker: `poll()`, the handlers of its stream, the backoff timers, the job actions and the catch of `handleJob`, `close()` |
| `RestWorker` | the REST worker: `start()`, `stop()`, `poll()`, `handleJob`, and how `CamundaRestClient.activateJobs` settles when it is cancelled |
| `MCPollWorker`, `MCRestWorker` | instances for the runs |
| `PollWorkerProofs`, `RestWorkerProofs` | theorems |

State and code. In both, jobs are interchangeable and only counted: `working` is
the jobs in a handler, `cancelling` (gRPC) and `failing` (REST) those whose
handler threw and which wait for `cancelProcessInstance` or `fail`; `held` is
their sum, the truth that `activeJobs` and `currentlyActiveJobCount` should
state. `pollMutex`, `jobStream`, `backoffTimeout`, `pollLock`, `activePoll`,
`backoffTimer`, `stopping` keep their names. A slot of `Stream` is one
ActivateJobs call, from `poll()` to the last event of its stream, with the
number of jobs it asked for; a slot of `Call` is one `activateJobs` promise.
`closePhase` is `closing` and `closePromise` together: whether `close()` waits
for the jobs, for the channel, or is done. `waiting` counts the `stop()`
promises that wait for the jobs, since each call makes its own.

A cancelled REST poll settles in one of three ways, and the model has all of
them. While its headers are being prepared, the promise is abandoned: the
cancellation suppresses its result, so it never settles (`CamundaRestClient.ts:825`).
While its request is out it rejects with `ERR_CANCELED`. Once settled it cannot
be cancelled. Headers that fail after a cancellation still reach the catch.

What the code of the gRPC worker does not cope with is part of the model, not
assumed away: a job action that rejects and whose handler lets that through
(`ActionRejected`), a stream that emits `error` after `end` (`LateError`), jobs
that do not parse (`JobsArrive`), a handler that calls `cancelWorkflow()`
(`WorkflowCancelled`). Three history variables count what they do: `lateErrors`;
`doubled`, the jobs counted out twice; `leaked`, the jobs counted in and never
out. The properties say, in these numbers, how far the worker can be taken off
its promise and that nothing else takes it there; section 3 says what that means
for an application. The type invariant of this worker is proved and not run.

Not in these two: `afterResponse` hooks supplied by the user that resolve after
an abort; the second interval that `start()` on a running worker leaves behind
(it changes no state, see the hazards); the `connected` and `readied` flags of
the gRPC worker, which repeat those of the client (`GrpcStatus`).

### The OAuth token provider

| Module | Models |
|---|---|
| `TokenService` | the abstract promise to the callers of `getHeaders`: a token that is valid when it is handed out, or the endpoint's refusal or failure; one answer for all that wait; no refusal without asking unless the endpoint refused before |
| `OAuthProvider` | `getHeaders` with both caches, the shared request and its backoff, the 401 memory, the tarpit files, the flushes, `clear401Tarpit`, and processes that crash and start again |
| `MCOAuthProvider`, `OAuthProviderProofs` | instance and theorems |

State and code. `inflight` is `inflightTokenRequests`; `tokenCache`,
`memoized401`, `failed`, `failureCount`, `tarpit401` keep their names, one value
per provider object. `file` and `tarpit` are the cache directory, which all
providers share. A credential is a client id with an audience. A token is named
by the request it answers, and `expired` is the set of tokens inside the refresh
window: time is nothing but its growth. `write` follows `fs.writeFile`: opening
truncates, so a reader, another process or a crash in between finds no token;
`FlushFileCache` unlinks, so an open write is lost and a queued one creates the
file again. `Restart(P)` takes all providers of one process, forgets what is in
memory, abandons its requests and loads the tarpit files.

`refused` is history, not program state: the credentials refused and posted, for
each provider, and not cleared since. `RefusalStands` is stated with it because
neither `memoized401` (a cooldown) nor `tarpit401` (per object) is the promise.

### The query subscription

| Module | Models |
|---|---|
| `QuerySubscription` | the interval, `poll()` cut at its two awaits, the ring of emitted items, `pause`, `resume`, `cancel`, the listeners |
| `MCQuerySubscription`, `QuerySubscriptionProofs` | instance and theorems |

`pollLock` and `predicateLock`, `state`, `cycle` (`_currentPollCycle`) and
`recent` (`_recentEmittedItems`) are the code's. A slot of `Poll` is one call of
`poll()` past its first guard: `cancel()` releases the locks under a poll in
flight, so a second one may overlap it, and the model lets it. A custom predicate
may emit any items or fail; the default one emits what the previous state lacks.
`age`, `seen`, `repeated` and `overtaken` are history that the properties need.
The two locks are both kept although one would do: `pause()` releases one only,
and that is what `PollsDoNotOverlap` turns on.

### The Zeebe gRPC client and its channel

| Module | Models |
|---|---|
| `GrpcStatus` | what the client learns of the connection (probe, outcomes of calls), the ready and fail timers, the middleware's tolerance, and what the application is told |
| `ZeebeClient` | the commands with `retryOnFailure`, the unary call under them, the workers and the stream worker the client creates, `close()` |
| `MCZeebeClient`, `ZeebeClientProofs` | instance and theorems |

A command goes through the awaits of the code: `checked` (the client is not
closing), `calling` (the gRPC client is there), `authenticating`, `sent`,
`failed`, `backingOff`, `settled`. `Goes`, `FailsWith` and `SettlesWith` move it;
what a step looks at (`closing`, `channelClosed`) is what the code looks at
there, which need not be true any more one await later. `sent` may be the last
step of a command: its call has no deadline, and the interceptor of the channel
keeps some statuses to itself (`GrpcClient.ts:724`, `:733`), in which case the
command is `swallowed` and pending for ever. A worker takes one job
and ends it with a command of its own name, since a job action is a command of
the client: this is how `close()` and the commands meet.

`activateJobs`, which the stream worker's polls call too
(`ZBStreamWorker.ts:235`), makes a stream on the client's own channel. It writes
the timers the commands write, by other rules: to make the stream is enough to
arm the ready timer (`GrpcClient.ts:349`), and any error it emits, from the
network or from the gateway, is taken for the loss of the connection (`:374`,
`:388`). So two histories are kept: `taken` is what the channel took the last
outcome for, `learned` what that outcome says of the gateway. `StatusFollows` is
about the first and holds; `StatusTruthful` is about the second, and finding 3
refutes it. What the jobs do that `activateJobs` returns is in `StreamWorker`.

### Requests and polling operations

| Module | Models |
|---|---|
| `HttpRequest` | one request of `HttpClient`: hooks, attempts, default and custom delays, timeout, `cancel`, `beforeError` |
| `PollingOperation` | the loop of `PollingOperation.ts` with such a request as its operation |
| `MCPollingOperation`, `PollingOperationProofs` | instance and theorems |

Each phase is one await of `executeWithRetry`. `cancel()` reaches an attempt on
the wire and a sleep at once; in a hook or in `calculateDelay` it only marks the
signal, and the model shows where it is noticed. `attempt` is not counted when
the application's `calculateDelay` is the only one to look at it.

### Runs

| Run | Question | Result |
|---|---|---|
| `stream_safety` | every safety property, reconnection and sidecar on, everything may fail | holds, 211 thousand states |
| `stream_backfill` | liveness with recurring polling off, gateway answers | holds |
| `stream_sidecar` | `streamReconnect: false`: does the sidecar alone strand no job, when polls fail too? | holds |
| `stream_lost_backfill` | is a deferred backfill always carried? | **no**, finding 1 |
| `poll_worker` | overlaps, capacity, `JobService`, polling and `close()`, with job actions that reject, late errors and leaking jobs | holds, 133 thousand states |
| `rest_worker` | lock, stop, `JobService`, polling goes on, with restarts | holds |
| `oauth_provider` | sharing, refusals, `TokenService`, settlement: two processes, crashes, flushes | holds, 69 thousand states |
| `query_subscription` | overlap, repetition, loss, and that polling goes on | holds, 137 thousand states |
| `zeebe_client` | status, `close()` against commands, `activateJobs`, workers and timers | holds, 346 thousand states |
| `zeebe_client_lost_action` | is a job action sent, or its failure reported? | **no**, finding 2 |
| `zeebe_client_false_ready` | does `connected` mean that the gateway was reached? | **no**, finding 3 |
| `polling_operation` | attempts, cancellation, deadline, settlement | holds, 1012 states |

Properties of the stream worker: `OnePolledBatch`, `ReservationHeld` (mutual
exclusion of polls, and the reservation neither leaks nor is released early);
`AtMostOneStream`, `NeverStalled` (a dead stream is re-opened once, and always);
`NothingOutlivesClose`; `SidecarAlive`; `OwedBackfillKept` (a failing drain
restores the deferral it consumed); `DeferredBackfillCarried` (a deferral always
has a chain that will run it); `HandlePromise` (refinement of `StreamHandle`;
that `state` is true of streams, timer and closes is proved besides);
`Reconnects`, `NoJobStranded`, `Quiesces` (liveness).

Properties of the polling workers: `OverlapsAreLate` (at most one ActivateJobs
call or backoff of the gRPC worker, and one more for each late error),
`DriftIsBounded` (capacity and the end of `close()` are off by the jobs counted
out twice, and no more), `LockGuardsPoll` (the lock of the REST worker against the
calls and timers it stands for); `NoPollOutlivesStop`; `ServicePromise`
(refinement of `JobService`, which holds capacity, of the jobs really held and
not of the counter, and closing or stopping only when drained; for the gRPC
worker until the first late error or double count); `PollsAgain`,
`UnstoppedPollsAgain`, `CloseResolves` (liveness).

Properties of the rest: `RequestsCoalesce`, `RefusalStands`, `TokenPromise`
(refinement of `TokenService`), `CallsSettle`; `PollsDoNotOverlap`,
`NoRepeatWithinWindow`, `StateWasEmitted`, `PollsAgain`; `StatusFollows`,
`NothingOutlivesClose`, `SilentAfterClose`, `CloseSettlesAll`;
`AttemptsBounded`, `CancelEndsAttempts`, `DeadlineKept`, `PollingSettles`. Each is
stated with a comment where it is defined.

Bounds. Two stream slots: a dead stream still emitting events beside its
successor. Two poller slots: a second chain could start if the code let it; the
liveness runs use one, as `OnePolledBatch` shows it is enough.
`MaxFailures = 2` (1 in the liveness runs) lets a stream fail, reconnect and
fail again; a delivered job resets it, so runs are not finite in failures.
`BatchSize = 2`: full and partial batches; `MaxBacklog = 3` where liveness is
checked, so that a drain has to poll again after a full batch. Two slots for the calls
of the polling workers: a cancelled or ended call beside the next one.
`MaxJobs = 4` is the smallest capacity at which the gRPC worker polls again
while it still holds a job (it does so at 30 % of its capacity); the REST worker
polls below its capacity, so 3 is enough for partial batches. Of four jobs,
`MaxLeaked = 2` fill the capacity and one does not; `MaxDoubled = 1` lets the
count fall below the jobs held, and `MaxLateErrors = 2` lets a late error of one
poll meet the next, whose own end is late as well. `MaxWaiting = 2` bounds how
many `stop()` promises wait at once. Symmetry is used in safety runs only.
`CHECK_DEADLOCK FALSE` because a closed call, worker or client stops, and so does
a provider that has used up its requests.

Two token requests and two calls let a token expire and be asked for again while
the first request's file is still being written, and two providers in two
processes share the directory; one of them backs off, one fails on errors. One
credential is enough for the run, since credentials meet only in `failed` and
`failureCount`; the theorems hold for any number. Two items and a window of two
let an item leave the window while the other is in it, and two polls overlap
after a `cancel()`. One command that retries for ever and one worker whose job
action retries once, so that every way out of `retryOnFailure` is taken. One
`activateJobs` at a time, again and again: what several do to the timers they do
one after the other, too. A limit of two retries: first, middle and last attempt.

Fairness. Weak fairness of timers, intervals, stream events and handlers, since
the event loop serves them all. In `StreamWorker`, strong fairness of successful
activations, since the sidecar keeps trying and the assumption is only that not
every poll is rejected; `NoJobStranded` makes no claim while new jobs are queued
for ever. In the polling workers calls settle, successfully or
not, and the channel closes. Nothing obliges a stream to drop, a job to appear,
or anyone to start, stop or close. That an open settles and a dead stream is
noticed rests on gRPC deadlines and keepalive pings; that an ActivateJobs call
settles is an assumption for the stream worker, see the hazards, and follows
from the client-side timeout for the gRPC worker (`GrpcClient.ts:427`). Task
handlers are assumed to finish.

In `OAuthProvider` a timer fires, and the endpoint answers or the request times
out (`OAuthProvider.ts:170`); nobody is obliged to ask, flush or restart. In
`QuerySubscription` the interval fires and queries and predicates settle; the
application does what it likes. In `ZeebeClient` the certificates are read, the
probe has its deadline, tokens and timers come, handlers finish, and each step of
`close()` that can be taken is taken. That a command is answered is not assumed,
since it has no deadline and the interceptor may keep its status; so
`CloseSettlesAll` speaks of the commands that are answered, and says that nothing
else hangs with the others. The application is not obliged to close. In
`PollingOperation` a request on the wire is answered, fails or times out, and
hooks return; strong fairness of `CustomDelayGivesUp` says that a `calculateDelay`
of the application's does not ask for another attempt for ever.

### Findings

1. **A deferred backfill can be lost** (`ZBStreamWorker.ts:361`). While the first
   activation of one backfill is pending the stream dies and is re-opened; the
   second backfill is deferred. If the pending activation is then rejected,
   `backfill()` only releases the reservation. With recurring polling disabled
   nothing polls until the next reconnect, against the comment at line 345.
2. **A job finished while the client closes is acknowledged but not completed**
   (`ZeebeGrpcClient.ts:1634`). `close()` sets `closing` and then waits for its
   workers to drain; their job actions are commands of the client, and a command
   of a closing client resolves with `null` without being sent. The handler's
   `job.complete()` resolves, the worker counts the job out, and the broker hands
   the job out again when it times out, against "draining existing tasks" at
   line 590.
3. **A stream that is merely created makes the client "connected"**
   (`GrpcClient.ts:349`). `activateJobs` makes its stream on the client's own
   channel. To make it arms the ready timer, before anything has come from the
   gateway and while the channel may still be trying to connect. If the last
   outcome was that the gateway is unreachable (the probe gave up, a command was
   lost), the timer fires all the same: the client emits `ready` and `connected`
   becomes true, against "we know we are connected" (`ZeebeGrpcClient.ts:121`).
   The comment at `GrpcClient.ts:365` counts on a client that never streams.

## 3. Known limits of the code

What the models made visible beside the findings.

* **A job can be counted out twice** (`ZBWorker.ts:118`): if `complete()` or
  `fail()` rejects and the handler lets that through, both the action's `finally`
  and the catch of `handleJob` drain. Each time the worker may exceed its
  capacity by one job more, and close with one job more in hand
  (`DriftIsBounded`).
* **A late error releases the next poll's mutex** (`ZBWorkerBase.ts:516`), and one
  poll more may deliver at once for each (`OverlapsAreLate`); the capacity is then
  not kept.
* **An unparsable job** (`ZBWorkerBase.ts:677`) **and `cancelWorkflow()`**
  (`ZBWorkerBase.ts:324`) **leak their slot.** `close()` then waits for ever, and
  when the leaked jobs are more than 30 % of the capacity the worker stops polling
  (`CloseResolves`, `PollsAgain` except for that).
* **A status that the interceptor keeps to itself** (`GrpcClient.ts:724`, `:733`)
  leaves its command pending for ever, and with it a `close()` that drains the
  worker whose job action it is. `CloseSettlesAll` says that it is only these.
  A stream on which that happens tells its worker nothing; the gRPC worker has its
  own timeout (`:427`), the stream worker has none, and its model assumes that the
  end of a stream is reported.
* **A restarted REST worker may never poll** (`CamundaJobWorker.ts:134`): `stop()`
  does not release `pollLock`, and whatever would have released it has just been
  cancelled. (`LockIsGivenBack` and `LostLockStaysLost` say exactly when.)
* `streamJobs()` after `close()` opens a channel that nobody closes
  (`ZeebeGrpcClient.ts:1346`); `NothingOutlivesClose` speaks of the channels made
  until `close()` resolved.
* The start-up probe does not touch the timers (`GrpcClient.ts:322`): one that
  runs when it settles has its say after it. `taken` is `nothing` while the two
  disagree, and `StatusFollows` makes no claim then.
* An error of a stream makes the status "not connected" although the gateway sent
  it, and so does a missing token (`GrpcClient.ts:350`, `:374`, `:388`).
* `xxxSync` of a closing gRPC client returns `undefined` rather than a promise
  (`GrpcClient.ts:460`); `topology()` calls `.catch` on it
  (`ZeebeGrpcClient.ts:1459`).
* A worker created before the certificates are read has no `customSSL`
  (`ZeebeGrpcClient.ts:545`, `:1551`). The counter at `:1663` is never negative,
  so the callback under it is never called.
* A query that fails makes the interval's `poll()` reject, which nobody handles
  (`QuerySubscription.ts:588`); `cancel()` in the middle of a poll lets polls of
  the subscription's next life overlap with it.
* A polling operation looks at its deadline only after a failure, and an operation
  that never settles keeps it pending (`PollingOperation.ts:105`).
* `failed` and `failureCount` are one per provider: one audience's success ends
  another's backoff (`OAuthProvider.ts:355`).
* The handle's `close()` leaves a cleared timer in `pollTimers`
  (`ZBStreamWorker.ts:549`), which the comment at line 615 says only retains live
  timers.

## 4. What is proved

For every number of stream and poller slots, batch size, and bound, from the
named assumptions on the constants only:

* `TypeCorrect`: `TypeOK` is inductive.
* `PolledBatchIsSingle`, `ReservationIsExact`: inductive together. The
  reservation keeps a second chain from starting; that the chain is alone makes
  its end the moment to release the reservation. Neither is inductive alone.
* `StreamIsSingle`, `CloseIsFinal`, from `ConnInv`. What has to be added to
  `AtMostOneStream`: nothing is armed or in flight before `pollAndStream()` gets
  there (`StartedInOrder`); `this.streams` is the set of live attachments and has
  no member but `currentStream` (`AttachmentsKnown`), which is why disposing
  `currentStream` alone is enough when a handle closes.
* `RecoveryNeverStalls`: inductive beside `ConnInv`. `SidecarTracked` (an armed
  sidecar timer is in `pollTimers`) is what lets `close()` of the worker find it.
* `OwedBackfillIsKept`: one lemma for each way a chain ends, from `DrainInv`.
* `SidecarStaysAlive`, from `SidecarInv`: there is no sidecar until
  `pollAndStream()` resolves, and it resolves once, since the first open and the
  first activation are awaited at one place each (`FirstOpenAwaited`,
  `SidecarTurns`).
* `DeferredIsCarried`, where no activation is rejected, and
  `DeferralIsLostOnlyByRejection`, in general: from `DeferralHeld`, which differs
  from the property in speaking of every control state, because a call may begin
  to serve with a deferral. The hypothesis of the first is the one finding 1 shows
  to be needed, and the second says that nothing else is.
* `CloseWindsDown`: after a close every step leaves the polls and the streams as
  they are or closer to their end, from `ConnInv`.
* `StateIsTruthful`, `PromiseKept`: from `StateInv`, which says how the state
  machine follows the streams. `PromiseKept` is the refinement
  `Spec => HandlePromise`, by one lemma per action (`StepMaps`).

Of the gRPC worker (`PollWorkerProofs`), for every number of slots, capacity and
bound:

* `TypeCorrect`.
* `OverlapsTakeLateErrors` from `OverlapInv`: the mutex and `jobStream` stand for
  one of the calls underway, or are free for one; only a late error makes the
  worker forget one, or adds a timer, and it is counted.
* `PollIsReleased`, from `TimersApart` (a backoff timer has no call beside it) and
  `PollReleased`: late errors release the mutex too early, never too late.
* `CountKept`: the count is exact, as the jobs in hand, those leaked and those
  counted out twice make it. `DriftKept` is what this says of capacity and of
  `close()`; before a late error it takes that the count leaves room for what the
  call underway may still deliver.
* `PollingNeverStalls` and `CloseIsNeverStuck`: where no job is in hand, the count
  is zero or leaked jobs explain it.
* `ServiceKept` is `Spec => ServicePromise`.

None of them has a hypothesis on the environment: what the code does not cope with
is counted in the statement.

Of the REST worker (`RestWorkerProofs`), with no assumption on the environment:
`TypeCorrect`, `LockIsExact`, `StopEndsPolling`, `CapacityKept`, `StopWaits`,
`ServiceKept`, from `LockInv` (one slot is busy, it and the backoff timer
exclude each other under the lock, and `activePoll` is the call to cancel),
`CountInv` (the count is exact, and leaves room for the pending call) and
`StopInv`. Two theorems make the limit of section 3 precise: by `LockIsGivenBack`
nothing but a `stop()` can leave the lock with nothing to release it, and by
`LostLockStaysLost` nothing gives it back then. The first is also why
`UnstoppedPollsAgain` holds.

Of the OAuth provider (`OAuthProviderProofs`), for every number of calls,
providers, processes and requests: `TypeCorrect`; `RequestsAreShared` from
`CoalesceInv` (the property, with: an entry names a pending request of its own
provider and credential, which is what makes deleting the entry of the request
that settles right); `RefusalsStand` from `RefusedInv` (what is posted is in
`tarpit401` of the provider and on disk, so a restart finds it);
`PromiseKept` from these and `CacheInv` (a cached token, in memory or in a file,
was granted for the credential it is cached under), by one lemma per action.
`TokensAreValid` and `NobodyIsForgotten` say of single steps what callers rely
on: what they are handed, and how their wait ends. The second follows from
`CoalesceInv` before and after the step.

Of the query subscription (`QuerySubscriptionProofs`), for every window:
`PollsAreSerial` from `LockInv` (a poll in flight holds `predicateLock` unless a
`cancel()` took it away, and `pause()` does not release that one);
`NoItemRepeats` from `RingInv` (the slot an item lies in says how long ago it was
emitted, so the slot that is emptied holds only what leaves the window);
`NothingIsSwallowed` from `SeenInv`; `LocksAreReleased` (`LocksHeld` is inductive,
overlapping polls included, because each end of a poll releases both locks).
`ComparingInv` says what a poll that compares
may assume of the state it has read.

Of the Zeebe client (`ZeebeClientProofs`), for every set of commands and workers:
`StatusKeepsUp` from `StatusInv` (what the last outcome was taken for, the running
timers and what is held back determine what the application will be told);
`ChannelsAreClosed` and `NothingAfterClose` from `CloseInv`, which orders the
steps of `close()`.
`ClosingCommandsRunOut` gives each phase of a command the number of steps it has
left, and shows that while `closing` is set every step lowers it: the retry of a
command for ever is among the cases, and a swallowed command has no step left.
`ResolvedIsAnswered` (no command resolves before `close()` unanswered) and
`DrainedJobsAreInHand` come from `ServiceInv`, the two together, which is
inductive beside `CloseInv`.

Of requests (`PollingOperationProofs`), for every limit: `TypeCorrect` and
`AttemptsAreBounded` from `AttemptInv` (with the default delay, as long as another
attempt may follow the limit leaves room for it); `CancellationEnds`;
`DeadlineIsKept` from `DeadlineInv` (no interval follows a late operation);
`RequestsRunOut`, by a measure of a request's progress that grows with each step
unless a failed attempt is counted; `OperationsAreSerial`. A request is a module
of its own, and its theorems are about the requests a polling operation makes,
one after the other.

Each strengthened invariant was first checked with TLC.

### Liveness

Every safety property the passing runs check is stated by a theorem. Liveness is not:
fairness speaks of `ENABLED`, which is beyond the prover, so it stays with TLC. What the
prover can show is that nothing is waited for in vain: that the awaited thing is
there, or that what is left only runs out. What a liveness property then still
needs is the fairness section 2 justifies.

| Checked with TLC | Proved: what it rests on |
|---|---|
| `Reconnects` | `RecoveryNeverStalls`: a stream is underway or a timer is armed |
| `NoJobStranded` | `OwedBackfillIsKept`, `DeferredIsCarried`, `SidecarStaysAlive` |
| `Quiesces` | `CloseWindsDown` |
| `PollsAgain` (gRPC worker) | `PollIsReleased`, `PollingNeverStalls` |
| `CloseResolves` | `CloseIsNeverStuck` |
| `UnstoppedPollsAgain` | `LockIsGivenBack` |
| `CallsSettle` | `NobodyIsForgotten` |
| `PollsAgain` (subscription) | `LocksAreReleased` |
| `CloseSettlesAll` | `ClosingCommandsRunOut`, `DrainedJobsAreInHand` |
| `PollingSettles` | `RequestsRunOut` (default delay), `OperationsAreSerial` |

## 5. Not modelled

Wording and logging; the values of delays (`backoffDelayMs` is pure); job
payloads and their parsing beyond whether it succeeds; several `streamJobs`
calls sharing a worker: they meet only in the lists that `close()` walks.

Components left out, with the reason in `PROJECT.json`: the cookie provider,
the subscription generator (no source file uses it), the client factory, the
request/response clients (one `HttpRequest` per method), pure conversions
(configuration, BPMN, lossless JSON, lifters), logging, tracing, certificates.
Of 48 thousand lines, 25 thousand are `generated/zeebe_pb.js` and
`dto/schema.ts`, which are generated; most of the rest are types, DTO classes and
methods that send one request.

## 6. What could come next

| Module | Component | Question |
|---|---|---|
| `StreamRegistry` | two `streamJobs` calls sharing the worker's lists | does one handle's close leave the other alone? |
| `CookieAuth` | `CookieAuthProvider` | what should concurrent logins promise? |
| `ClientFactory` | `c8/index.ts` | is every client that was created closed? |
| `Algorithms` | `backoffDelayMs`, `parseRetryAfter`, `mergeOptions` | equality with reference definitions over bounded inputs |
