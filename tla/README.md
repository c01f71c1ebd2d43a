# Verification of the exam platform

This directory holds TLA+ models of the exam platform of this repository, the
TLC configurations that check them on small instances, and proofs that TLAPS
checks for instances of every size. Paths below are relative to the repository
(`src/`). The repository contains no tests; the reference is its code, read
with `docs/` and the comments.

## 1. The system

A candidate works in the web front end (`apps/web`), which talks to one or more
instances of the API (`apps/api`, Node) over HTTP and Socket.IO. The API keeps
exams and attempts in Postgres and everything that changes quickly in Redis:
autosaved files, timers, locks, sessions, and the grading queue. Grader
processes (`apps/grader-go`, Go) take jobs from the queue, run the candidate's
files in Docker containers, write the result to the attempt's row and publish
it; the API forwards the publication to the candidate's socket.

| component | state | operations | talks to |
|---|---|---|---|
| grading queue, API side: `apps/api/src/lib/grading.ts` | streams `grading:jobs:high/low`, `grading:job:<id>` hashes, `grading:stats`, `grading:queue:paused` | `addGradingJob`, `pauseQueue`, `resumeQueue`, `getJobStatus`, `getQueueStats`, `cleanQueue` | Redis |
| grading worker: `apps/grader-go/internal/worker/worker.go` | a semaphore, consumer name; in Redis the group's pending list, `grading:retry`, the dead-letter stream | processing, reclaim and retry loop, `processMessage` | Redis, Postgres, graders |
| result store: `internal/db/postgres.go` | row of `exam_attempts` | `UpdateAttemptResults` | Postgres |
| submission: `apps/api/src/routes/attempts.ts` | row of `exam_attempts`, `grading:lock:<id>` | start, save, run-tests, submit | autosave buffer, timers, queue |
| autosave buffer: `lib/autosave-buffer.ts` | `autosave:<id>`, `autosave:dirty` | save, flush, background flush, clear | Redis, Postgres |
| exam scheduler: `lib/exam-scheduler.ts` | `exam_scheduler:lock`, processed and per-attempt keys | 30 s cycle: warm-up, scheduled end, overdue attempts | Postgres, buffer, queue |
| exam timers: `socket/timerService.ts` | `timer:<id>`, `timer_handled:<id>`, `timer_lock:<id>`, local intervals | start, tick, expire, stop | Redis, buffer, queue |
| presence: `socket/presenceService.ts` | `sessions:<attempt>`, `session:<attempt>:<socket>` | track, renew, remove | Redis |
| sockets: `socket/index.ts`, `examHandlers.ts` | rooms | join, save, flush, leave, forwarding | all of the above |
| tokens and sessions: `lib/token-manager.ts`, `lib/session-cache.ts` | refresh tokens, session cache | issue, rotate, revoke, look up | Redis, Postgres |
| container, network, challenge and SQL pools: `apps/grader-go/internal/pool`, `internal/grader/*pool*.go` | free lists, counters, channels | acquire, release, warm, close | Docker |
| dependency cache: `internal/pool/dep_cache.go` | entries on disk, sizes | look up, store, evict (no callers) | file system |
| graders: `internal/grader/*_grader.go`, `internal/docker` | containers of one job | run | Docker |
| exams, invitations, reports, administration: other `routes/` | rows of Postgres | CRUD | Postgres |
| accounts: `routes/admin-users.ts`, `middleware/auth.ts` | rows of users, the role in a token | approve, reject, change of role | Postgres |
| integrity records: `socket/proctorService.ts`, `keystrokeService.ts`; the page's `useKeystrokeTracker.ts`, `useScreenShare.ts`, `lib/proctorCapture.ts` | events, counters, screenshots, batches of keys; a buffer, a shared screen | log, count, warn, buffer, flush, share, capture | Postgres, Redis, sockets |
| exam page and API client: `apps/web` | editor, timers, tokens of a tab, socket | edit, save, run tests, join, refresh | API |

### What is hard, and what makes each part correct

* **Queue and worker.** Delivery is at least once; nothing joins two Redis
  commands, so two processes, the API and a stop interleave between any two;
  almost every error is only logged. Correct means: an accepted job is never
  lost and is eventually graded or dead-lettered, nobody works on it twice
  without a redelivery, a dead letter is deserved, a stored grade stays and is
  announced, the counters do not undercount.
* **Submission, timers, scheduler, autosave.** Four paths read an attempt's
  status, wait, and then write it unconditionally: the submit handler, the
  timer, the scheduled end and the overdue fallback. The buffer's three
  commands (GET, UPDATE, SREM) race with saves. Correct means: what is graded
  is what was last saved, an attempt is submitted once and always when its
  time is over, its status only moves forward.
* **Locks with expiry** (scheduler, run-tests, timer): the holder may outlive
  its lock and then delete another's. Correct means: at most one holder.
* **Presence, tokens, sessions**: check-then-act on Redis. Correct means: one
  session per attempt, a refresh token is used once, a revoked session stays
  revoked.
* **The page**: timers, polls, answers and events end each other's work through
  shared refs. Correct means: an edit on the screen is on its way to the
  buffer, a result is shown for its own run, nobody waits for nothing.
* **Pools**: mutex-protected maps with work outside the lock, channels that
  are closed while others send, asynchronous clean-ups. Correct means: nothing
  is handed out twice or with something of the last user in it, nothing is
  forgotten, closing terminates.
* **Graders**: fifteen ways for a phase to end early. Correct means: success
  and full marks are what the tests of this submission reported.

`PROJECT.json` lists the hazards line by line, with the properties that cover
them.

## 2. Plan

| order | modules | about | status |
|---|---|---|---|
| 1 | `GradingQueue`, `MCGradingQueue`, `GradingQueueProofs` | queue and worker | done |
| 2 | `GradingService` (theorems in `GradingQueueProofs`) | what the queue promises, and that it keeps it; one grader at a time, and the grade stays | done |
| 3 | `AttemptLifecycle`, `MCAttemptLifecycle`, `AttemptLifecycleProofs` | start, save, submit, autosave, scheduler, timer and result writes on the rows of attempts | done |
| 4 | `Sessions`, `ExamRoom`, `ExamEntry`, `Accounts`, `TestRun`, `ProctorLog`, `ExamPage`, `Keystrokes`, `ScreenCapture`, `MCApiState` | check-then-act on Redis and Postgres: tokens and sessions, one window per attempt, entries and invitations, decisions about accounts, test runs and their lock, integrity records, the editor's saves, the record of keys, the shared screen | done |
| 5 | `PooledResource`, `NetworkPool`, `ChallengePool`, `ContainerPool`, `SqlGrading`, `GradingPhases`, `SqlAnswers`, `MCGraderPools` | what the grader grades with, and what it says of the result | done |
| 6 | `PoolProofs`, `ContainerProofs`, `ApiStateProofs`, `SocketProofs`, `KeystrokeProofs` | theorems about steps 4 and 5: the network and SQL pools; container pools and the graders' phases; what the API keeps; the rooms of the socket server; the record of keys | done |
| 7 | `GraderProofs`, end of `ApiStateProofs` | `SqlAnswers` by induction over its data; the two compositions `MCGraderPools` and `MCApiState` | done |

The components of steps 4 and 5 share no state, each has one source of
concurrency of its own, and their product would only multiply states. They
share two runs, `api_state` and `grader_pools` (`ExamRoom`, the largest, has its
own, `exam_room`): an MC module EXTENDS them all, and a variable `part` picks, in
the initial state, the one component that moves in a behaviour. Every property
then speaks of the states of its own component; `ApiTypeOK` and `GraderTypeOK`
are the types of whichever component runs. What joins components is
modelled inside them: the phases that use a network pool are in `NetworkPool`,
the page, the API's replicas and the lock of a test run in `TestRun`.

## 3. The grading queue

### State and actions

`GradingQueue` has the two streams with the consumer group's undelivered
entries (`ready`) and pending list (`pel`, `idle` for the part that has been
idle for `PelIdleMs`), the retry set, the dead-letter stream, the job hashes
(`status`, `attempts`, `payload`), the counters (`stats`), the pause key, the
attempt's result (`result`), the last publication (`told`), the progress of
`addGradingJob` (`api`), and per grader process the position of its three loops
(`turn`, `inbox`, `claimed`; `rpc`, `due`, `rjob`) and its goroutines (`pc`,
`cur`, `tries`). A message is its job and a number: the n-th XADD of the job.

One action is one command, because each Redis command, Lua script, MULTI or SQL
statement is atomic and nothing larger is:

| code | actions |
|---|---|
| `addGradingJob` | `Enqueue` (XADD), `Register` (MULTI) |
| `pauseQueue`, `resumeQueue` | `Pause`, `Resume` |
| `processingLoop`, `readAndDispatch`, `dispatch` | `Read`, `Dispatch` |
| `reclaimLoop`, `reclaimStream` | `Reclaim`, `DispatchClaimed`, `AbandonClaim` |
| `retryLoop`, `requeueJob` | `RetryPoll`, `RetryRemove`, `RequeueAdd`, `RequeueMark`, `RequeueMissing`, `RequeueBury`, `RequeueDone`, `RetryCleanup` |
| `processMessage` | `Reject`, `RecordHash`, `MarkProcessing`, `CountAttempt`, `Grade`, `Announce`, `MarkCompleted`; `StoreFailure`, `AnnounceFailure`, `MarkRetrying`, `Park`, `MarkFailed`, `Bury`; `Ack` |
| time and the process | `Age`, `Expire`, `Stop`, `Start` |

`Logged(effect, skipped)` is a command whose error is only logged: it may fail
instead of taking effect, `MaxRedisFaults` times in a behaviour. A `Stop` is a
crash or a shutdown: once the context is cancelled every further command of
every handler fails, so both leave the same state. A process claims its own
messages too: the model does not ask who delivered a pending message first,
and neither does XPENDING as the code calls it.

History variables record what a property needs to excuse: `dropped` (jobs whose
hand-over to Redis failed or was interrupted), `forgotten` (jobs whose hash is
gone), `duplicated` (jobs delivered again by a claim or by two retry loops),
`graded`, `starts`, `parks`. No guard reads them.

### Properties

* `NoJobLost`: until its grade is stored or it is dead-lettered, an accepted
  job is in a stream, in the pending list, in the retry set or in a retry
  loop's hands; the exceptions are exactly the windows recorded in `dropped`.
* `SoleGrader`: two goroutines never work on one job unless it was redelivered.
* `DeadLetterJustified`: no job reaches the dead letters with tries left.
* `NoUndercount`: the live counters never go below the number of hashes with
  that status (they may stay too high, when a fast worker overtakes `Register`
  or a hash expires).
* `GradeSticks`: a stored grade is replaced by the zero-score error result only
  after a redelivery.
* `ServiceKept`: liveness, by way of the service below: unless the queue stays
  paused, every accepted job meets a fate and every stored grade is announced.

### What the queue promises

`GradingService` says the same in terms of the rest of the API: a job is
accepted, graded (perhaps more than once), given an error result, announced,
buried or dropped; nothing happens to a job that was never accepted, a grade is
announced only after it was stored (`Spec`), and while the queue is open every
accepted job meets a fate and every stored grade is announced (`FairSpec`).
`GradingQueue` implements it under the mapping `accepted <- Accepted` (the jobs
`addGradingJob` has handed over) and `fate <- Fate` (from `graded`, the
dead-letter stream and `dropped`); `result`, `told` and `paused` keep their
names. The properties `ServiceSteps` and `ServiceKept` are the two
specifications of the service read through this mapping.

`AttemptLifecycle` builds on the service, not on the queue: its `WriteResult`
is the service's `Settle` with a grade, its `GiveUp` the one without, its
`WriteAgain` the results before and after it.

### Runs

The counters of faults, stops, stalls, pauses and expiries are bounds of the
model, not of the code, each kind has one, and `MaxMishaps` bounds all of them
together. Small is enough because the handlers of different jobs meet only in
the slots, the retry batch and the counters, and those of different processes
only in the pending list and the retry set (`queue_races` has two processes with
one job, and one process with two jobs); every window between two commands of one
handler is open in every run, since every run has a mishap to spend.

| run | instance | shows |
|---|---|---|
| `queue_races` | any one mishap, and either 1 job and 2 processes, or a submission, a malformed preview and 1 process with 2 slots (`JobsOrWorkers`) | the two retry loops race, claims arrive while a batch is dispatched, claims are abandoned for want of a slot, a process claims its own messages: one grader at a time unless redelivered, the grade stays, types, and every step is one of the service |
| `queue_faults` | 1 job, 1 process, any 4 of: a failed Redis command, 2 failed writes, a stop, a stall, an expiry | what is lost (`NoJobLost`, also a theorem) is exactly what the code lets go; dead letters are deserved; nothing is undercounted |
| `queue_live` | 1 preview, 1 process, `FairSpec`, a stop, a stall, a failed write, a pause | liveness, and the service with its fairness |
| `queue_stop_loses` | 1 job, 1 process, a failed write and a stop | README.md:40 promises "graceful interruption handling"; a stop between the ZREM of a batch and its requeue loses the rest of the batch |

Deadlock is not checked: when all jobs are settled and the bounds are used up
the system may rest.

What else the code does that its texts do not say, modelled and visible in the
runs above, without a run of its own:

* worker.go:301 counts the free slots "so we never claim more than we can
  process", but takes none: the reclaim loop may take them before the batch is
  dispatched, and the rest of the batch waits in `inbox`.
* Infrastructure failures come back as results (worker.go:448), are stored as
  the grade and never retried, whatever README.md:40 says of retries.
* A failing try stores `FAILED` (worker.go:489) before the retry that may store
  `COMPLETED`; the diagram of docs/grader/02-GRADING-FLOW.md:50 has no such arrow.

### Fairness

`FairSpec` assumes weak fairness of each loop of a running process
(`Loop`, `ReclaimStep`, `RetryStep`: `for` loops that sleep and try again), of
each goroutine (its commands return or fail), of the restart of a stopped
process (`docker-compose.grader.yml:16`, `restart: unless-stopped`), and of time
for messages in nobody's hands (`AgeAbandoned`). It assumes nothing of the API
process, of pauses, of faults or of stalls. No strong fairness is used: each of
these actions, once enabled, stays enabled until it or an equivalent one is
taken.

### Theorems

All are theorems of `Spec` for any finite set of slots and any `MaxAttempts`,
`ReadBatch` and bounds; the one assumption is `QueueAssumption`.

* `TypeCorrect` (`GradingQueueProofs`): `Spec => []TypeOK`. One lemma per group
  of conjuncts, one case per action.
* `LossInvariant`, `NoJobLostAlways` (`GradingQueueProofs`): `NoJobLost` alone is
  not inductive. Acknowledging a message removes it from `pel`, so the job must
  be covered by something *other* than this message. The invariant `LossInv`
  adds `AckSafe` (a goroutine about to acknowledge message n has left the job
  settled, parked, being requeued, or in a stream with a number above n) and
  `NumbersOK` (no message has a number that its job's XADDs have not reached,
  so a new XADD is above all older messages). The steps that take something
  away (Ack, the removal from the retry set, the requeue, a stop) are proved
  one by one; all others only let `Covered` grow (`CoverStep`).
* `CountsAlways`, `DeadLettersJustified` (`GradingQueueProofs`): `CountsOK` ties
  the number a goroutine reads from the hash to the number of starts, and the
  absence of a payload to `forgotten`; with `TypeOK` the two are inductive.
* `NoUndercountAlways` (`GradingQueueProofs`): every job's hash shows a status
  only after the counter of it went up, so `StatsInv` is the property itself
  with the finiteness of the set it counts; one lemma says what a change of one
  hash does to each count.
* `ServiceImplemented` (`GradingQueueProofs`): `Spec => ServiceSteps`. Each
  action is mapped to an action of the service or to a stutter; the invariant
  `Known` it needs says that whatever was added to a stream, parked or picked up
  by a retry loop was accepted, and `LossInv` gives the rest: a message at hand
  was added to a stream, and a goroutine that announces a grade has stored it.
* `SoleGraderAlways`, `GradeSticksAlways` (`GradingQueueProofs`): that two
  goroutines meet on a job depends on every place it can be. `SoleInv` says of
  each job not in `duplicated` that it is in one place only: undelivered, in one
  batch, with one goroutine, parked, or with one retry loop; that a message is
  acknowledged only after the job was handed on; and that a goroutine on the
  failure path has a job without a stored grade. `LossInv` and `Known` give the
  numbers that tell a new message from an old one.

Only model-checked: `ServiceKept`, which is a liveness property.

### Not modelled

`cleanQueue` has no caller. `getJobStatus` and `getQueueStats` only read. The
progress fields of the hash, timestamps, logs and the worker's heartbeat are
not told apart by any property. The recreation of the consumer group after a
NOGROUP error follows a loss of Redis data, in which the messages themselves
are gone. XPENDING's window of 20 entries (worker.go:571) is not modelled: twenty
pending messages that are held but not idle hide idle ones behind them, which a
model could only show with the limit scaled down to one or two, where it would
delay every message. `retryDelay` (worker.go:782) is a pure function of the
attempt's number; the model only needs that a parked job becomes due.
Grading itself is one step with an outcome; a graceful shutdown that waits for
running jobs is a behaviour in which no `Stop` is taken before they finish.

## 4. The life of an attempt

### State and actions

`AttemptLifecycle` has the columns of `exam_attempts` the handlers use
(`status`, `files`), the autosave buffer (`buffer`, `dirty`), the keys of the
timer and the scheduler (`handled`, `cycleLock`, `attemptLocks`, `processed`),
the final grading jobs (`jobs`) and which of them have a result (`settled`),
the requests under way (`starting`, `saver`), the timer's interval (`timer`),
the clock (`time`, `ended`), and per execution of a handler its position
(`pc`), its attempt (`att`) and its local variables: the row's files as it read
them (`base`), what the flush found (`seen`), what it will submit (`out`), the
rows and exams of the scheduler's queries (`rows`, `ends`, `exam`), the flush's
list (`batch`).

Files are versions: the n-th save a client sends carries version n. Everything
between two awaits is one step. Handlers of all instances are in the same three
sets `Submits`, `Cycles`, `Flushers`; nothing depends on which instance runs one,
but for the interval of a timer, which `StopTimer` finds or does not find. One
interval per attempt stands for those of several instances, since the first to
tick sets the key the others stop at.

| code | actions |
|---|---|
| `POST /attempts` | `CheckStart`, `InsertAttempt` |
| `PUT /attempts/:id/files`, `code:save`, `saveToBuffer` | `ReceiveSave`, `WriteSave`, `SaveOverSocket`, `MarkDirty` |
| `flushToDatabase` | `FlushGet`, `FlushUpdate`, `FlushClean` |
| `POST /attempts/:id/submit` | `ReceiveSubmit`, `StopTimer`, the flush, `GetFromBuffer`, `Store`, `AddJob`, `SetGrading`, `ClearBuffer`, `ClearMark` |
| `autoSubmitAttempt` | `AutoSubmit` or `TakeOverdue`, the flush, `GetFromBuffer`, `Store`, `AddJob`, `SetGrading` |
| `runSchedulerCycle` | `StartCycle`, `QueryEnded`, `NextExam`, `AutoSubmit`, `MarkProcessed`, `QueryOverdue`, `TakeOverdue`, `EndCycle` |
| `flushAllDirty`, `code:flush` | `StartFlush`, `FlushNext`, `EndFlush`, the flush |
| `attempt:join`, `startTimer`, `handleTimerExpired` | `JoinAttempt`, `Tick`, `HandleTimerExpired` |
| `UpdateAttemptResults` of the graders | `WriteResult`, `WriteAgain`; `GiveUp` when the queue dead-letters or drops the job |
| time, expiry of keys | `TimePasses`, `ExamEnds`, `CycleLockExpires`, `AttemptLockExpires`, `HandledExpires` |
| rejected commands, the end of a process | `SaveFails`, `FlushFails`, `FlushAborts`, `SubmitFails`, `AutoSubmitFails`, `CycleFails`, `Crash` |

The failure actions differ because the code catches errors in different places:
`flushToDatabase` after its first command, `autoSubmitAttempt` all of them,
the cycle in a `finally` that deletes the lock, the submit handler nowhere.

### Properties

* `FirstJobIsCurrent`: the first final grading job of an attempt has every save
  acknowledged before its submission began.
* `EndSubmitsAll`: when the end of an exam is marked as processed, no attempt
  is left in progress but for the two known gaps (a swallowed failure, a start
  that was checked before the end).
* `OneCycle`, `RescuedOnce`: the two locks exclude, until they are outlived.
* `OverdueSubmitted`, `SubmittedGraded`: liveness.

### Runs

| run | instance | shows |
|---|---|---|
| `life_saves` | 1 attempt, 2 saves over HTTP or the socket, 1 submission, 1 background flush, the timer, a failure; with the second save no timer, and no failure during a flush (`SecondSaveCalm`) | saves that overtake each other, a submission and an old flush among them; types |
| `life_scheduler` | 2 attempts of one exam, 2 cycles, one mishap | end of an exam while attempts start; overlapping cycles |
| `life_live` | 1 attempt, 1 submission, 1 cycle, one mishap, `FairSpec` | liveness |
| `life_timer` | 1 attempt, the timer | docs/grader/02-GRADING-FLOW.md:380 "Auto-submits with current buffered files"; the timer never submits |
| `life_stale` | 1 attempt, 1 save, 1 submission, 1 cycle | docs/grader/02-GRADING-FLOW.md:370 "ensuring no work is lost"; the second of two racing submissions grades the row as it read it |

An execution of a submit handler, of a cycle or of a flush may begin again once
it has ended, so the sets bound only how many run at once. Attempts meet only
in the cycle's loops (`life_scheduler` has two); three handlers on one attempt
add no pair of steps that two do not have, and the constraint
of `life_saves` leaves out what three would. `FirstJobIsCurrent` is a theorem for
every number of each, so a run of candidate and scheduler racing is left to
`life_stale`. No deadlock check: an attempt that
is graded may rest.

What the model shows of the code beside the two findings:

* `GRADING` is written after the job is queued (attempts.ts:403) and may
  overwrite the result of a fast grader; `SubmittedGraded` therefore speaks of
  the result being written (`settled`), not of the status.
* The flush clears the dirty mark of a save that came after its GET
  (autosave-buffer.ts:92); the buffer keeps the files, which is why the submission does not miss them.
* `code:save` does not look at the status (examHandlers.ts:104): saves after
  the submission reach the buffer and, through a flush, the graded row.
* `autoSubmitAttempt` does not clear the buffer and `clearBuffer` deletes a save
  acknowledged since `GetFromBuffer`; `FirstJobIsCurrent` speaks of saves
  acknowledged before the submission began.

### Fairness

Weak fairness of each execution of a submit handler and of each cycle that has
begun or can begin (`setInterval` of 30 s), of the graders (`WriteResult`, which
is the service's `Settle`: unless a job is given up, its result comes), and of the expiry of a lock whose holder
is gone (Redis' EX). Nothing is assumed of clients, of the timer, of the
background flush or of failures.

### Theorems

For any sets of attempts, exams, requests and executions, from
`LifecycleAssumption`:

* `TypeCorrect` (`AttemptLifecycleProofs`).
* `OneCycleAlways`: `OneCycle` is not inductive, since `StartCycle` asks the lock
  and not the other cycles. `CycleLockHeld` adds that a running cycle holds the
  lock unless one was outlived.
* `RescuedOnceAlways`: likewise `AttemptLocksHeld`; and `Quiet`, that a cycle in
  its fallback has no exam at hand, which tells a rescue from an ordinary
  auto-submission after every step.
* `EndSubmitsAllAlways`: the invariant `EndInv` says where an attempt in
  progress of an exam that a cycle has still to mark can be (`Covered`: in the
  rows still to do, at hand, swallowed or late), that the exams a cycle goes
  through have ended (`ExamsKnown`), so no further attempt joins them but late,
  and the shape of the loop's variables (`LoopShape`).
* `FirstJobIsCurrentAlways`: nobody clears the
  buffer of an attempt before its first job (`JobFirst`), so until then it has
  every acknowledged save (`BufferCurrent`), and what a handler takes along is
  at least its `floor` (`HandlerCurrent`), the buffer being absent only if
  nothing was acknowledged. `SavesKnown` bounds what requests carry.

Only model-checked: the liveness properties `OverdueSubmitted` and `SubmittedGraded`.

### Not modelled

The start of attempts is modelled as far as the end of the exam is concerned;
`ExamEntry` has its limit, `TestRun` the run-tests handler. Left out: warm-up
publications, emitted events, the
buffer's lifetime of 12 h, the scheduler's look-back of 24 h, and the functions
without callers (`resumeTimer`, `processExamEnd`). The timer's own keys
`timer:<id>` and `timer_lock:<id>` only show the remaining time and choose which
instance emits it.

## 5. What a grader grades with

One grader process runs on a Docker host (docker-compose.grader.yml, with
`USE_POOLING=true`); its goroutines share pools of networks and containers.
Each Docker command, each critical section and each channel operation is one
action; a failing command is a disjunct of its action and counts against the
component's bound of faults, and where Docker may have done the work of a
command that failed, both outcomes are there.

### The abstract pool

`PooledResource` is what all pools promise: a resource is idle, or with one
user, or neither, and reaches its next user only through the pool
(`Obtain`, `Return`, `Discard`, `Remove`, `Forget`). `NetworkPool`,
`ChallengePool` and `ContainerPool` implement it (`NetworkPoolRefines`, and
`ContainersRefine` for the other two): the idle
resources are what is in the channel, a user is a phase or a warming goroutine
from the command that creates the resource, or the receive that takes it, to
the send that gives it back or the command that removes it. Exclusive use
(`Exclusive`) follows.

### Modules

* **`NetworkPool`**: `network_pool.go`, the phases that use a network
  (`runHTTPPhase` and its siblings), the cleanup pool (`cleanup.go`) and the life of the process
  (`main.go`). `Acquire` is `TryTake`, `CountNetworks`, `WaitTake`,
  `WaitTimeout`, `CreatePooled`, `MarkInUse`; `Release` is `ReturnNetwork`,
  `SendBack`; a phase goes on with `CreateOwn`, `RunCandidate`, `ReturnEarly`,
  hands over to `TakeCleanupSlot`, `RemoveCandidate`, `RemoveNetwork`; `Warm` is
  `StartWarm`, `WarmCreate`, `WarmSend`; the process `Stop`, `JobsDone`,
  `CleanupDone`, `CloseContainers`, `DrainOne`, `Exit`, `ProcessEnds`, `Crash`,
  `CleanupOrphans`. After the signal phases still begin, until the last job has
  returned: a job that was running goes on to its hidden tests
  (http_grader.go:109). `PoolManager.Close` closes the containers first
  (warmer.go:237): that is one step here, which ends or waits for its own mutex
  (`stage = "stuck"`), as `ContainerPool` has it in detail. A warming goroutine
  that sends on a channel after its `Close` ends the process (`Panic`,
  `ContainerPanic`); nothing waits for it at a shutdown.
* **`ChallengePool`**: `challenge_pool.go` with the pooled phases of the http and
  ui_jsdom graders: creation, hand-out with its look at the container, the
  connections, the files, the server and the tests, the stack of functions that
  undoes them in reverse order, and the release, which may destroy. Tests that
  outlive their timeout go on in the container (`TestsTimeout`, `LateTestsEnd`).
* **`ContainerPool`**: `container_pool.go` and the warm-up of an exam with its lock
  (`warmer.go`). `Close` holds the mutex over the rest of the containers and
  `destroyContainer` asks for it: it stops for good when a warm-up added a
  container while the channel was drained. `StuckExplained` says that nothing
  else brings it there.
* **`SqlGrading`**: `sql_grader.go` with `sql_pool.go` and `sql_container_pool.go`:
  suites in containers of their own or on the shared database, and the
  connection that every hidden test takes for its reference query.
* **`GradingPhases`**: the order of the steps of each grader's phase, what each
  failing step returns, the counts of a report, the verdict, the columns it
  writes and the message that is published.
* **`SqlAnswers`**: what `sql_grader.go` makes of SQL text. A text is split into
  statements glyph by glyph (`OpenLiteral`, `MeetQuote`, `EndStatement`,
  `CopyGlyph`, `LastStatement`); a suite of tests runs a right submission, each
  test with the script of its file, in the suite's one container: public tests
  (`StartPublic`, `SkipControl`, `RunSelect`, `RunInsert`, `StatementFails`,
  `ComparePublic`) and hidden ones (`ResetTables`, `SelectHidden`,
  `MutateHidden`). What Postgres does with a script is the reference, an
  operator (`Postgres`, `Meant`), and external.

### Properties of `grader_pools`

* `NetworksAccounted`, `ContainersAccounted`: every network and container is
  offered or with a user, until it is removed; a network may also be recorded as
  left behind, by a command that failed or a process that ended. `StuckExplained`: `Close` is stuck only
  over a container somebody has.
* `SqlExplained`: a grading of SQL gives back every connection and container on
  each of its early returns, and succeeds exactly when its suites did.
* `CleanHandOut`: no phase finds the container of an earlier submission on the
  network it was given, where it would answer to the name `candidate`.
* `GradedOnOwnWork`: while tests run, `candidate` is the phase's own container
  with its own files and processes, and the results it reads were written by
  its tests. The exceptions are failed commands and tests that outlived their
  timeout.
* `GradesExplained`: success and 100 % are what the reports
  say.
* `ScriptsExplained`: a text is split at the semicolons that end its statements,
  unless it has a comment, `$$` or a doubled quote; a right answer passes its
  test, whatever the other tests of the suite do, unless a public test rolls
  back itself or comes after one that left rows, a hidden selection has several
  statements, or a transaction was ended in the database of the references.
* `NetworkPoolRefines`, `ContainersRefine`; `StopEnds`: a stop ends, however many
  phases begin after the signal and whatever they give back, unless a crash
  comes first or `Close` of the containers, which is before that of the networks,
  waits for its own mutex. `StuckExplained` is the other half: that happens only
  while a warm-up or a caller has a container.

Instance: two phases, one warming goroutine and one pooled network for
`NetworkPool`, so that a phase waits, times out and creates its own; two phases
of one challenge (the public and hidden one of ui_jsdom, which share a test
pool, or one of each kind) with pools of one container; two warm-ups and one
taker of a container; two SQL gradings of six kinds with one connection for
each database; all sequences of failing steps and all reports of up to two
tests; all texts of up to five glyphs of seven kinds, and all suites of up to
two tests with nine scripts, which have each kind of statement alone, before
and after each other and inside a transaction that ends in each way. One fault,
one crash. A second fault adds no path: each error path is
straight-line code up to the cleanup. Deadlock is not checked, since every
phase runs once.

Fairness, used by `StopEnds` only: weak fairness of each phase that has begun
(`GoesOn`) and of the shutdown (`NetFairness`): goroutines go on, Docker commands return because each
is given a timeout, and a wait for a network ends at its timeout. Warming
goroutines need none. A `select` between a channel and a context needs none
either.

What the models show beside the properties:

* ui_jsdom in pooled containers with an empty public or hidden suite never
  succeeds: `runPooledUIJsdomParallel` leaves the zero value for it
  (`NoTests`; docs/grader/02-GRADING-FLOW.md:297 has no such rule). In the SQL
  grader an empty hidden suite fails a final grading too; in the other graders
  an empty suite passes.
* Skipped tests count in the total and not as failures: success with fewer
  points than tests.
* A Playwright phase that fails from the build on counts 0 of 0; hidden tests
  that did not run then leave the public ones alone in the percentage.
* SQL hidden tests ignore the errors of `collectRows` (sql_grader.go:261, 272,
  737, 748, 758). A hidden isolated test of a challenge without a database
  section dereferences nil (616); no goroutine of the grader recovers but the
  cleanup's, so the process ends (`died`).
* `splitSQLStatements` ("respecting string literals", sql_grader.go:554) knows no
  comments and no `$$`, and of a doubled quote takes the second half for the end
  of the literal. `BEGIN`, `COMMIT` and `ROLLBACK` are skipped in public tests
  (525), so that a script that takes back what it did leaves it, as does one
  that fails half-way; the tests after it see it. A hidden test without a
  validation query prepares the whole script (741), which must therefore be one
  statement; the references of three tests of `sql-contest-full` are not. A
  reference that commits inside the transaction of its setup keeps the tables in
  the shared hidden database (726).
* Containers of the challenge pool outlive a stop and a crash; so do warmed
  containers of the generic pool. ui_jsdom's public and hidden tests share one
  pool of test containers, and `resetTestWorkspace` restores the tests of its
  first creator before the phase writes its own.

### Theorems

In `PoolProofs` (networks and SQL), `ContainerProofs` (containers and
phases) and `GraderProofs` (SQL scripts, and all of them together), for any values of the constants that meet `NetAssumption`,
`SqlAssumption`, `BoxAssumption`, `ContAssumption`,
`GradingPhasesAssumption` and `ScriptAssumption`: finite sets of actors and bounds of any size, pools
and channels of at least one place, values that stand for "none" (`None`,
`NoBox`, `Nobody`, `NoResult`) that are none of the values they stand beside,
and scripts that are sequences of the six kinds of statement.

* `NetworkPoolIsPool`: `NetSpec => NetworkPoolRefines`. The refinement mapping reads the idle networks off the channel
  and the users off `netOf` and `warmNet`, so the proof needs to know that
  these agree: `OwnersOK` (a network is in the channel once, or with one phase,
  or with one warm-up) and `HoldingOK` (where in its code a phase or a warm-up
  has one). A new network is none that exists, and who sends one has it: there
  is one lemma for each way a network changes hands (`PhaseTakes`,
  `WarmerTakes`, `PhaseLeaves`, `WarmerLeaves`), then one for what each group of
  actions maps to.
* `NetTypesAlways`, `NetworksAccountedAlways`, `CleanHandOutAlways`: one
  invariant `NetInv` on top of these two. Its parts say which networks exist at
  each point of a phase, and that a network in the channel has nobody's
  container on it but those in `dirty`: that is true at the send because the
  cleanup removes the container first, and has to be known of the networks in
  every phase's and warm-up's hands on the way there.
* `ConnectionsReturnedAlways`: from `LeasesOK`, which adds where in its code a
  grading has a connection, and of which database: it gives back the one of the
  suite it is in, and the suite changes only while it has none.
  `SqlSuccessAlways`: from `ScoresOK`, by which the result of a suite is a
  success exactly when it has tests and all passed, and a grading works only on
  a suite with tests. With the same for containers they give
  `SqlExplainedAlways`.
* `ContainerPoolIsPool`, `StuckExplainedAlways`: `BoxOwners` (a container is
  listed, and offered once or with one caller or one warm-up) and `BoxShut` (once
  `Close` has emptied the channel nothing is offered again, so what is left in
  the list when it waits is with somebody).
* `ChallengePoolIsPool`, `ContainersAccountedAlways`: from `RunsOK` (where a phase is, and
  what is on its stack of functions there) and `OwnOK` (the containers on the
  stacks and in the pools are disjoint, and together are all there are).
* `GradedOnOwnWorkAlways`: from both and `WorkOK`: who is attached to a network,
  whose files and processes a container has and whose results a workspace has,
  each at every point of a phase. What a phase finds is clean because the phase
  before it undid its steps in reverse order.
* `GradesExplainedAlways`: from `PhasesOK`, by which a report belongs to a suite
  of the job that was run to it, and the columns and the message agree with the
  reports they were made from.

* `ChallengeTypesAlways`: `AliveOK` (only containers that exist run, failures
  are counted) on top of `RunsOK`, `OwnOK` and `WorkOK`: a container dies only
  with those who know it.
* `ScriptsExplainedAlways`: the reference is recursive (what is meant by a text
  after so many glyphs, what Postgres has made of a script after so many
  statements), so two facts are needed that say of a recursive function what it
  is, for every length: `Recursion` (such a function exists, and satisfies its
  equation) and `UptoInduction`. The library's induction theorems cannot be
  instantiated by the installed provers; both are proved here instead, from
  `SetInduction`, which is the pigeonhole principle of `FiniteSetTheorems`: if a
  set had 0 and every successor but not m, then k -> k + 1 would map its numbers
  up to m one to one into the same without 0. With them the proofs are in lock-step.
  `SplitInv`: up to the glyph it has read, the code is in the literal that SQL is
  in, and has cut the same pieces, or the text has something the code does not
  know. `SuiteInv`: the table of a public test has the rows its script would have
  made by itself so far, but for those an earlier test left or the script took
  back; a hidden test begins on fresh tables and a database without leftovers,
  but for one that an earlier script committed or rolled back in; and every
  verdict of a test that is over is right, or `Excused`. `ReferenceAgrees` says that a
  script means the same in the transaction of its setup as alone.
* `GraderTypesAlways`, `ContainersRefineAlways`, `GraderSafe`: of `GraderSpec`, the
  specification the run checks. A step of the composition is a step of one
  component and leaves the others' variables alone, so a behaviour is one of each
  component's own specification (`GraderParts`), and each property follows from
  the component's theorem.

Only model-checked: `StopEnds`, which is a liveness property.

Assumptions: SQL gradings begin with a non-empty query and both databases
configured; the first start of the process finds no networks of its own.

Not modelled: `DependencyCache` and, in the pools, `RecoverExisting`,
`PreInstallDependencies`, `WarmupChallenge`, `ChallengePoolManager.Close` and
`SQLContainerPool`'s warm-up and shutdown (no callers in the repository);
validation of idle containers by age (`IdleTimeout` is never set); statistics;
the scripts run in containers; the comparison of values in `sql_compare.go`
beyond equal and not. `ContainerPool` and `NetworkPool` are not composed: what
the shutdown needs of the `Close` of the containers is `CloseContainers`.

## 6. What the API keeps, and the exam page

### Sessions

`Sessions` has `token-manager.ts`, `session-cache.ts`, the handlers of
`routes/auth.ts` and the token part of `apps/web/src/lib/api.ts` for one user
and several tabs, which share `localStorage` and each keep a copy of the
tokens. One Redis command is one action: `Login`, `ReadSession`,
`SlideSession`, `Unindex`, `VerifyPassword`, `ListSession`, `SetIndex`,
`StoreToken`, `JoinFamily`; `Refresh`, `ReadToken`, `DeleteOld`, `MarkOld`;
`ReadFamily`, `DeleteMember`, `MarkMember`, `DropFamily`; `Logout`,
`LogoutAll`, `ScanKeys`, `VisitKey`, `ReadSessions`, `DeleteSessions`,
`DropIndex`. Answers may be lost, commands fail, a family's set expire. What a
failing command does depends on where it is: most end their request
(`RedisFails`), but in a sign-out everywhere the revocation of a family that
fails is skipped (`SkipFamily`, token-manager.ts:316-323) and the answers of the
pipeline that deletes the sessions are not looked at (`PipelineFails`,
session-cache.ts:161): the user is told that everything was signed out.

* `SignedOutStaysOut`: when a family was revoked by a reuse or a sign-out with
  no rotation under way, no token a tab has or could load from storage works;
  and the login index never leads to a session that a finished sign-out-all
  deleted, although `getSession` writes back what it read before.
* `RefusedWithCause`: a refresh is refused only if a token of its family was
  presented twice, the user signed out or Redis failed.

The exceptions are behaviours of the code. A rotation that overlaps a
revocation stores its new token after the revocation listed the family, and
that token goes on. A family that was skipped, and a session whose deletion
failed in the pipeline, go on too, although the answer is success. Two tabs with one stored token present it twice, and the
whole family is revoked. An answer to a rotation that is lost signs the user
out at the next refresh. The index `login_cache:<email>` is only dropped by a
sign-out that names the e-mail, and the client's `logout` does not send it, so
that the session stays cached (session-cache.ts:13 "invalidated on explicit
logout"). `validateSession`, `getUserSessions`, `invalidateSession` have no
callers; seven-day expiries other than the family's are left out.

### The room of an attempt

`ExamRoom` has the windows of a candidate (`lib/socket.ts`,
`useExamSocket.ts`), `attempt:join`, `attempt:leave`, the disconnections and
evictions of the server, and `presenceService.ts`, command by command:
`ReadRoster`, `CheckSession`, `DropEntry`, `StoreSession`, `AddToRoster`,
`EnterRoom`, `AnswerJoin`; `RemoveEntry`, `RemoveKey`, `RemovalFails` (nobody
awaits `removeSession`, examHandlers.ts:160 and 204, and server.ts:80 only logs
its error); `KeyExpires`, `RosterExpires`; `Mount`, `Unmount`, `Connected`, `LinkLost`, `Evict`,
`ReplicaDies`.

* `RoomExplained`: two windows share the room (presenceService.ts:5 says one)
  only if their joins overlapped, a join met the removal of the same socket, or
  a session lapsed while its socket was in the room; and a session that keeps
  others out belongs to a socket in the room, or to one whose handler was
  overtaken by its own disconnection, whose replica died, with the joins and
  removals it was running, or whose removal failed. These last keep the next
  window out until the key expires, ten minutes after its last renewal.
  A third conjunct, `ActivePageHears`: a connected page that counts the attempt as active is in
  the room or joining, unless an earlier unmount took the rejoin listener
  away (`socket.off('connect')`, useExamSocket.ts:143, removes the listeners of
  others too).

The set of sessions has an expiry of its own (presenceService.ts:97), which
only joins renew: eleven minutes after the last join a second window passes the
check although the first saves regularly. `reconnect` and `disconnectSocket`
have no callers; the timer's and the administrators' events are left out.

### Entries and invitations

`ExamEntry`: `POST /attempts` (`StartAttempt`, `ReadAttempts`,
`InsertAttempt`), the acceptance of an invitation (`AcceptInvite`,
`ReadAnyAttempt`, `MarkUsed`, `InsertAttempt`), publication, the creation of
invitations, the deletion of an exam (`CountAttempts`, `SweepInvites`,
`DropExam`) with the foreign keys of `schema.ts`.
`EntriesExplained` is three statements: more attempts than allowed, or two in
progress, only by a request that read the rows before another's insertion; a
used invitation led to an attempt, unless the insertion failed; invitations of
an existing exam are gone only by a deletion that is under way, failed, or was
overtaken by a new row. Seen on the way: the limit (attempts.ts:158) is checked
before an attempt in progress is returned (162-171, whose comment says it is
resumed), so the last allowed attempt cannot be resumed this way; the
acceptance of an invitation looks neither at `isPublished` nor at the window.
Creation and editing of exams are single statements and are left out.

### Accounts

`Accounts`: registration with the bootstrap of the first administrator,
sign-in, `requireRole` with its read of the row, approve, reject and change of
role. `DecisionsKept`: a decision about an account lasts until the next one,
unless a change of role had read the row before it. `AdminsRemain` (an action
property): approved administrators do not all go, unless one of the writes was
by somebody who had ceased to be one: the rule that nobody changes their own
account keeps the last, except against two who demote each other at once.

### Test runs

`TestRun`: the click, the request with its lock, the poll, the timeout and the
event of the exam page; the preview job; and the API's replicas
(docker-compose.azure.yml has four), each of which hears `grading:complete`,
emits it to the room through the Redis adapter and deletes the lock.
`OneTestRun`: two runs of an attempt are graded at once only if the lock of one
went before its job was done. `ShownIsOwn`: the page shows for a run its own
result, or one of an earlier run that was not over when it began; nothing in a
result names its run. There is a second exception. A poll compares the
browser's clock at the click (page.tsx:567) with the database's at the grading
(postgres.go:46, `NOW()`). In the model the order of clicks and gradings is the
true one, and the comparison may go against it: a browser that is behind takes
the previous run's row (`misread`), one that is ahead passes over the right one
and waits for the event or the timeout. The bound on mishaps limits the former
only. `WaitIsWatched`: a page that says "running" has a request
or a timeout that will end it. Queue and grader are one step here; `GradingQueue`
has theirs.

### Integrity records

`ProctorLog`: proctor events over the socket and over HTTP (read, insert,
count, read the count, warn) and screenshots (read, push, trim).
`RecordAgrees`: the counters agree with the events but for handlers between
their two writes and those that ended there, no warning counts what was not
counted, the list of screenshots is as long as it should be. A screenshot that
arrives while the status is `SUBMITTED` is refused though `GRADING` is accepted
(attempts.ts:443). The list expires 24 h after its last picture
(attempts.ts:481), which is left out: its length is stated for that day.

### The record of keys

`Keystrokes` follows a key from the keyboard to the list in Redis: the buffer
of `useKeystrokeTracker.ts` (`KeyDown`, `FlushDue`, `Render`, `FlushKeys`), one
connection after another with its messages in order (`OpenPage`, `QuitPage`,
`Connect`, `LoseConnection`, `GiveUpConnecting`, `CloseTab`), the handlers of
`attempt:join`, which waits for the database and Redis while later messages are
handled (`ReceiveJoin`, `BindSocket`, `AnswerSuccess`, `AnswerRefusal`), of
`attempt:leave` (`ReceiveLeave`) and of `keystroke:batch` (`ReceiveBatch`,
`StoreBatch`, `StoreFails`).

`KeystrokesKept` is three statements: a key is in one place, so that none is
recorded twice or vanishes otherwise than by a connection, a page, Redis or a
limit; a batch is refused for want of a bound socket only if the page sent it
before its join on that connection was answered, or after it left; and the
record is in the order of typing, except for batches of an earlier connection
stored after those of a later one (their handlers may be on two replicas).

What the model shows beside it: at a reconnection the client joins again and
the render that follows flushes what was typed before at once
(useKeystrokeTracker.ts:159-168); unless the join is done by then, the batch is
refused, and nobody looks at the answer. When the page is left,
`attempt:leave` is sent before the last flush (line 164 "Flush remaining on
unmount"), whose batch is therefore always refused. Keys typed without a
connection are not recorded at all. A join whose connection breaks before its
answer is not sent again, since `activeAttemptIds` does not have the attempt
yet. The expiry of the list (keystrokeService.ts:92), which every batch renews,
is left out.

### The shared screen

`ScreenCapture` has the overlay that keeps the editor closed, the hook
`useScreenShare.ts`, and the module `lib/proctorCapture.ts` with the stream its
pictures come from and its random captures, which outlives the page:
`EnterExam`, `AttemptLoaded`, `AskToShare`, `Fullscreen`, `Grant`, `Deny`,
`StopSharing`, `ConfirmSubmit`, `SubmitRefused`, `LeaveExam`, `Reload`.
`CapturesExplained`: while the editor is open there
is a live stream, captures are taken from it and random ones go on until the
submission; when the exam is left nothing is captured and no stream goes on.
The exceptions are the code's: the button can be clicked twice until fullscreen
is entered, so that two streams are granted and the end of one clears the other
(`crossed`); a share granted after the page was left starts the captures again
and keeps its stream (`strayed`); a submission that is refused leaves the random
captures off (page.tsx:647, 656). Since `startedAt` is set when the row is
inserted (schema.ts:119), `loadAttempt` always skips the consent screen
(page.tsx:487), whose handler is left out for that reason. Not modelled: the
queue that uploads pictures (its requests have no timeout), and browsers without
a secure context, where the page claims to share.

### The editor's files

`ExamPage`: the files from the keyboard to the buffer: `LoadAttempt`,
`ShowAttempt`, `Edit`, the debounced save and its timer (`SaveDue`, `IdleDue`),
the save before a test run, its answer, failure and timeout, the link, the
page left and loaded again, the flush to the row.
`EditsAccounted`: files on the screen that are not in the buffer have a timer
or a request that will bring them there ("Auto-save via WebSocket
(debounced)", page.tsx:467; docs/PLATFORM_DOCUMENTATION.md:62 "Files saved every 30
seconds automatically"). There are exactly three exceptions, and TLC finds each
if it is taken out: a save that failed is not tried again
(useExamSocket.ts:187); the answer to an earlier save clears `saveTimeoutRef`,
which may be the timer of a newer edit's save (useExamSocket.ts:171-176); an
older save, of another load of the page, is written after it. In all of them
the next edit saves everything, and a submission by the candidate sends the
editor's own files (attempts.ts:377): what can be graded without the last
edits is an attempt submitted for the candidate. A page that is loaded again
shows the row, which is older than the buffer until a flush, and then saves it
over the buffer. A save is one step here and the flush another;
`AttemptLifecycle` has their steps. Saves after the end are in
`AttemptLifecycle` only.

### The runs `exam_room` and `api_state`

`exam_room`: two windows, two sockets, two joins, one mishap. `api_state`: two
tabs, two logins, two tokens, one fault; four requests, two invitations, a limit of one attempt; two
people, three decisions; two replicas, two clicks, two mishaps; three proctor
handlers, a list of one screenshot; two edits, two loads, three saves, one
fault; three keys, two connections, two visits of the page, a buffer of one key,
batches of two, a list of two; three clicks on the button of the overlay, two
visits, three streams. Two of each actor is what every race above needs, since the handlers of
one attempt or one user meet in pairs on one key or row; the third request, or
the second mishap, is there where a race needs a later observer. No property
here needs fairness. No deadlock check: a component whose bounds are used up
rests.

### Theorems

In `ApiStateProofs`, and those of the room and of the keys in `SocketProofs` and `KeystrokeProofs`, of
the components' own specifications, for any numbers of people, requests, invitations, replicas, clicks, versions, handlers, visits,
tabs, tokens, families, windows, sockets, keys,
connections and mishaps; `AccountAssumption`, `EntryAssumption`,
`RunAssumption`, `PageAssumption`, `LogAssumption`, `ScreenAssumption`,
`SessionAssumption`, `RoomAssumption` and `KeyAssumption` are all that is assumed: bounds are numbers, the handlers of proctor events are
finitely many, the limit of attempts is at least one (as the schema demands),
`NoInvite` and `Nothing` are none of the values they stand beside.

* `DecisionsKeptAlways`, `AdminsRemainAlways` (of `AccountSpec`): from `ActsOK`,
  which gives every request its shape: one about to read or write is about an
  account other than that of its sender. The sender, if still an administrator
  at the write, is then one that remains.
* `EntriesExplainedAlways` (of `EntrySpec`): from `EntryInv`. It adds what an
  entry under way has read (`EntryReads`: below the limit, and nothing in
  progress unless a row has come since), so that an insertion beyond the limit
  is counted in `stale`, and that a used invitation is with the request that
  will insert its attempt (`MarksKept`).
* `ShownIsOwnAlways`, `OneTestRunAlways`, `WaitIsWatchedAlways`, together
  `RunsExplainedAlways` (of `RunSpec`): one invariant `RunsOK` in four parts: what the page knows (`PageOK`), the
  requests and the jobs they became (`RequestsOK`), the lock, which a run in the
  queue has or went without (`LockOK`), and every place a result may still come
  from (`ResultsOK`): a job, an announcement, a poll, the row. A row that a
  browser's clock let through is `misread`, and stays so (`MisreadKeeps`).
* `EditsAccountedAlways`, `PageTypesAlways` (of `PageSpec`): from `PageInv`. That
  a request carries what the editor shows is not enough, since an older one may
  be written after it: `OnItsWay` adds that every request of a later number
  carries the same, and that the timer, if set, is for what is shown.
* `RecordAgreesAlways` (of `LogSpec`): from `LogInv`, the property with the
  types and `WarningsOK`: a handler about to warn has counted its event, and what
  it read is no more than the counter. The work is in how a step of one handler
  changes the number of handlers at each place (`Between`).
* `CapturesExplainedAlways` (of `ScreenSpec`): from `ScreenInv`: how the display,
  the hook's state and the stream of this visit go together (`SharingOK`,
  `StreamOK`: the page's stream was granted in its visit, and is the only live
  one that was unless it was granted beside another), and that a click still to
  be answered belongs to a visit (`AskedOK`).
* `SignedOutStaysOutAlways`, `RefusedWithCauseAlways` (of `SessionSpec`): from
  `SessionInv`. `CausesOK`: a token that is not stored, or is marked as used, was
  presented, or its family has a cause. `IndexOK`: a session is indexed once, by
  its own login and after it was listed, and one that a sign-out-all deletes
  comes back to the cache only by a login that read it in the index, which then
  does not lead to it any more. `CleanOK`: what a
  revocation that was not overlapped has still to delete covers what is stored
  of its family, and no other request will store another; a family whose
  revocation fails is taken out of what the request answers for. `OverOK`:
  afterwards nothing of the family is stored, nor about to be.
* `RoomExplainedAlways` (of `RoomSpec`): from `RoomInv`. A socket is sure while its
  session has not lapsed in the room and none of its joins met another join or a
  removal of its own. A sure socket in the room has its key and its place in the
  set, and a sure join is the only one under way (`SessionsLast`); a join that is
  still looking at the sessions has every sure socket of the room before it, and
  one that is past that has none (`OthersSeen`), so that two sure sockets are
  never in one room (`SoleSure`). `Blocking` and `Hearing` say where a socket with
  a session, and a window with an active page, can be after every step, those
  whose removal failed among them;
  `LinksOK` and `JoinsOK` tie windows and handlers to sockets the server has.
* `KeystrokesKeptAlways` (of `KeySpec`): from two invariants. `SocketInv` says why
  no batch between the answer and the leave is refused: on the window's
  connection no `attempt:leave` is on its way behind a join of this visit, nor
  while such a join is served, so that the socket is bound once the join is
  answered and stays so until every batch sent after it was taken
  (`LinkOK`). `KeysInv` has the five places of a key as a division of all keys
  typed (`Divide`) and the order of what is in them (`Ordered`): the record,
  what waits for Redis, what is on its way and the buffer, connection by
  connection. The order is needed for the places too: two batches have no key
  in common since one is before the other, so that a batch that is taken, cut
  off, stored or trimmed takes its own keys along and no others.
* Types, with the range of every counter: `AccountTypesAlways`,
  `EntryTypesAlways`, `RunTypesAlways`, `LogTypesAlways`, `ScreenTypesAlways`,
  `SessionTypesAlways`, `KeyTypesAlways`, from the invariants above and one more
  part each. The ranges are not all local: that `lateActs` stays in range needs
  `ActsCounted` (late writes and decisions under way together are no more than
  the decisions that were admitted), and `stale` does because
  an insertion after an old reading adds an attempt (`EntryBounds`).
* `ApiTypesAlways`, `ApiSafe`: of `ApiSpec`, the specification the run checks, by
  `ApiParts`: a behaviour of the composition is one of every component.

Every invariant, action property and refinement that a passing run checks is
thus stated by a theorem. What only TLC checks are the four liveness properties
`ServiceKept`, `OverdueSubmitted`, `SubmittedGraded` and `StopEnds`: they rest on
fairness and ENABLED, which the provers do not handle.

### Not modelled

Rate limits (`rateLimiter.ts` configures a library), the reading routes
(reports, challenges, lists), the editing of exams and challenges (one
statement each), the contents of `challenges/` (data, about a third of the
repository's lines), the pages of administrators and the layout of all pages,
`packages/shared` and the declarations of `packages/database`, the scripts that
fill the database. Password changes have no route. These are why most of the repository's
lines have no counterpart here: what is left is nearly all declarations, texts
and user interface.
