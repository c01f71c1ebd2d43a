------------------------------ MODULE TestRun ------------------------------
(***************************************************************************)
(* "Run tests" on the exam page: the page's handlers and timers            *)
(* (apps/web app/exam/[id]/page.tsx), POST /attempts/:id/run-tests and its *)
(* lock (apps/api routes/attempts.ts), and the replicas of the API that    *)
(* each hear grading:complete (socket/index.ts), emit it to the room and   *)
(* delete the lock.  GradingQueue has the grader: here a job ends with its *)
(* row written and one announcement, or is never heard of again.           *)
(*                                                                         *)
(* A run, its request and its job have one number: the click's.  The times *)
(* that a poll compares come from two clocks, the browser's at the click   *)
(* and the database's at the grading; where these disagree its comparison  *)
(* goes either way.                                                        *)
(***************************************************************************)
EXTENDS Naturals, FiniteSets

CONSTANTS Replicas,      \* API processes subscribed to grading:complete
          MaxClicks,     \* bound: test runs ever started
          MaxRunMishaps  \* bound: expired locks, failed requests, lost jobs,
                         \* answers and events that do not arrive, polls
                         \* that take an older row by a clock behind

ASSUME RunAssumption == MaxClicks \in Nat

VARIABLES clicks,   \* runs started
          busy,     \* isRunning
          started,  \* runTestsStartedAtRef: the run it was set by, or 0
          ref,      \* the run whose interval and timeout the refs hold, or 0
          timers,   \* runs whose interval and timeout are alive
          polls,    \* polls under way: the start they captured, what they read
          request,  \* [1..MaxClicks -> what the run's request is at]
          lock,     \* grading:lock:<attempt>: the run that set it, or 0
          jobs,     \* preview jobs waiting or being graded
          row,      \* the attempt's last result: its job, and the clicks before
          copies,   \* <<replica, job>>: announcements a replica has not handled
          shown,    \* [1..MaxClicks -> the job whose result ended the run]
          runMishaps,
          aired,    \* history: runs with a request, job, copy or poll
                     \* in the air at a click
          loose,    \* history: unfinished runs whose lock went without them
          misread   \* history: runs that a poll ended with a row graded before
                     \* the click, by a browser clock behind the database's

runVars == <<clicks, busy, started, ref, timers, polls, request, lock, jobs, row,
             copies, shown, runMishaps, aired, loose, misread>>
page == <<busy, started, ref, timers, shown>>

Clicks == 1..MaxClicks

RunInit ==
    /\ clicks = 0 /\ busy = FALSE /\ started = 0 /\ ref = 0 /\ timers = {}
    /\ polls = {} /\ request = [r \in Clicks |-> "none"] /\ lock = 0
    /\ jobs = {} /\ row = [job |-> 0, after |-> 0] /\ copies = {}
    /\ shown = [r \in Clicks |-> 0]
    /\ runMishaps = 0 /\ aired = [r \in Clicks |-> {}] /\ loose = {} /\ misread = {}

RunMishap == runMishaps < MaxRunMishaps /\ runMishaps' = runMishaps + 1
Stands(r, at) == request[r] = at
Goes(r, at) == request' = [request EXCEPT ![r] = at]

(* clearRunTestsTimers, with setIsRunning(false).                          *)
StopRun ==
    /\ timers' = timers \ {ref} /\ ref' = 0 /\ started' = 0 /\ busy' = FALSE

(* A result, from the room or a poll, ends whatever run is on.             *)
ShowResult(j) ==
    /\ StopRun
    /\ shown' = [r \in Clicks |-> IF r = started THEN j ELSE shown[r]]

Unlock ==
    /\ lock' = 0
    /\ loose' = loose \cup {r \in {lock} \cap Clicks : r \in jobs \/ request[r] = "queue"}
-----------------------------------------------------------------------------
(* handleRunTests: the old timers are cleared and the files saved.         *)
Click ==
    LET r == clicks + 1 IN
    /\ ~busy /\ r \in Clicks
    /\ clicks' = r /\ busy' = TRUE /\ started' = r
    /\ timers' = timers \ {ref} /\ ref' = 0
    /\ Goes(r, "lock")
    /\ aired' = [aired EXCEPT ![r] = jobs \cup {c[2] : c \in copies}
                                         \cup {q.read.job : q \in polls}
                                         \cup {k \in Clicks : request[k] \in {"lock", "queue"}}]
    /\ UNCHANGED <<polls, lock, jobs, row, copies, shown, runMishaps, loose, misread>>

(* Variant: SET without NX.                                                *)
TakeLockAnyway(r) ==
    /\ Stands(r, "lock")
    /\ lock' = r /\ Goes(r, "queue")
    /\ UNCHANGED <<clicks, page, polls, jobs, row, copies, runMishaps, aired, loose, misread>>

(* SET NX of the lock, which lives ninety seconds.                         *)
TakeLock(r) ==
    /\ Stands(r, "lock")
    /\ IF lock = 0 THEN lock' = r /\ Goes(r, "queue") ELSE Goes(r, "refused") /\ UNCHANGED lock
    /\ UNCHANGED <<clicks, page, polls, jobs, row, copies, runMishaps, aired, loose, misread>>

(* The job is queued; an attempt that is over (AttemptLifecycle has when)  *)
(* or an error deletes the lock, whoever holds it by then.                 *)
QueueRun(r) ==
    /\ Stands(r, "queue")
    /\ \/ Goes(r, "queued") /\ jobs' = jobs \cup {r} /\ UNCHANGED <<lock, loose, runMishaps>>
       \/ RunMishap /\ Goes(r, "refused") /\ Unlock /\ UNCHANGED jobs
    /\ UNCHANGED <<clicks, page, polls, row, copies, aired, misread>>

(* The answer reaches the page, which starts the poll and the timeout; a   *)
(* refusal or a lost answer ends the waiting.                              *)
RunQueued(r) ==
    /\ Stands(r, "queued")
    /\ Goes(r, "done")
    /\ ref' = r /\ timers' = timers \cup {r}
    /\ UNCHANGED <<clicks, busy, started, polls, lock, jobs, row, copies, shown,
                   runMishaps, aired, loose, misread>>

Refused(r) ==
    /\ \/ Stands(r, "refused") /\ UNCHANGED runMishaps
       \/ Stands(r, "queued") /\ RunMishap
    /\ Goes(r, "done") /\ StopRun
    /\ UNCHANGED <<clicks, polls, lock, jobs, row, copies, shown, aired, loose, misread>>

(* The interval: the start is captured and the attempt fetched.            *)
SendPoll(r) ==
    /\ r \in timers /\ started # 0
    /\ polls' = polls \cup {[start |-> started, read |-> row]}
    /\ UNCHANGED <<clicks, page, request, lock, jobs, row, copies, runMishaps, aired, loose,
                   misread>>

(* Variant: any result of the row ends the run.                            *)
PollAnsweredAny(q) ==
    /\ q \in polls /\ polls' = polls \ {q}
    /\ IF q.read.job # 0 THEN ShowResult(q.read.job) ELSE UNCHANGED page
    /\ UNCHANGED <<clicks, request, lock, jobs, row, copies, runMishaps, aired, loose, misread>>

(* A row graded since the click answers the run, whichever job wrote it.   *)
(* A fetch may fail, and a browser clock that is ahead passes over the     *)
(* row; one that is behind takes a row graded before the click.            *)
GradedSince(q) == q.read.after >= q.start

PollAnswered(q) ==
    /\ q \in polls /\ polls' = polls \ {q}
    /\ \/ UNCHANGED <<page, runMishaps, misread>>
       \/ /\ q.read.job # 0 /\ GradedSince(q) /\ ShowResult(q.read.job)
          /\ UNCHANGED <<runMishaps, misread>>
       \/ /\ q.read.job # 0 /\ ~GradedSince(q) /\ ShowResult(q.read.job)
          /\ RunMishap /\ misread' = misread \cup ({started} \cap Clicks)
    /\ UNCHANGED <<clicks, request, lock, jobs, row, copies, aired, loose>>

(* Variant: the timers are cleared, the page goes on waiting.              *)
TimesOutQuietly(r) ==
    /\ r \in timers
    /\ timers' = timers \ {r, ref} /\ ref' = 0
    /\ UNCHANGED <<clicks, busy, started, shown, polls, request, lock, jobs, row,
                   copies, runMishaps, aired, loose, misread>>

(* Ninety seconds after an answer, if its timers were not cleared.         *)
TimesOut(r) ==
    /\ r \in timers
    /\ IF started = 0 THEN timers' = timers \ {r} /\ UNCHANGED <<busy, started, ref>>
       ELSE /\ timers' = timers \ {r, ref} /\ ref' = 0 /\ started' = 0 /\ busy' = FALSE
    /\ UNCHANGED <<clicks, shown, polls, request, lock, jobs, row, copies, runMishaps,
                   aired, loose, misread>>
-----------------------------------------------------------------------------
(* The grader writes the row and publishes, or the job comes to nothing.   *)
Graded(j) ==
    /\ j \in jobs /\ jobs' = jobs \ {j} /\ loose' = loose \ {j}
    /\ row' = [job |-> j, after |-> clicks]
    /\ copies' = copies \cup (Replicas \X {j})
    /\ UNCHANGED <<clicks, page, polls, request, lock, runMishaps, aired, misread>>

JobLost(j) ==
    /\ j \in jobs /\ jobs' = jobs \ {j} /\ loose' = loose \ {j} /\ RunMishap
    /\ UNCHANGED <<clicks, page, polls, request, lock, row, copies, aired, misread>>

(* handleGradingComplete of one replica: through the Redis adapter its     *)
(* emission reaches the room wherever the page's socket is, so the page    *)
(* hears every replica's; then the lock is deleted.                        *)
HandleComplete(x, j) ==
    /\ <<x, j>> \in copies /\ copies' = copies \ {<<x, j>>}
    /\ \/ ShowResult(j) /\ UNCHANGED runMishaps
       \/ UNCHANGED page /\ RunMishap
    /\ Unlock
    /\ UNCHANGED <<clicks, polls, request, jobs, row, aired, misread>>

LockExpires ==
    /\ lock # 0 /\ RunMishap
    /\ Unlock
    /\ UNCHANGED <<clicks, page, polls, request, jobs, row, copies, aired, misread>>

RunNext ==
    \/ Click \/ LockExpires
    \/ \E r \in Clicks : \/ TakeLock(r) \/ QueueRun(r) \/ RunQueued(r) \/ Refused(r)
                         \/ SendPoll(r) \/ TimesOut(r) \/ Graded(r) \/ JobLost(r)
    \/ \E q \in polls : PollAnswered(q)
    \/ \E x \in Replicas, j \in Clicks : HandleComplete(x, j)

RunSpec == RunInit /\ [][RunNext]_runVars
-----------------------------------------------------------------------------
RunTypeOK ==
    /\ started \in 0..clicks /\ ref \in 0..clicks /\ timers \subseteq 1..clicks
    /\ request \in [Clicks -> {"none", "lock", "queue", "queued", "refused", "done"}]
    /\ lock \in 0..clicks /\ jobs \subseteq 1..clicks /\ row.job \in 0..clicks

(* Two test runs of an attempt are graded at a time only if the lock of    *)
(* one went before its job was done: it expired, or the announcement or    *)
(* the error of another run deleted it (attempts.ts:273, index.ts:280).    *)
OneTestRun == \A j, k \in jobs : j # k => {j, k} \cap loose # {}

(* The page shows for a run the result of that run, or of an earlier one   *)
(* whose request, job, announcement or poll was not over when it began:    *)
(* nothing in a result names its run (page.tsx:292 and 582).  One more     *)
(* exception: a poll that took a row graded before the click, because the  *)
(* browser's clock (567) was behind the database's (590; graded_at is its  *)
(* NOW()).  What the room announces is not excused by any clock.           *)
ShownIsOwn ==
    \A r \in Clicks : shown[r] # 0 =>
        shown[r] = r \/ shown[r] \in aired[r] \/ r \in misread

(* A page that says "running" has a request that will be answered, or a    *)
(* timeout that will fire: it does not wait for ever.                      *)
WaitIsWatched ==
    busy => started # 0 /\ \/ request[started] \notin {"none", "done"}
                           \/ ref # 0 /\ ref \in timers

(* What the page says of a run is of that run, and ends.                   *)
RunsExplained == ShownIsOwn /\ WaitIsWatched
=============================================================================
