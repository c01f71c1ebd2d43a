--------------------------- MODULE GradingQueue ---------------------------
(***************************************************************************)
(* The grading queue: the API enqueues grading jobs on two Redis Streams   *)
(* (lib/grading.ts), grader processes consume them through one consumer    *)
(* group, re-claim idle messages, park failed jobs in a retry set and      *)
(* dead-letter the rest (worker/worker.go), and write each result to       *)
(* Postgres (db/postgres.go).                                              *)
(*                                                                         *)
(* Every Redis or Postgres command of the handlers is one step, because    *)
(* each is atomic by itself and nothing joins two of them: other workers,  *)
(* the API and a stop of the process interleave between any two.  Most     *)
(* command errors are only logged by the code, so a command may also fail  *)
(* and the handler carry on; the number of such failures is bounded.       *)
(*                                                                         *)
(* Time is abstracted: a retry is due, a pending message is idle for       *)
(* PelIdleMs, a job hash passes its TTL whenever the model chooses.        *)
(***************************************************************************)
EXTENDS Integers, Sequences, FiniteSets

CONSTANTS
  Jobs,            (* grading jobs, one per call of addGradingJob           *)
  Previews,        (* the jobs of run-tests: they use the low stream        *)
  Malformed,       (* the jobs whose payload validateJobPayload rejects     *)
  Workers,         (* grader processes; each is one consumer of the group   *)
  Slots,           (* the semaphore's places in one process (Concurrency)   *)
  MaxAttempts,     (* starts allowed before a failing job is dead-lettered  *)
  ReadBatch,       (* most messages one XREADGROUP asks for                 *)
  NoJob,           (* "no job at hand" in the retry loop                    *)
  MaxMishaps,      (* bound: all of the following together                  *)
  MaxRedisFaults,  (* bound: Redis commands that fail                       *)
  MaxDbFaults,     (* bound: Postgres writes that fail                      *)
  MaxStops,        (* bound: stops (crash, SIGTERM, spot interruption)      *)
  MaxStalls,       (* bound: messages a live worker holds beyond PelIdleMs  *)
  MaxPauses,       (* bound: calls of pauseQueue                            *)
  MaxExpiries      (* bound: job hashes and retry entries that outlive JobTTL *)

ASSUME QueueAssumption ==
  /\ Previews \subseteq Jobs
  /\ Malformed \subseteq Jobs
  /\ NoJob \notin Jobs
  /\ IsFiniteSet(Slots)
  /\ MaxAttempts \in Nat \ {0}
  /\ ReadBatch \in Nat \ {0}
  /\ {MaxMishaps, MaxRedisFaults, MaxDbFaults, MaxStops,
      MaxStalls, MaxPauses, MaxExpiries} \subseteq Nat

NoMsg == [job |-> NoJob, n |-> 0]     \* in a slot where no goroutine runs
Streams == {"high", "low"}
StreamOf(j) == IF j \in Previews THEN "low" ELSE "high"

Msg == [job : Jobs, n : Nat \ {0}]    \* the n-th XADD for a job
Threads == Workers \X Slots           \* the goroutines of dispatch
Live == {"queued", "processing", "retrying"}
Counted == Live \cup {"completed", "failed"}
Results == {"none", "graded", "infra", "error"}
Events == {"none", "grade", "error"}
PCs == {"idle", "start", "mark", "count", "grade", "announce", "finish",
        "failing", "tell", "decide", "park", "bury", "ack"}

VARIABLES
  \* Redis
  ready,       \* per stream, the entries the group has not delivered yet
  pel,         \* delivered and not acknowledged (pending entries list)
  idle,        \* those of pel that have been idle for PelIdleMs
  adds,        \* XADDs so far, per job
  retry,       \* the retry set (a sorted set of job ids)
  dlq,         \* the jobs in the dead-letter stream
  status,      \* field "status" of grading:job:<id>, "none" when absent
  attempts,    \* field "attempts" of grading:job:<id>
  payload,     \* the jobs whose hash holds a payload
  stats,       \* grading:stats ("processing" is its field "active")
  paused,      \* grading:queue:paused exists
  \* Postgres and pub/sub
  result,      \* the last result written for the job's attempt
  told,        \* the last grading:complete event published for the job
  \* the API process
  api,         \* progress of addGradingJob
  \* a grader process
  up, turn, inbox, claimed,    \* processing loop and reclaim loop
  rpc, due, rjob,              \* retry loop
  pc, cur, tries,              \* goroutines running processMessage
  \* what the environment has done so far
  redisFaults, dbFaults, stops, stalls, pauses, expiries,
  \* history, read by no guard
  graded,      \* jobs a grade has been stored for
  dropped,     \* jobs let go: a failed command or a stop before the hand-over
               \* to Redis, or an entry of the retry set beyond JobTTL
  forgotten,   \* jobs whose hash expired or was never written
  duplicated,  \* jobs delivered again without having been parked again
  starts,      \* times a job was counted as started
  parks        \* times a job was parked for retry

streamVars == <<ready, pel, idle, adds>>
hashVars == <<status, attempts, payload, stats>>
loopVars == <<up, turn, inbox, claimed>>
retryVars == <<rpc, due, rjob>>
threadVars == <<pc, cur, tries>>
envVars == <<dbFaults, stops, stalls, pauses, expiries>>
histVars == <<graded, dropped, forgotten, duplicated, starts, parks>>
vars == <<ready, pel, idle, adds, retry, dlq, status, attempts, payload, stats,
          paused, result, told, api, up, turn, inbox, claimed, rpc, due, rjob,
          pc, cur, tries, redisFaults, dbFaults, stops, stalls, pauses,
          expiries, graded, dropped, forgotten, duplicated, starts, parks>>

----------------------------------------------------------------------------
(* Helpers *)

Entries(q) == {q[i] : i \in 1..Len(q)}

\* Messages a live process holds: read, claimed, or in a goroutine.
InHand(m) ==
  \/ \E w \in Workers : m \in inbox[w] \cup claimed[w]
  \/ \E t \in Threads : pc[t] # "idle" /\ cur[t] = m

\* hasCapacity and availableSlots.
FreeSlots(w) == {s \in Slots : pc[<<w, s>>] = "idle"}
HasCapacity(w) == FreeSlots(w) # {}

\* transitionScript: one atomic Lua script moves the counters with the status.
Transition(j, next) ==
  /\ status' = [status EXCEPT ![j] = next]
  /\ stats' = [c \in Counted |->
                 stats[c] + (IF c = next THEN 1 ELSE 0)
                          - (IF c = status[j] /\ c \in Live THEN 1 ELSE 0)]

\* Variant: the client sends the command again after a lost reply.
XAddTwice(j) ==
  /\ adds' = [adds EXCEPT ![j] = @ + 2]
  /\ ready' = [ready EXCEPT ![StreamOf(j)] =
                 @ \o <<[job |-> j, n |-> adds[j] + 1],
                         [job |-> j, n |-> adds[j] + 2]>>]
  /\ UNCHANGED <<pel, idle>>

XAdd(j) ==
  /\ adds' = [adds EXCEPT ![j] = @ + 1]
  /\ ready' = [ready EXCEPT ![StreamOf(j)] =
                 Append(@, [job |-> j, n |-> adds[j] + 1])]
  /\ UNCHANGED <<pel, idle>>

\* One more mishap of a kind that happened n times is within the bounds.
May(n, max) ==
  /\ n < max
  /\ redisFaults + dbFaults + stops + stalls + pauses + expiries < MaxMishaps

\* A Redis command whose error the code logs before carrying on.
Logged(effect, skipped) ==
  \/ effect /\ UNCHANGED redisFaults
  \/ /\ May(redisFaults, MaxRedisFaults)
     /\ redisFaults' = redisFaults + 1
     /\ skipped

----------------------------------------------------------------------------
(* The API: addGradingJob, pauseQueue, resumeQueue *)

\* XADD first ...
Enqueue(j) ==
  /\ api[j] = "new"
  /\ api' = [api EXCEPT ![j] = "added"]
  /\ XAdd(j)
  /\ UNCHANGED <<hashVars, retry, dlq, paused, result, told, loopVars,
                 retryVars, threadVars, redisFaults, envVars, histVars>>

\* Variant: the counter is left out of the transaction.
RegisterUncounted(j) ==
  /\ api[j] = "added"
  /\ api' = [api EXCEPT ![j] = "registered"]
  /\ status' = [status EXCEPT ![j] = "queued"]
  /\ attempts' = [attempts EXCEPT ![j] = 0]
  /\ payload' = payload \cup {j}
  /\ UNCHANGED <<streamVars, stats, retry, dlq, paused, result, told, loopVars,
                 retryVars, threadVars, redisFaults, envVars, histVars>>

\* ... then MULTI HSET/EXPIRE/HINCRBY, whatever a worker did in between.
Register(j) ==
  /\ api[j] = "added"
  /\ api' = [api EXCEPT ![j] = "registered"]
  /\ status' = [status EXCEPT ![j] = "queued"]
  /\ attempts' = [attempts EXCEPT ![j] = 0]
  /\ payload' = payload \cup {j}
  /\ stats' = [stats EXCEPT !["queued"] = @ + 1]
  /\ UNCHANGED <<streamVars, retry, dlq, paused, result, told, loopVars,
                 retryVars, threadVars, redisFaults, envVars, histVars>>

Pause ==
  /\ May(pauses, MaxPauses)
  /\ pauses' = pauses + 1
  /\ paused' = TRUE
  /\ UNCHANGED <<streamVars, hashVars, retry, dlq, result, told, api, loopVars,
                 retryVars, threadVars, redisFaults, dbFaults, stops, stalls,
                 expiries, histVars>>

Resume ==
  /\ paused
  /\ paused' = FALSE
  /\ UNCHANGED <<streamVars, hashVars, retry, dlq, result, told, api, loopVars,
                 retryVars, threadVars, redisFaults, envVars, histVars>>

----------------------------------------------------------------------------
(* processingLoop: check the pause key, read the high stream, then the low *)

\* readAndDispatch up to the first dispatch: XREADGROUP moves at most as many
\* entries as there are free slots to the pending list.  When the command
\* fails after Redis executed it, they are pending and in nobody's hands.
\* The round starts with the check of the pause key, of which an error counts
\* as "not paused"; check and first read are one step, since a pause between
\* them is a pause after the read.
Read(w, s) ==
  LET count == IF Cardinality(FreeSlots(w)) < ReadBatch
               THEN Cardinality(FreeSlots(w)) ELSE ReadBatch
      n == IF Len(ready[s]) < count THEN Len(ready[s]) ELSE count
      batch == {ready[s][i] : i \in 1..n}
  IN /\ up[w] /\ turn[w] = s /\ inbox[w] = {}
     /\ turn' = [turn EXCEPT ![w] = IF s = "high" THEN "low" ELSE "high"]
     /\ ready' = [ready EXCEPT ![s] = SubSeq(@, n + 1, Len(@))]
     /\ pel' = pel \cup batch
     /\ Logged(/\ s = "high" => ~paused
               /\ inbox' = [inbox EXCEPT ![w] = batch],
               IF s = "high" /\ paused THEN inbox' = [inbox EXCEPT ![w] = batch]
                                       ELSE n > 0 /\ UNCHANGED inbox)
     /\ UNCHANGED <<idle, adds, hashVars, retry, dlq, paused, result, told, api,
                    up, claimed, retryVars, threadVars, envVars, histVars>>

StartGoroutine(w, m) ==
  \E s \in FreeSlots(w) :
    /\ pc' = [pc EXCEPT ![<<w, s>>] = "start"]
    /\ cur' = [cur EXCEPT ![<<w, s>>] = m]
    /\ tries' = [tries EXCEPT ![<<w, s>>] = 0]

\* Variant: the message stays in the batch, as if the loop did not move on.
DispatchAgain(w, m) ==
  /\ up[w] /\ m \in inbox[w]
  /\ StartGoroutine(w, m)
  /\ UNCHANGED <<streamVars, hashVars, retry, dlq, paused, result, told, api,
                 loopVars, retryVars, redisFaults, envVars, histVars>>

\* dispatch blocks on the semaphore until a slot is free.
Dispatch(w, m) ==
  /\ up[w] /\ m \in inbox[w]
  /\ inbox' = [inbox EXCEPT ![w] = @ \ {m}]
  /\ StartGoroutine(w, m)
  /\ UNCHANGED <<streamVars, hashVars, retry, dlq, paused, result, told, api,
                 up, turn, claimed, retryVars, redisFaults, envVars, histVars>>

----------------------------------------------------------------------------
(* reclaimLoop: XPENDING, keep the idle ones, XCLAIM them with min-idle *)

\* Variant: only the high stream is looked through.
ReclaimHigh(w, s) ==
  /\ up[w] /\ claimed[w] = {} /\ HasCapacity(w) /\ s = "high"
  /\ \E S \in SUBSET {m \in idle : StreamOf(m.job) = s} \ {{}} :
       /\ claimed' = [claimed EXCEPT ![w] = S]
       /\ idle' = idle \ S
       /\ duplicated' = duplicated \cup {m.job : m \in S}
  /\ UNCHANGED <<ready, pel, adds, hashVars, retry, dlq, paused, result, told,
                 api, up, turn, inbox, retryVars, threadVars, redisFaults,
                 envVars, graded, dropped, forgotten, starts, parks>>

\* Messages may become idle or be claimed by others between the two commands,
\* so the claim gets some of the idle messages.  XCLAIM restarts the idle time.
Reclaim(w, s) ==
  /\ up[w] /\ claimed[w] = {} /\ HasCapacity(w)
  /\ \E S \in SUBSET {m \in idle : StreamOf(m.job) = s} \ {{}} :
       /\ claimed' = [claimed EXCEPT ![w] = S]
       /\ idle' = idle \ S
       /\ duplicated' = duplicated \cup {m.job : m \in S}
  /\ UNCHANGED <<ready, pel, adds, hashVars, retry, dlq, paused, result, told,
                 api, up, turn, inbox, retryVars, threadVars, redisFaults,
                 envVars, graded, dropped, forgotten, starts, parks>>

DispatchClaimed(w, m) ==
  /\ up[w] /\ m \in claimed[w]
  /\ claimed' = [claimed EXCEPT ![w] = @ \ {m}]
  /\ StartGoroutine(w, m)
  /\ UNCHANGED <<streamVars, hashVars, retry, dlq, paused, result, told, api,
                 up, turn, inbox, retryVars, redisFaults, envVars, histVars>>

\* Without capacity the rest of the claim is abandoned; it stays pending.
AbandonClaim(w) ==
  /\ up[w] /\ claimed[w] # {} /\ ~HasCapacity(w)
  /\ claimed' = [claimed EXCEPT ![w] = {}]
  /\ UNCHANGED <<streamVars, hashVars, retry, dlq, paused, result, told, api,
                 up, turn, inbox, retryVars, threadVars, redisFaults, envVars,
                 histVars>>

----------------------------------------------------------------------------
(* retryLoop: ZRANGEBYSCORE, then ZREM of all ids, then requeueJob of each *)

RetryPoll(w) ==
  /\ up[w] /\ rpc[w] = "poll"
  /\ \E S \in SUBSET retry \ {{}} : due' = [due EXCEPT ![w] = S]
  /\ rpc' = [rpc EXCEPT ![w] = "remove"]
  /\ UNCHANGED <<streamVars, hashVars, retry, dlq, paused, result, told, api,
                 loopVars, rjob, threadVars, redisFaults, envVars, histVars>>

\* What ZREM answered is not looked at: ids another worker removed are
\* requeued too, and so are ids whose removal failed.
RetryRemove(w) ==
  /\ up[w] /\ rpc[w] = "remove"
  /\ rpc' = [rpc EXCEPT ![w] = "requeue"]
  /\ Logged(retry' = retry \ due[w], UNCHANGED retry)
  /\ UNCHANGED <<streamVars, hashVars, dlq, paused, result, told, api, loopVars,
                 due, rjob, threadVars, envVars, histVars>>

\* Variant: the loop forgets which id it is requeueing.
RequeueNameless(w, j) ==
  /\ up[w] /\ rpc[w] = "requeue" /\ j \in due[w] /\ j \in payload
  /\ due' = [due EXCEPT ![w] = @ \ {j}]
  /\ XAdd(j)
  /\ rpc' = [rpc EXCEPT ![w] = "mark"]
  /\ UNCHANGED <<hashVars, retry, dlq, paused, result, told, api, loopVars, rjob,
                 threadVars, redisFaults, envVars, histVars>>

\* requeueJob, with a payload in the hash: XADD.  An error is returned and
\* logged; the id is already out of the retry set.
RequeueAdd(w, j) ==
  /\ up[w] /\ rpc[w] = "requeue" /\ j \in due[w] /\ j \in payload
  /\ due' = [due EXCEPT ![w] = @ \ {j}]
  /\ Logged(/\ XAdd(j)
            /\ rpc' = [rpc EXCEPT ![w] = "mark"]
            /\ rjob' = [rjob EXCEPT ![w] = j]
            /\ duplicated' = duplicated \cup
                              (IF adds[j] > parks[j] THEN {j} ELSE {})
            /\ UNCHANGED dropped,
            /\ dropped' = dropped \cup {j}
            /\ UNCHANGED <<streamVars, rpc, rjob, duplicated>>)
  /\ UNCHANGED <<hashVars, retry, dlq, paused, result, told, api, loopVars,
                 threadVars, envVars, graded, forgotten, starts, parks>>

\* ... and only then the status, although the entry may already be taken.
RequeueMark(w) ==
  /\ up[w] /\ rpc[w] = "mark"
  /\ rpc' = [rpc EXCEPT ![w] = "requeue"]
  /\ rjob' = [rjob EXCEPT ![w] = NoJob]
  /\ Logged(Transition(rjob[w], "queued"), UNCHANGED <<status, stats>>)
  /\ UNCHANGED <<streamVars, attempts, payload, retry, dlq, paused, result,
                 told, api, loopVars, due, threadVars, envVars, histVars>>

\* Variant: a job without payload is skipped instead of dead-lettered.
RequeueSkips(w, j) ==
  /\ up[w] /\ rpc[w] = "requeue" /\ j \in due[w] /\ j \notin payload
  /\ due' = [due EXCEPT ![w] = @ \ {j}]
  /\ UNCHANGED <<streamVars, hashVars, retry, dlq, paused, result, told, api,
                 loopVars, rpc, rjob, threadVars, redisFaults, envVars, histVars>>

\* requeueJob, without a payload: status "failed", then the dead-letter stream.
RequeueMissing(w, j) ==
  /\ up[w] /\ rpc[w] = "requeue" /\ j \in due[w] /\ j \notin payload
  /\ due' = [due EXCEPT ![w] = @ \ {j}]
  /\ rpc' = [rpc EXCEPT ![w] = "bury"]
  /\ rjob' = [rjob EXCEPT ![w] = j]
  /\ Logged(Transition(j, "failed"), UNCHANGED <<status, stats>>)
  /\ UNCHANGED <<streamVars, attempts, payload, retry, dlq, paused, result,
                 told, api, loopVars, threadVars, envVars, histVars>>

RequeueBury(w) ==
  /\ up[w] /\ rpc[w] = "bury"
  /\ rpc' = [rpc EXCEPT ![w] = "requeue"]
  /\ rjob' = [rjob EXCEPT ![w] = NoJob]
  /\ Logged(dlq' = dlq \cup {rjob[w]} /\ UNCHANGED dropped,
            dropped' = dropped \cup {rjob[w]} /\ UNCHANGED dlq)
  /\ UNCHANGED <<streamVars, hashVars, retry, paused, result, told, api,
                 loopVars, due, threadVars, envVars, graded, forgotten,
                 duplicated, starts, parks>>

RequeueDone(w) ==
  /\ up[w] /\ rpc[w] = "requeue" /\ due[w] = {}
  /\ rpc' = [rpc EXCEPT ![w] = "poll"]
  /\ UNCHANGED <<streamVars, hashVars, retry, dlq, paused, result, told, api,
                 loopVars, due, rjob, threadVars, redisFaults, envVars,
                 histVars>>

\* Every half hour the loop drops the ids that are overdue by more than JobTTL.
RetryCleanup(w) ==
  /\ up[w] /\ rpc[w] = "poll"
  /\ May(expiries, MaxExpiries)
  /\ expiries' = expiries + 1
  /\ \E S \in SUBSET retry \ {{}} :
       /\ retry' = retry \ S
       /\ dropped' = dropped \cup S
  /\ UNCHANGED <<streamVars, hashVars, dlq, paused, result, told, api, loopVars,
                 retryVars, threadVars, redisFaults, dbFaults, stops, stalls,
                 pauses, graded, forgotten, duplicated, starts, parks>>

----------------------------------------------------------------------------
(* processMessage, one action per command *)

Goto(t, from, to) ==
  /\ pc[t] = from
  /\ pc' = [pc EXCEPT ![t] = to]

\* A payload that does not parse or validate: "failed", DLQ, acknowledge.
Reject(t) ==
  LET j == cur[t].job IN
  /\ j \in Malformed
  /\ Goto(t, "start", "bury")
  /\ Logged(Transition(j, "failed"), UNCHANGED <<status, stats>>)
  /\ UNCHANGED <<streamVars, attempts, payload, retry, dlq, paused, result,
                 told, api, loopVars, retryVars, cur, tries, envVars, histVars>>

\* Variant: the message is acknowledged on receipt.
RecordAndAck(t) ==
  LET j == cur[t].job IN
  /\ j \notin Malformed
  /\ Goto(t, "start", "mark")
  /\ payload' = payload \cup {j}
  /\ pel' = pel \ {cur[t]} /\ idle' = idle \ {cur[t]}
  /\ UNCHANGED <<ready, adds, status, attempts, stats, retry, dlq, paused,
                 result, told, api, loopVars, retryVars, cur, tries,
                 redisFaults, envVars, histVars>>

\* updateJobHash writes payload, attempt and stream position, (re)creating the
\* hash when it is not there.
RecordHash(t) ==
  LET j == cur[t].job IN
  /\ j \notin Malformed
  /\ Goto(t, "start", "mark")
  /\ Logged(payload' = payload \cup {j} /\ UNCHANGED forgotten,
            /\ forgotten' = forgotten \cup ({j} \ payload)
            /\ UNCHANGED payload)
  /\ UNCHANGED <<streamVars, status, attempts, stats, retry, dlq, paused,
                 result, told, api, loopVars, retryVars, cur, tries, envVars,
                 graded, dropped, duplicated, starts, parks>>

MarkProcessing(t) ==
  /\ Goto(t, "mark", "count")
  /\ Logged(Transition(cur[t].job, "processing"), UNCHANGED <<status, stats>>)
  /\ UNCHANGED <<streamVars, attempts, payload, retry, dlq, paused, result,
                 told, api, loopVars, retryVars, cur, tries, envVars, histVars>>

\* HINCRBY attempts; on an error the handler goes on as if it were the first.
CountAttempt(t) ==
  LET j == cur[t].job IN
  /\ Goto(t, "count", "grade")
  /\ starts' = [starts EXCEPT ![j] = @ + 1]
  /\ Logged(/\ attempts' = [attempts EXCEPT ![j] = @ + 1]
            /\ tries' = [tries EXCEPT ![t] = attempts[j] + 1],
            /\ tries' = [tries EXCEPT ![t] = 1]
            /\ UNCHANGED attempts)
  /\ UNCHANGED <<streamVars, status, payload, stats, retry, dlq, paused, result,
                 told, api, loopVars, retryVars, cur, envVars, graded, dropped,
                 forgotten, duplicated, parks>>

\* RunGrader, then UpdateAttemptResults.  A grader reports trouble with its
\* containers, networks or the Docker daemon as a result that failed ("infra"),
\* never as an error, so only the database write can fail here.
Grade(t) ==
  LET j == cur[t].job IN
  /\ \/ /\ Goto(t, "grade", "announce")
        /\ \E r \in {"graded", "infra"} : result' = [result EXCEPT ![j] = r]
        /\ graded' = graded \cup {j}
        /\ UNCHANGED dbFaults
     \/ /\ Goto(t, "grade", "failing")
        /\ May(dbFaults, MaxDbFaults)
        /\ dbFaults' = dbFaults + 1
        /\ UNCHANGED <<result, graded>>
  /\ UNCHANGED <<streamVars, hashVars, retry, dlq, paused, told, api, loopVars,
                 retryVars, cur, tries, redisFaults, stops, stalls, pauses,
                 expiries, dropped, forgotten, duplicated, starts, parks>>

\* Variant: a failed publication takes the failure path.
AnnounceOrFail(t) ==
  /\ \/ /\ Goto(t, "announce", "finish")
        /\ told' = [told EXCEPT ![cur[t].job] = "grade"]
     \/ Goto(t, "announce", "failing") /\ UNCHANGED told
  /\ UNCHANGED <<streamVars, hashVars, retry, dlq, paused, result, api, loopVars,
                 retryVars, cur, tries, redisFaults, envVars, histVars>>

Announce(t) ==
  /\ Goto(t, "announce", "finish")
  /\ Logged(told' = [told EXCEPT ![cur[t].job] = "grade"], UNCHANGED told)
  /\ UNCHANGED <<streamVars, hashVars, retry, dlq, paused, result, api,
                 loopVars, retryVars, cur, tries, envVars, histVars>>

MarkCompleted(t) ==
  /\ Goto(t, "finish", "ack")
  /\ Logged(Transition(cur[t].job, "completed"), UNCHANGED <<status, stats>>)
  /\ UNCHANGED <<streamVars, attempts, payload, retry, dlq, paused, result,
                 told, api, loopVars, retryVars, cur, tries, envVars, histVars>>

\* The failure path first writes a failed result with score 0 to the attempt.
StoreFailure(t) ==
  /\ Goto(t, "failing", "tell")
  /\ \/ /\ result' = [result EXCEPT ![cur[t].job] = "error"]
        /\ UNCHANGED dbFaults
     \/ /\ May(dbFaults, MaxDbFaults)
        /\ dbFaults' = dbFaults + 1
        /\ UNCHANGED result
  /\ UNCHANGED <<streamVars, hashVars, retry, dlq, paused, told, api, loopVars,
                 retryVars, cur, tries, redisFaults, stops, stalls, pauses,
                 expiries, histVars>>

\* Variant: the failure path publishes the event of the success path.
AnnounceAlike(t) ==
  /\ Goto(t, "tell", "decide")
  /\ Logged(told' = [told EXCEPT ![cur[t].job] = "grade"], UNCHANGED told)
  /\ UNCHANGED <<streamVars, hashVars, retry, dlq, paused, result, api,
                 loopVars, retryVars, cur, tries, envVars, histVars>>

AnnounceFailure(t) ==
  /\ Goto(t, "tell", "decide")
  /\ Logged(told' = [told EXCEPT ![cur[t].job] = "error"], UNCHANGED told)
  /\ UNCHANGED <<streamVars, hashVars, retry, dlq, paused, result, api,
                 loopVars, retryVars, cur, tries, envVars, histVars>>

MarkRetrying(t) ==
  /\ tries[t] < MaxAttempts
  /\ Goto(t, "decide", "park")
  /\ Logged(Transition(cur[t].job, "retrying"), UNCHANGED <<status, stats>>)
  /\ UNCHANGED <<streamVars, attempts, payload, retry, dlq, paused, result,
                 told, api, loopVars, retryVars, cur, tries, envVars, histVars>>

\* Variant: off by one, the last try is not made.
FailEarly(t) ==
  /\ ~(tries[t] + 1 < MaxAttempts)
  /\ Goto(t, "decide", "bury")
  /\ Transition(cur[t].job, "failed")
  /\ UNCHANGED <<streamVars, attempts, payload, retry, dlq, paused, result,
                 told, api, loopVars, retryVars, cur, tries, redisFaults,
                 envVars, histVars>>

MarkFailed(t) ==
  /\ ~(tries[t] < MaxAttempts)
  /\ Goto(t, "decide", "bury")
  /\ Logged(Transition(cur[t].job, "failed"), UNCHANGED <<status, stats>>)
  /\ UNCHANGED <<streamVars, attempts, payload, retry, dlq, paused, result,
                 told, api, loopVars, retryVars, cur, tries, envVars, histVars>>

\* ZADD to the retry set; the message is acknowledged even when it failed.
Park(t) ==
  LET j == cur[t].job IN
  /\ Goto(t, "park", "ack")
  /\ Logged(/\ retry' = retry \cup {j}
            /\ parks' = [parks EXCEPT ![j] = @ + 1]
            /\ UNCHANGED dropped,
            /\ dropped' = dropped \cup {j}
            /\ UNCHANGED <<retry, parks>>)
  /\ UNCHANGED <<streamVars, hashVars, dlq, paused, result, told, api, loopVars,
                 retryVars, cur, tries, envVars, graded, forgotten, duplicated,
                 starts>>

\* sendToDLQ; the message is acknowledged even when it failed.
Bury(t) ==
  LET j == cur[t].job IN
  /\ Goto(t, "bury", "ack")
  /\ Logged(dlq' = dlq \cup {j} /\ UNCHANGED dropped,
            dropped' = dropped \cup {j} /\ UNCHANGED dlq)
  /\ UNCHANGED <<streamVars, hashVars, retry, paused, result, told, api,
                 loopVars, retryVars, cur, tries, envVars, graded, forgotten,
                 duplicated, starts, parks>>

\* ackAndDelete: XACK and XDEL in one transaction; the goroutine ends.
Ack(t) ==
  /\ Goto(t, "ack", "idle")
  /\ Logged(pel' = pel \ {cur[t]} /\ idle' = idle \ {cur[t]},
            UNCHANGED <<pel, idle>>)
  /\ cur' = [cur EXCEPT ![t] = NoMsg]
  /\ tries' = [tries EXCEPT ![t] = 0]
  /\ UNCHANGED <<ready, adds, hashVars, retry, dlq, paused, result, told, api,
                 loopVars, retryVars, envVars, histVars>>

----------------------------------------------------------------------------
(* Time and the processes' environment *)

\* A pending message reaches PelIdleMs.  While a live process holds it this is
\* a stall: grading that takes longer than PelIdleMs, or a blocked dispatch.
Age(m) ==
  /\ m \in pel \ idle
  /\ idle' = idle \cup {m}
  /\ IF InHand(m) THEN May(stalls, MaxStalls) /\ stalls' = stalls + 1
                  ELSE UNCHANGED stalls
  /\ UNCHANGED <<ready, pel, adds, hashVars, retry, dlq, paused, result, told,
                 api, loopVars, retryVars, threadVars, redisFaults, dbFaults,
                 stops, pauses, expiries, histVars>>

\* The hash of a job nobody has touched for JobTTL disappears; the counters do
\* not follow.
Expire(j) ==
  /\ May(expiries, MaxExpiries)
  /\ status[j] # "none"
  /\ \A t \in Threads : pc[t] # "idle" => cur[t].job # j
  /\ \A w \in Workers : rjob[w] # j
  /\ expiries' = expiries + 1
  /\ status' = [status EXCEPT ![j] = "none"]
  /\ attempts' = [attempts EXCEPT ![j] = 0]
  /\ payload' = payload \ {j}
  /\ forgotten' = forgotten \cup {j}
  /\ UNCHANGED <<streamVars, stats, retry, dlq, paused, result, told, api,
                 loopVars, retryVars, threadVars, redisFaults, dbFaults, stops,
                 stalls, pauses, graded, dropped, duplicated, starts, parks>>

\* The ids the retry loop has taken out of the retry set and not passed on.
InRequeue(w) ==
  IF rpc[w] \in {"requeue", "mark", "bury"}
  THEN due[w] \cup (IF rpc[w] = "bury" THEN {rjob[w]} ELSE {})
  ELSE {}

\* A crash, or a shutdown: once the context is cancelled every further command
\* of every handler fails, and the retry loop breaks out of its batch.
Stop(w) ==
  /\ up[w]
  /\ May(stops, MaxStops)
  /\ stops' = stops + 1
  /\ up' = [up EXCEPT ![w] = FALSE]
  /\ turn' = [turn EXCEPT ![w] = "high"]
  /\ inbox' = [inbox EXCEPT ![w] = {}]
  /\ claimed' = [claimed EXCEPT ![w] = {}]
  /\ dropped' = dropped \cup InRequeue(w)
  /\ rpc' = [rpc EXCEPT ![w] = "poll"]
  /\ due' = [due EXCEPT ![w] = {}]
  /\ rjob' = [rjob EXCEPT ![w] = NoJob]
  /\ pc' = [t \in Threads |-> IF t[1] = w THEN "idle" ELSE pc[t]]
  /\ cur' = [t \in Threads |-> IF t[1] = w THEN NoMsg ELSE cur[t]]
  /\ tries' = [t \in Threads |-> IF t[1] = w THEN 0 ELSE tries[t]]
  /\ UNCHANGED <<streamVars, hashVars, retry, dlq, paused, result, told, api,
                 redisFaults, dbFaults, stalls, pauses, expiries,
                 graded, forgotten, duplicated, starts, parks>>

Start(w) ==
  /\ ~up[w]
  /\ up' = [up EXCEPT ![w] = TRUE]
  /\ UNCHANGED <<streamVars, hashVars, retry, dlq, paused, result, told, api,
                 turn, inbox, claimed, retryVars, threadVars, redisFaults,
                 envVars, histVars>>

----------------------------------------------------------------------------
Init ==
  /\ ready = [s \in Streams |-> <<>>]
  /\ pel = {} /\ idle = {}
  /\ adds = [j \in Jobs |-> 0]
  /\ retry = {} /\ dlq = {}
  /\ status = [j \in Jobs |-> "none"]
  /\ attempts = [j \in Jobs |-> 0]
  /\ payload = {}
  /\ stats = [c \in Counted |-> 0]
  /\ paused = FALSE
  /\ result = [j \in Jobs |-> "none"]
  /\ told = [j \in Jobs |-> "none"]
  /\ api = [j \in Jobs |-> "new"]
  /\ up = [w \in Workers |-> TRUE]
  /\ turn = [w \in Workers |-> "high"]
  /\ inbox = [w \in Workers |-> {}]
  /\ claimed = [w \in Workers |-> {}]
  /\ rpc = [w \in Workers |-> "poll"]
  /\ due = [w \in Workers |-> {}]
  /\ rjob = [w \in Workers |-> NoJob]
  /\ pc = [t \in Threads |-> "idle"]
  /\ cur = [t \in Threads |-> NoMsg]
  /\ tries = [t \in Threads |-> 0]
  /\ redisFaults = 0 /\ dbFaults = 0 /\ stops = 0 /\ stalls = 0
  /\ pauses = 0 /\ expiries = 0
  /\ graded = {} /\ dropped = {} /\ forgotten = {} /\ duplicated = {}
  /\ starts = [j \in Jobs |-> 0]
  /\ parks = [j \in Jobs |-> 0]

Process(t) ==
  \/ Reject(t) \/ RecordHash(t) \/ MarkProcessing(t) \/ CountAttempt(t)
  \/ Grade(t) \/ Announce(t) \/ MarkCompleted(t)
  \/ StoreFailure(t) \/ AnnounceFailure(t) \/ MarkRetrying(t) \/ MarkFailed(t)
  \/ Park(t) \/ Bury(t) \/ Ack(t)

Loop(w) ==
  \/ \E s \in Streams : Read(w, s)
  \/ \E m \in inbox[w] : Dispatch(w, m)

ReclaimStep(w) ==
  \/ \E s \in Streams : Reclaim(w, s)
  \/ \E m \in claimed[w] : DispatchClaimed(w, m)
  \/ AbandonClaim(w)

RetryStep(w) ==
  \/ RetryPoll(w) \/ RetryRemove(w) \/ RequeueMark(w) \/ RequeueBury(w)
  \/ RequeueDone(w) \/ RetryCleanup(w)
  \/ \E j \in due[w] : RequeueAdd(w, j) \/ RequeueMissing(w, j)

Next ==
  \/ \E j \in Jobs : Enqueue(j) \/ Register(j) \/ Expire(j)
  \/ Pause \/ Resume
  \/ \E w \in Workers : Loop(w) \/ ReclaimStep(w) \/ RetryStep(w)
                        \/ Stop(w) \/ Start(w)
  \/ \E t \in Threads : Process(t)
  \/ \E m \in pel : Age(m)

Spec == Init /\ [][Next]_vars

\* What keeps running: the three loops and the goroutines of a process, time,
\* and the restart of a stopped process (docker-compose.grader.yml restarts it
\* unless it was stopped on purpose).  Nothing is assumed of the API process,
\* of the operator or of the faults.
AgeAbandoned == \E m \in pel : ~InHand(m) /\ Age(m)

Fairness ==
  /\ \A w \in Workers : WF_vars(Loop(w)) /\ WF_vars(ReclaimStep(w))
                         /\ WF_vars(RetryStep(w)) /\ WF_vars(Start(w))
  /\ \A t \in Threads : WF_vars(Process(t))
  /\ WF_vars(AgeAbandoned)

FairSpec == Spec /\ Fairness
----------------------------------------------------------------------------
(* Properties *)

\* Every variable keeps its type; in particular only known jobs are ever in
\* the retry set, and a slot with a goroutine has a message.
StreamTypes ==
  /\ ready \in [Streams -> Seq(Msg)]
  /\ pel \in SUBSET Msg
  /\ idle \in SUBSET pel
  /\ adds \in [Jobs -> Nat]
HashTypes ==
  /\ status \in [Jobs -> Counted \cup {"none"}]
  /\ attempts \in [Jobs -> Nat]
  /\ payload \in SUBSET Jobs
  /\ stats \in [Counted -> Int]
SetTypes == retry \in SUBSET Jobs /\ dlq \in SUBSET Jobs /\ paused \in BOOLEAN
OutcomeTypes ==
  /\ result \in [Jobs -> Results]
  /\ told \in [Jobs -> Events]
  /\ api \in [Jobs -> {"new", "added", "registered"}]
LoopTypes ==
  /\ up \in [Workers -> BOOLEAN]
  /\ turn \in [Workers -> Streams]
  /\ inbox \in [Workers -> SUBSET Msg]
  /\ claimed \in [Workers -> SUBSET Msg]
RetryTypes ==
  /\ rpc \in [Workers -> {"poll", "remove", "requeue", "mark", "bury"}]
  /\ due \in [Workers -> SUBSET Jobs]
  /\ rjob \in [Workers -> Jobs \cup {NoJob}]
  /\ \A w \in Workers : rpc[w] \in {"mark", "bury"} => rjob[w] \in Jobs
ThreadTypes ==
  /\ pc \in [Threads -> PCs]
  /\ cur \in [Threads -> Msg \cup {NoMsg}]
  /\ \A t \in Threads : pc[t] # "idle" => cur[t] \in Msg
  /\ tries \in [Threads -> Nat]
EnvTypes ==
  /\ redisFaults \in Nat /\ dbFaults \in Nat /\ stops \in Nat
  /\ stalls \in Nat /\ pauses \in Nat /\ expiries \in Nat
HistoryTypes ==
  /\ graded \in SUBSET Jobs /\ dropped \in SUBSET Jobs
  /\ forgotten \in SUBSET Jobs /\ duplicated \in SUBSET Jobs
  /\ starts \in [Jobs -> Nat]
  /\ parks \in [Jobs -> Nat]
TypeOK == /\ StreamTypes /\ HashTypes /\ SetTypes /\ OutcomeTypes /\ LoopTypes
          /\ RetryTypes /\ ThreadTypes /\ EnvTypes /\ HistoryTypes

\* Entries that are in a stream: not yet delivered, or pending.
Pending == Entries(ready["high"]) \cup Entries(ready["low"]) \cup pel

\* The job is settled, given up, or still has a successor of its k-th message
\* somewhere in Redis or in the hands of a running retry loop.
Covered(j, k) ==
  \/ j \in graded \cup dlq \cup dropped
  \/ j \in retry
  \/ \E w \in Workers : j \in InRequeue(w)
  \/ \E m \in Pending : m.job = j /\ m.n > k

\* An accepted job is never lost: until a grade is stored for it or it is
\* dead-lettered, it is in a stream, in the retry set or being requeued,
\* whatever stops, stalls, double claims and failed commands happen; the one
\* exception are the windows recorded in dropped (a hand-over whose error is
\* only logged, a stop in the middle of the retry loop's batch).
NoJobLost == \A j \in Jobs : api[j] # "new" => Covered(j, 0)

\* A job is dead-lettered only when its payload is unusable, its hash was lost,
\* or it has been started MaxAttempts times: no failure, redelivery or requeue
\* race sends a job to the DLQ with tries left.
DeadLetterJustified ==
  \A j \in dlq : \/ j \in Malformed \cup forgotten
                 \/ starts[j] >= MaxAttempts

\* Two goroutines, in one process or two, never work on the same job (short of
\* the final acknowledgement, which comes after the hand-over) unless the
\* job was claimed from an idle consumer or requeued by two retry loops at once.
SoleGrader ==
  \A t, u \in Threads :
    /\ t # u /\ {pc[t], pc[u]} \cap {"idle", "ack"} = {}
    /\ cur[t].job = cur[u].job
    => cur[t].job \in duplicated

\* The live counters of grading:stats never undercount: each is at least the
\* number of jobs whose hash shows that status, so none goes negative.
NoUndercount ==
  \A c \in Live : stats[c] >= Cardinality({j \in Jobs : status[j] = c})

\* A stored grade is replaced by the "Grading error" result with score 0 only
\* when the job was delivered a second time.
GradeSticks ==
  [][\A j \in Jobs : result[j] \in {"graded", "infra"} /\ result'[j] = "error"
                       => j \in duplicated]_vars

----------------------------------------------------------------------------
(* The queue implements GradingService *)

Accepted == {j \in Jobs : api[j] # "new"}
Fate == [j \in Jobs |-> {f \in {"graded", "buried", "dropped"} :
                           \/ f = "graded" /\ j \in graded
                           \/ f = "buried" /\ j \in dlq
                           \/ f = "dropped" /\ j \in dropped}]

Service == INSTANCE GradingService WITH accepted <- Accepted, fate <- Fate

\* Whatever the processes do, what the API and the database see of the queue is
\* a step of the service: only accepted jobs are graded, announced or given up,
\* and a grade is announced only after it was stored.
ServiceSteps == Service!Spec

\* ... and with the fairness of its loops the queue keeps what the service owes:
\* while it is open, every accepted job is graded, dead-lettered or dropped in the
\* end (see NoJobLost), none forgotten in a pending list, a stream or the retry
\* set, and every grade is announced, even when the process stops between the
\* database write and the publication: the unacknowledged message brings another
\* process to grade and announce it again.
ServiceKept == Service!FairSpec

----------------------------------------------------------------------------
(* What the documents and comments say and the code does not keep *)

\* "graceful interruption handling" (README): with a healthy Redis no stop of a
\* process lets go of a job.  The retry loop removes a batch from the retry set
\* before it requeues it, and breaks out of it when the context is cancelled.
StopsLoseNothing == redisFaults = 0 /\ expiries = 0 => dropped = {}

----------------------------------------------------------------------------
(* The strengthening that makes NoJobLost and DeadLetterJustified inductive *)

\* No message has a number its job has not reached.
NumbersOK ==
  /\ \A m \in Pending : m.n <= adds[m.job]
  /\ \A w \in Workers : \A m \in inbox[w] \cup claimed[w] : m.n <= adds[m.job]
  /\ \A t \in Threads : pc[t] # "idle" => cur[t].n <= adds[cur[t].job]

\* Past the database write of a grade the job is graded; and a goroutine about
\* to acknowledge a message has left its job covered by a later one.
AckSafe ==
  \A t \in Threads :
    /\ pc[t] \in {"announce", "finish"} => cur[t].job \in graded
    /\ pc[t] = "ack" => Covered(cur[t].job, cur[t].n)

LossInv == TypeOK /\ NumbersOK /\ AckSafe /\ NoJobLost

CountsOK ==
  /\ \A j \in Jobs : attempts[j] <= starts[j]
  /\ \A t \in Threads :
       /\ pc[t] \in {"grade", "announce", "finish", "failing", "tell",
                     "decide", "park"} => tries[t] <= starts[cur[t].job]
       /\ pc[t] = "bury" => \/ cur[t].job \in Malformed
                            \/ starts[cur[t].job] >= MaxAttempts
  /\ \A w \in Workers : rpc[w] = "bury" => rjob[w] \in forgotten
  /\ \A w \in Workers : \A j \in due[w] : j \in payload \cup forgotten
  /\ \A j \in retry : j \in payload \cup forgotten
  /\ \A t \in Threads : pc[t] \notin {"idle", "start", "bury", "ack"} =>
                          cur[t].job \in payload \cup forgotten
============================================================================
