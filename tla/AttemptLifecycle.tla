-------------------------- MODULE AttemptLifecycle --------------------------
(***************************************************************************)
(* The life of exam attempts in the API: the rows of exam_attempts in      *)
(* Postgres, the autosave buffer in Redis (lib/autosave-buffer.ts), the    *)
(* handlers that start, save and submit an attempt (routes/attempts.ts,    *)
(* socket/examHandlers.ts), the exam timer (socket/timerService.ts) and    *)
(* the scheduler's cycle (lib/exam-scheduler.ts), on any number of API     *)
(* instances, together with the results the graders write.                 *)
(*                                                                         *)
(* Everything between two awaits is one step.  A handler reads the row,    *)
(* waits, and later writes it unconditionally; other handlers run between. *)
(*                                                                         *)
(* The contents of a workspace are abstracted to a version: the n-th save  *)
(* a client sends for an attempt carries version n, the starter files are  *)
(* version 0.  The grading queue is abstracted to what GradingService      *)
(* promises: a job's result is written at least once, or it is given up.   *)
(***************************************************************************)
EXTENDS Integers, Sequences, FiniteSets

CONSTANTS
  Attempts,
  Exams,
  ExamOf,          (* the exam of each attempt                              *)
  Online,          (* attempts whose client also connects by Socket.IO      *)
  Saves,           (* requests to save files, one execution each            *)
  Submits,         (* executions of the submit handler                      *)
  Cycles,          (* executions of the scheduler's cycle, one after another*)
  Flushers,        (* executions of the background flush, likewise          *)
  NoAttempt, NoExam,
  MaxMishaps,      (* bound: all of the following together                  *)
  MaxFaults,       (* bound: awaited Redis or Postgres commands that fail   *)
  MaxCrashes,      (* bound: handlers that end with their API process       *)
  MaxOverruns,     (* bound: locks that expire before their holder is done  *)
  MaxExpiries,     (* bound: timer_handled keys that expire                 *)
  MaxRegrades      (* bound: results before or after the last one, or none   *)

Handlers == Submits \cup Cycles \cup Flushers

ASSUME LifecycleAssumption ==
  /\ ExamOf \in [Attempts -> Exams]
  /\ Online \subseteq Attempts
  /\ NoAttempt \notin Attempts
  /\ NoExam \notin Exams
  /\ Submits \cap Cycles = {} /\ Submits \cap Flushers = {}
  /\ Cycles \cap Flushers = {}
  /\ {MaxMishaps, MaxFaults, MaxCrashes, MaxOverruns, MaxExpiries,
      MaxRegrades} \subseteq Nat

Nothing == -1                         \* no files: key absent, field not sent
Files == Nat \cup {Nothing}
Row == [att : Attempts, files : Nat]  \* what a query returned
Job == [files : Nat, floor : Nat]     \* floor: see "accepted" below

Final == {"COMPLETED", "FAILED"}
Statuses == {"ABSENT", "IN_PROGRESS", "SUBMITTED", "GRADING"} \cup Final

\* Where a handler waits: inside flushToDatabase, inside the rest of a
\* submission, and elsewhere.
Flushing == {"flushGet", "flushUpdate", "flushClean"}
Submitting == Flushing \cup {"get", "store", "enqueue", "grading"}
PCs == Submitting \cup
       {"idle", "stop", "clear", "clean",                  \* submit handler
        "window", "exams", "attempts", "overdue",          \* scheduler
        "batch"}                                           \* background flush

VARIABLES
  \* Postgres
  status, files,
  \* Redis
  buffer,          \* autosave:<id>, Nothing when absent
  dirty,           \* autosave:dirty
  handled,         \* attempts with a timer_handled:<id> key
  cycleLock,       \* exam_scheduler:lock exists
  attemptLocks,    \* attempts with a scheduler:attempt_lock:<id> key
  processed,       \* exams with an exam_scheduler:processed:<id> key
  \* the grading queue
  jobs,            \* final grading jobs, per attempt, in order of addition
  settled,         \* per attempt, the jobs the queue is done with
  \* requests to start an attempt that passed the checks
  starting,
  \* clients
  edits,           \* saves sent so far, per attempt
  saver,           \* per save request, where it is and what it carries
  \* timers: the interval of an attempt in some instance
  timer,
  \* handlers
  pc, att,         \* what it does, for which attempt
  base,            \* the row's files when the handler read it
  seen,            \* what flushToDatabase found in the buffer
  out,             \* the files to grade
  floor,           \* history: the newest save accepted when it read the row
  rows, ends,      \* scheduler: attempts and exams of its last query
  exam,            \* scheduler: the ended exam at hand
  batch,           \* background flush: attempts still to flush
  \* time
  time,            \* per attempt: limit running, over, or over by a minute
  ended,           \* exams whose scheduled end has passed
  \* what the environment has done so far
  faults, crashes, overruns, expiries, regrades,
  \* history, read by no guard
  accepted,        \* newest save acknowledged, per attempt
  overtaken,       \* attempts where an older save was written over a newer one
  lateStarts,      \* attempts inserted after their exam's end
  swallowed,       \* attempts whose auto-submission failed and was only logged
  stranded,        \* attempts left SUBMITTED by a failure before addGradingJob
  timedOut,        \* attempts whose timer expired and was handled
  outlived,        \* attempts whose lock expired under its holder
  cycleOutlived    \* the cycle lock expired under its holder

rowVars == <<status, files>>
lockVars == <<cycleLock, attemptLocks, processed>>
queueVars == <<jobs, settled>>
clientVars == <<starting, edits, saver>>
workVars == <<att, base, seen, out, floor>>
loopVars == <<rows, ends, exam, batch>>
timeVars == <<time, ended>>
envVars == <<faults, crashes, overruns, expiries, regrades>>
histVars == <<accepted, overtaken, lateStarts, swallowed, stranded, timedOut,
              outlived, cycleOutlived>>
vars == <<status, files, buffer, dirty, handled, cycleLock, attemptLocks,
          processed, jobs, settled, starting, edits, saver, timer, pc, att,
          base, seen, out, floor, rows, ends, exam, batch, time, ended, faults,
          crashes, overruns, expiries, regrades, accepted, overtaken,
          lateStarts, swallowed, stranded, timedOut, outlived, cycleOutlived>>

\* One more mishap of a kind that happened n times is within the bounds.
May(n, max) ==
  /\ n < max
  /\ faults + crashes + overruns + expiries + regrades < MaxMishaps

----------------------------------------------------------------------------
(* Starting an attempt: POST /attempts *)

\* The exam's window is checked ...
CheckStart(a) ==
  /\ status[a] = "ABSENT" /\ a \notin starting
  /\ ExamOf[a] \notin ended
  /\ starting' = starting \cup {a}
  /\ UNCHANGED <<rowVars, buffer, dirty, handled, lockVars, queueVars, edits,
                 saver, timer, pc, workVars, loopVars, timeVars, envVars,
                 histVars>>

\* ... before the row is inserted with the starter files.
InsertAttempt(a) ==
  /\ a \in starting
  /\ starting' = starting \ {a}
  /\ status' = [status EXCEPT ![a] = "IN_PROGRESS"]
  /\ files' = [files EXCEPT ![a] = 0]
  /\ lateStarts' = IF ExamOf[a] \in ended THEN lateStarts \cup {a}
                                           ELSE lateStarts
  /\ UNCHANGED <<buffer, dirty, handled, lockVars, queueVars, edits, saver,
                 timer, pc, workVars, loopVars, timeVars, envVars, accepted,
                 overtaken, swallowed, stranded, timedOut, outlived,
                 cycleOutlived>>

----------------------------------------------------------------------------
(* Saving: PUT /attempts/:id/files and the socket event code:save *)

\* The HTTP handler looks at the row first.
ReceiveSave(s, a) ==
  /\ saver[s].at = "new" /\ status[a] = "IN_PROGRESS"
  /\ edits' = [edits EXCEPT ![a] = @ + 1]
  /\ saver' = [saver EXCEPT ![s] = [at |-> "write", att |-> a,
                                    files |-> edits[a] + 1]]
  /\ UNCHANGED <<rowVars, buffer, dirty, handled, lockVars, queueVars, starting,
                 timer, pc, workVars, loopVars, timeVars, envVars, histVars>>

WriteSave(s) ==
  LET a == saver[s].att
      v == saver[s].files
  IN /\ saver[s].at = "write"
     /\ saver' = [saver EXCEPT ![s].at = "mark"]
     /\ buffer' = [buffer EXCEPT ![a] = v]
     /\ overtaken' = IF v < buffer[a] THEN overtaken \cup {a} ELSE overtaken
     /\ UNCHANGED <<rowVars, dirty, handled, lockVars, queueVars, starting,
                    edits, timer, pc, workVars, loopVars, timeVars, envVars,
                    accepted, lateStarts, swallowed, stranded, timedOut,
                    outlived, cycleOutlived>>

\* code:save has no look at the row: the socket joined when the attempt was in
\* progress, and writes the buffer at once.
SaveOverSocket(s, a) ==
  /\ saver[s].at = "new" /\ status[a] # "ABSENT" /\ a \in Online
  /\ edits' = [edits EXCEPT ![a] = @ + 1]
  /\ saver' = [saver EXCEPT ![s] = [at |-> "mark", att |-> a,
                                    files |-> edits[a] + 1]]
  /\ buffer' = [buffer EXCEPT ![a] = edits[a] + 1]
  /\ UNCHANGED <<rowVars, dirty, handled, lockVars, queueVars, starting, timer,
                 pc, workVars, loopVars, timeVars, envVars, histVars>>

\* The second command of saveToBuffer, and the answer to the client.
MarkDirty(s) ==
  LET a == saver[s].att
      v == saver[s].files
  IN /\ saver[s].at = "mark"
     /\ saver' = [saver EXCEPT ![s].at = "done"]
     /\ dirty' = dirty \cup {a}
     /\ accepted' = [accepted EXCEPT ![a] = IF v > @ THEN v ELSE @]
     /\ UNCHANGED <<rowVars, buffer, handled, lockVars, queueVars, starting,
                    edits, timer, pc, workVars, loopVars, timeVars, envVars,
                    overtaken, lateStarts, swallowed, stranded, timedOut,
                    outlived, cycleOutlived>>

----------------------------------------------------------------------------
(* flushToDatabase, called by the submit handler, the scheduler's            *)
(* autoSubmitAttempt, the background flush and the event code:flush          *)

\* Where its caller goes on.
AfterFlush(h) == IF h \in Flushers THEN "batch" ELSE "get"

FlushGet(h) ==
  /\ pc[h] = "flushGet"
  /\ seen' = [seen EXCEPT ![h] = buffer[att[h]]]
  /\ pc' = [pc EXCEPT ![h] = IF buffer[att[h]] = Nothing THEN AfterFlush(h)
                                                         ELSE "flushUpdate"]
  /\ UNCHANGED <<rowVars, buffer, dirty, handled, lockVars, queueVars,
                 clientVars, timer, att, base, out, floor, loopVars, timeVars,
                 envVars, histVars>>

FlushUpdate(h) ==
  /\ pc[h] = "flushUpdate"
  /\ files' = [files EXCEPT ![att[h]] = seen[h]]
  /\ pc' = [pc EXCEPT ![h] = "flushClean"]
  /\ UNCHANGED <<status, buffer, dirty, handled, lockVars, queueVars,
                 clientVars, timer, workVars, loopVars, timeVars, envVars,
                 histVars>>

\* The mark goes, whether or not a newer save set it again.
FlushClean(h) ==
  /\ pc[h] = "flushClean"
  /\ dirty' = dirty \ {att[h]}
  /\ pc' = [pc EXCEPT ![h] = AfterFlush(h)]
  /\ UNCHANGED <<rowVars, buffer, handled, lockVars, queueVars, clientVars,
                 timer, workVars, loopVars, timeVars, envVars, histVars>>

----------------------------------------------------------------------------
(* A submission: the common part of the submit handler and autoSubmitAttempt *)

\* Handler h has read the row of a with files f; o are the files of a request.
Take(h, a, f, o) ==
  /\ att' = [att EXCEPT ![h] = a]
  /\ base' = [base EXCEPT ![h] = f]
  /\ out' = [out EXCEPT ![h] = o]
  /\ floor' = [floor EXCEPT ![h] = accepted[a]]
  /\ UNCHANGED seen

\* Handler h is done with its attempt.
Leave(h) ==
  /\ att' = [att EXCEPT ![h] = NoAttempt]
  /\ base' = [base EXCEPT ![h] = 0]
  /\ seen' = [seen EXCEPT ![h] = Nothing]
  /\ out' = [out EXCEPT ![h] = Nothing]
  /\ floor' = [floor EXCEPT ![h] = 0]

\* Variant: the buffer is believed to be in the row after the flush.
GetFromRow(h) ==
  /\ pc[h] = "get"
  /\ out' = [out EXCEPT ![h] = IF @ # Nothing THEN @ ELSE base[h]]
  /\ pc' = [pc EXCEPT ![h] = "store"]
  /\ UNCHANGED <<rowVars, buffer, dirty, handled, lockVars, queueVars,
                 clientVars, timer, att, base, seen, floor, loopVars, timeVars,
                 envVars, histVars>>

\* The files of the request, else the buffer, else the row as it was read.
GetFromBuffer(h) ==
  /\ pc[h] = "get"
  /\ out' = [out EXCEPT ![h] = IF @ # Nothing THEN @
                               ELSE IF buffer[att[h]] # Nothing
                                    THEN buffer[att[h]] ELSE base[h]]
  /\ pc' = [pc EXCEPT ![h] = "store"]
  /\ UNCHANGED <<rowVars, buffer, dirty, handled, lockVars, queueVars,
                 clientVars, timer, att, base, seen, floor, loopVars, timeVars,
                 envVars, histVars>>

Store(h) ==
  /\ pc[h] = "store"
  /\ status' = [status EXCEPT ![att[h]] = "SUBMITTED"]
  /\ files' = [files EXCEPT ![att[h]] = out[h]]
  /\ pc' = [pc EXCEPT ![h] = "enqueue"]
  /\ UNCHANGED <<buffer, dirty, handled, lockVars, queueVars, clientVars, timer,
                 workVars, loopVars, timeVars, envVars, histVars>>

\* Variant: nothing buffered is taken for nothing to grade.
AddJobIfBuffered(h) ==
  /\ pc[h] = "enqueue"
  /\ jobs' = IF buffer[att[h]] = Nothing THEN jobs
             ELSE [jobs EXCEPT ![att[h]] =
                     Append(@, [files |-> out[h], floor |-> floor[h]])]
  /\ pc' = [pc EXCEPT ![h] = "grading"]
  /\ UNCHANGED <<rowVars, buffer, dirty, handled, lockVars, settled, clientVars,
                 timer, workVars, loopVars, timeVars, envVars, histVars>>

AddJob(h) ==
  /\ pc[h] = "enqueue"
  /\ jobs' = [jobs EXCEPT ![att[h]] =
                Append(@, [files |-> out[h], floor |-> floor[h]])]
  /\ pc' = [pc EXCEPT ![h] = "grading"]
  /\ UNCHANGED <<rowVars, buffer, dirty, handled, lockVars, settled, clientVars,
                 timer, workVars, loopVars, timeVars, envVars, histVars>>

\* Where the scheduler goes on after an attempt.
BackToLoop(c) == IF exam[c] # NoExam THEN "attempts" ELSE "overdue"

\* Variant: the attempt is let go before its buffer is cleared.
SetGradingLeaves(h) ==
  /\ pc[h] = "grading"
  /\ status' = [status EXCEPT ![att[h]] = "GRADING"]
  /\ pc' = [pc EXCEPT ![h] = IF h \in Submits THEN "clear" ELSE BackToLoop(h)]
  /\ Leave(h)
  /\ UNCHANGED <<files, buffer, dirty, handled, lockVars, queueVars, clientVars,
                 timer, loopVars, timeVars, envVars, histVars>>

SetGrading(h) ==
  /\ pc[h] = "grading"
  /\ status' = [status EXCEPT ![att[h]] = "GRADING"]
  /\ IF h \in Submits
     THEN pc' = [pc EXCEPT ![h] = "clear"] /\ UNCHANGED workVars
     ELSE pc' = [pc EXCEPT ![h] = BackToLoop(h)] /\ Leave(h)
  /\ UNCHANGED <<files, buffer, dirty, handled, lockVars, queueVars, clientVars,
                 timer, loopVars, timeVars, envVars, histVars>>

----------------------------------------------------------------------------
(* POST /attempts/:id/submit *)

\* The front end sends its workspace along; the field is optional.
ReceiveSubmit(h, a, body) ==
  /\ pc[h] = "idle" /\ status[a] = "IN_PROGRESS"
  /\ Take(h, a, files[a], body)
  /\ pc' = [pc EXCEPT ![h] = "stop"]
  /\ UNCHANGED <<rowVars, buffer, dirty, handled, lockVars, queueVars,
                 clientVars, timer, loopVars, timeVars, envVars, histVars>>

\* stopTimerPermanently: the key for every instance, the interval only when it
\* runs in the instance that serves the request.
StopTimer(h) ==
  /\ pc[h] = "stop"
  /\ handled' = handled \cup {att[h]}
  /\ \E t \in {timer[att[h]], "off"} : timer' = [timer EXCEPT ![att[h]] = t]
  /\ pc' = [pc EXCEPT ![h] = "flushGet"]
  /\ UNCHANGED <<rowVars, buffer, dirty, lockVars, queueVars, clientVars,
                 workVars, loopVars, timeVars, envVars, histVars>>

\* clearBuffer
ClearBuffer(h) ==
  /\ pc[h] = "clear"
  /\ buffer' = [buffer EXCEPT ![att[h]] = Nothing]
  /\ pc' = [pc EXCEPT ![h] = "clean"]
  /\ UNCHANGED <<rowVars, dirty, handled, lockVars, queueVars, clientVars,
                 timer, workVars, loopVars, timeVars, envVars, histVars>>

ClearMark(h) ==
  /\ pc[h] = "clean"
  /\ dirty' = dirty \ {att[h]}
  /\ pc' = [pc EXCEPT ![h] = "idle"]
  /\ Leave(h)
  /\ UNCHANGED <<rowVars, buffer, handled, lockVars, queueVars, clientVars,
                 timer, loopVars, timeVars, envVars, histVars>>

----------------------------------------------------------------------------
(* The background flush (flushAllDirty), and code:flush *)

StartFlush(f) ==
  /\ pc[f] = "idle"
  /\ \/ batch' = [batch EXCEPT ![f] = dirty] /\ dirty # {}
     \/ \E a \in Attempts : /\ status[a] # "ABSENT"
                            /\ batch' = [batch EXCEPT ![f] = {a}]
  /\ pc' = [pc EXCEPT ![f] = "batch"]
  /\ UNCHANGED <<rowVars, buffer, dirty, handled, lockVars, queueVars,
                 clientVars, timer, workVars, rows, ends, exam, timeVars,
                 envVars, histVars>>

FlushNext(f) ==
  /\ pc[f] = "batch"
  /\ \E a \in batch[f] :
       /\ batch' = [batch EXCEPT ![f] = @ \ {a}]
       /\ att' = [att EXCEPT ![f] = a]
  /\ pc' = [pc EXCEPT ![f] = "flushGet"]
  /\ UNCHANGED <<rowVars, buffer, dirty, handled, lockVars, queueVars,
                 clientVars, timer, base, seen, out, floor, rows, ends, exam,
                 timeVars, envVars, histVars>>

EndFlush(f) ==
  /\ pc[f] = "batch" /\ batch[f] = {}
  /\ pc' = [pc EXCEPT ![f] = "idle"]
  /\ Leave(f)
  /\ UNCHANGED <<rowVars, buffer, dirty, handled, lockVars, queueVars,
                 clientVars, timer, loopVars, timeVars, envVars, histVars>>

----------------------------------------------------------------------------
(* runSchedulerCycle *)

\* Variant: the lock is taken without NX.
StartCycleAnyway(c) ==
  /\ pc[c] = "idle"
  /\ cycleLock' = TRUE
  /\ pc' = [pc EXCEPT ![c] = "window"]
  /\ UNCHANGED <<rowVars, buffer, dirty, handled, attemptLocks, processed,
                 queueVars, clientVars, timer, workVars, loopVars, timeVars,
                 envVars, histVars>>

StartCycle(c) ==
  /\ pc[c] = "idle" /\ ~cycleLock
  /\ cycleLock' = TRUE
  /\ pc' = [pc EXCEPT ![c] = "window"]
  /\ UNCHANGED <<rowVars, buffer, dirty, handled, attemptLocks, processed,
                 queueVars, clientVars, timer, workVars, loopVars, timeVars,
                 envVars, histVars>>

InProgress(As) == {[att |-> a, files |-> files[a]] :
                     a \in {b \in As : status[b] = "IN_PROGRESS"}}

\* Ended exams, each with its attempts in progress.
QueryEnded(c) ==
  /\ pc[c] = "window"
  /\ ends' = [ends EXCEPT ![c] = ended]
  /\ rows' = [rows EXCEPT ![c] =
                InProgress({a \in Attempts : ExamOf[a] \in ended})]
  /\ pc' = [pc EXCEPT ![c] = "exams"]
  /\ UNCHANGED <<rowVars, buffer, dirty, handled, lockVars, queueVars,
                 clientVars, timer, workVars, exam, batch, timeVars, envVars,
                 histVars>>

\* Variant: the exam counts as processed from the moment it is taken up.
NextExamMarked(c, e) ==
  /\ pc[c] = "exams" /\ e \in ends[c]
  /\ ends' = [ends EXCEPT ![c] = @ \ {e}]
  /\ processed' = processed \cup {e}
  /\ IF e \in processed
     THEN UNCHANGED <<pc, exam>>
     ELSE /\ exam' = [exam EXCEPT ![c] = e]
          /\ pc' = [pc EXCEPT ![c] = "attempts"]
  /\ UNCHANGED <<rowVars, buffer, dirty, handled, cycleLock, attemptLocks,
                 queueVars, clientVars, timer, workVars, rows, batch, timeVars,
                 envVars, histVars>>

\* An exam that was processed before is skipped.
NextExam(c, e) ==
  /\ pc[c] = "exams" /\ e \in ends[c]
  /\ ends' = [ends EXCEPT ![c] = @ \ {e}]
  /\ IF e \in processed
     THEN UNCHANGED <<pc, exam>>
     ELSE /\ exam' = [exam EXCEPT ![c] = e]
          /\ pc' = [pc EXCEPT ![c] = "attempts"]
  /\ UNCHANGED <<rowVars, buffer, dirty, handled, lockVars, queueVars,
                 clientVars, timer, workVars, rows, batch, timeVars, envVars,
                 histVars>>

\* autoSubmitAttempt of an attempt as the query returned it.
AutoSubmit(c, r) ==
  /\ pc[c] = "attempts" /\ r \in rows[c] /\ ExamOf[r.att] = exam[c]
  /\ rows' = [rows EXCEPT ![c] = @ \ {r}]
  /\ Take(c, r.att, r.files, Nothing)
  /\ pc' = [pc EXCEPT ![c] = "flushGet"]
  /\ UNCHANGED <<rowVars, buffer, dirty, handled, lockVars, queueVars,
                 clientVars, timer, ends, exam, batch, timeVars, envVars,
                 histVars>>

MarkProcessed(c) ==
  /\ pc[c] = "attempts"
  /\ \A r \in rows[c] : ExamOf[r.att] # exam[c]
  /\ processed' = processed \cup {exam[c]}
  /\ exam' = [exam EXCEPT ![c] = NoExam]
  /\ pc' = [pc EXCEPT ![c] = "exams"]
  /\ UNCHANGED <<rowVars, buffer, dirty, handled, cycleLock, attemptLocks,
                 queueVars, clientVars, timer, workVars, rows, ends, batch,
                 timeVars, envVars, histVars>>

\* The fallback looks at every attempt in progress ...
QueryOverdue(c) ==
  /\ pc[c] = "exams" /\ ends[c] = {}
  /\ rows' = [rows EXCEPT ![c] = InProgress(Attempts)]
  /\ pc' = [pc EXCEPT ![c] = "overdue"]
  /\ UNCHANGED <<rowVars, buffer, dirty, handled, lockVars, queueVars,
                 clientVars, timer, workVars, ends, exam, batch, timeVars,
                 envVars, histVars>>

\* Variant: the attempt's lock is set but not asked.
TakeOverdueAnyway(c, r) ==
  /\ pc[c] = "overdue" /\ r \in rows[c]
  /\ rows' = [rows EXCEPT ![c] = @ \ {r}]
  /\ IF time[r.att] = "late"
     THEN /\ attemptLocks' = attemptLocks \cup {r.att}
          /\ Take(c, r.att, r.files, Nothing)
          /\ pc' = [pc EXCEPT ![c] = "flushGet"]
     ELSE UNCHANGED <<attemptLocks, workVars, pc>>
  /\ UNCHANGED <<rowVars, buffer, dirty, handled, cycleLock, processed,
                 queueVars, clientVars, timer, ends, exam, batch, timeVars,
                 envVars, histVars>>

\* ... and takes those whose limit passed a minute ago, under a lock of their
\* own that nobody deletes.
TakeOverdue(c, r) ==
  /\ pc[c] = "overdue" /\ r \in rows[c]
  /\ rows' = [rows EXCEPT ![c] = @ \ {r}]
  /\ IF time[r.att] = "late" /\ r.att \notin attemptLocks
     THEN /\ attemptLocks' = attemptLocks \cup {r.att}
          /\ Take(c, r.att, r.files, Nothing)
          /\ pc' = [pc EXCEPT ![c] = "flushGet"]
     ELSE UNCHANGED <<attemptLocks, workVars, pc>>
  /\ UNCHANGED <<rowVars, buffer, dirty, handled, cycleLock, processed,
                 queueVars, clientVars, timer, ends, exam, batch, timeVars,
                 envVars, histVars>>

\* Whoever holds the lock by now, it is deleted.
EndCycle(c) ==
  /\ pc[c] = "overdue" /\ rows[c] = {}
  /\ cycleLock' = FALSE
  /\ pc' = [pc EXCEPT ![c] = "idle"]
  /\ UNCHANGED <<rowVars, buffer, dirty, handled, attemptLocks, processed,
                 queueVars, clientVars, timer, workVars, loopVars, timeVars,
                 envVars, histVars>>

----------------------------------------------------------------------------
(* The exam timer.  One interval per attempt stands for those of several      *)
(* instances: the first to tick sets the key that stops the others.          *)

\* The limit of the attempt or the end of the exam's window, whichever is first.
TimeOver(a) == time[a] # "running" \/ ExamOf[a] \in ended

\* attempt:join, startTimer: no second interval, none when the key is set, and
\* handleTimerExpired at once when it is too late.
JoinAttempt(a) ==
  /\ a \in Online
  /\ status[a] = "IN_PROGRESS" /\ a \notin handled /\ timer[a] = "off"
  /\ timer' = [timer EXCEPT ![a] = IF TimeOver(a) THEN "expired" ELSE "ticking"]
  /\ UNCHANGED <<rowVars, buffer, dirty, handled, lockVars, queueVars,
                 clientVars, pc, workVars, loopVars, timeVars, envVars,
                 histVars>>

\* The interval's callback, when the remaining time is 0: mark, then stop.
Tick(a) ==
  /\ timer[a] = "ticking" /\ TimeOver(a) /\ a \notin handled
  /\ handled' = handled \cup {a}
  /\ timer' = [timer EXCEPT ![a] = "expired"]
  /\ UNCHANGED <<rowVars, buffer, dirty, lockVars, queueVars, clientVars, pc,
                 workVars, loopVars, timeVars, envVars, histVars>>

\* handleTimerExpired sets the key and then looks whether it is set: it always
\* is, so the function returns there and its auto-submission is never reached.
HandleTimerExpired(a) ==
  /\ timer[a] = "expired"
  /\ handled' = handled \cup {a}
  /\ timer' = [timer EXCEPT ![a] = "off"]
  /\ timedOut' = timedOut \cup {a}
  /\ UNCHANGED <<rowVars, buffer, dirty, lockVars, queueVars, clientVars, pc,
                 workVars, loopVars, timeVars, envVars, accepted, overtaken,
                 lateStarts, swallowed, stranded, outlived, cycleOutlived>>

----------------------------------------------------------------------------
(* The graders' results (GradingService): unconditional writes to the row *)

WriteResult(a, o) ==
  /\ \E k \in (1..Len(jobs[a])) \ settled[a] :
       settled' = [settled EXCEPT ![a] = @ \cup {k}]
  /\ status' = [status EXCEPT ![a] = o]
  /\ UNCHANGED <<files, buffer, dirty, handled, lockVars, jobs, clientVars,
                 timer, pc, workVars, loopVars, timeVars, envVars, histVars>>

\* Grading is at least once (GradingService): the failure of a try that will be
\* repeated is written too, and so is the second result of a redelivered job.
WriteAgain(a, o) ==
  /\ jobs[a] # <<>>
  /\ May(regrades, MaxRegrades)
  /\ regrades' = regrades + 1
  /\ status' = [status EXCEPT ![a] = o]
  /\ UNCHANGED <<files, buffer, dirty, handled, lockVars, queueVars, clientVars,
                 timer, pc, workVars, loopVars, timeVars, faults, crashes,
                 overruns, expiries, histVars>>

\* Nor is a result certain: the queue may give a job up, dead-lettered without
\* a result or dropped.
GiveUp(a) ==
  /\ \E k \in (1..Len(jobs[a])) \ settled[a] :
       settled' = [settled EXCEPT ![a] = @ \cup {k}]
  /\ May(regrades, MaxRegrades)
  /\ regrades' = regrades + 1
  /\ UNCHANGED <<rowVars, buffer, dirty, handled, lockVars, jobs, clientVars,
                 timer, pc, workVars, loopVars, timeVars, faults, crashes,
                 overruns, expiries, histVars>>

----------------------------------------------------------------------------
(* Time *)

TimePasses(a) ==
  /\ status[a] # "ABSENT" /\ time[a] # "late"
  /\ time' = [time EXCEPT ![a] = IF @ = "running" THEN "over" ELSE "late"]
  /\ UNCHANGED <<rowVars, buffer, dirty, handled, lockVars, queueVars,
                 clientVars, timer, pc, workVars, loopVars, ended, envVars,
                 histVars>>

ExamEnds(e) ==
  /\ e \notin ended
  /\ ended' = ended \cup {e}
  /\ UNCHANGED <<rowVars, buffer, dirty, handled, lockVars, queueVars,
                 clientVars, timer, pc, workVars, loopVars, time, envVars,
                 histVars>>

\* Variant: the lock has no expiry.
CycleLockStays ==
  /\ FALSE
  /\ UNCHANGED vars

\* The lock's 60 seconds.  Beyond them the cycle goes on without it.
CycleLockExpires ==
  /\ cycleLock
  /\ cycleLock' = FALSE
  /\ IF \E c \in Cycles : pc[c] # "idle"
     THEN /\ May(overruns, MaxOverruns)
          /\ overruns' = overruns + 1
          /\ cycleOutlived' = TRUE
     ELSE UNCHANGED <<overruns, cycleOutlived>>
  /\ UNCHANGED <<rowVars, buffer, dirty, handled, attemptLocks, processed,
                 queueVars, clientVars, timer, pc, workVars, loopVars, timeVars,
                 faults, crashes, expiries, regrades, accepted, overtaken,
                 lateStarts, swallowed, stranded, timedOut, outlived>>

\* The fallback's cycle c is submitting a.
Rescues(c, a) == pc[c] \in Submitting /\ att[c] = a /\ exam[c] = NoExam

\* The 300 seconds of an attempt's lock.
AttemptLockExpires(a) ==
  /\ a \in attemptLocks
  /\ attemptLocks' = attemptLocks \ {a}
  /\ IF \E c \in Cycles : Rescues(c, a)
     THEN /\ May(overruns, MaxOverruns)
          /\ overruns' = overruns + 1
          /\ outlived' = outlived \cup {a}
     ELSE UNCHANGED <<overruns, outlived>>
  /\ UNCHANGED <<rowVars, buffer, dirty, handled, cycleLock, processed,
                 queueVars, clientVars, timer, pc, workVars, loopVars, timeVars,
                 faults, crashes, expiries, regrades, accepted, overtaken,
                 lateStarts, swallowed, stranded, timedOut, cycleOutlived>>

\* The hour of a timer_handled key.
HandledExpires(a) ==
  /\ a \in handled
  /\ May(expiries, MaxExpiries)
  /\ expiries' = expiries + 1
  /\ handled' = handled \ {a}
  /\ UNCHANGED <<rowVars, buffer, dirty, lockVars, queueVars, clientVars, timer,
                 pc, workVars, loopVars, timeVars, faults, crashes, overruns,
                 regrades, histVars>>

----------------------------------------------------------------------------
(* Failures: an awaited command is rejected *)

Fault ==
  /\ May(faults, MaxFaults)
  /\ faults' = faults + 1

\* A save that fails is answered with an error.
SaveFails(s) ==
  /\ Fault
  /\ saver[s].at \in {"write", "mark"}
  /\ saver' = [saver EXCEPT ![s].at = "done"]
  /\ UNCHANGED <<rowVars, buffer, dirty, handled, lockVars, queueVars, starting,
                 edits, timer, pc, workVars, loopVars, timeVars, crashes,
                 overruns, expiries, regrades, histVars>>

\* flushToDatabase catches what follows its GET, and its callers carry on.
FlushFails(h) ==
  /\ Fault
  /\ pc[h] \in {"flushUpdate", "flushClean"}
  /\ pc' = [pc EXCEPT ![h] = AfterFlush(h)]
  /\ UNCHANGED <<rowVars, buffer, dirty, handled, lockVars, queueVars,
                 clientVars, timer, workVars, loopVars, timeVars, crashes,
                 overruns, expiries, regrades, histVars>>

\* Its GET is not caught: the background flush gives the batch up.
FlushAborts(f) ==
  /\ Fault
  /\ pc[f] = "flushGet"
  /\ batch' = [batch EXCEPT ![f] = {}]
  /\ pc' = [pc EXCEPT ![f] = "batch"]
  /\ UNCHANGED <<rowVars, buffer, dirty, handled, lockVars, queueVars,
                 clientVars, timer, workVars, rows, ends, exam, timeVars,
                 crashes, overruns, expiries, regrades, histVars>>

\* Between the two updates of the row there is no job yet.
Strand(h) ==
  stranded' = IF pc[h] = "enqueue" THEN stranded \cup {att[h]} ELSE stranded

\* The submit handler answers with an error and undoes nothing.
SubmitFails(h) ==
  /\ Fault
  /\ pc[h] \in {"stop", "flushGet", "get", "store", "enqueue", "grading",
                "clear", "clean"}
  /\ pc' = [pc EXCEPT ![h] = "idle"]
  /\ Leave(h)
  /\ Strand(h)
  /\ UNCHANGED <<rowVars, buffer, dirty, handled, lockVars, queueVars,
                 clientVars, timer, loopVars, timeVars, crashes, overruns,
                 expiries, regrades, accepted, overtaken, lateStarts, swallowed,
                 timedOut, outlived, cycleOutlived>>

\* autoSubmitAttempt catches everything, and the loop goes on.
AutoSubmitFails(c) ==
  /\ Fault
  /\ pc[c] \in {"flushGet", "get", "store", "enqueue", "grading"}
  /\ pc' = [pc EXCEPT ![c] = BackToLoop(c)]
  /\ Leave(c)
  /\ Strand(c)
  /\ swallowed' = swallowed \cup {att[c]}
  /\ UNCHANGED <<rowVars, buffer, dirty, handled, lockVars, queueVars,
                 clientVars, timer, loopVars, timeVars, crashes, overruns,
                 expiries, regrades, accepted, overtaken, lateStarts, timedOut,
                 outlived, cycleOutlived>>

\* Elsewhere a rejection ends the cycle; "finally" deletes the lock.
CycleFails(c) ==
  /\ Fault
  /\ \/ pc[c] \in {"window", "exams", "overdue"}
     \/ pc[c] = "attempts" /\ \A r \in rows[c] : ExamOf[r.att] # exam[c]
  /\ pc' = [pc EXCEPT ![c] = "overdue"]
  /\ rows' = [rows EXCEPT ![c] = {}]
  /\ ends' = [ends EXCEPT ![c] = {}]
  /\ exam' = [exam EXCEPT ![c] = NoExam]
  /\ UNCHANGED <<rowVars, buffer, dirty, handled, lockVars, queueVars,
                 clientVars, timer, workVars, batch, timeVars, crashes,
                 overruns, expiries, regrades, histVars>>

\* The API process ends; its locks stay.
Crash(h) ==
  /\ pc[h] # "idle"
  /\ May(crashes, MaxCrashes)
  /\ crashes' = crashes + 1
  /\ pc' = [pc EXCEPT ![h] = "idle"]
  /\ Leave(h)
  /\ Strand(h)
  /\ rows' = [c \in Cycles |-> IF c = h THEN {} ELSE rows[c]]
  /\ ends' = [c \in Cycles |-> IF c = h THEN {} ELSE ends[c]]
  /\ exam' = [c \in Cycles |-> IF c = h THEN NoExam ELSE exam[c]]
  /\ batch' = [f \in Flushers |-> IF f = h THEN {} ELSE batch[f]]
  /\ UNCHANGED <<rowVars, buffer, dirty, handled, lockVars, queueVars,
                 clientVars, timer, timeVars, faults, overruns, expiries,
                 regrades, accepted, overtaken, lateStarts, swallowed, timedOut,
                 outlived, cycleOutlived>>

----------------------------------------------------------------------------
Init ==
  /\ status = [a \in Attempts |-> "ABSENT"]
  /\ files = [a \in Attempts |-> 0]
  /\ buffer = [a \in Attempts |-> Nothing]
  /\ dirty = {} /\ handled = {}
  /\ cycleLock = FALSE /\ attemptLocks = {} /\ processed = {}
  /\ jobs = [a \in Attempts |-> <<>>]
  /\ settled = [a \in Attempts |-> {}]
  /\ starting = {}
  /\ edits = [a \in Attempts |-> 0]
  /\ saver = [s \in Saves |-> [at |-> "new", att |-> NoAttempt, files |-> 0]]
  /\ timer = [a \in Attempts |-> "off"]
  /\ pc = [h \in Handlers |-> "idle"]
  /\ att = [h \in Handlers |-> NoAttempt]
  /\ base = [h \in Handlers |-> 0]
  /\ seen = [h \in Handlers |-> Nothing]
  /\ out = [h \in Handlers |-> Nothing]
  /\ floor = [h \in Handlers |-> 0]
  /\ rows = [c \in Cycles |-> {}]
  /\ ends = [c \in Cycles |-> {}]
  /\ exam = [c \in Cycles |-> NoExam]
  /\ batch = [f \in Flushers |-> {}]
  /\ time = [a \in Attempts |-> "running"]
  /\ ended = {}
  /\ faults = 0 /\ crashes = 0 /\ overruns = 0 /\ expiries = 0 /\ regrades = 0
  /\ accepted = [a \in Attempts |-> 0]
  /\ overtaken = {} /\ lateStarts = {} /\ swallowed = {} /\ stranded = {}
  /\ timedOut = {} /\ outlived = {} /\ cycleOutlived = FALSE

SaveStep(s) == WriteSave(s) \/ MarkDirty(s)

FlushStep(h) == FlushGet(h) \/ FlushUpdate(h) \/ FlushClean(h)

SubmissionStep(h) ==
  FlushStep(h) \/ GetFromBuffer(h) \/ Store(h) \/ AddJob(h) \/ SetGrading(h)

SubmitStep(h) ==
  SubmissionStep(h) \/ StopTimer(h) \/ ClearBuffer(h) \/ ClearMark(h)

CycleStep(c) ==
  \/ SubmissionStep(c)
  \/ StartCycle(c) \/ QueryEnded(c) \/ MarkProcessed(c) \/ QueryOverdue(c)
  \/ EndCycle(c)
  \/ \E e \in ends[c] : NextExam(c, e)
  \/ \E r \in rows[c] : AutoSubmit(c, r) \/ TakeOverdue(c, r)

BackgroundStep(f) == FlushStep(f) \/ FlushNext(f) \/ EndFlush(f)

Client ==
  \E a \in Attempts :
    \/ CheckStart(a) \/ JoinAttempt(a)
    \/ \E s \in Saves : ReceiveSave(s, a) \/ SaveOverSocket(s, a)
    \/ \E h \in Submits, body \in {Nothing, edits[a]} :
         ReceiveSubmit(h, a, body)

Clock ==
  \/ \E a \in Attempts :
       TimePasses(a) \/ AttemptLockExpires(a) \/ HandledExpires(a)
  \/ \E e \in Exams : ExamEnds(e)
  \/ CycleLockExpires

Failure ==
  \/ \E s \in Saves : SaveFails(s)
  \/ \E h \in Handlers : FlushFails(h) \/ Crash(h)
  \/ \E h \in Submits : SubmitFails(h)
  \/ \E c \in Cycles : AutoSubmitFails(c) \/ CycleFails(c)
  \/ \E f \in Flushers : FlushAborts(f)

Next ==
  \/ Client \/ Clock \/ Failure
  \/ \E a \in Attempts :
       \/ InsertAttempt(a) \/ Tick(a) \/ HandleTimerExpired(a) \/ GiveUp(a)
       \/ \E o \in Final : WriteResult(a, o) \/ WriteAgain(a, o)
  \/ \E s \in Saves : SaveStep(s)
  \/ \E h \in Submits : SubmitStep(h)
  \/ \E c \in Cycles : CycleStep(c)
  \/ \E f \in Flushers : StartFlush(f) \/ BackgroundStep(f)

Spec == Init /\ [][Next]_vars

\* What keeps running: handlers that have started, the scheduler's interval,
\* the expiry of a lock nobody holds any more, and the graders (GradingService's
\* Settle).  Nothing is assumed of clients, of the front end's timer
\* or of failures.
OrphanedCycleLock == CycleLockExpires /\ \A c \in Cycles : pc[c] = "idle"
OrphanedAttemptLock(a) ==
  AttemptLockExpires(a) /\ \A c \in Cycles : ~Rescues(c, a)

Fairness ==
  /\ \A h \in Submits : WF_vars(SubmitStep(h))
  /\ \A c \in Cycles : WF_vars(CycleStep(c))
  /\ \A a \in Attempts : WF_vars(\E o \in Final : WriteResult(a, o))
  /\ WF_vars(OrphanedCycleLock)
  /\ \A a \in Attempts : WF_vars(OrphanedAttemptLock(a))

FairSpec == Spec /\ Fairness
----------------------------------------------------------------------------
(* Properties *)

RowTypes ==
  /\ status \in [Attempts -> Statuses]
  /\ files \in [Attempts -> Nat]

BufferTypes ==
  /\ buffer \in [Attempts -> Files]
  /\ dirty \in SUBSET Attempts

LockTypes ==
  /\ cycleLock \in BOOLEAN
  /\ attemptLocks \in SUBSET Attempts
  /\ processed \in SUBSET Exams

QueueTypes ==
  /\ jobs \in [Attempts -> Seq(Job)]
  /\ settled \in [Attempts -> SUBSET Nat]

ClientTypes ==
  /\ starting \in SUBSET Attempts
  /\ edits \in [Attempts -> Nat]
  /\ saver \in [Saves -> [at : {"new", "write", "mark", "done"},
                          att : Attempts \cup {NoAttempt}, files : Nat]]
  /\ \A s \in Saves :
       saver[s].at \in {"write", "mark"} => saver[s].att \in Attempts

TimeTypes ==
  /\ timer \in [Attempts -> {"off", "ticking", "expired"}]
  /\ handled \in SUBSET Attempts
  /\ time \in [Attempts -> {"running", "over", "late"}]
  /\ ended \in SUBSET Exams

\* A handler inside a submission or a flush has an attempt and the files it
\* needs, and a cycle among the attempts of an exam has an exam.
HandlerTypes ==
  /\ pc \in [Handlers -> PCs]
  /\ att \in [Handlers -> Attempts \cup {NoAttempt}]
  /\ base \in [Handlers -> Nat]
  /\ floor \in [Handlers -> Nat]
  /\ seen \in [Handlers -> Files]
  /\ out \in [Handlers -> Files]
  /\ \A h \in Handlers :
       /\ pc[h] \in Submitting \cup {"stop", "clear", "clean"}
            => att[h] \in Attempts
       /\ pc[h] \in {"flushUpdate", "flushClean"} => seen[h] \in Nat
       /\ pc[h] \in {"store", "enqueue", "grading"} => out[h] \in Nat
  /\ \A c \in Cycles : pc[c] = "attempts" => exam[c] \in Exams

LoopTypes ==
  /\ rows \in [Cycles -> SUBSET Row]
  /\ ends \in [Cycles -> SUBSET Exams]
  /\ exam \in [Cycles -> Exams \cup {NoExam}]
  /\ batch \in [Flushers -> SUBSET Attempts]

EnvTypes == {faults, crashes, overruns, expiries, regrades} \subseteq Nat

HistoryTypes ==
  /\ accepted \in [Attempts -> Nat]
  /\ {overtaken, lateStarts, swallowed, stranded, timedOut, outlived}
       \subseteq SUBSET Attempts
  /\ cycleOutlived \in BOOLEAN

\* Every variable keeps its type, and a handler inside a submission or a flush
\* has the attempt and the files it works with.
TypeOK ==
  /\ RowTypes /\ BufferTypes /\ LockTypes /\ QueueTypes /\ ClientTypes
  /\ TimeTypes /\ HandlerTypes /\ LoopTypes /\ EnvTypes /\ HistoryTypes

\* The first final grading job of an attempt has every save that was
\* acknowledged before its submission began, whether the candidate or the scheduler
\* submitted it and whether the files came with the request, from the buffer
\* or from the row; only saves that overtook each other are excused.
FirstJobIsCurrent ==
  \A a \in Attempts :
    jobs[a] # <<>> => jobs[a][1].files >= jobs[a][1].floor \/ a \in overtaken

\* Once an exam's end is marked as processed, none of its attempts is left in
\* progress, but those whose submission failed (the error is only logged) or
\* that were inserted after the end although they were checked before it.
EndSubmitsAll ==
  \A a \in Attempts :
    ExamOf[a] \in processed /\ status[a] = "IN_PROGRESS"
      => a \in swallowed \cup lateStarts

\* One cycle of the scheduler runs at a time, over all instances, as long as
\* none outlives its lock: crashes and failed commands do not break the lock.
OneCycle ==
  \A c, d \in Cycles :
    c # d /\ "idle" \notin {pc[c], pc[d]} => cycleOutlived

\* Even when cycles overlap, the fallback never submits one attempt twice at the
\* same time, as long as the attempt's own lock is not outlived.
RescuedOnce ==
  \A a \in Attempts : \A c, d \in Cycles :
    c # d /\ Rescues(c, a) /\ Rescues(d, a) => a \in outlived

\* An attempt whose limit passed a minute ago does not stay in progress, with
\* crashes, failures, overlapping cycles and left-over locks, and although the
\* timer never submits it.
OverdueSubmitted ==
  \A a \in Attempts :
    status[a] = "IN_PROGRESS" /\ time[a] = "late" ~> status[a] # "IN_PROGRESS"

\* For a submitted attempt the queue eventually has a result or gives up, unless
\* the handler ended between the update of the row and the queue.
SubmittedGraded ==
  \A a \in Attempts :
    status[a] = "SUBMITTED" ~> settled[a] # {} \/ a \in stranded

----------------------------------------------------------------------------
(* What the documents and comments say and the code does not keep *)

\* "Auto-submits with current buffered files" (docs/grader/02-GRADING-FLOW.md):
\* when the expiry of the timer has been handled, the attempt is submitted.
TimerSubmits == \A a \in timedOut : status[a] # "IN_PROGRESS"

\* "ensuring no work is lost" (docs/grader/02-GRADING-FLOW.md): every grading
\* job has what was acknowledged before its submission began.  A second submission that
\* read the row early finds the buffer cleared and falls back to that row.
EveryJobIsCurrent ==
  \A a \in Attempts \ overtaken : \A k \in 1..Len(jobs[a]) :
    jobs[a][k].files >= jobs[a][k].floor
=============================================================================
