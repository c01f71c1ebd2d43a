----------------------------- MODULE ExamEntry -----------------------------
(***************************************************************************)
(* One exam and one candidate's way into it: the handlers that start an    *)
(* attempt (apps/api routes/attempts.ts), accept an invitation, create     *)
(* one, publish, unpublish and delete the exam (routes/exams.ts).  Each    *)
(* database command is a step; nothing runs in a transaction, and the      *)
(* foreign keys of packages/database/src/schema.ts are the only guards     *)
(* between the steps.                                                      *)
(***************************************************************************)
EXTENDS Naturals, FiniteSets

CONSTANTS Requests,       \* HTTP requests, of the candidate or of an admin
          Invites,        \* invitations ever created
          AttemptLimit,   \* exam.maxAttempts
          MaxEntries,     \* bound: attempts ever inserted
          MaxEntryFaults  \* bound: database errors

NoInvite == "no invitation"

\* z.number().min(1), packages/shared/src/index.ts:213
ASSUME EntryAssumption ==
    AttemptLimit \in Nat \ {0} /\ MaxEntries \in Nat /\ NoInvite \notin Invites

VARIABLES exam,       \* "draft", "published" or "gone"
          invite,     \* [Invites -> "none", "open", "used" or "swept"]
          begun,      \* rows of exam_attempts for this exam and candidate
          inProgress, \* how many of them are IN_PROGRESS
          call,       \* [Requests -> what the request is at]
          entryFaults,
          stale,      \* history: insertions by a request that read the rows
                      \* before another insertion
          spent,      \* history: invitations whose insertion failed
          overtaken   \* history: a row came between the steps of a deletion

entryPast == <<stale, spent, overtaken>>
entryVars == <<exam, invite, begun, inProgress, call, entryFaults, entryPast>>
rows == <<exam, invite, begun, inProgress>>

Fresh == [op |-> "none", at |-> "idle", inv |-> NoInvite, seen |-> 0]
Ended == [Fresh EXCEPT !.at = "ended"]

EntryInit ==
    /\ exam = "draft" /\ invite = [i \in Invites |-> "none"]
    /\ begun = 0 /\ inProgress = 0
    /\ call = [h \in Requests |-> Fresh]
    /\ entryFaults = 0 /\ stale = 0 /\ spent = {} /\ overtaken = FALSE

Is(h, op, at) == call[h].op = op /\ call[h].at = at
Ask(h, op, at) == call[h].at = "idle" /\ call' = [call EXCEPT ![h].op = op, ![h].at = at]
Answer(h) == call' = [call EXCEPT ![h] = Ended]
Advance(h, at) == call' = [call EXCEPT ![h].at = at]
-----------------------------------------------------------------------------
(* POST /attempts: the exam must be published and its window open; ...     *)
StartAttempt(h) ==
    /\ exam = "published"
    /\ Ask(h, "start", "attempts")
    /\ UNCHANGED <<rows, entryFaults, entryPast>>

(* Variant: one attempt more than the limit.                               *)
ReadAttemptsLate(h) ==
    /\ Is(h, "start", "attempts")
    /\ IF begun > AttemptLimit \/ inProgress > 0 THEN Answer(h)
       ELSE call' = [call EXCEPT ![h].at = "insert", ![h].seen = begun]
    /\ UNCHANGED <<rows, entryFaults, entryPast>>

(* ... the candidate's attempts are read: at the limit the start is        *)
(* refused, even with one in progress, which below the limit is resumed.   *)
ReadAttempts(h) ==
    /\ Is(h, "start", "attempts")
    /\ IF begun >= AttemptLimit \/ inProgress > 0 THEN Answer(h)
       ELSE call' = [call EXCEPT ![h].at = "insert", ![h].seen = begun]
    /\ UNCHANGED <<rows, entryFaults, entryPast>>

(* POST /exams/invite/:token/accept: an invitation neither used nor        *)
(* expired; whether the exam is published or open is not asked.            *)
AcceptInvite(h) ==
    \E i \in Invites :
        /\ invite[i] = "open" /\ call[h].at = "idle"
        /\ call' = [call EXCEPT ![h] = [Fresh EXCEPT !.op = "accept",
                                        !.at = "attempts", !.inv = i]]
        /\ UNCHANGED <<rows, entryFaults, entryPast>>

(* Any attempt of the candidate is resumed and the invitation left open.   *)
ReadAnyAttempt(h) ==
    /\ Is(h, "accept", "attempts")
    /\ IF begun > 0 THEN Answer(h)
       ELSE call' = [call EXCEPT ![h].at = "mark", ![h].seen = begun]
    /\ UNCHANGED <<rows, entryFaults, entryPast>>

MarkUsed(h) ==
    /\ Is(h, "accept", "mark")
    /\ Advance(h, "insert")
    /\ invite' = [invite EXCEPT ![call[h].inv] = IF @ = "open" THEN "used" ELSE @]
    /\ UNCHANGED <<exam, begun, inProgress, entryFaults, entryPast>>

(* Both handlers insert the attempt; the row's foreign key needs the exam. *)
InsertAttempt(h) ==
    /\ call[h].op \in {"start", "accept"} /\ call[h].at = "insert"
    /\ exam # "gone" => begun < MaxEntries
    /\ IF exam = "gone"
       THEN /\ spent' = spent \cup ({call[h].inv} \ {NoInvite})
            /\ UNCHANGED <<begun, inProgress, stale>>
       ELSE /\ begun' = begun + 1 /\ inProgress' = inProgress + 1
            /\ stale' = IF begun = call[h].seen THEN stale ELSE stale + 1
            /\ UNCHANGED spent
    /\ Answer(h)
    /\ UNCHANGED <<exam, invite, entryFaults, overtaken>>

(* An attempt is submitted, by the candidate or the scheduler.             *)
AttemptOver ==
    /\ inProgress > 0 /\ inProgress' = inProgress - 1
    /\ UNCHANGED <<exam, invite, begun, call, entryFaults, entryPast>>
-----------------------------------------------------------------------------
Publish(h) ==
    /\ exam # "gone" /\ Ask(h, "publish", "set")
    /\ UNCHANGED <<rows, entryFaults, entryPast>>

Unpublish(h) ==
    /\ Ask(h, "unpublish", "set")
    /\ UNCHANGED <<rows, entryFaults, entryPast>>

(* The UPDATE of either touches no row if the exam has gone.               *)
SetPublished(h) ==
    /\ call[h].op \in {"publish", "unpublish"} /\ call[h].at = "set"
    /\ exam' = IF exam = "gone" THEN exam
               ELSE IF call[h].op = "publish" THEN "published" ELSE "draft"
    /\ Answer(h)
    /\ UNCHANGED <<invite, begun, inProgress, entryFaults, entryPast>>

CreateInvite(h) ==
    /\ exam # "gone" /\ Ask(h, "invite", "insert")
    /\ UNCHANGED <<rows, entryFaults, entryPast>>

InsertInvite(h) ==
    /\ Is(h, "invite", "insert")
    /\ \/ exam = "gone" /\ UNCHANGED invite
       \/ exam # "gone" /\ \E i \in Invites :
             invite[i] = "none" /\ invite' = [invite EXCEPT ![i] = "open"]
    /\ Answer(h)
    /\ UNCHANGED <<exam, begun, inProgress, entryFaults, entryPast>>

(* DELETE /exams/:id: an exam with attempts is kept; otherwise first its   *)
(* invitations and then the exam are deleted.                              *)
DeleteExam(h) ==
    /\ exam # "gone" /\ Ask(h, "delete", "count")
    /\ UNCHANGED <<rows, entryFaults, entryPast>>

CountAttempts(h) ==
    /\ Is(h, "delete", "count")
    /\ IF begun > 0 THEN Answer(h)
       ELSE call' = [call EXCEPT ![h].at = "sweep", ![h].seen = begun]
    /\ UNCHANGED <<rows, entryFaults, entryPast>>

SweepInvites(h) ==
    /\ Is(h, "delete", "sweep")
    /\ invite' = [i \in Invites |-> IF invite[i] = "none" THEN "none" ELSE "swept"]
    /\ Advance(h, "exam")
    /\ UNCHANGED <<exam, begun, inProgress, entryFaults, entryPast>>

(* The foreign keys refuse it if an attempt or an invitation came since.   *)
DropExam(h) ==
    LET newer == begun > call[h].seen \/ \E i \in Invites : invite[i] \in {"open", "used"}
    IN  /\ Is(h, "delete", "exam")
        /\ exam' = IF begun > 0 \/ newer THEN exam ELSE "gone"
        /\ overtaken' = (overtaken \/ newer)
        /\ Answer(h)
        /\ UNCHANGED <<invite, begun, inProgress, entryFaults, stale, spent>>

(* A database error answers 500 and leaves what was done.                  *)
RequestFails(h) ==
    /\ call[h].at \notin {"idle", "ended"} /\ entryFaults < MaxEntryFaults
    /\ entryFaults' = entryFaults + 1
    /\ spent' = IF Is(h, "accept", "insert") THEN spent \cup {call[h].inv} ELSE spent
    /\ Answer(h)
    /\ UNCHANGED <<rows, stale, overtaken>>

EntryNext ==
    \/ \E h \in Requests :
          \/ StartAttempt(h) \/ ReadAttempts(h) \/ AcceptInvite(h)
          \/ ReadAnyAttempt(h) \/ MarkUsed(h) \/ InsertAttempt(h)
          \/ Publish(h) \/ Unpublish(h) \/ SetPublished(h)
          \/ CreateInvite(h) \/ InsertInvite(h)
          \/ DeleteExam(h) \/ CountAttempts(h) \/ SweepInvites(h) \/ DropExam(h)
          \/ RequestFails(h)
    \/ AttemptOver

EntrySpec == EntryInit /\ [][EntryNext]_entryVars
-----------------------------------------------------------------------------
EntryTypeOK ==
    /\ exam \in {"draft", "published", "gone"}
    /\ invite \in [Invites -> {"none", "open", "used", "swept"}]
    /\ begun \in 0..MaxEntries /\ inProgress \in 0..begun /\ stale \in 0..begun

(* The candidate has more attempts than the exam allows, or two at a time, *)
(* only by entries that read the rows before another entry was inserted    *)
(* (attempts.ts:150 and 196 check, 174 and 219 insert).                    *)
AttemptsExplained == begun <= AttemptLimit + stale /\ inProgress <= 1 + stale

(* A used invitation has led to an attempt, or is about to, or its         *)
(* insertion failed after the mark and the candidate cannot use it again.  *)
UsedInvitesExplained ==
    \A i \in Invites : invite[i] = "used" =>
        begun > 0 \/ i \in spent \/ \E h \in Requests : call[h].inv = i

(* Invitations of an exam that still exists are deleted only by a deletion *)
(* under way, or one that failed, or was refused because a row came after  *)
(* the attempts were counted (exams.ts:411 counts, 424 sweeps).            *)
SweptInvitesExplained ==
    (exam # "gone" /\ \E i \in Invites : invite[i] = "swept") =>
        \/ \E h \in Requests : Is(h, "delete", "exam")
        \/ entryFaults > 0 \/ overtaken

(* The three together: how an exam is entered, and what its deletion left. *)
EntriesExplained == AttemptsExplained /\ UsedInvitesExplained /\ SweptInvitesExplained
=============================================================================
