----------------------------- MODULE ProctorLog -----------------------------
(***************************************************************************)
(* What an attempt's integrity record holds: the proctor events and their  *)
(* counters (apps/api socket/proctorService.ts and the same steps in       *)
(* routes/proctor.ts), the warnings sent to the candidate, and the list of *)
(* the last screenshots (routes/attempts.ts).  One kind of event; each     *)
(* command of a handler is a step.                                         *)
(***************************************************************************)
EXTENDS Naturals, FiniteSets

CONSTANTS Handlers,      \* events and screenshots being handled
          SocketEvents,  \* those of Handlers that arrive over the socket
          KeepShots,     \* LTRIM keeps this many screenshots (50)
          MaxLogFaults   \* bound: database errors, replicas that die

ASSUME LogAssumption == IsFiniteSet(Handlers) /\ KeepShots \in Nat

VARIABLES status,    \* of the attempt: IN_PROGRESS, SUBMITTED, GRADING, DONE
          handler,   \* [Handlers -> what the handler is at]
          events,    \* rows of proctor_events
          counter,   \* tabExits (fullscreenExits, pasteAttempts alike)
          warnings,  \* counts the candidate was warned with
          shots,     \* length of screenshots:<attempt>
          taken,     \* screenshots accepted
          logFaults,
          broken,    \* history: handlers that ended between two of their writes
          late       \* history: events written after the attempt was submitted

logVars == <<status, handler, events, counter, warnings, shots, taken,
             logFaults, broken, late>>

LogInit ==
    /\ status = "IN_PROGRESS"
    /\ handler = [h \in Handlers |-> [at |-> "idle", read |-> 0]]
    /\ events = 0 /\ counter = 0 /\ warnings = {} /\ shots = 0 /\ taken = 0
    /\ logFaults = 0 /\ broken = 0 /\ late = 0

Handling(h, at) == handler[h].at = at
Move(h, at) == handler' = [handler EXCEPT ![h].at = at]
-----------------------------------------------------------------------------
(* An event: the attempt must be in progress when its row is read.         *)
ReadForEvent(h) ==
    /\ Handling(h, "idle")
    /\ Move(h, IF status = "IN_PROGRESS" THEN "event" ELSE "over")
    /\ UNCHANGED <<status, events, counter, warnings, shots, taken, logFaults, broken, late>>

InsertEvent(h) ==
    /\ Handling(h, "event") /\ Move(h, "count")
    /\ events' = events + 1
    /\ late' = IF status = "IN_PROGRESS" THEN late ELSE late + 1
    /\ UNCHANGED <<status, counter, warnings, shots, taken, logFaults, broken>>

(* The counter is increased by the database, so two handlers lose nothing. *)
CountEvent(h) ==
    /\ Handling(h, "count")
    /\ counter' = counter + 1
    /\ Move(h, IF h \in SocketEvents THEN "warn" ELSE "over")
    /\ UNCHANGED <<status, events, warnings, shots, taken, logFaults, broken, late>>

(* Over the socket the count is read back ...                              *)
ReadCount(h) ==
    /\ Handling(h, "warn")
    /\ handler' = [handler EXCEPT ![h] = [at |-> "emit", read |-> counter]]
    /\ UNCHANGED <<status, events, counter, warnings, shots, taken, logFaults, broken, late>>

(* ... and sent to the candidate's room.                                   *)
Warn(h) ==
    /\ Handling(h, "emit") /\ Move(h, "over")
    /\ warnings' = warnings \cup {handler[h].read}
    /\ UNCHANGED <<status, events, counter, shots, taken, logFaults, broken, late>>
-----------------------------------------------------------------------------
(* A screenshot is taken from an attempt in progress or being graded, but  *)
(* not between the two, while a submission is queued.                      *)
ReadForShot(h) ==
    /\ Handling(h, "idle")
    /\ Move(h, IF status \in {"IN_PROGRESS", "GRADING"} THEN "push" ELSE "over")
    /\ UNCHANGED <<status, events, counter, warnings, shots, taken, logFaults, broken, late>>

(* Uploaded, then LPUSH, LTRIM.                                            *)
PushShot(h) ==
    /\ Handling(h, "push") /\ Move(h, "trim")
    /\ shots' = shots + 1 /\ taken' = taken + 1
    /\ UNCHANGED <<status, events, counter, warnings, logFaults, broken, late>>

(* Variant: LTRIM keeps one more.                                          *)
TrimShotsOff(h) ==
    /\ Handling(h, "trim") /\ Move(h, "over")
    /\ shots' = IF shots > KeepShots + 1 THEN KeepShots + 1 ELSE shots
    /\ UNCHANGED <<status, events, counter, warnings, taken, logFaults, broken, late>>

TrimShots(h) ==
    /\ Handling(h, "trim") /\ Move(h, "over")
    /\ shots' = IF shots > KeepShots THEN KeepShots ELSE shots
    /\ UNCHANGED <<status, events, counter, warnings, taken, logFaults, broken, late>>

(* An error, or the end of the replica, between any two steps.             *)
HandlerFails(h) ==
    /\ handler[h].at \notin {"idle", "over"} /\ logFaults < MaxLogFaults
    /\ logFaults' = logFaults + 1 /\ Move(h, "over")
    /\ broken' = IF handler[h].at \in {"count", "trim"} THEN broken + 1 ELSE broken
    /\ UNCHANGED <<status, events, counter, warnings, shots, taken, late>>

(* The attempt's own course: submitted, queued for grading, graded.        *)
StatusMoves ==
    /\ \/ status = "IN_PROGRESS" /\ status' = "SUBMITTED"
       \/ status = "SUBMITTED" /\ status' = "GRADING"
       \/ status = "GRADING" /\ status' = "DONE"
    /\ UNCHANGED <<handler, events, counter, warnings, shots, taken, logFaults, broken, late>>

LogNext ==
    \/ \E h \in Handlers :
          \/ ReadForEvent(h) \/ InsertEvent(h) \/ CountEvent(h) \/ ReadCount(h)
          \/ Warn(h) \/ ReadForShot(h) \/ PushShot(h) \/ TrimShots(h) \/ HandlerFails(h)
    \/ StatusMoves

LogSpec == LogInit /\ [][LogNext]_logVars
-----------------------------------------------------------------------------
LogTypeOK ==
    /\ status \in {"IN_PROGRESS", "SUBMITTED", "GRADING", "DONE"}
    /\ counter \in Nat /\ events \in Nat /\ shots \in Nat

Between(at) == Cardinality({h \in Handlers : Handling(h, at)})

(* The counters of an attempt agree with its events, but for the handlers  *)
(* between the two writes and those that ended there; no warning counts an *)
(* event that was not counted; the list of screenshots passes its limit by *)
(* no more than the handlers that have not trimmed it.                     *)
RecordAgrees ==
    /\ events - counter \in Between("count")..(Between("count") + broken)
    /\ \A n \in warnings : 0 < n /\ n <= counter
    /\ shots <= KeepShots + Between("trim") + broken
    /\ shots >= (IF taken < KeepShots THEN taken ELSE KeepShots)
=============================================================================
