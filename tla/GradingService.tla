--------------------------- MODULE GradingService ---------------------------
(***************************************************************************)
(* What the grading queue promises to the rest of the API, without         *)
(* streams, claims, retries or processes: a job that was accepted is       *)
(* graded, dead-lettered or dropped in the end, its result may be written  *)
(* more than once (grading is at least once), and nothing is written,      *)
(* announced or given up for a job that was never accepted.  GradingQueue  *)
(* implements it.                                                          *)
(***************************************************************************)
CONSTANTS Jobs

VARIABLES
  accepted,    \* jobs handed to the queue
  fate,        \* what became of a job, possibly several of Fates
  result,      \* the last result written for its attempt
  told,        \* the last event published for it
  paused       \* the queue takes no jobs

vars == <<accepted, fate, result, told, paused>>

Fates == {"graded", "buried", "dropped"}

Accept(j) ==
  /\ j \notin accepted
  /\ accepted' = accepted \cup {j}
  /\ UNCHANGED <<fate, result, told, paused>>

\* A grade is stored, again perhaps, and is what became of the job.
Grade(j) ==
  /\ j \in accepted
  /\ \E r \in {"graded", "infra"} : result' = [result EXCEPT ![j] = r]
  /\ fate' = [fate EXCEPT ![j] = @ \cup {"graded"}]
  /\ UNCHANGED <<accepted, told, paused>>

\* An error result settles nothing: there may be another try.
Fail(j) ==
  /\ j \in accepted
  /\ result' = [result EXCEPT ![j] = "error"]
  /\ UNCHANGED <<accepted, fate, told, paused>>

\* Only a grade that is stored is announced as one.
AnnounceGrade(j) ==
  /\ "graded" \in fate[j]
  /\ told' = [told EXCEPT ![j] = "grade"]
  /\ UNCHANGED <<accepted, fate, result, paused>>

AnnounceError(j) ==
  /\ j \in accepted
  /\ told' = [told EXCEPT ![j] = "error"]
  /\ UNCHANGED <<accepted, fate, result, paused>>

Bury(j) ==
  /\ j \in accepted
  /\ fate' = [fate EXCEPT ![j] = @ \cup {"buried"}]
  /\ UNCHANGED <<accepted, result, told, paused>>

\* A stop may drop several jobs at once.
Drop(S) ==
  /\ S \subseteq accepted
  /\ fate' = [j \in Jobs |->
                IF j \in S THEN fate[j] \cup {"dropped"} ELSE fate[j]]
  /\ UNCHANGED <<accepted, result, told, paused>>

Switch ==
  /\ paused' = ~paused
  /\ UNCHANGED <<accepted, fate, result, told>>

Init ==
  /\ accepted = {}
  /\ fate = [j \in Jobs |-> {}]
  /\ result = [j \in Jobs |-> "none"]
  /\ told = [j \in Jobs |-> "none"]
  /\ paused = FALSE

Next ==
  \/ \E j \in Jobs : \/ Accept(j) \/ Grade(j) \/ Fail(j) \/ Bury(j)
                     \/ AnnounceGrade(j) \/ AnnounceError(j)
  \/ \E S \in SUBSET Jobs : Drop(S)
  \/ Switch

Spec == Init /\ [][Next]_vars

\* An open queue makes up its mind about every job, and announces grades.
Settle(j) ==
  /\ ~paused /\ j \in accepted /\ fate[j] = {}
  /\ Grade(j) \/ Bury(j) \/ \E S \in SUBSET Jobs : j \in S /\ Drop(S)

Announce(j) ==
  /\ ~paused /\ "graded" \in fate[j] /\ told[j] = "none"
  /\ AnnounceGrade(j) \/ AnnounceError(j)

FairSpec == Spec /\ \A j \in Jobs : WF_vars(Settle(j)) /\ WF_vars(Announce(j))
=============================================================================
