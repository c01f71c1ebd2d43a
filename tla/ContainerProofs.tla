--------------------------- MODULE ContainerProofs ---------------------------
(***************************************************************************)
(* Theorems about the containers that gradings share and what a grading    *)
(* reports, for any numbers of containers, phases, callers and tests.      *)
(***************************************************************************)
EXTENDS GradingPhases, ContainerPool, ChallengePool, FiniteSetTheorems, SequenceTheorems, TLAPS

(* GradingPhases                                                           *)

PhaseResults == [passed : Nat, total : Nat, success : BOOLEAN]

\* What a phase has returned: nothing to count for a suite without tests, a
\* failure for one that was not run to its report, else what the report says.
\* A failure counts a test, but in playwright, and where a file is wrong.
OutcomeOK(s) ==
  IF s \notin job.suites THEN outcome[s] = NoTests
  ELSE IF report[s] = NoResult
       THEN \E total \in {0, 1} :
              /\ outcome[s] = Result(0, total, FALSE)
              /\ total = 0 => job.mode = "playwright" \/ job.flaw = "files"
       ELSE /\ report[s] \in Reports /\ job.flaw # "files"
            /\ outcome[s] = ReportResult(job.mode, report[s])

\* The steps before the one a phase is in.
StepsBehind(s) == {Steps[i] : i \in {j \in DOMAIN Steps : j < step[s]}}

\* A phase of a suite without tests takes no step; one with a wrong file never
\* gets past the step that writes it.
PhasesOK ==
  /\ job.mode \in Modes /\ job.suites \subseteq Suites
  /\ step \in [Suites -> Nat]
  /\ outcome = [s \in Suites |-> outcome[s]] /\ report = [s \in Suites |-> report[s]]
  /\ \A s \in Suites :
       /\ step[s] > 0 => s \in job.suites
       /\ job.flaw = "files" => "files" \notin StepsBehind(s)
       /\ IF outcome[s] = NoResult THEN report[s] = NoResult ELSE OutcomeOK(s)
  /\ verdict # NoResult =>
       /\ \A s \in Suites : outcome[s] # NoResult
       /\ verdict = Verdict(outcome["public"], outcome["hidden"])
  /\ DOMAIN row = {"publicScore", "hiddenScore", "totalPublic", "totalHidden", "status"}
  /\ row.status \in {"COMPLETED", "FAILED"} =>
       /\ verdict # NoResult
       /\ row.totalPublic = verdict.totalPublic /\ row.publicScore = verdict.publicScore
       /\ row.totalHidden = verdict.totalHidden /\ row.hiddenScore = verdict.hiddenScore

(* The harness of every grader writes the files before it reads a report.  *)
LEMMA FilesBeforeReport ==
  ASSUME NEW mode \in Modes, NEW i \in DOMAIN StepsOf[mode],
         StepsOf[mode][i] = "report"
  PROVE  \E j \in DOMAIN StepsOf[mode] : j < i /\ StepsOf[mode][j] = "files"
<1>1. Modes = {"http", "jsdom", "playwright", "pooledHttp", "pooledJsdom"}
  BY DEF Modes, StepsOf
<1>2. CASE mode = "http"
  BY <1>2 DEF StepsOf
<1>3. CASE mode = "jsdom"
  BY <1>3 DEF StepsOf
<1>4. CASE mode = "playwright"
  BY <1>4 DEF StepsOf
<1>5. CASE mode = "pooledHttp"
  BY <1>5 DEF StepsOf
<1>6. CASE mode = "pooledJsdom"
  BY <1>6 DEF StepsOf
<1> QED
  BY <1>1, <1>2, <1>3, <1>4, <1>5, <1>6

(* The steps of a phase are counted from one.                              *)
LEMMA StepsAreSteps == \A mode \in Modes : \A j \in DOMAIN StepsOf[mode] : j \in Nat /\ j > 0
<1>1. Modes = {"http", "jsdom", "playwright", "pooledHttp", "pooledJsdom"}
  BY DEF Modes, StepsOf
<1> QED
  BY <1>1 DEF StepsOf

(* A result is never taken for a missing one.                              *)
LEMMA ResultIsThere ==
  /\ \A r \in PhaseResults : r # NoResult
  /\ \A n, t \in Nat, b \in BOOLEAN : Result(n, t, b) \in PhaseResults
BY GradingPhasesAssumption DEF Result, PhaseResults

(* What a report says is a result.                                         *)
LEMMA ReportIsResult ==
  ASSUME NEW mode, NEW r \in Reports
  PROVE  /\ r # NoResult /\ ReportResult(mode, r) # NoResult
         /\ ReportResult(mode, r).passed \in Nat /\ ReportResult(mode, r).total \in Nat
         /\ ReportResult(mode, r).passed =< ReportResult(mode, r).total
         /\ ReportResult(mode, r).success = (r.failed = 0 /\ (mode \in Jest => ~r.broken))
<1>1. /\ r.tests \in Nat /\ r.failed \in Nat /\ r.skipped \in Nat /\ r.broken \in BOOLEAN
      /\ r.failed + r.skipped =< r.tests
      /\ r \in [tests : Nat, failed : Nat, skipped : Nat, broken : BOOLEAN]
  BY GradingPhasesAssumption DEF Reports
<1>2. r.tests - r.failed - r.skipped \in Nat /\ r.tests - r.failed - r.skipped =< r.tests
  BY <1>1
<1> HIDE DEF Reports
<1>3. r # NoResult
  BY <1>1, GradingPhasesAssumption
<1>4. (r.failed = 0 /\ (mode \in Jest => ~r.broken)) \in BOOLEAN
  OBVIOUS
<1>5. ReportResult(mode, r) \in PhaseResults
  BY <1>1, <1>2, <1>4 DEF ReportResult, Result, PhaseResults
<1> QED
  BY <1>1, <1>2, <1>3, <1>5, ResultIsThere DEF ReportResult, Result

(* The two phases do not touch each other.                                 *)
LEMMA PhaseKept ==
  ASSUME PhasesOK, NEW s \in Suites, verdict = NoResult,
         NEW n \in Nat, step' = [step EXCEPT ![s] = n],
         NEW o, outcome' = [outcome EXCEPT ![s] = o],
         NEW r, report' = [report EXCEPT ![s] = r],
         UNCHANGED <<job, verdict, row, shown>>,
         n > 0 => s \in job.suites,
         job.flaw = "files" => "files" \notin StepsBehind(s)',
         (o = NoResult /\ r = NoResult) \/ (o # NoResult /\ OutcomeOK(s)')
  PROVE  PhasesOK'
<1>1. /\ step' \in [Suites -> Nat] /\ step'[s] = n
      /\ outcome' = [u \in Suites |-> outcome'[u]] /\ outcome'[s] = o
      /\ report' = [u \in Suites |-> report'[u]] /\ report'[s] = r
  BY DEF PhasesOK
<1>2. ASSUME NEW u \in Suites, u # s
      PROVE  /\ step'[u] = step[u] /\ outcome'[u] = outcome[u] /\ report'[u] = report[u]
             /\ StepsBehind(u)' = StepsBehind(u) /\ OutcomeOK(u)' = OutcomeOK(u)
  <2>1. step'[u] = step[u] /\ outcome'[u] = outcome[u] /\ report'[u] = report[u]
    BY <1>2 DEF PhasesOK
  <2> QED
    BY <2>1 DEF StepsBehind, OutcomeOK, Steps, NoTests
<1>3. ASSUME NEW u \in Suites
      PROVE  /\ step'[u] > 0 => u \in job.suites
             /\ job.flaw = "files" => "files" \notin StepsBehind(u)'
             /\ IF outcome'[u] = NoResult THEN report'[u] = NoResult ELSE OutcomeOK(u)'
  <2>1. CASE u = s
    BY <1>1, <2>1
  <2>2. CASE u # s
    BY <1>2, <2>2 DEF PhasesOK
  <2> QED
    BY <2>1, <2>2
<1> QED
  BY <1>1, <1>3 DEF PhasesOK

(* Every step keeps what is known of phases, verdict and row.              *)
LEMMA PhasesStep ==
  ASSUME PhasesOK, [PhasesNext]_phasesVars
  PROVE  PhasesOK'
<1>1. ASSUME NEW s \in Suites, outcome[s] = NoResult
      PROVE  verdict = NoResult /\ report[s] = NoResult
  BY <1>1 DEF PhasesOK
<1>2. ASSUME NEW s \in Suites, outcome[s] = NoResult, NEW o, NEW r, o # NoResult,
             outcome' = [outcome EXCEPT ![s] = o], report' = [report EXCEPT ![s] = r],
             UNCHANGED <<job, step, verdict, row, shown>>, OutcomeOK(s)'
      PROVE  PhasesOK'
  <2>1. step' = [step EXCEPT ![s] = step[s]] /\ step[s] \in Nat
    BY <1>2 DEF PhasesOK
  <2>4. verdict = NoResult /\ (step[s] > 0 => s \in job.suites)
    BY <1>1, <1>2 DEF PhasesOK
  <2>2. StepsBehind(s)' = StepsBehind(s)
    BY <1>2 DEF StepsBehind, Steps
  <2>3. job.flaw = "files" => "files" \notin StepsBehind(s)'
    BY <2>2 DEF PhasesOK
  <2> QED
    BY <1>2, <2>1, <2>3, <2>4, PhaseKept
<1>3. ASSUME NEW s \in Suites, Begin(s) PROVE PhasesOK'
  <2>1. verdict = NoResult /\ report[s] = NoResult /\ step[s] = 0
    BY <1>1, <1>3 DEF Begin
  <2>2. CASE s \in job.suites
    <3>1. /\ step' = [step EXCEPT ![s] = 1]
          /\ outcome' = [outcome EXCEPT ![s] = NoResult]
          /\ report' = [report EXCEPT ![s] = NoResult]
          /\ UNCHANGED <<job, verdict, row, shown>>
      BY <1>3, <2>1, <2>2 DEF Begin, PhasesOK
    <3>2. StepsBehind(s)' = {}
      <4>1. step'[s] = 1 /\ \A j \in DOMAIN Steps : ~(j < 1)
        BY <3>1, StepsAreSteps DEF PhasesOK, Steps
      <4> QED
        BY <3>1, <4>1 DEF StepsBehind, Steps
    <3> QED
      BY <2>1, <2>2, <3>1, <3>2, PhaseKept
  <2>3. CASE s \notin job.suites
    <3>1. /\ outcome' = [outcome EXCEPT ![s] = NoTests]
          /\ report' = [report EXCEPT ![s] = NoResult]
          /\ UNCHANGED <<job, step, verdict, row, shown>>
      BY <1>3, <2>1, <2>3 DEF Begin, PhasesOK
    <3>2. NoTests # NoResult
      <4>1. (job.mode # "pooledJsdom") \in BOOLEAN
        OBVIOUS
      <4>2. NoTests \in PhaseResults
        BY <4>1 DEF NoTests, Result, PhaseResults
      <4> QED
        BY <4>2, ResultIsThere
    <3>3. OutcomeOK(s)'
      BY <2>3, <3>1 DEF OutcomeOK, NoTests, PhasesOK
    <3>4. outcome[s] = NoResult
      BY <1>3 DEF Begin
    <3> QED
      BY <1>2, <3>1, <3>2, <3>3, <3>4
  <2> QED
    BY <2>2, <2>3
<1>4. ASSUME NEW s \in Suites, InPhase(s)
      PROVE  /\ verdict = NoResult /\ outcome[s] = NoResult /\ report[s] = NoResult
             /\ s \in job.suites /\ step[s] \in DOMAIN Steps /\ step[s] \in Nat
  <2>1. outcome[s] = NoResult /\ step[s] \in DOMAIN Steps /\ step[s] \in Nat
    BY <1>4 DEF InPhase, PhasesOK
  <2>2. step[s] > 0
    BY <2>1, StepsAreSteps DEF PhasesOK, Steps
  <2> QED
    BY <1>1, <2>1, <2>2 DEF PhasesOK
<1>5. ASSUME NEW s \in Suites, Passes(s) PROVE PhasesOK'
  <2>1. /\ InPhase(s) /\ Steps[step[s]] # job.flaw
        /\ step' = [step EXCEPT ![s] = step[s] + 1]
        /\ UNCHANGED <<job, outcome, report, verdict, row, shown>>
    BY <1>5 DEF Passes
  <2>2. /\ outcome' = [outcome EXCEPT ![s] = NoResult]
        /\ report' = [report EXCEPT ![s] = NoResult]
    BY <1>4, <2>1 DEF PhasesOK
  <2>3. job.flaw = "files" => "files" \notin StepsBehind(s)'
    <3>1. step'[s] = step[s] + 1 /\ \A j \in DOMAIN Steps : j \in Nat
      BY <1>4, <2>1, StepsAreSteps DEF PhasesOK, Steps
    <3>2. StepsBehind(s)' = StepsBehind(s) \cup {Steps[step[s]]}
      BY <1>4, <2>1, <3>1 DEF StepsBehind, Steps
    <3> QED
      BY <2>1, <3>2 DEF PhasesOK
  <2>4. step[s] + 1 \in Nat /\ step[s] + 1 > 0
    BY <1>4, <2>1
  <2> QED
    BY <1>4, <2>1, <2>2, <2>3, <2>4, PhaseKept
<1>7. ASSUME NEW s \in Suites, Fails(s) PROVE PhasesOK'
  <2> DEFINE t == FailTotal(job.mode, Steps[step[s]], job.flaw)
  <2>1. /\ InPhase(s) /\ outcome' = [outcome EXCEPT ![s] = Result(0, t, FALSE)]
        /\ UNCHANGED <<job, step, report, verdict, row, shown>>
    BY <1>7 DEF Fails
  <2>2. t \in {0, 1} /\ (t = 0 => job.mode = "playwright" \/ job.flaw = "files")
    BY DEF FailTotal
  <2> HIDE DEF t
  <2>3. Result(0, t, FALSE) # NoResult
    <3>1. Result(0, t, FALSE) \in PhaseResults
      BY <2>2 DEF Result, PhaseResults
    <3> QED
      BY <3>1, ResultIsThere
  <2>4. report' = [report EXCEPT ![s] = NoResult] /\ s \in job.suites
    BY <1>4, <2>1 DEF PhasesOK
  <2>5. outcome'[s] = Result(0, t, FALSE) /\ report'[s] = NoResult
    BY <2>1, <2>4 DEF PhasesOK
  <2>6. OutcomeOK(s)'
    BY <2>1, <2>2, <2>4, <2>5 DEF OutcomeOK
  <2> QED
    BY <1>2, <1>4, <2>1, <2>3, <2>4, <2>6
<1>8. ASSUME NEW s \in Suites, ReadReport(s) PROVE PhasesOK'
  <2>1. PICK r \in Reports :
          /\ report' = [report EXCEPT ![s] = r]
          /\ outcome' = [outcome EXCEPT ![s] = ReportResult(job.mode, r)]
    BY <1>8 DEF ReadReport
  <2>2. /\ InPhase(s) /\ Steps[step[s]] = "report"
        /\ UNCHANGED <<job, step, verdict, row, shown>>
    BY <1>8 DEF ReadReport
  <2>3. r # NoResult /\ ReportResult(job.mode, r) # NoResult
    BY ReportIsResult
  <2>4. job.flaw # "files"
    <3>1. \E j \in DOMAIN Steps : j < step[s] /\ Steps[j] = "files"
      BY <1>4, <2>2, FilesBeforeReport DEF Steps, PhasesOK
    <3> QED
      BY <3>1 DEF StepsBehind, PhasesOK
  <2>5. report'[s] = r /\ outcome'[s] = ReportResult(job.mode, r) /\ s \in job.suites
    BY <1>4, <2>1, <2>2 DEF PhasesOK
  <2>6. OutcomeOK(s)'
    BY <2>2, <2>3, <2>4, <2>5 DEF OutcomeOK
  <2> QED
    BY <1>2, <1>4, <2>1, <2>2, <2>3, <2>6
<1>9. ASSUME UNCHANGED <<job, step, outcome, report>>
      PROVE  \A s \in Suites : StepsBehind(s)' = StepsBehind(s) /\ OutcomeOK(s)' = OutcomeOK(s)
  BY <1>9 DEF StepsBehind, OutcomeOK, Steps, NoTests
<1>10. CASE Conclude
  <2>1. /\ verdict = NoResult /\ \A s \in Suites : outcome[s] # NoResult
        /\ verdict' = Verdict(outcome["public"], outcome["hidden"])
        /\ UNCHANGED <<job, step, outcome, report, row>>
    BY <1>10 DEF Conclude
  <2> QED
    BY <1>9, <2>1 DEF PhasesOK
<1>11. CASE Store
  <2>1. /\ verdict # NoResult
        /\ UNCHANGED <<job, step, outcome, report, verdict>>
    BY <1>11 DEF Store
  <2>2. /\ DOMAIN row' = {"publicScore", "hiddenScore", "totalPublic", "totalHidden", "status"}
        /\ row'.publicScore = verdict.publicScore /\ row'.totalPublic = verdict.totalPublic
        /\ \/ row'.status = row.status /\ row'.hiddenScore = row.hiddenScore
                /\ row'.totalHidden = row.totalHidden
           \/ row'.hiddenScore = verdict.hiddenScore /\ row'.totalHidden = verdict.totalHidden
    <3>1. CASE job.preview
      <4>1. row' = [row EXCEPT !.publicScore = verdict.publicScore,
                               !.totalPublic = verdict.totalPublic]
        BY <1>11, <3>1 DEF Store
      <4> QED
        BY <4>1 DEF PhasesOK
    <3>2. CASE ~job.preview
      BY <1>11, <3>2 DEF Store
    <3> QED
      BY <3>1, <3>2
  <2> QED
    BY <1>9, <2>1, <2>2 DEF PhasesOK
<1>12. CASE UNCHANGED phasesVars
  BY <1>9, <1>12 DEF phasesVars, PhasesOK
<1> QED
  BY <1>3, <1>5, <1>7, <1>8, <1>10, <1>11, <1>12 DEF PhasesNext

(* The invariant of a grading.                                             *)
LEMMA PhasesAlways == PhasesSpec => []PhasesOK
<1>1. PhasesInit => PhasesOK
  <2> SUFFICES ASSUME PhasesInit PROVE PhasesOK
    OBVIOUS
  <2>1. /\ job.mode \in Modes /\ job.suites \subseteq Suites
        /\ step = [s \in Suites |-> 0] /\ outcome = [s \in Suites |-> NoResult]
        /\ report = [s \in Suites |-> NoResult] /\ verdict = NoResult
        /\ row = [publicScore |-> 0, hiddenScore |-> 0, totalPublic |-> 0,
                  totalHidden |-> 0, status |-> "IN_PROGRESS"]
    BY DEF PhasesInit
  <2>2. \A s \in Suites : StepsBehind(s) = {}
    BY <2>1, StepsAreSteps DEF StepsBehind, Steps
  <2> QED
    BY <2>1, <2>2 DEF PhasesOK
<1>2. PhasesOK /\ [PhasesNext]_phasesVars => PhasesOK'
  BY PhasesStep
<1> QED
  BY <1>1, <1>2, PTL DEF PhasesSpec

(* The result of a phase, in the terms of the properties.                  *)
LEMMA OutcomeShown ==
  ASSUME PhasesOK, NEW s \in Suites, outcome[s] # NoResult
  PROVE  /\ outcome[s].passed \in Nat /\ outcome[s].total \in Nat
         /\ outcome[s].passed =< outcome[s].total
         /\ outcome[s].success =
              IF s \in job.suites THEN NoFailure(s) ELSE job.mode # "pooledJsdom"
         /\ s \notin job.suites => outcome[s].total = 0
         /\ s \in job.suites /\ report[s] = NoResult =>
              /\ outcome[s].passed = 0
              /\ outcome[s].total = 0 => job.mode = "playwright" \/ job.flaw = "files"
         /\ job.flaw = "files" => outcome[s].passed = 0
<1>1. OutcomeOK(s)
  BY DEF PhasesOK
<1>2. CASE s \notin job.suites
  <2>1. outcome[s] = Result(0, 0, job.mode # "pooledJsdom")
    BY <1>1, <1>2 DEF OutcomeOK, NoTests
  <2> QED
    BY <1>2, <2>1 DEF Result
<1>3. CASE s \in job.suites /\ report[s] = NoResult
  <2>1. PICK t \in {0, 1} : /\ outcome[s] = Result(0, t, FALSE)
                            /\ t = 0 => job.mode = "playwright" \/ job.flaw = "files"
    BY <1>1, <1>3 DEF OutcomeOK
  <2>2. t \in Nat /\ NoFailure(s) = FALSE
    BY <1>3 DEF NoFailure
  <2>3. outcome[s].success = FALSE
    BY <2>1 DEF Result
  <2> QED
    <3>1. /\ outcome[s].passed = 0 /\ outcome[s].total = t
      BY <2>1 DEF Result
    <3>2. outcome[s].success =
            IF s \in job.suites THEN NoFailure(s) ELSE job.mode # "pooledJsdom"
      BY <1>3, <2>2, <2>3
    <3>3. t \in Nat /\ 0 =< t /\ s \in job.suites
      BY <1>3
    <3>4. outcome[s].passed \in Nat /\ outcome[s].total \in Nat
      BY <3>1, <3>3
    <3> QED
      BY <2>1, <3>1, <3>2, <3>3, <3>4
<1>4. CASE s \in job.suites /\ report[s] # NoResult
  <2>1. /\ report[s] \in Reports /\ job.flaw # "files"
        /\ outcome[s] = ReportResult(job.mode, report[s])
    BY <1>1, <1>4 DEF OutcomeOK
  <2> QED
    BY <1>4, <2>1, ReportIsResult DEF NoFailure
<1> QED
  BY <1>2, <1>3, <1>4

(* Success is claimed, and full marks are shown, only for suites that were *)
(* run to their reports, for any number of tests (verdict and              *)
(* UpdateAttemptResults).                                                  *)
THEOREM GradesExplainedAlways == PhasesSpec => []GradesExplained
<1>1. PhasesOK => SuccessExplained
  <2> SUFFICES ASSUME PhasesOK, verdict # NoResult
               PROVE  verdict.success <=>
                        /\ \A s \in job.suites : NoFailure(s)
                        /\ job.mode = "pooledJsdom" => job.suites = Suites
    BY DEF SuccessExplained
  <2>1. verdict.success = (outcome["public"].success /\ outcome["hidden"].success)
    BY DEF PhasesOK, Verdict
  <2>2. \A s \in Suites : outcome[s].success =
          IF s \in job.suites THEN NoFailure(s) ELSE job.mode # "pooledJsdom"
    BY OutcomeShown DEF PhasesOK
  <2>3. job.suites \subseteq Suites /\ Suites = {"public", "hidden"}
    BY DEF PhasesOK, Suites
  <2> QED
    BY <2>1, <2>2, <2>3
<1>2. PhasesOK => FullMarksEarned
  <2> SUFFICES ASSUME PhasesOK, row.status \in {"COMPLETED", "FAILED"},
                      row.totalPublic + row.totalHidden > 0,
                      row.publicScore + row.hiddenScore = row.totalPublic + row.totalHidden,
                      job.mode # "playwright",
                      NEW s \in job.suites, report[s] = NoResult
               PROVE  FALSE
    BY DEF FullMarksEarned
  <2> DEFINE pub == outcome["public"]
             hid == outcome["hidden"]
  <2>1. /\ row.totalPublic = pub.total /\ row.publicScore = pub.passed
        /\ row.totalHidden = hid.total /\ row.hiddenScore = hid.passed
        /\ \A u \in Suites : outcome[u] # NoResult
    BY DEF PhasesOK, Verdict
  <2>2. s \in Suites /\ Suites = {"public", "hidden"}
    BY DEF PhasesOK, Suites
  <2>3. /\ pub.passed \in Nat /\ pub.total \in Nat /\ pub.passed =< pub.total
        /\ hid.passed \in Nat /\ hid.total \in Nat /\ hid.passed =< hid.total
    BY <2>1, <2>2, OutcomeShown
  <2>4. /\ outcome[s].passed = 0 /\ outcome[s].total \in Nat
        /\ outcome[s].total = 0 => job.flaw = "files"
    BY <2>1, <2>2, OutcomeShown
  <2>5. job.flaw = "files" => pub.passed = 0 /\ hid.passed = 0
    BY <2>1, <2>2, OutcomeShown
  <2> HIDE DEF pub, hid
  <2>6. CASE job.flaw = "files"
    BY <2>1, <2>3, <2>5, <2>6
  <2>7. CASE job.flaw # "files"
    <3>1. pub.passed < pub.total \/ hid.passed < hid.total
      BY <2>2, <2>3, <2>4, <2>7 DEF pub, hid
    <3> QED
      BY <2>1, <2>3, <3>1
  <2> QED
    BY <2>6, <2>7
<1>3. SuccessExplained /\ FullMarksEarned => GradesExplained
  BY DEF GradesExplained
<1> QED
  BY <1>1, <1>2, <1>3, PhasesAlways, PTL

-----------------------------------------------------------------------------
(* ContainerPool                                                           *)

Callers == Takers \cup WarmUps
BoxPcs == {"new", "count", "wait", "create", "register", "have", "next", "add", "send", "done"}

\* Where a caller has a container, in its code.
Holding == {"register", "have", "add", "send"}

Once(q) == \A i, j \in DOMAIN q : q[i] = q[j] => i = j

\* A container is offered, or a caller's, and only once; what the map lists is.
BoxOwners ==
  /\ idleBoxes \in Seq(Boxes) /\ Once(idleBoxes)
  /\ InPool \subseteq boxes
  /\ boxPc \in [Callers -> BoxPcs] /\ boxOf \in [Callers -> Boxes \cup {NoBox}]
  /\ \A a, b \in Callers : boxOf[a] \in Boxes /\ boxOf[a] = boxOf[b] => a = b
  /\ \A a \in Callers :
       /\ boxOf[a] \notin InPool
       /\ IF boxPc[a] \in Holding THEN boxOf[a] \in Boxes \cap boxes ELSE boxOf[a] = NoBox
  /\ allConts \subseteq Boxes
  /\ \A b \in allConts : b \in InPool \/ \E a \in Callers : boxOf[a] = b

\* Once Close has emptied the channel, nothing comes back to it.
BoxShut ==
  /\ closing \in {"rest", "closed", "stuck"} => idleBoxes = <<>>
  /\ closing = "stuck" => allConts # {}

(* The head of a channel is taken out of it.                               *)
LEMMA HeadTaken ==
  ASSUME NEW S, NEW q \in Seq(S), Once(q), q # <<>>
  PROVE  /\ Tail(q) \in Seq(S) /\ Once(Tail(q)) /\ Head(q) \in S /\ Head(q) \in ToSet(q)
         /\ ToSet(Tail(q)) = ToSet(q) \ {Head(q)}
<1>1. /\ Len(q) \in Nat /\ Len(q) > 0 /\ DOMAIN q = 1..Len(q)
      /\ \A i \in DOMAIN q : q[i] \in S
      /\ Head(q) = q[1]
  OBVIOUS
<1>2. /\ Tail(q) \in Seq(S) /\ DOMAIN Tail(q) = 1..(Len(q) - 1)
      /\ \A i \in DOMAIN Tail(q) : Tail(q)[i] = q[i + 1]
  BY <1>1
<1>3. \A i \in DOMAIN Tail(q) : i + 1 \in DOMAIN q /\ i + 1 # 1
  BY <1>1, <1>2
<1>4. Once(Tail(q))
  <2> SUFFICES ASSUME NEW i \in DOMAIN Tail(q), NEW j \in DOMAIN Tail(q),
                      Tail(q)[i] = Tail(q)[j]
               PROVE  i = j
    BY DEF Once
  <2>1. i + 1 = j + 1
    BY <1>2, <1>3 DEF Once
  <2> QED
    BY <2>1, <1>1, <1>2
<1>5. /\ \A n : n \in ToSet(Tail(q)) <=> \E i \in DOMAIN Tail(q) : Tail(q)[i] = n
      /\ \A n : n \in ToSet(q) <=> \E i \in DOMAIN q : q[i] = n
  BY DEF ToSet
<1>6. ASSUME NEW n PROVE n \in ToSet(Tail(q)) <=> n \in ToSet(q) /\ n # q[1]
  <2>1. ASSUME n \in ToSet(Tail(q)) PROVE n \in ToSet(q) /\ n # q[1]
    <3>1. PICK i \in DOMAIN Tail(q) : q[i + 1] = n
      BY <1>2, <1>5, <2>1
    <3> QED
      BY <1>1, <1>3, <1>5, <3>1 DEF Once
  <2>2. ASSUME n \in ToSet(q), n # q[1] PROVE n \in ToSet(Tail(q))
    <3>1. PICK i \in DOMAIN q : q[i] = n /\ i # 1
      BY <1>5, <2>2
    <3>2. i - 1 \in DOMAIN Tail(q) /\ (i - 1) + 1 = i
      BY <1>1, <1>2, <3>1
    <3> QED
      BY <1>2, <1>5, <3>1, <3>2
  <2> QED
    BY <2>1, <2>2
<1>7. q[1] \in ToSet(q)
  BY <1>1, <1>5
<1> QED
  BY <1>1, <1>2, <1>4, <1>6, <1>7

(* One is put at the end.                                                  *)
LEMMA EndPut ==
  ASSUME NEW S, NEW q \in Seq(S), Once(q), NEW n \in S, n \notin ToSet(q)
  PROVE  /\ Append(q, n) \in Seq(S) /\ Once(Append(q, n))
         /\ ToSet(Append(q, n)) = ToSet(q) \cup {n}
<1> DEFINE r == Append(q, n)
<1>1. /\ Len(q) \in Nat /\ DOMAIN q = 1..Len(q)
      /\ r \in Seq(S) /\ DOMAIN r = 1..(Len(q) + 1)
      /\ \A i \in DOMAIN q : r[i] = q[i]
      /\ r[Len(q) + 1] = n
  OBVIOUS
<1> HIDE DEF r
<1>2. \A i \in DOMAIN r : i \in DOMAIN q \/ i = Len(q) + 1
  BY <1>1
<1>3. \A m : m \in ToSet(q) <=> \E i \in DOMAIN q : q[i] = m
  BY DEF ToSet
<1>4. \A m : m \in ToSet(r) <=> \E i \in DOMAIN r : r[i] = m
  BY DEF ToSet
<1>5. Once(r)
  BY <1>1, <1>2, <1>3 DEF Once
<1>6. \A m : m \in ToSet(r) <=> m \in ToSet(q) \/ m = n
  <2>1. DOMAIN q \subseteq DOMAIN r /\ Len(q) + 1 \in DOMAIN r
    BY <1>1
  <2> QED
    BY <1>1, <1>2, <1>3, <1>4, <2>1
<1> QED
  BY <1>1, <1>5, <1>6 DEF r

(* The channel, before and after.                                          *)
LEMMA InPoolIs == InPool = ToSet(idleBoxes) /\ InPool' = ToSet(idleBoxes')
BY DEF InPool, ToSet

LEMMA BoxHead ==
  ASSUME BoxOwners, idleBoxes # <<>>, idleBoxes' = Tail(idleBoxes)
  PROVE  /\ idleBoxes' \in Seq(Boxes) /\ Once(idleBoxes')
         /\ Head(idleBoxes) \in Boxes /\ Head(idleBoxes) \in InPool
         /\ InPool' = InPool \ {Head(idleBoxes)}
BY HeadTaken, InPoolIs DEF BoxOwners

(* A caller gets a container that was offered, or that is new.             *)
LEMMA BoxTaken ==
  ASSUME BoxOwners, NEW a \in Callers, NEW c \in Boxes, boxOf[a] = NoBox, BoxUsers[c] = {},
         Holds(a, c), NEW to \in Holding, MoveTo(a, to), allConts' = allConts,
         idleBoxes' \in Seq(Boxes), Once(idleBoxes'), InPool' = InPool \ {c},
         boxes \subseteq boxes', c \in boxes'
  PROVE  BoxOwners' /\ BoxesShared!Obtain(a, c)
<1>1. /\ boxOf' \in [Callers -> Boxes \cup {NoBox}] /\ boxOf'[a] = c
      /\ \A b \in Callers : b # a => boxOf'[b] = boxOf[b]
  BY DEF BoxOwners, Holds
<1>2. /\ boxPc' \in [Callers -> BoxPcs] /\ boxPc'[a] = to
      /\ \A b \in Callers : b # a => boxPc'[b] = boxPc[b]
  BY DEF BoxOwners, MoveTo, BoxPcs, Holding
<1>3. \A b \in Callers : boxOf[b] # c
  BY DEF BoxUsers, Callers
<1>4. BoxUsers' = [BoxUsers EXCEPT ![c] = {a}]
  <2>1. ASSUME NEW m \in Boxes
        PROVE  BoxUsers'[m] = IF m = c THEN {a} ELSE BoxUsers[m]
    BY <1>1, <1>3, BoxAssumption DEF BoxUsers, Callers
  <2> QED
    BY <2>1 DEF BoxUsers
<1>5. \A b \in allConts' : b \in InPool' \/ \E d \in Callers : boxOf'[d] = b
  <2> TAKE b \in allConts'
  <2>1. b \in InPool \/ \E d \in Callers : boxOf[d] = b
    BY DEF BoxOwners
  <2>2. CASE b = c
    BY <1>1, <2>2
  <2>3. CASE b = NoBox
    BY <2>1, <2>3, BoxAssumption DEF BoxOwners, InPool
  <2> QED
    BY <1>1, <2>1, <2>2, <2>3
<1>6. /\ \A b, d \in Callers : boxOf'[b] \in Boxes /\ boxOf'[b] = boxOf'[d] => b = d
      /\ \A b \in Callers : boxOf'[b] \notin InPool'
  BY <1>1, <1>3 DEF BoxOwners
<1>7. \A b \in Callers : IF boxPc'[b] \in Holding THEN boxOf'[b] \in Boxes \cap boxes'
                                                  ELSE boxOf'[b] = NoBox
  BY <1>1, <1>2 DEF BoxOwners
<1>8. InPool' \subseteq boxes'
  BY DEF BoxOwners
<1> QED
  BY <1>1, <1>2, <1>4, <1>5, <1>6, <1>7, <1>8 DEF BoxOwners, BoxesShared!Obtain

\* A function that differs from another at one place.
LEMMA OneChanges ==
  ASSUME NEW S, NEW f, NEW g, f = [m \in S |-> f[m]], g = [m \in S |-> g[m]], NEW c, NEW e,
         \A m \in S : g[m] = IF m = c THEN e ELSE f[m]
  PROVE  g = [f EXCEPT ![c] = e]
OBVIOUS

(* A caller lets go of its container: it is offered, or destroyed.         *)
LEMMA BoxLeft ==
  ASSUME BoxOwners, NEW a \in Callers, NEW c, c = boxOf[a], c \in Boxes,
         Holds(a, NoBox), NEW to \in BoxPcs \ Holding, MoveTo(a, to),
         idleBoxes' \in Seq(Boxes), Once(idleBoxes'),
         \/ InPool' = InPool \cup {c} /\ UNCHANGED <<allConts, boxes>>
         \/ InPool' = InPool /\ allConts' = allConts \ {c} /\ boxes \ {c} \subseteq boxes'
  PROVE  BoxOwners' /\ (BoxesShared!Return(a, c) \/ BoxesShared!Discard(a, c))
<1>1. /\ boxOf' \in [Callers -> Boxes \cup {NoBox}] /\ boxOf'[a] = NoBox
      /\ \A b \in Callers : b # a => boxOf'[b] = boxOf[b]
  BY DEF BoxOwners, Holds
<1>2. /\ boxPc' \in [Callers -> BoxPcs] /\ boxPc'[a] = to
      /\ \A b \in Callers : b # a => boxPc'[b] = boxPc[b]
  BY DEF BoxOwners, MoveTo
<1>3. \A b \in Callers : b # a => boxOf[b] # c
  BY DEF BoxOwners
<1>4. c \in boxes /\ c \notin InPool
  BY BoxAssumption DEF BoxOwners
<1>5. BoxUsers[c] = {a} /\ BoxUsers' = [BoxUsers EXCEPT ![c] = {}]
  <2>1. ASSUME NEW m \in Boxes
        PROVE  BoxUsers'[m] = IF m = c THEN {} ELSE BoxUsers[m]
    BY <1>1, <1>3, BoxAssumption DEF BoxUsers, Callers
  <2>2. BoxUsers[c] = {a}
    BY <1>3 DEF BoxUsers, Callers
  <2>3. PICK f : f = BoxUsers /\ f = [m \in Boxes |-> f[m]]
    BY DEF BoxUsers
  <2>4. PICK g : g = BoxUsers' /\ g = [m \in Boxes |-> g[m]]
    BY DEF BoxUsers
  <2>5. g = [f EXCEPT ![c] = {}]
    BY <2>1, <2>3, <2>4, OneChanges
  <2> QED
    BY <2>2, <2>3, <2>4, <2>5
<1>6. NoBox \notin InPool'
  BY BoxAssumption DEF InPool
<1>7. \A b \in allConts' : b \in InPool' \/ \E d \in Callers : boxOf'[d] = b
  <2> TAKE b \in allConts'
  <2>1. b \in InPool \/ \E d \in Callers : boxOf[d] = b
    BY DEF BoxOwners
  <2>2. b = c => b \in InPool'
    OBVIOUS
  <2> QED
    BY <1>1, <2>1, <2>2
<1>8. InPool' \subseteq boxes' /\ boxes \ {c} \subseteq boxes'
  BY <1>4 DEF BoxOwners
<1>9. \A b \in Callers : IF boxPc'[b] \in Holding THEN boxOf'[b] \in Boxes \cap boxes'
                                                  ELSE boxOf'[b] = NoBox
  BY <1>1, <1>2, <1>3, <1>8 DEF BoxOwners
<1>10. /\ \A b, d \in Callers : boxOf'[b] \in Boxes /\ boxOf'[b] = boxOf'[d] => b = d
       /\ \A b \in Callers : boxOf'[b] \notin InPool'
  BY <1>1, <1>3, <1>6, BoxAssumption DEF BoxOwners
<1> QED
  BY <1>1, <1>2, <1>5, <1>7, <1>8, <1>9, <1>10
     DEF BoxOwners, BoxesShared!Return, BoxesShared!Discard

(* A caller goes on with what it has.                                      *)
LEMMA BoxKept ==
  ASSUME BoxOwners, NEW a \in Callers, NEW to \in BoxPcs, MoveTo(a, to),
         to \in Holding <=> boxPc[a] \in Holding, UNCHANGED <<idleBoxes, boxOf>>,
         boxes \subseteq boxes',
         \/ allConts' = allConts
         \/ boxPc[a] \in Holding /\ allConts' = allConts \cup {boxOf[a]}
  PROVE  BoxOwners' /\ UNCHANGED BoxesShared!poolVars
<1>1. /\ boxPc' \in [Callers -> BoxPcs] /\ boxPc'[a] = to
      /\ \A b \in Callers : b # a => boxPc'[b] = boxPc[b]
  BY DEF BoxOwners, MoveTo
<1>2. InPool' = InPool /\ BoxUsers' = BoxUsers
  BY DEF InPool, BoxUsers
<1>3. \A b \in Callers : IF boxPc'[b] \in Holding THEN boxOf[b] \in Boxes \cap boxes'
                                                  ELSE boxOf[b] = NoBox
  BY <1>1 DEF BoxOwners
<1>4. allConts' \subseteq Boxes /\ \A b \in allConts' : b \in InPool \/ \E d \in Callers : boxOf[d] = b
  BY DEF BoxOwners
<1> QED
  BY <1>1, <1>2, <1>3, <1>4 DEF BoxOwners, BoxesShared!poolVars

(* The head of the channel is destroyed.                                   *)
LEMMA BoxDropped ==
  ASSUME BoxOwners, idleBoxes # <<>>, idleBoxes' = Tail(idleBoxes), NEW h,
         h = Head(idleBoxes), allConts' = allConts \ {h}, boxes \ {h} \subseteq boxes',
         UNCHANGED boxOf, boxPc' \in [Callers -> BoxPcs],
         \A a \in Callers : boxPc'[a] \in Holding <=> boxPc[a] \in Holding
  PROVE  BoxOwners' /\ BoxesShared!Remove(h)
<1>1. /\ idleBoxes' \in Seq(Boxes) /\ Once(idleBoxes')
      /\ h \in Boxes /\ h \in InPool /\ InPool' = InPool \ {h}
  BY BoxHead
<1>2. \A a \in Callers : boxOf[a] # h
  BY <1>1 DEF BoxOwners
<1>3. BoxUsers' = BoxUsers
  BY DEF BoxUsers
<1>4. InPool' \subseteq boxes'
  BY <1>1 DEF BoxOwners
<1>5. \A a \in Callers : IF boxPc'[a] \in Holding THEN boxOf[a] \in Boxes \cap boxes'
                                                  ELSE boxOf[a] = NoBox
  BY <1>2 DEF BoxOwners
<1> QED
  BY <1>1, <1>2, <1>3, <1>4, <1>5 DEF BoxOwners, BoxesShared!Remove

(* What docker rm and docker run leave.                                    *)
LEMMA BoxGone ==
  ASSUME NEW b, DestroyBox(b)
  PROVE  allConts' = allConts \ {b} /\ boxes \ {b} \subseteq boxes'
BY DEF DestroyBox

\* What a step of this pool does for the abstract one.
BoxMapped == BoxOwners' /\ [BoxesShared!PoolNext]_(BoxesShared!poolVars)

LEMMA CallerMaps ==
  ASSUME NEW u \in Callers, NEW b \in Boxes,
         \/ BoxesShared!Obtain(u, b) \/ BoxesShared!Return(u, b)
         \/ BoxesShared!Discard(u, b) \/ BoxesShared!Remove(b)
  PROVE  [BoxesShared!PoolNext]_(BoxesShared!poolVars)
BY DEF BoxesShared!PoolNext, Callers

(* A container that is created is its creator's, or nobody's.              *)
LEMMA StartMaps ==
  ASSUME BoxOwners, NEW a \in Callers, NEW ok \in Holding, NEW failed \in BoxPcs \ Holding,
         boxPc[a] \notin Holding, StartBox(a, ok, failed), UNCHANGED <<idleBoxes, allConts>>
  PROVE  BoxMapped
<1>1. CASE /\ NewNames # {} /\ boxes' = boxes \cup {NewBox}
           /\ Holds(a, NewBox) /\ MoveTo(a, ok)
  <2>1. PICK c : c = NewBox /\ c \in NewNames
    BY <1>1 DEF NewBox
  <2>2. c \in Boxes /\ c \notin boxes /\ c \notin InPool
    BY <2>1 DEF NewNames
  <2>3. boxOf[a] = NoBox /\ BoxUsers[c] = {}
    BY <2>2, BoxAssumption DEF BoxOwners, BoxUsers, Callers
  <2>4. idleBoxes' \in Seq(Boxes) /\ Once(idleBoxes') /\ InPool' = InPool \ {c}
    BY <2>2 DEF BoxOwners, InPool
  <2>5. BoxOwners' /\ BoxesShared!Obtain(a, c)
    BY <1>1, <2>1, <2>2, <2>3, <2>4, BoxTaken
  <2> QED
    BY <2>2, <2>5, CallerMaps DEF BoxMapped
<1>2. CASE MoveTo(a, failed) /\ UNCHANGED boxOf /\ boxes \subseteq boxes'
  BY <1>2, BoxKept DEF BoxMapped
<1> QED
  BY <1>1, <1>2 DEF StartBox

(* The channel gives its head, or the head is invalid.                     *)
LEMMA TakeMaps ==
  ASSUME BoxOwners, NEW a \in Callers, NEW otherwise \in BoxPcs \ Holding,
         boxPc[a] \notin Holding, TakeBox(a, otherwise)
  PROVE  BoxMapped
<1>1. PICK h : /\ h = Head(idleBoxes) /\ h \in Boxes /\ h \in InPool
               /\ idleBoxes' \in Seq(Boxes) /\ Once(idleBoxes') /\ InPool' = InPool \ {h}
  BY BoxHead DEF TakeBox
<1>2. CASE Holds(a, h) /\ MoveTo(a, "have") /\ UNCHANGED <<allConts, boxes>>
  <2>1. boxOf[a] = NoBox /\ BoxUsers[h] = {} /\ h \in boxes
    BY <1>1 DEF BoxOwners, BoxUsers, Callers
  <2>2. BoxOwners' /\ BoxesShared!Obtain(a, h)
    BY <1>1, <1>2, <2>1, BoxTaken DEF Holding
  <2> QED
    BY <1>1, <2>2, CallerMaps DEF BoxMapped
<1>3. CASE DestroyBox(h) /\ MoveTo(a, otherwise) /\ UNCHANGED boxOf
  <2>1. /\ boxPc' \in [Callers -> BoxPcs]
        /\ \A b \in Callers : boxPc'[b] \in Holding <=> boxPc[b] \in Holding
    BY <1>3 DEF MoveTo, BoxOwners
  <2>2. BoxOwners' /\ BoxesShared!Remove(h)
    BY <1>1, <1>3, <2>1, BoxGone, BoxDropped DEF TakeBox
  <2> QED
    BY <1>1, <2>2, CallerMaps DEF BoxMapped
<1> QED
  BY <1>1, <1>2, <1>3 DEF TakeBox, dockerBoxes

(* A container goes back into the channel, or away.                        *)
LEMMA PutMaps ==
  ASSUME BoxOwners, NEW a \in Callers, NEW then \in BoxPcs \ Holding,
         boxPc[a] \in Holding, MoveTo(a, then), Holds(a, NoBox),
         \/ idleBoxes' = Append(idleBoxes, boxOf[a]) /\ UNCHANGED <<allConts, boxes>>
         \/ DestroyBox(boxOf[a]) /\ UNCHANGED idleBoxes
  PROVE  BoxMapped
<1>1. PICK c : c = boxOf[a] /\ c \in Boxes /\ c \notin InPool
  BY DEF BoxOwners
<1>2. CASE idleBoxes' = Append(idleBoxes, c) /\ UNCHANGED <<allConts, boxes>>
  <2>1. idleBoxes' \in Seq(Boxes) /\ Once(idleBoxes') /\ InPool' = InPool \cup {c}
    BY <1>1, <1>2, EndPut, InPoolIs DEF BoxOwners
  <2>2. BoxOwners' /\ (BoxesShared!Return(a, c) \/ BoxesShared!Discard(a, c))
    BY <1>1, <1>2, <2>1, BoxLeft
  <2> QED
    BY <1>1, <2>2, CallerMaps DEF BoxMapped
<1>3. CASE DestroyBox(c) /\ UNCHANGED idleBoxes
  <2>1. idleBoxes' \in Seq(Boxes) /\ Once(idleBoxes') /\ InPool' = InPool
    BY <1>3 DEF BoxOwners, InPool
  <2>2. BoxOwners' /\ (BoxesShared!Return(a, c) \/ BoxesShared!Discard(a, c))
    BY <1>1, <1>3, <2>1, BoxGone, BoxLeft
  <2> QED
    BY <1>1, <2>2, CallerMaps DEF BoxMapped
<1> QED
  BY <1>1, <1>2, <1>3

(* Nothing moves.                                                          *)
LEMMA BoxStill ==
  ASSUME BoxOwners, UNCHANGED <<idleBoxes, allConts, boxPc, boxOf, boxes>>
  PROVE  BoxMapped
<1>1. InPool' = InPool /\ BoxUsers' = BoxUsers
  BY DEF InPool, BoxUsers
<1> QED
  BY <1>1 DEF BoxOwners, BoxMapped, BoxesShared!poolVars

(* Acquire and Release (container_pool.go) as steps of the abstract pool.  *)
LEMMA TakerMaps ==
  ASSUME BoxOwners, NEW t \in Takers, TakerStep(t)
  PROVE  BoxMapped
<1> t \in Callers
  BY DEF Callers
<1>1. ASSUME NEW to \in BoxPcs \ Holding, MoveTo(t, to), boxPc[t] \notin Holding,
             UNCHANGED <<idleBoxes, allConts, boxOf, dockerBoxes>>
      PROVE  BoxMapped
  BY <1>1, BoxKept DEF BoxMapped, dockerBoxes
<1>2. CASE AcquireIdle(t)
  <2>1. boxPc[t] \notin Holding /\ {"count", "done"} \subseteq BoxPcs \ Holding
    BY <1>2 DEF AcquireIdle, On, Holding, BoxPcs
  <2> QED
    BY <1>1, <1>2, <2>1, TakeMaps DEF AcquireIdle
<1>3. CASE CountBoxes(t)
  <2>1. boxPc[t] \notin Holding /\ {"wait", "create"} \subseteq BoxPcs \ Holding
    BY <1>3 DEF CountBoxes, On, Holding, BoxPcs
  <2> QED
    BY <1>1, <1>3, <2>1 DEF CountBoxes
<1>4. CASE AwaitBox(t)
  <2>1. boxPc[t] \notin Holding /\ {"create", "done"} \subseteq BoxPcs \ Holding
    BY <1>4 DEF AwaitBox, On, Holding, BoxPcs
  <2> QED
    BY <1>1, <1>4, <2>1, TakeMaps DEF AwaitBox
<1>5. CASE CreateBox(t)
  <2>1. boxPc[t] \notin Holding /\ "register" \in Holding /\ "done" \in BoxPcs \ Holding
    BY <1>5 DEF CreateBox, On, Holding, BoxPcs
  <2> QED
    BY <1>5, <2>1, StartMaps DEF CreateBox
<1>6. CASE RegisterBox(t)
  <2>1. boxPc[t] \in Holding /\ "have" \in Holding /\ "have" \in BoxPcs
    BY <1>6 DEF RegisterBox, On, Holding, BoxPcs
  <2>2. BoxOwners' /\ UNCHANGED BoxesShared!poolVars
    BY <1>6, <2>1, BoxKept DEF RegisterBox, dockerBoxes
  <2> QED
    BY <2>2 DEF BoxMapped
<1>7. CASE ReleaseBox(t)
  <2>1. boxPc[t] \in Holding /\ "done" \in BoxPcs \ Holding
    BY <1>7 DEF ReleaseBox, On, Holding, BoxPcs
  <2> QED
    BY <1>7, <2>1, PutMaps DEF ReleaseBox, PutBox, dockerBoxes
<1>8. CASE SendOnClosed(t)
  BY <1>8, BoxStill DEF SendOnClosed, dockerBoxes
<1> QED
  BY <1>2, <1>3, <1>4, <1>5, <1>6, <1>7, <1>8 DEF TakerStep

(* A warm-up (handleWarmup, Warm) as steps of the abstract pool.           *)
LEMMA WarmUpMaps ==
  ASSUME BoxOwners, NEW w \in WarmUps, WarmUpStep(w)
  PROVE  BoxMapped
<1> w \in Callers
  BY DEF Callers
<1>1. CASE LockWarmUp(w) \/ WarmUpEnds(w)
  <2>1. boxPc[w] \notin Holding /\ {"next", "done"} \subseteq BoxPcs \ Holding
    BY <1>1 DEF LockWarmUp, WarmUpEnds, On, Holding, BoxPcs
  <2>2. UNCHANGED <<idleBoxes, allConts, boxOf, boxes>>
    BY <1>1 DEF LockWarmUp, WarmUpEnds, dockerBoxes
  <2>3. \E to \in BoxPcs \ Holding : MoveTo(w, to)
    BY <1>1, <2>1 DEF LockWarmUp, WarmUpEnds
  <2> QED
    BY <2>1, <2>2, <2>3, BoxKept DEF BoxMapped
<1>2. CASE WarmNext(w)
  <2>1. boxPc[w] \notin Holding /\ "add" \in Holding /\ "next" \in BoxPcs \ Holding
    BY <1>2 DEF WarmNext, On, Holding, BoxPcs
  <2> QED
    BY <1>2, <2>1, StartMaps DEF WarmNext
<1>3. CASE WarmAdd(w)
  <2>1. boxPc[w] \in Holding /\ "send" \in Holding /\ "send" \in BoxPcs
    BY <1>3 DEF WarmAdd, On, Holding, BoxPcs
  <2>2. BoxOwners' /\ UNCHANGED BoxesShared!poolVars
    BY <1>3, <2>1, BoxKept DEF WarmAdd, dockerBoxes
  <2> QED
    BY <2>2 DEF BoxMapped
<1>4. CASE WarmOffer(w)
  <2>1. boxPc[w] \in Holding /\ "next" \in BoxPcs \ Holding
    BY <1>4 DEF WarmOffer, On, Holding, BoxPcs
  <2> QED
    BY <1>4, <2>1, PutMaps DEF WarmOffer, PutBox, dockerBoxes
<1>5. CASE SendOnClosed(w)
  BY <1>5, BoxStill DEF SendOnClosed, dockerBoxes
<1> QED
  BY <1>1, <1>2, <1>3, <1>4, <1>5 DEF WarmUpStep

LEMMA BoxMaps == BoxOwners /\ [BoxNext]_boxVars => BoxMapped
<1> SUFFICES ASSUME BoxOwners, [BoxNext]_boxVars PROVE BoxMapped
  OBVIOUS
<1>1. CASE WarmLockExpires \/ ClosePool \/ CloseRest \/ UNCHANGED boxVars
  BY <1>1, BoxStill DEF WarmLockExpires, ClosePool, CloseRest, boxVars, dockerBoxes
<1>2. CASE DrainBox
  <2>1. CASE idleBoxes = <<>>
    BY <1>2, <2>1, BoxStill DEF DrainBox, dockerBoxes
  <2>2. CASE idleBoxes # <<>>
    <3>1. PICK h : /\ h = Head(idleBoxes) /\ DestroyBox(h) /\ idleBoxes' = Tail(idleBoxes)
                   /\ UNCHANGED <<boxPc, boxOf>>
      BY <1>2, <2>2 DEF DrainBox
    <3>2. h \in Boxes /\ boxPc' \in [Callers -> BoxPcs]
      BY <2>2, <3>1, BoxHead DEF BoxOwners
    <3>3. BoxOwners' /\ BoxesShared!Remove(h)
      <4>1. allConts' = allConts \ {h} /\ boxes \ {h} \subseteq boxes'
        BY <3>1, BoxGone
      <4>2. \A a \in Callers : boxPc'[a] \in Holding <=> boxPc[a] \in Holding
        BY <3>1
      <4> QED
        BY <2>2, <3>1, <3>2, <4>1, <4>2, BoxDropped
    <3> QED
      BY <3>2, <3>3 DEF BoxMapped, BoxesShared!PoolNext
  <2> QED
    BY <2>1, <2>2
<1> QED
  BY <1>1, <1>2, TakerMaps, WarmUpMaps DEF BoxNext

LEMMA BoxInitOK == BoxInit => BoxOwners /\ BoxShut /\ BoxesShared!PoolInit
<1> SUFFICES ASSUME BoxInit PROVE BoxOwners /\ BoxShut /\ BoxesShared!PoolInit
  OBVIOUS
<1>1. /\ idleBoxes = <<>> /\ allConts = {} /\ closing = "open"
      /\ boxPc = [a \in Callers |-> "new"] /\ boxOf = [a \in Callers |-> NoBox]
  BY DEF BoxInit, Callers
<1>2. InPool = {}
  BY <1>1 DEF InPool
<1>3. BoxOwners
  <2>1. idleBoxes \in Seq(Boxes) /\ Once(idleBoxes)
    BY <1>1 DEF Once
  <2> QED
    BY <1>1, <1>2, <2>1, BoxAssumption DEF BoxOwners, BoxPcs, Holding
<1>4. BoxUsers = [b \in Boxes |-> {}]
  BY <1>1, BoxAssumption DEF BoxUsers, Callers
<1> QED
  BY <1>1, <1>2, <1>3, <1>4 DEF BoxShut, BoxesShared!PoolInit

(* The generic pool is a pool: a container goes from one caller to the     *)
(* next only through the channel, whatever Acquire, Release, warm-ups and  *)
(* Close do at the same time (container_pool.go).                          *)
THEOREM ContainerPoolIsPool == BoxSpec => ContainerPoolRefines
<1> QED
  BY BoxInitOK, BoxMaps, PTL DEF BoxSpec, ContainerPoolRefines, BoxMapped, BoxesShared!PoolSpec

(* After Close has emptied the channel it stays so, and a Close that waits *)
(* for itself keeps every caller out of the map.                           *)
LEMMA BoxShutStep == BoxShut /\ [BoxNext]_boxVars => BoxShut'
<1> SUFFICES ASSUME BoxShut, [BoxNext]_boxVars PROVE BoxShut'
  OBVIOUS
<1>1. CASE closing' = closing /\ closing \notin {"rest", "closed", "stuck"}
  BY <1>1 DEF BoxShut
<1>2. ASSUME closing' = closing, closing \in {"rest", "closed", "stuck"},
             UNCHANGED idleBoxes, closing # "stuck" \/ allConts' = allConts
      PROVE  BoxShut'
  BY <1>2 DEF BoxShut
<1>3. closing \in {"rest", "closed", "stuck"} => idleBoxes = <<>> /\ PoolClosed
  BY DEF BoxShut, PoolClosed
<1>4. \A b : DestroyBox(b) => closing # "stuck"
  BY DEF DestroyBox, MutexFree
<1>5. ASSUME NEW t \in Takers, TakerStep(t) PROVE BoxShut'
  <2>1. closing' = closing
    BY <1>5 DEF TakerStep, AcquireIdle, CountBoxes, AwaitBox, CreateBox, RegisterBox,
       ReleaseBox, SendOnClosed, ending
  <2>2. ASSUME closing \in {"rest", "closed", "stuck"}
        PROVE  UNCHANGED idleBoxes /\ (closing # "stuck" \/ allConts' = allConts)
    BY <1>3, <1>4, <1>5, <2>2 DEF TakerStep, AcquireIdle, CountBoxes, AwaitBox, CreateBox,
       RegisterBox, ReleaseBox, SendOnClosed, TakeBox, MutexFree
  <2> QED
    BY <1>1, <1>2, <2>1, <2>2
<1>6. ASSUME NEW w \in WarmUps, WarmUpStep(w) PROVE BoxShut'
  <2>1. closing' = closing
    BY <1>6 DEF WarmUpStep, LockWarmUp, WarmNext, WarmAdd, WarmOffer, WarmUpEnds,
       SendOnClosed, ending
  <2>2. ASSUME closing \in {"rest", "closed", "stuck"}
        PROVE  UNCHANGED idleBoxes /\ (closing # "stuck" \/ allConts' = allConts)
    BY <1>3, <1>4, <1>6, <2>2 DEF WarmUpStep, LockWarmUp, WarmNext, WarmAdd, WarmOffer,
       WarmUpEnds, SendOnClosed, MutexFree
  <2> QED
    BY <1>1, <1>2, <2>1, <2>2
<1>7. CASE WarmLockExpires \/ ClosePool \/ DrainBox \/ CloseRest \/ UNCHANGED boxVars
  BY <1>7, <1>3 DEF WarmLockExpires, ClosePool, DrainBox, CloseRest, boxVars, ending, BoxShut
<1> QED
  BY <1>5, <1>6, <1>7 DEF BoxNext

(* Close waits for itself only with containers that callers have           *)
(* (container_pool.go:397-400).                                            *)
THEOREM StuckExplainedAlways == BoxSpec => []StuckExplained
<1>1. BoxOwners /\ BoxShut => StuckExplained
  <2> SUFFICES ASSUME BoxOwners, BoxShut, closing = "stuck", NEW b \in allConts
               PROVE  BoxUsers[b] # {}
    BY DEF StuckExplained, BoxShut
  <2>1. InPool = {}
    BY DEF BoxShut, InPool
  <2>2. PICK a \in Callers : boxOf[a] = b
    BY <2>1 DEF BoxOwners
  <2>3. b \in Boxes
    BY DEF BoxOwners
  <2> QED
    BY <2>2, <2>3 DEF BoxUsers, Callers
<1>2. BoxOwners /\ [BoxNext]_boxVars => BoxOwners'
  BY BoxMaps DEF BoxMapped
<1> QED
  BY <1>1, <1>2, BoxInitOK, BoxShutStep, PTL DEF BoxSpec

-----------------------------------------------------------------------------
(* ChallengePool                                                           *)

\* The functions of a phase's stack, in the order they are pushed, and how many
\* of them a phase has pushed where it is.
StackFns == <<"network", "candidate", "kill", "test", "leave", "leaveTest">>
FnNames == {"network", "candidate", "kill", "test", "leave", "leaveTest"}
Stack(n) == [i \in 1..n |-> StackFns[i]]
DepthAt ==
  [new |-> 0, candidate |-> 1, test |-> 3, join |-> 4, joinTest |-> 5, write |-> 6,
   start |-> 6, probe |-> 6, run |-> 6, running |-> 6, parse |-> 6, done |-> 0]
RunPcs == {"cleanup"} \cup DOMAIN DepthAt
Depth(p) == Len(todo[p])

\* The stack of a phase says what the phase has.
RunOK(p) ==
  /\ Depth(p) \in 0..6 /\ todo[p] = Stack(Depth(p))
  /\ runPc[p] = "cleanup" \/ Depth(p) = DepthAt[runPc[p]]
  /\ runNet[p] \in IF Depth(p) >= 1 THEN ContNets ELSE {None}
  /\ candOf[p] \in IF Depth(p) >= 2 THEN Conts ELSE {None}
  /\ testOf[p] \in IF Depth(p) >= 4 THEN Conts ELSE {None}

RunsOK ==
  /\ runPc \in [Runs -> RunPcs] /\ todo = [p \in Runs |-> todo[p]]
  /\ runNet \in [Runs -> ContNets \cup {None}]
  /\ candOf \in [Runs -> Conts \cup {None}] /\ testOf \in [Runs -> Conts \cup {None}]
  /\ \A p \in Runs : RunOK(p)

ChansOK ==
  /\ chan \in [Keys -> Seq(Conts)]
  /\ \A k \in Keys : Once(chan[k])
  /\ \A k, l \in Keys : k = l \/ ToSet(chan[k]) \cap ToSet(chan[l]) = {}

UsesCont(p, c) == c \in {candOf[p], testOf[p]}

\* A container is offered by one pool, or has one user and one use; there is no
\* other.
OwnOK ==
  /\ ChansOK
  /\ \A p, q \in Runs, c \in Conts : UsesCont(p, c) /\ UsesCont(q, c) => p = q
  /\ \A p \in Runs : candOf[p] \in Conts => candOf[p] # testOf[p]
  /\ \A p \in Runs, c \in Conts : UsesCont(p, c) => c \notin Idle
  /\ conts = Idle \cup {c \in Conts : \E p \in Runs : UsesCont(p, c)}

\* A network is free or a phase's.
NetsOK ==
  /\ freeNets \subseteq ContNets
  /\ \A p, q \in Runs : runNet[p] \in ContNets /\ runNet[p] = runNet[q] => p = q
  /\ \A p \in Runs : runNet[p] \notin freeNets

\* p is to disconnect c from n.
Joined(p, c, n) ==
  /\ runNet[p] = n
  /\ (Depth(p) >= 5 /\ candOf[p] = c) \/ (Depth(p) >= 6 /\ testOf[p] = c)

\* What is connected to a network are the containers of the phase that has it,
\* until its stack disconnects them, or a failed command kept them.
ConnOK ==
  /\ conn \in [Conts -> SUBSET ContNets]
  /\ \A c \in Conts : \A n \in conn[c] :
       <<c, n>> \in stuck \/ \E p \in Runs : Joined(p, c, n)

\* From its write on, a phase finds its submission in its candidate.
Serving == {"start", "probe", "run", "running"}
FilesOK ==
  /\ files \in [Conts -> Runs \cup {None}]
  /\ \A p \in Runs : runPc[p] \in Serving => files[candOf[p]] = p

\* What runs in a candidate's container was started by the phase that has it,
\* or it could not be killed.
ProcsOK ==
  /\ procs \in [Conts -> SUBSET Runs]
  /\ \A c \in Conts \ conts : procs[c] = {}
  /\ \A k \in Keys : k[1] = "candidate" => \A c \in ToSet(chan[k]) : procs[c] \subseteq unkilled
  /\ \A p \in Runs : candOf[p] \in Conts =>
       procs[candOf[p]] \subseteq unkilled \cup (IF Depth(p) >= 3 THEN {p} ELSE {})

\* Results in a container are those of the tests that run there, or late ones.
ResultsOK ==
  /\ results \in [Conts -> Runs \cup {None}] /\ readOf \in [Runs -> Runs \cup {None}]
  /\ timedOut \subseteq Runs
  /\ \A c \in Conts :
       results[c] \in {None} \cup timedOut \cup {p \in Runs : testOf[p] = c}
  /\ ResultsOwn

WorkOK == NetsOK /\ ConnOK /\ FilesOK /\ ProcsOK /\ ResultsOK

(* The stack of a phase, written out.                                      *)
LEMMA StackFnsAre ==
  /\ StackFns \in Seq(FnNames) /\ DOMAIN StackFns = 1..6
  /\ StackFns[1] = "network" /\ StackFns[2] = "candidate" /\ StackFns[3] = "kill"
  /\ StackFns[4] = "test" /\ StackFns[5] = "leave" /\ StackFns[6] = "leaveTest"
  /\ \A i \in 1..6 : StackFns[i] \in FnNames
BY DEF StackFns, FnNames

LEMMA StackLen ==
  \A n \in 0..6 : /\ Stack(n) \in Seq(FnNames) /\ Len(Stack(n)) = n
                  /\ DOMAIN Stack(n) = 1..n
                  /\ \A i \in 1..n : Stack(n)[i] = StackFns[i]
<1> TAKE n \in 0..6
<1>1. \A i \in 1..n : StackFns[i] \in FnNames
  <2>1. \A i \in 1..n : i \in 1..6
    OBVIOUS
  <2> QED
    BY <2>1, StackFnsAre
<1>2. n \in Nat /\ Stack(n) \in [1..n -> FnNames]
  BY <1>1 DEF Stack
<1> QED
  BY <1>2 DEF Stack

(* What is pushed, in this order.                                          *)
LEMMA StackPushed ==
  /\ Stack(0) \o <<"network">> = Stack(1)
  /\ Stack(1) \o <<"candidate", "kill">> = Stack(3)
  /\ Stack(3) \o <<"test">> = Stack(4)
  /\ Stack(4) \o <<"leave">> = Stack(5)
  /\ Stack(5) \o <<"leaveTest">> = Stack(6)
<1>1. ASSUME NEW n \in 0..5 PROVE Stack(n) \o <<StackFns[n + 1]>> = Stack(n + 1)
  <2>1. n + 1 \in 0..6 /\ n \in 0..6 /\ StackFns[n + 1] \in FnNames
    <3>1. n + 1 \in 0..6 /\ n \in 0..6 /\ n + 1 \in 1..6
      OBVIOUS
    <3> QED
      BY <3>1, StackFnsAre
  <2>2. /\ Stack(n) \in Seq(FnNames) /\ Len(Stack(n)) = n
        /\ \A i \in 1..n : Stack(n)[i] = StackFns[i]
    BY <2>1, StackLen
  <2>3. /\ Stack(n + 1) \in Seq(FnNames) /\ Len(Stack(n + 1)) = n + 1
        /\ \A i \in 1..(n + 1) : Stack(n + 1)[i] = StackFns[i]
    BY <2>1, StackLen
  <2> DEFINE s == Stack(n) \o <<StackFns[n + 1]>>
  <2>4. /\ s \in Seq(FnNames) /\ Len(s) = n + 1
        /\ \A i \in 1..(n + 1) : s[i] = StackFns[i]
    BY <2>1, <2>2
  <2> HIDE DEF s
  <2>5. s = Stack(n + 1)
    BY <2>1, <2>3, <2>4
  <2> QED
    BY <2>5 DEF s
<1>2. Stack(1) \o <<"candidate", "kill">> = Stack(3)
  <2> DEFINE s == Stack(1) \o <<"candidate", "kill">>
  <2>1. Stack(1) \in Seq(FnNames) /\ Len(Stack(1)) = 1 /\ Stack(1)[1] = "network"
    BY StackLen, StackFnsAre
  <2>2. /\ s \in Seq(FnNames) /\ Len(s) = 3
        /\ s[1] = "network" /\ s[2] = "candidate" /\ s[3] = "kill"
    <3> DEFINE t == <<"candidate", "kill">>
    <3>1. t \in Seq(FnNames) /\ Len(t) = 2 /\ t[1] = "candidate" /\ t[2] = "kill"
      <4>1. "candidate" \in FnNames /\ "kill" \in FnNames
        BY DEF FnNames
      <4>2. t = Append(<<"candidate">>, "kill")
        OBVIOUS
      <4>3. <<"candidate">> \in Seq(FnNames) /\ Len(<<"candidate">>) = 1
        BY <4>1
      <4>4. t[1] = "candidate" /\ t[2] = "kill"
        OBVIOUS
      <4> HIDE DEF t
      <4> QED
        BY <4>1, <4>2, <4>3, <4>4
    <3>5. s = Stack(1) \o t
      OBVIOUS
    <3> HIDE DEF t, s
    <3>2. s \in Seq(FnNames) /\ Len(s) = Len(Stack(1)) + Len(t)
      BY <2>1, <3>1, <3>5, ConcatProperties
    <3>3. s[1] = Stack(1)[1]
      BY <2>1, <3>1, <3>5
    <3>4. s[2] = t[1] /\ s[3] = t[2]
      BY <2>1, <3>1, <3>5
    <3>6. Len(s) = 3
      <4>1. Len(s) = 1 + 2
        BY <2>1, <3>1, <3>2, Zenon
      <4> QED
        BY <4>1
    <3>7. s[1] = "network" /\ s[2] = "candidate" /\ s[3] = "kill"
      BY <2>1, <3>1, <3>3, <3>4
    <3> QED
      BY <3>2, <3>6, <3>7
  <2>3. \A i \in 1..3 : s[i] = StackFns[i]
    BY <2>2, StackFnsAre
  <2>4. /\ Stack(3) \in Seq(FnNames) /\ Len(Stack(3)) = 3
        /\ \A i \in 1..3 : Stack(3)[i] = StackFns[i]
    BY StackLen
  <2> HIDE DEF s
  <2>5. s = Stack(3)
    BY <2>2, <2>3, <2>4
  <2> QED
    BY <2>5 DEF s
<1>3. 0 \in 0..5 /\ 3 \in 0..5 /\ 4 \in 0..5 /\ 5 \in 0..5
      /\ 0 + 1 = 1 /\ 3 + 1 = 4 /\ 4 + 1 = 5 /\ 5 + 1 = 6
  OBVIOUS
<1> QED
  BY <1>1, <1>2, <1>3, StackFnsAre

(* The top of the stack is undone first.                                   *)
LEMMA StackTop ==
  \A n \in 1..6 : /\ Stack(n) # <<>> /\ Last(Stack(n)) = StackFns[n]
                  /\ Front(Stack(n)) = Stack(n - 1)
<1> TAKE n \in 1..6
<1>1. /\ Stack(n) \in Seq(FnNames) /\ Len(Stack(n)) = n
      /\ \A i \in 1..n : Stack(n)[i] = StackFns[i]
  <2>1. n \in 0..6
    OBVIOUS
  <2> QED
    BY <2>1, StackLen
<1>2. Last(Stack(n)) = Stack(n)[n] /\ Front(Stack(n)) = SubSeq(Stack(n), 1, n - 1)
  BY <1>1 DEF Last, Front
<1>3. /\ Stack(n - 1) \in Seq(FnNames) /\ Len(Stack(n - 1)) = n - 1
      /\ \A i \in 1..(n - 1) : Stack(n - 1)[i] = StackFns[i]
  <2>1. n - 1 \in 0..6
    OBVIOUS
  <2> QED
    BY <2>1, StackLen
<1> DEFINE s == SubSeq(Stack(n), 1, n - 1)
<1>4. /\ s \in Seq(FnNames) /\ Len(s) = n - 1
      /\ \A i \in 1..(n - 1) : s[i] = StackFns[i]
  BY <1>1
<1> HIDE DEF s
<1>5. s = Stack(n - 1)
  BY <1>3, <1>4
<1> QED
  BY <1>1, <1>2, <1>5 DEF s

(* A phase goes on, with what its stack says.                              *)
LEMMA RunMoves ==
  ASSUME RunsOK, NEW p \in Runs, NEW to \in RunPcs, GoOn(p, to), NEW n \in 0..6,
         todo' = [todo EXCEPT ![p] = Stack(n)], to = "cleanup" \/ n = DepthAt[to],
         runNet' \in [Runs -> ContNets \cup {None}],
         candOf' \in [Runs -> Conts \cup {None}], testOf' \in [Runs -> Conts \cup {None}],
         \A q \in Runs \ {p} : runNet'[q] = runNet[q] /\ candOf'[q] = candOf[q]
                                 /\ testOf'[q] = testOf[q],
         runNet'[p] \in IF n >= 1 THEN ContNets ELSE {None},
         candOf'[p] \in IF n >= 2 THEN Conts ELSE {None},
         testOf'[p] \in IF n >= 4 THEN Conts ELSE {None}
  PROVE  RunsOK'
<1>1. /\ runPc' \in [Runs -> RunPcs] /\ runPc'[p] = to
      /\ todo' = [q \in Runs |-> todo'[q]] /\ todo'[p] = Stack(n)
      /\ \A q \in Runs \ {p} : runPc'[q] = runPc[q] /\ todo'[q] = todo[q]
  BY DEF RunsOK, GoOn
<1>2. RunOK(p)'
  BY <1>1, StackLen DEF RunOK, Depth
<1>3. \A q \in Runs \ {p} : RunOK(q)'
  BY <1>1 DEF RunsOK, RunOK, Depth
<1> QED
  BY <1>1, <1>2, <1>3 DEF RunsOK

(* It goes on with what it has.                                            *)
LEMMA RunGoes ==
  ASSUME RunsOK, NEW p \in Runs, NEW to \in RunPcs, GoOn(p, to), UNCHANGED todo,
         to = "cleanup" \/ Depth(p) = DepthAt[to], UNCHANGED <<runNet, candOf, testOf>>
  PROVE  RunsOK'
<1>1. todo' = [todo EXCEPT ![p] = Stack(Depth(p))] /\ Depth(p) \in 0..6
  BY DEF RunsOK, RunOK
<1>2. /\ runNet[p] \in IF Depth(p) >= 1 THEN ContNets ELSE {None}
      /\ candOf[p] \in IF Depth(p) >= 2 THEN Conts ELSE {None}
      /\ testOf[p] \in IF Depth(p) >= 4 THEN Conts ELSE {None}
  BY DEF RunsOK, RunOK
<1>3. /\ runNet \in [Runs -> ContNets \cup {None}]
      /\ candOf \in [Runs -> Conts \cup {None}] /\ testOf \in [Runs -> Conts \cup {None}]
  BY DEF RunsOK
<1> DEFINE n == Depth(p)
<1>4. n \in 0..6 /\ todo' = [todo EXCEPT ![p] = Stack(n)]
  BY <1>1
<1> HIDE DEF n
<1> QED
  BY <1>2, <1>3, <1>4, RunMoves DEF n

(* Nothing of a phase changes.                                             *)
LEMMA RunsStay ==
  ASSUME RunsOK, UNCHANGED <<runPc, todo, runNet, candOf, testOf>>
  PROVE  RunsOK'
BY DEF RunsOK, RunOK, Depth

LEMMA IdleIs ==
  /\ \A c : c \in Idle <=> \E k \in Keys : c \in ToSet(chan[k])
  /\ \A c : c \in Idle' <=> \E k \in Keys : c \in ToSet(chan'[k])
BY DEF Idle

(* The pool of a key gives its first container.                            *)
LEMMA ChanHead ==
  ASSUME ChansOK, NEW k \in Keys, chan[k] # <<>>, chan' = [chan EXCEPT ![k] = Tail(@)]
  PROVE  /\ ChansOK' /\ Head(chan[k]) \in Conts /\ Head(chan[k]) \in ToSet(chan[k])
         /\ Head(chan[k]) \in Idle /\ Idle' = Idle \ {Head(chan[k])}
         /\ \A l \in Keys : ToSet(chan'[l]) \subseteq ToSet(chan[l])
<1>1. chan[k] \in Seq(Conts) /\ Once(chan[k])
  BY DEF ChansOK
<1>2. /\ Tail(chan[k]) \in Seq(Conts) /\ Once(Tail(chan[k])) /\ Head(chan[k]) \in Conts
      /\ Head(chan[k]) \in ToSet(chan[k])
      /\ ToSet(Tail(chan[k])) = ToSet(chan[k]) \ {Head(chan[k])}
  BY <1>1, HeadTaken
<1>3. /\ chan' \in [Keys -> Seq(Conts)] /\ chan'[k] = Tail(chan[k])
      /\ \A l \in Keys : l # k => chan'[l] = chan[l]
  BY <1>2 DEF ChansOK
<1>4. \A l \in Keys : Once(chan'[l]) /\ ToSet(chan'[l]) \subseteq ToSet(chan[l])
  BY <1>2, <1>3 DEF ChansOK
<1>5. ChansOK'
  BY <1>3, <1>4 DEF ChansOK
<1>6. \A l \in Keys : l # k => Head(chan[k]) \notin ToSet(chan[l])
  BY <1>2 DEF ChansOK
<1>7. Idle' = Idle \ {Head(chan[k])}
  BY <1>2, <1>3, <1>6, IdleIs
<1> QED
  BY <1>2, <1>4, <1>5, <1>7, IdleIs

(* A container is put at the end of the pool of a key.                     *)
LEMMA ChanEnd ==
  ASSUME ChansOK, NEW k \in Keys, NEW c \in Conts, c \notin Idle,
         chan' = [chan EXCEPT ![k] = Append(@, c)]
  PROVE  /\ ChansOK' /\ Idle' = Idle \cup {c}
         /\ ToSet(chan'[k]) = ToSet(chan[k]) \cup {c}
         /\ \A l \in Keys : l # k => chan'[l] = chan[l]
<1>1. chan[k] \in Seq(Conts) /\ Once(chan[k]) /\ c \notin ToSet(chan[k])
  BY IdleIs DEF ChansOK
<1>2. /\ Append(chan[k], c) \in Seq(Conts) /\ Once(Append(chan[k], c))
      /\ ToSet(Append(chan[k], c)) = ToSet(chan[k]) \cup {c}
  BY <1>1, EndPut
<1>3. /\ chan' \in [Keys -> Seq(Conts)] /\ chan'[k] = Append(chan[k], c)
      /\ \A l \in Keys : l # k => chan'[l] = chan[l]
  BY <1>2 DEF ChansOK
<1>4. \A l \in Keys : Once(chan'[l])
  BY <1>2, <1>3 DEF ChansOK
<1>5. \A l \in Keys : c \notin ToSet(chan[l])
  BY IdleIs
<1>6. \A l, m \in Keys : l = m \/ ToSet(chan'[l]) \cap ToSet(chan'[m]) = {}
  BY <1>2, <1>3, <1>5 DEF ChansOK
<1>7. ChansOK'
  BY <1>3, <1>4, <1>6 DEF ChansOK
<1>8. Idle' = Idle \cup {c}
  BY <1>2, <1>3, IdleIs
<1> QED
  BY <1>2, <1>3, <1>7, <1>8

(* The containers of a phase: one of them comes or goes.                   *)
LEMMA ContUsersChange ==
  ASSUME NEW p \in Runs, NEW c \in Conts,
         \A q \in Runs, d \in Conts : q # p \/ d # c => (UsesCont(q, d)' <=> UsesCont(q, d)),
         \A q \in Runs : q # p => ~UsesCont(q, c)
  PROVE  /\ ContUsers' = [ContUsers EXCEPT ![c] = IF UsesCont(p, c)' THEN {p} ELSE {}]
         /\ ContUsers[c] = IF UsesCont(p, c) THEN {p} ELSE {}
<1>1. /\ ContUsers = [d \in Conts |-> {q \in Runs : UsesCont(q, d)}]
      /\ ContUsers' = [d \in Conts |-> {q \in Runs : UsesCont(q, d)'}]
  BY DEF ContUsers, UsesCont
<1>2. ASSUME NEW d \in Conts
      PROVE  {q \in Runs : UsesCont(q, d)'} =
               IF d = c THEN (IF UsesCont(p, c)' THEN {p} ELSE {}) ELSE {q \in Runs : UsesCont(q, d)}
  OBVIOUS
<1> QED
  BY <1>1, <1>2

(* A phase gets a container that was offered, or that is new.              *)
LEMMA ContTaken ==
  ASSUME OwnOK, NEW p \in Runs, NEW c \in Conts, ChansOK', Idle' = Idle \ {c},
         UsesCont(p, c)', \A q \in Runs : ~UsesCont(q, c),
         \A q \in Runs, d \in Conts : q # p \/ d # c => (UsesCont(q, d)' <=> UsesCont(q, d)),
         \A q \in Runs : candOf'[q] \in Conts => candOf'[q] # testOf'[q],
         conts' = conts \cup {c}
  PROVE  OwnOK' /\ Shared!Obtain(p, c)
<1>1. ContUsers' = [ContUsers EXCEPT ![c] = {p}] /\ ContUsers[c] = {}
  BY ContUsersChange
<1>2. /\ \A q, r \in Runs, d \in Conts : UsesCont(q, d)' /\ UsesCont(r, d)' => q = r
      /\ \A q \in Runs, d \in Conts : UsesCont(q, d)' => d \notin Idle'
  BY DEF OwnOK
<1>3. conts' = Idle' \cup {d \in Conts : \E q \in Runs : UsesCont(q, d)'}
  <2>1. conts = Idle \cup {d \in Conts : \E q \in Runs : UsesCont(q, d)}
    BY DEF OwnOK
  <2> QED
    BY <2>1
<1> QED
  BY <1>1, <1>2, <1>3 DEF OwnOK, Shared!Obtain

(* A phase lets go of a container: it is offered, or destroyed.            *)
LEMMA ContLeft ==
  ASSUME OwnOK, NEW p \in Runs, NEW c \in Conts, ChansOK', UsesCont(p, c), ~UsesCont(p, c)',
         \A q \in Runs, d \in Conts : q # p \/ d # c => (UsesCont(q, d)' <=> UsesCont(q, d)),
         \A q \in Runs : candOf'[q] \in Conts => candOf'[q] # testOf'[q],
         \/ Idle' = Idle \cup {c} /\ conts' = conts
         \/ Idle' = Idle /\ conts' = conts \ {c}
  PROVE  OwnOK' /\ (Shared!Return(p, c) \/ Shared!Discard(p, c))
<1>1. \A q \in Runs : q # p => ~UsesCont(q, c)
  BY DEF OwnOK
<1>2. ContUsers' = [ContUsers EXCEPT ![c] = {}] /\ ContUsers[c] = {p}
  BY <1>1, ContUsersChange
<1>3. c \notin Idle
  BY DEF OwnOK
<1>4. /\ \A q, r \in Runs, d \in Conts : UsesCont(q, d)' /\ UsesCont(r, d)' => q = r
      /\ \A q \in Runs, d \in Conts : UsesCont(q, d)' => d \notin Idle'
  BY <1>1 DEF OwnOK
<1>5. conts' = Idle' \cup {d \in Conts : \E q \in Runs : UsesCont(q, d)'}
  <2>1. conts = Idle \cup {d \in Conts : \E q \in Runs : UsesCont(q, d)}
    BY DEF OwnOK
  <2> QED
    BY <1>1, <1>3, <2>1
<1> QED
  BY <1>2, <1>4, <1>5 DEF OwnOK, Shared!Return, Shared!Discard

(* The users stay as they are.                                             *)
LEMMA ContUsersStay ==
  ASSUME UNCHANGED <<candOf, testOf>>
  PROVE  /\ \A q \in Runs, d \in Conts : UsesCont(q, d)' <=> UsesCont(q, d)
         /\ ContUsers' = ContUsers
BY DEF UsesCont, ContUsers

(* An idle container is destroyed.                                         *)
LEMMA ContDropped ==
  ASSUME OwnOK, NEW c \in Idle, c \in Conts, ChansOK', Idle' = Idle \ {c},
         conts' = conts \ {c}, UNCHANGED <<candOf, testOf>>
  PROVE  OwnOK' /\ Shared!Remove(c)
<1>1. \A q \in Runs, d \in Conts : UsesCont(q, d)' <=> UsesCont(q, d)
  BY ContUsersStay
<1>2. conts' = Idle' \cup {d \in Conts : \E q \in Runs : UsesCont(q, d)'}
  <2>1. conts = Idle \cup {d \in Conts : \E q \in Runs : UsesCont(q, d)}
    BY DEF OwnOK
  <2>2. \A q \in Runs : ~UsesCont(q, c)
    BY DEF OwnOK
  <2> QED
    BY <1>1, <2>1, <2>2
<1> QED
  BY <1>1, <1>2, ContUsersStay DEF OwnOK, Shared!Remove

LEMMA OwnStays ==
  ASSUME OwnOK, UNCHANGED <<chan, candOf, testOf, conts>>
  PROVE  OwnOK' /\ UNCHANGED Shared!poolVars
<1>1. ChansOK' /\ Idle' = Idle
  BY DEF OwnOK, ChansOK, Idle
<1> QED
  BY <1>1, ContUsersStay DEF OwnOK, Shared!poolVars

\* What a step of the challenge pool does for the abstract one.
ContMapped == RunsOK' /\ OwnOK' /\ [Shared!PoolNext]_(Shared!poolVars)

LEMMA RunMaps ==
  ASSUME NEW p \in Runs, NEW c \in Conts,
         \/ Shared!Obtain(p, c) \/ Shared!Return(p, c) \/ Shared!Discard(p, c)
  PROVE  [Shared!PoolNext]_(Shared!poolVars)
BY DEF Shared!PoolNext

LEMMA KeysAreKeys ==
  \A p : /\ CandKey(p) \in Keys /\ TestKey(p) \in Keys
         /\ CandKey(p)[1] = "candidate" /\ TestKey(p)[1] = "test"
<1> TAKE p
<1>1. (p \in jsdom) \in BOOLEAN /\ (p \in HiddenRuns \ jsdom) \in BOOLEAN
  OBVIOUS
<1> QED
  BY <1>1 DEF CandKey, TestKey, Keys

(* Where a phase is in its code, and how many functions it has pushed.     *)
LEMMA DepthsAre ==
  /\ {"new", "candidate", "test", "join", "joinTest", "write", "start", "probe",
      "run", "running", "parse", "cleanup", "done"} = RunPcs
  /\ DepthAt["new"] = 0 /\ DepthAt["candidate"] = 1 /\ DepthAt["test"] = 3
  /\ DepthAt["join"] = 4 /\ DepthAt["joinTest"] = 5 /\ DepthAt["write"] = 6
  /\ DepthAt["start"] = 6 /\ DepthAt["probe"] = 6 /\ DepthAt["run"] = 6
  /\ DepthAt["running"] = 6 /\ DepthAt["parse"] = 6 /\ DepthAt["done"] = 0
BY DEF RunPcs, DepthAt

(* What a phase has where it is.                                           *)
LEMMA RunHas ==
  ASSUME RunsOK, NEW p \in Runs
  PROVE  /\ Depth(p) \in 0..6 /\ todo[p] = Stack(Depth(p))
         /\ runPc[p] \in RunPcs
         /\ runPc[p] # "cleanup" => Depth(p) = DepthAt[runPc[p]]
         /\ runNet[p] \in IF Depth(p) >= 1 THEN ContNets ELSE {None}
         /\ candOf[p] \in IF Depth(p) >= 2 THEN Conts ELSE {None}
         /\ testOf[p] \in IF Depth(p) >= 4 THEN Conts ELSE {None}
BY DEF RunsOK, RunOK

(* A step of a phase that moves no container.                              *)
LEMMA GoesMaps ==
  ASSUME RunsOK, OwnOK, NEW p \in Runs, NEW to \in RunPcs, GoOn(p, to), UNCHANGED todo,
         to = "cleanup" \/ Depth(p) = DepthAt[to],
         UNCHANGED <<runNet, candOf, testOf, chan, conts>>
  PROVE  ContMapped
BY RunGoes, OwnStays DEF ContMapped

(* The pool or Docker gives a container that nobody has.                   *)
LEMMA ContGotten ==
  ASSUME OwnOK, NEW p \in Runs, NEW k \in Keys, NEW c \in Conts, Get(p, k, c)
  PROVE  /\ ChansOK' /\ Idle' = Idle \ {c} /\ conts' = conts \cup {c}
         /\ \A q \in Runs : ~UsesCont(q, c)
<1>0. ChansOK
  BY DEF OwnOK
<1>1. CASE TakeIdle(k) /\ c = Head(chan[k])
  <2>1. chan[k] # <<>> /\ chan' = [chan EXCEPT ![k] = Tail(@)] /\ conts' = conts
    BY <1>1 DEF TakeIdle
  <2>2. ChansOK' /\ c \in Idle /\ Idle' = Idle \ {c}
    BY <1>0, <1>1, <2>1, ChanHead
  <2> QED
    BY <2>1, <2>2 DEF OwnOK
<1>2. CASE Create(k) /\ c = NewCont
  <2>1. conts' = conts \cup {c} /\ chan' = chan /\ c \in Conts \ conts
    BY <1>2 DEF Create, NewCont, Unborn
  <2>2. ChansOK' /\ Idle' = Idle
    BY <1>0, <2>1 DEF ChansOK, Idle
  <2>3. c \notin Idle /\ \A q \in Runs : ~UsesCont(q, c)
    BY <2>1 DEF OwnOK
  <2> QED
    BY <2>1, <2>2, <2>3
<1> QED
  BY <1>1, <1>2 DEF Get

(* A container comes back: it is offered, or destroyed.                    *)
LEMMA ContReleased ==
  ASSUME OwnOK, NEW k \in Keys, NEW c \in Conts, c \notin Idle, Release(k, c)
  PROVE  /\ ChansOK'
         /\ \/ Idle' = Idle \cup {c} /\ conts' = conts
            \/ Idle' = Idle /\ conts' = conts \ {c}
<1>0. ChansOK
  BY DEF OwnOK
<1>1. CASE chan' = [chan EXCEPT ![k] = Append(@, c)] /\ UNCHANGED conts
  BY <1>0, <1>1, ChanEnd
<1>2. CASE Destroy(c) /\ UNCHANGED chan
  <2>1. ChansOK' /\ Idle' = Idle
    BY <1>0, <1>2 DEF ChansOK, Idle
  <2> QED
    BY <1>2, <2>1 DEF Destroy
<1> QED
  BY <1>1, <1>2 DEF Release

LEMMA GetCandidateMaps ==
  ASSUME RunsOK, OwnOK, NEW p \in Runs, GetOrCreateCandidate(p)
  PROVE  ContMapped
<1>1. At(p, "candidate") /\ Depth(p) = 1 /\ todo[p] = Stack(1)
      /\ candOf[p] = None /\ testOf[p] = None /\ runNet[p] \in ContNets
  BY RunHas, DepthsAre DEF GetOrCreateCandidate, At
<1>2. CASE Return(p) /\ UNCHANGED <<candOf, todo, chan, conts>>
  BY <1>2, GoesMaps, DepthsAre DEF GetOrCreateCandidate, Return, contVars
<1>3. ASSUME NEW c \in Conts, Get(p, CandKey(p), c), candOf' = [candOf EXCEPT ![p] = c],
             Push(p, <<"candidate", "kill">>), GoOn(p, "test")
      PROVE  ContMapped
  <2>1. UNCHANGED <<testOf, runNet>>
    BY DEF GetOrCreateCandidate
  <2>2. /\ ChansOK' /\ Idle' = Idle \ {c} /\ conts' = conts \cup {c}
        /\ \A q \in Runs : ~UsesCont(q, c)
    BY <1>3, ContGotten, KeysAreKeys
  <2>3. /\ candOf' \in [Runs -> Conts \cup {None}] /\ candOf'[p] = c
        /\ \A q \in Runs : q # p => candOf'[q] = candOf[q]
    BY <1>3 DEF RunsOK
  <2>4. RunsOK'
    <3>1. todo' = [todo EXCEPT ![p] = Stack(3)]
      BY <1>1, <1>3, StackPushed DEF Push
    <3>2. 3 \in 0..6 /\ "test" \in RunPcs /\ 3 = DepthAt["test"]
      BY DepthsAre
    <3>3. /\ runNet' \in [Runs -> ContNets \cup {None}] /\ testOf' \in [Runs -> Conts \cup {None}]
          /\ runNet'[p] \in ContNets /\ testOf'[p] = None
      BY <1>1, <2>1 DEF RunsOK
    <3>4. \A q \in Runs \ {p} : runNet'[q] = runNet[q] /\ candOf'[q] = candOf[q]
                                 /\ testOf'[q] = testOf[q]
      BY <2>1, <2>3
    <3>5. 3 >= 1 /\ 3 >= 2 /\ ~(3 >= 4)
      OBVIOUS
    <3> QED
      BY <1>3, <2>3, <3>1, <3>2, <3>3, <3>4, <3>5, RunMoves
  <2>5. /\ UsesCont(p, c)'
        /\ \A q \in Runs, d \in Conts : q # p \/ d # c => (UsesCont(q, d)' <=> UsesCont(q, d))
        /\ \A q \in Runs : candOf'[q] \in Conts => candOf'[q] # testOf'[q]
    BY <1>1, <2>1, <2>3, ContAssumption DEF UsesCont, OwnOK
  <2>6. OwnOK' /\ Shared!Obtain(p, c)
    BY <2>2, <2>5, ContTaken
  <2> QED
    BY <2>4, <2>6, RunMaps DEF ContMapped
<1> QED
  BY <1>2, <1>3 DEF GetOrCreateCandidate, contVars

LEMMA GetTestMaps ==
  ASSUME RunsOK, OwnOK, NEW p \in Runs, GetOrCreateTest(p)
  PROVE  ContMapped
<1>1. At(p, "test") /\ Depth(p) = 3 /\ todo[p] = Stack(3)
      /\ candOf[p] \in Conts /\ testOf[p] = None /\ runNet[p] \in ContNets
  BY RunHas, DepthsAre DEF GetOrCreateTest, At
<1>2. CASE Return(p) /\ UNCHANGED <<testOf, todo, chan, conts>>
  BY <1>2, GoesMaps, DepthsAre DEF GetOrCreateTest, Return, contVars
<1>3. ASSUME NEW c \in Conts, Get(p, TestKey(p), c), testOf' = [testOf EXCEPT ![p] = c],
             Push(p, <<"test">>), GoOn(p, "join")
      PROVE  ContMapped
  <2>1. UNCHANGED <<candOf, runNet>>
    BY DEF GetOrCreateTest
  <2>2. /\ ChansOK' /\ Idle' = Idle \ {c} /\ conts' = conts \cup {c}
        /\ \A q \in Runs : ~UsesCont(q, c)
    BY <1>3, ContGotten, KeysAreKeys
  <2>3. /\ testOf' \in [Runs -> Conts \cup {None}] /\ testOf'[p] = c
        /\ \A q \in Runs : q # p => testOf'[q] = testOf[q]
    BY <1>3 DEF RunsOK
  <2>4. RunsOK'
    <3>1. todo' = [todo EXCEPT ![p] = Stack(4)]
      BY <1>1, <1>3, StackPushed DEF Push
    <3>2. 4 \in 0..6 /\ "join" \in RunPcs /\ 4 = DepthAt["join"]
      BY DepthsAre
    <3>3. /\ runNet' \in [Runs -> ContNets \cup {None}] /\ candOf' \in [Runs -> Conts \cup {None}]
          /\ runNet'[p] \in ContNets /\ candOf'[p] \in Conts
      BY <1>1, <2>1 DEF RunsOK
    <3>4. \A q \in Runs \ {p} : runNet'[q] = runNet[q] /\ candOf'[q] = candOf[q]
                                 /\ testOf'[q] = testOf[q]
      BY <2>1, <2>3
    <3>5. 4 >= 1 /\ 4 >= 2 /\ 4 >= 4
      OBVIOUS
    <3> QED
      BY <1>3, <2>3, <3>1, <3>2, <3>3, <3>4, <3>5, RunMoves
  <2>5. /\ UsesCont(p, c)'
        /\ \A q \in Runs, d \in Conts : q # p \/ d # c => (UsesCont(q, d)' <=> UsesCont(q, d))
        /\ \A q \in Runs : candOf'[q] \in Conts => candOf'[q] # testOf'[q]
    <3>1. candOf[p] # c
      BY <2>2 DEF UsesCont
    <3> QED
      BY <1>1, <2>1, <2>3, <3>1, ContAssumption DEF UsesCont, OwnOK
  <2>6. OwnOK' /\ Shared!Obtain(p, c)
    BY <2>2, <2>5, ContTaken
  <2> QED
    BY <2>4, <2>6, RunMaps DEF ContMapped
<1> QED
  BY <1>2, <1>3 DEF GetOrCreateTest, contVars

(* The container at the head of a pool cannot be started again.            *)
LEMMA DiscardMaps ==
  ASSUME RunsOK, OwnOK, NEW p \in Runs, NEW k \in Keys, DiscardIdle(p, k)
  PROVE  ContMapped
<1>0. ChansOK
  BY DEF OwnOK
<1>1. PICK c : c = Head(chan[k])
  OBVIOUS
<1>2. /\ chan[k] # <<>> /\ chan' = [chan EXCEPT ![k] = Tail(@)] /\ conts' = conts \ {c}
      /\ UNCHANGED <<runPc, todo, runNet, candOf, testOf>>
  BY <1>1 DEF DiscardIdle, Destroy, phaseVars
<1>3. ChansOK' /\ c \in Conts /\ c \in Idle /\ Idle' = Idle \ {c}
  BY <1>0, <1>1, <1>2, ChanHead
<1>4. OwnOK' /\ Shared!Remove(c)
  BY <1>2, <1>3, ContDropped
<1>5. RunsOK'
  BY <1>2, RunsStay
<1> QED
  BY <1>3, <1>4, <1>5 DEF ContMapped, Shared!PoolNext

(* A phase pushes the function that undoes a step which moves no container.*)
LEMMA PushMaps ==
  ASSUME RunsOK, OwnOK, NEW p \in Runs, NEW to \in RunPcs \ {"cleanup"}, GoOn(p, to),
         NEW n \in 0..6, n = DepthAt[to], NEW fn, Push(p, <<fn>>),
         Stack(Depth(p)) \o <<fn>> = Stack(n),
         n >= 2 <=> Depth(p) >= 2, n >= 4 <=> Depth(p) >= 4,
         runNet' \in [Runs -> ContNets \cup {None}],
         \A q \in Runs : q # p => runNet'[q] = runNet[q], n >= 1, runNet'[p] \in ContNets,
         UNCHANGED <<candOf, testOf, chan, conts>>
  PROVE  ContMapped
<1>1. todo' = [todo EXCEPT ![p] = Stack(n)]
  BY RunHas DEF Push
<1>2. /\ candOf' \in [Runs -> Conts \cup {None}] /\ testOf' \in [Runs -> Conts \cup {None}]
      /\ candOf'[p] \in IF n >= 2 THEN Conts ELSE {None}
      /\ testOf'[p] \in IF n >= 4 THEN Conts ELSE {None}
  BY RunHas DEF RunsOK
<1>3. RunsOK'
  BY <1>1, <1>2, RunMoves
<1> QED
  BY <1>3, OwnStays DEF ContMapped

LEMMA NetworkMaps ==
  ASSUME RunsOK, OwnOK, NetsOK, NEW p \in Runs, AcquireNetwork(p)
  PROVE  ContMapped
<1>1. Depth(p) = 0
  BY RunHas, DepthsAre DEF AcquireNetwork, At
<1>2. UNCHANGED <<candOf, testOf, chan, conts>>
  BY DEF AcquireNetwork, contVars
<1>3. CASE Return(p) /\ UNCHANGED <<runNet, todo>>
  BY <1>2, <1>3, GoesMaps, DepthsAre DEF Return
<1>4. ASSUME NEW n \in freeNets, runNet' = [runNet EXCEPT ![p] = n],
             Push(p, <<"network">>), GoOn(p, "candidate"), freeNets \subseteq ContNets
      PROVE  ContMapped
  <2>1. /\ runNet' \in [Runs -> ContNets \cup {None}] /\ runNet'[p] \in ContNets
        /\ \A q \in Runs : q # p => runNet'[q] = runNet[q]
    BY <1>4 DEF RunsOK
  <2>2. /\ "candidate" \in RunPcs \ {"cleanup"} /\ 1 \in 0..6 /\ 1 = DepthAt["candidate"]
        /\ Stack(Depth(p)) \o <<"network">> = Stack(1)
    <3>1. Stack(Depth(p)) \o <<"network">> = Stack(1)
      BY <1>1, StackPushed, Zenon
    <3>2. "candidate" \in RunPcs \ {"cleanup"} /\ 1 \in 0..6 /\ 1 = DepthAt["candidate"]
      BY DepthsAre
    <3> QED
      BY <3>1, <3>2
  <2>3. 1 >= 1 /\ (1 >= 2 <=> Depth(p) >= 2) /\ (1 >= 4 <=> Depth(p) >= 4)
    BY <1>1
  <2> QED
    BY <1>1, <1>2, <1>4, <2>1, <2>2, <2>3, PushMaps
<1> QED
  BY <1>3, <1>4 DEF AcquireNetwork, NetsOK

(* The functions a phase has yet to undo.                                  *)
LEMMA UndoneNext ==
  ASSUME RunsOK, NEW p \in Runs, At(p, "cleanup"), todo[p] # <<>>,
         todo' = [todo EXCEPT ![p] = Front(@)], UNCHANGED runPc
  PROVE  /\ Depth(p) \in 1..6 /\ NextFunction(todo[p]) = StackFns[Depth(p)]
         /\ Depth(p) - 1 \in 0..6 /\ todo' = [todo EXCEPT ![p] = Stack(Depth(p) - 1)]
         /\ GoOn(p, "cleanup")
<1>1. Depth(p) \in 0..6 /\ todo[p] = Stack(Depth(p))
  BY RunHas
<1>2. Depth(p) # 0
  <2>1. ASSUME Depth(p) = 0 PROVE FALSE
    <3>1. todo[p] \in Seq(FnNames) /\ Len(todo[p]) = 0
      BY <1>1, <2>1, StackLen
    <3> QED
      BY <3>1
  <2> QED
    BY <2>1
<1>3. Depth(p) \in 1..6 /\ Depth(p) - 1 \in 0..6
  BY <1>1, <1>2
<1>4. Last(todo[p]) = StackFns[Depth(p)] /\ Front(todo[p]) = Stack(Depth(p) - 1)
  BY <1>1, <1>3, StackTop
<1>5. runPc = [runPc EXCEPT ![p] = "cleanup"]
  BY DEF RunsOK, At
<1> QED
  BY <1>3, <1>4, <1>5 DEF NextFunction, GoOn

(* Undoing a step which moved no container.                                *)
LEMMA PopMaps ==
  ASSUME RunsOK, OwnOK, NEW p \in Runs, GoOn(p, "cleanup"), NEW n \in 0..6,
         todo' = [todo EXCEPT ![p] = Stack(n)],
         n >= 1 <=> Depth(p) >= 1, n >= 2 <=> Depth(p) >= 2, n >= 4 <=> Depth(p) >= 4,
         UNCHANGED <<runNet, candOf, testOf, chan, conts>>
  PROVE  ContMapped
<1>1. /\ runNet' \in [Runs -> ContNets \cup {None}] /\ candOf' \in [Runs -> Conts \cup {None}]
      /\ testOf' \in [Runs -> Conts \cup {None}]
      /\ runNet'[p] \in IF n >= 1 THEN ContNets ELSE {None}
      /\ candOf'[p] \in IF n >= 2 THEN Conts ELSE {None}
      /\ testOf'[p] \in IF n >= 4 THEN Conts ELSE {None}
  BY RunHas DEF RunsOK
<1>2. RunsOK'
  BY <1>1, DepthsAre, RunMoves
<1> QED
  BY <1>2, OwnStays DEF ContMapped

LEMMA CleanupMaps ==
  ASSUME RunsOK, OwnOK, NEW p \in Runs, Cleanup(p)
  PROVE  ContMapped
<1>0. At(p, "cleanup")
  BY DEF Cleanup
<1>1. CASE todo[p] = <<>>
  <2>1. Depth(p) = 0
    BY <1>1 DEF Depth
  <2>2. GoOn(p, "done") /\ UNCHANGED <<todo, runNet, candOf, testOf, chan, conts>>
    BY <1>1 DEF Cleanup, contVars
  <2> QED
    BY <2>1, <2>2, DepthsAre, GoesMaps
<1>2. CASE todo[p] # <<>>
  <2> DEFINE d == Depth(p)
  <2>1. /\ d \in 1..6 /\ Undo(p, StackFns[d]) /\ d - 1 \in 0..6
        /\ todo' = [todo EXCEPT ![p] = Stack(d - 1)] /\ GoOn(p, "cleanup")
    <3>1. /\ Undo(p, NextFunction(todo[p])) /\ UNCHANGED runPc
          /\ todo' = [todo EXCEPT ![p] = Front(@)]
      BY <1>2 DEF Cleanup
    <3> QED
      BY <1>0, <1>2, <3>1, UndoneNext
  <2>2. /\ d >= 1 => runNet[p] \in ContNets
        /\ IF d >= 2 THEN candOf[p] \in Conts ELSE candOf[p] = None
        /\ IF d >= 4 THEN testOf[p] \in Conts ELSE testOf[p] = None
    BY <2>1, RunHas
  <2>3. /\ runNet \in [Runs -> ContNets \cup {None}] /\ candOf \in [Runs -> Conts \cup {None}]
        /\ testOf \in [Runs -> Conts \cup {None}]
    BY DEF RunsOK
  <2> HIDE DEF d
  <2>4. CASE UNCHANGED <<runNet, candOf, testOf, chan, conts>> /\ d \in {3, 5, 6}
    <3>1. PICK n \in 0..6 : n = d - 1
      BY <2>1
    <3>2. /\ n >= 1 <=> d >= 1
          /\ n >= 2 <=> d >= 2
          /\ n >= 4 <=> d >= 4
      BY <2>4, <3>1
    <3> QED
      BY <2>1, <2>4, <3>1, <3>2, PopMaps DEF d
  <2>5. CASE d = 1
    <3>1. /\ UNCHANGED <<candOf, testOf, chan, conts>>
          /\ runNet' = [runNet EXCEPT ![p] = None]
      BY <2>1, <2>5, StackFnsAre DEF Undo, contVars
    <3>2. todo' = [todo EXCEPT ![p] = Stack(0)] /\ 0 \in 0..6
      BY <2>1, <2>5
    <3>3. /\ runNet' \in [Runs -> ContNets \cup {None}] /\ runNet'[p] = None
          /\ \A q \in Runs \ {p} : runNet'[q] = runNet[q] /\ candOf'[q] = candOf[q]
                                     /\ testOf'[q] = testOf[q]
      BY <2>3, <3>1
    <3>4. candOf'[p] = None /\ testOf'[p] = None
      BY <2>2, <2>5, <3>1
    <3>5. ~(0 >= 1) /\ ~(0 >= 2) /\ ~(0 >= 4) /\ "cleanup" \in RunPcs
      BY DepthsAre
    <3>6. RunsOK'
      BY <2>1, <2>3, <3>1, <3>2, <3>3, <3>4, <3>5, RunMoves
    <3> QED
      BY <3>1, <3>6, OwnStays DEF ContMapped
  <2>6. CASE d = 2
    <3>1. PICK c \in Conts : c = candOf[p]
      BY <2>2, <2>6
    <3>2. /\ Release(CandKey(p), c) /\ candOf' = [candOf EXCEPT ![p] = None]
          /\ UNCHANGED <<testOf, runNet>>
      BY <2>1, <2>6, <3>1, StackFnsAre DEF Undo
    <3>3. /\ candOf' \in [Runs -> Conts \cup {None}] /\ candOf'[p] = None
          /\ \A q \in Runs \ {p} : runNet'[q] = runNet[q] /\ candOf'[q] = candOf[q]
                                     /\ testOf'[q] = testOf[q]
      BY <2>3, <3>2
    <3>4. RunsOK'
      <4>1. todo' = [todo EXCEPT ![p] = Stack(1)] /\ 1 \in 0..6
        BY <2>1, <2>6
      <4>2. runNet'[p] \in ContNets /\ testOf'[p] = None
        BY <2>2, <2>6, <3>2
      <4>3. 1 >= 1 /\ ~(1 >= 2) /\ ~(1 >= 4) /\ "cleanup" \in RunPcs
        BY DepthsAre
      <4> QED
        BY <2>1, <2>3, <3>2, <3>3, <4>1, <4>2, <4>3, RunMoves
    <3>5. c \notin Idle
      BY <3>1 DEF OwnOK, UsesCont
    <3>6. /\ ChansOK'
          /\ \/ Idle' = Idle \cup {c} /\ conts' = conts
             \/ Idle' = Idle /\ conts' = conts \ {c}
      BY <3>2, <3>5, KeysAreKeys, ContReleased
    <3>7. /\ UsesCont(p, c) /\ ~UsesCont(p, c)'
          /\ \A q \in Runs, e \in Conts : q # p \/ e # c => (UsesCont(q, e)' <=> UsesCont(q, e))
          /\ \A q \in Runs : candOf'[q] \in Conts => candOf'[q] # testOf'[q]
      BY <2>2, <2>6, <3>1, <3>2, <3>3, ContAssumption DEF UsesCont, OwnOK
    <3>8. OwnOK' /\ (Shared!Return(p, c) \/ Shared!Discard(p, c))
      BY <3>6, <3>7, ContLeft
    <3> QED
      BY <3>4, <3>8, RunMaps DEF ContMapped
  <2>7. CASE d = 4
    <3>1. PICK c \in Conts : c = testOf[p]
      BY <2>2, <2>7
    <3>2. /\ Release(TestKey(p), c) /\ testOf' = [testOf EXCEPT ![p] = None]
          /\ UNCHANGED <<candOf, runNet>>
      BY <2>1, <2>7, <3>1, StackFnsAre DEF Undo
    <3>3. /\ testOf' \in [Runs -> Conts \cup {None}] /\ testOf'[p] = None
          /\ \A q \in Runs \ {p} : runNet'[q] = runNet[q] /\ candOf'[q] = candOf[q]
                                     /\ testOf'[q] = testOf[q]
      BY <2>3, <3>2
    <3>4. RunsOK'
      <4>1. todo' = [todo EXCEPT ![p] = Stack(3)] /\ 3 \in 0..6
        BY <2>1, <2>7
      <4>2. runNet'[p] \in ContNets /\ candOf'[p] \in Conts
        BY <2>2, <2>7, <3>2
      <4>3. 3 >= 1 /\ 3 >= 2 /\ ~(3 >= 4) /\ "cleanup" \in RunPcs
        BY DepthsAre
      <4> QED
        BY <2>1, <2>3, <3>2, <3>3, <4>1, <4>2, <4>3, RunMoves
    <3>5. c \notin Idle
      BY <3>1 DEF OwnOK, UsesCont
    <3>6. /\ ChansOK'
          /\ \/ Idle' = Idle \cup {c} /\ conts' = conts
             \/ Idle' = Idle /\ conts' = conts \ {c}
      BY <3>2, <3>5, KeysAreKeys, ContReleased
    <3>7. /\ UsesCont(p, c) /\ ~UsesCont(p, c)'
          /\ \A q \in Runs, e \in Conts : q # p \/ e # c => (UsesCont(q, e)' <=> UsesCont(q, e))
          /\ \A q \in Runs : candOf'[q] \in Conts => candOf'[q] # testOf'[q]
      <4>1. candOf[p] # c
        BY <2>2, <2>7, <3>1 DEF OwnOK
      <4> QED
        BY <2>2, <2>7, <3>1, <3>2, <3>3, <4>1, ContAssumption DEF UsesCont, OwnOK
    <3>8. OwnOK' /\ (Shared!Return(p, c) \/ Shared!Discard(p, c))
      BY <3>6, <3>7, ContLeft
    <3> QED
      BY <3>4, <3>8, RunMaps DEF ContMapped
  <2>8. d \in {3, 5, 6} => UNCHANGED <<runNet, candOf, testOf, chan, conts>>
    <3>1. d \in {3, 5, 6} => StackFns[d] \in {"kill", "leave", "leaveTest"}
      BY StackFnsAre
    <3> QED
      BY <2>1, <3>1 DEF Undo
  <2>9. d \in {1, 2, 3, 4, 5, 6}
    BY <2>1
  <2> QED
    BY <2>4, <2>5, <2>6, <2>7, <2>8, <2>9
<1> QED
  BY <1>1, <1>2

(* A step of the challenge pool is a step of the abstract pool, or none.   *)
LEMMA RunStepMaps ==
  ASSUME RunsOK, OwnOK, NetsOK, NEW p \in Runs, RunStep(p)
  PROVE  ContMapped
<1>0. UNCHANGED <<runNet, candOf, testOf, chan, conts, todo>> /\ Return(p) => ContMapped
  BY GoesMaps, DepthsAre DEF Return
<1>1. CASE AcquireNetwork(p) \/ GetOrCreateCandidate(p) \/ GetOrCreateTest(p) \/ Cleanup(p)
  BY <1>1, NetworkMaps, GetCandidateMaps, GetTestMaps, CleanupMaps
<1>2. CASE DiscardIdle(p, CandKey(p)) \/ DiscardIdle(p, TestKey(p))
  BY <1>2, DiscardMaps, KeysAreKeys
<1>3. CASE ConnectCandidate(p)
  <2>1. Depth(p) = 4 /\ runNet[p] \in ContNets
    BY <1>3, RunHas, DepthsAre DEF ConnectCandidate, At
  <2>2. UNCHANGED <<runNet, candOf, testOf, chan, conts>>
    BY <1>3 DEF ConnectCandidate, Connect, poolVars
  <2>3. CASE Push(p, <<"leave">>) /\ GoOn(p, "joinTest")
    <3>1. /\ 5 \in 0..6 /\ 5 = DepthAt["joinTest"] /\ "joinTest" \in RunPcs \ {"cleanup"}
          /\ Stack(Depth(p)) \o <<"leave">> = Stack(5)
          /\ 5 >= 1 /\ (5 >= 2 <=> Depth(p) >= 2) /\ (5 >= 4 <=> Depth(p) >= 4)
      <4>1. 5 >= 1 /\ (5 >= 2 <=> Depth(p) >= 2) /\ (5 >= 4 <=> Depth(p) >= 4) /\ 5 \in 0..6
        BY <2>1
      <4>2. Stack(Depth(p)) \o <<"leave">> = Stack(5)
        BY <2>1, StackPushed, Zenon
      <4>3. 5 = DepthAt["joinTest"] /\ "joinTest" \in RunPcs \ {"cleanup"}
        BY DepthsAre
      <4> QED
        BY <4>1, <4>2, <4>3
    <3>2. /\ runNet' \in [Runs -> ContNets \cup {None}] /\ runNet'[p] \in ContNets
          /\ \A q \in Runs : q # p => runNet'[q] = runNet[q]
      BY <2>1, <2>2 DEF RunsOK
    <3> QED
      BY <2>2, <2>3, <3>1, <3>2, PushMaps
  <2> QED
    BY <1>0, <1>3, <2>2, <2>3 DEF ConnectCandidate, Connect
<1>4. CASE ConnectTest(p)
  <2>1. Depth(p) = 5 /\ runNet[p] \in ContNets
    BY <1>4, RunHas, DepthsAre DEF ConnectTest, At
  <2>2. UNCHANGED <<runNet, candOf, testOf, chan, conts>>
    BY <1>4 DEF ConnectTest, Connect, poolVars
  <2>3. CASE Push(p, <<"leaveTest">>) /\ GoOn(p, "write")
    <3>1. /\ 6 \in 0..6 /\ 6 = DepthAt["write"] /\ "write" \in RunPcs \ {"cleanup"}
          /\ Stack(Depth(p)) \o <<"leaveTest">> = Stack(6)
          /\ 6 >= 1 /\ (6 >= 2 <=> Depth(p) >= 2) /\ (6 >= 4 <=> Depth(p) >= 4)
      <4>1. 6 >= 1 /\ (6 >= 2 <=> Depth(p) >= 2) /\ (6 >= 4 <=> Depth(p) >= 4) /\ 6 \in 0..6
        BY <2>1
      <4>2. Stack(Depth(p)) \o <<"leaveTest">> = Stack(6)
        BY <2>1, StackPushed, Zenon
      <4>3. 6 = DepthAt["write"] /\ "write" \in RunPcs \ {"cleanup"}
        BY DepthsAre
      <4> QED
        BY <4>1, <4>2, <4>3
    <3>2. /\ runNet' \in [Runs -> ContNets \cup {None}] /\ runNet'[p] \in ContNets
          /\ \A q \in Runs : q # p => runNet'[q] = runNet[q]
      BY <2>1, <2>2 DEF RunsOK
    <3> QED
      BY <2>2, <2>3, <3>1, <3>2, PushMaps
  <2> QED
    BY <1>0, <1>4, <2>2, <2>3 DEF ConnectTest, Connect
<1>5. CASE WriteFiles(p) \/ StartServer(p) \/ ProbeServer(p) \/ StartTests(p)
           \/ TestsEnd(p) \/ TestsTimeout(p) \/ ParseResults(p)
  <2>1. Depth(p) = 6
    BY <1>5, RunHas, DepthsAre
       DEF At, WriteFiles, StartServer, ProbeServer, StartTests, TestsEnd, TestsTimeout, ParseResults
  <2>2. UNCHANGED <<runNet, candOf, testOf, chan, conts, todo>>
    BY <1>5 DEF WriteFiles, StartServer, ProbeServer, StartTests, TestsEnd, TestsTimeout,
                ParseResults, poolVars, contVars
  <2>3. \E to \in {"start", "probe", "run", "running", "parse", "cleanup"} : GoOn(p, to)
    BY <1>5 DEF WriteFiles, StartServer, ProbeServer, StartTests, TestsEnd, TestsTimeout,
                ParseResults, Return
  <2>4. \A to \in {"start", "probe", "run", "running", "parse", "cleanup"} :
          to \in RunPcs /\ (to = "cleanup" \/ DepthAt[to] = 6)
    BY DepthsAre
  <2> QED
    BY <2>1, <2>2, <2>3, <2>4, GoesMaps
<1> QED
  BY <1>1, <1>2, <1>3, <1>4, <1>5 DEF RunStep

(* Networks.                                                               *)
LEMMA NetsStep == RunsOK /\ NetsOK /\ [ChallengeNext]_challengeVars => NetsOK'
<1> SUFFICES ASSUME RunsOK, NetsOK, [ChallengeNext]_challengeVars PROVE NetsOK'
  OBVIOUS
<1>1. CASE UNCHANGED <<freeNets, runNet>>
  BY <1>1 DEF NetsOK
<1>2. ASSUME NEW p \in Runs, AcquireNetwork(p), NEW n \in freeNets,
             runNet' = [runNet EXCEPT ![p] = n], freeNets' = freeNets \ {n}
      PROVE  NetsOK'
  <2>1. n \in ContNets /\ \A q \in Runs : runNet[q] # n
    BY <1>2 DEF NetsOK
  <2>2. runNet'[p] = n /\ \A q \in Runs : q # p => runNet'[q] = runNet[q]
    BY <1>2 DEF RunsOK
  <2> QED
    BY <1>2, <2>1, <2>2 DEF NetsOK
<1>3. ASSUME NEW p \in Runs, Cleanup(p), todo[p] # <<>>, NextFunction(todo[p]) = "network"
      PROVE  NetsOK'
  <2>1. /\ freeNets' = freeNets \cup {runNet[p]} /\ runNet' = [runNet EXCEPT ![p] = None]
    BY <1>3 DEF Cleanup, Undo
  <2>2. runNet[p] \in ContNets
    <3>1. Depth(p) >= 1
      <4>1. /\ At(p, "cleanup") /\ todo' = [todo EXCEPT ![p] = Front(@)] /\ UNCHANGED runPc
        BY <1>3 DEF Cleanup
      <4>2. Depth(p) \in 1..6
        BY <1>3, <4>1, UndoneNext
      <4> QED
        BY <4>2
    <3> QED
      BY <3>1, RunHas
  <2>3. runNet'[p] = None /\ \A q \in Runs : q # p => runNet'[q] = runNet[q]
    BY <2>1 DEF RunsOK
  <2>4. None \notin ContNets
    BY ContAssumption
  <2>5. runNet \in [Runs -> ContNets \cup {None}]
    BY DEF RunsOK
  <2> QED
    BY <2>1, <2>2, <2>3, <2>4, <2>5 DEF NetsOK
<1>4. ASSUME NEW p \in Runs, RunStep(p) PROVE NetsOK'
  <2>1. CASE AcquireNetwork(p)
    BY <1>1, <1>2, <2>1 DEF AcquireNetwork
  <2>2. CASE Cleanup(p)
    <3>1. CASE todo[p] = <<>> \/ NextFunction(todo[p]) # "network"
      BY <1>1, <2>2, <3>1 DEF Cleanup, Undo
    <3> QED
      BY <1>3, <2>2, <3>1
  <2>3. CASE ~AcquireNetwork(p) /\ ~Cleanup(p)
    <3>1. UNCHANGED <<freeNets, runNet>>
      BY <1>4, <2>3 DEF RunStep, GetOrCreateCandidate, GetOrCreateTest, DiscardIdle,
         ConnectCandidate, ConnectTest, Connect, WriteFiles, StartServer, ProbeServer,
         StartTests, TestsEnd, TestsTimeout, ParseResults, poolVars, phaseVars
    <3> QED
      BY <1>1, <3>1
  <2> QED
    BY <2>1, <2>2, <2>3
<1>5. CASE UNCHANGED challengeVars \/ \E c \in Conts : Die(c) \/ \E p \in Runs : LateTestsEnd(c, p)
  BY <1>1, <1>5 DEF Die, LateTestsEnd, challengeVars, phaseVars, poolVars
<1> QED
  BY <1>4, <1>5 DEF ChallengeNext

LEMMA ChallengeMaps ==
  RunsOK /\ OwnOK /\ NetsOK /\ [ChallengeNext]_challengeVars => ContMapped /\ NetsOK'
<1> SUFFICES ASSUME RunsOK, OwnOK, NetsOK, [ChallengeNext]_challengeVars PROVE ContMapped
  BY NetsStep
<1>1. CASE UNCHANGED challengeVars \/ \E c \in Conts : Die(c) \/ \E p \in Runs : LateTestsEnd(c, p)
  <2>1. UNCHANGED <<runPc, todo, runNet, candOf, testOf, chan, conts>>
    BY <1>1 DEF Die, LateTestsEnd, challengeVars, phaseVars, poolVars, contVars
  <2> QED
    BY <2>1, RunsStay, OwnStays DEF ContMapped
<1> QED
  BY <1>1, RunStepMaps DEF ChallengeNext

LEMMA ChallengeInitOK == ChallengeInit => RunsOK /\ OwnOK /\ NetsOK /\ Shared!PoolInit
<1> SUFFICES ASSUME ChallengeInit PROVE RunsOK /\ OwnOK /\ NetsOK /\ Shared!PoolInit
  OBVIOUS
<1>1. /\ runPc = [p \in Runs |-> "new"] /\ todo = [p \in Runs |-> <<>>]
      /\ runNet = [p \in Runs |-> None] /\ candOf = [p \in Runs |-> None]
      /\ testOf = [p \in Runs |-> None] /\ chan = [k \in Keys |-> <<>>] /\ conts = {}
      /\ freeNets \subseteq ContNets
  BY DEF ChallengeInit
<1>2. RunsOK
  <2>1. ASSUME NEW p \in Runs PROVE RunOK(p)
    <3>1. Depth(p) = 0 /\ todo[p] = <<>>
      BY <1>1 DEF Depth
    <3>2. Stack(0) = <<>>
      <4>1. Stack(0) \in Seq(FnNames) /\ Len(Stack(0)) = 0
        BY StackLen
      <4> QED
        BY <4>1
    <3>3. 0 \in 0..6 /\ ~(0 >= 1) /\ ~(0 >= 2) /\ ~(0 >= 4)
      OBVIOUS
    <3> QED
      BY <1>1, <3>1, <3>2, <3>3, DepthsAre DEF RunOK
  <2> QED
    BY <1>1, <2>1, DepthsAre DEF RunsOK
<1>3. Idle = {}
  BY <1>1 DEF Idle, ToSet
<1>4. ChansOK
  BY <1>1 DEF ChansOK, Once, ToSet
<1>5. \A p \in Runs, c \in Conts : ~UsesCont(p, c)
  BY <1>1, ContAssumption DEF UsesCont
<1>6. OwnOK
  BY <1>1, <1>3, <1>4, <1>5, ContAssumption DEF OwnOK
<1>7. NetsOK
  BY <1>1, ContAssumption DEF NetsOK
<1>8. ContUsers = [c \in Conts |-> {}]
  BY <1>5 DEF ContUsers, UsesCont
<1> QED
  BY <1>2, <1>3, <1>6, <1>7, <1>8 DEF Shared!PoolInit

LEMMA OwnAlways == ChallengeSpec => [](RunsOK /\ OwnOK /\ NetsOK)
<1> QED
  BY ChallengeInitOK, ChallengeMaps, PTL DEF ChallengeSpec, ContMapped

(* The pool of one challenge is a pool: a container passes from a phase to *)
(* the next only by ReleaseForChallenge and the channel                    *)
(* (challenge_pool.go:701), whichever error ends the phase.                *)
THEOREM ChallengePoolIsPool == ChallengeSpec => ChallengePoolRefines
<1> QED
  BY ChallengeInitOK, ChallengeMaps, PTL
     DEF ChallengeSpec, ChallengePoolRefines, ContMapped, Shared!PoolSpec

(* Every container that exists is idle in a pool or with a phase.          *)
THEOREM ContainersAccountedAlways == ChallengeSpec => []ContainersAccounted
<1>1. OwnOK => ContainersAccounted
  BY DEF OwnOK, ContainersAccounted, ContUsers, UsesCont
<1> QED
  BY <1>1, OwnAlways, PTL

(* What a phase has after a step.                                          *)
LEMMA RunHasThen ==
  ASSUME RunsOK', NEW p \in Runs
  PROVE  /\ Depth(p)' \in 0..6
         /\ runPc'[p] # "cleanup" => Depth(p)' = DepthAt[runPc'[p]]
         /\ runNet'[p] \in IF Depth(p)' >= 1 THEN ContNets ELSE {None}
         /\ candOf'[p] \in IF Depth(p)' >= 2 THEN Conts ELSE {None}
         /\ testOf'[p] \in IF Depth(p)' >= 4 THEN Conts ELSE {None}
BY DEF RunsOK, RunOK

(* A step of a phase leaves the other phases alone.                        *)
LEMMA RunAlone ==
  ASSUME RunsOK, NEW p \in Runs, RunStep(p), NEW q \in Runs, q # p
  PROVE  /\ runPc'[q] = runPc[q] /\ todo'[q] = todo[q] /\ runNet'[q] = runNet[q]
         /\ candOf'[q] = candOf[q] /\ testOf'[q] = testOf[q]
         /\ Depth(q)' = Depth(q)
<1>1. /\ runPc = [r \in Runs |-> runPc[r]] /\ todo = [r \in Runs |-> todo[r]]
      /\ runNet = [r \in Runs |-> runNet[r]]
      /\ candOf = [r \in Runs |-> candOf[r]] /\ testOf = [r \in Runs |-> testOf[r]]
  BY DEF RunsOK
<1>2. CASE AcquireNetwork(p) \/ GetOrCreateCandidate(p) \/ GetOrCreateTest(p)
  BY <1>1, <1>2 DEF AcquireNetwork, GetOrCreateCandidate, GetOrCreateTest, GoOn, Push,
                    Return, Depth
<1>3. CASE DiscardIdle(p, CandKey(p)) \/ DiscardIdle(p, TestKey(p))
  BY <1>3 DEF DiscardIdle, phaseVars, Depth
<1>4. CASE ConnectCandidate(p) \/ ConnectTest(p)
  BY <1>1, <1>4 DEF ConnectCandidate, ConnectTest, Connect, GoOn, Push, Return, Depth
<1>5. CASE WriteFiles(p) \/ StartServer(p) \/ ProbeServer(p) \/ StartTests(p)
           \/ TestsEnd(p) \/ TestsTimeout(p) \/ ParseResults(p)
  BY <1>1, <1>5 DEF WriteFiles, StartServer, ProbeServer, StartTests, TestsEnd, TestsTimeout,
                    ParseResults, GoOn, Return, Depth
<1>6. CASE Cleanup(p)
  <2>1. /\ \/ runPc' = runPc
           \/ GoOn(p, "done")
        /\ todo' = todo \/ todo' = [todo EXCEPT ![p] = Front(@)]
        /\ runNet' = runNet \/ runNet' = [runNet EXCEPT ![p] = None]
        /\ candOf' = candOf \/ candOf' = [candOf EXCEPT ![p] = None]
        /\ testOf' = testOf \/ testOf' = [testOf EXCEPT ![p] = None]
    BY <1>6 DEF Cleanup, Undo
  <2> QED
    BY <1>1, <2>1 DEF GoOn, Depth
<1> QED
  BY <1>2, <1>3, <1>4, <1>5, <1>6 DEF RunStep

(* One function less to undo.                                              *)
LEMMA UndoneDepth ==
  ASSUME RunsOK, NEW p \in Runs, Cleanup(p), todo[p] # <<>>
  PROVE  /\ Depth(p) \in 1..6 /\ Undo(p, StackFns[Depth(p)])
         /\ Depth(p)' = Depth(p) - 1
<1>1. /\ At(p, "cleanup") /\ todo' = [todo EXCEPT ![p] = Front(@)] /\ UNCHANGED runPc
      /\ Undo(p, NextFunction(todo[p]))
  BY DEF Cleanup
<1>2. /\ Depth(p) \in 1..6 /\ NextFunction(todo[p]) = StackFns[Depth(p)]
      /\ Depth(p) - 1 \in 0..6 /\ todo' = [todo EXCEPT ![p] = Stack(Depth(p) - 1)]
  BY <1>1, UndoneNext
<1>3. todo'[p] = Stack(Depth(p) - 1)
  BY <1>2 DEF RunsOK
<1>4. Len(Stack(Depth(p) - 1)) = Depth(p) - 1
  BY <1>2, StackLen
<1>5. Depth(p)' = Len(todo'[p])
  BY DEF Depth
<1> QED
  BY <1>1, <1>2, <1>3, <1>4, <1>5

(* Connections: those that p is not to undo, and new ones.                 *)
LEMMA ConnMoves ==
  ASSUME RunsOK, ConnOK, NEW p \in Runs, RunStep(p), stuck \subseteq stuck',
         conn' \in [Conts -> SUBSET ContNets],
         \A c \in Conts : \A n \in conn'[c] :
           \/ n \in conn[c] /\ (~Joined(p, c, n) \/ Joined(p, c, n)')
           \/ <<c, n>> \in stuck'
           \/ Joined(p, c, n)'
  PROVE  ConnOK'
<1> SUFFICES ASSUME NEW c \in Conts, NEW n \in conn'[c], <<c, n>> \notin stuck'
             PROVE  \E q \in Runs : Joined(q, c, n)'
  BY DEF ConnOK
<1>1. CASE Joined(p, c, n)'
  BY <1>1
<1>2. CASE n \in conn[c] /\ ~Joined(p, c, n)
  <2>1. PICK q \in Runs : Joined(q, c, n)
    BY <1>2 DEF ConnOK
  <2>2. q # p
    BY <1>2, <2>1
  <2>3. Joined(q, c, n)'
    BY <2>1, <2>2, RunAlone DEF Joined
  <2> QED
    BY <2>3
<1> QED
  BY <1>1, <1>2

LEMMA ConnKept ==
  ASSUME RunsOK, ConnOK, NEW p \in Runs, RunStep(p), stuck \subseteq stuck',
         conn' \in [Conts -> SUBSET ContNets], \A c \in Conts : conn'[c] \subseteq conn[c],
         Depth(p) < 5 \/ UNCHANGED <<todo, runNet, candOf, testOf>>
  PROVE  ConnOK'
<1>1. ASSUME Depth(p) < 5, NEW c, NEW n PROVE ~Joined(p, c, n)
  BY <1>1, RunHas DEF Joined
<1>2. ASSUME UNCHANGED <<todo, runNet, candOf, testOf>>, NEW c, NEW n
      PROVE  Joined(p, c, n)' <=> Joined(p, c, n)
  BY <1>2 DEF Joined, Depth
<1>3. \A c \in Conts : \A n \in conn'[c] :
        n \in conn[c] /\ (~Joined(p, c, n) \/ Joined(p, c, n)')
  BY <1>1, <1>2
<1> QED
  BY <1>3, ConnMoves

(* docker network connect and disconnect.                                  *)
LEMMA ConnectJoins ==
  ASSUME RunsOK, RunsOK', ConnOK, NEW p \in Runs, RunStep(p), NEW c \in Conts, NEW fn, NEW next,
         Connect(p, c, fn, next), runNet[p] \in ContNets,
         \/ next = "joinTest" /\ c = candOf[p] /\ Depth(p) = 4
         \/ next = "write" /\ c = testOf[p] /\ Depth(p) = 5
  PROVE  ConnOK'
<1>0. PICK n : n = runNet[p] /\ n \in ContNets
  OBVIOUS
<1>1. UNCHANGED <<candOf, testOf, runNet>>
  BY DEF Connect
<1>2. CASE UNCHANGED <<conn, stuck, todo>>
  BY <1>1, <1>2, ConnKept DEF ConnOK
<1>3. CASE conn' = [conn EXCEPT ![c] = @ \cup {n}] /\ stuck' = stuck \cup {<<c, n>>}
           /\ UNCHANGED todo
  <2>1. /\ conn' \in [Conts -> SUBSET ContNets]
        /\ \A d \in Conts : conn'[d] \subseteq conn[d] \cup (IF d = c THEN {n} ELSE {})
    BY <1>0, <1>3 DEF ConnOK
  <2>2. ASSUME NEW d, NEW m PROVE Joined(p, d, m)' <=> Joined(p, d, m)
    BY <1>1, <1>3 DEF Joined, Depth
  <2>3. \A d \in Conts : \A m \in conn'[d] :
          \/ m \in conn[d] /\ (~Joined(p, d, m) \/ Joined(p, d, m)')
          \/ <<d, m>> \in stuck'
    BY <1>3, <2>1, <2>2
  <2> QED
    BY <1>3, <2>1, <2>3, ConnMoves
<1>4. CASE conn' = [conn EXCEPT ![c] = @ \cup {n}] /\ GoOn(p, next) /\ UNCHANGED stuck
  <2>1. /\ conn' \in [Conts -> SUBSET ContNets]
        /\ \A d \in Conts : conn'[d] \subseteq conn[d] \cup (IF d = c THEN {n} ELSE {})
    BY <1>0, <1>4 DEF ConnOK
  <2>2. runPc'[p] = next
    BY <1>4 DEF GoOn, RunsOK
  <2>3. Depth(p)' = IF next = "joinTest" THEN 5 ELSE 6
    BY <2>2, RunHasThen, DepthsAre
  <2>4. Joined(p, c, n)'
    BY <1>0, <1>1, <2>3 DEF Joined
  <2>5. ASSUME NEW d, NEW m PROVE Joined(p, d, m) => Joined(p, d, m)'
    BY <1>0, <1>1, <2>3 DEF Joined
  <2>6. \A d \in Conts : \A m \in conn'[d] :
          \/ m \in conn[d] /\ (~Joined(p, d, m) \/ Joined(p, d, m)')
          \/ Joined(p, d, m)'
    BY <2>1, <2>4, <2>5
  <2> QED
    BY <1>4, <2>1, <2>6, ConnMoves
<1> QED
  BY <1>0, <1>2, <1>3, <1>4 DEF Connect

LEMMA LeaveParts ==
  ASSUME RunsOK, ConnOK, NEW p \in Runs, RunStep(p), NEW c \in Conts, Leave(c, runNet[p]),
         UNCHANGED <<candOf, testOf, runNet>>,
         \/ Depth(p) = 6 /\ Depth(p)' = 5 /\ c = testOf[p]
         \/ Depth(p) = 5 /\ Depth(p)' = 4 /\ c = candOf[p]
  PROVE  ConnOK'
<1>0. PICK n : n = runNet[p]
  OBVIOUS
<1>1. /\ conn' \in [Conts -> SUBSET ContNets] /\ stuck \subseteq stuck'
      /\ \A d \in Conts : \A m \in conn'[d] :
           m \in conn[d] /\ (d = c /\ m = n => <<d, m>> \in stuck')
  BY <1>0 DEF Leave, ConnOK
<1>2. ASSUME NEW d, NEW m PROVE Joined(p, d, m) => (d = c /\ m = n) \/ Joined(p, d, m)'
  BY <1>0 DEF Joined
<1>3. ASSUME NEW d \in Conts, NEW m \in conn'[d], <<d, m>> \notin stuck'
      PROVE  m \in conn[d] /\ (~Joined(p, d, m) \/ Joined(p, d, m)')
  <2>1. m \in conn[d] /\ ~(d = c /\ m = n)
    BY <1>1, <1>3
  <2> QED
    BY <1>2, <2>1
<1> QED
  BY <1>1, <1>3, ConnMoves

LEMMA DestroyParts ==
  ASSUME NEW c \in Conts, Destroy(c), ConnOK
  PROVE  /\ conn' \in [Conts -> SUBSET ContNets]
         /\ \A d \in Conts : conn'[d] \subseteq conn[d]
BY DEF Destroy, ConnOK

LEMMA ConnStep ==
  ASSUME RunsOK, RunsOK', OwnOK, ConnOK, [ChallengeNext]_challengeVars
  PROVE  ConnOK'
<1>1. CASE UNCHANGED <<conn, stuck, todo, runNet, candOf, testOf>>
  BY <1>1 DEF ConnOK, Joined, Depth
<1>2. ASSUME NEW p \in Runs, RunStep(p) PROVE ConnOK'
  <2>0. ASSUME UNCHANGED <<conn, stuck>>, Depth(p) < 5 PROVE ConnOK'
    BY <1>2, <2>0, ConnKept DEF ConnOK
  <2>1. CASE AcquireNetwork(p) \/ GetOrCreateCandidate(p) \/ GetOrCreateTest(p)
    <3>1. Depth(p) < 5
      BY <2>1, RunHas, DepthsAre DEF AcquireNetwork, GetOrCreateCandidate, GetOrCreateTest, At
    <3>2. UNCHANGED <<conn, stuck>>
      BY <2>1 DEF AcquireNetwork, GetOrCreateCandidate, GetOrCreateTest, contVars, failVars,
                  Get, TakeIdle, Create
    <3> QED
      BY <2>0, <3>1, <3>2
  <2>2. ASSUME NEW k \in Keys, DiscardIdle(p, k) PROVE ConnOK'
    <3>1. PICK c : c = Head(chan[k])
      OBVIOUS
    <3>2. /\ chan[k] # <<>> /\ Destroy(c) /\ chan' = [chan EXCEPT ![k] = Tail(@)]
          /\ UNCHANGED <<stuck, todo, runNet, candOf, testOf>>
      BY <2>2, <3>1 DEF DiscardIdle, phaseVars
    <3>3. c \in Conts
      BY <3>1, <3>2, ChanHead DEF OwnOK
    <3> QED
      BY <1>2, <3>2, <3>3, DestroyParts, ConnKept
  <2>3. CASE ConnectCandidate(p)
    <3>1. Depth(p) = 4
      BY <2>3, RunHas, DepthsAre DEF ConnectCandidate, At
    <3>2. runNet[p] \in ContNets /\ candOf[p] \in Conts
      BY <3>1, RunHas
    <3>3. Connect(p, candOf[p], "leave", "joinTest")
      BY <2>3 DEF ConnectCandidate
    <3> QED
      BY <1>2, <3>1, <3>2, <3>3, ConnectJoins
  <2>4. CASE ConnectTest(p)
    <3>1. Depth(p) = 5
      BY <2>4, RunHas, DepthsAre DEF ConnectTest, At
    <3>2. runNet[p] \in ContNets /\ testOf[p] \in Conts
      BY <3>1, RunHas
    <3>3. Connect(p, testOf[p], "leaveTest", "write")
      BY <2>4 DEF ConnectTest
    <3> QED
      BY <1>2, <3>1, <3>2, <3>3, ConnectJoins
  <2>5. CASE WriteFiles(p) \/ StartServer(p) \/ ProbeServer(p) \/ StartTests(p)
             \/ TestsEnd(p) \/ TestsTimeout(p) \/ ParseResults(p)
    BY <1>1, <2>5 DEF WriteFiles, StartServer, ProbeServer, StartTests, TestsEnd, TestsTimeout,
                      ParseResults, contVars, failVars
  <2>6. CASE Cleanup(p)
    <3>1. CASE todo[p] = <<>>
      BY <1>1, <2>6, <3>1 DEF Cleanup, contVars
    <3>2. CASE todo[p] # <<>>
      <4>1. /\ Depth(p) \in 1..6 /\ Undo(p, StackFns[Depth(p)])
            /\ Depth(p)' = Depth(p) - 1
        BY <2>6, <3>2, UndoneDepth
      <4>2. CASE Depth(p) = 6
        <5>1. Leave(testOf[p], runNet[p]) /\ UNCHANGED <<candOf, testOf, runNet>>
          BY <4>1, <4>2, StackFnsAre DEF Undo
        <5>2. testOf[p] \in Conts
          BY <4>2, RunHas
        <5> QED
          BY <1>2, <4>1, <4>2, <5>1, <5>2, LeaveParts
      <4>3. CASE Depth(p) = 5
        <5>1. Leave(candOf[p], runNet[p]) /\ UNCHANGED <<candOf, testOf, runNet>>
          BY <4>1, <4>3, StackFnsAre DEF Undo
        <5>2. candOf[p] \in Conts
          BY <4>3, RunHas
        <5> QED
          BY <1>2, <4>1, <4>3, <5>1, <5>2, LeaveParts
      <4>4. CASE Depth(p) \in {2, 4}
        <5>1. PICK c \in Conts : \/ Depth(p) = 2 /\ c = candOf[p]
                                 \/ Depth(p) = 4 /\ c = testOf[p]
          BY <4>4, RunHas
        <5>2. UNCHANGED stuck /\ ((Destroy(c) /\ UNCHANGED chan) \/ UNCHANGED conn)
          BY <4>1, <5>1, StackFnsAre DEF Undo, Release
        <5>3. Depth(p) < 5
          BY <4>4
        <5> QED
          BY <1>2, <2>0, <5>2, <5>3, DestroyParts, ConnKept
      <4>5. CASE Depth(p) \in {1, 3}
        <5>1. UNCHANGED <<conn, stuck>> /\ Depth(p) < 5
          BY <4>1, <4>5, StackFnsAre DEF Undo, contVars
        <5> QED
          BY <2>0, <5>1
      <4> QED
        BY <4>1, <4>2, <4>3, <4>4, <4>5
    <3> QED
      BY <3>1, <3>2
  <2> QED
    BY <1>2, <2>1, <2>2, <2>3, <2>4, <2>5, <2>6, KeysAreKeys DEF RunStep
<1>3. CASE UNCHANGED challengeVars \/ \E c \in Conts : Die(c) \/ \E p \in Runs : LateTestsEnd(c, p)
  BY <1>1, <1>3 DEF Die, LateTestsEnd, challengeVars, phaseVars, contVars, failVars
<1> QED
  BY <1>2, <1>3 DEF ChallengeNext

(* What a phase does where it is.                                          *)
LEMMA StepAt ==
  ASSUME RunsOK, NEW p \in Runs
  PROVE  /\ AcquireNetwork(p) => Depth(p) = 0
         /\ GetOrCreateCandidate(p) => Depth(p) = 1
         /\ GetOrCreateTest(p) => Depth(p) = 3
         /\ ConnectCandidate(p) => Depth(p) = 4
         /\ ConnectTest(p) => Depth(p) = 5
         /\ WriteFiles(p) \/ StartServer(p) \/ ProbeServer(p) \/ StartTests(p)
              \/ TestsEnd(p) \/ TestsTimeout(p) \/ ParseResults(p) => Depth(p) = 6
<1>1. \/ runPc[p] = "cleanup"
      \/ Depth(p) = DepthAt[runPc[p]]
  BY RunHas
<1> QED
  BY <1>1, DepthsAre DEF AcquireNetwork, GetOrCreateCandidate, GetOrCreateTest,
     ConnectCandidate, ConnectTest, WriteFiles, StartServer, ProbeServer, StartTests,
     TestsEnd, TestsTimeout, ParseResults, At

(* One container is given up, and destroyed or offered, by a cleanup.      *)
LEMMA GivenBack ==
  ASSUME RunsOK, NEW p \in Runs, Cleanup(p), todo[p] # <<>>
  PROVE  \/ /\ Depth(p) = 2 /\ candOf[p] \in Conts /\ Release(CandKey(p), candOf[p])
            /\ candOf' = [candOf EXCEPT ![p] = None] /\ UNCHANGED <<testOf, unkilled>>
            /\ Depth(p)' = 1
         \/ /\ Depth(p) = 4 /\ testOf[p] \in Conts /\ Release(TestKey(p), testOf[p])
            /\ testOf' = [testOf EXCEPT ![p] = None] /\ UNCHANGED <<candOf, unkilled>>
            /\ Depth(p)' = 3
         \/ /\ Depth(p) = 3 /\ candOf[p] \in Conts /\ Kill(candOf[p])
            /\ UNCHANGED <<candOf, testOf, files, results, chan, conts>>
            /\ Depth(p)' = 2
         \/ /\ Depth(p) \in {1, 5, 6} /\ Depth(p)' = Depth(p) - 1
            /\ UNCHANGED <<candOf, testOf, files, results, chan, conts, procs, unkilled>>
<1>1. /\ Depth(p) \in 1..6 /\ Undo(p, StackFns[Depth(p)])
      /\ Depth(p)' = Depth(p) - 1
  BY UndoneDepth
<1>2. /\ Depth(p) >= 2 => candOf[p] \in Conts
      /\ Depth(p) >= 4 => testOf[p] \in Conts
  BY RunHas
<1>3. CASE Depth(p) = 1
  BY <1>1, <1>3, StackFnsAre DEF Undo, contVars
<1>4. CASE Depth(p) = 2
  BY <1>1, <1>2, <1>4, StackFnsAre DEF Undo
<1>5. CASE Depth(p) = 3
  BY <1>1, <1>2, <1>5, StackFnsAre DEF Undo
<1>6. CASE Depth(p) = 4
  BY <1>1, <1>2, <1>6, StackFnsAre DEF Undo
<1>7. CASE Depth(p) \in {5, 6}
  BY <1>1, <1>7, StackFnsAre DEF Undo
<1> QED
  BY <1>1, <1>3, <1>4, <1>5, <1>6, <1>7

(* Release and Destroy clear the workspace of one container.               *)
LEMMA Cleared ==
  ASSUME NEW S, NEW c \in Conts, NEW k, Release(k, c) \/ Destroy(c)
  PROVE  /\ files \in [Conts -> S \cup {None}] =>
              files' \in [Conts -> S \cup {None}] /\ \A d \in Conts : d # c => files'[d] = files[d]
         /\ results \in [Conts -> S \cup {None}] =>
              /\ results' \in [Conts -> S \cup {None}] /\ results'[c] = None
              /\ \A d \in Conts : d # c => results'[d] = results[d]
BY DEF Release, Destroy

(* The candidate of a phase that serves.                                   *)
LEMMA ServingHas ==
  ASSUME RunsOK, NEW p \in Runs, runPc[p] \in Serving
  PROVE  Depth(p) = 6 /\ candOf[p] \in Conts
BY RunHas, DepthsAre DEF Serving

LEMMA FilesMove ==
  ASSUME RunsOK, FilesOK, NEW p \in Runs, RunStep(p), files' \in [Conts -> Runs \cup {None}],
         NEW c, \A q \in Runs : q # p => candOf[q] # c,
         \A d \in Conts : d # c => files'[d] = files[d],
         runPc'[p] \in Serving => files'[candOf'[p]] = p
  PROVE  FilesOK'
<1>1. ASSUME NEW q \in Runs, q # p, runPc'[q] \in Serving PROVE files'[candOf'[q]] = q
  <2>1. runPc[q] \in Serving /\ candOf'[q] = candOf[q]
    BY <1>1, RunAlone
  <2>2. candOf[q] \in Conts /\ candOf[q] # c /\ files[candOf[q]] = q
    BY <1>1, <2>1, ServingHas DEF FilesOK
  <2> QED
    BY <2>1, <2>2
<1> QED
  BY <1>1 DEF FilesOK

LEMMA FilesStep ==
  ASSUME RunsOK, OwnOK, FilesOK, [ChallengeNext]_challengeVars
  PROVE  FilesOK'
<1>1. CASE UNCHANGED <<files, runPc, candOf>>
  BY <1>1 DEF FilesOK
<1>2. ASSUME NEW p \in Runs, RunStep(p) PROVE FilesOK'
  <2>0. ASSUME UNCHANGED files, runPc'[p] \notin Serving PROVE FilesOK'
    <3>2. ASSUME NEW q \in Runs, runPc'[q] \in Serving PROVE files'[candOf'[q]] = q
      BY <1>2, <2>0, <3>2, RunAlone DEF FilesOK
    <3> QED
      BY <2>0, <3>2 DEF FilesOK
  <2>1. CASE AcquireNetwork(p) \/ GetOrCreateCandidate(p) \/ GetOrCreateTest(p)
             \/ ConnectCandidate(p) \/ ConnectTest(p)
    <3>1. UNCHANGED files
      BY <2>1 DEF AcquireNetwork, GetOrCreateCandidate, GetOrCreateTest, contVars,
                  Get, TakeIdle, Create, ConnectCandidate, ConnectTest, Connect
    <3>2. \E to \in {"candidate", "test", "join", "joinTest", "write", "cleanup"} : GoOn(p, to)
      BY <2>1 DEF AcquireNetwork, GetOrCreateCandidate, GetOrCreateTest, Return,
                  ConnectCandidate, ConnectTest, Connect
    <3>3. runPc'[p] \notin Serving
      BY <3>2 DEF GoOn, RunsOK, Serving
    <3> QED
      BY <2>0, <3>1, <3>3
  <2>2. ASSUME NEW k \in Keys, DiscardIdle(p, k) PROVE FilesOK'
    <3>1. PICK c : c = Head(chan[k])
      OBVIOUS
    <3>2. /\ chan[k] # <<>> /\ Destroy(c) /\ chan' = [chan EXCEPT ![k] = Tail(@)]
          /\ UNCHANGED <<runPc, candOf>>
      BY <2>2, <3>1 DEF DiscardIdle, phaseVars
    <3>3. c \in Conts /\ c \in Idle
      BY <3>1, <3>2, ChanHead DEF OwnOK
    <3>4. \A q \in Runs : candOf[q] # c
      BY <3>3 DEF OwnOK, UsesCont
    <3>5. files' \in [Conts -> Runs \cup {None}] /\ \A d \in Conts : d # c => files'[d] = files[d]
      BY <3>2, <3>3, Cleared DEF FilesOK
    <3>6. runPc'[p] \in Serving => files'[candOf'[p]] = p
      BY <3>2, <3>4, <3>5, ServingHas DEF FilesOK
    <3> QED
      BY <1>2, <3>4, <3>5, <3>6, FilesMove
  <2>3. CASE WriteFiles(p)
    <3>1. CASE UNCHANGED files /\ Return(p)
      <4>1. runPc'[p] = "cleanup"
        BY <3>1 DEF Return, GoOn, RunsOK
      <4> QED
        BY <2>0, <3>1, <4>1 DEF Serving
    <3>2. CASE files' = [files EXCEPT ![candOf[p]] = p]
      <4>1. PICK c \in Conts : c = candOf[p]
        BY <2>3, StepAt, RunHas
      <4>2. \A q \in Runs : q # p => candOf[q] # c
        BY <4>1 DEF OwnOK, UsesCont
      <4>3. /\ files' \in [Conts -> Runs \cup {None}] /\ files'[c] = p /\ candOf' = candOf
            /\ \A d \in Conts : d # c => files'[d] = files[d]
        BY <2>3, <3>2, <4>1 DEF WriteFiles, FilesOK
      <4> QED
        BY <1>2, <4>1, <4>2, <4>3, FilesMove
    <3> QED
      BY <2>3, <3>1, <3>2 DEF WriteFiles
  <2>4. CASE StartServer(p) \/ ProbeServer(p) \/ StartTests(p)
             \/ TestsEnd(p) \/ TestsTimeout(p) \/ ParseResults(p)
    <3>1. UNCHANGED <<files, candOf>>
      BY <2>4 DEF StartServer, ProbeServer, StartTests, TestsEnd, TestsTimeout,
                  ParseResults, contVars
    <3>2. runPc[p] \in Serving \/ \E to \in {"cleanup", "parse"} : GoOn(p, to)
      BY <2>4 DEF StartServer, ProbeServer, StartTests, TestsEnd, TestsTimeout,
                  ParseResults, At, Return, Serving
    <3>3. CASE runPc[p] \in Serving
      <4>1. \A q \in Runs : runPc'[q] \in Serving => runPc[q] \in Serving
        BY <1>2, <3>3, RunAlone
      <4> QED
        BY <3>1, <4>1 DEF FilesOK
    <3>4. CASE \E to \in {"cleanup", "parse"} : GoOn(p, to)
      <4>1. runPc'[p] \notin Serving
        BY <3>4 DEF GoOn, RunsOK, Serving
      <4> QED
        BY <2>0, <3>1, <4>1
    <3> QED
      BY <3>2, <3>3, <3>4
  <2>5. CASE Cleanup(p)
    <3>1. runPc'[p] \notin Serving
      <4>1. \/ runPc' = runPc /\ runPc[p] = "cleanup"
            \/ GoOn(p, "done")
        BY <2>5 DEF Cleanup, At
      <4> QED
        BY <4>1 DEF GoOn, RunsOK, Serving
    <3>2. CASE todo[p] = <<>>
      BY <2>0, <2>5, <3>1, <3>2 DEF Cleanup, contVars
    <3>3. CASE todo[p] # <<>>
      <4>1. CASE UNCHANGED files
        BY <2>0, <3>1, <4>1
      <4>2. ASSUME NEW c \in Conts, NEW k, Release(k, c), UsesCont(p, c) PROVE FilesOK'
        <5>1. \A q \in Runs : q # p => candOf[q] # c
          BY <4>2 DEF OwnOK, UsesCont
        <5>2. files' \in [Conts -> Runs \cup {None}] /\ \A d \in Conts : d # c => files'[d] = files[d]
          BY <4>2, Cleared DEF FilesOK
        <5> QED
          BY <1>2, <3>1, <5>1, <5>2, FilesMove
      <4> QED
        BY <2>5, <3>3, <4>1, <4>2, GivenBack DEF UsesCont
    <3> QED
      BY <3>2, <3>3
  <2> QED
    BY <1>2, <2>1, <2>2, <2>3, <2>4, <2>5, KeysAreKeys DEF RunStep
<1>3. CASE UNCHANGED challengeVars \/ \E c \in Conts : Die(c) \/ \E p \in Runs : LateTestsEnd(c, p)
  BY <1>1, <1>3 DEF Die, LateTestsEnd, challengeVars, phaseVars, contVars
<1> QED
  BY <1>2, <1>3 DEF ChallengeNext

(* Processes only end; who gets a container, or offers one, gets one where *)
(* nothing runs that could be killed.                                      *)
LEMMA ProcsFewer ==
  ASSUME ProcsOK, unkilled \subseteq unkilled', procs' \in [Conts -> SUBSET Runs],
         \A c \in Conts : procs'[c] \subseteq procs[c],
         \A c \in conts : c \in conts' \/ procs'[c] = {},
         \A k \in Keys : k[1] = "candidate" =>
           \A c \in ToSet(chan'[k]) : c \in ToSet(chan[k]) \/ procs'[c] \subseteq unkilled',
         OwnOK,
         \A k \in Keys : ToSet(chan'[k]) \subseteq Conts,
         \A q \in Runs : candOf'[q] \in Conts =>
           \/ candOf'[q] = candOf[q] /\ (Depth(q) >= 3 => Depth(q)' >= 3)
           \/ procs'[candOf'[q]] \subseteq unkilled'
  PROVE  ProcsOK'
<1>1. ASSUME NEW c \in Conts, c \notin conts' PROVE procs'[c] = {}
  BY <1>1 DEF ProcsOK
<1>2. ASSUME NEW k \in Keys, k[1] = "candidate", NEW c \in ToSet(chan'[k])
      PROVE  procs'[c] \subseteq unkilled'
  <2>1. CASE c \in ToSet(chan[k])
    <3>1. procs[c] \subseteq unkilled /\ c \in Conts
      BY <1>2, <2>1 DEF ProcsOK
    <3> QED
      BY <3>1
  <2> QED
    BY <1>2, <2>1
<1>3. ASSUME NEW q \in Runs, candOf'[q] \in Conts
      PROVE  procs'[candOf'[q]] \subseteq unkilled' \cup (IF Depth(q)' >= 3 THEN {q} ELSE {})
  <2>1. CASE candOf'[q] = candOf[q] /\ (Depth(q) >= 3 => Depth(q)' >= 3)
    <3>1. procs[candOf[q]] \subseteq unkilled \cup (IF Depth(q) >= 3 THEN {q} ELSE {})
      BY <1>3, <2>1 DEF ProcsOK
    <3>2. procs'[candOf'[q]] \subseteq procs[candOf[q]]
      BY <1>3, <2>1
    <3> QED
      BY <2>1, <3>1, <3>2
  <2>2. CASE procs'[candOf'[q]] \subseteq unkilled'
    BY <2>2
  <2> QED
    BY <1>3, <2>1, <2>2
<1> QED
  BY <1>1, <1>2, <1>3 DEF ProcsOK

(* A process starts in a container that a phase has.                       *)
LEMMA ProcsMore ==
  ASSUME RunsOK, OwnOK, ProcsOK, NEW p \in Runs, RunStep(p), NEW c \in Conts,
         \/ c = candOf[p] /\ Depth(p)' >= 3
         \/ c = testOf[p],
         Depth(p) >= 3, Depth(p)' >= 3,
         procs' = [procs EXCEPT ![c] = @ \cup {p}],
         UNCHANGED <<candOf, chan, conts, unkilled>>
  PROVE  ProcsOK'
<1>1. /\ procs' \in [Conts -> SUBSET Runs] /\ procs'[c] = procs[c] \cup {p}
      /\ \A d \in Conts : d # c => procs'[d] = procs[d]
  BY DEF ProcsOK
<1>2. c \in conts /\ c \notin Idle
  BY DEF OwnOK, UsesCont
<1>3. ASSUME NEW k \in Keys, k[1] = "candidate", NEW d \in ToSet(chan'[k])
      PROVE  procs'[d] \subseteq unkilled'
  <2>1. d \in Idle /\ procs[d] \subseteq unkilled
    BY <1>3, IdleIs DEF ProcsOK
  <2>2. d \in Conts /\ d # c
    <3>1. chan[k] \in Seq(Conts)
      BY DEF OwnOK, ChansOK
    <3> QED
      BY <1>2, <1>3, <2>1, <3>1 DEF ToSet
  <2> QED
    BY <1>1, <2>1, <2>2
<1>4. ASSUME NEW q \in Runs, candOf'[q] \in Conts
      PROVE  procs'[candOf'[q]] \subseteq unkilled' \cup (IF Depth(q)' >= 3 THEN {q} ELSE {})
  <2>1. procs[candOf[q]] \subseteq unkilled \cup (IF Depth(q) >= 3 THEN {q} ELSE {})
    BY <1>4 DEF ProcsOK
  <2>2. candOf[q] = c => q = p
    BY DEF OwnOK, UsesCont
  <2>3. q # p => (Depth(q)' >= 3 <=> Depth(q) >= 3)
    BY RunAlone
  <2>4. CASE q = p
    BY <1>1, <1>4, <2>1, <2>4
  <2>5. CASE q # p
    BY <1>1, <1>4, <2>1, <2>2, <2>3, <2>5
  <2> QED
    BY <2>4, <2>5
<1> QED
  BY <1>1, <1>2, <1>3, <1>4 DEF ProcsOK

LEMMA DestroyEnds ==
  ASSUME ProcsOK, NEW c \in Conts, Destroy(c)
  PROVE  /\ procs' \in [Conts -> SUBSET Runs] /\ procs'[c] = {}
         /\ \A d \in Conts : procs'[d] \subseteq procs[d]
         /\ conts' = conts \ {c}
BY DEF Destroy, ProcsOK

LEMMA ProcsStep ==
  ASSUME RunsOK, RunsOK', OwnOK, OwnOK', ProcsOK, [ChallengeNext]_challengeVars
  PROVE  ProcsOK'
<1>0. \A k \in Keys : ToSet(chan'[k]) \subseteq Conts
  <2>1. \A k \in Keys : chan'[k] \in Seq(Conts)
    BY DEF OwnOK, ChansOK
  <2> QED
    BY <2>1 DEF ToSet
<1>1. ASSUME procs' \in [Conts -> SUBSET Runs], \A c \in Conts : procs'[c] \subseteq procs[c],
             UNCHANGED <<conts, chan, unkilled, candOf, todo>>
      PROVE  ProcsOK'
  BY <1>0, <1>1, ProcsFewer DEF Depth
<1>2. ASSUME NEW p \in Runs, RunStep(p) PROVE ProcsOK'
  <2>1. CASE AcquireNetwork(p) \/ ConnectCandidate(p) \/ ConnectTest(p)
    <3>1. UNCHANGED <<procs, conts, chan, unkilled, candOf>>
      BY <2>1 DEF AcquireNetwork, ConnectCandidate, ConnectTest, Connect, contVars, failVars,
                  poolVars
    <3>2. \A q \in Runs : Depth(q) >= 3 => Depth(q)' >= 3
      <4>1. Depth(p) >= 3 => Depth(p)' >= 3
        <5>1. CASE Depth(p) = 0
          BY <5>1
        <5>2. CASE UNCHANGED todo
          BY <5>2 DEF Depth
        <5>3. CASE GoOn(p, "joinTest") \/ GoOn(p, "write")
          <6>1. runPc'[p] \in {"joinTest", "write"}
            BY <5>3 DEF GoOn, RunsOK
          <6> QED
            BY <6>1, RunHasThen, DepthsAre
        <5> QED
          BY <2>1, <5>1, <5>2, <5>3, StepAt DEF ConnectCandidate, ConnectTest, Connect
      <4> QED
        BY <1>2, <4>1, RunAlone
    <3> QED
      BY <1>0, <3>1, <3>2, ProcsFewer DEF ProcsOK
  <2>2. CASE GetOrCreateCandidate(p)
    <3>1. CASE UNCHANGED <<procs, conts, chan, unkilled, candOf, todo>>
      BY <1>1, <3>1 DEF ProcsOK
    <3>2. ASSUME NEW c \in Conts, Get(p, CandKey(p), c), candOf' = [candOf EXCEPT ![p] = c]
          PROVE  ProcsOK'
      <4>1. UNCHANGED <<procs, unkilled>>
        BY <2>2, <3>2 DEF GetOrCreateCandidate, Get, TakeIdle, Create
      <4>2. procs[c] \subseteq unkilled
        <5>1. CASE TakeIdle(CandKey(p)) /\ c = Head(chan[CandKey(p)])
          <6>1. c \in ToSet(chan[CandKey(p)])
            <7>1. chan[CandKey(p)] # <<>> /\ chan' = [chan EXCEPT ![CandKey(p)] = Tail(@)]
              BY <5>1 DEF TakeIdle
            <7> QED
              BY <5>1, <7>1, KeysAreKeys, ChanHead DEF OwnOK
          <6> QED
            BY <6>1, KeysAreKeys DEF ProcsOK
        <5>2. CASE Create(CandKey(p)) /\ c = NewCont
          BY <5>2 DEF Create, NewCont, Unborn, ProcsOK
        <5> QED
          BY <3>2, <5>1, <5>2 DEF Get
      <4>3. /\ \A k \in Keys : ToSet(chan'[k]) \subseteq ToSet(chan[k])
            /\ conts \subseteq conts'
        <5>1. CASE TakeIdle(CandKey(p))
          <6>1. chan[CandKey(p)] # <<>> /\ chan' = [chan EXCEPT ![CandKey(p)] = Tail(@)]
                /\ conts' = conts
            BY <5>1 DEF TakeIdle
          <6> QED
            BY <6>1, KeysAreKeys, ChanHead DEF OwnOK
        <5>2. CASE Create(CandKey(p))
          BY <5>2 DEF Create
        <5> QED
          BY <3>2, <5>1, <5>2 DEF Get
      <4>4. /\ candOf'[p] = c
            /\ \A q \in Runs : q # p => candOf'[q] = candOf[q] /\ Depth(q)' = Depth(q)
        BY <1>2, <3>2, RunAlone DEF RunsOK
      <4> QED
        BY <1>0, <4>1, <4>2, <4>3, <4>4, ProcsFewer DEF ProcsOK
    <3> QED
      BY <2>2, <3>1, <3>2 DEF GetOrCreateCandidate, contVars
  <2>3. CASE GetOrCreateTest(p)
    <3>1. CASE UNCHANGED <<procs, conts, chan, unkilled, candOf, todo>>
      BY <1>1, <3>1 DEF ProcsOK
    <3>2. ASSUME NEW c \in Conts, Get(p, TestKey(p), c), GoOn(p, "join") PROVE ProcsOK'
      <4>1. UNCHANGED <<procs, unkilled, candOf>>
        BY <2>3, <3>2 DEF GetOrCreateTest, Get, TakeIdle, Create
      <4>2. /\ \A k \in Keys : ToSet(chan'[k]) \subseteq ToSet(chan[k])
            /\ conts \subseteq conts'
        <5>1. CASE TakeIdle(TestKey(p))
          <6>1. chan[TestKey(p)] # <<>> /\ chan' = [chan EXCEPT ![TestKey(p)] = Tail(@)]
                /\ conts' = conts
            BY <5>1 DEF TakeIdle
          <6> QED
            BY <6>1, KeysAreKeys, ChanHead DEF OwnOK
        <5>2. CASE Create(TestKey(p))
          BY <5>2 DEF Create
        <5> QED
          BY <3>2, <5>1, <5>2 DEF Get
      <4>3. Depth(p)' >= 3
        <5>1. runPc'[p] = "join"
          BY <3>2 DEF GoOn, RunsOK
        <5>2. Depth(p)' = 4
          BY <5>1, RunHasThen, DepthsAre
        <5> QED
          BY <5>2
      <4>4. \A q \in Runs : Depth(q) >= 3 => Depth(q)' >= 3
        BY <1>2, <4>3, RunAlone
      <4> QED
        BY <1>0, <4>1, <4>2, <4>4, ProcsFewer DEF ProcsOK
    <3> QED
      BY <2>3, <3>1, <3>2 DEF GetOrCreateTest, contVars
  <2>4. ASSUME NEW k \in Keys, DiscardIdle(p, k) PROVE ProcsOK'
    <3>1. PICK c : c = Head(chan[k])
      OBVIOUS
    <3>2. /\ chan[k] # <<>> /\ Destroy(c) /\ chan' = [chan EXCEPT ![k] = Tail(@)]
          /\ UNCHANGED <<todo, candOf, unkilled>>
      BY <2>4, <3>1 DEF DiscardIdle, phaseVars
    <3>3. c \in Conts /\ \A l \in Keys : ToSet(chan'[l]) \subseteq ToSet(chan[l])
      BY <3>1, <3>2, ChanHead DEF OwnOK
    <3>4. /\ procs' \in [Conts -> SUBSET Runs] /\ procs'[c] = {}
          /\ \A d \in Conts : procs'[d] \subseteq procs[d]
          /\ conts' = conts \ {c}
      BY <3>2, <3>3, DestroyEnds
    <3>5. \A q \in Runs : Depth(q)' = Depth(q)
      BY <3>2 DEF Depth
    <3> QED
      BY <1>0, <3>2, <3>3, <3>4, <3>5, ProcsFewer
  <2>5. CASE WriteFiles(p) \/ ProbeServer(p) \/ TestsTimeout(p) \/ ParseResults(p) \/ TestsEnd(p)
    <3>1. UNCHANGED <<conts, chan, unkilled, candOf, todo>>
      BY <2>5 DEF WriteFiles, ProbeServer, TestsTimeout, ParseResults, TestsEnd, contVars,
                  failVars, poolVars
    <3>2. procs' = procs \/ procs' = [procs EXCEPT ![testOf[p]] = @ \ {p}]
      BY <2>5 DEF WriteFiles, ProbeServer, TestsTimeout, ParseResults, TestsEnd, contVars
    <3>3. procs' \in [Conts -> SUBSET Runs] /\ \A c \in Conts : procs'[c] \subseteq procs[c]
      BY <3>2 DEF ProcsOK
    <3> QED
      BY <1>1, <3>1, <3>3
  <2>6. CASE StartServer(p) \/ StartTests(p)
    <3>1. UNCHANGED <<conts, chan, unkilled, candOf, todo>> /\ Depth(p) = 6 /\ Depth(p)' = 6
      BY <2>6, StepAt DEF StartServer, StartTests, failVars, poolVars, Depth
    <3>0. Depth(p) >= 3 /\ Depth(p)' >= 3
      BY <3>1
    <3>2. CASE UNCHANGED procs
      BY <1>1, <3>1, <3>2 DEF ProcsOK
    <3>3. CASE procs' = [procs EXCEPT ![candOf[p]] = @ \cup {p}]
      <4>1. PICK c \in Conts : c = candOf[p]
        BY <3>1, RunHas
      <4> QED
        BY <1>2, <3>0, <3>1, <3>3, <4>1, ProcsMore
    <3>4. CASE procs' = [procs EXCEPT ![testOf[p]] = @ \cup {p}]
      <4>1. PICK c \in Conts : c = testOf[p]
        BY <3>1, RunHas
      <4> QED
        BY <1>2, <3>0, <3>1, <3>4, <4>1, ProcsMore
    <3> QED
      BY <2>6, <3>2, <3>3, <3>4 DEF StartServer, StartTests
  <2>7. CASE Cleanup(p)
    <3>1. CASE todo[p] = <<>>
      <4>1. UNCHANGED <<procs, conts, chan, unkilled, candOf, todo>>
        BY <2>7, <3>1 DEF Cleanup, contVars
      <4> QED
        BY <1>1, <4>1 DEF ProcsOK
    <3>2. CASE todo[p] # <<>>
      <4>0. \A q \in Runs : q # p => Depth(q)' = Depth(q) /\ candOf'[q] = candOf[q]
        BY <1>2, RunAlone
      <4>1. CASE /\ Depth(p) = 2 /\ candOf[p] \in Conts /\ Release(CandKey(p), candOf[p])
                 /\ candOf' = [candOf EXCEPT ![p] = None] /\ UNCHANGED <<testOf, unkilled>>
                 /\ Depth(p)' = 1
        <5>1. PICK c \in Conts : c = candOf[p]
          BY <4>1
        <5>2. procs[c] \subseteq unkilled /\ c \notin Idle
          BY <4>1, <5>1 DEF ProcsOK, OwnOK, UsesCont
        <5>3. candOf'[p] = None /\ None \notin Conts
          BY <4>1, ContAssumption DEF RunsOK
        <5>4. CASE Destroy(c) /\ UNCHANGED chan
          <6>1. /\ procs' \in [Conts -> SUBSET Runs] /\ procs'[c] = {}
                /\ \A d \in Conts : procs'[d] \subseteq procs[d]
                /\ conts' = conts \ {c}
            BY <5>4, DestroyEnds
          <6> QED
            BY <1>0, <4>0, <4>1, <5>3, <5>4, <6>1, ProcsFewer
        <5>5. CASE chan' = [chan EXCEPT ![CandKey(p)] = Append(@, c)] /\ UNCHANGED <<conts, procs>>
          <6>1. \A k \in Keys : ToSet(chan'[k]) \subseteq ToSet(chan[k]) \cup {c}
            BY <5>2, <5>5, KeysAreKeys, ChanEnd DEF OwnOK
          <6> QED
            BY <1>0, <4>0, <4>1, <5>2, <5>3, <5>5, <6>1, ProcsFewer DEF ProcsOK
        <5> QED
          BY <4>1, <5>1, <5>4, <5>5 DEF Release
      <4>2. CASE /\ Depth(p) = 4 /\ testOf[p] \in Conts /\ Release(TestKey(p), testOf[p])
                 /\ testOf' = [testOf EXCEPT ![p] = None] /\ UNCHANGED <<candOf, unkilled>>
                 /\ Depth(p)' = 3
        <5>1. PICK c \in Conts : c = testOf[p]
          BY <4>2
        <5>2. c \notin Idle /\ \A q \in Runs : Depth(q) >= 3 => Depth(q)' >= 3
          BY <4>0, <4>2, <5>1 DEF OwnOK, UsesCont
        <5>4. CASE Destroy(c) /\ UNCHANGED chan
          <6>1. /\ procs' \in [Conts -> SUBSET Runs] /\ procs'[c] = {}
                /\ \A d \in Conts : procs'[d] \subseteq procs[d]
                /\ conts' = conts \ {c}
            BY <5>4, DestroyEnds
          <6> QED
            BY <1>0, <4>2, <5>2, <5>4, <6>1, ProcsFewer
        <5>5. CASE chan' = [chan EXCEPT ![TestKey(p)] = Append(@, c)] /\ UNCHANGED <<conts, procs>>
          <6>1. \A k \in Keys : k # TestKey(p) => chan'[k] = chan[k]
            BY <5>2, <5>5, KeysAreKeys, ChanEnd DEF OwnOK
          <6>2. \A k \in Keys : k[1] = "candidate" => k # TestKey(p)
            BY KeysAreKeys
          <6> QED
            BY <1>0, <4>2, <5>2, <5>5, <6>1, <6>2, ProcsFewer DEF ProcsOK
        <5> QED
          BY <4>2, <5>1, <5>4, <5>5 DEF Release
      <4>3. CASE /\ Depth(p) = 3 /\ candOf[p] \in Conts /\ Kill(candOf[p])
                 /\ UNCHANGED <<candOf, testOf, files, results, chan, conts>>
                 /\ Depth(p)' = 2
        <5>1. PICK c \in Conts : c = candOf[p]
          BY <4>3
        <5>2. /\ procs' \in [Conts -> SUBSET Runs] /\ procs'[c] \subseteq unkilled'
              /\ \A d \in Conts : procs'[d] \subseteq procs[d]
              /\ unkilled \subseteq unkilled'
          BY <4>3, <5>1 DEF Kill, ProcsOK
        <5> QED
          BY <1>0, <4>0, <4>3, <5>1, <5>2, ProcsFewer
      <4>4. CASE /\ Depth(p) \in {1, 5, 6} /\ Depth(p)' = Depth(p) - 1
                 /\ UNCHANGED <<candOf, testOf, files, results, chan, conts, procs, unkilled>>
        <5>1. \A q \in Runs : Depth(q) >= 3 => Depth(q)' >= 3
          BY <4>0, <4>4
        <5> QED
          BY <1>0, <4>4, <5>1, ProcsFewer DEF ProcsOK
      <4> QED
        BY <2>7, <3>2, <4>1, <4>2, <4>3, <4>4, GivenBack
    <3> QED
      BY <3>1, <3>2
  <2> QED
    BY <1>2, <2>1, <2>2, <2>3, <2>4, <2>5, <2>6, <2>7, KeysAreKeys DEF RunStep
<1>3. CASE UNCHANGED challengeVars \/ \E c \in Conts : Die(c) \/ \E p \in Runs : LateTestsEnd(c, p)
  <2>1. UNCHANGED <<conts, chan, unkilled, candOf, todo>>
    BY <1>3 DEF Die, LateTestsEnd, challengeVars, phaseVars, poolVars, contVars, failVars
  <2>2. \/ procs' = procs
        \/ \E c \in Conts : procs' = [procs EXCEPT ![c] = {}]
        \/ \E c \in Conts, p \in Runs : procs' = [procs EXCEPT ![c] = @ \ {p}]
    BY <1>3 DEF Die, LateTestsEnd, challengeVars, contVars
  <2>3. procs' \in [Conts -> SUBSET Runs] /\ \A c \in Conts : procs'[c] \subseteq procs[c]
    BY <2>2 DEF ProcsOK
  <2> QED
    BY <1>1, <2>1, <2>3
<1> QED
  BY <1>2, <1>3 DEF ChallengeNext

(* Results.                                                                *)
LEMMA ResultsStep ==
  ASSUME RunsOK, OwnOK, ResultsOK, [ChallengeNext]_challengeVars
  PROVE  ResultsOK'
<1>1. ASSUME UNCHANGED readOf, timedOut \subseteq timedOut', timedOut' \subseteq Runs,
             results' \in [Conts -> Runs \cup {None}],
             \A c \in Conts : \/ results'[c] \in {None} \cup timedOut'
                              \/ \E q \in Runs : results'[c] = q /\ testOf'[q] = c
      PROVE  ResultsOK'
  BY <1>1 DEF ResultsOK, ResultsOwn
<1>2. ASSUME UNCHANGED <<readOf, timedOut, results>>,
             \A q \in Runs : testOf'[q] = testOf[q] \/ testOf[q] = None
      PROVE  ResultsOK'
  <2>1. ASSUME NEW c \in Conts
        PROVE  \/ results[c] \in {None} \cup timedOut
               \/ \E q \in Runs : results[c] = q /\ testOf'[q] = c
    <3>1. CASE results[c] \in {q \in Runs : testOf[q] = c}
      BY <1>2, <3>1, ContAssumption
    <3> QED
      BY <3>1 DEF ResultsOK
  <2> QED
    BY <1>1, <1>2, <2>1 DEF ResultsOK
<1>3. ASSUME NEW p \in Runs, NEW c \in Conts, NEW k, Release(k, c) \/ Destroy(c),
             UNCHANGED <<readOf, timedOut>>,
             \A q \in Runs : testOf'[q] = testOf[q] \/ testOf[q] = c
      PROVE  ResultsOK'
  <2>1. /\ results' \in [Conts -> Runs \cup {None}] /\ results'[c] = None
        /\ \A d \in Conts : d # c => results'[d] = results[d]
    BY <1>3, Cleared DEF ResultsOK
  <2>2. ASSUME NEW d \in Conts
        PROVE  \/ results'[d] \in {None} \cup timedOut
               \/ \E q \in Runs : results'[d] = q /\ testOf'[q] = d
    <3>1. CASE d # c
      <4>1. results[d] \in {None} \cup timedOut \cup {q \in Runs : testOf[q] = d}
        BY DEF ResultsOK
      <4> QED
        BY <1>3, <2>1, <3>1, <4>1
    <3> QED
      BY <2>1, <3>1
  <2> QED
    BY <1>1, <1>3, <2>1, <2>2 DEF ResultsOK
<1>4. ASSUME NEW p \in Runs, RunStep(p) PROVE ResultsOK'
  <2>1. CASE AcquireNetwork(p) \/ GetOrCreateCandidate(p) \/ ConnectCandidate(p) \/ ConnectTest(p)
             \/ WriteFiles(p) \/ StartServer(p) \/ ProbeServer(p) \/ StartTests(p)
    <3>1. UNCHANGED <<readOf, timedOut, results, testOf>>
      BY <2>1 DEF AcquireNetwork, GetOrCreateCandidate, Get, TakeIdle, Create, ConnectCandidate,
         ConnectTest, Connect, WriteFiles, StartServer, ProbeServer, StartTests, contVars, failVars
    <3> QED
      BY <1>2, <3>1
  <2>2. CASE GetOrCreateTest(p)
    <3>1. UNCHANGED <<readOf, timedOut, results>>
      BY <2>2 DEF GetOrCreateTest, Get, TakeIdle, Create, contVars
    <3>2. testOf[p] = None
      <4>1. Depth(p) = 3
        BY <2>2, StepAt
      <4> QED
        BY <4>1, RunHas
    <3>3. \A q \in Runs : testOf'[q] = testOf[q] \/ testOf[q] = None
      BY <1>4, <3>2, RunAlone
    <3> QED
      BY <1>2, <3>1, <3>3
  <2>3. ASSUME NEW k \in Keys, DiscardIdle(p, k) PROVE ResultsOK'
    <3>1. PICK c : c = Head(chan[k])
      OBVIOUS
    <3>2. /\ chan[k] # <<>> /\ Destroy(c) /\ chan' = [chan EXCEPT ![k] = Tail(@)]
          /\ UNCHANGED <<testOf, readOf, timedOut>>
      BY <2>3, <3>1 DEF DiscardIdle, phaseVars
    <3>3. c \in Conts
      BY <3>1, <3>2, ChanHead DEF OwnOK
    <3> QED
      BY <1>3, <1>4, <3>2, <3>3
  <2>4. CASE TestsEnd(p)
    <3>1. PICK c \in Conts : c = testOf[p]
      <4>1. Depth(p) = 6
        BY <2>4, StepAt
      <4> QED
        BY <4>1, RunHas
    <3>2. /\ results' = results \/ results' = [results EXCEPT ![c] = p]
          /\ UNCHANGED <<readOf, timedOut, testOf>>
      BY <2>4, <3>1 DEF TestsEnd, failVars
    <3>3. CASE results' = [results EXCEPT ![c] = p]
      <4>1. /\ results' \in [Conts -> Runs \cup {None}] /\ results'[c] = p
            /\ \A d \in Conts : d # c => results'[d] = results[d]
        BY <3>3 DEF ResultsOK
      <4>2. ASSUME NEW d \in Conts
            PROVE  \/ results'[d] \in {None} \cup timedOut
                   \/ \E q \in Runs : results'[d] = q /\ testOf'[q] = d
        <5>1. results[d] \in {None} \cup timedOut \cup {q \in Runs : testOf[q] = d}
          BY DEF ResultsOK
        <5> QED
          BY <3>1, <3>2, <4>1, <5>1
      <4> QED
        BY <1>1, <3>2, <4>1, <4>2 DEF ResultsOK
    <3> QED
      BY <1>2, <3>2, <3>3
  <2>5. CASE TestsTimeout(p)
    <3>1. timedOut' = timedOut \cup {p} /\ UNCHANGED <<readOf, results, testOf>>
      BY <2>5 DEF TestsTimeout, contVars
    <3>2. \A c \in Conts : \/ results[c] \in {None} \cup timedOut
                           \/ \E q \in Runs : results[c] = q /\ testOf[q] = c
      BY DEF ResultsOK
    <3> QED
      BY <1>1, <3>1, <3>2 DEF ResultsOK
  <2>6. CASE ParseResults(p)
    <3>1. PICK c \in Conts : c = testOf[p]
      <4>1. Depth(p) = 6
        BY <2>6, StepAt
      <4> QED
        BY <4>1, RunHas
    <3>2. readOf' = [readOf EXCEPT ![p] = results[c]] /\ UNCHANGED <<results, timedOut, testOf>>
      BY <2>6, <3>1 DEF ParseResults, contVars, failVars
    <3>3. results[c] \in {None, p} \cup timedOut
      <4>1. results[c] \in {None} \cup timedOut \cup {q \in Runs : testOf[q] = c}
        BY DEF ResultsOK
      <4>2. \A q \in Runs : testOf[q] = c => q = p
        BY <3>1 DEF OwnOK, UsesCont
      <4> QED
        BY <4>1, <4>2
    <3>4. readOf' \in [Runs -> Runs \cup {None}] /\ readOf'[p] = results[c]
          /\ \A q \in Runs : q # p => readOf'[q] = readOf[q]
      BY <3>2 DEF ResultsOK
    <3>5. ResultsOwn'
      BY <3>2, <3>3, <3>4 DEF ResultsOK, ResultsOwn
    <3> QED
      BY <3>2, <3>4, <3>5 DEF ResultsOK
  <2>7. CASE Cleanup(p)
    <3>0. UNCHANGED <<readOf, timedOut>>
      BY <2>7 DEF Cleanup
    <3>1. CASE todo[p] = <<>>
      BY <1>2, <2>7, <3>1 DEF Cleanup, contVars
    <3>2. CASE todo[p] # <<>>
      <4>1. CASE /\ candOf[p] \in Conts /\ Release(CandKey(p), candOf[p]) /\ UNCHANGED testOf
        BY <1>3, <3>0, <4>1
      <4>2. CASE /\ testOf[p] \in Conts /\ Release(TestKey(p), testOf[p])
        <5>1. PICK c \in Conts : c = testOf[p]
          BY <4>2
        <5>2. \A q \in Runs : testOf'[q] = testOf[q] \/ testOf[q] = c
          BY <1>4, <5>1, RunAlone
        <5> QED
          BY <1>3, <3>0, <4>2, <5>1, <5>2
      <4>3. CASE UNCHANGED <<testOf, results>>
        BY <1>2, <3>0, <4>3
      <4> QED
        BY <2>7, <3>2, <4>1, <4>2, <4>3, GivenBack
    <3> QED
      BY <3>1, <3>2
  <2> QED
    BY <1>4, <2>1, <2>2, <2>3, <2>4, <2>5, <2>6, <2>7, KeysAreKeys DEF RunStep
<1>5. CASE UNCHANGED challengeVars \/ \E c \in Conts : Die(c)
  BY <1>2, <1>5 DEF Die, challengeVars, phaseVars, contVars, failVars
<1>6. ASSUME NEW c \in Conts, NEW p \in Runs, LateTestsEnd(c, p) PROVE ResultsOK'
  <2>1. /\ results' = results \/ results' = [results EXCEPT ![c] = p]
        /\ UNCHANGED <<readOf, timedOut, testOf>> /\ p \in timedOut
    BY <1>6 DEF LateTestsEnd, phaseVars, failVars
  <2>2. CASE results' = [results EXCEPT ![c] = p]
    <3>1. /\ results' \in [Conts -> Runs \cup {None}] /\ results'[c] = p
          /\ \A d \in Conts : d # c => results'[d] = results[d]
      BY <2>2 DEF ResultsOK
    <3>2. ASSUME NEW d \in Conts
          PROVE  \/ results'[d] \in {None} \cup timedOut
                 \/ \E q \in Runs : results'[d] = q /\ testOf'[q] = d
      <4>1. results[d] \in {None} \cup timedOut \cup {q \in Runs : testOf[q] = d}
        BY DEF ResultsOK
      <4> QED
        BY <2>1, <3>1, <4>1
    <3> QED
      BY <1>1, <2>1, <3>1, <3>2 DEF ResultsOK
  <2> QED
    BY <1>2, <2>1, <2>2
<1> QED
  BY <1>4, <1>5, <1>6 DEF ChallengeNext

LEMMA WorkInitOK == ChallengeInit => WorkOK
<1> SUFFICES ASSUME ChallengeInit PROVE WorkOK
  OBVIOUS
<1>1. NetsOK /\ conn = [c \in Conts |-> {}] /\ ConnOK
  BY ChallengeInitOK DEF ChallengeInit, ConnOK
<1>2. FilesOK
  BY DEF ChallengeInit, FilesOK, Serving
<1>3. ProcsOK
  <2>1. /\ procs = [c \in Conts |-> {}] /\ unkilled = {}
        /\ chan = [k \in Keys |-> <<>>] /\ candOf = [p \in Runs |-> None]
    BY DEF ChallengeInit
  <2>2. \A k \in Keys : ToSet(chan[k]) = {}
    BY <2>1 DEF ToSet
  <2> QED
    BY <2>1, <2>2, ContAssumption DEF ProcsOK
<1>4. ResultsOK
  BY ContAssumption DEF ChallengeInit, ResultsOK, ResultsOwn
<1> QED
  BY <1>1, <1>2, <1>3, <1>4 DEF WorkOK

LEMMA WorkShows == RunsOK /\ OwnOK /\ WorkOK => GradedOnOwnWork
<1> SUFFICES ASSUME RunsOK, OwnOK, WorkOK PROVE GradedOnOwnWork
  OBVIOUS
<1>0. ASSUME NEW p \in Runs, At(p, "running")
      PROVE  Depth(p) = 6 /\ candOf[p] \in Conts /\ runNet[p] \in ContNets
  BY <1>0, RunHas, DepthsAre DEF At
<1>1. SoleCandidate
  <2> SUFFICES ASSUME NEW p \in Runs, At(p, "running"), NEW c \in conts,
                      runNet[p] \in conn[c], <<c, runNet[p]>> \notin stuck
               PROVE  c \in {candOf[p], testOf[p]}
    BY DEF SoleCandidate
  <2>1. c \in Conts
    <3>1. ChansOK /\ conts = Idle \cup {d \in Conts : \E q \in Runs : UsesCont(q, d)}
      BY DEF OwnOK
    <3>2. Idle \subseteq Conts
      BY <3>1 DEF ChansOK, Idle, ToSet
    <3> QED
      BY <3>1, <3>2
  <2>2. PICK q \in Runs : Joined(q, c, runNet[p])
    BY <2>1 DEF WorkOK, ConnOK
  <2>3. q = p
    BY <1>0, <2>2 DEF WorkOK, NetsOK, Joined
  <2> QED
    BY <2>2, <2>3 DEF Joined
<1>2. ServesOwnFiles
  BY <1>0 DEF ServesOwnFiles, WorkOK, FilesOK, ProcsOK, At, Serving
<1> QED
  BY <1>1, <1>2 DEF GradedOnOwnWork, WorkOK, ResultsOK

(* A step keeps what WorkOK says.                                          *)
LEMMA WorkStep ==
  RunsOK /\ OwnOK /\ WorkOK /\ [ChallengeNext]_challengeVars => (RunsOK /\ OwnOK /\ WorkOK)'
<1> SUFFICES ASSUME RunsOK, OwnOK, WorkOK, [ChallengeNext]_challengeVars
             PROVE  (RunsOK /\ OwnOK /\ WorkOK)'
  OBVIOUS
<1>1. RunsOK' /\ OwnOK' /\ NetsOK'
  BY ChallengeMaps DEF WorkOK, ContMapped
<1>2. ConnOK'
  BY <1>1, ConnStep DEF WorkOK
<1>3. FilesOK'
  BY FilesStep DEF WorkOK
<1>4. ProcsOK'
  BY <1>1, ProcsStep DEF WorkOK
<1>5. ResultsOK'
  BY ResultsStep DEF WorkOK
<1> QED
  BY <1>1, <1>2, <1>3, <1>4, <1>5 DEF WorkOK

(* A submission is graded on what it is: while its tests run they meet its *)
(* own server and files and no other, and the results read are those of    *)
(* its own tests (http_grader.go, ui_jsdom_grader.go, challenge_pool.go).  *)
THEOREM GradedOnOwnWorkAlways == ChallengeSpec => []GradedOnOwnWork
<1> QED
  BY WorkStep, ChallengeInitOK, WorkInitOK, WorkShows, PTL DEF ChallengeSpec

-----------------------------------------------------------------------------
(* Types of the challenge pool                                             *)

\* What runs exists, pools are of keys, and failures are counted.
AliveOK == pools \subseteq Keys /\ alive \subseteq conts /\ contFaults \in 0..MaxContFaults

(* What is idle in a pool is a container.                                  *)
LEMMA IdleInConts == ASSUME ChansOK PROVE Idle \subseteq Conts
<1> SUFFICES ASSUME NEW k \in Keys, NEW c \in ToSet(chan[k]) PROVE c \in Conts
  BY IdleIs
<1> QED
  BY DEF ChansOK, ToSet

(* A failing command is counted once.                                      *)
LEMMA FaultCounted ==
  ASSUME AliveOK, ContFault \/ UNCHANGED contFaults
  PROVE  contFaults' \in 0..MaxContFaults
BY ContAssumption DEF AliveOK, ContFault

(* The containers a phase takes from a pool, or creates, are there.        *)
LEMMA GottenAlive ==
  ASSUME AliveOK, OwnOK, NEW p \in Runs, NEW k \in Keys, NEW c \in Conts, Get(p, k, c)
  PROVE  pools' \subseteq Keys /\ alive' \subseteq conts'
<1>1. CASE TakeIdle(k)
  <2>1. /\ chan[k] # <<>> /\ alive' = alive \cup {Head(chan[k])} /\ UNCHANGED <<pools, conts>>
        /\ chan' = [chan EXCEPT ![k] = Tail(@)]
    BY <1>1 DEF TakeIdle
  <2>2. Head(chan[k]) \in Idle
    BY <2>1, ChanHead DEF OwnOK
  <2> QED
    BY <2>1, <2>2 DEF OwnOK, AliveOK
<1>2. CASE Create(k)
  BY <1>2 DEF Create, AliveOK
<1> QED
  BY <1>1, <1>2 DEF Get

(* A container that is given back runs, or goes with its process.          *)
LEMMA ReleasedAlive ==
  ASSUME AliveOK, NEW k, NEW c, Release(k, c)
  PROVE  alive' \subseteq conts'
BY DEF Release, Destroy, AliveOK

(* A step of a phase keeps what AliveOK says.                              *)
LEMMA RunAlive ==
  ASSUME AliveOK, OwnOK, NEW p \in Runs, RunStep(p)
  PROVE  AliveOK'
<1>1. CandKey(p) \in Keys /\ TestKey(p) \in Keys
  BY KeysAreKeys
<1>2. CASE GetOrCreateCandidate(p)
  <2>1. CASE ContFault /\ UNCHANGED <<pools, contVars>>
    BY <2>1, FaultCounted DEF AliveOK, contVars
  <2>2. CASE UNCHANGED contFaults /\ \E c \in Conts : Get(p, CandKey(p), c)
    BY <1>1, <2>2, FaultCounted, GottenAlive DEF AliveOK
  <2> QED
    BY <1>2, <2>1, <2>2 DEF GetOrCreateCandidate
<1>3. CASE GetOrCreateTest(p)
  <2>1. CASE ContFault /\ UNCHANGED <<pools, contVars>>
    BY <2>1, FaultCounted DEF AliveOK, contVars
  <2>2. CASE UNCHANGED contFaults /\ \E c \in Conts : Get(p, TestKey(p), c)
    BY <1>1, <2>2, FaultCounted, GottenAlive DEF AliveOK
  <2> QED
    BY <1>3, <2>1, <2>2 DEF GetOrCreateTest
<1>4. ASSUME NEW k \in Keys, DiscardIdle(p, k) PROVE AliveOK'
  <2>1. ContFault /\ Destroy(Head(chan[k])) /\ UNCHANGED pools
    BY <1>4 DEF DiscardIdle
  <2> QED
    BY <2>1, FaultCounted DEF Destroy, AliveOK
<1>5. CASE AcquireNetwork(p) \/ WriteFiles(p) \/ ProbeServer(p) \/ StartTests(p)
           \/ TestsEnd(p) \/ TestsTimeout(p) \/ ParseResults(p)
  BY <1>5 DEF AcquireNetwork, WriteFiles, ProbeServer, StartTests, TestsEnd, TestsTimeout,
              ParseResults, poolVars, contVars, failVars, AliveOK
<1>6. CASE ConnectCandidate(p) \/ ConnectTest(p)
  <2>1. (ContFault \/ UNCHANGED contFaults) /\ UNCHANGED <<pools, conts, alive>>
    BY <1>6 DEF ConnectCandidate, ConnectTest, Connect, poolVars
  <2> QED
    BY <2>1, FaultCounted DEF AliveOK
<1>7. CASE StartServer(p)
  <2>1. (ContFault \/ UNCHANGED contFaults) /\ UNCHANGED <<pools, conts, alive>>
    BY <1>7 DEF StartServer, poolVars
  <2> QED
    BY <2>1, FaultCounted DEF AliveOK
<1>8. CASE Cleanup(p)
  <2>1. CASE UNCHANGED <<contVars, contFaults>>
    BY <1>8, <2>1 DEF Cleanup, contVars, AliveOK
  <2>2. ASSUME NEW fn, Undo(p, fn) PROVE AliveOK'
    <3>1. ContFault \/ UNCHANGED contFaults
      BY <2>2 DEF Undo, Leave, Kill
    <3>2. \/ UNCHANGED <<conts, alive>>
          \/ Release(TestKey(p), testOf[p]) \/ Release(CandKey(p), candOf[p])
      BY <2>2 DEF Undo, contVars
    <3>3. alive' \subseteq conts'
      BY <3>2, ReleasedAlive DEF AliveOK
    <3> QED
      BY <1>8, <3>1, <3>3, FaultCounted DEF Cleanup, AliveOK
  <2> QED
    BY <1>8, <2>1, <2>2 DEF Cleanup
<1> QED
  BY <1>1, <1>2, <1>3, <1>4, <1>5, <1>6, <1>7, <1>8 DEF RunStep

(* What a phase has and where it is in its code, and what Docker has, stay *)
(* in their types; only what exists runs.                                  *)
THEOREM ChallengeTypesAlways == ChallengeSpec => []ChallengeTypeOK
<1> DEFINE Inv == RunsOK /\ OwnOK /\ WorkOK /\ AliveOK
<1>1. ChallengeInit => Inv
  <2>1. ChallengeInit => AliveOK
    BY ContAssumption DEF ChallengeInit, AliveOK
  <2> QED
    BY <2>1, ChallengeInitOK, WorkInitOK
<1>2. Inv /\ [ChallengeNext]_challengeVars => Inv'
  <2> SUFFICES ASSUME Inv, [ChallengeNext]_challengeVars PROVE Inv'
    OBVIOUS
  <2>1. (RunsOK /\ OwnOK /\ WorkOK)'
    BY WorkStep
  <2>2. ASSUME UNCHANGED challengeVars PROVE AliveOK'
    BY <2>2 DEF AliveOK, challengeVars, poolVars, contVars, failVars
  <2>3. ASSUME NEW c \in Conts, Die(c) \/ \E p \in Runs : LateTestsEnd(c, p) PROVE AliveOK'
    <3>1. /\ ContFault \/ UNCHANGED contFaults
          /\ alive' \subseteq alive /\ UNCHANGED <<pools, conts>>
      BY <2>3 DEF Die, LateTestsEnd, poolVars, failVars
    <3> QED
      BY <3>1, FaultCounted DEF AliveOK
  <2> QED
    BY <2>1, <2>2, <2>3, RunAlive DEF ChallengeNext
<1>3. Inv => ChallengeTypeOK
  <2> SUFFICES ASSUME Inv PROVE ChallengeTypeOK
    OBVIOUS
  <2>1. RunPcs = {"new", "candidate", "test", "join", "joinTest", "write",
                  "start", "probe", "run", "running", "parse", "cleanup", "done"}
    BY DEF RunPcs, DepthAt
  <2>2. conts \subseteq Conts
    BY IdleInConts DEF OwnOK
  <2> QED
    BY <2>1, <2>2 DEF ChallengeTypeOK, AliveOK, RunsOK, OwnOK, ChansOK, WorkOK, NetsOK, ConnOK,
       FilesOK, ProcsOK, ResultsOK
<1> QED
  BY <1>1, <1>2, <1>3, PTL DEF ChallengeSpec

=============
