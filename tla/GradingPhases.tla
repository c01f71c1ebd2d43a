--------------------------- MODULE GradingPhases ---------------------------
(***************************************************************************)
(* One grading of a challenge that is tested in containers: the phases of  *)
(* the http, ui_jsdom and playwright graders, with or without containers   *)
(* of the challenge pool, what a phase returns from each of its steps, the *)
(* verdict, and what of it is stored and shown.                            *)
(*                                                                         *)
(* A phase is its sequence of steps; every step may fail (a command, a     *)
(* timeout, the cancelled context) and then ends the phase with a result   *)
(* of its own.  Resources are the subject of NetworkPool and ChallengePool.*)
(***************************************************************************)
EXTENDS Naturals, Sequences, FiniteSets

CONSTANTS MaxTests, \* bound on the tests of a report
          NoResult  \* where there is no result or report yet

ASSUME GradingPhasesAssumption ==
  /\ MaxTests \in Nat \ {0}
  /\ NoResult \notin [passed : Nat, total : Nat, success : BOOLEAN]
  /\ NoResult \notin [tests : Nat, failed : Nat, skipped : Nat, broken : BOOLEAN]

Suites == {"public", "hidden"}

\* the order of the steps; "pooled" are those with warm containers
StepsOf ==
  [http |-> <<"files", "harness", "config", "build", "network", "run", "alive",
              "install", "tests", "report">>,
   jsdom |-> <<"files", "config", "build", "network", "run", "health", "reset",
               "harness", "install", "tests", "report">>,
   playwright |-> <<"files", "harness", "config", "build", "install", "network",
                    "run", "health", "tests", "report">>,
   pooledHttp |-> <<"network", "candidate", "tester", "connect", "harness",
                    "files", "run", "tests", "report">>,
   pooledJsdom |-> <<"network", "candidate", "tester", "connect", "files", "run",
                     "health", "reset", "harness", "tests", "report">>]

Modes == DOMAIN StepsOf
Jest == {"http", "pooledHttp"}

\* what jest's JSON or the JUnit report says; "broken": a file of tests that
\* could not be loaded
Reports == {r \in [tests : 0..MaxTests, failed : 0..MaxTests,
                   skipped : 0..MaxTests, broken : BOOLEAN] :
              r.failed + r.skipped =< r.tests}

VARIABLES
  job,      \* mode, preview, suites with tests, what is wrong with the files
  step,     \* index of the step each phase is in; 0: not begun
  outcome,  \* what a phase returned
  report,   \* the report a phase read
  verdict,  \* the GradingResult
  row,      \* the columns of exam_attempts
  shown     \* the result that is published

phasesVars == <<job, step, outcome, report, verdict, row, shown>>

Result(passed, total, success) ==
  [passed |-> passed, total |-> total, success |-> success]

\* the result of a phase whose suite has no tests; the parallel phases of
\* runPooledUIJsdomParallel leave the zero value
NoTests == Result(0, 0, job.mode # "pooledJsdom")

\* Variant: a suite that did not run counts nothing.
FailTotalNone(mode, s, flaw) == 0

\* playwright counts no test from the build on; the others count one
FailTotal(mode, s, flaw) ==
  IF \/ s = "files" /\ flaw = "files"
     \/ mode = "playwright"
          /\ s \in {"build", "install", "run", "health", "tests", "report"}
  THEN 0 ELSE 1

\* parseJestResults, and parseJUnit with what the callers make of it
ReportResult(mode, r) ==
  Result(r.tests - r.failed - r.skipped, r.tests,
         r.failed = 0 /\ (mode \in Jest => ~r.broken))

Steps == StepsOf[job.mode]
InPhase(s) == step[s] \in DOMAIN Steps /\ outcome[s] = NoResult

-----------------------------------------------------------------------------
\* a phase runs after the other one, but for the two of ui_jsdom in the pool
Begin(s) ==
  /\ step[s] = 0 /\ outcome[s] = NoResult
  /\ s = "hidden" /\ job.mode # "pooledJsdom" => outcome["public"] # NoResult
  /\ IF s \in job.suites
     THEN step' = [step EXCEPT ![s] = 1] /\ UNCHANGED outcome
     ELSE outcome' = [outcome EXCEPT ![s] = NoTests] /\ UNCHANGED step
  /\ UNCHANGED <<job, report, verdict, row, shown>>

\* the same files and configuration fail in both phases
Passes(s) ==
  /\ InPhase(s) /\ Steps[step[s]] # "report" /\ Steps[step[s]] # job.flaw
  /\ step' = [step EXCEPT ![s] = @ + 1]
  /\ UNCHANGED <<job, outcome, report, verdict, row, shown>>

Fails(s) ==
  /\ InPhase(s)
  /\ Steps[step[s]] = "config" => job.flaw = "config"
  /\ outcome' = [outcome EXCEPT
       ![s] = Result(0, FailTotal(job.mode, Steps[step[s]], job.flaw), FALSE)]
  /\ UNCHANGED <<job, step, report, verdict, row, shown>>

ReadReport(s) ==
  /\ InPhase(s) /\ Steps[step[s]] = "report"
  /\ \E r \in Reports :
       /\ job.mode \notin Jest => (r.broken => r.failed > 0)
       /\ report' = [report EXCEPT ![s] = r]
       /\ outcome' = [outcome EXCEPT ![s] = ReportResult(job.mode, r)]
  /\ UNCHANGED <<job, step, verdict, row, shown>>

\* Variant: one suite is enough.
VerdictEither(pub, hid) ==
  [publicScore |-> pub.passed, hiddenScore |-> hid.passed,
   totalPublic |-> pub.total, totalHidden |-> hid.total,
   success |-> pub.success \/ hid.success]

Verdict(pub, hid) ==
  [publicScore |-> pub.passed, hiddenScore |-> hid.passed,
   totalPublic |-> pub.total, totalHidden |-> hid.total,
   success |-> pub.success /\ hid.success]

Conclude ==
  /\ verdict = NoResult /\ \A s \in Suites : outcome[s] # NoResult
  /\ verdict' = Verdict(outcome["public"], outcome["hidden"])
  /\ UNCHANGED <<job, step, outcome, report, row, shown>>

\* UpdateAttemptResults and statusForResult; a preview hides the hidden score
Store ==
  /\ verdict # NoResult /\ shown = NoResult
  /\ IF job.preview
     THEN /\ row' = [row EXCEPT !.publicScore = verdict.publicScore,
                                !.totalPublic = verdict.totalPublic]
          /\ shown' = [verdict EXCEPT !.hiddenScore = 0, !.totalHidden = 0]
     ELSE /\ row' = [publicScore |-> verdict.publicScore,
                     hiddenScore |-> verdict.hiddenScore,
                     totalPublic |-> verdict.totalPublic,
                     totalHidden |-> verdict.totalHidden,
                     status |-> IF verdict.success THEN "COMPLETED" ELSE "FAILED"]
          /\ shown' = verdict
  /\ UNCHANGED <<job, step, outcome, report, verdict>>

\* the API gives a preview no hidden tests
PhasesInit ==
  /\ \E mode \in Modes, preview \in BOOLEAN, suites \in SUBSET Suites,
        flaw \in {"none", "files", "config"} :
       /\ preview => "hidden" \notin suites
       /\ job = [mode |-> mode, preview |-> preview, suites |-> suites, flaw |-> flaw]
  /\ step = [s \in Suites |-> 0] /\ outcome = [s \in Suites |-> NoResult]
  /\ report = [s \in Suites |-> NoResult]
  /\ verdict = NoResult /\ shown = NoResult
  /\ row = [publicScore |-> 0, hiddenScore |-> 0, totalPublic |-> 0,
            totalHidden |-> 0, status |-> "IN_PROGRESS"]

PhasesNext ==
  \/ \E s \in Suites : Begin(s) \/ Passes(s) \/ Fails(s) \/ ReadReport(s)
  \/ Conclude \/ Store

PhasesSpec == PhasesInit /\ [][PhasesNext]_phasesVars

-----------------------------------------------------------------------------
(* Properties                                                              *)

NoFailure(s) ==
  report[s] # NoResult /\ report[s].failed = 0 /\ (job.mode \in Jest => ~report[s].broken)

\* Success is claimed exactly when every suite with tests was run to its report
\* and the report has no failure, whichever steps failed and whichever suites
\* are empty -- but ui_jsdom in pooled containers claims it only with tests in
\* both suites, so that no preview succeeds and no challenge without hidden
\* tests completes.
SuccessExplained ==
  verdict # NoResult =>
    (verdict.success <=>
       /\ \A s \in job.suites : NoFailure(s)
       /\ job.mode = "pooledJsdom" => job.suites = Suites)

\* The result page divides the tests passed by the tests counted.  It can only
\* show 100 % if each suite with tests was run to its report: a suite that could
\* not be run counts one failed test.  Playwright is the exception: from the
\* build on it counts none, and hidden tests that did not run leave the public
\* ones alone in the percentage.
FullMarksEarned ==
  LET r == row IN
  /\ r.status \in {"COMPLETED", "FAILED"}
  /\ r.totalPublic + r.totalHidden > 0
  /\ r.publicScore + r.hiddenScore = r.totalPublic + r.totalHidden
  /\ job.mode # "playwright"
  => \A s \in job.suites : report[s] # NoResult

\* What a grading claims of success is what its suites and reports say, full
\* marks included.
GradesExplained == SuccessExplained /\ FullMarksEarned
=============================================================================
