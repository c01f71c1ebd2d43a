--------------------------- MODULE MCGraderPools ---------------------------
(***************************************************************************)
(* Small instances of the components a grader grades with.  They share no  *)
(* state, so that their product would only multiply the states: a          *)
(* behaviour is one of the component "part", and the others stay where     *)
(* they start.                                                             *)
(***************************************************************************)
EXTENDS NetworkPool, ChallengePool, ContainerPool, SqlGrading, GradingPhases,
        SqlAnswers

CONSTANTS r1, r2, n1  \* model values

VARIABLE part  \* the component that runs

Parts == {"network", "challenge", "container", "sql", "phases", "scripts"}
graderVars == <<part, netVars, challengeVars, boxVars, sqlVars, phasesVars, scriptVars>>

\* isolation, preview, numbers of public and hidden tests, a shared database,
\* a setup script
SqlCase(i, p, a, b, d, s) ==
  [isolated |-> i, preview |-> p, tests |-> [public |-> a, hidden |-> b],
   database |-> d, setup |-> s]

\* With and without a container, a script and a database; a preview; two hidden
\* tests, none, no public test.
MCSqlSpecs ==
  {SqlCase(TRUE, FALSE, 1, 1, TRUE, TRUE), SqlCase(TRUE, FALSE, 1, 1, FALSE, FALSE),
   SqlCase(FALSE, FALSE, 1, 2, FALSE, FALSE), SqlCase(FALSE, TRUE, 1, 1, FALSE, FALSE),
   SqlCase(TRUE, FALSE, 1, 0, TRUE, TRUE), SqlCase(FALSE, FALSE, 0, 1, FALSE, FALSE)}

\* No answer; readings and changes alone; transactions that end both ways, that
\* fail, and with a statement on either side.
MCSqlScripts ==
  {<<>>, <<"select">>, <<"insert">>, <<"bad">>, <<"insert", "select">>,
   <<"begin", "insert", "commit">>, <<"begin", "insert", "bad">>,
   <<"begin", "insert", "commit", "select">>, <<"begin", "insert", "rollback", "select">>}

GraderInit ==
  /\ part \in Parts
  /\ NetInit /\ ChallengeInit /\ BoxInit /\ SqlInit /\ PhasesInit
  /\ \/ part = "sql"
     \/ \A g \in Gradings : spec[g] = CHOOSE s \in SqlSpecs : TRUE
  /\ \/ part = "phases"
     \/ job = [mode |-> "http", preview |-> FALSE, suites |-> Suites, flaw |-> "none"]
  \* two phases that share containers, or one of each kind that share a network
  /\ \/ jsdom = Runs /\ freeNets = ContNets
     \/ part = "challenge" /\ jsdom = {r2} /\ freeNets = {n1}
  /\ part = "scripts" \/ (text = <<>> /\ scripts = <<>> /\ suiteKind = "public")
  /\ ScriptsInit

GraderNext ==
  \/ /\ part = "network" /\ NetNext
     /\ UNCHANGED <<part, challengeVars, boxVars, sqlVars, phasesVars, scriptVars>>
  \/ /\ part = "challenge" /\ ChallengeNext
     /\ UNCHANGED <<part, netVars, boxVars, sqlVars, phasesVars, scriptVars>>
  \/ /\ part = "container" /\ BoxNext
     /\ UNCHANGED <<part, netVars, challengeVars, sqlVars, phasesVars, scriptVars>>
  \/ /\ part = "sql" /\ SqlNext
     /\ UNCHANGED <<part, netVars, challengeVars, boxVars, phasesVars, scriptVars>>
  \/ /\ part = "phases" /\ PhasesNext
     /\ UNCHANGED <<part, netVars, challengeVars, boxVars, sqlVars, scriptVars>>
  \/ /\ part = "scripts" /\ (SplitNext \/ SuiteNext)
     /\ UNCHANGED <<part, netVars, challengeVars, boxVars, sqlVars, phasesVars>>

\* NetFairness, of a run of the network pool; the others are checked for safety
GraderFairness ==
  /\ \A p \in Phases : WF_netVars(part = "network" /\ GoesOn(p))
  /\ WF_netVars(part = "network" /\ ShutdownStep)

GraderSpec == GraderInit /\ [][GraderNext]_graderVars /\ GraderFairness

-----------------------------------------------------------------------------
(* Properties of several components, taken together                        *)

\* Types, and where each caller may be in its code.
GraderTypeOK ==
  (part = "network" => NetTypeOK) /\ (part = "challenge" => ChallengeTypeOK)

\* Containers pass from one user to the next only through their pool.
ContainersRefine == ChallengePoolRefines /\ ContainerPoolRefines
=============================================================================
