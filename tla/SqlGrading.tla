---------------------------- MODULE SqlGrading ----------------------------
(***************************************************************************)
(* The SQL grader (sql_grader.go), its databases' connection pools         *)
(* (sql_pool.go) and its containers (sql_container_pool.go, docker_client. *)
(* go).  A suite runs in a container of its own, created for it and        *)
(* destroyed after it, or on a shared database; hidden tests always take a *)
(* connection to a shared database for the reference query, in a           *)
(* transaction that is rolled back.                                        *)
(***************************************************************************)
EXTENDS Naturals, FiniteSets

CONSTANTS Gradings,     \* gradings at the same time
          SqlSpecs,     \* the challenges and jobs they may be of
          SqlConts,     \* names of containers
          MaxConns,     \* SQL_POOL_MAX_CONNS
          CreateSlots,  \* capacity of createSem (3 in the code)
          MaxSqlFaults, \* bound on failing Docker commands
          NoVerdict     \* of a grading that has not ended

Dbs == {"public", "hidden"}   \* SQLPool and SQLHiddenPool
Nobody == "nobody"            \* not the name of a database or a container

ASSUME SqlAssumption ==
  /\ IsFiniteSet(Gradings)
  /\ MaxConns \in Nat \ {0} /\ CreateSlots \in Nat \ {0}
  /\ MaxSqlFaults \in Nat
  /\ \A s \in SqlSpecs :
       /\ {"isolated", "preview", "tests", "database", "setup"} = DOMAIN s
       /\ s.tests \in [Dbs -> Nat]
       /\ s.setup => s.database
  /\ Nobody \notin SqlConts

VARIABLES
  spec,    \* isolation, preview, number of tests, what the runner has
  sqlPc, suite, left, passed,
  scores,  \* the result of each suite
  won,     \* the verdict's Success
  cont,    \* the container of a grading
  lease,    \* the database it has a connection of
  free,    \* free connections of each database
  running, \* Docker: containers that exist
  dying,   \* those a goroutine is destroying
  orphans, \* those nobody will remove
  died,    \* a panic ended the process
  sqlFaults

sqlConts == <<cont, running, dying, orphans, sqlFaults>>
sqlVars == <<spec, sqlPc, suite, left, passed, scores, won, lease, free, died, sqlConts>>

Mine(g, l) == ~died /\ sqlPc[g] = l
To(g, l) == sqlPc' = [sqlPc EXCEPT ![g] = l]
SqlFault == sqlFaults < MaxSqlFaults /\ sqlFaults' = sqlFaults + 1
Unmade == SqlConts \ running
NewSql == CHOOSE c \in Unmade : TRUE

Tests(g) ==
  IF suite[g] = "hidden" /\ spec[g].preview THEN 0 ELSE spec[g].tests[suite[g]]

\* isolated tests fall back to the shared database: public ones without a
\* setup script, hidden ones never (there always is a container pool)
Isolated(g) == spec[g].isolated /\ (suite[g] = "public" => spec[g].setup)

\* the result of a suite; one without tests keeps the zero value
SuiteEnds(g, n, total, success) ==
  /\ scores' = [scores EXCEPT ![g][suite[g]] =
                  [passed |-> n, total |-> total, success |-> success]]
  /\ IF suite[g] = "public"
     THEN suite' = [suite EXCEPT ![g] = "hidden"] /\ To(g, "begin")
     ELSE To(g, "conclude") /\ UNCHANGED suite

BeginSuite(g) ==
  /\ Mine(g, "begin")
  /\ left' = [left EXCEPT ![g] = Tests(g)] /\ passed' = [passed EXCEPT ![g] = 0]
  /\ IF Tests(g) = 0
     THEN SuiteEnds(g, 0, 0, FALSE)
     ELSE /\ To(g, IF Isolated(g) THEN "slot" ELSE "test")
          /\ UNCHANGED <<suite, scores>>
  /\ UNCHANGED <<spec, won, lease, free, died, sqlConts>>

-----------------------------------------------------------------------------
(* SQLContainerPool: nothing calls WarmupChallenge, so that Acquire always *)
(* creates a container and Release destroys it in a goroutine              *)

NoContainer(g) == SuiteEnds(g, 0, 0, FALSE)

TakeSlot(g) ==
  /\ Mine(g, "slot")
  /\ \/ /\ Cardinality({h \in Gradings : sqlPc[h] \in {"create", "ready"}}) < CreateSlots
        /\ To(g, "create") /\ UNCHANGED <<suite, scores>>
     \/ NoContainer(g)
  /\ UNCHANGED <<spec, left, passed, won, lease, free, died, sqlConts>>

\* docker run -d: one that times out may leave a container nobody knows
CreateContainer(g) ==
  /\ Mine(g, "create")
  /\ \/ /\ Unmade # {} /\ To(g, "ready")
        /\ running' = running \cup {NewSql} /\ cont' = [cont EXCEPT ![g] = NewSql]
        /\ UNCHANGED <<suite, scores, orphans, sqlFaults>>
     \/ /\ SqlFault /\ NoContainer(g)
        /\ \/ UNCHANGED <<running, orphans>>
           \/ /\ Unmade # {} /\ running' = running \cup {NewSql}
              /\ orphans' = orphans \cup {NewSql}
        /\ UNCHANGED cont
  /\ UNCHANGED <<spec, left, passed, won, lease, free, died, dying>>

\* WaitForHealthy, GetContainerPort, Ping; the removal after a failure uses the
\* same context, and fails when that is what ended
AwaitReady(g) ==
  /\ Mine(g, "ready")
  /\ \/ /\ To(g, IF suite[g] = "public" THEN "setup" ELSE "script")
        /\ UNCHANGED <<suite, scores, cont, running, orphans, sqlFaults>>
     \/ /\ NoContainer(g) /\ cont' = [cont EXCEPT ![g] = Nobody]
        /\ \/ running' = running \ {cont[g]} /\ UNCHANGED <<orphans, sqlFaults>>
           \/ SqlFault /\ orphans' = orphans \cup {cont[g]} /\ UNCHANGED running
  /\ UNCHANGED <<spec, left, passed, won, lease, free, died, dying>>

\* the deferred Release
LeaveContainer(g) ==
  /\ dying' = IF cont[g] = Nobody THEN dying ELSE dying \cup {cont[g]}
  /\ cont' = [cont EXCEPT ![g] = Nobody]
  /\ UNCHANGED <<running, orphans, sqlFaults>>

DestroyContainer(c) ==
  /\ ~died /\ c \in dying
  /\ dying' = dying \ {c}
  /\ \/ running' = running \ {c} /\ UNCHANGED <<orphans, sqlFaults>>
     \/ SqlFault /\ orphans' = orphans \cup {c} /\ UNCHANGED running
  /\ UNCHANGED <<spec, sqlPc, suite, left, passed, scores, won, lease, free,
                 died, cont>>

-----------------------------------------------------------------------------
(* Tests                                                                   *)

\* the setup script of isolated public tests
SetUp(g) ==
  /\ Mine(g, "setup")
  /\ \/ /\ To(g, "test") /\ UNCHANGED <<suite, scores, sqlConts>>
     \/ SuiteEnds(g, 0, 0, FALSE) /\ LeaveContainer(g)
  /\ UNCHANGED <<spec, left, passed, won, lease, free, died>>

\* the script of isolated hidden tests is read from runner.Database without a
\* look whether there is one; nothing recovers the panic
ReadScript(g) ==
  /\ Mine(g, "script")
  /\ IF spec[g].database
     THEN To(g, "test") /\ UNCHANGED <<died, dying, orphans>>
     ELSE /\ died' = TRUE /\ orphans' = running /\ dying' = {}
          /\ UNCHANGED sqlPc
  /\ UNCHANGED <<spec, suite, left, passed, scores, won, lease, free, cont,
                 running, sqlFaults>>

TestEnds(g, pass) ==
  /\ left' = [left EXCEPT ![g] = @ - 1]
  /\ passed' = [passed EXCEPT ![g] = IF pass THEN @ + 1 ELSE @]
  /\ To(g, "test")

\* a public test in the container; what fails, or finds no file, has not passed
IsolatedPublicTest(g) ==
  /\ Mine(g, "test") /\ left[g] > 0 /\ suite[g] = "public" /\ Isolated(g)
  /\ \E pass \in BOOLEAN : TestEnds(g, pass)
  /\ UNCHANGED <<spec, suite, scores, won, lease, free, died, sqlConts>>

\* all others need a connection; before it, the container of hidden tests is
\* emptied and set up again
TakeConnection(g) ==
  /\ Mine(g, "test") /\ left[g] > 0
  /\ ~(suite[g] = "public" /\ Isolated(g))
  /\ \/ /\ free[suite[g]] > 0
        /\ free' = [free EXCEPT ![suite[g]] = @ - 1]
        /\ lease' = [lease EXCEPT ![g] = suite[g]]
        /\ To(g, "query") /\ UNCHANGED <<left, passed>>
     \/ TestEnds(g, FALSE) /\ UNCHANGED <<free, lease>>
  /\ UNCHANGED <<spec, suite, scores, won, died, sqlConts>>

GiveConnectionBack(g) ==
  /\ free' = [free EXCEPT ![lease[g]] = @ + 1]
  /\ lease' = [lease EXCEPT ![g] = Nobody]

\* Variant: a failing test keeps its connection.
TestFailsKeeping(g) ==
  /\ Mine(g, "query")
  /\ TestEnds(g, FALSE) /\ UNCHANGED <<free, lease>>
  /\ UNCHANGED <<spec, suite, scores, won, died, sqlConts>>

\* every error of the transaction, the setup and the queries ends the test, with
\* the transaction rolled back and the connection released
TestFails(g) ==
  /\ Mine(g, "query")
  /\ TestEnds(g, FALSE) /\ GiveConnectionBack(g)
  /\ UNCHANGED <<spec, suite, scores, won, died, sqlConts>>

\* public rows are compared with the challenge's, hidden ones with those of the
\* reference query
CompareRows(g) ==
  /\ Mine(g, "query")
  /\ \E same \in BOOLEAN : TestEnds(g, same)
  /\ GiveConnectionBack(g)
  /\ UNCHANGED <<spec, suite, scores, won, died, sqlConts>>

TestsDone(g) ==
  /\ Mine(g, "test") /\ left[g] = 0
  /\ SuiteEnds(g, passed[g], Tests(g), passed[g] = Tests(g))
  /\ LeaveContainer(g)
  /\ UNCHANGED <<spec, left, passed, won, lease, free, died>>

\* Variant: the hidden suite is not looked at.
WonVisible(g) == scores[g].public.success

Won(g) ==
  scores[g].public.success /\ (spec[g].preview \/ scores[g].hidden.success)

SqlConclude(g) ==
  /\ Mine(g, "conclude")
  /\ won' = [won EXCEPT ![g] = Won(g)]
  /\ To(g, "done")
  /\ UNCHANGED <<spec, suite, left, passed, scores, lease, free, died,
                 sqlConts>>

-----------------------------------------------------------------------------
SqlInit ==
  /\ spec \in [Gradings -> SqlSpecs]
  /\ sqlPc = [g \in Gradings |-> "begin"] /\ suite = [g \in Gradings |-> "public"]
  /\ left = [g \in Gradings |-> 0] /\ passed = [g \in Gradings |-> 0]
  /\ scores = [g \in Gradings |->
       [d \in Dbs |-> [passed |-> 0, total |-> 0, success |-> FALSE]]]
  /\ won = [g \in Gradings |-> NoVerdict]
  /\ cont = [g \in Gradings |-> Nobody] /\ lease = [g \in Gradings |-> Nobody]
  /\ free = [d \in Dbs |-> MaxConns]
  /\ running = {} /\ dying = {} /\ orphans = {}
  /\ died = FALSE /\ sqlFaults = 0

SqlStep(g) ==
  \/ BeginSuite(g) \/ TakeSlot(g) \/ CreateContainer(g) \/ AwaitReady(g)
  \/ SetUp(g) \/ ReadScript(g) \/ IsolatedPublicTest(g) \/ TakeConnection(g)
  \/ TestFails(g) \/ CompareRows(g) \/ TestsDone(g)
  \/ SqlConclude(g)

SqlNext ==
  \/ \E g \in Gradings : SqlStep(g)
  \/ \E c \in SqlConts : DestroyContainer(c)

SqlSpec == SqlInit /\ [][SqlNext]_sqlVars

-----------------------------------------------------------------------------
(* Properties                                                              *)

\* Every path of a test gives its connection back, so that the pool of
\* connections never dries up, and a grading keeps none between two tests.
ConnectionsReturned ==
  /\ \A d \in Dbs : free[d] + Cardinality({g \in Gradings : lease[g] = d}) = MaxConns
  /\ \A g \in Gradings : lease[g] # Nobody => sqlPc[g] = "query"

\* Every container is with a grading, being destroyed, or left behind by a
\* command that failed or by a process that died.
SqlContainersAccounted ==
  \A c \in running : c \in dying \cup orphans \/ \E g \in Gradings : cont[g] = c

\* Nothing that a grading of SQL takes is forgotten, containers or connections.
SqlResourcesKept == ConnectionsReturned /\ SqlContainersAccounted

\* A final grading succeeds only if both suites have tests and all of them
\* passed, a preview if the public suite has; whatever could not be acquired,
\* set up or run has not passed.  (Unlike in the other graders, an empty suite
\* fails a grading.)
SqlSuccessExplained ==
  \A g \in Gradings : won[g] # NoVerdict =>
    LET full(d) == scores[g][d].passed = spec[g].tests[d] /\ spec[g].tests[d] > 0
    IN  won[g] <=> (full("public") /\ (spec[g].preview \/ full("hidden")))

\* A grading of SQL forgets nothing it took, and claims no success that its
\* suites do not show.
SqlExplained == SqlResourcesKept /\ SqlSuccessExplained
=============================================================================
