--------------------------- MODULE ChallengePool ---------------------------
(***************************************************************************)
(* Warm containers that are used again: internal/pool/challenge_pool.go,   *)
(* and the phases that run in them, runPooledHTTPPhase (http_grader.go)    *)
(* and runPooledUIJsdomPhase, two at once (ui_jsdom_grader.go).            *)
(*                                                                         *)
(* A phase takes a network, a candidate's and a test container, connects   *)
(* both containers, starts the submission in the one and runs the tests in *)
(* the other.  What it must undo is a stack of functions that the cleanup  *)
(* pool runs from the last to the first.  Networks come from NetworkPool,  *)
(* of which only what PooledResource promises is used here.                *)
(***************************************************************************)
EXTENDS Naturals, FiniteSets, Sequences, SequencesExt

CONSTANTS Runs,       \* phases of gradings of one challenge, each runs once
          HiddenRuns, \* those with hidden tests
          Conts,      \* names of containers
          ContNets,   \* networks the network pool has for these phases
          PoolSize,   \* maxSize of a pool (10 in the code)
          MaxContFaults \* bound on failing Docker commands

None == "none"  \* no container, network or submission

ASSUME ContAssumption ==
  /\ PoolSize \in Nat \ {0} /\ MaxContFaults \in Nat
  /\ IsFiniteSet(Runs) /\ HiddenRuns \subseteq Runs
  /\ None \notin Conts \cup ContNets

VARIABLES
  jsdom,    \* phases of the ui_jsdom grader; the others are http
  pools,    \* keys that have a pool
  chan,     \* idle containers of each pool
  runPc,    \* control of each phase
  candOf, testOf, runNet, \* what a phase has
  todo,     \* its stack of cleanup functions
  readOf,  \* whose results it read
  freeNets, \* networks no phase has
  conts,    \* Docker: containers that exist
  alive,    \* their first process runs
  conn,     \* networks of each container
  files,    \* whose submission is in the workspace
  results,  \* whose results file is in the workspace
  procs,    \* phases whose processes run in a container
  stuck,    \* connections that Docker kept although a command failed
  unkilled, timedOut, \* phases whose processes were not killed
  contFaults

phaseVars == <<runPc, candOf, testOf, runNet, todo, readOf>>
poolVars == <<pools, chan, freeNets>>
contVars == <<conts, alive, conn, files, results, procs>>
failVars == <<stuck, unkilled, timedOut, contFaults>>
challengeVars == <<jsdom, phaseVars, poolVars, contVars, failVars>>

\* PoolKey: what a container is for.  The harness of http tests names the kind
\* of tests, so its hash differs; that of ui_jsdom does not.
CandKey(p) == <<"candidate", p \in jsdom>>
TestKey(p) == <<"test", p \in jsdom, p \in HiddenRuns \ jsdom>>
Keys == ({"candidate"} \X BOOLEAN) \cup ({"test"} \X BOOLEAN \X BOOLEAN)

Idle == UNION {ToSet(chan[k]) : k \in Keys}
Unborn == Conts \ conts
NewCont == CHOOSE c \in Unborn : TRUE
ContFault == contFaults < MaxContFaults /\ contFaults' = contFaults + 1

At(p, l) == runPc[p] = l
GoOn(p, l) == runPc' = [runPc EXCEPT ![p] = l]
Push(p, fns) == todo' = [todo EXCEPT ![p] = @ \o fns]

\* an error returns from the phase; the deferred function submits the stack
Return(p) == GoOn(p, "cleanup")

-----------------------------------------------------------------------------
(* Containers                                                              *)

\* a new container, with its dependencies installed
Create(k) ==
  /\ Unborn # {}
  /\ conts' = conts \cup {NewCont} /\ alive' = alive \cup {NewCont}
  /\ pools' = pools \cup {k}
  /\ UNCHANGED <<chan, conn, files, results, procs>>

\* Variant: the state of the container is not looked at again.
DestroyAlive(c) ==
  /\ conts' = conts \ {c} /\ UNCHANGED alive
  /\ conn' = [conn EXCEPT ![c] = {}] /\ procs' = [procs EXCEPT ![c] = {}]
  /\ files' = [files EXCEPT ![c] = None] /\ results' = [results EXCEPT ![c] = None]

\* docker rm -f
Destroy(c) ==
  /\ conts' = conts \ {c} /\ alive' = alive \ {c}
  /\ conn' = [conn EXCEPT ![c] = {}] /\ procs' = [procs EXCEPT ![c] = {}]
  /\ files' = [files EXCEPT ![c] = None] /\ results' = [results EXCEPT ![c] = None]

\* Variant: the container stays in the channel.
TakeIdleCopies(k) ==
  /\ k \in pools /\ chan[k] # <<>>
  /\ alive' = alive \cup {Head(chan[k])}
  /\ UNCHANGED <<pools, chan, conts, conn, files, results, procs>>

\* the pool gives a container: a stopped one is started again
TakeIdle(k) ==
  /\ k \in pools /\ chan[k] # <<>>
  /\ chan' = [chan EXCEPT ![k] = Tail(@)]
  /\ alive' = alive \cup {Head(chan[k])}
  /\ UNCHANGED <<pools, conts, conn, files, results, procs>>

\* AcquireForChallenge: what cannot be started is destroyed, and the caller
\* creates another one
DiscardIdle(p, k) ==
  /\ At(p, IF k = CandKey(p) THEN "candidate" ELSE "test")
  /\ k \in pools /\ chan[k] # <<>> /\ Head(chan[k]) \notin alive
  /\ ContFault
  /\ chan' = [chan EXCEPT ![k] = Tail(@)]
  /\ Destroy(Head(chan[k]))
  /\ UNCHANGED <<phaseVars, pools, freeNets, stuck, unkilled, timedOut>>

\* GetOrCreateCandidate and GetOrCreateTest: from the pool; without a pool, or
\* after 5 s without a container, a new one
Get(p, k, c) ==
  \/ TakeIdle(k) /\ c = Head(chan[k])
  \/ (k \notin pools \/ chan[k] = <<>>) /\ Create(k) /\ c = NewCont

\* Variant: a full pool forgets the container.
ReleaseForgets(k, c) ==
  IF Len(chan[k]) < PoolSize
  THEN /\ files' = [files EXCEPT ![c] = None]
       /\ results' = [results EXCEPT ![c] = None]
       /\ chan' = [chan EXCEPT ![k] = Append(@, c)]
       /\ UNCHANGED <<conts, alive, conn, procs>>
  ELSE UNCHANGED <<conts, alive, conn, files, results, procs, chan>>

\* ReleaseForChallenge: the workspace is reset, whatever happens to the errors
Release(k, c) ==
  IF Len(chan[k]) < PoolSize
  THEN /\ files' = [files EXCEPT ![c] = None]
       /\ results' = [results EXCEPT ![c] = None]
       /\ chan' = [chan EXCEPT ![k] = Append(@, c)]
       /\ UNCHANGED <<conts, alive, conn, procs>>
  ELSE Destroy(c) /\ UNCHANGED chan

-----------------------------------------------------------------------------
(* A phase                                                                 *)

AcquireNetwork(p) ==
  /\ At(p, "new")
  /\ IF freeNets = {}
     THEN Return(p) /\ UNCHANGED <<runNet, freeNets, todo>>
     ELSE \E n \in freeNets :
            /\ runNet' = [runNet EXCEPT ![p] = n] /\ freeNets' = freeNets \ {n}
            /\ Push(p, <<"network">>) /\ GoOn(p, "candidate")
  /\ UNCHANGED <<candOf, testOf, readOf, pools, chan, contVars, failVars>>

GetOrCreateCandidate(p) ==
  /\ At(p, "candidate")
  /\ \/ /\ \E c \in Conts :
             Get(p, CandKey(p), c) /\ candOf' = [candOf EXCEPT ![p] = c]
        /\ Push(p, <<"candidate", "kill">>) /\ GoOn(p, "test")
        /\ UNCHANGED contFaults
     \/ /\ ContFault /\ Return(p)
        /\ UNCHANGED <<candOf, todo, pools, chan, contVars>>
  /\ UNCHANGED <<testOf, runNet, readOf, freeNets, stuck, unkilled, timedOut>>

GetOrCreateTest(p) ==
  /\ At(p, "test")
  /\ \/ /\ \E c \in Conts :
             Get(p, TestKey(p), c) /\ testOf' = [testOf EXCEPT ![p] = c]
        /\ Push(p, <<"test">>) /\ GoOn(p, "join")
        /\ UNCHANGED contFaults
     \/ /\ ContFault /\ Return(p)
        /\ UNCHANGED <<testOf, todo, pools, chan, contVars>>
  /\ UNCHANGED <<candOf, runNet, readOf, freeNets, stuck, unkilled, timedOut>>

\* docker network connect: refused when the container is already on the network;
\* a command that times out may have connected it, and nothing disconnects it
Connect(p, c, fn, next) ==
  LET n == runNet[p]
  IN  /\ \/ /\ n \notin conn[c]
            /\ conn' = [conn EXCEPT ![c] = @ \cup {n}]
            /\ Push(p, <<fn>>) /\ GoOn(p, next)
            /\ UNCHANGED <<stuck, contFaults>>
         \/ /\ n \in conn[c] /\ Return(p)
            /\ UNCHANGED <<conn, todo, stuck, contFaults>>
         \/ /\ n \notin conn[c] /\ ContFault /\ Return(p)
            /\ \/ UNCHANGED <<conn, stuck>>
               \/ /\ conn' = [conn EXCEPT ![c] = @ \cup {n}]
                  /\ stuck' = stuck \cup {<<c, n>>}
            /\ UNCHANGED todo
      /\ UNCHANGED <<candOf, testOf, runNet, readOf, poolVars, conts, alive,
                     files, results, procs, unkilled, timedOut>>

ConnectCandidate(p) == At(p, "join") /\ Connect(p, candOf[p], "leave", "joinTest")
ConnectTest(p) == At(p, "joinTest") /\ Connect(p, testOf[p], "leaveTest", "write")

\* the submission into the candidate's workspace; no valid file ends the phase
WriteFiles(p) ==
  /\ At(p, "write")
  /\ \/ files' = [files EXCEPT ![candOf[p]] = p] /\ GoOn(p, "start")
     \/ Return(p) /\ UNCHANGED files
  /\ UNCHANGED <<candOf, testOf, runNet, todo, readOf, poolVars, conts, alive,
                 conn, results, procs, failVars>>

\* docker exec -d of the server
StartServer(p) ==
  /\ At(p, "start")
  /\ \/ /\ candOf[p] \in alive
        /\ procs' = [procs EXCEPT ![candOf[p]] = @ \cup {p}]
        /\ GoOn(p, IF p \in jsdom THEN "probe" ELSE "run")
        /\ UNCHANGED contFaults
     \/ /\ \/ candOf[p] \notin alive /\ UNCHANGED contFaults
           \/ ContFault
        /\ Return(p) /\ UNCHANGED procs
  /\ UNCHANGED <<candOf, testOf, runNet, todo, readOf, poolVars, conts, alive,
                 conn, files, results, stuck, unkilled, timedOut>>

\* only ui_jsdom waits for the server and resets it before the tests
ProbeServer(p) ==
  /\ At(p, "probe")
  /\ \/ candOf[p] \in alive /\ GoOn(p, "run")
     \/ Return(p)
  /\ UNCHANGED <<candOf, testOf, runNet, todo, readOf, poolVars, contVars,
                 failVars>>

StartTests(p) ==
  /\ At(p, "run")
  /\ IF testOf[p] \in alive
     THEN procs' = [procs EXCEPT ![testOf[p]] = @ \cup {p}] /\ GoOn(p, "running")
     ELSE Return(p) /\ UNCHANGED procs
  /\ UNCHANGED <<candOf, testOf, runNet, todo, readOf, poolVars, conts, alive,
                 conn, files, results, failVars>>

\* "|| true": a run that wrote no results is not an error of the command
TestsEnd(p) ==
  /\ At(p, "running")
  /\ procs' = [procs EXCEPT ![testOf[p]] = @ \ {p}]
  /\ \/ p \in procs[testOf[p]] /\ results' = [results EXCEPT ![testOf[p]] = p]
     \/ UNCHANGED results
  /\ GoOn(p, "parse")
  /\ UNCHANGED <<candOf, testOf, runNet, todo, readOf, poolVars, conts, alive,
                 conn, files, failVars>>

\* the timeout ends the docker command, not the tests in the container
TestsTimeout(p) ==
  /\ At(p, "running")
  /\ timedOut' = timedOut \cup {p}
  /\ Return(p)
  /\ UNCHANGED <<candOf, testOf, runNet, todo, readOf, poolVars, contVars,
                 stuck, unkilled, contFaults>>

ParseResults(p) ==
  /\ At(p, "parse")
  /\ readOf' = [readOf EXCEPT ![p] = results[testOf[p]]]
  /\ Return(p)
  /\ UNCHANGED <<candOf, testOf, runNet, todo, poolVars, contVars, failVars>>

-----------------------------------------------------------------------------
(* The stack of a phase, from the last function to the first               *)

Leave(c, n) ==
  \/ conn' = [conn EXCEPT ![c] = @ \ {n}] /\ UNCHANGED <<stuck, contFaults>>
  \/ ContFault /\ stuck' = stuck \cup {<<c, n>>} /\ UNCHANGED conn

\* Variant: the server is left running.
KillNothing(c) == UNCHANGED <<procs, unkilled, contFaults>>

\* every process but the first
Kill(c) ==
  \/ procs' = [procs EXCEPT ![c] = {}] /\ UNCHANGED <<unkilled, contFaults>>
  \/ ContFault /\ unkilled' = unkilled \cup procs[c] /\ UNCHANGED procs

NextFunction(fns) == Last(fns)

Undo(p, fn) ==
  \/ /\ fn = "leaveTest" /\ Leave(testOf[p], runNet[p])
     /\ UNCHANGED <<candOf, testOf, runNet, chan, freeNets, conts, alive, files,
                    results, procs, unkilled>>
  \/ /\ fn = "leave" /\ Leave(candOf[p], runNet[p])
     /\ UNCHANGED <<candOf, testOf, runNet, chan, freeNets, conts, alive, files,
                    results, procs, unkilled>>
  \/ /\ fn = "test" /\ Release(TestKey(p), testOf[p])
     /\ testOf' = [testOf EXCEPT ![p] = None]
     /\ UNCHANGED <<candOf, runNet, freeNets, stuck, unkilled, contFaults>>
  \/ /\ fn = "kill" /\ Kill(candOf[p])
     /\ UNCHANGED <<candOf, testOf, runNet, chan, freeNets, conts, alive, conn,
                    files, results, stuck>>
  \/ /\ fn = "candidate" /\ Release(CandKey(p), candOf[p])
     /\ candOf' = [candOf EXCEPT ![p] = None]
     /\ UNCHANGED <<testOf, runNet, freeNets, stuck, unkilled, contFaults>>
  \/ /\ fn = "network"
     /\ freeNets' = freeNets \cup {runNet[p]}
     /\ runNet' = [runNet EXCEPT ![p] = None]
     /\ UNCHANGED <<candOf, testOf, chan, contVars, stuck, unkilled, contFaults>>

Cleanup(p) ==
  /\ At(p, "cleanup")
  /\ IF todo[p] = <<>>
     THEN /\ GoOn(p, "done")
          /\ UNCHANGED <<candOf, testOf, runNet, todo, chan, freeNets, contVars,
                         stuck, unkilled, contFaults>>
     ELSE /\ Undo(p, NextFunction(todo[p]))
          /\ todo' = [todo EXCEPT ![p] = Front(@)]
          /\ UNCHANGED runPc
  /\ UNCHANGED <<readOf, pools, timedOut>>

-----------------------------------------------------------------------------
(* What happens in containers                                              *)

\* tests that outlived their phase end, and may write their results first
LateTestsEnd(c, p) ==
  /\ p \in procs[c] /\ p \in timedOut /\ candOf[p] # c
  /\ procs' = [procs EXCEPT ![c] = @ \ {p}]
  /\ \/ results' = [results EXCEPT ![c] = p]
     \/ UNCHANGED results
  /\ UNCHANGED <<phaseVars, poolVars, conts, alive, conn, files, failVars>>

\* the first process ends: memory limit, restart of Docker
Die(c) ==
  /\ c \in alive /\ ContFault
  /\ alive' = alive \ {c} /\ procs' = [procs EXCEPT ![c] = {}]
  /\ UNCHANGED <<phaseVars, poolVars, conts, conn, files, results, stuck,
                 unkilled, timedOut>>

-----------------------------------------------------------------------------
ChallengeInit ==
  /\ jsdom \in SUBSET Runs /\ freeNets \in SUBSET ContNets
  /\ pools = {} /\ chan = [k \in Keys |-> <<>>]
  /\ runPc = [p \in Runs |-> "new"]
  /\ candOf = [p \in Runs |-> None] /\ testOf = [p \in Runs |-> None]
  /\ runNet = [p \in Runs |-> None]
  /\ todo = [p \in Runs |-> <<>>] /\ readOf = [p \in Runs |-> None]
  /\ conts = {} /\ alive = {} /\ conn = [c \in Conts |-> {}]
  /\ files = [c \in Conts |-> None] /\ results = [c \in Conts |-> None]
  /\ procs = [c \in Conts |-> {}]
  /\ stuck = {} /\ unkilled = {} /\ timedOut = {} /\ contFaults = 0

RunStep(p) ==
  \/ AcquireNetwork(p) \/ GetOrCreateCandidate(p) \/ GetOrCreateTest(p)
  \/ DiscardIdle(p, CandKey(p)) \/ DiscardIdle(p, TestKey(p))
  \/ ConnectCandidate(p) \/ ConnectTest(p)
  \/ WriteFiles(p) \/ StartServer(p) \/ ProbeServer(p)
  \/ StartTests(p) \/ TestsEnd(p) \/ TestsTimeout(p) \/ ParseResults(p)
  \/ Cleanup(p)

ChallengeNext ==
  /\ \/ \E p \in Runs : RunStep(p)
     \/ \E c \in Conts : Die(c) \/ \E p \in Runs : LateTestsEnd(c, p)
  /\ UNCHANGED jsdom

ChallengeSpec == ChallengeInit /\ [][ChallengeNext]_challengeVars

-----------------------------------------------------------------------------
(* Properties                                                              *)

\* Types, and where a phase may be in its code.
ChallengeTypeOK ==
  /\ pools \subseteq Keys /\ chan \in [Keys -> Seq(Conts)]
  /\ runPc \in [Runs -> {"new", "candidate", "test", "join", "joinTest", "write",
                         "start", "probe", "run", "running", "parse", "cleanup",
                         "done"}]
  /\ candOf \in [Runs -> Conts \cup {None}] /\ testOf \in [Runs -> Conts \cup {None}]
  /\ runNet \in [Runs -> ContNets \cup {None}] /\ freeNets \subseteq ContNets
  /\ alive \subseteq conts /\ conts \subseteq Conts
  /\ conn \in [Conts -> SUBSET ContNets] /\ procs \in [Conts -> SUBSET Runs]
  /\ files \in [Conts -> Runs \cup {None}] /\ results \in [Conts -> Runs \cup {None}]
  /\ readOf \in [Runs -> Runs \cup {None}]
  /\ contFaults \in 0..MaxContFaults

ContUsers == [c \in Conts |-> {p \in Runs : c \in {candOf[p], testOf[p]}}]

Shared == INSTANCE PooledResource
            WITH Resource <- Conts, User <- Runs, idle <- Idle, users <- ContUsers

\* The containers form a pool: one passes from a phase to the next only by
\* ReleaseForChallenge and the channel (challenge_pool.go:701).
ChallengePoolRefines == Shared!PoolSpec

\* While the tests of a phase run, the alias "candidate" on its network is its
\* own container: the containers of earlier phases left the network before it
\* went back (http_grader.go:828-836).  Left out are connections that a failed
\* command kept, which nothing undoes.
SoleCandidate ==
  \A p \in Runs : At(p, "running") =>
    \A c \in conts :
      runNet[p] \in conn[c] /\ <<c, runNet[p]>> \notin stuck
        => c \in {candOf[p], testOf[p]}

\* The tests of a phase meet its own submission, and no server that an earlier
\* submission left in the container, unless killing it failed.
ServesOwnFiles ==
  \A p \in Runs : At(p, "running") =>
    /\ files[candOf[p]] = p
    /\ procs[candOf[p]] \subseteq {p} \cup unkilled

\* The results a phase reads were written by its own tests, never left by an
\* earlier phase (resetTestWorkspace).  Tests that outlived the timeout of their
\* phase are the exception: nothing kills them, and they may write late.
ResultsOwn == \A p \in Runs : readOf[p] \in {p, None} \cup timedOut

\* A submission is graded on what it is: its tests meet its own server and files
\* and no other, and the results are those of its own tests.
GradedOnOwnWork == SoleCandidate /\ ServesOwnFiles /\ ResultsOwn

\* Every container that exists is idle in a pool or with a phase: no error path
\* of a phase forgets one.
ContainersAccounted == \A c \in conts : c \in Idle \/ ContUsers[c] # {}
=============================================================================
