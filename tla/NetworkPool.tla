---------------------------- MODULE NetworkPool ----------------------------
(***************************************************************************)
(* The Docker networks of one grader: internal/pool/network_pool.go, the   *)
(* phases that use them (runHTTPPhase, runUIJsdomPhase, runPlaywrightPhase *)
(* in internal/grader), the asynchronous teardown (cleanup.go), warming    *)
(* (warmer.go) and the life of the process (cmd/grader/main.go).           *)
(*                                                                         *)
(* A phase gets a network of the pool, or creates one of its own when the  *)
(* pool gives none; it starts the candidate's container on it under the    *)
(* alias "candidate", runs the tests, and leaves the teardown to the       *)
(* cleanup pool.  Docker's state outlives the process.                     *)
(***************************************************************************)
EXTENDS Naturals, FiniteSets, Sequences

CONSTANTS Phases,        \* phases of gradings, each runs once
          Warmers,       \* calls of Warm: at the start and per warm-up request
          NetMax,        \* bound on the names of networks
          MaxNetworks,   \* NETWORK_POOL_MAX
          WarmCount,     \* what a call of Warm aims at
          CleanupSlots,  \* size of the cleanup pool
          MaxNetFaults,  \* bound on failing Docker commands
          MaxNetCrashes  \* bound on crashes of the process

ASSUME NetAssumption ==
  /\ MaxNetworks \in Nat \ {0} /\ CleanupSlots \in Nat \ {0}
  /\ NetMax \in Nat /\ WarmCount \in Nat
  /\ MaxNetFaults \in Nat /\ MaxNetCrashes \in Nat
  /\ IsFiniteSet(Phases) /\ IsFiniteSet(Warmers)
  /\ Phases \cap Warmers = {}

Nets == 1..NetMax
NoNet == 0

VARIABLES
  stage,     \* of the process
  available, \* the channel of idle networks
  inUse,     \* the map of networks in use
  closed,    \* Close has closed the channel
  netPc,     \* control of each phase
  netOf,     \* the network a phase works with
  pooled,    \* phases whose network belongs to the pool
  warmPc,    \* control of each call of Warm
  warmLeft,  \* networks a call of Warm has still to create
  warmNet,   \* the network it has just created
  nets,      \* Docker: the networks that exist
  attached,  \* Docker: candidates' containers on each network
  lost,      \* networks that nobody will remove: a command failed, a process died
  dirty,     \* candidates' containers that nobody will remove
  netFaults, netCrashes

memory == <<available, inUse, closed, netPc, netOf, pooled,
            warmPc, warmLeft, warmNet>>
docker == <<nets, attached, lost, dirty>>
netVars == <<stage, memory, docker, netFaults, netCrashes>>

AcquirePcs == {"count", "wait", "create", "mark"}
GradePcs == AcquirePcs \cup {"held", "alone", "running"}
CleanPcs == {"remove", "return", "send"}
PhasePcs == {"new", "submitted", "done", "dead"} \cup GradePcs \cup CleanPcs

Offered == {available[i] : i \in DOMAIN available}

\* a name that nothing has or remembers: names carry the time in nanoseconds
Unused == {n \in Nets \ (nets \cup Offered) :
             /\ \A p \in Phases : netOf[p] # n
             /\ \A w \in Warmers : warmNet[w] # n}
Fresh == CHOOSE n \in Unused : TRUE
Size == Cardinality(inUse) + Len(available)

\* a command fails; a cancelled context makes every command of a phase fail
Fault == netFaults < MaxNetFaults /\ netFaults' = netFaults + 1
Cancelled == stage # "up" /\ UNCHANGED netFaults

Goto(p, to) == netPc' = [netPc EXCEPT ![p] = to]

-----------------------------------------------------------------------------
(* NetworkPool.Acquire, step by step                                       *)

\* also after the signal, until the last job returns: Acquire asks only whether
\* the pool is closed, and a job that was running goes on to its hidden tests
TryTake(p) ==
  /\ stage \in {"up", "stopping"} /\ netPc[p] = "new"
  /\ IF available = <<>>
     THEN Goto(p, "count") /\ UNCHANGED <<available, netOf>>
     ELSE /\ netOf' = [netOf EXCEPT ![p] = Head(available)]
          /\ available' = Tail(available)
          /\ Goto(p, "mark")
  /\ UNCHANGED <<stage, inUse, closed, pooled, warmPc, warmLeft, warmNet,
                 docker, netFaults, netCrashes>>

\* under the mutex, which is released before the network is created
CountNetworks(p) ==
  /\ netPc[p] = "count"
  /\ Goto(p, IF Size >= MaxNetworks THEN "wait" ELSE "create")
  /\ UNCHANGED <<stage, available, inUse, closed, netOf, pooled, warmPc,
                 warmLeft, warmNet, docker, netFaults, netCrashes>>

\* Variant: the network stays in the channel.
WaitTakeCopies(p) ==
  /\ netPc[p] = "wait" /\ available # <<>>
  /\ netOf' = [netOf EXCEPT ![p] = Head(available)]
  /\ Goto(p, "mark")
  /\ UNCHANGED <<stage, available, inUse, closed, pooled, warmPc, warmLeft,
                 warmNet, docker, netFaults, netCrashes>>

WaitTake(p) ==
  /\ netPc[p] = "wait" /\ available # <<>>
  /\ netOf' = [netOf EXCEPT ![p] = Head(available)]
  /\ available' = Tail(available)
  /\ Goto(p, "mark")
  /\ UNCHANGED <<stage, inUse, closed, pooled, warmPc, warmLeft, warmNet,
                 docker, netFaults, netCrashes>>

\* 10 s without a network, or the context ends
WaitTimeout(p) ==
  /\ netPc[p] = "wait"
  /\ Goto(p, "alone")
  /\ UNCHANGED <<stage, available, inUse, closed, netOf, pooled, warmPc,
                 warmLeft, warmNet, docker, netFaults, netCrashes>>

CreatePooled(p) ==
  /\ netPc[p] = "create" /\ Unused # {}
  /\ \/ /\ nets' = nets \cup {Fresh}
        /\ netOf' = [netOf EXCEPT ![p] = Fresh]
        /\ Goto(p, "mark")
        /\ UNCHANGED <<lost, netFaults>>
     \/ /\ Fault \/ Cancelled
        /\ Goto(p, "alone") /\ UNCHANGED netOf
        /\ \/ UNCHANGED <<nets, lost>>
           \/ nets' = nets \cup {Fresh} /\ lost' = lost \cup {Fresh}
  /\ UNCHANGED <<stage, available, inUse, closed, pooled, warmPc, warmLeft,
                 warmNet, attached, dirty, netCrashes>>

MarkInUse(p) ==
  /\ netPc[p] = "mark"
  /\ inUse' = inUse \cup {netOf[p]}
  /\ pooled' = pooled \cup {p}
  /\ Goto(p, "held")
  /\ UNCHANGED <<stage, available, closed, netOf, warmPc, warmLeft, warmNet,
                 docker, netFaults, netCrashes>>

-----------------------------------------------------------------------------
(* A phase with its network                                                *)

\* no files, a failing build, a missing configuration: the deferred teardown
ReturnEarly(p) ==
  /\ netPc[p] \in {"held", "alone", "running"}
  /\ Goto(p, "submitted")
  /\ UNCHANGED <<stage, available, inUse, closed, netOf, pooled, warmPc,
                 warmLeft, warmNet, docker, netFaults, netCrashes>>

\* a network of the phase's own; its name is kept even if creating it fails
CreateOwn(p) ==
  /\ netPc[p] = "alone" /\ Unused # {}
  /\ netOf' = [netOf EXCEPT ![p] = Fresh]
  /\ \/ nets' = nets \cup {Fresh} /\ Goto(p, "held") /\ UNCHANGED netFaults
     \/ /\ Fault \/ Cancelled
        /\ Goto(p, "submitted")
        /\ nets' \in {nets, nets \cup {Fresh}}
  /\ UNCHANGED <<stage, available, inUse, closed, pooled, warmPc, warmLeft,
                 warmNet, attached, lost, dirty, netCrashes>>

RunCandidate(p) ==
  /\ netPc[p] = "held" /\ netOf[p] \in nets
  /\ attached' = [attached EXCEPT ![netOf[p]] = @ \cup {p}]
  /\ Goto(p, "running")
  /\ UNCHANGED <<stage, available, inUse, closed, netOf, pooled, warmPc,
                 warmLeft, warmNet, nets, lost, dirty, netFaults, netCrashes>>

-----------------------------------------------------------------------------
(* The cleanup pool: rm -f of the container, then the network              *)

TakeCleanupSlot(p) ==
  /\ netPc[p] = "submitted"
  /\ Cardinality({q \in Phases : netPc[q] \in CleanPcs}) < CleanupSlots
  /\ Goto(p, "remove")
  /\ UNCHANGED <<stage, available, inUse, closed, netOf, pooled, warmPc,
                 warmLeft, warmNet, docker, netFaults, netCrashes>>

\* Variant: the network is given back with the container on it.
RemoveCandidateLater(p) ==
  /\ netPc[p] = "remove"
  /\ Goto(p, "return")
  /\ UNCHANGED <<stage, available, inUse, closed, netOf, pooled, warmPc,
                 warmLeft, warmNet, docker, netFaults, netCrashes>>

\* SafeCleanup ignores the error of docker rm
RemoveCandidate(p) ==
  /\ netPc[p] = "remove"
  /\ \/ /\ attached' = [n \in Nets |-> attached[n] \ {p}]
        /\ UNCHANGED <<dirty, netFaults>>
     \/ /\ Fault /\ \E n \in Nets : p \in attached[n]
        /\ dirty' = dirty \cup {p} /\ UNCHANGED attached
  /\ Goto(p, "return")
  /\ UNCHANGED <<stage, available, inUse, closed, netOf, pooled, warmPc,
                 warmLeft, warmNet, nets, lost, netCrashes>>

\* Variant: every error is taken for a network that is still there.
RemoveNetworkMarked(n) ==
  /\ \/ (n \notin nets \/ attached[n] = {}) /\ nets' = nets \ {n}
     \/ n \in nets /\ attached[n] # {} /\ UNCHANGED nets
  /\ lost' = lost \cup {n} /\ UNCHANGED netFaults

\* docker network rm refuses a network with containers; errors are ignored
RemoveNetwork(n) ==
  \/ /\ n \notin nets \/ attached[n] = {}
     /\ nets' = nets \ {n} /\ UNCHANGED <<lost, netFaults>>
  \/ /\ n \in nets
     /\ \/ attached[n] # {} /\ UNCHANGED netFaults
        \/ attached[n] = {} /\ Fault
     /\ lost' = lost \cup {n} /\ UNCHANGED nets

\* the first half of Release, or the end of a network of the phase's own
ReturnNetwork(p) ==
  /\ netPc[p] = "return"
  /\ IF p \in pooled
     THEN /\ inUse' = inUse \ {netOf[p]}
          /\ Goto(p, "send")
          /\ UNCHANGED <<netOf, nets, lost, netFaults>>
     ELSE /\ IF netOf[p] # NoNet
             THEN RemoveNetwork(netOf[p])
             ELSE UNCHANGED <<nets, lost, netFaults>>
          /\ netOf' = [netOf EXCEPT ![p] = NoNet]
          /\ Goto(p, "done")
          /\ UNCHANGED inUse
  /\ UNCHANGED <<stage, available, closed, pooled, warmPc, warmLeft, warmNet,
                 attached, dirty, netCrashes>>

\* Variant: the send waits for room in the channel.
SendBackBlocks(p) ==
  /\ netPc[p] = "send" /\ Len(available) < MaxNetworks
  /\ available' = Append(available, netOf[p])
  /\ netOf' = [netOf EXCEPT ![p] = NoNet]
  /\ pooled' = pooled \ {p}
  /\ Goto(p, "done")
  /\ UNCHANGED <<stage, inUse, closed, warmPc, warmLeft, warmNet, docker,
                 netFaults, netCrashes>>

\* Variant: a network that finds the channel full is not removed.
SendBackForgets(p) ==
  /\ netPc[p] = "send"
  /\ IF closed
     THEN lost' = lost \cup {netOf[p]} /\ UNCHANGED <<available, nets, netFaults>>
     ELSE /\ available' = IF Len(available) < MaxNetworks
                          THEN Append(available, netOf[p]) ELSE available
          /\ UNCHANGED <<nets, lost, netFaults>>
  /\ netOf' = [netOf EXCEPT ![p] = NoNet]
  /\ pooled' = pooled \ {p}
  /\ Goto(p, "done")
  /\ UNCHANGED <<stage, inUse, closed, warmPc, warmLeft, warmNet, attached,
                 dirty, netCrashes>>

\* the second half: the cleanup pool recovers from a send on a closed channel
SendBack(p) ==
  /\ netPc[p] = "send"
  /\ IF closed
     THEN lost' = lost \cup {netOf[p]} /\ UNCHANGED <<available, nets, netFaults>>
     ELSE IF Len(available) < MaxNetworks
     THEN /\ available' = Append(available, netOf[p])
          /\ UNCHANGED <<nets, lost, netFaults>>
     ELSE RemoveNetwork(netOf[p]) /\ UNCHANGED available
  /\ netOf' = [netOf EXCEPT ![p] = NoNet]
  /\ pooled' = pooled \ {p}
  /\ Goto(p, "done")
  /\ UNCHANGED <<stage, inUse, closed, warmPc, warmLeft, warmNet, attached,
                 dirty, netCrashes>>

-----------------------------------------------------------------------------
(* NetworkPool.Warm                                                        *)

StartWarm(w) ==
  /\ stage = "up" /\ warmPc[w] = "idle"
  /\ LET count == IF WarmCount > MaxNetworks THEN MaxNetworks ELSE WarmCount
     IN  warmLeft' = [warmLeft EXCEPT ![w] = IF count > Size THEN count - Size ELSE 0]
  /\ warmPc' = [warmPc EXCEPT ![w] = "create"]
  /\ UNCHANGED <<stage, available, inUse, closed, netPc, netOf, pooled, warmNet,
                 docker, netFaults, netCrashes>>

\* the loop looks at the context before it creates the next network
WarmCreate(w) ==
  /\ warmPc[w] = "create"
  /\ \/ /\ warmLeft[w] = 0 \/ stage # "up"
        /\ warmPc' = [warmPc EXCEPT ![w] = "done"]
        /\ UNCHANGED <<warmLeft, warmNet, nets, lost, netFaults>>
     \/ /\ warmLeft[w] > 0 /\ stage = "up" /\ Unused # {}
        /\ warmLeft' = [warmLeft EXCEPT ![w] = @ - 1]
        /\ \/ /\ nets' = nets \cup {Fresh}
              /\ warmNet' = [warmNet EXCEPT ![w] = Fresh]
              /\ warmPc' = [warmPc EXCEPT ![w] = "send"]
              /\ UNCHANGED <<lost, netFaults>>
           \/ Fault /\ UNCHANGED <<warmPc, warmNet, nets, lost>>
  /\ UNCHANGED <<stage, available, inUse, closed, netPc, netOf, pooled,
                 attached, dirty, netCrashes>>

\* nothing recovers this goroutine: a send on a closed channel ends the process
WarmSend(w) ==
  /\ warmPc[w] = "send" /\ ~closed
  /\ IF Len(available) < MaxNetworks
     THEN /\ available' = Append(available, warmNet[w])
          /\ UNCHANGED <<nets, lost, netFaults>>
     ELSE RemoveNetwork(warmNet[w]) /\ UNCHANGED available
  /\ warmNet' = [warmNet EXCEPT ![w] = NoNet]
  /\ warmPc' = [warmPc EXCEPT ![w] = "create"]
  /\ UNCHANGED <<stage, inUse, closed, netPc, netOf, pooled, warmLeft, attached,
                 dirty, netCrashes>>

-----------------------------------------------------------------------------
(* The process                                                             *)

Stop ==
  /\ stage = "up"
  /\ stage' = "stopping"
  /\ UNCHANGED <<memory, docker, netFaults, netCrashes>>

\* worker.Run returns when every job has returned
JobsDone ==
  /\ stage = "stopping"
  /\ \A p \in Phases : netPc[p] \notin GradePcs
  /\ stage' = "waiting"
  /\ UNCHANGED <<memory, docker, netFaults, netCrashes>>

\* cleanupPool.Wait, then PoolManager.Close: the containers come first
CleanupDone ==
  /\ stage = "waiting"
  /\ \A p \in Phases : netPc[p] \in {"new", "done", "dead"}
  /\ stage' = "boxes"
  /\ UNCHANGED <<memory, docker, netFaults, netCrashes>>

\* a warm-up warms containers before it comes to the networks
WarmsContainers == \E w \in Warmers : warmPc[w] = "idle"

\* Close of the container pool returns, and that of the networks closes their
\* channel; or it waits for its own mutex, for the container of a warm-up
\* (ContainerPool has when).
CloseContainers ==
  /\ stage = "boxes"
  /\ \/ stage' = "closing" /\ closed' = TRUE
     \/ WarmsContainers /\ stage' = "stuck" /\ UNCHANGED closed
  /\ UNCHANGED <<available, inUse, netPc, netOf, pooled, warmPc, warmLeft,
                 warmNet, docker, netFaults, netCrashes>>

DrainOne ==
  /\ stage = "closing" /\ available # <<>>
  /\ RemoveNetwork(Head(available))
  /\ available' = Tail(available)
  /\ UNCHANGED <<stage, inUse, closed, netPc, netOf, pooled, warmPc, warmLeft,
                 warmNet, attached, dirty, netCrashes>>

\* the process is gone: what Docker still has belongs to nobody
ProcessEnds(next) ==
  /\ stage' = next
  /\ available' = <<>> /\ inUse' = {} /\ closed' = FALSE /\ pooled' = {}
  /\ netPc' = [p \in Phases |->
                 IF netPc[p] \in {"new", "done"} THEN netPc[p] ELSE "dead"]
  /\ netOf' = [p \in Phases |-> NoNet]
  /\ warmPc' = [w \in Warmers |-> IF warmPc[w] = "idle" THEN "idle" ELSE "done"]
  /\ warmLeft' = [w \in Warmers |-> 0]
  /\ warmNet' = [w \in Warmers |-> NoNet]
  /\ lost' = nets
  /\ dirty' = UNION {attached[n] : n \in Nets}
  /\ UNCHANGED <<nets, attached, netFaults>>

\* (networks in use would be removed here, but every job has returned)
Exit ==
  /\ stage = "closing" /\ available = <<>>
  /\ ProcessEnds("exited")
  /\ UNCHANGED netCrashes

\* a warming goroutine sends on the closed channel
Panic(w) ==
  /\ closed /\ warmPc[w] = "send"
  /\ ProcessEnds("exited")
  /\ UNCHANGED netCrashes

\* a warm-up sends on the closed channel of the containers
ContainerPanic ==
  /\ stage \in {"boxes", "stuck", "closing"} /\ WarmsContainers
  /\ ProcessEnds("exited")
  /\ UNCHANGED netCrashes

Crash ==
  /\ stage \notin {"starting", "exited"} /\ netCrashes < MaxNetCrashes
  /\ ProcessEnds("starting")
  /\ netCrashes' = netCrashes + 1

\* CleanupOrphans at the start of the next process
CleanupOrphans ==
  /\ stage = "starting"
  /\ \E kept \in {{}} \cup {{n} : n \in nets} :
        /\ IF kept = {} THEN UNCHANGED netFaults ELSE Fault
        /\ nets' = {n \in nets : attached[n] # {}} \cup kept
        /\ lost' = nets'
  /\ stage' = "up"
  /\ UNCHANGED <<memory, attached, dirty, netCrashes>>

-----------------------------------------------------------------------------
NetInit ==
  /\ stage = "up"
  /\ available = <<>> /\ inUse = {} /\ closed = FALSE
  /\ netPc = [p \in Phases |-> "new"]
  /\ netOf = [p \in Phases |-> NoNet]
  /\ pooled = {}
  /\ warmPc = [w \in Warmers |-> "idle"]
  /\ warmLeft = [w \in Warmers |-> 0]
  /\ warmNet = [w \in Warmers |-> NoNet]
  /\ nets = {} /\ attached = [n \in Nets |-> {}] /\ lost = {} /\ dirty = {}
  /\ netFaults = 0 /\ netCrashes = 0

PhaseStep(p) ==
  \/ TryTake(p) \/ CountNetworks(p) \/ WaitTake(p) \/ WaitTimeout(p)
  \/ CreatePooled(p) \/ MarkInUse(p)
  \/ ReturnEarly(p) \/ CreateOwn(p) \/ RunCandidate(p)

CleanupStep(p) ==
  TakeCleanupSlot(p) \/ RemoveCandidate(p) \/ ReturnNetwork(p) \/ SendBack(p)

WarmStep(w) == StartWarm(w) \/ WarmCreate(w) \/ WarmSend(w) \/ Panic(w)

ShutdownStep == JobsDone \/ CleanupDone \/ CloseContainers \/ DrainOne \/ Exit

NetNext ==
  \/ \E p \in Phases : PhaseStep(p) \/ CleanupStep(p)
  \/ \E w \in Warmers : WarmStep(w)
  \/ Stop \/ ShutdownStep \/ ContainerPanic \/ Crash \/ CleanupOrphans

NetSpec == NetInit /\ [][NetNext]_netVars

\* Every step of a phase that began, of its cleanup and of the shutdown is
\* bounded by a timeout of the code; nothing is assumed of phases that did not
\* begin, of warming, crashes and signals.
GoesOn(p) == netPc[p] # "new" /\ (PhaseStep(p) \/ CleanupStep(p))

NetFairness ==
  /\ \A p \in Phases : WF_netVars(GoesOn(p))
  /\ WF_netVars(ShutdownStep)

-----------------------------------------------------------------------------
(* Properties                                                              *)

\* Types, and where a phase and a warming call may be in their code.
NetTypeOK ==
  /\ stage \in {"starting", "up", "stopping", "waiting", "boxes", "stuck", "closing",
               "exited"}
  /\ available \in Seq(Nets) /\ inUse \subseteq Nets /\ closed \in BOOLEAN
  /\ netPc \in [Phases -> PhasePcs] /\ netOf \in [Phases -> Nets \cup {NoNet}]
  /\ pooled \subseteq Phases
  /\ warmPc \in [Warmers -> {"idle", "create", "send", "done"}]
  /\ warmLeft \in [Warmers -> Nat] /\ warmNet \in [Warmers -> Nets \cup {NoNet}]
  /\ nets \subseteq Nets /\ attached \in [Nets -> SUBSET Phases]
  /\ lost \subseteq nets /\ dirty \subseteq Phases
  /\ netFaults \in 0..MaxNetFaults /\ netCrashes \in 0..MaxNetCrashes

NetUsers == [n \in Nets |-> {p \in Phases : netOf[p] = n}
                           \cup {w \in Warmers : warmNet[w] = n}]

Pool == INSTANCE PooledResource
          WITH Resource <- Nets, User <- Phases \cup Warmers,
               idle <- Offered, users <- NetUsers

\* The network pool is a pool: a network goes from one phase to the next only
\* by Release and the channel, however Acquire, Release, Warm, Close, a crash
\* and CleanupOrphans interleave (network_pool.go).
NetworkPoolRefines == Pool!PoolSpec

\* A phase never finds the container of an earlier submission on its network,
\* where the tests would reach it as "candidate": the container is removed
\* before the network goes back (http_grader.go:147-154).  The containers whose
\* removal failed are the exception; SafeCleanup ignores the error.
CleanHandOut ==
  \A p \in Phases :
    netPc[p] \in {"held", "running"} /\ netOf[p] \in nets
      => attached[netOf[p]] \subseteq {p} \cup dirty

\* Every network Docker has is offered, in use or being warmed, or it is one
\* whose creation or removal failed, or of a process that is gone: no path of
\* Acquire, Release and Warm forgets one.
NetworksAccounted ==
  \A n \in nets : n \in Offered \cup lost \/ NetUsers[n] # {}

\* A stop of the grader ends: every job and every cleanup that was under way or
\* began after the signal returns, and Close drains what they gave back
\* (main.go:160-165), unless a crash ends the process first, or Close of the
\* container pool, which comes before that of the networks (warmer.go:237), waits
\* for its own mutex (container_pool.go:397-400; StuckExplained says when).
StopEnds == stage = "stopping" ~> stage \in {"exited", "starting", "stuck"}
=============================================================================
