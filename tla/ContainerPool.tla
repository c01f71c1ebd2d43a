--------------------------- MODULE ContainerPool ---------------------------
(***************************************************************************)
(* The pool of generic containers (internal/pool/container_pool.go) and    *)
(* the warm-up of an exam, which fills it (handleWarmup in warmer.go).     *)
(* Acquire and Release are modelled as the code has them; the graders call *)
(* neither (warmer.go:207-209), warm-ups and the shutdown are what runs.   *)
(***************************************************************************)
EXTENDS Naturals, FiniteSets, Sequences

CONSTANTS Takers,       \* callers of Acquire and Release, one use each
          WarmUps,      \* goroutines that handle a warm-up of the same exam
          Boxes,        \* names of containers
          BoxMax,       \* MaxSize of the pool
          WarmSize,     \* containers a warm-up aims at
          MaxBoxFaults  \* bound on failing Docker commands

NoBox == "no container"

ASSUME BoxAssumption ==
  /\ BoxMax \in Nat \ {0} /\ WarmSize \in Nat /\ MaxBoxFaults \in Nat
  /\ IsFiniteSet(Takers) /\ IsFiniteSet(WarmUps) /\ Takers \cap WarmUps = {}
  /\ NoBox \notin Boxes

VARIABLES
  idleBoxes, \* the channel
  allConts,  \* the map of the pool's containers
  boxPc, boxOf, \* control of takers and warm-ups, and the container they have
  toWarm,    \* containers a warm-up has still to create
  warmKey,   \* who holds the lock of the exam in Redis
  closing,   \* of Close: "open", "draining", "rest", "closed", "stuck"
  crashed,   \* a send on the closed channel ended the process
  boxes,     \* Docker: containers that exist
  strays,    \* those nobody will remove: a command failed
  boxFaults

dockerBoxes == <<boxes, strays, boxFaults>>
warming == <<toWarm, warmKey>>
ending == <<closing, crashed>>
boxVars == <<idleBoxes, allConts, boxPc, boxOf, warming, ending, dockerBoxes>>

InPool == {idleBoxes[i] : i \in DOMAIN idleBoxes}
NewNames == Boxes \ (boxes \cup InPool)
NewBox == CHOOSE b \in NewNames : TRUE
BoxFault == boxFaults < MaxBoxFaults /\ boxFaults' = boxFaults + 1
PoolClosed == closing # "open"

\* Close never gives the mutex back once it waits for itself
MutexFree == closing # "stuck"
On(a, l) == ~crashed /\ boxPc[a] = l
MoveTo(a, l) == boxPc' = [boxPc EXCEPT ![a] = l]
Holds(a, b) == boxOf' = [boxOf EXCEPT ![a] = b]

\* Variant: the map keeps the container.
DestroyBoxListed(b) ==
  /\ MutexFree /\ UNCHANGED allConts
  /\ \/ boxes' = boxes \ {b} /\ UNCHANGED <<strays, boxFaults>>
     \/ /\ b \in boxes /\ BoxFault
        /\ strays' = strays \cup {b} /\ UNCHANGED boxes

\* destroyContainer: SafeCleanup ignores the error of docker rm
DestroyBox(b) ==
  /\ MutexFree
  /\ allConts' = allConts \ {b}
  /\ \/ boxes' = boxes \ {b} /\ UNCHANGED <<strays, boxFaults>>
     \/ /\ b \in boxes /\ BoxFault
        /\ strays' = strays \cup {b} /\ UNCHANGED boxes

\* docker run -d; one that fails may have started the container
StartBox(a, ok, failed) ==
  \/ /\ NewNames # {}
     /\ boxes' = boxes \cup {NewBox} /\ Holds(a, NewBox) /\ MoveTo(a, ok)
     /\ UNCHANGED <<strays, boxFaults>>
  \/ /\ BoxFault /\ MoveTo(a, failed) /\ UNCHANGED boxOf
     /\ \/ UNCHANGED <<boxes, strays>>
        \/ /\ NewNames # {} /\ boxes' = boxes \cup {NewBox}
           /\ strays' = strays \cup {NewBox}

-----------------------------------------------------------------------------
(* Acquire: main sets no IdleTimeout, so that every container it takes from *)
(* the channel is invalid; other configurations may find it valid           *)

TakeBox(t, otherwise) ==
  /\ idleBoxes # <<>> /\ idleBoxes' = Tail(idleBoxes)
  /\ \/ /\ Holds(t, Head(idleBoxes)) /\ MoveTo(t, "have")
        /\ UNCHANGED <<allConts, dockerBoxes>>
     \/ DestroyBox(Head(idleBoxes)) /\ MoveTo(t, otherwise) /\ UNCHANGED boxOf

AcquireIdle(t) ==
  /\ On(t, "new")
  /\ \/ PoolClosed /\ MoveTo(t, "done")
          /\ UNCHANGED <<idleBoxes, allConts, boxOf, dockerBoxes>>
     \/ ~PoolClosed /\ TakeBox(t, "count")
     \/ /\ ~PoolClosed /\ idleBoxes = <<>> /\ MoveTo(t, "count")
        /\ UNCHANGED <<idleBoxes, allConts, boxOf, dockerBoxes>>
  /\ UNCHANGED <<warming, ending>>

CountBoxes(t) ==
  /\ On(t, "count") /\ MutexFree
  /\ MoveTo(t, IF Cardinality(allConts) >= BoxMax THEN "wait" ELSE "create")
  /\ UNCHANGED <<idleBoxes, allConts, boxOf, dockerBoxes, warming, ending>>

\* a closed channel gives nothing at once, and the taker creates a container
AwaitBox(t) ==
  /\ On(t, "wait")
  /\ \/ TakeBox(t, "create")
     \/ /\ \/ MoveTo(t, "done")
           \/ PoolClosed /\ idleBoxes = <<>> /\ MoveTo(t, "create")
        /\ UNCHANGED <<idleBoxes, allConts, boxOf, dockerBoxes>>
  /\ UNCHANGED <<warming, ending>>

CreateBox(t) ==
  /\ On(t, "create") /\ StartBox(t, "register", "done")
  /\ UNCHANGED <<idleBoxes, allConts, warming, ending>>

RegisterBox(t) ==
  /\ On(t, "register") /\ MutexFree
  /\ allConts' = allConts \cup {boxOf[t]} /\ MoveTo(t, "have")
  /\ UNCHANGED <<idleBoxes, boxOf, dockerBoxes, warming, ending>>

\* Variant: the caller goes on with the container.
PutBoxHeld(a, then) ==
  /\ UNCHANGED boxOf /\ MoveTo(a, then)
  /\ IF Len(idleBoxes) < BoxMax
     THEN /\ idleBoxes' = Append(idleBoxes, boxOf[a])
          /\ UNCHANGED <<allConts, dockerBoxes>>
     ELSE DestroyBox(boxOf[a]) /\ UNCHANGED idleBoxes

\* back into the channel, or destroyed when it is full
PutBox(a, then) ==
  /\ Holds(a, NoBox) /\ MoveTo(a, then)
  /\ IF Len(idleBoxes) < BoxMax
     THEN /\ idleBoxes' = Append(idleBoxes, boxOf[a])
          /\ UNCHANGED <<allConts, dockerBoxes>>
     ELSE DestroyBox(boxOf[a]) /\ UNCHANGED idleBoxes

\* an invalid container is destroyed; the others are emptied
ReleaseBox(t) ==
  /\ On(t, "have")
  /\ \/ ~PoolClosed /\ PutBox(t, "done")
     \/ /\ DestroyBox(boxOf[t]) /\ Holds(t, NoBox) /\ MoveTo(t, "done")
        /\ UNCHANGED idleBoxes
  /\ UNCHANGED <<warming, ending>>

-----------------------------------------------------------------------------
(* handleWarmup and Warm                                                   *)

\* SETNX with five minutes; a warm-up that finds the lock does nothing
LockWarmUp(w) ==
  /\ On(w, "new") /\ MutexFree
  /\ IF warmKey = {}
     THEN /\ warmKey' = {w} /\ MoveTo(w, "next")
          /\ LET count == IF WarmSize > BoxMax THEN BoxMax ELSE WarmSize
                 have == Cardinality(allConts)
             IN  toWarm' = [toWarm EXCEPT ![w] = IF count > have THEN count - have ELSE 0]
     ELSE MoveTo(w, "done") /\ UNCHANGED warming
  /\ UNCHANGED <<idleBoxes, allConts, boxOf, dockerBoxes, ending>>

\* a creation that fails is not made up for
WarmNext(w) ==
  /\ On(w, "next") /\ toWarm[w] > 0
  /\ toWarm' = [toWarm EXCEPT ![w] = @ - 1]
  /\ StartBox(w, "add", "next")
  /\ UNCHANGED <<idleBoxes, allConts, warmKey, ending>>

WarmAdd(w) ==
  /\ On(w, "add") /\ MutexFree
  /\ allConts' = allConts \cup {boxOf[w]} /\ MoveTo(w, "send")
  /\ UNCHANGED <<idleBoxes, boxOf, dockerBoxes, warming, ending>>

WarmOffer(w) ==
  /\ On(w, "send") /\ ~PoolClosed /\ PutBox(w, "next")
  /\ UNCHANGED <<warming, ending>>

\* the loop ends, or the context; the deferred DEL removes the lock of anybody
WarmUpEnds(w) ==
  /\ On(w, "next") /\ (toWarm[w] = 0 \/ PoolClosed)
  /\ warmKey' = {} /\ MoveTo(w, "done")
  /\ UNCHANGED <<idleBoxes, allConts, boxOf, toWarm, dockerBoxes, ending>>

WarmLockExpires ==
  /\ warmKey # {} /\ warmKey' = {}
  /\ UNCHANGED <<idleBoxes, allConts, boxPc, boxOf, toWarm, dockerBoxes, ending>>

-----------------------------------------------------------------------------
(* Close                                                                   *)

ClosePool ==
  /\ closing = "open" /\ ~crashed /\ closing' = "draining"
  /\ UNCHANGED <<idleBoxes, allConts, boxPc, boxOf, crashed, dockerBoxes, warming>>

DrainBox ==
  /\ closing = "draining" /\ ~crashed
  /\ IF idleBoxes = <<>>
     THEN closing' = "rest" /\ UNCHANGED <<idleBoxes, allConts, dockerBoxes>>
     ELSE /\ DestroyBox(Head(idleBoxes)) /\ idleBoxes' = Tail(idleBoxes)
          /\ UNCHANGED closing
  /\ UNCHANGED <<boxPc, boxOf, crashed, warming>>

\* the rest is destroyed with the mutex held, which destroyContainer locks again
CloseRest ==
  /\ closing = "rest" /\ ~crashed
  /\ closing' = IF allConts = {} THEN "closed" ELSE "stuck"
  /\ UNCHANGED <<idleBoxes, allConts, boxPc, boxOf, crashed, dockerBoxes, warming>>

\* nothing recovers a send on the closed channel
SendOnClosed(a) ==
  /\ PoolClosed /\ (On(a, "send") \/ On(a, "have"))
  /\ crashed' = TRUE
  /\ UNCHANGED <<idleBoxes, allConts, boxPc, boxOf, closing, dockerBoxes, warming>>

-----------------------------------------------------------------------------
BoxInit ==
  /\ idleBoxes = <<>> /\ allConts = {}
  /\ boxPc = [a \in Takers \cup WarmUps |-> "new"]
  /\ boxOf = [a \in Takers \cup WarmUps |-> NoBox]
  /\ toWarm = [w \in WarmUps |-> 0] /\ warmKey = {}
  /\ closing = "open" /\ crashed = FALSE
  /\ boxes = {} /\ strays = {} /\ boxFaults = 0

TakerStep(t) ==
  \/ AcquireIdle(t) \/ CountBoxes(t) \/ AwaitBox(t) \/ CreateBox(t)
  \/ RegisterBox(t) \/ ReleaseBox(t) \/ SendOnClosed(t)

WarmUpStep(w) ==
  \/ LockWarmUp(w) \/ WarmNext(w) \/ WarmAdd(w) \/ WarmOffer(w) \/ WarmUpEnds(w)
  \/ SendOnClosed(w)

BoxNext ==
  \/ \E t \in Takers : TakerStep(t)
  \/ \E w \in WarmUps : WarmUpStep(w)
  \/ WarmLockExpires \/ ClosePool \/ DrainBox \/ CloseRest

BoxSpec == BoxInit /\ [][BoxNext]_boxVars

-----------------------------------------------------------------------------
(* Properties                                                              *)

BoxUsers == [b \in Boxes |-> {a \in Takers \cup WarmUps : boxOf[a] = b}]

BoxesShared == INSTANCE PooledResource
                 WITH Resource <- Boxes, User <- Takers \cup WarmUps,
                      idle <- InPool, users <- BoxUsers

\* The generic pool is a pool too: one user per container, and none while it is
\* offered, whatever warm-ups, takers and Close do at the same time.
ContainerPoolRefines == BoxesShared!PoolSpec

\* Close waits for itself only if a container is neither offered nor destroyed
\* when it takes the mutex: one a caller still has, or one that a warm-up has
\* just added (container_pool.go:397-400).
StuckExplained ==
  closing = "stuck" => allConts # {} /\ \A b \in allConts : BoxUsers[b] # {}
=============================================================================
