----------------------------- MODULE PoolProofs -----------------------------
(***************************************************************************)
(* Theorems about the network pool and the SQL pools, for any numbers of   *)
(* networks, phases, warm-ups, gradings, tests and connections.            *)
(***************************************************************************)
EXTENDS NetworkPool, SqlGrading, FiniteSetTheorems, TLAPS

(* NetworkPool                                                             *)

OfferedOnce ==
  /\ available \in Seq(Nets)
  /\ \A i, j \in DOMAIN available : available[i] = available[j] => i = j

\* A network is offered, or a phase's, or a warm-up's, and only once.
OwnersOK ==
  /\ OfferedOnce
  /\ netOf \in [Phases -> Nets \cup {NoNet}] /\ warmNet \in [Warmers -> Nets \cup {NoNet}]
  /\ \A p, q \in Phases : netOf[p] \in Nets /\ netOf[p] = netOf[q] => p = q
  /\ \A w, v \in Warmers : warmNet[w] \in Nets /\ warmNet[w] = warmNet[v] => w = v
  /\ \A p \in Phases, w \in Warmers : netOf[p] \in Nets => netOf[p] # warmNet[w]
  /\ \A p \in Phases : netOf[p] \notin Offered
  /\ \A w \in Warmers : warmNet[w] \notin Offered

\* Where a phase or a warm-up has a network, in its code.
HoldingOK ==
  /\ netPc \in [Phases -> PhasePcs] /\ pooled \subseteq Phases
  /\ warmPc \in [Warmers -> {"idle", "create", "send", "done"}]
  /\ \A p \in Phases :
       /\ netPc[p] \in {"new", "count", "wait", "create", "alone"} => netOf[p] = NoNet
       /\ netPc[p] \in {"mark", "send"} \/ p \in pooled => netOf[p] \in Nets
  /\ \A w \in Warmers : IF warmPc[w] = "send" THEN warmNet[w] \in Nets
                                              ELSE warmNet[w] = NoNet

(* No network is a name; names are numbers from one.                       *)
LEMMA NoNetIsNone == NoNet \notin Nets
BY NetAssumption DEF NoNet, Nets

(* The head of the channel is taken out of it.                             *)
LEMMA NetHeadTaken ==
  ASSUME OfferedOnce, available # <<>>, available' = Tail(available)
  PROVE  /\ OfferedOnce' /\ Head(available) \in Nets /\ Head(available) \in Offered
         /\ Offered' = Offered \ {Head(available)}
<1>1. /\ Len(available) \in Nat /\ Len(available) > 0 /\ DOMAIN available = 1..Len(available)
      /\ \A i \in DOMAIN available : available[i] \in Nets
      /\ Head(available) = available[1]
  BY DEF OfferedOnce
<1>2. /\ available' \in Seq(Nets) /\ DOMAIN available' = 1..(Len(available) - 1)
      /\ \A i \in DOMAIN available' : available'[i] = available[i + 1]
  BY <1>1 DEF OfferedOnce
<1>3. \A i \in DOMAIN available' : i + 1 \in DOMAIN available /\ i + 1 # 1
  BY <1>1, <1>2
<1>4. OfferedOnce'
  <2>1. ASSUME NEW i \in DOMAIN available', NEW j \in DOMAIN available',
               available'[i] = available'[j]
        PROVE  i = j
    <3>1. i + 1 = j + 1
      BY <1>2, <1>3, <2>1 DEF OfferedOnce
    <3> QED
      BY <3>1, <1>1, <1>2
  <2> QED
    BY <1>2, <2>1 DEF OfferedOnce
<1>5. \A n : n \in Offered' <=> \E i \in DOMAIN available' : available'[i] = n
  BY DEF Offered
<1>6. \A n : n \in Offered <=> \E i \in DOMAIN available : available[i] = n
  BY DEF Offered
<1>7. ASSUME NEW n PROVE n \in Offered' <=> n \in Offered /\ n # available[1]
  <2>1. ASSUME n \in Offered' PROVE n \in Offered /\ n # available[1]
    <3>1. PICK i \in DOMAIN available' : available[i + 1] = n
      BY <1>2, <1>5, <2>1
    <3> QED
      BY <1>1, <1>3, <1>6, <3>1 DEF OfferedOnce
  <2>2. ASSUME n \in Offered, n # available[1] PROVE n \in Offered'
    <3>1. PICK i \in DOMAIN available : available[i] = n /\ i # 1
      BY <1>6, <2>2
    <3>2. i - 1 \in DOMAIN available' /\ (i - 1) + 1 = i
      BY <1>1, <1>2, <3>1
    <3> QED
      BY <1>2, <1>5, <3>1, <3>2
  <2> QED
    BY <2>1, <2>2
<1> QED
  BY <1>1, <1>4, <1>6, <1>7

(* A network is put at the end of the channel.                             *)
LEMMA NetEndPut ==
  ASSUME OfferedOnce, NEW n \in Nets, n \notin Offered, available' = Append(available, n)
  PROVE  OfferedOnce' /\ Offered' = Offered \cup {n}
<1>1. /\ Len(available) \in Nat /\ DOMAIN available = 1..Len(available)
      /\ available' \in Seq(Nets) /\ DOMAIN available' = 1..(Len(available) + 1)
      /\ \A i \in DOMAIN available : available'[i] = available[i]
      /\ available'[Len(available) + 1] = n
  BY DEF OfferedOnce
<1>2. \A i \in DOMAIN available' : i \in DOMAIN available \/ i = Len(available) + 1
  BY <1>1
<1>3. \A m : m \in Offered <=> \E i \in DOMAIN available : available[i] = m
  BY DEF Offered
<1>4. \A m : m \in Offered' <=> \E i \in DOMAIN available' : available'[i] = m
  BY DEF Offered
<1>5. OfferedOnce'
  BY <1>1, <1>2, <1>3 DEF OfferedOnce
<1>6. \A m : m \in Offered' <=> m \in Offered \/ m = n
  <2>1. DOMAIN available \subseteq DOMAIN available'
        /\ Len(available) + 1 \in DOMAIN available'
    BY <1>1
  <2> QED
    BY <1>1, <1>2, <1>3, <1>4, <2>1
<1> QED
  BY <1>5, <1>6

(* A phase takes a network that nobody has.                                *)
LEMMA PhaseTakes ==
  ASSUME OwnersOK, NEW p \in Phases, NEW n \in Nets, netOf[p] = NoNet, NetUsers[n] = {},
         netOf' = [netOf EXCEPT ![p] = n], UNCHANGED warmNet,
         OfferedOnce', Offered' = Offered \ {n}
  PROVE  OwnersOK' /\ Pool!Obtain(p, n)
<1>1. /\ \A q \in Phases : netOf[q] # n
      /\ \A w \in Warmers : warmNet[w] # n
  BY DEF NetUsers
<1>2. netOf'[p] = n /\ \A q \in Phases : q # p => netOf'[q] = netOf[q]
  BY DEF OwnersOK
<1>3. OwnersOK'
  BY <1>1, <1>2 DEF OwnersOK
<1>4. NetUsers' = [NetUsers EXCEPT ![n] = {p}]
  <2>1. ASSUME NEW m \in Nets
        PROVE  NetUsers'[m] = IF m = n THEN {p} ELSE NetUsers[m]
    BY <1>1, <1>2, NoNetIsNone DEF NetUsers
  <2> QED
    BY <2>1 DEF NetUsers
<1> QED
  BY <1>3, <1>4 DEF Pool!Obtain

(* A warm-up creates a network.                                            *)
LEMMA WarmerTakes ==
  ASSUME OwnersOK, NEW w \in Warmers, NEW n \in Nets, warmNet[w] = NoNet, NetUsers[n] = {},
         warmNet' = [warmNet EXCEPT ![w] = n], UNCHANGED <<netOf, available>>, n \notin Offered
  PROVE  OwnersOK' /\ Pool!Obtain(w, n)
<1>1. /\ \A q \in Phases : netOf[q] # n
      /\ \A v \in Warmers : warmNet[v] # n
  BY DEF NetUsers
<1>2. warmNet'[w] = n /\ \A v \in Warmers : v # w => warmNet'[v] = warmNet[v]
  BY DEF OwnersOK
<1>3. OfferedOnce' /\ Offered' = Offered
  BY DEF OwnersOK, OfferedOnce, Offered
<1>4. OwnersOK'
  BY <1>1, <1>2, <1>3 DEF OwnersOK
<1>5. NetUsers' = [NetUsers EXCEPT ![n] = {w}]
  <2>1. ASSUME NEW m \in Nets
        PROVE  NetUsers'[m] = IF m = n THEN {w} ELSE NetUsers[m]
    BY <1>1, <1>2, NoNetIsNone DEF NetUsers
  <2> QED
    BY <2>1 DEF NetUsers
<1> QED
  BY <1>3, <1>4, <1>5 DEF Pool!Obtain

(* A phase lets go of its network: it goes back, or is removed.            *)
LEMMA PhaseLeaves ==
  ASSUME OwnersOK, NEW p \in Phases, netOf[p] \in Nets,
         netOf' = [netOf EXCEPT ![p] = NoNet], UNCHANGED warmNet,
         OfferedOnce', Offered' \in {Offered, Offered \cup {netOf[p]}}
  PROVE  OwnersOK' /\ (Pool!Return(p, netOf[p]) \/ Pool!Discard(p, netOf[p]))
<1>1. netOf'[p] = NoNet /\ \A q \in Phases : q # p => netOf'[q] = netOf[q]
  BY DEF OwnersOK
<1>2. NoNet \notin Offered'
  BY NoNetIsNone DEF Offered, OfferedOnce
<1>3. OwnersOK'
  BY <1>1, <1>2, NoNetIsNone DEF OwnersOK
<1>4. NetUsers[netOf[p]] = {p}
  BY DEF OwnersOK, NetUsers
<1>5. NetUsers' = [NetUsers EXCEPT ![netOf[p]] = {}]
  <2>1. ASSUME NEW m \in Nets
        PROVE  NetUsers'[m] = IF m = netOf[p] THEN {} ELSE NetUsers[m]
    BY <1>1, NoNetIsNone DEF NetUsers, OwnersOK
  <2> QED
    BY <2>1 DEF NetUsers
<1> QED
  BY <1>3, <1>4, <1>5 DEF Pool!Return, Pool!Discard

(* A warm-up offers its network, or removes it.                            *)
LEMMA WarmerLeaves ==
  ASSUME OwnersOK, NEW w \in Warmers, warmNet[w] \in Nets,
         warmNet' = [warmNet EXCEPT ![w] = NoNet], UNCHANGED netOf,
         OfferedOnce', Offered' \in {Offered, Offered \cup {warmNet[w]}}
  PROVE  OwnersOK' /\ (Pool!Return(w, warmNet[w]) \/ Pool!Discard(w, warmNet[w]))
<1>1. warmNet'[w] = NoNet /\ \A v \in Warmers : v # w => warmNet'[v] = warmNet[v]
  BY DEF OwnersOK
<1>2. NoNet \notin Offered'
  BY NoNetIsNone DEF Offered, OfferedOnce
<1>3. OwnersOK'
  BY <1>1, <1>2, NoNetIsNone DEF OwnersOK
<1>4. NetUsers[warmNet[w]] = {w}
  BY DEF OwnersOK, NetUsers
<1>5. NetUsers' = [NetUsers EXCEPT ![warmNet[w]] = {}]
  <2>1. ASSUME NEW m \in Nets
        PROVE  NetUsers'[m] = IF m = warmNet[w] THEN {} ELSE NetUsers[m]
    BY <1>1, NoNetIsNone DEF NetUsers, OwnersOK
  <2> QED
    BY <2>1 DEF NetUsers
<1> QED
  BY <1>3, <1>4, <1>5 DEF Pool!Return, Pool!Discard

(* A new name is nobody's.                                                 *)
LEMMA FreshIsFree ==
  ASSUME Unused # {}
  PROVE  Fresh \in Nets /\ Fresh \notin Offered /\ NetUsers[Fresh] = {}
<1>1. Fresh \in Unused
  BY DEF Fresh
<1> QED
  BY <1>1 DEF Unused, NetUsers

(* Steps that leave the channel and the owners alone.                      *)
LEMMA OwnersStay ==
  ASSUME OwnersOK, UNCHANGED <<netOf, warmNet, available>>
  PROVE  OwnersOK' /\ UNCHANGED Pool!poolVars
<1>1. Offered' = Offered /\ NetUsers' = NetUsers
  BY DEF Offered, NetUsers
<1>2. OfferedOnce'
  BY DEF OwnersOK, OfferedOnce
<1> QED
  BY <1>1, <1>2 DEF OwnersOK, Pool!poolVars

\* What a step of the network pool does for the abstract one.
Mapped == OwnersOK' /\ HoldingOK' /\ [Pool!PoolNext]_(Pool!poolVars)

(* What a step for one user does, the abstract pool does too.              *)
LEMMA UserMaps ==
  ASSUME NEW u \in Phases \cup Warmers, NEW n \in Nets,
         Pool!Obtain(u, n) \/ Pool!Return(u, n) \/ Pool!Discard(u, n)
  PROVE  [Pool!PoolNext]_(Pool!poolVars)
BY DEF Pool!PoolNext

(* The control of a phase moves, and its network with it.                  *)
LEMMA PhaseMoves ==
  ASSUME HoldingOK, NEW p \in Phases, NEW to \in PhasePcs, Goto(p, to),
         UNCHANGED <<warmPc, warmNet>>, pooled' \subseteq Phases,
         \A q \in Phases : q # p => netOf'[q] = netOf[q] /\ (q \in pooled' => q \in pooled),
         to \in {"new", "count", "wait", "create", "alone"} => netOf'[p] = NoNet,
         to \in {"mark", "send"} \/ p \in pooled' => netOf'[p] \in Nets
  PROVE  HoldingOK'
<1>1. /\ netPc' \in [Phases -> PhasePcs] /\ netPc'[p] = to
      /\ \A q \in Phases : q # p => netPc'[q] = netPc[q]
  BY DEF HoldingOK, Goto
<1> QED
  BY <1>1 DEF HoldingOK

(* Acquire, the phase and the teardown as steps of the abstract pool       *)
(* (network_pool.go, http_grader.go, cleanup.go).                          *)
LEMMA PhaseMaps ==
  ASSUME OwnersOK, HoldingOK, NEW p \in Phases, PhaseStep(p) \/ CleanupStep(p)
  PROVE  Mapped
<1> USE DEF Mapped
<1> DEFINE n == netOf[p]
<1>1. netPc[p] \in PhasePcs /\ netOf \in [Phases -> Nets \cup {NoNet}]
  BY DEF HoldingOK, OwnersOK
<1>2. CASE CountNetworks(p) \/ WaitTimeout(p) \/ MarkInUse(p) \/ ReturnEarly(p)
             \/ RunCandidate(p) \/ TakeCleanupSlot(p) \/ RemoveCandidate(p)
  <2>1. /\ UNCHANGED <<netOf, warmNet, available, warmPc>>
        /\ pooled' \subseteq pooled \cup (IF netPc[p] = "mark" THEN {p} ELSE {})
    BY <1>2 DEF CountNetworks, WaitTimeout, MarkInUse, ReturnEarly, RunCandidate,
                TakeCleanupSlot, RemoveCandidate
  <2>2. \E to \in PhasePcs :
          /\ Goto(p, to) /\ to \notin {"new", "mark", "send"}
          /\ to \in {"count", "wait", "create", "alone"} =>
               netPc[p] \in {"count", "wait", "alone"}
    BY <1>2 DEF CountNetworks, WaitTimeout, MarkInUse, ReturnEarly, RunCandidate,
                TakeCleanupSlot, RemoveCandidate, PhasePcs, GradePcs, AcquirePcs, CleanPcs
  <2>3. HoldingOK'
    BY <2>1, <2>2, PhaseMoves DEF HoldingOK
  <2> QED
    BY <2>1, <2>3, OwnersStay
<1>3. CASE TryTake(p) \/ WaitTake(p)
  <2>1. CASE available = <<>>
    <3>1. /\ Goto(p, "count") /\ netPc[p] = "new"
          /\ UNCHANGED <<netOf, warmNet, available, warmPc, pooled>>
      BY <1>3, <2>1 DEF TryTake, WaitTake
    <3>2. HoldingOK'
      BY <3>1, PhaseMoves DEF HoldingOK, PhasePcs, GradePcs, AcquirePcs
    <3> QED
      BY <3>1, <3>2, OwnersStay
  <2>2. CASE available # <<>>
    <3>1. /\ netPc[p] \in {"new", "wait"} /\ Goto(p, "mark")
          /\ netOf' = [netOf EXCEPT ![p] = Head(available)]
          /\ available' = Tail(available) /\ UNCHANGED <<warmNet, warmPc, pooled>>
      BY <1>3, <2>2 DEF TryTake, WaitTake
    <3>2. PICK h \in Nets : /\ h = Head(available) /\ h \in Offered
                            /\ OfferedOnce' /\ Offered' = Offered \ {h}
      BY <2>2, <3>1, NetHeadTaken DEF OwnersOK
    <3>3. netOf[p] = NoNet /\ NetUsers[h] = {}
      BY <3>1, <3>2 DEF HoldingOK, OwnersOK, NetUsers
    <3>4. OwnersOK' /\ Pool!Obtain(p, h)
      BY <3>1, <3>2, <3>3, PhaseTakes
    <3>5. HoldingOK'
      BY <1>1, <3>1, <3>2, PhaseMoves DEF HoldingOK, PhasePcs, GradePcs, AcquirePcs
    <3> QED
      BY <3>4, <3>5, UserMaps
  <2> QED
    BY <2>1, <2>2
<1>4. CASE CreatePooled(p) \/ CreateOwn(p)
  <2>1. /\ netPc[p] \in {"create", "alone"} /\ Unused # {}
        /\ UNCHANGED <<available, warmNet, warmPc, pooled>>
    BY <1>4 DEF CreatePooled, CreateOwn
  <2>2. netOf[p] = NoNet
    BY <2>1 DEF HoldingOK
  <2>3. CASE Goto(p, "alone") /\ UNCHANGED netOf
    <3>1. HoldingOK'
      BY <2>1, <2>2, <2>3, PhaseMoves DEF HoldingOK, PhasePcs, GradePcs
    <3> QED
      BY <2>1, <2>3, <3>1, OwnersStay
  <2>4. ASSUME NEW to \in {"mark", "held", "submitted"}, Goto(p, to),
               netOf' = [netOf EXCEPT ![p] = Fresh]
        PROVE  Mapped
    <3>1. PICK h \in Nets : h = Fresh /\ h \notin Offered /\ NetUsers[h] = {}
      BY <2>1, FreshIsFree
    <3>2. OfferedOnce' /\ Offered' = Offered \ {h}
      BY <2>1, <3>1 DEF OwnersOK, OfferedOnce, Offered
    <3>3. OwnersOK' /\ Pool!Obtain(p, h)
      BY <2>1, <2>2, <2>4, <3>1, <3>2, PhaseTakes
    <3>4. HoldingOK'
      BY <1>1, <2>1, <2>4, <3>1, PhaseMoves DEF HoldingOK, PhasePcs, GradePcs, AcquirePcs
    <3> QED
      BY <3>3, <3>4, UserMaps
  <2> QED
    BY <1>4, <2>3, <2>4 DEF CreatePooled, CreateOwn
<1>5. CASE ReturnNetwork(p)
  <2>1. netPc[p] = "return" /\ UNCHANGED <<available, warmNet, warmPc, pooled>>
    BY <1>5 DEF ReturnNetwork
  <2>2. CASE p \in pooled
    <3>1. Goto(p, "send") /\ UNCHANGED netOf
      BY <1>5, <2>2 DEF ReturnNetwork
    <3>2. HoldingOK'
      BY <2>1, <2>2, <3>1, PhaseMoves DEF HoldingOK, PhasePcs, CleanPcs
    <3> QED
      BY <2>1, <3>1, <3>2, OwnersStay
  <2>3. CASE p \notin pooled
    <3>1. Goto(p, "done") /\ netOf' = [netOf EXCEPT ![p] = NoNet]
      BY <1>5, <2>3 DEF ReturnNetwork
    <3>2. HoldingOK'
      BY <1>1, <2>1, <2>3, <3>1, PhaseMoves DEF HoldingOK, PhasePcs
    <3>3. CASE n = NoNet
      <4>1. netOf' = netOf
        BY <1>1, <3>1, <3>3
      <4> QED
        BY <2>1, <3>2, <4>1, OwnersStay
    <3>4. CASE n \in Nets
      <4>1. OfferedOnce' /\ Offered' = Offered
        BY <2>1 DEF OwnersOK, OfferedOnce, Offered
      <4>2. OwnersOK' /\ (Pool!Return(p, n) \/ Pool!Discard(p, n))
        BY <2>1, <3>1, <3>4, <4>1, PhaseLeaves
      <4> QED
        BY <3>2, <3>4, <4>2, UserMaps
    <3> QED
      BY <1>1, <3>3, <3>4
  <2> QED
    BY <2>2, <2>3
<1>6. CASE SendBack(p)
  <2>1. /\ netPc[p] = "send" /\ Goto(p, "done") /\ pooled' = pooled \ {p}
        /\ netOf' = [netOf EXCEPT ![p] = NoNet] /\ UNCHANGED <<warmNet, warmPc>>
        /\ available' = Append(available, n) \/ UNCHANGED available
    BY <1>6 DEF SendBack
  <2>2. n \in Nets /\ n \notin Offered
    BY <2>1 DEF HoldingOK, OwnersOK
  <2>3. OfferedOnce' /\ Offered' \in {Offered, Offered \cup {n}}
    <3>1. CASE UNCHANGED available
      BY <3>1 DEF OwnersOK, OfferedOnce, Offered
    <3>2. CASE available' = Append(available, n)
      BY <2>2, <3>2, NetEndPut DEF OwnersOK
    <3> QED
      BY <2>1, <3>1, <3>2
  <2>4. OwnersOK' /\ (Pool!Return(p, n) \/ Pool!Discard(p, n))
    BY <2>1, <2>2, <2>3, PhaseLeaves
  <2>5. HoldingOK'
    BY <1>1, <2>1, PhaseMoves DEF HoldingOK, PhasePcs
  <2> QED
    BY <2>2, <2>4, <2>5, UserMaps
<1> QED
  BY <1>2, <1>3, <1>4, <1>5, <1>6 DEF PhaseStep, CleanupStep

(* Warm as steps of the abstract pool (network_pool.go).                   *)
LEMMA WarmMaps ==
  ASSUME OwnersOK, HoldingOK, NEW w \in Warmers,
         StartWarm(w) \/ WarmCreate(w) \/ WarmSend(w)
  PROVE  Mapped
<1> USE DEF Mapped
<1> DEFINE n == warmNet[w]
<1>1. /\ UNCHANGED <<netPc, netOf, pooled>>
      /\ warmNet \in [Warmers -> Nets \cup {NoNet}]
      /\ warmPc \in [Warmers -> {"idle", "create", "send", "done"}]
  BY DEF StartWarm, WarmCreate, WarmSend, HoldingOK, OwnersOK
<1>2. ASSUME NEW to \in {"create", "done"}, warmPc' = [warmPc EXCEPT ![w] = to],
             warmPc[w] # "send", UNCHANGED <<warmNet, available>>
      PROVE  Mapped
  <2>1. HoldingOK'
    BY <1>1, <1>2 DEF HoldingOK
  <2> QED
    BY <1>1, <1>2, <2>1, OwnersStay
<1>3. CASE UNCHANGED <<warmPc, warmNet, available>>
  <2>1. HoldingOK'
    BY <1>1, <1>3 DEF HoldingOK
  <2> QED
    BY <1>1, <1>3, <2>1, OwnersStay
<1>4. CASE StartWarm(w)
  BY <1>2, <1>4 DEF StartWarm
<1>5. CASE WarmCreate(w)
  <2>1. warmPc[w] = "create" /\ UNCHANGED available
    BY <1>5 DEF WarmCreate
  <2>2. CASE /\ warmNet' = [warmNet EXCEPT ![w] = Fresh]
             /\ warmPc' = [warmPc EXCEPT ![w] = "send"] /\ Unused # {}
    <3>1. PICK h \in Nets : h = Fresh /\ h \notin Offered /\ NetUsers[h] = {}
      BY <2>2, FreshIsFree
    <3>2. warmNet[w] = NoNet
      BY <2>1 DEF HoldingOK
    <3>3. OwnersOK' /\ Pool!Obtain(w, h)
      BY <1>1, <2>1, <2>2, <3>1, <3>2, WarmerTakes
    <3>4. HoldingOK'
      BY <1>1, <2>2, <3>1 DEF HoldingOK
    <3> QED
      BY <3>3, <3>4, UserMaps
  <2> QED
    BY <1>2, <1>3, <1>5, <2>1, <2>2 DEF WarmCreate
<1>6. CASE WarmSend(w)
  <2>1. /\ warmPc[w] = "send" /\ warmPc' = [warmPc EXCEPT ![w] = "create"]
        /\ warmNet' = [warmNet EXCEPT ![w] = NoNet]
        /\ available' = Append(available, n) \/ UNCHANGED available
    BY <1>6 DEF WarmSend
  <2>2. n \in Nets /\ n \notin Offered
    BY <2>1 DEF HoldingOK, OwnersOK
  <2>3. OfferedOnce' /\ Offered' \in {Offered, Offered \cup {n}}
    <3>1. CASE UNCHANGED available
      BY <3>1 DEF OwnersOK, OfferedOnce, Offered
    <3>2. CASE available' = Append(available, n)
      BY <2>2, <3>2, NetEndPut DEF OwnersOK
    <3> QED
      BY <2>1, <3>1, <3>2
  <2>4. OwnersOK' /\ (Pool!Return(w, n) \/ Pool!Discard(w, n))
    BY <1>1, <2>1, <2>2, <2>3, WarmerLeaves
  <2>5. HoldingOK'
    BY <1>1, <2>1 DEF HoldingOK
  <2> QED
    BY <2>2, <2>4, <2>5, UserMaps
<1> QED
  BY <1>4, <1>5, <1>6

(* The end of a process empties the pool.                                  *)
LEMMA EndMaps ==
  ASSUME OwnersOK, HoldingOK, NEW next, ProcessEnds(next)
  PROVE  Mapped
<1>1. /\ available' = <<>> /\ pooled' = {}
      /\ netOf' = [p \in Phases |-> NoNet] /\ warmNet' = [w \in Warmers |-> NoNet]
      /\ netPc' = [p \in Phases |-> IF netPc[p] \in {"new", "done"} THEN netPc[p] ELSE "dead"]
      /\ warmPc' = [w \in Warmers |-> IF warmPc[w] = "idle" THEN "idle" ELSE "done"]
  BY DEF ProcessEnds
<1>2. OfferedOnce' /\ Offered' = {}
  BY <1>1 DEF OfferedOnce, Offered
<1>3. OwnersOK'
  BY <1>1, <1>2, NoNetIsNone DEF OwnersOK
<1>4. HoldingOK'
  BY <1>1 DEF HoldingOK, PhasePcs
<1>5. NetUsers' = [m \in Nets |-> {}]
  BY <1>1, NoNetIsNone DEF NetUsers
<1>6. Pool!Forget
  BY <1>2, <1>5 DEF Pool!Forget
<1> QED
  BY <1>3, <1>4, <1>6 DEF Mapped, Pool!PoolNext

(* The pool is empty at first.                                             *)
LEMMA OwnersInit == NetInit => OwnersOK /\ HoldingOK /\ Pool!PoolInit
<1> SUFFICES ASSUME NetInit PROVE OwnersOK /\ HoldingOK /\ Pool!PoolInit
  OBVIOUS
<1>1. /\ available = <<>> /\ pooled = {}
      /\ netOf = [p \in Phases |-> NoNet] /\ warmNet = [w \in Warmers |-> NoNet]
      /\ netPc = [p \in Phases |-> "new"] /\ warmPc = [w \in Warmers |-> "idle"]
  BY DEF NetInit
<1>2. OfferedOnce /\ Offered = {}
  BY <1>1 DEF OfferedOnce, Offered
<1>3. OwnersOK
  BY <1>1, <1>2, NoNetIsNone DEF OwnersOK
<1>4. HoldingOK
  BY <1>1 DEF HoldingOK, PhasePcs
<1>5. NetUsers = [m \in Nets |-> {}]
  BY <1>1, NoNetIsNone DEF NetUsers
<1> QED
  BY <1>2, <1>3, <1>4, <1>5 DEF Pool!PoolInit

(* Every step of the network pool is one of the abstract pool.             *)
LEMMA NetMaps == OwnersOK /\ HoldingOK /\ [NetNext]_netVars => Mapped
<1> SUFFICES ASSUME OwnersOK, HoldingOK, [NetNext]_netVars PROVE Mapped
  OBVIOUS
<1>1. CASE \/ Stop \/ JobsDone \/ CleanupDone \/ CloseContainers \/ CleanupOrphans
           \/ UNCHANGED netVars
  <2>1. UNCHANGED <<netPc, netOf, pooled, warmPc, warmNet, available>>
    BY <1>1 DEF Stop, JobsDone, CleanupDone, CloseContainers, CleanupOrphans, netVars, memory
  <2>2. HoldingOK'
    BY <2>1 DEF HoldingOK
  <2> QED
    BY <2>1, <2>2, OwnersStay DEF Mapped
<1>2. CASE DrainOne
  <2>1. /\ available # <<>> /\ available' = Tail(available)
        /\ UNCHANGED <<netPc, netOf, pooled, warmPc, warmNet>>
    BY <1>2 DEF DrainOne
  <2>2. PICK h \in Nets : /\ h \in Offered /\ OfferedOnce' /\ Offered' = Offered \ {h}
    BY <2>1, NetHeadTaken DEF OwnersOK
  <2>3. OwnersOK' /\ HoldingOK' /\ NetUsers' = NetUsers
    BY <2>1, <2>2 DEF OwnersOK, HoldingOK, NetUsers
  <2>4. Pool!Remove(h)
    BY <2>2, <2>3 DEF Pool!Remove
  <2> QED
    BY <2>3, <2>4 DEF Mapped, Pool!PoolNext
<1>3. CASE Exit \/ Crash \/ ContainerPanic \/ \E w \in Warmers : Panic(w)
  BY <1>3, EndMaps DEF Exit, Crash, ContainerPanic, Panic
<1> QED
  BY <1>1, <1>2, <1>3, PhaseMaps, WarmMaps DEF NetNext, WarmStep, ShutdownStep

(* The network pool is a pool: a network goes from one user to the next    *)
(* only through the channel, in every interleaving of Acquire, Release,    *)
(* Warm, Close, crashes and restarts (network_pool.go).                    *)
THEOREM NetworkPoolIsPool == NetSpec => NetworkPoolRefines
<1> QED
  BY OwnersInit, NetMaps, PTL DEF NetSpec, NetworkPoolRefines, Mapped, Pool!PoolSpec

(* The networks that exist                                                 *)

\* A phase or a warm-up has the network.
Held(n) == (\E p \in Phases : netOf[p] = n) \/ (\E w \in Warmers : warmNet[w] = n)

\* A network that exists is offered, held or lost; an offered one exists, and a
\* lost one does and is nobody's.
NetsKept ==
  /\ nets \subseteq Nets /\ Offered \subseteq nets
  /\ \A n \in nets : n \in Offered \cup lost \/ Held(n)
  /\ \A n \in lost : n \in nets /\ n \notin Offered /\ ~Held(n)

\* A network of the pool that a phase has exists, and so does a warm-up's.
UsersKept ==
  /\ \A p \in Phases :
       /\ netPc[p] \in {"mark", "send"} \/ p \in pooled => netOf[p] \in nets
       /\ netPc[p] \in {"done", "dead"} => netOf[p] = NoNet
  /\ \A w \in Warmers : warmNet[w] \in nets \cup {NoNet}

\* A container that is on a network is of the phase that has the network, until
\* its teardown has removed it, or nobody will remove it.
AttachedOK ==
  /\ attached \in [Nets -> SUBSET Phases]
  /\ \A n \in Nets : \A p \in attached[n] :
       \/ p \in dirty
       \/ netOf[p] = n /\ netPc[p] \in {"running", "submitted", "remove"}

\* After the end of a process nothing of it is left.
GoneOK ==
  stage \in {"starting", "exited"} =>
    /\ available = <<>>
    /\ \A p \in Phases : netPc[p] \in {"new", "done", "dead"}
    /\ \A w \in Warmers : warmPc[w] \in {"idle", "done"}

NetInv == OwnersOK /\ HoldingOK /\ NetTypeOK /\ NetsKept /\ UsersKept /\ AttachedOK /\ GoneOK

(* What docker network rm leaves, whatever it answers.                     *)
LEMMA Removal ==
  ASSUME NEW n, RemoveNetwork(n)
  PROVE  \/ nets' = nets \ {n} /\ lost' = lost
         \/ n \in nets /\ nets' = nets /\ lost' = lost \cup {n}
BY DEF RemoveNetwork

(* Nothing is created, removed or handed over.                             *)
LEMMA NetsStay ==
  ASSUME NetsKept, UNCHANGED <<netOf, warmNet, available, nets, lost>>
  PROVE  NetsKept'
<1>1. Offered' = Offered /\ \A n : Held(n)' <=> Held(n)
  BY DEF Offered, Held
<1> QED
  BY <1>1 DEF NetsKept

(* A network gets a user: it was offered, or it is new.                    *)
LEMMA NetTaken ==
  ASSUME NetsKept, NEW n \in Nets, n \notin lost, nets' = nets \cup {n}, lost' = lost,
         Offered' = Offered \ {n}, Held(n)', \A m \in Nets : m # n => (Held(m)' <=> Held(m))
  PROVE  NetsKept'
BY DEF NetsKept

(* A network that was offered or held goes back, or away.                  *)
LEMMA NetLeft ==
  ASSUME NetsKept, NEW n \in Nets, n \notin lost, ~Held(n)',
         \A m \in Nets : m # n => (Held(m)' <=> Held(m)),
         \/ n \in nets /\ Offered' = Offered \cup {n} /\ UNCHANGED <<nets, lost>>
         \/ /\ Offered' = Offered \ {n}
            /\ \/ nets' = nets \ {n} /\ lost' = lost
               \/ n \in nets /\ nets' = nets /\ lost' = lost \cup {n}
  PROVE  NetsKept'
BY DEF NetsKept

(* Of whoever else has a network nothing changes.                          *)
LEMMA PhaseHolds ==
  ASSUME OwnersOK, NEW p \in Phases, NEW n \in Nets \cup {NoNet}, NEW o, o = netOf[p],
         netOf' = [netOf EXCEPT ![p] = n], UNCHANGED warmNet,
         n \in Nets => ~Held(n) /\ o = NoNet
  PROVE  /\ netOf'[p] = n /\ \A q \in Phases : q # p => netOf'[q] = netOf[q]
         /\ n \in Nets => Held(n)' /\ \A m \in Nets : m # n => (Held(m)' <=> Held(m))
         /\ n = NoNet /\ o \in Nets =>
              /\ ~Held(o)'
              /\ \A m \in Nets : m # o => (Held(m)' <=> Held(m))
<1>1. netOf'[p] = n /\ \A q \in Phases : q # p => netOf'[q] = netOf[q]
  BY DEF OwnersOK
<1>2. ASSUME n \in Nets
      PROVE  Held(n)' /\ \A m \in Nets : m # n => (Held(m)' <=> Held(m))
  BY <1>1, <1>2, NoNetIsNone DEF Held
<1>3. ASSUME n = NoNet, o \in Nets
      PROVE  /\ ~Held(o)'
             /\ \A m \in Nets : m # o => (Held(m)' <=> Held(m))
  <2>1. \A q \in Phases : netOf'[q] # o
    BY <1>1, <1>3, NoNetIsNone DEF OwnersOK
  <2>2. \A w \in Warmers : warmNet'[w] # o
    BY <1>3 DEF OwnersOK
  <2>3. ASSUME NEW m \in Nets, m # o PROVE Held(m)' <=> Held(m)
    BY <1>1, <1>3, <2>3, NoNetIsNone DEF Held
  <2> QED
    BY <2>1, <2>2, <2>3 DEF Held
<1> QED
  BY <1>1, <1>2, <1>3

LEMMA WarmerHolds ==
  ASSUME OwnersOK, NEW w \in Warmers, NEW n \in Nets \cup {NoNet}, NEW o, o = warmNet[w],
         warmNet' = [warmNet EXCEPT ![w] = n], UNCHANGED netOf,
         n \in Nets => ~Held(n) /\ o = NoNet
  PROVE  /\ warmNet'[w] = n /\ \A v \in Warmers : v # w => warmNet'[v] = warmNet[v]
         /\ n \in Nets => Held(n)' /\ \A m \in Nets : m # n => (Held(m)' <=> Held(m))
         /\ n = NoNet /\ o \in Nets =>
              /\ ~Held(o)'
              /\ \A m \in Nets : m # o => (Held(m)' <=> Held(m))
<1>1. warmNet'[w] = n /\ \A v \in Warmers : v # w => warmNet'[v] = warmNet[v]
  BY DEF OwnersOK
<1>2. ASSUME n \in Nets
      PROVE  Held(n)' /\ \A m \in Nets : m # n => (Held(m)' <=> Held(m))
  BY <1>1, <1>2, NoNetIsNone DEF Held
<1>3. ASSUME n = NoNet, o \in Nets
      PROVE  /\ ~Held(o)'
             /\ \A m \in Nets : m # o => (Held(m)' <=> Held(m))
  <2>1. \A v \in Warmers : warmNet'[v] # o
    BY <1>1, <1>3, NoNetIsNone DEF OwnersOK
  <2>2. \A q \in Phases : netOf'[q] # o
    BY <1>3 DEF OwnersOK
  <2>3. ASSUME NEW m \in Nets, m # o PROVE Held(m)' <=> Held(m)
    BY <1>1, <1>3, <2>3, NoNetIsNone DEF Held
  <2> QED
    BY <2>1, <2>2, <2>3 DEF Held
<1> QED
  BY <1>1, <1>2, <1>3

(* A new name is nobody's, offered nowhere and not lost.                   *)
LEMMA FreshIsNew ==
  ASSUME Unused # {}
  PROVE  /\ Fresh \in Nets /\ Fresh \notin nets /\ Fresh \notin Offered /\ ~Held(Fresh)
<1>1. Fresh \in Unused
  BY DEF Fresh
<1> QED
  BY <1>1 DEF Unused, Held

(* A new network that nobody gets is lost, if it is there.                 *)
LEMMA NetLost ==
  ASSUME NetsKept, NEW n \in Nets, n \notin nets, n \notin Offered, ~Held(n),
         UNCHANGED <<netOf, warmNet, available>>,
         \/ UNCHANGED <<nets, lost>>
         \/ nets' = nets \cup {n} /\ lost' = lost \cup {n}
  PROVE  NetsKept'
<1>1. Offered' = Offered /\ \A m : Held(m)' <=> Held(m)
  BY DEF Offered, Held
<1> QED
  BY <1>1 DEF NetsKept

(* Acquire, the phase and the teardown forget no network.                  *)
LEMMA PhaseKeeps ==
  ASSUME NetInv, NEW p \in Phases, PhaseStep(p) \/ CleanupStep(p)
  PROVE  NetsKept' /\ UsersKept'
<1>0. PICK n : n = netOf[p]
  OBVIOUS
<1>1. /\ OwnersOK /\ HoldingOK /\ NetsKept /\ UsersKept
      /\ netPc \in [Phases -> PhasePcs] /\ netOf \in [Phases -> Nets \cup {NoNet}]
      /\ n \in Nets => n \notin lost /\ Held(n)
  BY <1>0 DEF NetInv, HoldingOK, OwnersOK, NetsKept, Held
<1>2. \A to : Goto(p, to) => netPc'[p] = to /\ \A q \in Phases : q # p => netPc'[q] = netPc[q]
  BY <1>1 DEF Goto
<1>3. CASE CountNetworks(p) \/ WaitTimeout(p) \/ MarkInUse(p) \/ ReturnEarly(p)
             \/ RunCandidate(p) \/ TakeCleanupSlot(p) \/ RemoveCandidate(p)
  <2>0. UNCHANGED <<netOf, warmNet, available, nets, lost>>
    BY <1>3 DEF CountNetworks, WaitTimeout, MarkInUse, ReturnEarly, RunCandidate,
                TakeCleanupSlot, RemoveCandidate, docker
  <2>1. /\ UNCHANGED <<netOf, warmNet, available, nets, lost>>
        /\ pooled' \subseteq pooled \cup (IF netPc[p] = "mark" THEN {p} ELSE {})
        /\ \E to : to \notin {"mark", "send", "done", "dead"} /\ Goto(p, to)
    BY <1>3, <2>0 DEF CountNetworks, WaitTimeout, MarkInUse, ReturnEarly, RunCandidate,
                TakeCleanupSlot, RemoveCandidate
  <2>2. NetsKept'
    BY <1>0, <1>1, <2>1, NetsStay
  <2>3. UsersKept'
    BY <1>0, <1>1, <1>2, <2>1 DEF UsersKept
  <2> QED
    BY <2>2, <2>3
<1>4. CASE TryTake(p) \/ WaitTake(p)
  <2>1. CASE available = <<>>
    <3>1. Goto(p, "count") /\ UNCHANGED <<netOf, warmNet, available, nets, lost, pooled>>
      BY <1>4, <2>1 DEF TryTake, WaitTake, docker
    <3> QED
      BY <1>0, <1>1, <1>2, <3>1, NetsStay DEF UsersKept
  <2>2. CASE available # <<>>
    <3>1. /\ netPc[p] \in {"new", "wait"} /\ Goto(p, "mark")
          /\ netOf' = [netOf EXCEPT ![p] = Head(available)]
          /\ available' = Tail(available) /\ UNCHANGED <<warmNet, nets, lost, pooled>>
      BY <1>4, <2>2 DEF TryTake, WaitTake, docker
    <3>2. PICK h \in Nets : h = Head(available) /\ h \in Offered /\ Offered' = Offered \ {h}
      BY <1>0, <1>1, <2>2, <3>1, NetHeadTaken DEF OwnersOK
    <3>3. netOf[p] = NoNet /\ ~Held(h) /\ h \in nets /\ h \notin lost
      BY <1>0, <1>1, <3>1, <3>2 DEF HoldingOK, OwnersOK, Held, NetsKept
    <3>4. /\ netOf'[p] = h /\ \A q \in Phases : q # p => netOf'[q] = netOf[q]
          /\ Held(h)' /\ \A m \in Nets : m # h => (Held(m)' <=> Held(m))
      BY <1>0, <1>1, <3>1, <3>2, <3>3, PhaseHolds
    <3>5. nets' = nets \cup {h}
      BY <3>1, <3>3
    <3>6. NetsKept'
      BY <1>0, <1>1, <3>1, <3>2, <3>3, <3>4, <3>5, NetTaken
    <3>7. UsersKept'
      BY <1>0, <1>1, <1>2, <3>1, <3>3, <3>4 DEF UsersKept
    <3> QED
      BY <3>6, <3>7
  <2> QED
    BY <2>1, <2>2
<1>5. CASE CreatePooled(p) \/ CreateOwn(p)
  <2>1. /\ netPc[p] \in {"create", "alone"} /\ Unused # {} /\ p \notin pooled
        /\ UNCHANGED <<available, warmNet, pooled>> /\ netOf[p] = NoNet
    BY <1>0, <1>1, <1>5, NoNetIsNone DEF CreatePooled, CreateOwn, HoldingOK
  <2>2. PICK h \in Nets : /\ h = Fresh /\ h \notin nets /\ h \notin Offered /\ ~Held(h)
                          /\ h \notin lost
    BY <1>0, <1>1, <2>1, FreshIsNew DEF NetsKept
  <2>3. CASE /\ Goto(p, "alone") /\ UNCHANGED netOf
             /\ \/ UNCHANGED <<nets, lost>>
                \/ nets' = nets \cup {h} /\ lost' = lost \cup {h}
    <3>1. NetsKept'
      BY <1>0, <1>1, <2>1, <2>2, <2>3, NetLost
    <3>2. UsersKept'
      BY <1>0, <1>1, <1>2, <2>1, <2>3 DEF UsersKept
    <3> QED
      BY <3>1, <3>2
  <2>4. ASSUME NEW to \in {"mark", "held", "submitted"}, Goto(p, to), lost' = lost,
               netOf' = [netOf EXCEPT ![p] = h],
               \/ nets' = nets \cup {h}
               \/ nets' = nets /\ to = "submitted"
        PROVE  NetsKept' /\ UsersKept'
    <3>1. /\ netOf'[p] = h /\ \A q \in Phases : q # p => netOf'[q] = netOf[q]
          /\ Held(h)' /\ \A m \in Nets : m # h => (Held(m)' <=> Held(m))
      BY <1>0, <1>1, <2>1, <2>2, <2>4, PhaseHolds
    <3>2. Offered' = Offered
      BY <2>1 DEF Offered
    <3>3. NetsKept'
      BY <1>0, <1>1, <2>2, <2>4, <3>1, <3>2 DEF NetsKept
    <3>4. UsersKept'
      BY <1>0, <1>1, <1>2, <2>1, <2>4, <3>1 DEF UsersKept
    <3> QED
      BY <3>3, <3>4
  <2>5. CASE CreatePooled(p)
    BY <2>2, <2>3, <2>4, <2>5 DEF CreatePooled
  <2>6. CASE CreateOwn(p)
    BY <2>2, <2>4, <2>6 DEF CreateOwn
  <2> QED
    BY <1>5, <2>5, <2>6
<1>6. CASE ReturnNetwork(p)
  <2>1. netPc[p] = "return" /\ UNCHANGED <<available, warmNet, pooled>>
    BY <1>6 DEF ReturnNetwork
  <2>2. CASE p \in pooled
    <3>1. Goto(p, "send") /\ UNCHANGED <<netOf, nets, lost>>
      BY <1>6, <2>2 DEF ReturnNetwork
    <3>2. UsersKept'
      BY <1>0, <1>1, <1>2, <2>1, <2>2, <3>1 DEF UsersKept
    <3> QED
      BY <1>0, <1>1, <2>1, <3>1, <3>2, NetsStay
  <2>3. CASE p \notin pooled
    <3>1. Goto(p, "done") /\ netOf' = [netOf EXCEPT ![p] = NoNet]
      BY <1>0, <1>6, <2>3 DEF ReturnNetwork
    <3>2. CASE n = NoNet
      <4>1. UNCHANGED <<netOf, nets, lost>>
        BY <1>0, <1>1, <1>6, <2>3, <3>1, <3>2 DEF ReturnNetwork
      <4>2. UsersKept'
        BY <1>0, <1>1, <1>2, <2>1, <2>3, <3>1, <3>2, <4>1 DEF UsersKept
      <4> QED
        BY <1>0, <1>1, <2>1, <4>1, <4>2, NetsStay
    <3>3. CASE n \in Nets
      <4>1. \/ nets' = nets \ {n} /\ lost' = lost
            \/ n \in nets /\ nets' = nets /\ lost' = lost \cup {n}
        BY <1>0, <1>6, <2>3, <3>3, NoNetIsNone, Removal DEF ReturnNetwork
      <4>2. /\ netOf'[p] = NoNet /\ \A q \in Phases : q # p => netOf'[q] = netOf[q]
            /\ ~Held(n)' /\ \A m \in Nets : m # n => (Held(m)' <=> Held(m))
        BY <1>0, <1>1, <2>1, <3>1, <3>3, NoNetIsNone, PhaseHolds
      <4>3. Offered' = Offered \ {n}
        BY <1>0, <1>1, <2>1, <3>3 DEF OwnersOK, Offered
      <4>4. NetsKept'
        BY <1>0, <1>1, <3>3, <4>1, <4>2, <4>3, NetLeft
      <4>5. \A q \in Phases : q # p => netOf[q] # n
        BY <1>0, <1>1, <3>3 DEF OwnersOK
      <4>6. \A w \in Warmers : warmNet[w] # n
        BY <1>0, <1>1, <3>3 DEF OwnersOK
      <4>7. UsersKept'
        BY <1>0, <1>1, <1>2, <2>1, <2>3, <3>1, <4>1, <4>2, <4>5, <4>6 DEF UsersKept
      <4> QED
        BY <4>4, <4>7
    <3> QED
      BY <1>0, <1>1, <3>2, <3>3
  <2> QED
    BY <2>2, <2>3
<1>7. CASE SendBack(p)
  <2>1. /\ netPc[p] = "send" /\ Goto(p, "done") /\ pooled' = pooled \ {p}
        /\ netOf' = [netOf EXCEPT ![p] = NoNet] /\ UNCHANGED warmNet
    BY <1>7 DEF SendBack
  <2>2. n \in Nets /\ n \notin Offered /\ n \in nets
    BY <1>0, <1>1, <2>1 DEF HoldingOK, OwnersOK, UsersKept
  <2>3. \/ n \in nets /\ Offered' = Offered \cup {n} /\ UNCHANGED <<nets, lost>>
        \/ /\ Offered' = Offered \ {n}
           /\ \/ nets' = nets \ {n} /\ lost' = lost
              \/ n \in nets /\ nets' = nets /\ lost' = lost \cup {n}
    <3>1. CASE UNCHANGED available /\ (RemoveNetwork(n) \/ (closed /\ nets' = nets /\ lost' = lost \cup {n}))
      <4>1. Offered' = Offered
        BY <3>1 DEF Offered
      <4> QED
        BY <2>2, <3>1, <4>1, Removal
    <3>2. CASE available' = Append(available, n) /\ UNCHANGED <<nets, lost>>
      BY <1>0, <1>1, <2>2, <3>2, NetEndPut DEF OwnersOK
    <3> QED
      BY <1>0, <1>7, <3>1, <3>2 DEF SendBack
  <2>4. /\ netOf'[p] = NoNet /\ \A q \in Phases : q # p => netOf'[q] = netOf[q]
        /\ ~Held(n)' /\ \A m \in Nets : m # n => (Held(m)' <=> Held(m))
    BY <1>0, <1>1, <2>1, <2>2, NoNetIsNone, PhaseHolds
  <2>5. NetsKept'
    BY <1>0, <1>1, <2>2, <2>3, <2>4, NetLeft
  <2>6. \A q \in Phases : q # p => netOf[q] # n
    BY <1>0, <1>1, <2>2 DEF OwnersOK
  <2>7. \A w \in Warmers : warmNet[w] # n
    BY <1>0, <1>1, <2>2 DEF OwnersOK
  <2>8. UsersKept'
    BY <1>0, <1>1, <1>2, <2>1, <2>3, <2>4, <2>6, <2>7 DEF UsersKept
  <2> QED
    BY <2>5, <2>8
<1> QED
  BY <1>3, <1>4, <1>5, <1>6, <1>7 DEF PhaseStep, CleanupStep

(* Warm forgets no network, unless the process ends on the closed channel. *)
LEMMA WarmKeeps ==
  ASSUME NetInv, NEW w \in Warmers, StartWarm(w) \/ WarmCreate(w) \/ WarmSend(w)
  PROVE  NetsKept' /\ UsersKept'
<1>0. PICK n : n = warmNet[w]
  OBVIOUS
<1>1. /\ OwnersOK /\ HoldingOK /\ NetsKept /\ UsersKept
      /\ warmNet \in [Warmers -> Nets \cup {NoNet}]
      /\ n \in Nets => n \notin lost /\ Held(n)
  BY <1>0 DEF NetInv, HoldingOK, OwnersOK, NetsKept, Held
<1>2. UNCHANGED <<netPc, netOf, pooled>>
  BY DEF StartWarm, WarmCreate, WarmSend
<1>3. CASE UNCHANGED <<warmNet, available, nets, lost>>
  BY <1>0, <1>1, <1>2, <1>3, NetsStay DEF UsersKept
<1>4. CASE WarmCreate(w) /\ ~UNCHANGED <<warmNet, available, nets, lost>>
  <2>1. /\ warmPc[w] = "create" /\ Unused # {} /\ UNCHANGED <<available, lost>>
        /\ nets' = nets \cup {Fresh} /\ warmNet' = [warmNet EXCEPT ![w] = Fresh]
    BY <1>4 DEF WarmCreate
  <2>2. PICK h \in Nets : /\ h = Fresh /\ h \notin nets /\ h \notin Offered /\ ~Held(h)
                          /\ h \notin lost
    BY <1>0, <1>1, <2>1, FreshIsNew DEF NetsKept
  <2>3. warmNet[w] = NoNet
    BY <1>0, <1>1, <2>1 DEF HoldingOK
  <2>4. /\ warmNet'[w] = h /\ \A v \in Warmers : v # w => warmNet'[v] = warmNet[v]
        /\ Held(h)' /\ \A m \in Nets : m # h => (Held(m)' <=> Held(m))
    BY <1>0, <1>1, <1>2, <2>1, <2>2, <2>3, WarmerHolds
  <2>5. Offered' = Offered \ {h}
    BY <2>1, <2>2 DEF Offered
  <2>6. NetsKept'
    BY <1>0, <1>1, <2>1, <2>2, <2>4, <2>5, NetTaken
  <2>7. UsersKept'
    BY <1>0, <1>1, <1>2, <2>1, <2>2, <2>4 DEF UsersKept
  <2> QED
    BY <2>6, <2>7
<1>5. CASE WarmSend(w)
  <2>1. warmPc[w] = "send" /\ warmNet' = [warmNet EXCEPT ![w] = NoNet]
    BY <1>5 DEF WarmSend
  <2>2. n \in Nets /\ n \notin Offered /\ n \in nets
    BY <1>0, <1>1, <2>1, NoNetIsNone DEF HoldingOK, OwnersOK, UsersKept
  <2>3. \/ n \in nets /\ Offered' = Offered \cup {n} /\ UNCHANGED <<nets, lost>>
        \/ /\ Offered' = Offered \ {n}
           /\ \/ nets' = nets \ {n} /\ lost' = lost
              \/ n \in nets /\ nets' = nets /\ lost' = lost \cup {n}
    <3>1. CASE UNCHANGED available /\ RemoveNetwork(n)
      <4>1. Offered' = Offered
        BY <3>1 DEF Offered
      <4> QED
        BY <2>2, <3>1, <4>1, Removal
    <3>2. CASE available' = Append(available, n) /\ UNCHANGED <<nets, lost>>
      BY <1>0, <1>1, <2>2, <3>2, NetEndPut DEF OwnersOK
    <3> QED
      BY <1>0, <1>5, <3>1, <3>2 DEF WarmSend
  <2>4. /\ warmNet'[w] = NoNet /\ \A v \in Warmers : v # w => warmNet'[v] = warmNet[v]
        /\ ~Held(n)' /\ \A m \in Nets : m # n => (Held(m)' <=> Held(m))
    BY <1>0, <1>1, <1>2, <2>1, <2>2, NoNetIsNone, WarmerHolds
  <2>5. NetsKept'
    BY <1>0, <1>1, <2>2, <2>3, <2>4, NetLeft
  <2>6. \A q \in Phases : netOf[q] # n
    BY <1>0, <1>1, <2>2 DEF OwnersOK
  <2>7. \A v \in Warmers : v # w => warmNet[v] # n
    BY <1>0, <1>1, <2>2 DEF OwnersOK
  <2>8. UsersKept'
    BY <1>0, <1>1, <1>2, <2>1, <2>3, <2>4, <2>6, <2>7 DEF UsersKept
  <2> QED
    BY <2>5, <2>8
<1> QED
  BY <1>3, <1>4, <1>5 DEF StartWarm, WarmCreate, docker

(* After the end of a process every network that is left is lost.          *)
LEMMA EndKeeps ==
  ASSUME NetInv, NEW next, ProcessEnds(next)
  PROVE  NetsKept' /\ UsersKept'
<1>1. /\ available' = <<>> /\ pooled' = {} /\ lost' = nets /\ nets' = nets
      /\ netOf' = [p \in Phases |-> NoNet] /\ warmNet' = [w \in Warmers |-> NoNet]
      /\ netPc' = [p \in Phases |-> IF netPc[p] \in {"new", "done"} THEN netPc[p] ELSE "dead"]
  BY DEF ProcessEnds
<1>2. Offered' = {} /\ \A n \in Nets : ~Held(n)'
  BY <1>1, NoNetIsNone DEF Offered, Held
<1>3. nets \subseteq Nets
  BY DEF NetInv, NetsKept
<1>4. NetsKept'
  BY <1>1, <1>2, <1>3 DEF NetsKept
<1>5. UsersKept'
  BY <1>1 DEF UsersKept
<1> QED
  BY <1>4, <1>5

(* No step forgets a network.                                              *)
LEMMA KeepStep ==
  ASSUME NetInv, [NetNext]_netVars
  PROVE  NetsKept' /\ UsersKept'
<1>1. OwnersOK /\ NetsKept /\ UsersKept /\ GoneOK
  BY DEF NetInv
<1>2. CASE Stop \/ JobsDone \/ CleanupDone \/ CloseContainers \/ UNCHANGED netVars
  <2>1. UNCHANGED <<netPc, netOf, pooled, warmNet, available, nets, lost>>
    BY <1>2 DEF Stop, JobsDone, CleanupDone, CloseContainers, netVars, memory, docker
  <2> QED
    BY <1>1, <2>1, NetsStay DEF UsersKept
<1>3. CASE CleanupOrphans
  <2>1. /\ stage = "starting" /\ nets' \subseteq nets /\ lost' = nets'
        /\ UNCHANGED <<netPc, netOf, pooled, warmNet, warmPc, available>>
    BY <1>3 DEF CleanupOrphans, memory
  <2>2. /\ available = <<>> /\ \A p \in Phases : netPc[p] \in {"new", "done", "dead"}
        /\ \A w \in Warmers : warmPc[w] \in {"idle", "done"}
    BY <1>1, <2>1 DEF GoneOK
  <2>3. /\ \A p \in Phases : netOf[p] = NoNet /\ p \notin pooled
        /\ \A w \in Warmers : warmNet[w] = NoNet
    BY <1>1, <2>2, NoNetIsNone DEF NetInv, HoldingOK, UsersKept
  <2>4. Offered' = {} /\ \A n \in Nets : ~Held(n)'
    BY <2>1, <2>2, <2>3, NoNetIsNone DEF Offered, Held
  <2>5. NetsKept'
    BY <1>1, <2>1, <2>4 DEF NetsKept
  <2>6. UsersKept'
    BY <2>1, <2>2, <2>3 DEF UsersKept
  <2> QED
    BY <2>5, <2>6
<1>4. CASE DrainOne
  <2>1. /\ available # <<>> /\ available' = Tail(available) /\ RemoveNetwork(Head(available))
        /\ UNCHANGED <<netPc, netOf, pooled, warmNet>>
    BY <1>4 DEF DrainOne
  <2>2. PICK h \in Nets : h = Head(available) /\ h \in Offered /\ Offered' = Offered \ {h}
    BY <1>1, <2>1, NetHeadTaken DEF OwnersOK
  <2>3. ~Held(h) /\ h \notin lost /\ \A m : Held(m)' <=> Held(m)
    BY <1>1, <2>1, <2>2 DEF OwnersOK, Held, NetsKept
  <2>4. \/ nets' = nets \ {h} /\ lost' = lost
        \/ h \in nets /\ nets' = nets /\ lost' = lost \cup {h}
    BY <2>1, <2>2, Removal
  <2>5. NetsKept'
    BY <1>1, <2>2, <2>3, <2>4, NetLeft
  <2>6. UsersKept'
    BY <1>1, <2>1, <2>3, <2>4 DEF UsersKept, Held
  <2> QED
    BY <2>5, <2>6
<1>5. CASE Exit \/ Crash \/ ContainerPanic \/ \E w \in Warmers : Panic(w)
  BY <1>5, EndKeeps DEF Exit, Crash, ContainerPanic, Panic
<1> QED
  BY <1>2, <1>3, <1>4, <1>5, PhaseKeeps, WarmKeeps DEF NetNext, WarmStep, ShutdownStep

(* Containers on networks, after every step.                               *)
LEMMA AttachedStep ==
  ASSUME NetInv, [NetNext]_netVars
  PROVE  AttachedOK'
<1>1. /\ AttachedOK /\ attached \in [Nets -> SUBSET Phases] /\ HoldingOK
      /\ netPc \in [Phases -> PhasePcs] /\ netOf \in [Phases -> Nets \cup {NoNet}]
  BY DEF NetInv, AttachedOK, HoldingOK, OwnersOK
<1>2. ASSUME UNCHANGED <<attached, dirty>>,
             \A p \in Phases : \/ netPc'[p] = netPc[p] /\ netOf'[p] = netOf[p]
                               \/ netPc[p] \notin {"running", "submitted", "remove"}
                               \/ /\ netPc'[p] \in {"submitted", "remove"}
                                  /\ netOf'[p] = netOf[p]
      PROVE  AttachedOK'
  <2> SUFFICES ASSUME NEW n \in Nets, NEW p \in attached[n], p \notin dirty
               PROVE  netOf'[p] = n /\ netPc'[p] \in {"running", "submitted", "remove"}
    BY <1>1, <1>2 DEF AttachedOK
  <2>1. p \in Phases /\ netOf[p] = n /\ netPc[p] \in {"running", "submitted", "remove"}
    BY <1>1 DEF AttachedOK
  <2> QED
    BY <1>2, <2>1
<1>3. ASSUME NEW p \in Phases, PhaseStep(p) \/ CleanupStep(p) PROVE AttachedOK'
  <2>1. CASE RunCandidate(p)
    <3>1. /\ netPc[p] = "held" /\ netOf[p] \in Nets /\ UNCHANGED <<netOf, dirty>>
          /\ attached' = [attached EXCEPT ![netOf[p]] = @ \cup {p}] /\ Goto(p, "running")
      BY <2>1 DEF RunCandidate, NetInv, NetsKept
    <3>2. netPc'[p] = "running" /\ \A q \in Phases : q # p => netPc'[q] = netPc[q]
      BY <1>1, <3>1 DEF Goto
    <3>3. attached' \in [Nets -> SUBSET Phases]
      BY <1>1, <3>1
    <3>4. \A n \in Nets : \A q \in attached'[n] :
            q \in attached[n] \/ (q = p /\ n = netOf[p])
      BY <1>1, <3>1
    <3> QED
      BY <1>1, <3>1, <3>2, <3>3, <3>4 DEF AttachedOK
  <2>2. CASE RemoveCandidate(p)
    <3>1. Goto(p, "return") /\ UNCHANGED netOf
      BY <2>2 DEF RemoveCandidate
    <3>2. \A q \in Phases : q # p => netPc'[q] = netPc[q]
      BY <1>1, <3>1 DEF Goto
    <3>3. \/ attached' = [n \in Nets |-> attached[n] \ {p}] /\ dirty' = dirty
          \/ attached' = attached /\ dirty' = dirty \cup {p}
      BY <2>2 DEF RemoveCandidate
    <3>4. attached' \in [Nets -> SUBSET Phases]
      BY <1>1, <3>3
    <3>5. \A n \in Nets : \A q \in attached'[n] : q \in attached[n] /\ (q # p \/ p \in dirty')
      BY <1>1, <3>3
    <3> QED
      BY <1>1, <3>1, <3>2, <3>3, <3>4, <3>5 DEF AttachedOK
  <2>3. CASE ~RunCandidate(p) /\ ~RemoveCandidate(p)
    <3>1. UNCHANGED <<attached, dirty>>
      BY <1>3, <2>3 DEF PhaseStep, CleanupStep, TryTake, CountNetworks, WaitTake,
         WaitTimeout, CreatePooled, MarkInUse, ReturnEarly, CreateOwn,
         TakeCleanupSlot, ReturnNetwork, SendBack, docker
    <3>2. \/ netPc[p] \notin {"running", "submitted", "remove"}
          \/ UNCHANGED netOf /\ \E to \in {"submitted", "remove"} : Goto(p, to)
      BY <1>3, <2>3 DEF PhaseStep, CleanupStep, TryTake, CountNetworks, WaitTake,
         WaitTimeout, CreatePooled, MarkInUse, ReturnEarly, CreateOwn,
         TakeCleanupSlot, ReturnNetwork, SendBack
    <3>3. \E to : Goto(p, to)
      BY <1>3 DEF PhaseStep, CleanupStep, TryTake, CountNetworks, WaitTake,
         WaitTimeout, CreatePooled, MarkInUse, ReturnEarly, CreateOwn, RunCandidate,
         TakeCleanupSlot, RemoveCandidate, ReturnNetwork, SendBack
    <3>4. UNCHANGED netOf \/ \E n : netOf' = [netOf EXCEPT ![p] = n]
      BY <1>3 DEF PhaseStep, CleanupStep, TryTake, CountNetworks, WaitTake,
         WaitTimeout, CreatePooled, MarkInUse, ReturnEarly, CreateOwn, RunCandidate,
         TakeCleanupSlot, RemoveCandidate, ReturnNetwork, SendBack
    <3>5. \A q \in Phases : q # p => netPc'[q] = netPc[q] /\ netOf'[q] = netOf[q]
      BY <1>1, <3>3, <3>4 DEF Goto
    <3>6. \A to : Goto(p, to) => netPc'[p] = to
      BY <1>1 DEF Goto
    <3> QED
      BY <1>2, <3>1, <3>2, <3>5, <3>6
  <2> QED
    BY <2>1, <2>2, <2>3
<1>4. CASE Exit \/ Crash \/ ContainerPanic \/ \E w \in Warmers : Panic(w)
  <2>1. attached' = attached /\ dirty' = UNION {attached[n] : n \in Nets}
    BY <1>4 DEF Exit, Crash, ContainerPanic, Panic, ProcessEnds
  <2> QED
    BY <1>1, <2>1 DEF AttachedOK
<1>5. CASE \/ Stop \/ JobsDone \/ CleanupDone \/ CloseContainers \/ DrainOne \/ CleanupOrphans
           \/ \E w \in Warmers : StartWarm(w) \/ WarmCreate(w) \/ WarmSend(w)
           \/ UNCHANGED netVars
  <2>1. UNCHANGED <<attached, dirty, netPc, netOf>>
    BY <1>5 DEF Stop, JobsDone, CleanupDone, CloseContainers, DrainOne, CleanupOrphans, StartWarm,
       WarmCreate, WarmSend, netVars, memory, docker
  <2> QED
    BY <1>2, <2>1
<1> QED
  BY <1>3, <1>4, <1>5 DEF NetNext, WarmStep, ShutdownStep

(* A process that is gone has nothing running.                             *)
LEMMA GoneStep ==
  ASSUME NetInv, [NetNext]_netVars
  PROVE  GoneOK'
<1>1. GoneOK /\ HoldingOK
  BY DEF NetInv
<1>2. ASSUME NEW p \in Phases, PhaseStep(p) \/ CleanupStep(p) PROVE GoneOK'
  <2>1. /\ stage' = stage /\ netPc[p] \notin {"done", "dead"}
        /\ (netPc[p] = "new" => stage \in {"up", "stopping"})
    BY <1>2 DEF PhaseStep, CleanupStep, TryTake, CountNetworks, WaitTake,
       WaitTimeout, CreatePooled, MarkInUse, ReturnEarly, CreateOwn, RunCandidate,
       TakeCleanupSlot, RemoveCandidate, ReturnNetwork, SendBack
  <2> QED
    BY <1>1, <2>1 DEF GoneOK
<1>3. ASSUME NEW w \in Warmers, StartWarm(w) \/ WarmCreate(w) \/ WarmSend(w) PROVE GoneOK'
  <2>1. stage' = stage /\ warmPc[w] # "done" /\ (warmPc[w] = "idle" => stage = "up")
    BY <1>3 DEF StartWarm, WarmCreate, WarmSend
  <2> QED
    BY <1>1, <2>1 DEF GoneOK
<1>4. CASE Exit \/ Crash \/ ContainerPanic \/ \E w \in Warmers : Panic(w)
  <2>1. /\ available' = <<>>
        /\ netPc' = [p \in Phases |-> IF netPc[p] \in {"new", "done"} THEN netPc[p] ELSE "dead"]
        /\ warmPc' = [w \in Warmers |-> IF warmPc[w] = "idle" THEN "idle" ELSE "done"]
    BY <1>4 DEF Exit, Crash, ContainerPanic, Panic, ProcessEnds
  <2> QED
    BY <2>1 DEF GoneOK
<1>5. CASE \/ Stop \/ JobsDone \/ CleanupDone \/ CloseContainers \/ DrainOne
           \/ CleanupOrphans \/ UNCHANGED netVars
  BY <1>1, <1>5 DEF GoneOK, Stop, JobsDone, CleanupDone, CloseContainers, DrainOne, CleanupOrphans,
     netVars, memory
<1> QED
  BY <1>2, <1>3, <1>4, <1>5 DEF NetNext, WarmStep, ShutdownStep

(* The rest of the types.                                                  *)
RestOK ==
  /\ stage \in {"starting", "up", "stopping", "waiting", "boxes", "stuck", "closing",
                "exited"}
  /\ inUse \subseteq Nets /\ closed \in BOOLEAN
  /\ warmLeft \in [Warmers -> Nat] /\ dirty \subseteq Phases
  /\ netFaults \in 0..MaxNetFaults /\ netCrashes \in 0..MaxNetCrashes

LEMMA FaultsCounted ==
  ASSUME netFaults \in 0..MaxNetFaults, Fault \/ UNCHANGED netFaults
  PROVE  netFaults' \in 0..MaxNetFaults
BY NetAssumption DEF Fault

LEMMA SizeIsNat ==
  ASSUME inUse \subseteq Nets, available \in Seq(Nets)
  PROVE  Size \in Nat
<1>1. IsFiniteSet(Nets)
  BY NetAssumption, FS_Interval DEF Nets
<1>2. Cardinality(inUse) \in Nat
  BY <1>1, FS_Subset, FS_CardinalityType
<1>3. Len(available) \in Nat
  OBVIOUS
<1> QED
  BY <1>2, <1>3 DEF Size

LEMMA RestStep ==
  ASSUME NetInv, [NetNext]_netVars
  PROVE  RestOK'
<1>1. RestOK /\ HoldingOK /\ AttachedOK /\ available \in Seq(Nets)
  BY DEF NetInv, NetTypeOK, RestOK
<1>2. ASSUME NEW p \in Phases, PhaseStep(p) \/ CleanupStep(p) PROVE RestOK'
  <2>1. UNCHANGED <<stage, closed, warmLeft, netCrashes>> /\ dirty' \subseteq dirty \cup {p}
    BY <1>2 DEF PhaseStep, CleanupStep, TryTake, CountNetworks, WaitTake,
       WaitTimeout, CreatePooled, MarkInUse, ReturnEarly, CreateOwn, RunCandidate,
       TakeCleanupSlot, RemoveCandidate, ReturnNetwork, SendBack, docker
  <2>2. Fault \/ UNCHANGED netFaults
    BY <1>2 DEF PhaseStep, CleanupStep, TryTake, CountNetworks, WaitTake,
       WaitTimeout, CreatePooled, MarkInUse, ReturnEarly, CreateOwn, RunCandidate,
       TakeCleanupSlot, RemoveCandidate, ReturnNetwork, SendBack, RemoveNetwork, Cancelled
  <2>3. inUse' \subseteq inUse \/ MarkInUse(p)
    BY <1>2 DEF PhaseStep, CleanupStep, TryTake, CountNetworks, WaitTake,
       WaitTimeout, CreatePooled, ReturnEarly, CreateOwn, RunCandidate,
       TakeCleanupSlot, RemoveCandidate, ReturnNetwork, SendBack
  <2>4. inUse' \subseteq Nets
    BY <1>1, <2>3 DEF RestOK, HoldingOK, MarkInUse
  <2> QED
    BY <1>1, <2>1, <2>2, <2>4, FaultsCounted DEF RestOK
<1>3. ASSUME NEW w \in Warmers, StartWarm(w) \/ WarmCreate(w) \/ WarmSend(w) PROVE RestOK'
  <2>1. UNCHANGED <<stage, closed, inUse, dirty, netCrashes>>
    BY <1>3 DEF StartWarm, WarmCreate, WarmSend, docker
  <2>2. Fault \/ UNCHANGED netFaults
    BY <1>3 DEF StartWarm, WarmCreate, WarmSend, RemoveNetwork
  <2>3. warmLeft' \in [Warmers -> Nat]
    <3>1. CASE StartWarm(w)
      <4>1. Size \in Nat /\ WarmCount \in Nat /\ MaxNetworks \in Nat
        BY <1>1, SizeIsNat, NetAssumption DEF RestOK
      <4> QED
        BY <1>1, <3>1, <4>1 DEF StartWarm, RestOK
    <3>2. CASE WarmCreate(w)
      BY <1>1, <3>2 DEF WarmCreate, RestOK
    <3>3. CASE WarmSend(w)
      BY <1>1, <3>3 DEF WarmSend, RestOK
    <3> QED
      BY <1>3, <3>1, <3>2, <3>3
  <2> QED
    BY <1>1, <2>1, <2>2, <2>3, FaultsCounted DEF RestOK
<1>4. CASE Exit \/ Crash \/ ContainerPanic \/ \E w \in Warmers : Panic(w)
  <2>1. /\ stage' \in {"exited", "starting"} /\ inUse' = {} /\ closed' = FALSE
        /\ warmLeft' = [w \in Warmers |-> 0] /\ dirty' = UNION {attached[n] : n \in Nets}
        /\ netFaults' = netFaults
        /\ netCrashes' = netCrashes \/ (netCrashes < MaxNetCrashes /\ netCrashes' = netCrashes + 1)
    BY <1>4 DEF Exit, Crash, ContainerPanic, Panic, ProcessEnds
  <2>2. dirty' \subseteq Phases
    BY <1>1, <2>1 DEF AttachedOK
  <2>3. netCrashes' \in 0..MaxNetCrashes
    BY <1>1, <2>1, NetAssumption DEF RestOK
  <2> QED
    BY <1>1, <2>1, <2>2, <2>3 DEF RestOK
<1>5. CASE \/ Stop \/ JobsDone \/ CleanupDone \/ CloseContainers \/ DrainOne
           \/ CleanupOrphans \/ UNCHANGED netVars
  <2>1. UNCHANGED <<inUse, warmLeft, dirty, netCrashes>> /\ (Fault \/ UNCHANGED netFaults)
    BY <1>5 DEF Stop, JobsDone, CleanupDone, CloseContainers, DrainOne, CleanupOrphans,
       RemoveNetwork, netVars, memory, docker
  <2>2. /\ stage' \in {stage, "stopping", "waiting", "boxes", "stuck", "closing", "up"}
        /\ closed' \in {closed, TRUE}
    BY <1>5 DEF Stop, JobsDone, CleanupDone, CloseContainers, DrainOne, CleanupOrphans,
       netVars, memory
  <2> QED
    BY <1>1, <2>1, <2>2, FaultsCounted DEF RestOK
<1> QED
  BY <1>2, <1>3, <1>4, <1>5 DEF NetNext, WarmStep, ShutdownStep

(* The invariant of the network pool.                                      *)
LEMMA NetAlways == NetSpec => []NetInv
<1>1. NetInit => NetInv
  <2> SUFFICES ASSUME NetInit PROVE NetInv
    OBVIOUS
  <2>1. /\ stage = "up" /\ available = <<>> /\ nets = {} /\ lost = {}
        /\ netPc = [p \in Phases |-> "new"] /\ netOf = [p \in Phases |-> NoNet]
        /\ pooled = {} /\ warmNet = [w \in Warmers |-> NoNet]
        /\ attached = [n \in Nets |-> {}]
    BY DEF NetInit
  <2>2. Offered = {}
    BY <2>1 DEF Offered
  <2>3. NetTypeOK
    <3>1. "new" \in PhasePcs /\ 0 \in 0..MaxNetFaults /\ 0 \in 0..MaxNetCrashes
      BY NetAssumption DEF PhasePcs
    <3>2. netFaults = 0 /\ netCrashes = 0 /\ dirty = {} /\ inUse = {} /\ closed = FALSE
          /\ warmPc = [w \in Warmers |-> "idle"] /\ warmLeft = [w \in Warmers |-> 0]
      BY DEF NetInit
    <3>3. /\ netPc \in [Phases -> PhasePcs] /\ netOf \in [Phases -> Nets \cup {NoNet}]
          /\ warmPc \in [Warmers -> {"idle", "create", "send", "done"}]
          /\ warmLeft \in [Warmers -> Nat] /\ warmNet \in [Warmers -> Nets \cup {NoNet}]
          /\ attached \in [Nets -> SUBSET Phases]
      BY <2>1, <3>1, <3>2
    <3> QED
      <4>1. available \in Seq(Nets)
        BY <2>1
      <4>2. netFaults \in 0..MaxNetFaults /\ netCrashes \in 0..MaxNetCrashes
        BY <3>1, <3>2
      <4>3. /\ inUse \subseteq Nets /\ closed \in BOOLEAN /\ pooled \subseteq Phases
            /\ nets \subseteq Nets /\ lost \subseteq nets /\ dirty \subseteq Phases
        BY <2>1, <3>2
      <4>4. stage \in {"starting", "up", "stopping", "waiting", "boxes", "stuck", "closing",
                       "exited"}
        BY <2>1
      <4> QED
        BY <3>3, <4>1, <4>2, <4>3, <4>4 DEF NetTypeOK
  <2>4. NetsKept /\ UsersKept /\ AttachedOK /\ GoneOK
    BY <2>1, <2>2 DEF NetsKept, UsersKept, AttachedOK, GoneOK
  <2> QED
    BY <2>3, <2>4, OwnersInit DEF NetInv
<1>2. NetInv /\ [NetNext]_netVars => NetInv'
  <2> SUFFICES ASSUME NetInv, [NetNext]_netVars PROVE NetInv'
    OBVIOUS
  <2>1. OwnersOK' /\ HoldingOK'
    BY NetMaps DEF NetInv, Mapped
  <2>2. NetsKept' /\ UsersKept' /\ AttachedOK' /\ GoneOK' /\ RestOK'
    BY KeepStep, AttachedStep, GoneStep, RestStep
  <2>3. NetTypeOK'
    BY <2>1, <2>2 DEF NetTypeOK, OwnersOK, OfferedOnce, HoldingOK, NetsKept, AttachedOK, RestOK
  <2> QED
    BY <2>1, <2>2, <2>3 DEF NetInv
<1> QED
  BY <1>1, <1>2, PTL DEF NetSpec

(* Types, and where a phase and a warm-up may be in their code, for any     *)
(* bounds on networks, faults and crashes.                                 *)
THEOREM NetTypesAlways == NetSpec => []NetTypeOK
<1>1. NetInv => NetTypeOK
  BY DEF NetInv
<1> QED
  BY <1>1, NetAlways, PTL

(* No path of Acquire, Release, Warm and Close forgets a network: every one *)
(* that Docker has is offered, used, or known as lost (network_pool.go).   *)
THEOREM NetworksAccountedAlways == NetSpec => []NetworksAccounted
<1>1. NetInv => NetworksAccounted
  BY DEF NetInv, NetsKept, NetworksAccounted, Held, NetUsers
<1> QED
  BY <1>1, NetAlways, PTL

(* A phase never shares its network with the container of an earlier        *)
(* submission, except one whose removal failed (http_grader.go:147-154).   *)
THEOREM CleanHandOutAlways == NetSpec => []CleanHandOut
<1>1. NetInv => CleanHandOut
  <2> SUFFICES ASSUME NetInv, NEW p \in Phases, netOf[p] \in nets,
                      NEW q \in attached[netOf[p]], q \notin dirty
               PROVE  q = p
    BY DEF CleanHandOut
  <2>1. netOf[p] \in Nets
    BY DEF NetInv, NetsKept
  <2>2. q \in Phases /\ netOf[q] = netOf[p]
    BY <2>1 DEF NetInv, AttachedOK
  <2> QED
    BY <2>1, <2>2 DEF NetInv, OwnersOK
<1> QED
  BY <1>1, NetAlways, PTL

-----------------------------------------------------------------------------
(* SqlGrading                                                              *)

WorkPcs == {"slot", "create", "ready", "setup", "script", "test", "query"}

Leased(f, d) == Cardinality({g \in Gradings : f[g] = d})

\* The connections: one for each test that queries, of the database of its suite.
LeasesOK ==
  /\ sqlPc \in [Gradings -> WorkPcs \cup {"begin", "conclude", "done"}]
  /\ suite \in [Gradings -> Dbs]
  /\ lease \in [Gradings -> Dbs \cup {Nobody}]
  /\ free \in [Dbs -> Nat]
  /\ \A g \in Gradings : lease[g] = IF sqlPc[g] = "query" THEN suite[g] ELSE Nobody
  /\ \A d \in Dbs : free[d] + Leased(lease, d) = MaxConns

(* A connection is taken from one of the databases.                        *)
LEMMA LeaseTaken ==
  ASSUME NEW g \in Gradings, NEW e \in Dbs, NEW before, NEW after,
         before \in [Gradings -> Dbs \cup {Nobody}], before[g] = Nobody,
         after[g] \in Dbs, after = [before EXCEPT ![g] = after[g]]
  PROVE  Leased(after, e) = Leased(before, e) + (IF e = after[g] THEN 1 ELSE 0)
<1> DEFINE S == {h \in Gradings : before[h] = e}
           T == {h \in Gradings : after[h] = e}
<1>1. IsFiniteSet(S) /\ Cardinality(S) \in Nat
  BY SqlAssumption, FS_Subset, FS_CardinalityType
<1>2. g \notin S /\ T = IF e = after[g] THEN S \cup {g} ELSE S
  BY DEF Dbs, Nobody
<1>3. Leased(before, e) = Cardinality(S) /\ Leased(after, e) = Cardinality(T)
  BY DEF Leased
<1> HIDE DEF S, T
<1> QED
  BY <1>1, <1>2, <1>3, FS_AddElement

(* A connection is given back.                                             *)
LEMMA LeaseGivenBack ==
  ASSUME NEW g \in Gradings, NEW e \in Dbs, NEW before, NEW after,
         before \in [Gradings -> Dbs \cup {Nobody}],
         after = [before EXCEPT ![g] = Nobody], before[g] \in Dbs
  PROVE  Leased(after, e) = Leased(before, e) - (IF e = before[g] THEN 1 ELSE 0)
<1> DEFINE S == {h \in Gradings : before[h] = e}
           T == {h \in Gradings : after[h] = e}
<1>1. IsFiniteSet(S) /\ Cardinality(S) \in Nat
  BY SqlAssumption, FS_Subset, FS_CardinalityType
<1>2. (g \in S <=> e = before[g]) /\ T = S \ {g}
  BY DEF Dbs, Nobody
<1>3. Leased(before, e) = Cardinality(S) /\ Leased(after, e) = Cardinality(T)
  BY DEF Leased
<1> HIDE DEF S, T
<1>4. Cardinality(S \ {g}) = IF g \in S THEN Cardinality(S) - 1 ELSE Cardinality(S)
  BY <1>1, FS_RemoveElement
<1> QED
  BY <1>1, <1>2, <1>3, <1>4

(* Leases are counted with natural numbers.                                *)
LEMMA LeasedType ==
  ASSUME NEW f, NEW d PROVE Leased(f, d) \in Nat
BY SqlAssumption, FS_Subset, FS_CardinalityType DEF Leased

(* Every path of a test gives its connection back: the connections of a    *)
(* database are free or with a test that queries it (sql_grader.go).       *)
THEOREM ConnectionsReturnedAlways == SqlSpec => []ConnectionsReturned
<1>1. SqlInit => LeasesOK
  <2> SUFFICES ASSUME SqlInit PROVE LeasesOK
    OBVIOUS
  <2>1. /\ sqlPc = [g \in Gradings |-> "begin"] /\ suite = [g \in Gradings |-> "public"]
        /\ lease = [g \in Gradings |-> Nobody] /\ free = [d \in Dbs |-> MaxConns]
    BY DEF SqlInit
  <2>2. \A d \in Dbs : {g \in Gradings : lease[g] = d} = {}
    BY <2>1 DEF Dbs, Nobody
  <2> QED
    <3>1. \A d \in Dbs : Leased(lease, d) = 0
      BY <2>2, FS_EmptySet DEF Leased
    <3> QED
      BY <2>1, <3>1, SqlAssumption DEF LeasesOK, Dbs
<1>2. LeasesOK /\ [SqlNext]_sqlVars => LeasesOK'
  <2> SUFFICES ASSUME LeasesOK, [SqlNext]_sqlVars PROVE LeasesOK'
    OBVIOUS
  <2>1. ASSUME NEW g \in Gradings, NEW l \in WorkPcs \cup {"begin", "conclude", "done"},
               sqlPc[g] # "query", l # "query", To(g, l),
               suite' \in [Gradings -> Dbs], \A h \in Gradings : h # g => suite'[h] = suite[h],
               UNCHANGED <<lease, free>>
        PROVE  LeasesOK'
    BY <2>1 DEF LeasesOK, To, WorkPcs
  <2>2. ASSUME NEW g \in Gradings, sqlPc[g] # "query", UNCHANGED <<lease, free>>,
               \/ \E n, total, success : SuiteEnds(g, n, total, success)
               \/ UNCHANGED suite /\ \E l \in WorkPcs \cup {"conclude", "done"} :
                                         l # "query" /\ To(g, l)
        PROVE  LeasesOK'
    <3>1. suite' = suite \/ suite' = [suite EXCEPT ![g] = "hidden"]
      BY <2>2 DEF SuiteEnds
    <3>2. suite' \in [Gradings -> Dbs] /\ \A h \in Gradings : h # g => suite'[h] = suite[h]
      BY <3>1 DEF LeasesOK, Dbs
    <3>3. \E l \in WorkPcs \cup {"begin", "conclude", "done"} : l # "query" /\ To(g, l)
      BY <2>2 DEF SuiteEnds
    <3> QED
      BY <2>1, <2>2, <3>2, <3>3
  <2>3. ASSUME NEW g \in Gradings,
               \/ BeginSuite(g) \/ TakeSlot(g) \/ CreateContainer(g) \/ AwaitReady(g)
               \/ SetUp(g) \/ IsolatedPublicTest(g) \/ TestsDone(g) \/ SqlConclude(g)
        PROVE  LeasesOK'
    <3>1. sqlPc[g] # "query" /\ UNCHANGED <<lease, free>>
      BY <2>3 DEF BeginSuite, TakeSlot, CreateContainer, AwaitReady, SetUp, IsolatedPublicTest,
                  TestsDone, SqlConclude, Mine
    <3>2. \/ \E n, total, success : SuiteEnds(g, n, total, success)
          \/ UNCHANGED suite /\ \E l \in WorkPcs \cup {"conclude", "done"} :
                                    l # "query" /\ To(g, l)
      BY <2>3 DEF BeginSuite, TakeSlot, CreateContainer, AwaitReady, SetUp, IsolatedPublicTest,
                  TestsDone, SqlConclude, NoContainer, TestEnds, WorkPcs
    <3> QED
      BY <2>2, <3>1, <3>2
  <2>4. ASSUME NEW g \in Gradings, ReadScript(g) PROVE LeasesOK'
    <3>1. /\ sqlPc[g] # "query" /\ UNCHANGED <<lease, free, suite>>
          /\ To(g, "test") \/ UNCHANGED sqlPc
      BY <2>4 DEF ReadScript, Mine
    <3>2. CASE To(g, "test")
      BY <2>2, <3>1, <3>2 DEF WorkPcs
    <3>3. CASE UNCHANGED sqlPc
      BY <3>1, <3>3 DEF LeasesOK
    <3> QED
      BY <3>1, <3>2, <3>3
  <2>5. ASSUME NEW g \in Gradings, TakeConnection(g) PROVE LeasesOK'
    <3>1. sqlPc[g] = "test" /\ UNCHANGED suite
      BY <2>5 DEF TakeConnection, Mine
    <3>2. CASE TestEnds(g, FALSE) /\ UNCHANGED <<free, lease>>
      BY <2>2, <3>1, <3>2 DEF TestEnds, WorkPcs
    <3>3. CASE /\ free[suite[g]] > 0
               /\ free' = [free EXCEPT ![suite[g]] = @ - 1]
               /\ lease' = [lease EXCEPT ![g] = suite[g]]
               /\ To(g, "query")
      <4>1. suite[g] \in Dbs /\ lease[g] = Nobody
        BY <3>1 DEF LeasesOK
      <4>2. free' \in [Dbs -> Nat]
        BY <3>3, <4>1 DEF LeasesOK
      <4>3. ASSUME NEW d \in Dbs PROVE free'[d] + Leased(lease', d) = MaxConns
        <5>1. Leased(lease', d) = Leased(lease, d) + (IF d = suite[g] THEN 1 ELSE 0)
          <6>1. lease \in [Gradings -> Dbs \cup {Nobody}]
            BY DEF LeasesOK
          <6>2. lease'[g] = suite[g] /\ lease' = [lease EXCEPT ![g] = lease'[g]]
            BY <3>3, <6>1
          <6>3. Leased(lease', d) = Leased(lease, d) + (IF d = lease'[g] THEN 1 ELSE 0)
            BY ONLY <6>1, <6>2, <4>1, g \in Gradings, d \in Dbs, LeaseTaken
          <6> QED
            BY <6>2, <6>3
        <5>2. free'[d] = free[d] - (IF d = suite[g] THEN 1 ELSE 0)
          BY <3>3, <4>1 DEF LeasesOK
        <5>3. free[d] \in Nat /\ Leased(lease, d) \in Nat /\ free[d] + Leased(lease, d) = MaxConns
          BY LeasedType DEF LeasesOK
        <5> QED
          BY <5>1, <5>2, <5>3
      <4>6. /\ sqlPc' \in [Gradings -> WorkPcs \cup {"begin", "conclude", "done"}]
            /\ lease' \in [Gradings -> Dbs \cup {Nobody}]
            /\ \A h \in Gradings : lease'[h] = IF sqlPc'[h] = "query" THEN suite[h] ELSE Nobody
        BY <3>3, <4>1 DEF LeasesOK, To, WorkPcs
      <4> QED
        BY <3>1, <4>2, <4>3, <4>6 DEF LeasesOK
    <3> QED
      BY <2>5, <3>2, <3>3 DEF TakeConnection
  <2>6. ASSUME NEW g \in Gradings, TestFails(g) \/ CompareRows(g) PROVE LeasesOK'
    <3>1. /\ sqlPc[g] = "query" /\ UNCHANGED suite
          /\ free' = [free EXCEPT ![lease[g]] = @ + 1]
          /\ lease' = [lease EXCEPT ![g] = Nobody] /\ To(g, "test")
      BY <2>6 DEF TestFails, CompareRows, Mine, TestEnds, GiveConnectionBack
    <3>2. lease[g] \in Dbs
      BY <3>1 DEF LeasesOK
    <3>3. free' \in [Dbs -> Nat]
      BY <3>1, <3>2 DEF LeasesOK
    <3>4. ASSUME NEW d \in Dbs PROVE free'[d] + Leased(lease', d) = MaxConns
      <4>1. Leased(lease', d) = Leased(lease, d) - (IF d = lease[g] THEN 1 ELSE 0)
        <5>1. lease \in [Gradings -> Dbs \cup {Nobody}]
          BY DEF LeasesOK
        <5>2. lease' = [lease EXCEPT ![g] = Nobody]
          BY <3>1
        <5> QED
          BY ONLY <5>1, <5>2, <3>2, g \in Gradings, d \in Dbs, LeaseGivenBack
      <4>2. free'[d] = free[d] + (IF d = lease[g] THEN 1 ELSE 0)
        BY <3>1, <3>2 DEF LeasesOK
      <4>3. free[d] \in Nat /\ Leased(lease, d) \in Nat /\ free[d] + Leased(lease, d) = MaxConns
        BY LeasedType DEF LeasesOK
      <4> QED
        BY <4>1, <4>2, <4>3
    <3>7. /\ sqlPc' \in [Gradings -> WorkPcs \cup {"begin", "conclude", "done"}]
          /\ lease' \in [Gradings -> Dbs \cup {Nobody}]
          /\ \A h \in Gradings : lease'[h] = IF sqlPc'[h] = "query" THEN suite[h] ELSE Nobody
      BY <3>1 DEF LeasesOK, To, WorkPcs
    <3> QED
      BY <3>1, <3>3, <3>4, <3>7 DEF LeasesOK
  <2>7. CASE (\E c \in SqlConts : DestroyContainer(c)) \/ UNCHANGED sqlVars
    BY <2>7 DEF DestroyContainer, sqlVars, LeasesOK
  <2> QED
    BY <2>3, <2>4, <2>5, <2>6, <2>7 DEF SqlNext, SqlStep
<1>3. LeasesOK => ConnectionsReturned
  BY DEF LeasesOK, ConnectionsReturned, Leased
<1> QED
  BY <1>1, <1>2, <1>3, PTL DEF SqlSpec

Full(g, d) == scores[g][d].passed = spec[g].tests[d] /\ spec[g].tests[d] > 0

\* The result of a suite is a success where all of its tests passed and it has
\* some; a grading works only on a suite with tests.
ScoresOK ==
  /\ spec \in [Gradings -> SqlSpecs]
  /\ sqlPc \in [Gradings -> WorkPcs \cup {"begin", "conclude", "done"}]
  /\ suite \in [Gradings -> Dbs]
  /\ scores \in [Gradings -> [Dbs -> [passed : Nat, total : Nat, success : BOOLEAN]]]
  /\ passed \in [Gradings -> Nat]
  /\ won = [g \in Gradings |-> won[g]]
  /\ \A g \in Gradings :
       /\ \A d \in Dbs : scores[g][d].success = Full(g, d)
       /\ sqlPc[g] \in WorkPcs => Tests(g) > 0
       /\ sqlPc[g] = "done" \/ won[g] = NoVerdict
       /\ sqlPc[g] = "done" => won[g] = Won(g)

(* A suite without a verdict of its own leaves what its tests say.         *)
LEMMA SuitesKept ==
  ASSUME ScoresOK, NEW g \in Gradings, NEW n \in Nat, NEW total \in Nat,
         NEW success \in BOOLEAN, SuiteEnds(g, n, total, success),
         success = (n = spec[g].tests[suite[g]] /\ spec[g].tests[suite[g]] > 0),
         sqlPc[g] # "done", passed' \in [Gradings -> Nat],
         UNCHANGED <<spec, won>>
  PROVE  ScoresOK'
<1> DEFINE r == [passed |-> n, total |-> total, success |-> success]
<1>1. suite[g] \in Dbs /\ r \in [passed : Nat, total : Nat, success : BOOLEAN]
  BY DEF ScoresOK
<1>2. scores' = [scores EXCEPT ![g] = [scores[g] EXCEPT ![suite[g]] = r]]
  BY DEF SuiteEnds, ScoresOK
<1>3. r.passed = n /\ r.success = success
  OBVIOUS
<1> HIDE DEF r
<1>4. /\ scores' \in [Gradings -> [Dbs -> [passed : Nat, total : Nat, success : BOOLEAN]]]
      /\ scores'[g][suite[g]] = r
      /\ \A d \in Dbs : d # suite[g] => scores'[g][d] = scores[g][d]
      /\ \A h \in Gradings : h # g => scores'[h] = scores[h]
  BY <1>1, <1>2 DEF ScoresOK
<1>5. \A h \in Gradings, d \in Dbs : scores'[h][d].success = Full(h, d)'
  <2> SUFFICES ASSUME NEW h \in Gradings, NEW d \in Dbs
               PROVE  scores'[h][d].success = Full(h, d)'
    OBVIOUS
  <2>1. scores[h][d].success = Full(h, d)
    BY DEF ScoresOK
  <2>2. CASE h = g /\ d = suite[g]
    BY <1>3, <1>4, <2>2 DEF Full
  <2>3. CASE ~(h = g /\ d = suite[g])
    <3>1. scores'[h][d] = scores[h][d]
      BY <1>4, <2>3
    <3> QED
      BY <2>1, <3>1 DEF Full
  <2> QED
    BY <2>2, <2>3
<1>6. /\ suite' \in [Gradings -> Dbs] /\ \A h \in Gradings : h # g => suite'[h] = suite[h]
      /\ sqlPc' \in [Gradings -> WorkPcs \cup {"begin", "conclude", "done"}]
      /\ sqlPc'[g] \in {"begin", "conclude"}
      /\ \A h \in Gradings : h # g => sqlPc'[h] = sqlPc[h]
  BY DEF SuiteEnds, To, ScoresOK, Dbs
<1>7. \A h \in Gradings : sqlPc'[h] \in WorkPcs => Tests(h)' > 0
  BY <1>6 DEF ScoresOK, Tests, WorkPcs
<1>8. \A h \in Gradings : /\ sqlPc'[h] = "done" \/ won[h] = NoVerdict
                          /\ sqlPc'[h] = "done" => h # g /\ won[h] = Won(h)
  BY <1>6 DEF ScoresOK
<1>9. \A h \in Gradings : h # g => Won(h)' = Won(h)
  BY <1>4 DEF Won
<1> QED
  BY <1>4, <1>5, <1>6, <1>7, <1>8, <1>9 DEF ScoresOK

(* A final SQL grading succeeds only if both suites have tests and all     *)
(* passed, a preview if the public suite has (sql_grader.go).              *)
THEOREM SqlSuccessAlways == SqlSpec => []SqlSuccessExplained
<1>1. SqlInit => ScoresOK
  <2> SUFFICES ASSUME SqlInit PROVE ScoresOK
    OBVIOUS
  <2>1. \A g \in Gradings, d \in Dbs : spec[g].tests[d] \in Nat
    BY SqlAssumption DEF SqlInit
  <2> QED
    <3>1. /\ spec \in [Gradings -> SqlSpecs]
          /\ sqlPc = [g \in Gradings |-> "begin"] /\ suite = [g \in Gradings |-> "public"]
          /\ passed = [g \in Gradings |-> 0] /\ won = [g \in Gradings |-> NoVerdict]
      BY DEF SqlInit
    <3>6. won = [g \in Gradings |-> won[g]]
      BY <3>1
    <3>2. /\ scores \in [Gradings -> [Dbs -> [passed : Nat, total : Nat, success : BOOLEAN]]]
          /\ \A g \in Gradings, d \in Dbs :
               scores[g][d].passed = 0 /\ scores[g][d].success = FALSE
      BY DEF SqlInit
    <3>3. \A g \in Gradings, d \in Dbs : ~Full(g, d)
      BY <2>1, <3>2 DEF Full
    <3>4. \A g \in Gradings, d \in Dbs : scores[g][d].success = Full(g, d)
      BY <3>2, <3>3 DEF Full
    <3>5. /\ sqlPc \in [Gradings -> WorkPcs \cup {"begin", "conclude", "done"}]
          /\ suite \in [Gradings -> Dbs] /\ passed \in [Gradings -> Nat]
          /\ \A g \in Gradings : /\ sqlPc[g] \notin WorkPcs /\ sqlPc[g] # "done"
                                 /\ won[g] = NoVerdict
      BY <3>1 DEF WorkPcs, Dbs
    <3> QED
      BY <3>1, <3>2, <3>4, <3>5, <3>6 DEF ScoresOK
<1>2. ScoresOK /\ [SqlNext]_sqlVars => ScoresOK'
  <2> SUFFICES ASSUME ScoresOK, [SqlNext]_sqlVars PROVE ScoresOK'
    OBVIOUS
  <2>1. \A g \in Gradings : spec[g].tests[suite[g]] \in Nat
    BY SqlAssumption DEF ScoresOK
  <2>2. ASSUME NEW g \in Gradings, SuiteEnds(g, 0, 0, FALSE), sqlPc[g] # "done",
               passed' \in [Gradings -> Nat], UNCHANGED <<spec, won>>
        PROVE  ScoresOK'
    <3>1. FALSE = (0 = spec[g].tests[suite[g]] /\ spec[g].tests[suite[g]] > 0)
      BY <2>1
    <3>2. 0 \in Nat /\ FALSE \in BOOLEAN
      OBVIOUS
    <3> QED
      BY <2>2, <3>1, <3>2, SuitesKept
  <2>3. ASSUME NEW g \in Gradings, NEW l \in WorkPcs, To(g, l), Tests(g) > 0,
               sqlPc[g] # "done", passed' \in [Gradings -> Nat],
               UNCHANGED <<spec, suite, scores, won>>
        PROVE  ScoresOK'
    <3>1. /\ sqlPc' \in [Gradings -> WorkPcs \cup {"begin", "conclude", "done"}]
          /\ sqlPc'[g] = l /\ l # "done"
          /\ \A h \in Gradings : h # g => sqlPc'[h] = sqlPc[h]
      BY <2>3 DEF To, ScoresOK, WorkPcs
    <3>2. \A h \in Gradings : Tests(h)' = Tests(h) /\ Won(h)' = Won(h)
      BY <2>3 DEF Tests, Won
    <3>3. \A h \in Gradings, d \in Dbs : Full(h, d)' <=> Full(h, d)
      BY <2>3 DEF Full
    <3>4. \A h \in Gradings : /\ sqlPc'[h] = "done" \/ won[h] = NoVerdict
                              /\ sqlPc'[h] = "done" => won[h] = Won(h)
                              /\ sqlPc'[h] \in WorkPcs => Tests(h) > 0
      BY <2>3, <3>1 DEF ScoresOK
    <3>5. \A h \in Gradings, d \in Dbs : scores[h][d].success = Full(h, d)'
      BY <2>3 DEF ScoresOK, Full
    <3> QED
      BY <2>3, <3>1, <3>2, <3>4, <3>5 DEF ScoresOK
  <2>4. ASSUME NEW g \in Gradings, BeginSuite(g) PROVE ScoresOK'
    <3>1. /\ sqlPc[g] # "done" /\ UNCHANGED <<spec, won>>
          /\ passed' \in [Gradings -> Nat]
      BY <2>4 DEF BeginSuite, Mine, ScoresOK
    <3>2. CASE SuiteEnds(g, 0, 0, FALSE)
      BY <2>2, <3>1, <3>2
    <3>3. CASE Tests(g) # 0 /\ UNCHANGED <<suite, scores>>
               /\ To(g, IF Isolated(g) THEN "slot" ELSE "test")
      <4>1. Tests(g) > 0
        BY <2>1, <3>3 DEF Tests, ScoresOK
      <4>2. CASE Isolated(g)
        BY <2>3, <3>1, <3>3, <4>1, <4>2 DEF WorkPcs
      <4>3. CASE ~Isolated(g)
        BY <2>3, <3>1, <3>3, <4>1, <4>3 DEF WorkPcs
      <4> QED
        BY <4>2, <4>3
    <3> QED
      BY <2>4, <3>2, <3>3 DEF BeginSuite
  <2>5. ASSUME NEW g \in Gradings,
               \/ TakeSlot(g) \/ CreateContainer(g) \/ AwaitReady(g) \/ SetUp(g)
        PROVE  ScoresOK'
    <3>1. sqlPc[g] \in WorkPcs /\ UNCHANGED <<spec, won, passed>>
      BY <2>5 DEF TakeSlot, CreateContainer, AwaitReady, SetUp, Mine, WorkPcs
    <3>2. \/ SuiteEnds(g, 0, 0, FALSE)
          \/ /\ UNCHANGED <<suite, scores>>
             /\ \E l \in WorkPcs : To(g, l)
      BY <2>5 DEF TakeSlot, CreateContainer, AwaitReady, SetUp, NoContainer, WorkPcs
    <3>3. Tests(g) > 0 /\ sqlPc[g] # "done" /\ passed' \in [Gradings -> Nat]
      BY <3>1 DEF ScoresOK, WorkPcs
    <3> QED
      BY <2>2, <2>3, <3>1, <3>2, <3>3
  <2>6. ASSUME NEW g \in Gradings,
               \/ IsolatedPublicTest(g) \/ TakeConnection(g) \/ TestFails(g) \/ CompareRows(g)
        PROVE  ScoresOK'
    <3>1. sqlPc[g] \in WorkPcs /\ UNCHANGED <<spec, won, suite, scores>>
      BY <2>6 DEF IsolatedPublicTest, TakeConnection, TestFails, CompareRows, Mine, WorkPcs
    <3>2. \E l \in WorkPcs : To(g, l)
      BY <2>6 DEF IsolatedPublicTest, TakeConnection, TestFails, CompareRows, TestEnds, WorkPcs
    <3>3. passed' \in [Gradings -> Nat]
      <4>1. (\E pass \in BOOLEAN : TestEnds(g, pass)) \/ UNCHANGED passed
        BY <2>6 DEF IsolatedPublicTest, TakeConnection, TestFails, CompareRows
      <4>2. ASSUME NEW pass \in BOOLEAN, TestEnds(g, pass)
            PROVE  passed' \in [Gradings -> Nat]
        BY <4>2 DEF TestEnds, ScoresOK
      <4> QED
        BY <4>1, <4>2 DEF ScoresOK
    <3>4. Tests(g) > 0 /\ sqlPc[g] # "done"
      BY <3>1 DEF ScoresOK, WorkPcs
    <3> QED
      BY <2>3, <3>1, <3>2, <3>3, <3>4
  <2>7. ASSUME NEW g \in Gradings, ReadScript(g) PROVE ScoresOK'
    <3>1. sqlPc[g] = "script" /\ UNCHANGED <<spec, won, suite, scores, passed>>
      BY <2>7 DEF ReadScript, Mine
    <3>2. CASE To(g, "test")
      BY <2>3, <3>1, <3>2 DEF ScoresOK, WorkPcs
    <3>3. CASE UNCHANGED sqlPc
      BY <3>1, <3>3 DEF ScoresOK, Full, Tests, Won
    <3> QED
      BY <2>7, <3>2, <3>3 DEF ReadScript
  <2>8. ASSUME NEW g \in Gradings, TestsDone(g) PROVE ScoresOK'
    <3>1. /\ sqlPc[g] = "test" /\ UNCHANGED <<spec, won, passed>>
          /\ SuiteEnds(g, passed[g], Tests(g), passed[g] = Tests(g))
      BY <2>8 DEF TestsDone, Mine
    <3>2. Tests(g) > 0
      BY <3>1 DEF ScoresOK, WorkPcs
    <3>3. Tests(g) = spec[g].tests[suite[g]]
      BY <3>2 DEF Tests
    <3>4. passed[g] \in Nat /\ Tests(g) \in Nat /\ sqlPc[g] # "done"
          /\ passed' \in [Gradings -> Nat]
      BY <2>1, <3>1, <3>3 DEF ScoresOK
    <3>5. (passed[g] = Tests(g)) = (passed[g] = spec[g].tests[suite[g]]
                                      /\ spec[g].tests[suite[g]] > 0)
      BY <3>2, <3>3
    <3> QED
      BY <3>1, <3>4, <3>5, SuitesKept
  <2>9. ASSUME NEW g \in Gradings, SqlConclude(g) PROVE ScoresOK'
    <3>1. /\ won' = [won EXCEPT ![g] = Won(g)] /\ To(g, "done") /\ sqlPc[g] = "conclude"
          /\ UNCHANGED <<spec, suite, passed, scores>>
      BY <2>9 DEF SqlConclude, Mine
    <3> QED
      <4>1. /\ sqlPc' \in [Gradings -> WorkPcs \cup {"begin", "conclude", "done"}]
            /\ sqlPc'[g] = "done" /\ \A h \in Gradings : h # g => sqlPc'[h] = sqlPc[h]
        BY <3>1 DEF To, ScoresOK
      <4>2. \A h \in Gradings : Tests(h)' = Tests(h) /\ Won(h)' = Won(h)
        BY <3>1 DEF Tests, Won
      <4>3. \A h \in Gradings, d \in Dbs : scores[h][d].success = Full(h, d)'
        BY <3>1 DEF ScoresOK, Full
      <4>4. \A h \in Gradings : sqlPc'[h] \in WorkPcs => Tests(h) > 0
        BY <4>1 DEF ScoresOK, WorkPcs
      <4>5. \A h \in Gradings : /\ sqlPc'[h] = "done" \/ won'[h] = NoVerdict
                                /\ sqlPc'[h] = "done" => won'[h] = Won(h)
        <5>1. \A h \in Gradings : h # g => won'[h] = won[h]
          BY <3>1 DEF ScoresOK
        <5>2. won'[g] = Won(g)
          BY <3>1 DEF ScoresOK
        <5> QED
          BY <4>1, <5>1, <5>2 DEF ScoresOK
      <4>6. won' = [h \in Gradings |-> won'[h]]
        BY <3>1 DEF ScoresOK
      <4> QED
        BY <3>1, <4>1, <4>2, <4>3, <4>4, <4>5, <4>6 DEF ScoresOK
  <2>10. CASE (\E c \in SqlConts : DestroyContainer(c)) \/ UNCHANGED sqlVars
    <3>1. UNCHANGED <<spec, sqlPc, suite, scores, won, passed>>
      BY <2>10 DEF DestroyContainer, sqlVars
    <3> QED
      BY <3>1 DEF ScoresOK, Full, Tests, Won
  <2> QED
    BY <2>4, <2>5, <2>6, <2>7, <2>8, <2>9, <2>10 DEF SqlNext, SqlStep
<1>3. ScoresOK => SqlSuccessExplained
  <2> SUFFICES ASSUME ScoresOK, NEW g \in Gradings, won[g] # NoVerdict
               PROVE  won[g] <=> (Full(g, "public")
                                    /\ (spec[g].preview \/ Full(g, "hidden")))
    BY DEF SqlSuccessExplained, Full
  <2>1. won[g] = Won(g)
    BY DEF ScoresOK
  <2>2. scores[g].public.success = Full(g, "public") /\ scores[g].hidden.success = Full(g, "hidden")
    BY DEF ScoresOK, Dbs
  <2> QED
    BY <2>1, <2>2 DEF Won
<1> QED
  BY <1>1, <1>2, <1>3, PTL DEF SqlSpec

\* The containers: a grading has one only while it works on a suite, and every
\* one that runs is a grading's, being destroyed or left behind.
ContainersOK ==
  /\ sqlPc \in [Gradings -> WorkPcs \cup {"begin", "conclude", "done"}]
  /\ cont \in [Gradings -> SqlConts \cup {Nobody}]
  /\ running \subseteq SqlConts
  /\ \A g \in Gradings :
       sqlPc[g] \in {"begin", "slot", "create", "conclude", "done"} => cont[g] = Nobody
  /\ SqlContainersAccounted

(* A grading goes on with the container it has, if any.                    *)
LEMMA ContainerStays ==
  ASSUME ContainersOK, NEW g \in Gradings, NEW to, To(g, to),
         to \in WorkPcs \cup {"begin", "conclude", "done"},
         to \in {"begin", "slot", "create", "conclude", "done"} => cont[g] = Nobody,
         UNCHANGED <<cont, running, dying>>, orphans' \in {orphans, running}
  PROVE  ContainersOK'
<1>1. /\ sqlPc' \in [Gradings -> WorkPcs \cup {"begin", "conclude", "done"}]
      /\ sqlPc'[g] = to /\ \A h \in Gradings : h # g => sqlPc'[h] = sqlPc[h]
  BY DEF To, ContainersOK
<1>2. \A h \in Gradings :
        sqlPc'[h] \in {"begin", "slot", "create", "conclude", "done"} => cont[h] = Nobody
  BY <1>1 DEF ContainersOK
<1>3. SqlContainersAccounted'
  BY DEF ContainersOK, SqlContainersAccounted
<1> QED
  BY <1>1, <1>2, <1>3 DEF ContainersOK

(* A grading lets go of its container, or has none, at the end of a suite. *)
LEMMA ContainerLeft ==
  ASSUME ContainersOK, NEW g \in Gradings, NEW to \in {"begin", "conclude"}, To(g, to),
         cont' = [cont EXCEPT ![g] = Nobody],
         running' \subseteq running, dying \subseteq dying', orphans \subseteq orphans',
         cont[g] \in SqlConts /\ cont[g] \in running' => cont[g] \in dying' \cup orphans'
  PROVE  ContainersOK'
<1>1. /\ sqlPc' \in [Gradings -> WorkPcs \cup {"begin", "conclude", "done"}]
      /\ sqlPc'[g] = to /\ \A h \in Gradings : h # g => sqlPc'[h] = sqlPc[h]
  BY DEF To, ContainersOK
<1>2. /\ cont' \in [Gradings -> SqlConts \cup {Nobody}] /\ cont'[g] = Nobody
      /\ \A h \in Gradings : h # g => cont'[h] = cont[h]
  BY DEF ContainersOK
<1>3. ASSUME NEW c \in running'
      PROVE  c \in dying' \cup orphans' \/ \E h \in Gradings : cont'[h] = c
  <2>1. c \in dying \cup orphans \/ \E h \in Gradings : cont[h] = c
    BY DEF ContainersOK, SqlContainersAccounted
  <2>2. CASE c \in dying \cup orphans
    BY <2>2
  <2>3. CASE \E h \in Gradings : h # g /\ cont[h] = c
    BY <1>2, <2>3
  <2>4. CASE cont[g] = c
    <3>1. CASE c = Nobody
      BY <1>2, <3>1
    <3>2. CASE c # Nobody
      BY <2>4, <3>2 DEF ContainersOK
    <3> QED
      BY <3>1, <3>2
  <2> QED
    BY <2>1, <2>2, <2>3, <2>4
<1> QED
  BY <1>1, <1>2, <1>3 DEF ContainersOK, SqlContainersAccounted

(* Every step keeps the containers accounted for.                          *)
LEMMA ContainersStep ==
  ASSUME ContainersOK, [SqlNext]_sqlVars
  PROVE  ContainersOK'
<1>1. \A g \in Gradings : \A n, t, s : SuiteEnds(g, n, t, s) =>
        \E to \in {"begin", "conclude"} : To(g, to)
  BY DEF SuiteEnds
<1>2. ASSUME NEW g \in Gradings,
             \/ BeginSuite(g) \/ TakeSlot(g) \/ IsolatedPublicTest(g) \/ TakeConnection(g)
             \/ TestFails(g) \/ CompareRows(g) \/ SqlConclude(g)
      PROVE  ContainersOK'
  <2>1. UNCHANGED <<cont, running, dying, orphans>>
    BY <1>2 DEF BeginSuite, TakeSlot, IsolatedPublicTest, TakeConnection, TestFails,
       CompareRows, SqlConclude, sqlConts
  <2>2. CASE BeginSuite(g) \/ TakeSlot(g) \/ SqlConclude(g)
    <3>1. sqlPc[g] \in {"begin", "slot", "conclude"}
          /\ \E to \in WorkPcs \cup {"begin", "conclude", "done"} : To(g, to)
      BY <1>1, <2>2 DEF BeginSuite, TakeSlot, SqlConclude, Mine, NoContainer, WorkPcs
    <3>2. cont[g] = Nobody
      BY <3>1 DEF ContainersOK
    <3> QED
      BY <2>1, <3>1, <3>2, ContainerStays
  <2>3. CASE \/ IsolatedPublicTest(g) \/ TakeConnection(g) \/ TestFails(g) \/ CompareRows(g)
    <3>1. \E to \in {"test", "query"} : To(g, to)
      BY <2>3 DEF IsolatedPublicTest, TakeConnection, TestFails, CompareRows, TestEnds
    <3> QED
      BY <2>1, <3>1, ContainerStays DEF WorkPcs
  <2> QED
    BY <1>2, <2>2, <2>3
<1>3. ASSUME NEW g \in Gradings, CreateContainer(g) PROVE ContainersOK'
  <2>1. sqlPc[g] = "create" /\ cont[g] = Nobody /\ dying' = dying
    BY <1>3 DEF CreateContainer, Mine, ContainersOK
  <2>2. CASE /\ Unmade # {} /\ To(g, "ready") /\ UNCHANGED orphans
             /\ running' = running \cup {NewSql} /\ cont' = [cont EXCEPT ![g] = NewSql]
    <3>1. PICK c \in SqlConts : c = NewSql
      BY <2>2 DEF NewSql, Unmade
    <3>2. /\ cont' \in [Gradings -> SqlConts \cup {Nobody}] /\ cont'[g] = c
          /\ \A h \in Gradings : h # g => cont'[h] = cont[h]
      BY <2>2, <3>1 DEF ContainersOK
    <3>3. /\ sqlPc' \in [Gradings -> WorkPcs \cup {"begin", "conclude", "done"}]
          /\ sqlPc'[g] = "ready" /\ \A h \in Gradings : h # g => sqlPc'[h] = sqlPc[h]
      BY <2>2 DEF To, ContainersOK, WorkPcs
    <3>4. ASSUME NEW d \in running', d # c
          PROVE  d \in dying' \cup orphans' \/ \E h \in Gradings : cont'[h] = d
      <4>1. d \in running
        BY <2>2, <3>1, <3>4
      <4>2. d \in dying \cup orphans \/ \E h \in Gradings : cont[h] = d
        BY <4>1 DEF ContainersOK, SqlContainersAccounted
      <4>3. cont[g] = d => d = Nobody
        BY <2>1
      <4> QED
        BY <2>1, <2>2, <3>2, <4>1, <4>2, <4>3, SqlAssumption DEF ContainersOK
    <3>5. SqlContainersAccounted'
      BY <3>2, <3>4 DEF SqlContainersAccounted
    <3>6. running' \subseteq SqlConts
      BY <2>2, <3>1 DEF ContainersOK
    <3> QED
      BY <3>2, <3>3, <3>5, <3>6 DEF ContainersOK
  <2>3. CASE NoContainer(g) /\ cont' = cont
             /\ \/ UNCHANGED <<running, orphans>>
                \/ Unmade # {} /\ running' = running \cup {NewSql} /\ orphans' = orphans \cup {NewSql}
    <3>1. \E to \in {"begin", "conclude"} : To(g, to)
      BY <1>1, <2>3 DEF NoContainer
    <3>2. /\ sqlPc' \in [Gradings -> WorkPcs \cup {"begin", "conclude", "done"}]
          /\ \A h \in Gradings : h # g => sqlPc'[h] = sqlPc[h]
      BY <3>1 DEF To, ContainersOK
    <3>3. SqlContainersAccounted'
      BY <2>1, <2>3 DEF ContainersOK, SqlContainersAccounted
    <3>4. running' \subseteq SqlConts
      BY <2>3 DEF ContainersOK, NewSql, Unmade
    <3> QED
      BY <2>1, <2>3, <3>2, <3>3, <3>4 DEF ContainersOK
  <2> QED
    BY <1>3, <2>2, <2>3 DEF CreateContainer

<1>4. ASSUME NEW g \in Gradings, AwaitReady(g) PROVE ContainersOK'
  <2>1. CASE /\ To(g, IF suite[g] = "public" THEN "setup" ELSE "script")
             /\ UNCHANGED <<cont, running, orphans, dying>>
    <3>1. \E to \in {"setup", "script"} : To(g, to)
      BY <2>1
    <3> QED
      BY <2>1, <3>1, ContainerStays DEF WorkPcs
  <2>2. CASE /\ NoContainer(g) /\ cont' = [cont EXCEPT ![g] = Nobody] /\ dying' = dying
             /\ \/ running' = running \ {cont[g]} /\ UNCHANGED orphans
                \/ orphans' = orphans \cup {cont[g]} /\ UNCHANGED running
    <3>1. \E to \in {"begin", "conclude"} : To(g, to)
      BY <1>1, <2>2 DEF NoContainer
    <3>2. cont[g] \in running' => cont[g] \in dying' \cup orphans'
      BY <2>2
    <3>3. running' \subseteq running /\ dying \subseteq dying' /\ orphans \subseteq orphans'
      BY <2>2
    <3> QED
      BY <2>2, <3>1, <3>2, <3>3, ContainerLeft
  <2> QED
    BY <1>4, <2>1, <2>2 DEF AwaitReady
<1>5. ASSUME NEW g \in Gradings, \E n, t, s : SuiteEnds(g, n, t, s), LeaveContainer(g)
      PROVE  ContainersOK'
  <2>1. \E to \in {"begin", "conclude"} : To(g, to)
    BY <1>1, <1>5
  <2>2. /\ cont' = [cont EXCEPT ![g] = Nobody] /\ UNCHANGED <<running, orphans>>
        /\ dying \subseteq dying' /\ (cont[g] # Nobody => cont[g] \in dying')
    BY <1>5 DEF LeaveContainer
  <2> QED
    BY <2>1, <2>2, ContainerLeft, SqlAssumption
<1>6. ASSUME NEW g \in Gradings, SetUp(g) PROVE ContainersOK'
  <2>1. CASE To(g, "test") /\ UNCHANGED sqlConts
    BY <2>1, ContainerStays DEF WorkPcs, sqlConts
  <2> QED
    BY <1>5, <1>6, <2>1 DEF SetUp
<1>7. ASSUME NEW g \in Gradings, ReadScript(g) PROVE ContainersOK'
  <2>1. CASE To(g, "test") /\ UNCHANGED <<cont, running, dying, orphans>>
    BY <2>1, ContainerStays DEF WorkPcs
  <2>2. CASE orphans' = running /\ UNCHANGED <<sqlPc, cont, running>>
    BY <2>2 DEF ContainersOK, SqlContainersAccounted
  <2> QED
    BY <1>7, <2>1, <2>2 DEF ReadScript
<1>8. ASSUME NEW c \in SqlConts, DestroyContainer(c) PROVE ContainersOK'
  <2>1. /\ UNCHANGED <<sqlPc, cont>> /\ running' \subseteq running
        /\ dying' = dying \ {c} /\ orphans \subseteq orphans'
        /\ c \in running' => c \in orphans'
    BY <1>8 DEF DestroyContainer
  <2> QED
    BY <2>1 DEF ContainersOK, SqlContainersAccounted
<1>9. CASE UNCHANGED sqlVars
  BY <1>9 DEF sqlVars, sqlConts, ContainersOK, SqlContainersAccounted
<1>10. ASSUME NEW g \in Gradings, TestsDone(g) PROVE ContainersOK'
  BY <1>5, <1>10 DEF TestsDone
<1> QED
  BY <1>2, <1>3, <1>4, <1>6, <1>7, <1>8, <1>9, <1>10 DEF SqlNext, SqlStep

(* A container is never without an owner that knows it.                    *)
LEMMA SqlContainersAlways == SqlSpec => []SqlContainersAccounted
<1>1. SqlInit => ContainersOK
  <2> SUFFICES ASSUME SqlInit PROVE ContainersOK
    OBVIOUS
  <2>1. /\ sqlPc = [g \in Gradings |-> "begin"] /\ cont = [g \in Gradings |-> Nobody]
        /\ running = {}
    BY DEF SqlInit
  <2> QED
    BY <2>1 DEF ContainersOK, SqlContainersAccounted
<1>2. ContainersOK /\ [SqlNext]_sqlVars => ContainersOK'
  BY ContainersStep
<1>3. ContainersOK => SqlContainersAccounted
  BY DEF ContainersOK
<1> QED
  BY <1>1, <1>2, <1>3, PTL DEF SqlSpec

(* A grading of SQL forgets no connection and no container that it takes,  *)
(* and claims no success that its suites do not show, for any number of    *)
(* gradings, connections and failing commands.                             *)
THEOREM SqlExplainedAlways == SqlSpec => []SqlExplained
<1>1. ConnectionsReturned /\ SqlContainersAccounted /\ SqlSuccessExplained => SqlExplained
  BY DEF SqlExplained, SqlResourcesKept
<1> QED
  BY <1>1, ConnectionsReturnedAlways, SqlContainersAlways, SqlSuccessAlways, PTL

=============================================================================
