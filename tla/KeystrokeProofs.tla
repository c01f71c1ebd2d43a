-------------------------- MODULE KeystrokeProofs --------------------------
(***************************************************************************)
(* Theorems about Keystrokes, for any numbers of keys, connections and     *)
(* visits and any sizes of the buffer, a batch and the list: no key that   *)
(* is recorded goes astray, is stored twice or out of order, and no batch  *)
(* is refused while the page may take its socket for bound.                *)
(***************************************************************************)
EXTENDS Keystrokes, SequenceTheorems, TLAPS

-----------------------------------------------------------------------------
(* What there is, and what a step does to it                               *)

BatchMsgs == [type : {"batch"}, keys : Seq(Nat), link : Nat, heard : BOOLEAN]
Msgs == [type : {"join"}, visit : Nat] \cup {Leave} \cup BatchMsgs
JoinEntries == [visit : Nat, at : {"reading", "bound"}]
Links == [wire : Seq(Msgs), joins : Seq(JoinEntries), bound : BOOLEAN, writes : Seq(BatchMsgs)]

\* The window's connection is the last one made.
KeyTypes ==
  /\ typed \in Nat /\ visits \in Nat
  /\ editor \in [visit : {0, visits}, connected : BOOLEAN, enabled : BOOLEAN, buffer : Seq(Nat)]
  /\ links \in Seq(Links) /\ record \in Seq(BatchMsgs)
  /\ conn \in [at : {0, Len(links)}, made : BOOLEAN, pending : BOOLEAN, active : BOOLEAN,
               rejoin : BOOLEAN, heard : BOOLEAN]
  /\ refused \subseteq BatchMsgs /\ lost \subseteq Nat

\* What holds of a connection l that carries r: every join is of a visit there was;
\* no attempt:leave is on its way behind a join of this visit, nor before a batch that
\* was sent after the answer to it, whose socket is therefore bound.
LinkOK(l, r) ==
  /\ \A n \in 1..Len(r.joins) : r.joins[n].visit \in 1..visits
  /\ \A i \in 1..Len(r.wire) : r.wire[i].type = "join" => r.wire[i].visit \in 1..visits
  /\ conn.at = l /\ conn.heard => r.bound /\ \A i \in 1..Len(r.wire) : r.wire[i].type # "leave"
  /\ \A i \in 1..Len(r.wire) : r.wire[i].type = "batch" /\ r.wire[i].heard =>
       r.bound /\ \A j \in 1..i-1 : r.wire[j].type # "leave"
  /\ conn.at = l => \A i \in 1..Len(r.wire) :
       r.wire[i].type = "join" /\ r.wire[i].visit = editor.visit =>
         \A j \in i+1..Len(r.wire) : r.wire[j].type # "leave"
  /\ conn.at = l => \A n \in 1..Len(r.joins) :
       r.joins[n].visit = editor.visit =>
         /\ \A i \in 1..Len(r.wire) : r.wire[i].type # "leave"
         /\ r.joins[n].at = "bound" => r.bound

\* Only an open page waits or is active.
PageOpen == /\ conn.pending \/ conn.active \/ conn.heard => editor.visit # 0
            /\ conn.heard => conn.at # 0

SocketOK == PageOpen /\ \A l \in 1..Len(links) : LinkOK(l, links[l])
SocketInv == KeyTypes /\ SocketOK /\ RefusalsExplained

\* What each kind of message carries.
LEMMA MessagesAre ==
  /\ BatchMsgs \subseteq Msgs /\ Leave \in Msgs /\ Leave.type = "leave"
  /\ \A v \in Nat : Join(v) \in Msgs /\ Join(v).type = "join" /\ Join(v).visit = v
  /\ \A b \in BatchMsgs : b.type = "batch" /\ b.keys \in Seq(Nat) /\ b.link \in Nat
                          /\ b.heard \in BOOLEAN
  /\ \A m \in Msgs : /\ m.type \in {"join", "leave", "batch"}
                     /\ m.type = "batch" => m \in BatchMsgs
                     /\ m.type = "join" => m.visit \in Nat
<1>1. BatchMsgs \subseteq Msgs /\ Leave \in Msgs /\ Leave.type = "leave"
  BY DEF Msgs, Leave
<1>2. \A v \in Nat : Join(v) \in Msgs /\ Join(v).type = "join" /\ Join(v).visit = v
  BY DEF Msgs, Join
<1>3. \A b \in BatchMsgs : b.type = "batch" /\ b.keys \in Seq(Nat) /\ b.link \in Nat
                           /\ b.heard \in BOOLEAN
  BY DEF BatchMsgs
<1>4. \A m \in Msgs : m \in [type : {"join"}, visit : Nat] \/ m = Leave \/ m \in BatchMsgs
  BY DEF Msgs
<1>5. \A m \in [type : {"join"}, visit : Nat] : m.type = "join" /\ m.visit \in Nat
  OBVIOUS
<1>6. \A m \in Msgs : /\ m.type \in {"join", "leave", "batch"}
                      /\ m.type = "batch" => m \in BatchMsgs
                      /\ m.type = "join" => m.visit \in Nat
  BY <1>1, <1>3, <1>4, <1>5
<1> QED
  BY <1>1, <1>2, <1>3, <1>6

\* The parts of a link, and what is in them.
LEMMA LinkIs ==
  ASSUME NEW r \in Links
  PROVE  /\ r.wire \in Seq(Msgs) /\ r.joins \in Seq(JoinEntries) /\ r.bound \in BOOLEAN
         /\ r.writes \in Seq(BatchMsgs)
         /\ Len(r.wire) \in Nat /\ Len(r.joins) \in Nat /\ Len(r.writes) \in Nat
         /\ \A i \in 1..Len(r.wire) : r.wire[i] \in Msgs
         /\ \A i \in 1..Len(r.joins) : r.joins[i] \in JoinEntries
         /\ \A i \in 1..Len(r.writes) : r.writes[i] \in BatchMsgs
<1>1. /\ r.wire \in Seq(Msgs) /\ r.joins \in Seq(JoinEntries) /\ r.bound \in BOOLEAN
      /\ r.writes \in Seq(BatchMsgs)
  BY DEF Links
<1> QED
  BY <1>1, ElementOfSeq, LenProperties

\* One connection changes.
LEMMA LinkMoves ==
  ASSUME KeyTypes, NEW l \in 1..Len(links), NEW r \in Links, links' = [links EXCEPT ![l] = r]
  PROVE  /\ links' \in Seq(Links) /\ Len(links') = Len(links) /\ links'[l] = r
         /\ \A m \in 1..Len(links) : m # l => links'[m] = links[m]
BY ExceptSeq DEF KeyTypes

\* What a link may carry after messages were sent, taken or lost.
LEMMA WireSends ==
  ASSUME NEW r \in Links, NEW ms \in Seq(Msgs)
  PROVE  LET q == [r EXCEPT !.wire = @ \o ms] IN
         /\ q \in Links /\ q.joins = r.joins /\ q.bound = r.bound /\ q.writes = r.writes
         /\ Len(q.wire) = Len(r.wire) + Len(ms)
         /\ \A i \in 1..Len(r.wire) : q.wire[i] = r.wire[i]
         /\ \A i \in Len(r.wire)+1..Len(q.wire) : q.wire[i] = ms[i - Len(r.wire)]
<1> DEFINE q == [r EXCEPT !.wire = @ \o ms]
<1>1. /\ r.wire \o ms \in Seq(Msgs) /\ Len(r.wire \o ms) = Len(r.wire) + Len(ms)
      /\ Len(r.wire) \in Nat /\ Len(ms) \in Nat
      /\ \A i \in 1..Len(r.wire)+Len(ms) :
           (r.wire \o ms)[i] = IF i <= Len(r.wire) THEN r.wire[i] ELSE ms[i - Len(r.wire)]
  BY LinkIs, ConcatProperties, LenProperties
<1>2. /\ q.wire = r.wire \o ms /\ q.joins = r.joins /\ q.bound = r.bound /\ q.writes = r.writes
      /\ q \in Links
  BY <1>1, LinkIs DEF Links
<1> HIDE DEF q
<1>3. /\ Len(q.wire) = Len(r.wire) + Len(ms)
      /\ \A i \in 1..Len(r.wire) : q.wire[i] = r.wire[i]
      /\ \A i \in Len(r.wire)+1..Len(q.wire) : q.wire[i] = ms[i - Len(r.wire)]
  BY <1>1, <1>2
<1> QED
  BY <1>2, <1>3 DEF q

\* A link whose wire keeps only its first n messages, as a lost connection leaves it.
LEMMA WireCut ==
  ASSUME NEW r \in Links, NEW n \in 0..Len(r.wire)
  PROVE  LET q == [r EXCEPT !.wire = SubSeq(r.wire, 1, n)] IN
         /\ q \in Links /\ q.joins = r.joins /\ q.bound = r.bound /\ q.writes = r.writes
         /\ Len(q.wire) = n /\ \A i \in 1..n : q.wire[i] = r.wire[i]
<1> DEFINE q == [r EXCEPT !.wire = SubSeq(r.wire, 1, n)]
<1>1. /\ SubSeq(r.wire, 1, n) \in Seq(Msgs) /\ Len(SubSeq(r.wire, 1, n)) = n
      /\ \A i \in 1..n : SubSeq(r.wire, 1, n)[i] = r.wire[i]
  <2>1. n \in Int /\ 1 \in Int /\ \A i \in 1..n : r.wire[i] \in Msgs
    BY LinkIs
  <2> QED
    BY <2>1, SubSeqProperties
<1>2. /\ q.wire = SubSeq(r.wire, 1, n) /\ q.joins = r.joins /\ q.bound = r.bound
      /\ q.writes = r.writes /\ q \in Links
  BY <1>1, LinkIs DEF Links
<1> HIDE DEF q
<1>3. Len(q.wire) = n /\ \A i \in 1..n : q.wire[i] = r.wire[i]
  BY <1>1, <1>2
<1> QED
  BY <1>2, <1>3 DEF q

\* A link whose first message the server has taken.
LEMMA WireTaken ==
  ASSUME KeyTypes, NEW l \in 1..Len(links), links[l].wire # <<>>
  PROVE  /\ Taken(l) \in Links /\ Taken(l).joins = links[l].joins
         /\ Taken(l).bound = links[l].bound /\ Taken(l).writes = links[l].writes
         /\ Len(links[l].wire) >= 1 /\ Head(links[l].wire) = links[l].wire[1]
         /\ Head(links[l].wire) \in Msgs
         /\ Len(Taken(l).wire) = Len(links[l].wire) - 1
         /\ \A i \in 1..Len(Taken(l).wire) : Taken(l).wire[i] = links[l].wire[i + 1]
<1>1. links[l] \in Links
  BY ElementOfSeq DEF KeyTypes
<1>2. /\ links[l].wire \in Seq(Msgs) /\ Len(links[l].wire) \in Nat
  BY <1>1, LinkIs
<1>3. /\ Tail(links[l].wire) \in Seq(Msgs)
      /\ Len(Tail(links[l].wire)) = Len(links[l].wire) - 1
      /\ \A i \in 1..Len(Tail(links[l].wire)) : Tail(links[l].wire)[i] = links[l].wire[i + 1]
      /\ Head(links[l].wire) \in Msgs
  BY <1>2, HeadTailProperties
<1>4. Len(links[l].wire) >= 1 /\ Head(links[l].wire) = links[l].wire[1]
  BY <1>2, EmptySeq
<1>5. /\ Taken(l) \in Links /\ Taken(l).joins = links[l].joins
      /\ Taken(l).bound = links[l].bound /\ Taken(l).writes = links[l].writes
      /\ Taken(l).wire = Tail(links[l].wire)
  BY <1>1, <1>3, LinkIs DEF Taken, Links
<1> QED
  BY <1>3, <1>4, <1>5

\* A join that ends leaves the others, and nothing else of its link.
LEMMA JoinsLess ==
  ASSUME KeyTypes, NEW l \in 1..Len(links), NEW n \in 1..Len(links[l].joins), EndJoin(l, n)
  PROVE  \E r \in Links :
           /\ links' = [links EXCEPT ![l] = r]
           /\ r.wire = links[l].wire /\ r.bound = links[l].bound /\ r.writes = links[l].writes
           /\ \A i \in 1..Len(r.joins) : \E k \in 1..Len(links[l].joins) :
                r.joins[i] = links[l].joins[k]
<1> DEFINE s == links[l].joins
           t == RemoveAt(s, n)
           r == [links[l] EXCEPT !.joins = t]
<1>1. links[l] \in Links /\ links \in Seq(Links)
  BY ElementOfSeq DEF KeyTypes
<1>2. s \in Seq(JoinEntries) /\ Len(s) \in Nat /\ n \in 1..Len(s)
      /\ \A i \in 1..Len(s) : s[i] \in JoinEntries
  BY <1>1, LinkIs
<1> HIDE DEF s
<1>3. /\ SubSeq(s, 1, n - 1) \in Seq(JoinEntries) /\ Len(SubSeq(s, 1, n - 1)) = n - 1
      /\ \A i \in 1..n-1 : SubSeq(s, 1, n - 1)[i] = s[i]
  <2>1. 1 \in Int /\ n - 1 \in Int /\ \A i \in 1..n-1 : s[i] \in JoinEntries
    BY <1>2
  <2> QED
    BY <1>2, <2>1, SubSeqProperties
<1>4. /\ SubSeq(s, n + 1, Len(s)) \in Seq(JoinEntries)
      /\ Len(SubSeq(s, n + 1, Len(s))) = Len(s) - n
      /\ \A i \in 1..Len(s)-n : SubSeq(s, n + 1, Len(s))[i] = s[n + i]
  <2>1. n + 1 \in Int /\ Len(s) \in Int /\ \A i \in n+1..Len(s) : s[i] \in JoinEntries
    BY <1>2
  <2> QED
    BY <1>2, <2>1, SubSeqProperties
<1>5. /\ t \in Seq(JoinEntries)
      /\ \A i \in 1..Len(t) : \E k \in 1..Len(s) : t[i] = s[k]
  <2> DEFINE a == SubSeq(s, 1, n - 1)
             b == SubSeq(s, n + 1, Len(s))
  <2>1. t = a \o b
    BY DEF RemoveAt
  <2> HIDE DEF a, b, t
  <2>2. /\ t \in Seq(JoinEntries) /\ Len(t) = Len(a) + Len(b)
        /\ \A i \in 1..Len(a)+Len(b) : t[i] = IF i <= Len(a) THEN a[i] ELSE b[i - Len(a)]
    BY <1>3, <1>4, <2>1, ConcatProperties DEF a, b
  <2>3. /\ Len(a) = n - 1 /\ Len(b) = Len(s) - n
        /\ \A i \in 1..n-1 : a[i] = s[i]
        /\ \A i \in 1..Len(s)-n : b[i] = s[n + i]
    BY <1>3, <1>4 DEF a, b
  <2>4. ASSUME NEW i \in 1..Len(t) PROVE \E k \in 1..Len(s) : t[i] = s[k]
    <3>1. CASE i <= n - 1
      BY <1>2, <2>2, <2>3, <3>1
    <3>2. CASE i > n - 1
      <4>1. t[i] = s[i + 1] /\ i + 1 \in 1..Len(s)
        BY <1>2, <2>2, <2>3, <3>2
      <4> QED
        BY <4>1
    <3> QED
      BY <1>2, <2>2, <2>3, <3>1, <3>2
  <2> QED
    BY <2>2, <2>4
<1> HIDE DEF t
<1>6. /\ r \in Links /\ r.wire = links[l].wire /\ r.bound = links[l].bound
      /\ r.writes = links[l].writes /\ r.joins = t
  BY <1>1, <1>5, LinkIs DEF Links
<1>7. links' = [links EXCEPT ![l] = r]
  BY <1>1 DEF EndJoin, s, t
<1> HIDE DEF r
<1> QED
  BY <1>5, <1>6, <1>7 DEF s

-----------------------------------------------------------------------------
(* The socket is bound while heard batches are on their way                *)

\* Nothing is lost when less is claimed.
LEMMA LinkCalmer ==
  ASSUME NEW l, NEW r, LinkOK(l, r), visits' = visits, conn'.at \in {conn.at, 0}, l # 0,
         conn'.heard => conn.heard, editor'.visit \in {editor.visit, 0}
  PROVE  LinkOK(l, r)'
BY DEF LinkOK

\* A step that touches no link and only calms the connection keeps the socket invariant.
LEMMA SocketCalmer ==
  ASSUME SocketInv, KeyTypes', visits' = visits, links' = links, refused' = refused,
         conn'.at \in {conn.at, 0}, conn'.heard => conn.heard, editor'.visit \in {editor.visit, 0},
         PageOpen'
  PROVE  SocketInv'
<1>1. \A l \in 1..Len(links) : LinkOK(l, links[l])'
  <2> SUFFICES ASSUME NEW l \in 1..Len(links) PROVE LinkOK(l, links[l])'
    OBVIOUS
  <2>1. PICK r : r = links[l]
    OBVIOUS
  <2>2. LinkOK(l, r) /\ l # 0
    BY <2>1 DEF SocketInv, SocketOK
  <2>3. LinkOK(l, r)'
    BY <2>2, LinkCalmer
  <2> QED
    BY <2>1, <2>3 DEF LinkOK
<1> QED
  BY <1>1 DEF SocketInv, SocketOK, RefusalsExplained

\* One connection changes, and less is claimed of the others.
LEMMA SocketMoves ==
  ASSUME SocketInv, KeyTypes', visits' = visits, NEW l \in 1..Len(links), NEW r \in Links,
         links' = [links EXCEPT ![l] = r], refused' = refused,
         conn'.at \in {conn.at, 0}, editor'.visit \in {editor.visit, 0},
         conn'.heard => conn.heard \/ conn.at = l, PageOpen', LinkOK(l, r)'
  PROVE  SocketInv'
<1>1. /\ Len(links') = Len(links) /\ links'[l] = r
      /\ \A m \in 1..Len(links) : m # l => links'[m] = links[m]
  BY LinkMoves DEF SocketInv
<1>2. \A m \in 1..Len(links') : LinkOK(m, links[m])'
  <2> SUFFICES ASSUME NEW m \in 1..Len(links) PROVE LinkOK(m, links[m])'
    BY <1>1
  <2>1. PICK q : q = links'[m]
    OBVIOUS
  <2>2. CASE m = l
    <3>1. LinkOK(m, q)'
      BY <1>1, <2>1, <2>2
    <3> QED
      BY <2>1, <3>1 DEF LinkOK
  <2>3. CASE m # l
    <3>1. LinkOK(m, q) /\ m # 0
      BY <1>1, <2>1, <2>3 DEF SocketInv, SocketOK
    <3>2. CASE conn'.at = m
      <4>1. conn'.heard => conn.heard
        BY <2>3, <3>1, <3>2
      <4> QED
        BY <2>1, <3>1, <4>1, LinkCalmer DEF LinkOK
    <3>3. CASE conn'.at # m
      <4>1. LinkOK(m, q)'
        BY <3>1, <3>3 DEF LinkOK
      <4> QED
        BY <2>1, <4>1 DEF LinkOK
    <3> QED
      BY <3>2, <3>3
  <2> QED
    BY <2>2, <2>3
<1> QED
  BY <1>1, <1>2 DEF SocketInv, SocketOK, RefusalsExplained

\* A message goes out behind the others.
LEMMA LinkSends ==
  ASSUME NEW l, NEW r \in Links, NEW m \in Msgs, NEW q \in Links, LinkOK(l, r)',
         q.joins = r.joins, q.bound = r.bound, Len(q.wire) = Len(r.wire) + 1,
         \A i \in 1..Len(r.wire) : q.wire[i] = r.wire[i], q.wire[Len(r.wire) + 1] = m,
         m.type = "batch" /\ m.heard => conn'.heard /\ conn'.at = l,
         m.type = "join" => m.visit \in 1..visits',
         m.type = "leave" => ~conn'.heard /\ editor'.visit = 0
  PROVE  LinkOK(l, q)'
<1>1. Len(r.wire) \in Nat /\ Len(r.joins) \in Nat
  BY LinkIs
<1>2. \A i \in 1..Len(q.wire) : i \in 1..Len(r.wire) \/ i = Len(r.wire) + 1
  BY <1>1
<1>3. \A i \in 1..Len(q.wire) : q.wire[i].type = "leave" =>
        (i \in 1..Len(r.wire) /\ r.wire[i].type = "leave") \/ (i = Len(r.wire) + 1 /\ m.type = "leave")
  BY <1>2
<1>4. /\ \A n \in 1..Len(q.joins) : q.joins[n].visit \in 1..visits'
      /\ \A i \in 1..Len(q.wire) : q.wire[i].type = "join" => q.wire[i].visit \in 1..visits'
  BY <1>2 DEF LinkOK
<1>5. conn'.at = l /\ conn'.heard =>
        q.bound /\ \A i \in 1..Len(q.wire) : q.wire[i].type # "leave"
  BY <1>3 DEF LinkOK
<1>6. ASSUME NEW i \in 1..Len(q.wire), q.wire[i].type = "batch", q.wire[i].heard
      PROVE  q.bound /\ \A j \in 1..i-1 : q.wire[j].type # "leave"
  <2>1. CASE i \in 1..Len(r.wire)
    <3>1. r.bound /\ \A j \in 1..i-1 : r.wire[j].type # "leave"
      BY <1>6, <2>1 DEF LinkOK
    <3>2. \A j \in 1..i-1 : j \in 1..Len(r.wire)
      BY <1>1, <2>1
    <3> QED
      BY <3>1, <3>2
  <2>2. CASE i = Len(r.wire) + 1
    <3>1. r.bound /\ \A j \in 1..Len(r.wire) : r.wire[j].type # "leave"
      BY <1>6, <2>2 DEF LinkOK
    <3>2. \A j \in 1..i-1 : j \in 1..Len(r.wire)
      BY <1>1, <2>2
    <3> QED
      BY <3>1, <3>2
  <2> QED
    BY <1>2, <2>1, <2>2
<1>7. ASSUME conn'.at = l, NEW i \in 1..Len(q.wire), q.wire[i].type = "join",
             q.wire[i].visit = editor'.visit, NEW j \in i+1..Len(q.wire)
      PROVE  q.wire[j].type # "leave"
  <2>1. i \in 1..Len(r.wire) /\ r.wire[i] = q.wire[i] /\ j \in i+1..Len(r.wire) \cup {Len(r.wire) + 1}
    BY <1>1, <1>2
  <2>2. editor'.visit # 0
    BY <1>7, <2>1 DEF LinkOK
  <2>3. CASE j \in i+1..Len(r.wire)
    <3>1. r.wire[j].type # "leave"
      BY <1>7, <2>1, <2>3 DEF LinkOK
    <3>2. j \in 1..Len(r.wire)
      BY <1>1, <2>1, <2>3
    <3> QED
      BY <3>1, <3>2
  <2>4. CASE j = Len(r.wire) + 1
    BY <2>2, <2>4
  <2> QED
    BY <2>1, <2>3, <2>4
<1>8. ASSUME conn'.at = l, NEW n \in 1..Len(q.joins), q.joins[n].visit = editor'.visit
      PROVE  /\ \A i \in 1..Len(q.wire) : q.wire[i].type # "leave"
             /\ q.joins[n].at = "bound" => q.bound
  <2>1. editor'.visit # 0
    BY <1>8 DEF LinkOK
  <2> QED
    BY <1>3, <1>8, <2>1 DEF LinkOK
<1> QED
  BY <1>4, <1>5, <1>6, <1>7, <1>8 DEF LinkOK

\* What the window sends.
LEMMA Emits ==
  ASSUME KeyTypes, conn.at # 0, NEW ms \in Seq(Msgs), links' = Emit(links, ms)
  PROVE  \E l \in 1..Len(links), r \in Links, q \in Links :
           /\ l = conn.at /\ l = Len(links) /\ r = links[l]
           /\ links' = [links EXCEPT ![l] = q]
           /\ q.joins = r.joins /\ q.bound = r.bound /\ q.writes = r.writes
           /\ Len(q.wire) = Len(r.wire) + Len(ms)
           /\ \A i \in 1..Len(r.wire) : q.wire[i] = r.wire[i]
           /\ \A i \in Len(r.wire)+1..Len(q.wire) : q.wire[i] = ms[i - Len(r.wire)]
<1>1. conn.at \in 1..Len(links) /\ conn.at = Len(links) /\ links \in Seq(Links)
  BY LenProperties DEF KeyTypes
<1>2. PICK l \in 1..Len(links) : l = conn.at
  BY <1>1
<1>3. PICK r \in Links : r = links[l]
  BY <1>1, ElementOfSeq
<1> DEFINE q == [r EXCEPT !.wire = @ \o ms]
<1>4. /\ q \in Links /\ q.joins = r.joins /\ q.bound = r.bound /\ q.writes = r.writes
      /\ Len(q.wire) = Len(r.wire) + Len(ms)
      /\ \A i \in 1..Len(r.wire) : q.wire[i] = r.wire[i]
      /\ \A i \in Len(r.wire)+1..Len(q.wire) : q.wire[i] = ms[i - Len(r.wire)]
  BY WireSends
<1>5. links' = [links EXCEPT ![l] = q]
  BY <1>1, <1>2, <1>3 DEF Emit
<1> HIDE DEF q
<1>6. l = Len(links)
  BY <1>1, <1>2
<1> QED
  BY <1>2, <1>3, <1>4, <1>5, <1>6, Zenon

\* The sequence of one message.
LEMMA OneMessage ==
  ASSUME NEW m \in Msgs PROVE <<m>> \in Seq(Msgs) /\ Len(<<m>>) = 1 /\ <<m>>[1] = m
OBVIOUS

\* A message emitted is the last one on the wire of the connection in use.
LEMMA EmitsOne ==
  ASSUME KeyTypes, conn.at # 0, NEW m \in Msgs, links' = Emit(links, <<m>>)
  PROVE  \E l \in 1..Len(links), r \in Links, q \in Links :
           /\ l = conn.at /\ l = Len(links) /\ r = links[l]
           /\ links' = [links EXCEPT ![l] = q]
           /\ q.joins = r.joins /\ q.bound = r.bound /\ q.writes = r.writes
           /\ Len(q.wire) = Len(r.wire) + 1
           /\ \A i \in 1..Len(r.wire) : q.wire[i] = r.wire[i]
           /\ q.wire[Len(r.wire) + 1] = m
<1>1. PICK ms \in Seq(Msgs) : ms = <<m>> /\ Len(ms) = 1 /\ ms[1] = m
  BY OneMessage
<1>2. links' = Emit(links, ms)
  BY <1>1
<1>3. PICK l \in 1..Len(links), r \in Links, q \in Links :
         /\ l = conn.at /\ l = Len(links) /\ r = links[l]
         /\ links' = [links EXCEPT ![l] = q]
         /\ q.joins = r.joins /\ q.bound = r.bound /\ q.writes = r.writes
         /\ Len(q.wire) = Len(r.wire) + Len(ms)
         /\ \A i \in 1..Len(r.wire) : q.wire[i] = r.wire[i]
         /\ \A i \in Len(r.wire)+1..Len(q.wire) : q.wire[i] = ms[i - Len(r.wire)]
  BY <1>2, Emits, Zenon
<1>4. Len(r.wire) \in Nat
  BY LinkIs
<1>5. Len(q.wire) = Len(r.wire) + 1 /\ q.wire[Len(r.wire) + 1] = m
  BY <1>1, <1>3, <1>4
<1> QED
  BY <1>3, <1>5, Zenon

\* What a batch of the page carries.
LEMMA BatchIs ==
  ASSUME KeyTypes, NEW keys \in Seq(Nat)
  PROVE  /\ Batch(keys) \in BatchMsgs /\ Batch(keys).keys = keys
         /\ Batch(keys).link = conn.at /\ Batch(keys).heard = conn.heard
<1>1. conn.at \in Nat /\ conn.heard \in BOOLEAN
  BY LenProperties DEF KeyTypes
<1> QED
  BY <1>1 DEF Batch, BatchMsgs

Editors == [visit : {0, visits}, connected : BOOLEAN, enabled : BOOLEAN, buffer : Seq(Nat)]

\* flushBuffer.
LEMMA FlushSocket ==
  ASSUME SocketInv, NEW p \in Editors, p.visit = editor.visit, p.buffer = editor.buffer,
         FlushKeys(p), UNCHANGED <<typed, visits, conn, record, refused>>
  PROVE  SocketInv'
<1>1. /\ KeyTypes /\ PageOpen /\ typed \in Nat /\ visits \in Nat /\ editor.buffer \in Seq(Nat)
      /\ links \in Seq(Links) /\ record \in Seq(BatchMsgs) /\ refused \subseteq BatchMsgs
      /\ lost \subseteq Nat
      /\ conn \in [at : {0, Len(links)}, made : BOOLEAN, pending : BOOLEAN, active : BOOLEAN,
                   rejoin : BOOLEAN, heard : BOOLEAN]
  BY DEF SocketInv, SocketOK, KeyTypes
<1>2. CASE p.buffer # <<>> /\ conn.at # 0
  <2> DEFINE b == Batch(p.buffer)
  <2>1. b \in BatchMsgs /\ b \in Msgs /\ b.heard = conn.heard /\ b.type = "batch"
    BY <1>1, BatchIs, MessagesAre
  <2>2. PICK m \in Msgs : m = b
    BY <2>1
  <2>3. /\ links' = Emit(links, <<m>>) /\ editor' = [p EXCEPT !.buffer = <<>>] /\ lost' = lost
    BY <1>2, <2>2 DEF FlushKeys
  <2> HIDE DEF b
  <2>4. PICK l \in 1..Len(links), r \in Links, q \in Links :
          /\ l = conn.at /\ l = Len(links) /\ r = links[l]
          /\ links' = [links EXCEPT ![l] = q]
          /\ q.joins = r.joins /\ q.bound = r.bound /\ q.writes = r.writes
          /\ Len(q.wire) = Len(r.wire) + 1
          /\ \A i \in 1..Len(r.wire) : q.wire[i] = r.wire[i]
          /\ q.wire[Len(r.wire) + 1] = m
    BY <1>1, <1>2, <2>2, <2>3, EmitsOne, Zenon
  <2>5. l = conn.at
    BY <2>4
  <2>6. r = links[l]
    BY <2>4
  <2>7. /\ links' = [links EXCEPT ![l] = q]
        /\ q.joins = r.joins /\ q.bound = r.bound /\ Len(q.wire) = Len(r.wire) + 1
        /\ \A i \in 1..Len(r.wire) : q.wire[i] = r.wire[i]
        /\ q.wire[Len(r.wire) + 1] = m
    BY <2>4
  <2>8. editor' \in Editors /\ editor'.visit = editor.visit
    BY <1>1, <2>3, EmptySeq DEF Editors
  <2>9. LinkOK(l, r)'
    <3>1. LinkOK(l, r) /\ l # 0
      BY <2>6 DEF SocketInv, SocketOK
    <3> QED
      BY <2>8, <3>1, LinkCalmer
  <2>10. LinkOK(l, q)'
    BY <2>1, <2>2, <2>5, <2>7, <2>9, LinkSends
  <2>11. KeyTypes'
    BY <1>1, <2>3, <2>7, <2>8, LinkMoves DEF KeyTypes, Editors
  <2>12. PageOpen'
    BY <1>1, <2>8 DEF PageOpen
  <2> QED
    BY <2>7, <2>8, <2>10, <2>11, <2>12, SocketMoves
<1>3. CASE ~(p.buffer # <<>> /\ conn.at # 0)
  <2> DEFINE spare == IF Len(p.buffer) > MaxBuffer THEN Len(p.buffer) - MaxBuffer ELSE 0
  <2>1. /\ links' = links /\ editor' = [p EXCEPT !.buffer = SubSeq(@, spare + 1, Len(@))]
        /\ lost' = lost \cup ToSet(SubSeq(p.buffer, 1, spare))
    BY <1>3 DEF FlushKeys, Lose
  <2>2. /\ spare \in 0..Len(p.buffer) /\ Len(p.buffer) \in Nat
        /\ p.buffer \in Seq(Nat) /\ \A i \in 1..Len(p.buffer) : p.buffer[i] \in Nat
    <3>1. p.buffer \in Seq(Nat) /\ Len(p.buffer) \in Nat
      BY LenProperties DEF Editors
    <3>2. \A i \in 1..Len(p.buffer) : p.buffer[i] \in Nat
      BY <3>1, ElementOfSeq
    <3> QED
      BY <3>1, <3>2, KeyAssumption
  <2> HIDE DEF spare
  <2>3. SubSeq(p.buffer, spare + 1, Len(p.buffer)) \in Seq(Nat)
    <3>1. spare + 1 \in Int /\ Len(p.buffer) \in Int
          /\ \A i \in spare+1..Len(p.buffer) : p.buffer[i] \in Nat
      BY <2>2
    <3> QED
      BY <3>1, SubSeqProperties
  <2>4. ToSet(SubSeq(p.buffer, 1, spare)) \subseteq Nat
    <3>1. 1 \in Int /\ spare \in Int /\ \A i \in 1..spare : p.buffer[i] \in Nat
      BY <2>2
    <3>2. SubSeq(p.buffer, 1, spare) \in Seq(Nat)
      BY <3>1, SubSeqProperties
    <3> QED
      BY <3>2, LenProperties, ElementOfSeq DEF ToSet
  <2>5. editor' \in Editors /\ editor'.visit = editor.visit
    BY <2>1, <2>3 DEF Editors
  <2>6. KeyTypes'
    BY <1>1, <2>1, <2>4, <2>5 DEF KeyTypes, Editors
  <2>7. PageOpen'
    BY <1>1, <2>5 DEF PageOpen
  <2> QED
    BY <2>1, <2>5, <2>6, <2>7, SocketCalmer
<1> QED
  BY <1>2, <1>3

\* A key pressed, with the flush a full buffer brings.
LEMMA KeyDownSocket ==
  ASSUME SocketInv, KeyDown PROVE SocketInv'
<1>1. /\ KeyTypes /\ PageOpen /\ typed \in Nat /\ visits \in Nat
      /\ editor \in Editors /\ editor.buffer \in Seq(Nat)
  BY DEF SocketInv, SocketOK, KeyTypes, Editors
<1>2. typed' = typed + 1 /\ editor' = [editor EXCEPT !.buffer = Append(@, typed + 1)]
  BY DEF KeyDown
<1>3. Append(editor.buffer, typed + 1) \in Seq(Nat)
  BY <1>1, AppendProperties
<1>4. editor' \in Editors /\ editor'.visit = editor.visit
  BY <1>1, <1>2, <1>3 DEF Editors
<1>5. KeyTypes'
  BY <1>1, <1>2, <1>4 DEF KeyTypes, Editors, KeyDown, ends
<1>6. PageOpen'
  BY <1>1, <1>4 DEF PageOpen, KeyDown
<1> QED
  BY <1>4, <1>5, <1>6, SocketCalmer DEF KeyDown, ends

\* The page stops waiting for a connection.
LEMMA GiveUpSocket ==
  ASSUME SocketInv, GiveUpConnecting PROVE SocketInv'
<1>1. KeyTypes /\ PageOpen
  BY DEF SocketInv, SocketOK
<1>2. /\ conn' = [conn EXCEPT !.pending = FALSE, !.active = FALSE]
      /\ UNCHANGED <<typed, visits, editor, links, record, refused, lost>>
  BY DEF GiveUpConnecting, ends
<1>3. KeyTypes'
  BY <1>1, <1>2 DEF KeyTypes
<1>4. /\ conn'.at = conn.at /\ conn'.heard = conn.heard /\ ~conn'.pending /\ ~conn'.active
  BY <1>1, <1>2 DEF KeyTypes
<1>5. PageOpen'
  BY <1>1, <1>2, <1>4 DEF PageOpen
<1> QED
  BY <1>2, <1>3, <1>4, <1>5, SocketCalmer

\* A page opens: what was sent before is of another visit.
LEMMA LinkOpens ==
  ASSUME KeyTypes, PageOpen, NEW l, NEW r \in Links, LinkOK(l, r), editor.visit = 0,
         visits' = visits + 1, conn'.at = conn.at, conn'.heard = conn.heard,
         editor'.visit = visits + 1
  PROVE  LinkOK(l, r)'
<1>1. visits \in Nat /\ ~conn.heard
  BY DEF KeyTypes, PageOpen
<1>2. 1..visits \subseteq 1..visits' /\ editor'.visit \notin 1..visits
  BY <1>1
<1> QED
  BY <1>1, <1>2 DEF LinkOK

\* The exam page opens: it joins at once, or when the connection is there.
LEMMA OpenPageSocket ==
  ASSUME SocketInv, OpenPage PROVE SocketInv'
<1>1. /\ KeyTypes /\ PageOpen /\ visits \in Nat /\ links \in Seq(Links) /\ Len(links) \in Nat
  BY LenProperties DEF SocketInv, SocketOK, KeyTypes
<1>2. /\ visits' = visits + 1 /\ editor' = [NoPage EXCEPT !.visit = visits + 1]
      /\ editor.visit = 0 /\ UNCHANGED <<typed, record, refused, lost>>
  BY DEF OpenPage, ends
<1>3. editor' \in Editors' /\ editor'.visit = visits + 1
  BY <1>1, <1>2, EmptySeq DEF Editors, NoPage
<1>4. /\ conn'.at = conn.at /\ conn'.heard = conn.heard
      /\ conn' \in [at : {0, Len(links)}, made : BOOLEAN, pending : BOOLEAN,
                    active : BOOLEAN, rejoin : BOOLEAN, heard : BOOLEAN]
  <2>1. conn \in [at : {0, Len(links)}, made : BOOLEAN, pending : BOOLEAN,
                  active : BOOLEAN, rejoin : BOOLEAN, heard : BOOLEAN]
    BY <1>1 DEF KeyTypes
  <2>2. conn' = conn \/ conn' = [conn EXCEPT !.pending = TRUE, !.made = TRUE,
                                             !.rejoin = @ \/ ~conn.made]
    BY DEF OpenPage
  <2> QED
    BY <2>1, <2>2
<1>5. PageOpen'
  BY <1>1, <1>3, <1>4 DEF PageOpen
<1>6. ASSUME NEW l \in 1..Len(links), NEW r \in Links, r = links[l] PROVE LinkOK(l, r)'
  <2>1. LinkOK(l, r)
    BY <1>6 DEF SocketInv, SocketOK
  <2> QED
    BY <1>1, <1>2, <1>3, <1>4, <2>1, LinkOpens
<1>7. CASE conn.at # 0
  <2>1. PICK m \in Msgs : m = Join(visits + 1)
    BY <1>1, MessagesAre
  <2>2. links' = Emit(links, <<m>>)
    BY <1>7, <2>1 DEF OpenPage
  <2>3. PICK l \in 1..Len(links), r \in Links, q \in Links :
          /\ l = conn.at /\ l = Len(links) /\ r = links[l]
          /\ links' = [links EXCEPT ![l] = q]
          /\ q.joins = r.joins /\ q.bound = r.bound /\ q.writes = r.writes
          /\ Len(q.wire) = Len(r.wire) + 1
          /\ \A i \in 1..Len(r.wire) : q.wire[i] = r.wire[i]
          /\ q.wire[Len(r.wire) + 1] = m
    BY <1>1, <1>7, <2>1, <2>2, EmitsOne, Zenon
  <2>4. m.type = "join" /\ m.visit \in 1..visits'
    BY <1>1, <1>2, <2>1, MessagesAre
  <2>5. LinkOK(l, q)'
    BY <1>6, <2>3, <2>4, LinkSends
  <2>6. /\ links' \in Seq(Links) /\ Len(links') = Len(links) /\ links'[l] = q
        /\ \A k \in 1..Len(links) : k # l => links'[k] = links[k]
    BY <1>1, <2>3, LinkMoves
  <2>7. KeyTypes'
    BY <1>1, <1>2, <1>3, <1>4, <2>6 DEF KeyTypes, Editors
  <2>8. ASSUME NEW k \in 1..Len(links) PROVE LinkOK(k, links[k])'
    <3>1. PICK p : p = links'[k]
      OBVIOUS
    <3>2. LinkOK(k, p)'
      BY <1>1, <1>6, <2>5, <2>6, <3>1, ElementOfSeq
    <3> QED
      BY <3>1, <3>2 DEF LinkOK
  <2> QED
    BY <1>2, <1>5, <2>6, <2>7, <2>8 DEF SocketInv, SocketOK, RefusalsExplained
<1>8. CASE conn.at = 0
  <2>1. links' = links
    BY <1>8 DEF OpenPage
  <2>2. KeyTypes'
    BY <1>1, <1>2, <1>3, <1>4, <2>1 DEF KeyTypes, Editors
  <2>3. ASSUME NEW k \in 1..Len(links) PROVE LinkOK(k, links[k])'
    <3>1. PICK p \in Links : p = links[k]
      BY <1>1, ElementOfSeq
    <3>2. LinkOK(k, p)'
      BY <1>6, <3>1
    <3> QED
      BY <2>1, <3>1, <3>2 DEF LinkOK
  <2> QED
    BY <1>2, <1>5, <2>1, <2>2, <2>3 DEF SocketInv, SocketOK, RefusalsExplained
<1> QED
  BY <1>7, <1>8

\* q is r with the message m behind the others.
Extends(r, q, m) ==
  /\ q.joins = r.joins /\ q.bound = r.bound /\ q.writes = r.writes
  /\ Len(q.wire) = Len(r.wire) + 1
  /\ \A i \in 1..Len(r.wire) : q.wire[i] = r.wire[i]
  /\ q.wire[Len(r.wire) + 1] = m

\* The clean-ups of the page that is left: attempt:leave, and then the buffer.
LEMMA QuitSends ==
  ASSUME KeyTypes, QuitPage, conn.at # 0
  PROVE  /\ lost' = lost
         /\ \E l \in 1..Len(links), r \in Links, p \in Links, q \in Links, m \in Msgs :
              /\ l = conn.at /\ l = Len(links) /\ r = links[l]
              /\ links' = [links EXCEPT ![l] = q] /\ Extends(r, p, Leave)
              /\ m.type = "batch" /\ m.keys = editor.buffer /\ m.link = l /\ ~m.heard
              /\ IF editor.buffer = <<>> THEN q = p ELSE Extends(p, q, m)
<1>1. editor.buffer \in Seq(Nat) /\ links \in Seq(Links)
  BY DEF KeyTypes
<1> DEFINE b == [Batch(editor.buffer) EXCEPT !.heard = FALSE]
<1>2. /\ b \in BatchMsgs /\ b \in Msgs /\ b.type = "batch" /\ b.heard = FALSE
      /\ b.keys = editor.buffer /\ b.link = conn.at
  <2>1. /\ Batch(editor.buffer) \in BatchMsgs /\ Batch(editor.buffer).keys = editor.buffer
        /\ Batch(editor.buffer).link = conn.at
    BY <1>1, BatchIs
  <2>2. /\ b \in BatchMsgs /\ b.heard = FALSE /\ b.keys = editor.buffer /\ b.link = conn.at
    BY <2>1 DEF BatchMsgs
  <2> QED
    BY <2>2, MessagesAre
<1>3. PICK m \in Msgs : m = b
  BY <1>2
<1>4. PICK n \in Msgs : n = Leave
  BY MessagesAre
<1>5. /\ lost' = lost
      /\ links' = Emit(links, <<n>> \o IF editor.buffer = <<>> THEN <<>> ELSE <<m>>)
  BY <1>3, <1>4 DEF QuitPage
<1> HIDE DEF b
<1>6. PICK ms \in Seq(Msgs) :
        /\ links' = Emit(links, ms) /\ ms[1] = n
        /\ IF editor.buffer = <<>> THEN Len(ms) = 1 ELSE Len(ms) = 2 /\ ms[2] = m
  <2>1. CASE editor.buffer = <<>>
    <3>1. links' = Emit(links, <<n>> \o <<>>)
      BY <1>5, <2>1
    <3>2. <<n>> \o <<>> \in Seq(Msgs) /\ Len(<<n>> \o <<>>) = 1 /\ (<<n>> \o <<>>)[1] = n
      BY OneMessage, ConcatEmptySeq
    <3> QED
      BY <2>1, <3>1, <3>2
  <2>2. CASE editor.buffer # <<>>
    <3>1. links' = Emit(links, <<n>> \o <<m>>)
      BY <1>5, <2>2
    <3>2. /\ <<n>> \o <<m>> \in Seq(Msgs) /\ Len(<<n>> \o <<m>>) = 2
          /\ (<<n>> \o <<m>>)[1] = n /\ (<<n>> \o <<m>>)[2] = m
      OBVIOUS
    <3> QED
      BY <2>2, <3>1, <3>2
  <2> QED
    BY <2>1, <2>2
<1>7. PICK l \in 1..Len(links), r \in Links, q \in Links :
        /\ l = conn.at /\ l = Len(links) /\ r = links[l]
        /\ links' = [links EXCEPT ![l] = q]
        /\ q.joins = r.joins /\ q.bound = r.bound /\ q.writes = r.writes
        /\ Len(q.wire) = Len(r.wire) + Len(ms)
        /\ \A i \in 1..Len(r.wire) : q.wire[i] = r.wire[i]
        /\ \A i \in Len(r.wire)+1..Len(q.wire) : q.wire[i] = ms[i - Len(r.wire)]
  BY <1>6, Emits, Zenon
<1>8. Len(r.wire) \in Nat
  BY LinkIs
<1>9. \E p \in Links : /\ Extends(r, p, n)
                       /\ IF editor.buffer = <<>> THEN q = p ELSE Extends(p, q, m)
  <2>1. q.wire[Len(r.wire) + 1] = n
    <3>1. Len(ms) = 1 \/ Len(ms) = 2
      BY <1>6
    <3>2. Len(q.wire) = Len(r.wire) + Len(ms)
      BY <1>7
    <3>3. PICK i : i = Len(r.wire) + 1
      OBVIOUS
    <3>4. i \in Nat /\ i <= Len(q.wire) /\ Len(q.wire) \in Nat
      <4>1. PICK x \in Nat, y \in {1, 2} : x = Len(r.wire) /\ y = Len(ms)
        BY <1>8, <3>1
      <4>2. Len(q.wire) = x + y /\ i = x + 1
        BY <3>2, <3>3, <4>1
      <4> QED
        BY <4>2
    <3>5. i \in Len(r.wire)+1..Len(q.wire) /\ i - Len(r.wire) = 1
      BY <1>8, <3>3, <3>4
    <3>6. q.wire[i] = ms[i - Len(r.wire)]
      BY <1>7, <3>5
    <3> QED
      BY <1>6, <3>3, <3>5, <3>6
  <2>2. CASE editor.buffer = <<>>
    <3>1. Extends(r, q, n)
      BY <1>6, <1>7, <1>8, <2>1, <2>2 DEF Extends
    <3> QED
      BY <2>2, <3>1
  <2>3. CASE editor.buffer # <<>>
    <3>1. Len(r.wire) + 1 \in 0..Len(q.wire) /\ Len(q.wire) = Len(r.wire) + 2
      <4>1. Len(ms) = 2
        BY <1>6, <2>3
      <4> QED
        BY <1>7, <1>8, <4>1
    <3>2. PICK p \in Links :
            /\ p.joins = q.joins /\ p.bound = q.bound /\ p.writes = q.writes
            /\ Len(p.wire) = Len(r.wire) + 1
            /\ \A i \in 1..Len(r.wire)+1 : p.wire[i] = q.wire[i]
      BY <3>1, WireCut
    <3>3. Extends(r, p, n)
      <4>1. /\ Len(r.wire) + 1 \in 1..Len(r.wire)+1
            /\ \A i \in 1..Len(r.wire) : i \in 1..Len(r.wire)+1
        BY <1>8
      <4> QED
        BY <1>7, <2>1, <3>2, <4>1 DEF Extends
    <3>4. Extends(p, q, m)
      <4>1. PICK i : i = Len(r.wire) + 2
        OBVIOUS
      <4>2. i \in Len(r.wire)+1..Len(q.wire) /\ i - Len(r.wire) = 2 /\ i = Len(p.wire) + 1
        BY <1>8, <3>1, <3>2, <4>1
      <4>3. q.wire[i] = m
        BY <1>6, <1>7, <2>3, <4>2
      <4> QED
        BY <1>8, <3>1, <3>2, <4>2, <4>3 DEF Extends
    <3> QED
      BY <2>3, <3>3, <3>4
  <2> QED
    BY <2>2, <2>3
<1>10. m.type = "batch" /\ m.keys = editor.buffer /\ m.link = l /\ ~m.heard
  BY <1>2, <1>3, <1>7
<1>11. PICK p \in Links : /\ Extends(r, p, Leave)
                         /\ IF editor.buffer = <<>> THEN q = p ELSE Extends(p, q, m)
  BY <1>4, <1>9
<1>12. \E l2 \in 1..Len(links), r2 \in Links, p2 \in Links, q2 \in Links, m2 \in Msgs :
         /\ l2 = conn.at /\ l2 = Len(links) /\ r2 = links[l2]
         /\ links' = [links EXCEPT ![l2] = q2] /\ Extends(r2, p2, Leave)
         /\ m2.type = "batch" /\ m2.keys = editor.buffer /\ m2.link = l2 /\ ~m2.heard
         /\ IF editor.buffer = <<>> THEN q2 = p2 ELSE Extends(p2, q2, m2)
  <2>1. l = conn.at /\ l = Len(links) /\ r = links[l] /\ links' = [links EXCEPT ![l] = q]
    BY <1>7
  <2> QED
    BY <1>10, <1>11, <2>1, Zenon
<1> QED
  BY <1>5, <1>12

\* The page closes: its last flush, then attempt:leave.
LEMMA QuitPageSocket ==
  ASSUME SocketInv, QuitPage PROVE SocketInv'
<1>1. /\ KeyTypes /\ PageOpen /\ visits \in Nat /\ links \in Seq(Links) /\ Len(links) \in Nat
      /\ editor.buffer \in Seq(Nat) /\ lost \subseteq Nat
  BY LenProperties DEF SocketInv, SocketOK, KeyTypes
<1>2. /\ editor' = NoPage /\ UNCHANGED <<typed, visits, record, refused>>
      /\ conn' = [conn EXCEPT !.pending = FALSE, !.active = FALSE, !.rejoin = FALSE,
                              !.heard = FALSE]
  BY DEF QuitPage
<1>3. editor' \in Editors /\ editor'.visit = 0
  BY <1>1, <1>2, EmptySeq DEF Editors, NoPage
<1>4. /\ conn'.at = conn.at /\ ~conn'.heard /\ ~conn'.pending /\ ~conn'.active
      /\ conn' \in [at : {0, Len(links)}, made : BOOLEAN, pending : BOOLEAN,
                    active : BOOLEAN, rejoin : BOOLEAN, heard : BOOLEAN]
  BY <1>1, <1>2 DEF KeyTypes
<1>5. PageOpen'
  BY <1>4 DEF PageOpen
<1>6. CASE conn.at # 0
  <2>1. PICK l \in 1..Len(links), r \in Links, p \in Links, q \in Links, m \in Msgs :
          /\ l = conn.at /\ l = Len(links) /\ r = links[l]
          /\ links' = [links EXCEPT ![l] = q] /\ Extends(r, p, Leave)
          /\ m.type = "batch" /\ m.keys = editor.buffer /\ m.link = l /\ ~m.heard
          /\ IF editor.buffer = <<>> THEN q = p ELSE Extends(p, q, m)
    BY <1>1, <1>6, QuitSends, Zenon
  <2>2. lost' = lost
    BY <1>1, <1>6, QuitSends
  <2>3. LinkOK(l, r)'
    <3>1. LinkOK(l, r) /\ l # 0
      BY <2>1 DEF SocketInv, SocketOK
    <3> QED
      BY <1>2, <1>3, <1>4, <3>1, LinkCalmer
  <2>4. LinkOK(l, p)'
    <3>1. PICK n \in Msgs : n = Leave /\ n.type = "leave"
      BY MessagesAre
    <3>2. Extends(r, p, n)
      BY <2>1, <3>1
    <3> QED
      BY <1>3, <1>4, <2>3, <3>1, <3>2, LinkSends DEF Extends
  <2>5. LinkOK(l, q)'
    <3>1. CASE Extends(p, q, m)
      <4>1. m.type = "batch" /\ ~m.heard
        BY <2>1
      <4> QED
        BY <2>4, <3>1, <4>1, LinkSends DEF Extends
    <3> QED
      BY <2>1, <2>4, <3>1
  <2>6. links' = [links EXCEPT ![l] = q] /\ l = conn.at
    BY <2>1
  <2>7. KeyTypes'
    BY <1>1, <1>2, <1>3, <1>4, <2>2, <2>6, LinkMoves DEF KeyTypes, Editors
  <2> QED
    BY <1>2, <1>3, <1>4, <1>5, <2>5, <2>6, <2>7, SocketMoves
<1>7. CASE conn.at = 0
  <2>1. links' = links /\ lost' = lost \cup ToSet(editor.buffer)
    BY <1>7 DEF QuitPage, Lose
  <2>2. ToSet(editor.buffer) \subseteq Nat
    BY <1>1, ElementOfSeq DEF ToSet
  <2>3. KeyTypes'
    BY <1>1, <1>2, <1>3, <1>4, <2>1, <2>2 DEF KeyTypes, Editors
  <2> QED
    BY <1>2, <1>3, <1>4, <1>5, <2>1, <2>3, SocketCalmer
<1> QED
  BY <1>6, <1>7

\* A connection is made: the new link carries the joins the client owes, and no leave.
LEMMA ConnectSocket ==
  ASSUME SocketInv, Connect PROVE SocketInv'
<1>1. /\ KeyTypes /\ PageOpen /\ visits \in Nat /\ links \in Seq(Links) /\ Len(links) \in Nat
      /\ editor \in Editors /\ editor.visit \in 0..visits /\ editor.visit \in Nat
  BY LenProperties DEF SocketInv, SocketOK, KeyTypes, Editors
<1>2. /\ conn.at = 0 /\ UNCHANGED <<typed, visits, record, refused, lost>>
      /\ conn' = [conn EXCEPT !.at = Len(links) + 1, !.pending = FALSE]
      /\ editor' = [editor EXCEPT !.connected = editor.visit # 0]
  BY DEF Connect, ends
<1>3. PICK a \in Seq(Msgs) :
        /\ links' = Append(links, [NewLink EXCEPT !.wire = a])
        /\ \A i \in 1..Len(a) : a[i] = Join(editor.visit)
        /\ Len(a) > 0 => editor.visit # 0
  <2> DEFINE c == IF conn.rejoin /\ conn.active THEN <<Join(editor.visit)>> ELSE <<>>
             d == IF conn.pending THEN <<Join(editor.visit)>> ELSE <<>>
             both == c \o d
  <2>1. links' = Append(links, [NewLink EXCEPT !.wire = both])
    BY DEF Connect
  <2>2. PICK j \in Msgs : j = Join(editor.visit)
    BY <1>1, MessagesAre
  <2>3. /\ c \in {<<>>, <<j>>} /\ d \in {<<>>, <<j>>}
        /\ c # <<>> \/ d # <<>> => editor.visit # 0
    BY <1>1, <2>2 DEF PageOpen
  <2>4. /\ c \in Seq(Msgs) /\ Len(c) \in Nat /\ (c # <<>> <=> Len(c) > 0)
        /\ d \in Seq(Msgs) /\ Len(d) \in Nat /\ (d # <<>> <=> Len(d) > 0)
        /\ (\A i \in 1..Len(c) : c[i] = j) /\ (\A i \in 1..Len(d) : d[i] = j)
    BY <2>3, EmptySeq, OneMessage
  <2> HIDE DEF c, d
  <2>5. /\ both \in Seq(Msgs) /\ Len(both) = Len(c) + Len(d)
        /\ \A i \in 1..Len(c)+Len(d) : both[i] = IF i <= Len(c) THEN c[i] ELSE d[i - Len(c)]
    BY <2>4, ConcatProperties
  <2> HIDE DEF both
  <2>6. /\ \A i \in 1..Len(both) : both[i] = j
        /\ Len(both) > 0 => editor.visit # 0
    BY <2>3, <2>4, <2>5
  <2> QED
    BY <2>1, <2>2, <2>5, <2>6
<1>4. PICK r \in Links : /\ r = [NewLink EXCEPT !.wire = a] /\ r.wire = a
                         /\ r.joins = <<>> /\ ~r.bound
  <2> DEFINE r == [NewLink EXCEPT !.wire = a]
  <2>1. <<>> \in Seq(JoinEntries) /\ <<>> \in Seq(BatchMsgs)
    BY EmptySeq
  <2>2. NewLink \in Links /\ NewLink.joins = <<>> /\ ~NewLink.bound
    BY <2>1, EmptySeq DEF NewLink, Links
  <2>3. r \in Links /\ r.wire = a /\ r.joins = NewLink.joins /\ r.bound = NewLink.bound
    BY <2>2 DEF Links
  <2> QED
    BY <2>2, <2>3
<1>5. /\ links' \in Seq(Links) /\ Len(links') = Len(links) + 1
      /\ links'[Len(links) + 1] = r /\ \A l \in 1..Len(links) : links'[l] = links[l]
  BY <1>1, <1>3, <1>4, AppendProperties
<1>6. /\ conn'.at = Len(links) + 1 /\ conn'.heard = conn.heard /\ ~conn'.pending
      /\ conn'.active = conn.active
      /\ conn' \in [at : {0, Len(links')}, made : BOOLEAN, pending : BOOLEAN,
                    active : BOOLEAN, rejoin : BOOLEAN, heard : BOOLEAN]
  BY <1>1, <1>2, <1>5 DEF KeyTypes
<1>7. editor' \in Editors /\ editor'.visit = editor.visit
  BY <1>1, <1>2 DEF Editors
<1>8. ~conn.heard /\ PageOpen'
  BY <1>1, <1>2, <1>6, <1>7 DEF PageOpen
<1>9. KeyTypes'
  BY <1>1, <1>2, <1>5, <1>6, <1>7 DEF KeyTypes, Editors
<1>10. ASSUME NEW k, k = Len(links) + 1 PROVE LinkOK(k, r)'
  <2>1. r.joins = <<>> /\ Len(r.joins) = 0
    BY <1>4
  <2>2. \A i \in 1..Len(r.wire) : /\ r.wire[i].type = "join" /\ r.wire[i].visit = editor.visit
                                  /\ editor.visit \in 1..visits'
    <3>1. ASSUME NEW i \in 1..Len(r.wire)
          PROVE  /\ r.wire[i].type = "join" /\ r.wire[i].visit = editor.visit
                 /\ editor.visit \in 1..visits'
      <4>1. r.wire[i] = Join(editor.visit) /\ Len(a) > 0
        BY <1>3, <1>4
      <4> QED
        BY <1>1, <1>2, <1>3, <4>1, MessagesAre
    <3> QED
      BY <3>1
  <2> QED
    BY <1>6, <1>8, <1>10, <2>1, <2>2 DEF LinkOK
<1>11. ASSUME NEW l \in 1..Len(links) PROVE LinkOK(l, links[l])'
  <2>1. PICK p \in Links : p = links[l]
    BY <1>1, ElementOfSeq
  <2>2. LinkOK(l, p) /\ conn'.at # l
    BY <1>1, <1>6, <2>1 DEF SocketInv, SocketOK
  <2>3. LinkOK(l, p)'
    BY <1>2, <2>2 DEF LinkOK
  <2>4. p = links'[l]
    BY <1>5, <2>1
  <2> QED
    BY <2>3, <2>4 DEF LinkOK
<1>12. \A l \in 1..Len(links') : LinkOK(l, links[l])'
  <2> SUFFICES ASSUME NEW l \in 1..Len(links') PROVE LinkOK(l, links[l])'
    OBVIOUS
  <2>1. CASE l \in 1..Len(links)
    BY <1>11, <2>1
  <2>2. CASE l = Len(links) + 1
    <3>1. links'[l] = r /\ LinkOK(l, r)'
      BY <1>5, <1>10, <2>2
    <3> QED
      BY <3>1 DEF LinkOK
  <2> QED
    BY <1>1, <1>5, <2>1, <2>2
<1> QED
  BY <1>2, <1>8, <1>9, <1>12 DEF SocketInv, SocketOK, RefusalsExplained

\* A part of what is on its way, from its front on.
LEMMA LinkCuts ==
  ASSUME NEW l, NEW r \in Links, NEW q \in Links, LinkOK(l, r),
         q.joins = r.joins, q.bound = r.bound, Len(q.wire) <= Len(r.wire),
         \A i \in 1..Len(q.wire) : q.wire[i] = r.wire[i]
  PROVE  LinkOK(l, q)
<1>1. Len(r.wire) \in Nat /\ Len(q.wire) \in Nat
  BY LinkIs
<1>2. \A i \in 1..Len(q.wire) : i \in 1..Len(r.wire)
  BY <1>1
<1>3. ASSUME NEW i \in 1..Len(q.wire), q.wire[i].type = "batch", q.wire[i].heard
      PROVE  q.bound /\ \A j \in 1..i-1 : q.wire[j].type # "leave"
  <2>1. r.bound /\ \A j \in 1..i-1 : r.wire[j].type # "leave"
    BY <1>2, <1>3 DEF LinkOK
  <2>2. \A j \in 1..i-1 : j \in 1..Len(q.wire)
    BY <1>1
  <2> QED
    BY <2>1, <2>2
<1>4. ASSUME conn.at = l, NEW i \in 1..Len(q.wire), q.wire[i].type = "join",
             q.wire[i].visit = editor.visit, NEW j \in i+1..Len(q.wire)
      PROVE  q.wire[j].type # "leave"
  <2>1. j \in 1..Len(q.wire) /\ j \in i+1..Len(r.wire)
    BY <1>1
  <2>2. r.wire[j].type # "leave"
    BY <1>2, <1>4, <2>1 DEF LinkOK
  <2> QED
    BY <2>1, <2>2
<1> QED
  BY <1>2, <1>3, <1>4 DEF LinkOK

\* The first message is taken.
LEMMA LinkTakes ==
  ASSUME NEW l, NEW r \in Links, NEW q \in Links, LinkOK(l, r),
         q.joins = r.joins, q.bound = r.bound, Len(q.wire) = Len(r.wire) - 1,
         \A i \in 1..Len(q.wire) : q.wire[i] = r.wire[i + 1]
  PROVE  LinkOK(l, q)
<1>1. Len(r.wire) \in Nat /\ Len(q.wire) \in Nat
  BY LinkIs
<1>2. \A i \in 1..Len(q.wire) : i + 1 \in 1..Len(r.wire)
  BY <1>1
<1>3. ASSUME NEW i \in 1..Len(q.wire), q.wire[i].type = "batch", q.wire[i].heard
      PROVE  q.bound /\ \A j \in 1..i-1 : q.wire[j].type # "leave"
  <2>1. r.bound /\ \A j \in 1..(i+1)-1 : r.wire[j].type # "leave"
    BY <1>2, <1>3 DEF LinkOK
  <2>2. \A j \in 1..i-1 : j \in 1..Len(q.wire) /\ j + 1 \in 1..(i+1)-1
    BY <1>1
  <2> QED
    BY <2>1, <2>2
<1>4. ASSUME conn.at = l, NEW i \in 1..Len(q.wire), q.wire[i].type = "join",
             q.wire[i].visit = editor.visit, NEW j \in i+1..Len(q.wire)
      PROVE  q.wire[j].type # "leave"
  <2>1. j \in 1..Len(q.wire) /\ j + 1 \in (i+1)+1..Len(r.wire)
    BY <1>1
  <2>2. r.wire[j + 1].type # "leave"
    BY <1>2, <1>4, <2>1 DEF LinkOK
  <2> QED
    BY <2>1, <2>2
<1>5. /\ \A n \in 1..Len(q.joins) : q.joins[n].visit \in 1..visits
      /\ \A i \in 1..Len(q.wire) : q.wire[i].type = "join" => q.wire[i].visit \in 1..visits
  BY <1>2 DEF LinkOK
<1>6. conn.at = l /\ conn.heard =>
        q.bound /\ \A i \in 1..Len(q.wire) : q.wire[i].type # "leave"
  BY <1>2 DEF LinkOK
<1>7. conn.at = l => \A n \in 1..Len(q.joins) : q.joins[n].visit = editor.visit =>
        /\ \A i \in 1..Len(q.wire) : q.wire[i].type # "leave"
        /\ q.joins[n].at = "bound" => q.bound
  BY <1>2 DEF LinkOK
<1> QED
  BY <1>3, <1>4, <1>5, <1>6, <1>7 DEF LinkOK

\* The connection ends.
LEMMA CutSocket ==
  ASSUME SocketInv, NEW keys \in SUBSET Nat, CutLink(keys), UNCHANGED <<typed, visits, record, refused>>,
         editor' \in Editors, editor'.visit \in {editor.visit, 0}, PageOpen',
         conn'.at = 0, ~conn'.heard,
         conn' \in [at : {0}, made : BOOLEAN, pending : BOOLEAN, active : BOOLEAN,
                    rejoin : BOOLEAN, heard : BOOLEAN]
  PROVE  SocketInv'
<1>1. /\ KeyTypes /\ visits \in Nat /\ links \in Seq(Links) /\ Len(links) \in Nat
      /\ lost \subseteq Nat
  BY LenProperties DEF SocketInv, SocketOK, KeyTypes
<1>2. CASE conn.at = 0
  <2>1. links' = links /\ lost' = lost \cup keys
    BY <1>2 DEF CutLink, Lose
  <2>2. KeyTypes'
    BY <1>1, <2>1 DEF KeyTypes, Editors
  <2> QED
    BY <2>1, <2>2, SocketCalmer
<1>3. CASE conn.at # 0
  <2>1. PICK l \in 1..Len(links), r \in Links : l = conn.at /\ r = links[l]
    <3>1. conn.at \in 1..Len(links)
      BY <1>1, <1>3 DEF KeyTypes
    <3> QED
      BY <1>1, <3>1, ElementOfSeq
  <2>2. PICK n \in 0..Len(r.wire) :
          /\ links' = [links EXCEPT ![l].wire = SubSeq(r.wire, 1, n)]
          /\ lost' = lost \cup (keys \cup KeysOf(Batches(SubSeq(r.wire, n + 1, Len(r.wire)))))
    BY <1>3, <2>1 DEF CutLink, Lose
  <2>3. KeysOf(Batches(SubSeq(r.wire, n + 1, Len(r.wire)))) \subseteq Nat
    <3>1. r.wire \in Seq(Msgs) /\ Len(r.wire) \in Nat /\ \A i \in 1..Len(r.wire) : r.wire[i] \in Msgs
      BY LinkIs
    <3>2. PICK w \in Seq(Msgs) : w = SubSeq(r.wire, n + 1, Len(r.wire))
      <4>1. n + 1 \in Int /\ Len(r.wire) \in Int /\ \A i \in n+1..Len(r.wire) : r.wire[i] \in Msgs
        BY <3>1
      <4> QED
        BY <4>1, SubSeqProperties
    <3>3. ASSUME NEW m \in Batches(w) PROVE m \in BatchMsgs /\ m.keys \in Seq(Nat)
      <4>1. m \in Msgs /\ m.type = "batch"
        BY <3>2, LenProperties, ElementOfSeq DEF Batches, ToSet
      <4> QED
        BY <4>1, MessagesAre
    <3>4. ASSUME NEW m \in Batches(w) PROVE ToSet(m.keys) \subseteq Nat
      BY <3>3, LenProperties, ElementOfSeq DEF ToSet
    <3> QED
      BY <3>2, <3>4 DEF KeysOf
  <2>4. PICK q \in Links :
          /\ links' = [links EXCEPT ![l] = q]
          /\ q.joins = r.joins /\ q.bound = r.bound
          /\ Len(q.wire) = n /\ \A i \in 1..n : q.wire[i] = r.wire[i]
    <3>1. links' = [links EXCEPT ![l] = [r EXCEPT !.wire = SubSeq(r.wire, 1, n)]]
      BY <1>1, <2>1, <2>2
    <3> QED
      BY <3>1, WireCut
  <2>5. LinkOK(l, r) /\ l # 0
    BY <2>1 DEF SocketInv, SocketOK
  <2>6. Len(r.wire) \in Nat /\ n <= Len(r.wire)
    BY LinkIs
  <2>7. LinkOK(l, q)
    BY <2>4, <2>5, <2>6, LinkCuts
  <2>8. LinkOK(l, q)'
    BY <2>5, <2>7, LinkCalmer
  <2>9. links' \in Seq(Links) /\ Len(links') = Len(links)
    BY <1>1, <2>4, LinkMoves
  <2>10. KeyTypes'
    BY <1>1, <2>2, <2>3, <2>9 DEF KeyTypes, Editors
  <2> QED
    BY <2>4, <2>8, <2>10, SocketMoves
<1> QED
  BY <1>2, <1>3

\* The connection is lost: what is on the wire is cut, and answers are no longer heard.
LEMMA LoseConnectionSocket ==
  ASSUME SocketInv, LoseConnection PROVE SocketInv'
<1>1. KeyTypes /\ PageOpen /\ editor \in Editors
  BY DEF SocketInv, SocketOK, KeyTypes, Editors
<1>2. /\ CutLink({}) /\ UNCHANGED <<typed, visits, record, refused>>
      /\ conn' = [conn EXCEPT !.at = 0, !.heard = FALSE]
      /\ editor' = [editor EXCEPT !.connected = FALSE]
  BY DEF LoseConnection
<1>3. /\ conn'.at = 0 /\ ~conn'.heard /\ conn'.pending = conn.pending
      /\ conn'.active = conn.active
      /\ conn' \in [at : {0}, made : BOOLEAN, pending : BOOLEAN, active : BOOLEAN,
                    rejoin : BOOLEAN, heard : BOOLEAN]
  BY <1>1, <1>2 DEF KeyTypes
<1>4. editor' \in Editors /\ editor'.visit = editor.visit
  BY <1>1, <1>2 DEF Editors
<1>5. PageOpen'
  BY <1>1, <1>3, <1>4 DEF PageOpen
<1> QED
  BY <1>2, <1>3, <1>4, <1>5, CutSocket

\* The tab closes, and the connection with it.
LEMMA CloseTabSocket ==
  ASSUME SocketInv, CloseTab PROVE SocketInv'
<1>1. KeyTypes /\ editor.buffer \in Seq(Nat) /\ visits \in Nat
  BY DEF SocketInv, SocketOK, KeyTypes
<1>2. /\ CutLink(ToSet(editor.buffer)) /\ UNCHANGED <<typed, visits, record, refused>>
      /\ conn' = NoSocket /\ editor' = NoPage
  BY DEF CloseTab
<1>3. ToSet(editor.buffer) \in SUBSET Nat
  BY <1>1, LenProperties, ElementOfSeq DEF ToSet
<1>4. /\ conn'.at = 0 /\ ~conn'.heard /\ ~conn'.pending /\ ~conn'.active
      /\ conn' \in [at : {0}, made : BOOLEAN, pending : BOOLEAN, active : BOOLEAN,
                    rejoin : BOOLEAN, heard : BOOLEAN]
  BY <1>2 DEF NoSocket
<1>5. editor' \in Editors /\ editor'.visit = 0
  BY <1>1, <1>2, EmptySeq DEF Editors, NoPage
<1>6. PageOpen'
  BY <1>4 DEF PageOpen
<1> QED
  BY <1>2, <1>3, <1>4, <1>5, <1>6, CutSocket

\* What the server does with connection l.
LEMMA ServerSocket ==
  ASSUME SocketInv, NEW l \in 1..Len(links), NEW q \in Links, LinkOK(l, q),
         links' = [links EXCEPT ![l] = q], lost' \subseteq Nat,
         record' \in Seq(BatchMsgs), refused' = refused,
         UNCHANGED <<typed, visits, editor, conn>>
  PROVE  SocketInv'
<1>1. KeyTypes /\ PageOpen
  BY DEF SocketInv, SocketOK
<1>2. links' \in Seq(Links) /\ Len(links') = Len(links)
  BY <1>1, LinkMoves
<1>3. KeyTypes'
  BY <1>1, <1>2 DEF KeyTypes
<1>4. PageOpen'
  BY <1>1 DEF PageOpen
<1>5. LinkOK(l, q)'
  BY DEF LinkOK
<1> QED
  BY <1>3, <1>4, <1>5, SocketMoves

\* The server starts on a join.
LEMMA ReceiveJoinSocket ==
  ASSUME SocketInv, NEW l \in 1..Len(links), ReceiveJoin(l) PROVE SocketInv'
<1>1. /\ KeyTypes /\ links \in Seq(Links) /\ links[l] \in Links /\ lost \subseteq Nat
      /\ record \in Seq(BatchMsgs)
  BY ElementOfSeq DEF SocketInv, KeyTypes
<1>2. PICK r \in Links : r = links[l]
  BY <1>1
<1>3. r.wire # <<>> /\ Head(r.wire).type = "join"
  BY <1>2 DEF ReceiveJoin, Arrives
<1>4. PICK t \in Links :
        /\ t = Taken(l) /\ t.joins = r.joins /\ t.bound = r.bound /\ t.writes = r.writes
        /\ Len(r.wire) >= 1 /\ Head(r.wire) = r.wire[1] /\ r.wire[1] \in Msgs
        /\ Len(t.wire) = Len(r.wire) - 1
        /\ \A i \in 1..Len(t.wire) : t.wire[i] = r.wire[i + 1]
  BY <1>1, <1>2, <1>3, WireTaken
<1>5. Len(r.wire) \in Nat /\ Len(t.wire) \in Nat /\ r.joins \in Seq(JoinEntries) /\ Len(r.joins) \in Nat
  BY LinkIs
<1>6. LinkOK(l, r)
  BY <1>2 DEF SocketInv, SocketOK
<1>7. LinkOK(l, t)
  BY <1>4, <1>6, LinkTakes
<1>8. r.wire[1].type = "join" /\ 1 \in 1..Len(r.wire) /\ r.wire[1].visit \in 1..visits
  BY <1>3, <1>4, <1>5, <1>6 DEF LinkOK
<1>9. PICK j \in JoinEntries : /\ j = [visit |-> r.wire[1].visit, at |-> "reading"]
                              /\ j.visit = r.wire[1].visit /\ j.at = "reading"
  <2>1. PICK v \in Nat : v = r.wire[1].visit
    BY <1>4, <1>8, MessagesAre
  <2>2. [visit |-> v, at |-> "reading"] \in JoinEntries
    BY DEF JoinEntries
  <2> QED
    BY <2>1, <2>2
<1> DEFINE q == [t EXCEPT !.joins = Append(@, j)]
<1>10. /\ q \in Links /\ q.wire = t.wire /\ q.bound = t.bound /\ Len(q.joins) = Len(r.joins) + 1
       /\ \A n \in 1..Len(r.joins) : q.joins[n] = r.joins[n]
       /\ q.joins[Len(r.joins) + 1] = j
  <2>1. /\ Append(r.joins, j) \in Seq(JoinEntries) /\ Len(Append(r.joins, j)) = Len(r.joins) + 1
        /\ \A n \in 1..Len(r.joins) : Append(r.joins, j)[n] = r.joins[n]
        /\ Append(r.joins, j)[Len(r.joins) + 1] = j
    BY <1>5, AppendProperties
  <2>2. q.joins = Append(r.joins, j) /\ q.wire = t.wire /\ q.bound = t.bound /\ q \in Links
    BY <1>4, <2>1 DEF Links
  <2> HIDE DEF q
  <2> QED
    BY <2>1, <2>2
<1>11. links' = [links EXCEPT ![l] = q]
  BY <1>2, <1>4, <1>9 DEF ReceiveJoin
<1> HIDE DEF q
<1>12. \A n \in 1..Len(q.joins) : n \in 1..Len(r.joins) \/ n = Len(r.joins) + 1
  BY <1>5, <1>10
<1>13. ASSUME conn.at = l, j.visit = editor.visit, NEW i \in 1..Len(t.wire)
       PROVE  t.wire[i].type # "leave"
  <2>1. i + 1 \in 1+1..Len(r.wire)
    BY <1>4, <1>5
  <2>2. r.wire[i + 1].type # "leave"
    BY <1>6, <1>8, <1>9, <1>13, <2>1 DEF LinkOK
  <2> QED
    BY <1>4, <2>2
<1>14. LinkOK(l, q)
  <2>1. \A n \in 1..Len(q.joins) : q.joins[n].visit \in 1..visits
    <3>1. \A n \in 1..Len(r.joins) : r.joins[n].visit \in 1..visits
      BY <1>6 DEF LinkOK
    <3> QED
      BY <1>8, <1>9, <1>10, <1>12, <3>1
  <2>2. ASSUME conn.at = l, NEW n \in 1..Len(q.joins), q.joins[n].visit = editor.visit
        PROVE  /\ \A i \in 1..Len(q.wire) : q.wire[i].type # "leave"
               /\ q.joins[n].at = "bound" => q.bound
    <3>1. CASE n \in 1..Len(r.joins)
      <4>1. q.joins[n] = t.joins[n] /\ n \in 1..Len(t.joins)
        BY <1>4, <1>10, <3>1
      <4> QED
        BY <1>7, <1>10, <2>2, <4>1 DEF LinkOK
    <3>2. CASE n = Len(r.joins) + 1
      BY <1>9, <1>10, <1>13, <2>2, <3>2
    <3> QED
      BY <1>12, <3>1, <3>2
  <2> QED
    BY <1>7, <1>10, <2>1, <2>2 DEF LinkOK
<1> QED
  BY <1>1, <1>10, <1>11, <1>14, ServerSocket DEF ReceiveJoin, ends

\* A leave unbinds the socket: no join of this visit and no answered batch is behind it.
LEMMA ReceiveLeaveSocket ==
  ASSUME SocketInv, NEW l \in 1..Len(links), ReceiveLeave(l) PROVE SocketInv'
<1>1. /\ KeyTypes /\ links \in Seq(Links) /\ links[l] \in Links /\ lost \subseteq Nat
      /\ record \in Seq(BatchMsgs)
  BY ElementOfSeq DEF SocketInv, KeyTypes
<1>2. PICK r \in Links : r = links[l]
  BY <1>1
<1>3. r.wire # <<>> /\ Head(r.wire).type = "leave"
  BY <1>2 DEF ReceiveLeave, Arrives
<1>4. PICK t \in Links :
        /\ t = Taken(l) /\ t.joins = r.joins /\ t.bound = r.bound /\ t.writes = r.writes
        /\ Len(r.wire) >= 1 /\ Head(r.wire) = r.wire[1] /\ r.wire[1] \in Msgs
        /\ Len(t.wire) = Len(r.wire) - 1
        /\ \A i \in 1..Len(t.wire) : t.wire[i] = r.wire[i + 1]
  BY <1>1, <1>2, <1>3, WireTaken
<1>5. Len(r.wire) \in Nat /\ Len(t.wire) \in Nat
  BY LinkIs
<1>6. LinkOK(l, r)
  BY <1>2 DEF SocketInv, SocketOK
<1>7. LinkOK(l, t)
  BY <1>4, <1>6, LinkTakes
<1>8. r.wire[1].type = "leave" /\ 1 \in 1..Len(r.wire)
  BY <1>3, <1>4, <1>5
<1> DEFINE q == [t EXCEPT !.bound = FALSE]
<1>9. /\ q \in Links /\ q.wire = t.wire /\ ~q.bound /\ q.joins = t.joins
  BY DEF Links
<1>10. links' = [links EXCEPT ![l] = q]
  BY <1>2, <1>4 DEF ReceiveLeave
<1> HIDE DEF q
<1>11. ~(conn.at = l /\ conn.heard)
  BY <1>6, <1>8 DEF LinkOK
<1>12. \A i \in 1..Len(t.wire) : ~(t.wire[i].type = "batch" /\ t.wire[i].heard)
  <2> SUFFICES ASSUME NEW i \in 1..Len(t.wire), t.wire[i].type = "batch", t.wire[i].heard
               PROVE  FALSE
    OBVIOUS
  <2>1. i + 1 \in 1..Len(r.wire) /\ 1 \in 1..(i+1)-1
    BY <1>4, <1>5
  <2> QED
    BY <1>4, <1>6, <1>8, <2>1 DEF LinkOK
<1>13. \A n \in 1..Len(t.joins) : ~(conn.at = l /\ t.joins[n].visit = editor.visit)
  BY <1>4, <1>6, <1>8 DEF LinkOK
<1>14. LinkOK(l, q)
  BY <1>7, <1>9, <1>11, <1>12, <1>13 DEF LinkOK
<1> QED
  BY <1>1, <1>9, <1>10, <1>14, ServerSocket DEF ReceiveLeave, ends

\* A batch is written to the pipeline or refused; a refused one was never answered a join.
LEMMA ReceiveBatchSocket ==
  ASSUME SocketInv, NEW l \in 1..Len(links), ReceiveBatch(l) PROVE SocketInv'
<1>1. /\ KeyTypes /\ links \in Seq(Links) /\ links[l] \in Links /\ lost \subseteq Nat
      /\ record \in Seq(BatchMsgs) /\ refused \subseteq BatchMsgs /\ RefusalsExplained
      /\ PageOpen
  BY ElementOfSeq DEF SocketInv, SocketOK, KeyTypes
<1>2. PICK r \in Links : r = links[l]
  BY <1>1
<1>3. r.wire # <<>> /\ Head(r.wire).type = "batch"
  BY <1>2 DEF ReceiveBatch, Arrives
<1>4. PICK t \in Links :
        /\ t = Taken(l) /\ t.joins = r.joins /\ t.bound = r.bound /\ t.writes = r.writes
        /\ Len(r.wire) >= 1 /\ Head(r.wire) = r.wire[1] /\ r.wire[1] \in Msgs
        /\ Len(t.wire) = Len(r.wire) - 1
        /\ \A i \in 1..Len(t.wire) : t.wire[i] = r.wire[i + 1]
  BY <1>1, <1>2, <1>3, WireTaken
<1>5. Len(r.wire) \in Nat /\ Len(t.wire) \in Nat
  BY LinkIs
<1>6. LinkOK(l, r)
  BY <1>2 DEF SocketInv, SocketOK
<1>7. LinkOK(l, t)
  BY <1>4, <1>6, LinkTakes
<1>8. PICK b \in BatchMsgs : b = Head(r.wire) /\ b = r.wire[1]
  BY <1>3, <1>4, MessagesAre
<1>9. b.heard => r.bound
  <2>1. 1 \in 1..Len(r.wire) /\ r.wire[1].type = "batch"
    BY <1>3, <1>4, <1>5
  <2> QED
    BY <1>6, <1>8, <2>1 DEF LinkOK
<1>10. UNCHANGED <<typed, visits, editor, conn, record>>
  BY DEF ReceiveBatch
<1>11. CASE ~r.bound /\ links' = [links EXCEPT ![l] = t] /\ refused' = refused \cup {b} /\ lost' = lost
  <2>1. ~b.heard
    BY <1>9, <1>11
  <2>2. /\ links' \in Seq(Links) /\ Len(links') = Len(links) /\ links'[l] = t
        /\ \A m \in 1..Len(links) : m # l => links'[m] = links[m]
    BY <1>1, <1>11, LinkMoves
  <2>3. KeyTypes'
    BY <1>1, <1>10, <1>11, <2>2 DEF KeyTypes
  <2>4. PageOpen'
    BY <1>1, <1>10 DEF PageOpen
  <2>5. RefusalsExplained'
    BY <1>1, <1>11, <2>1 DEF RefusalsExplained
  <2>6. ASSUME NEW m \in 1..Len(links) PROVE LinkOK(m, links[m])'
    <3>1. PICK p : p = links'[m]
      OBVIOUS
    <3>2. LinkOK(m, p)
      BY <1>7, <2>2, <3>1 DEF SocketInv, SocketOK
    <3> QED
      BY <1>10, <3>1, <3>2 DEF LinkOK
  <2> QED
    BY <2>2, <2>3, <2>4, <2>5, <2>6 DEF SocketInv, SocketOK
<1>12. CASE links' = [links EXCEPT ![l] = t] /\ lost' = lost \cup ToSet(b.keys) /\ refused' = refused
  <2>1. ToSet(b.keys) \subseteq Nat
    BY MessagesAre, LenProperties, ElementOfSeq DEF ToSet
  <2> QED
    BY <1>1, <1>7, <1>10, <1>12, <2>1, ServerSocket
<1>13. CASE /\ links' = [links EXCEPT ![l] = [t EXCEPT !.writes = Append(@, b)]]
            /\ UNCHANGED <<refused, lost>>
  <2> DEFINE q == [t EXCEPT !.writes = Append(@, b)]
  <2>1. Append(t.writes, b) \in Seq(BatchMsgs)
    BY LinkIs, AppendProperties
  <2>2. q \in Links /\ q.wire = t.wire /\ q.bound = t.bound /\ q.joins = t.joins
    BY <2>1 DEF Links
  <2>3. links' = [links EXCEPT ![l] = q]
    BY <1>13
  <2> HIDE DEF q
  <2>4. LinkOK(l, q)
    BY <1>7, <2>2 DEF LinkOK
  <2> QED
    BY <1>1, <1>10, <1>13, <2>2, <2>3, <2>4, ServerSocket
<1> QED
  BY <1>2, <1>4, <1>8, <1>11, <1>12, <1>13 DEF ReceiveBatch, Lose, ends

\* A join binds the socket.
LEMMA BindSocketSocket ==
  ASSUME SocketInv, NEW l \in 1..Len(links), NEW n \in 1..Len(links[l].joins), BindSocket(l, n)
  PROVE  SocketInv'
<1>1. /\ KeyTypes /\ links \in Seq(Links) /\ links[l] \in Links /\ lost \subseteq Nat
      /\ record \in Seq(BatchMsgs)
  BY ElementOfSeq DEF SocketInv, KeyTypes
<1>2. PICK r \in Links : r = links[l]
  BY <1>1
<1>3. r.joins \in Seq(JoinEntries) /\ n \in 1..Len(r.joins) /\ r.joins[n] \in JoinEntries
  BY <1>2, LinkIs
<1>4. PICK e \in JoinEntries : e = [r.joins[n] EXCEPT !.at = "bound"] /\ e.visit = r.joins[n].visit
  <2>1. PICK j \in JoinEntries : j = r.joins[n]
    BY <1>3
  <2>2. [j EXCEPT !.at = "bound"] \in JoinEntries /\ [j EXCEPT !.at = "bound"].visit = j.visit
    BY DEF JoinEntries
  <2> QED
    BY <2>1, <2>2
<1> DEFINE q == [r EXCEPT !.bound = TRUE, !.joins = [@ EXCEPT ![n] = e]]
<1>5. /\ q \in Links /\ q.wire = r.wire /\ q.bound /\ Len(q.joins) = Len(r.joins)
      /\ \A i \in 1..Len(r.joins) : q.joins[i].visit = r.joins[i].visit
  <2> DEFINE s == [r.joins EXCEPT ![n] = e]
  <2>1. /\ s \in Seq(JoinEntries) /\ Len(s) = Len(r.joins)
        /\ \A i \in 1..Len(r.joins) : s[i] = IF i = n THEN e ELSE r.joins[i]
    BY <1>3, ExceptSeq
  <2>2. q = [r EXCEPT !.bound = TRUE, !.joins = s]
    OBVIOUS
  <2> HIDE DEF s, q
  <2>3. q \in Links /\ q.wire = r.wire /\ q.bound /\ q.joins = s
    BY <2>1, <2>2 DEF Links
  <2> QED
    BY <1>4, <2>1, <2>3
<1>6. links' = [links EXCEPT ![l] = q]
  BY <1>1, <1>2, <1>4 DEF BindSocket
<1> HIDE DEF q
<1>7. LinkOK(l, r)
  BY <1>2 DEF SocketInv, SocketOK
<1>8. LinkOK(l, q)
  BY <1>5, <1>7 DEF LinkOK
<1> QED
  BY <1>1, <1>5, <1>6, <1>8, ServerSocket DEF BindSocket, ends

\* A join is no longer served.
LEMMA LinkJoinsLess ==
  ASSUME NEW l, NEW r \in Links, NEW q \in Links, LinkOK(l, r), q.wire = r.wire,
         q.bound = r.bound,
         \A i \in 1..Len(q.joins) : \E k \in 1..Len(r.joins) : q.joins[i] = r.joins[k]
  PROVE  LinkOK(l, q)
<1>1. /\ \A i \in 1..Len(q.joins) : q.joins[i].visit \in 1..visits
      /\ conn.at = l => \A i \in 1..Len(q.joins) : q.joins[i].visit = editor.visit =>
           /\ \A k \in 1..Len(q.wire) : q.wire[k].type # "leave"
           /\ q.joins[i].at = "bound" => q.bound
  BY DEF LinkOK
<1> QED
  BY <1>1 DEF LinkOK

\* A join that bound the socket is answered: what is sent from here on finds it bound.
LEMMA AnswerSuccessSocket ==
  ASSUME SocketInv, NEW l \in 1..Len(links), NEW n \in 1..Len(links[l].joins), AnswerSuccess(l, n)
  PROVE  SocketInv'
<1>1. /\ KeyTypes /\ links \in Seq(Links) /\ links[l] \in Links /\ Len(links) \in Nat
      /\ editor \in Editors /\ visits \in Nat /\ PageOpen
      /\ conn \in [at : {0, Len(links)}, made : BOOLEAN, pending : BOOLEAN, active : BOOLEAN,
                   rejoin : BOOLEAN, heard : BOOLEAN]
  BY ElementOfSeq, LenProperties DEF SocketInv, SocketOK, KeyTypes, Editors
<1>2. PICK r \in Links : r = links[l]
  BY <1>1
<1>3. PICK q \in Links :
        /\ links' = [links EXCEPT ![l] = q]
        /\ q.wire = r.wire /\ q.bound = r.bound /\ q.writes = r.writes
        /\ \A i \in 1..Len(q.joins) : \E k \in 1..Len(r.joins) : q.joins[i] = r.joins[k]
  BY <1>1, <1>2, JoinsLess DEF AnswerSuccess
<1>4. LinkOK(l, r) /\ l # 0
  BY <1>2 DEF SocketInv, SocketOK
<1>5. LinkOK(l, q)
  BY <1>3, <1>4, LinkJoinsLess
<1>6. UNCHANGED <<typed, visits, record, refused, lost>> /\ r.joins[n].at = "bound"
  BY <1>2 DEF AnswerSuccess, MayAnswer, ends
<1>7. Len(links') = Len(links) /\ links' \in Seq(Links)
  BY <1>1, <1>3, LinkMoves
<1>8. CASE conn.at = l /\ r.joins[n].visit = editor.visit
  <2>1. /\ conn' = [conn EXCEPT !.active = TRUE, !.heard = TRUE]
        /\ editor' = [editor EXCEPT !.connected = TRUE]
    BY <1>2, <1>8 DEF AnswerSuccess
  <2>2. /\ conn'.at = conn.at /\ conn'.heard /\ conn'.pending = conn.pending
        /\ conn' \in [at : {0, Len(links)}, made : BOOLEAN, pending : BOOLEAN, active : BOOLEAN,
                      rejoin : BOOLEAN, heard : BOOLEAN]
    BY <1>1, <2>1
  <2>3. editor' \in Editors /\ editor'.visit = editor.visit
    BY <1>1, <2>1 DEF Editors
  <2>4. /\ r.bound /\ \A i \in 1..Len(r.wire) : r.wire[i].type # "leave"
        /\ r.joins[n].visit \in 1..visits
    BY <1>2, <1>4, <1>6, <1>8 DEF LinkOK
  <2>5. PageOpen'
    BY <1>1, <1>4, <1>8, <2>2, <2>3, <2>4 DEF PageOpen
  <2>6. LinkOK(l, q)'
    BY <1>3, <1>5, <1>6, <1>8, <2>2, <2>3, <2>4 DEF LinkOK
  <2>7. KeyTypes'
    BY <1>1, <1>6, <1>7, <2>2, <2>3 DEF KeyTypes, Editors
  <2> QED
    BY <1>3, <1>6, <1>8, <2>2, <2>3, <2>5, <2>6, <2>7, SocketMoves
<1>9. CASE ~(conn.at = l /\ r.joins[n].visit = editor.visit)
  <2>1. conn' = conn /\ editor' = editor
    BY <1>2, <1>9 DEF AnswerSuccess
  <2>2. lost' \subseteq Nat /\ record' \in Seq(BatchMsgs)
    BY <1>1, <1>6 DEF KeyTypes
  <2> QED
    BY <1>3, <1>5, <1>6, <2>1, <2>2, ServerSocket
<1> QED
  BY <1>8, <1>9

\* A join is refused.
LEMMA AnswerRefusalSocket ==
  ASSUME SocketInv, NEW l \in 1..Len(links), NEW n \in 1..Len(links[l].joins), AnswerRefusal(l, n)
  PROVE  SocketInv'
<1>1. /\ KeyTypes /\ links \in Seq(Links) /\ links[l] \in Links /\ PageOpen
      /\ conn \in [at : {0, Len(links)}, made : BOOLEAN, pending : BOOLEAN, active : BOOLEAN,
                   rejoin : BOOLEAN, heard : BOOLEAN]
  BY ElementOfSeq DEF SocketInv, SocketOK, KeyTypes
<1>2. PICK r \in Links : r = links[l]
  BY <1>1
<1>3. PICK q \in Links :
        /\ links' = [links EXCEPT ![l] = q]
        /\ q.wire = r.wire /\ q.bound = r.bound /\ q.writes = r.writes
        /\ \A i \in 1..Len(q.joins) : \E k \in 1..Len(r.joins) : q.joins[i] = r.joins[k]
  BY <1>1, <1>2, JoinsLess DEF AnswerRefusal
<1>4. LinkOK(l, r) /\ l # 0
  BY <1>2 DEF SocketInv, SocketOK
<1>5. LinkOK(l, q)
  BY <1>3, <1>4, LinkJoinsLess
<1>6. UNCHANGED <<typed, visits, editor, record, refused, lost>>
  BY DEF AnswerRefusal, ends
<1>7. /\ conn'.at = conn.at /\ conn'.heard = conn.heard /\ conn'.pending = conn.pending
      /\ conn'.active => conn.active
      /\ conn' \in [at : {0, Len(links)}, made : BOOLEAN, pending : BOOLEAN, active : BOOLEAN,
                    rejoin : BOOLEAN, heard : BOOLEAN]
  BY <1>1 DEF AnswerRefusal
<1>8. PageOpen'
  BY <1>1, <1>6, <1>7 DEF PageOpen
<1>9. LinkOK(l, q)'
  BY <1>4, <1>5, <1>6, <1>7, LinkCalmer
<1>10. Len(links') = Len(links) /\ links' \in Seq(Links)
  BY <1>1, <1>3, LinkMoves
<1>11. KeyTypes'
  BY <1>1, <1>6, <1>7, <1>10 DEF KeyTypes
<1> QED
  BY <1>3, <1>6, <1>7, <1>8, <1>9, <1>11, SocketMoves

\* The first batch that waits for Redis is taken.
LEMMA WriteTaken ==
  ASSUME KeyTypes, NEW l \in 1..Len(links), links[l].writes # <<>>,
         links' = [links EXCEPT ![l].writes = Tail(@)]
  PROVE  \E r \in Links, q \in Links, b \in BatchMsgs :
           /\ r = links[l] /\ b = Head(r.writes) /\ b = r.writes[1] /\ b.keys \in Seq(Nat)
           /\ links' = [links EXCEPT ![l] = q]
           /\ q.wire = r.wire /\ q.joins = r.joins /\ q.bound = r.bound
           /\ Len(r.writes) >= 1 /\ Len(q.writes) = Len(r.writes) - 1
           /\ \A i \in 1..Len(q.writes) : q.writes[i] = r.writes[i + 1]
<1>1. links[l] \in Links /\ links \in Seq(Links)
  BY ElementOfSeq DEF KeyTypes
<1>2. PICK r \in Links : r = links[l]
  BY <1>1
<1>3. PICK s \in Seq(BatchMsgs) : s = r.writes /\ s # <<>> /\ Len(s) \in Nat
  BY <1>2, LinkIs
<1>4. PICK t \in Seq(BatchMsgs) :
        /\ t = Tail(s) /\ Len(t) = Len(s) - 1 /\ Head(s) \in BatchMsgs
        /\ \A i \in 1..Len(t) : t[i] = s[i + 1]
  <2>1. /\ Tail(s) \in Seq(BatchMsgs) /\ Len(Tail(s)) = Len(s) - 1 /\ Head(s) \in BatchMsgs
        /\ \A i \in 1..Len(Tail(s)) : Tail(s)[i] = s[i + 1]
    BY <1>3, HeadTailProperties
  <2> QED
    BY <2>1
<1>5. Len(s) >= 1 /\ Head(s) = s[1]
  BY <1>3, EmptySeq
<1> DEFINE q == [r EXCEPT !.writes = t]
<1>6. /\ q \in Links /\ q.wire = r.wire /\ q.joins = r.joins /\ q.bound = r.bound
      /\ q.writes = t
  BY DEF Links
<1>7. links' = [links EXCEPT ![l] = q]
  BY <1>2, <1>3, <1>4
<1> HIDE DEF q
<1>8. PICK b \in BatchMsgs : b = Head(s) /\ b.keys \in Seq(Nat)
  BY <1>4, MessagesAre
<1>9. /\ b = Head(r.writes) /\ b = r.writes[1] /\ Len(r.writes) >= 1
      /\ Len(q.writes) = Len(r.writes) - 1
      /\ \A i \in 1..Len(q.writes) : q.writes[i] = r.writes[i + 1]
  BY <1>3, <1>4, <1>5, <1>6, <1>8
<1> QED
  BY <1>2, <1>6, <1>7, <1>8, <1>9, Zenon

\* A server-side step leaves what a link owes its page as it was.
LEMMA LinkSame ==
  ASSUME NEW l, NEW r, NEW q, LinkOK(l, r),
         q.wire = r.wire, q.joins = r.joins, q.bound = r.bound
  PROVE  LinkOK(l, q)
BY DEF LinkOK

\* The pipeline fails on a batch.
LEMMA StoreFailsSocket ==
  ASSUME SocketInv, NEW l \in 1..Len(links), StoreFails(l) PROVE SocketInv'
<1>1. KeyTypes /\ lost \subseteq Nat /\ record \in Seq(BatchMsgs)
  BY DEF SocketInv, KeyTypes
<1>2. PICK r \in Links, q \in Links, b \in BatchMsgs :
        /\ r = links[l] /\ b = Head(r.writes) /\ b = r.writes[1] /\ b.keys \in Seq(Nat)
        /\ links' = [links EXCEPT ![l] = q]
        /\ q.wire = r.wire /\ q.joins = r.joins /\ q.bound = r.bound
        /\ Len(r.writes) >= 1 /\ Len(q.writes) = Len(r.writes) - 1
        /\ \A i \in 1..Len(q.writes) : q.writes[i] = r.writes[i + 1]
  <2>1. links[l].writes # <<>> /\ links' = [links EXCEPT ![l].writes = Tail(@)]
    BY DEF StoreFails
  <2> QED
    BY <1>1, <2>1, WriteTaken, Zenon
<1>3. lost' = lost \cup ToSet(b.keys) /\ ToSet(b.keys) \subseteq Nat
  BY <1>2, LenProperties, ElementOfSeq DEF StoreFails, Lose, ToSet
<1>4. LinkOK(l, q)
  <2>1. LinkOK(l, r)
    BY <1>2 DEF SocketInv, SocketOK
  <2> QED
    BY <1>2, <2>1, LinkSame
<1> QED
  BY <1>1, <1>2, <1>3, <1>4, ServerSocket DEF StoreFails

\* The pipeline appends and trims.
LEMMA RecordMoves ==
  ASSUME record \in Seq(BatchMsgs), NEW b \in BatchMsgs,
         NEW spare \in {0, 1},
         record' = SubSeq(Append(record, b), spare + 1, Len(Append(record, b)))
  PROVE  LET all == Append(record, b) IN
         /\ record' \in Seq(BatchMsgs) /\ Len(record') = Len(record) + 1 - spare
         /\ Len(record) \in Nat
         /\ all \in Seq(BatchMsgs) /\ Len(all) = Len(record) + 1
         /\ all[Len(record) + 1] = b
         /\ \A i \in 1..Len(record) : all[i] = record[i]
         /\ \A i \in 1..Len(record') : record'[i] = all[i + spare]
         /\ SubSeq(all, 1, spare) \in Seq(BatchMsgs)
         /\ Len(SubSeq(all, 1, spare)) = spare
         /\ spare = 1 => SubSeq(all, 1, spare)[1] = all[1]
<1> DEFINE all == Append(record, b)
<1>1. /\ all \in Seq(BatchMsgs) /\ Len(record) \in Nat /\ Len(all) = Len(record) + 1
      /\ all[Len(record) + 1] = b
      /\ \A i \in 1..Len(record) : all[i] = record[i]
  BY AppendProperties, LenProperties
<1>2. record' = SubSeq(all, spare + 1, Len(all))
  OBVIOUS
<1> HIDE DEF all
<1>3. \A i \in 1..Len(all) : all[i] \in BatchMsgs
  BY <1>1, ElementOfSeq
<1>4. /\ record' \in Seq(BatchMsgs) /\ Len(record') = Len(all) - spare
      /\ \A i \in 1..Len(record') : record'[i] = all[i + spare]
  <2>1. spare + 1 \in Int /\ Len(all) \in Int /\ \A i \in spare+1..Len(all) : all[i] \in BatchMsgs
    BY <1>1, <1>3
  <2>2. /\ record' \in Seq(BatchMsgs)
        /\ Len(record') = IF spare + 1 <= Len(all) THEN Len(all) - (spare + 1) + 1 ELSE 0
        /\ \A i \in 1..Len(all)-(spare+1)+1 : record'[i] = all[(spare + 1) + i - 1]
    BY <1>1, <1>2, <2>1, SubSeqProperties
  <2>3. Len(record') = Len(all) - spare
    BY <1>1, <2>2
  <2>4. \A i \in 1..Len(record') : /\ i \in 1..Len(all)-(spare+1)+1
                                 /\ (spare + 1) + i - 1 = i + spare
    BY <1>1, <2>3
  <2> QED
    BY <2>2, <2>3, <2>4
<1>5. /\ SubSeq(all, 1, spare) \in Seq(BatchMsgs) /\ Len(SubSeq(all, 1, spare)) = spare
      /\ spare = 1 => SubSeq(all, 1, spare)[1] = all[1]
  <2>1. 1 \in Int /\ spare \in Int /\ \A i \in 1..spare : all[i] \in BatchMsgs
    BY <1>1, <1>3
  <2> QED
    BY <1>1, <2>1, SubSeqProperties
<1>6. Len(record') = Len(record) + 1 - spare
  BY <1>1, <1>4
<1> QED
  BY <1>1, <1>4, <1>5, <1>6 DEF all

\* The pipeline stores a batch and trims the list.
LEMMA StoreBatchSocket ==
  ASSUME SocketInv, NEW l \in 1..Len(links), StoreBatch(l) PROVE SocketInv'
<1>1. KeyTypes /\ lost \subseteq Nat /\ record \in Seq(BatchMsgs)
  BY DEF SocketInv, KeyTypes
<1>2. PICK r \in Links, q \in Links, b \in BatchMsgs :
        /\ r = links[l] /\ b = Head(r.writes) /\ b = r.writes[1] /\ b.keys \in Seq(Nat)
        /\ links' = [links EXCEPT ![l] = q]
        /\ q.wire = r.wire /\ q.joins = r.joins /\ q.bound = r.bound
        /\ Len(r.writes) >= 1 /\ Len(q.writes) = Len(r.writes) - 1
        /\ \A i \in 1..Len(q.writes) : q.writes[i] = r.writes[i + 1]
  <2>1. links[l].writes # <<>> /\ links' = [links EXCEPT ![l].writes = Tail(@)]
    BY DEF StoreBatch
  <2> QED
    BY <1>1, <2>1, WriteTaken, Zenon
<1>3. PICK spare \in {0, 1} :
        /\ record' = SubSeq(Append(record, b), spare + 1, Len(Append(record, b)))
        /\ lost' = lost \cup KeysOf(ToSet(SubSeq(Append(record, b), 1, spare)))
  <2> DEFINE s == IF Len(Append(record, b)) > MaxBatches THEN 1 ELSE 0
  <2>1. /\ s \in {0, 1}
        /\ record' = SubSeq(Append(record, b), s + 1, Len(Append(record, b)))
        /\ lost' = lost \cup KeysOf(ToSet(SubSeq(Append(record, b), 1, s)))
    BY <1>2 DEF StoreBatch, Lose
  <2> HIDE DEF s
  <2> QED
    BY <2>1
<1>4. PICK out \in Seq(BatchMsgs) : out = SubSeq(Append(record, b), 1, spare) /\ record' \in Seq(BatchMsgs)
  BY <1>1, <1>3, RecordMoves
<1>5. KeysOf(ToSet(out)) \subseteq Nat
  <2>1. ASSUME NEW m \in ToSet(out) PROVE ToSet(m.keys) \subseteq Nat
    <3>1. m \in BatchMsgs
      BY ElementOfSeq DEF ToSet
    <3> QED
      BY <3>1, MessagesAre, LenProperties, ElementOfSeq DEF ToSet
  <2> QED
    BY <2>1 DEF KeysOf
<1>6. LinkOK(l, q)
  <2>1. LinkOK(l, r)
    BY <1>2 DEF SocketInv, SocketOK
  <2> QED
    BY <1>2, <2>1, LinkSame
<1> QED
  BY <1>1, <1>2, <1>3, <1>4, <1>5, <1>6, ServerSocket DEF StoreBatch

\* The socket invariant holds at the start.
LEMMA SocketInit == KeyInit => SocketInv
<1> SUFFICES ASSUME KeyInit PROVE SocketInv
  OBVIOUS
<1>1. /\ typed = 0 /\ visits = 0 /\ editor = NoPage /\ conn = NoSocket
      /\ links = <<>> /\ record = <<>> /\ refused = {} /\ lost = {}
  BY DEF KeyInit
<1>2. Len(links) = 0 /\ <<>> \in Seq(Links) /\ <<>> \in Seq(BatchMsgs) /\ <<>> \in Seq(Nat)
  BY <1>1, EmptySeq
<1>3. KeyTypes
  BY <1>1, <1>2 DEF KeyTypes, NoPage, NoSocket
<1> QED
  BY <1>1, <1>2, <1>3 DEF SocketInv, SocketOK, PageOpen, NoSocket, RefusalsExplained

\* The flush timer, and a render that flushes.
LEMMA FlushDueSocket ==
  ASSUME SocketInv, FlushDue \/ Render PROVE SocketInv'
<1>1. editor \in Editors
  BY DEF SocketInv, KeyTypes, Editors
<1>2. CASE FlushDue
  BY <1>1, <1>2, FlushSocket DEF FlushDue
<1>3. CASE Render
  <2> DEFINE p == [editor EXCEPT !.enabled = ~@]
  <2>1. p \in Editors /\ p.visit = editor.visit /\ p.buffer = editor.buffer
    BY <1>1 DEF Editors
  <2>2. FlushKeys(p)
    BY <1>3 DEF Render
  <2> HIDE DEF p
  <2> QED
    BY <1>3, <2>1, <2>2, FlushSocket DEF Render
<1> QED
  BY <1>2, <1>3

\* Every step keeps the socket invariant.
LEMMA SocketNext ==
  ASSUME SocketInv, [KeyNext]_keyVars PROVE SocketInv'
<1>1. CASE UNCHANGED keyVars
  <2>1. KeyTypes'
    BY <1>1 DEF keyVars, SocketInv, KeyTypes
  <2>2. RefusalsExplained'
    BY <1>1 DEF keyVars, SocketInv, RefusalsExplained
  <2>3. PageOpen'
    BY <1>1 DEF keyVars, SocketInv, SocketOK, PageOpen
  <2>4. \A l \in 1..Len(links) : LinkOK(l, links[l])'
    BY <1>1 DEF keyVars, SocketInv, SocketOK, LinkOK
  <2>5. 1..Len(links) = 1..Len(links')
    BY <1>1 DEF keyVars
  <2> QED
    BY <2>1, <2>2, <2>3, <2>4, <2>5 DEF SocketInv, SocketOK
<1>2. CASE KeyDown \/ FlushDue \/ Render \/ OpenPage \/ QuitPage
  BY <1>2, KeyDownSocket, FlushDueSocket, OpenPageSocket, QuitPageSocket
<1>3. CASE Connect \/ LoseConnection \/ GiveUpConnecting \/ CloseTab
  BY <1>3, ConnectSocket, LoseConnectionSocket, GiveUpSocket, CloseTabSocket
<1>4. ASSUME NEW l \in 1..Len(links),
             ReceiveJoin(l) \/ ReceiveLeave(l) \/ ReceiveBatch(l) \/ StoreBatch(l) \/ StoreFails(l)
      PROVE  SocketInv'
  BY <1>4, ReceiveJoinSocket, ReceiveLeaveSocket, ReceiveBatchSocket, StoreBatchSocket, StoreFailsSocket
<1>5. ASSUME NEW l \in 1..Len(links), NEW n \in 1..Len(links[l].joins),
             BindSocket(l, n) \/ AnswerSuccess(l, n) \/ AnswerRefusal(l, n)
      PROVE  SocketInv'
  BY <1>5, BindSocketSocket, AnswerSuccessSocket, AnswerRefusalSocket
<1> QED
  BY <1>1, <1>2, <1>3, <1>4, <1>5 DEF KeyNext

-----------------------------------------------------------------------------
(* Where the keys are, and in which order                                  *)

SentIn(r) == Batches(r.wire) \cup ToSet(r.writes)
Carried(ls) == UNION {KeysOf(SentIn(ls[l])) : l \in 1..Len(ls)}
Before(b, c) == \A k \in ToSet(b.keys), m \in ToSet(c.keys) : k < m
Apart(b, c) == ToSet(b.keys) \cap ToSet(c.keys) = {}
Increasing(keys) == \A i, j \in 1..Len(keys) : i < j => keys[i] < keys[j]
Under(b, keys) == \A k \in ToSet(b.keys), m \in ToSet(keys) : k < m

\* The batches of a connection, from those that wait for Redis to the last one sent.
InOrder(r) ==
  /\ \A i, j \in 1..Len(r.wire) :
       i < j /\ r.wire[i].type = "batch" /\ r.wire[j].type = "batch" => Before(r.wire[i], r.wire[j])
  /\ \A i \in 1..Len(r.writes), j \in 1..Len(r.wire) :
       r.wire[j].type = "batch" => Before(r.writes[i], r.wire[j])
  /\ \A i, j \in 1..Len(r.writes) : i < j => Before(r.writes[i], r.writes[j])

\* A batch in the record and one on its way over connection l.
Follows(c, b, l) == IF c.link <= l THEN Before(c, b) ELSE Before(b, c)

\* What one connection carries, and what was recorded from it, is in the order of typing;
\* so are the connections, one after the other, and the buffer comes after them all.
Ordered(ls, rec, keys) ==
  /\ \A l \in 1..Len(ls) : InOrder(ls[l]) /\ \A b \in SentIn(ls[l]) : b.link = l /\ Under(b, keys)
  /\ \A l, m \in 1..Len(ls) : l < m => \A b \in SentIn(ls[l]), c \in SentIn(ls[m]) : Before(b, c)
  /\ \A i \in 1..Len(rec) : rec[i].link <= Len(ls) /\ Under(rec[i], keys)
  /\ \A i \in 1..Len(rec), l \in 1..Len(ls) : \A b \in SentIn(ls[l]) : Follows(rec[i], b, l)
  /\ \A i, j \in 1..Len(rec) : i < j => Follows(rec[i], rec[j], rec[j].link)
  /\ Increasing(keys)

\* Five sets that divide another.
Divide(A, B, C, D, E, U) ==
  /\ A \cup B \cup C \cup D \cup E = U
  /\ A \cap B = {} /\ A \cap C = {} /\ A \cap D = {} /\ A \cap E = {}
  /\ B \cap C = {} /\ B \cap D = {} /\ B \cap E = {}
  /\ C \cap D = {} /\ C \cap E = {} /\ D \cap E = {}

\* The inductive invariant of where the keys are.
KeysInv ==
  /\ KeyTypes /\ Ordered(links, record, editor.buffer)
  /\ Divide(ToSet(editor.buffer), Carried(links), KeysOf(ToSet(record)), lost, KeysOf(refused),
            1..typed)

\* The elements of a sequence.
LEMMA SetIs ==
  ASSUME NEW S, NEW s \in Seq(S)
  PROVE  Len(s) \in Nat /\ \A x : x \in ToSet(s) <=> \E i \in 1..Len(s) : x = s[i]
BY LenProperties DEF ToSet

\* The keys of a set of batches.
LEMMA KeysAre == \A B : \A k : k \in KeysOf(B) <=> \E b \in B : k \in ToSet(b.keys)
BY DEF KeysOf

\* The keys the links carry.
LEMMA CarriedAre ==
  ASSUME NEW ls
  PROVE  \A k : k \in Carried(ls) <=> \E l \in 1..Len(ls) : k \in KeysOf(SentIn(ls[l]))
BY DEF Carried

\* The batches a link holds: on its wire, or in its pipeline.
LEMMA SentAre ==
  ASSUME NEW r \in Links
  PROVE  \A b : b \in SentIn(r) <=>
           \/ \E i \in 1..Len(r.wire) : r.wire[i].type = "batch" /\ b = r.wire[i]
           \/ \E i \in 1..Len(r.writes) : b = r.writes[i]
<1>1. r.wire \in Seq(Msgs) /\ r.writes \in Seq(BatchMsgs)
  BY LinkIs
<1>2. \A b : b \in ToSet(r.writes) <=> \E i \in 1..Len(r.writes) : b = r.writes[i]
  BY <1>1, SetIs
<1>3. \A b : b \in ToSet(r.wire) <=> \E i \in 1..Len(r.wire) : b = r.wire[i]
  BY <1>1, SetIs
<1>4. \A b : b \in Batches(r.wire) <=> \E i \in 1..Len(r.wire) : r.wire[i].type = "batch" /\ b = r.wire[i]
  BY <1>3 DEF Batches
<1> QED
  BY <1>2, <1>4 DEF SentIn

\* What a link holds is batches of numbers.
LEMMA SentTypes ==
  ASSUME NEW r \in Links, NEW b \in SentIn(r)
  PROVE  b \in BatchMsgs /\ b.keys \in Seq(Nat) /\ ToSet(b.keys) \subseteq Nat
<1>1. b \in BatchMsgs
  <2>1. \A i \in 1..Len(r.wire) : r.wire[i] \in Msgs
    BY LinkIs
  <2>2. \A i \in 1..Len(r.writes) : r.writes[i] \in BatchMsgs
    BY LinkIs
  <2> QED
    BY <2>1, <2>2, SentAre, MessagesAre
<1>2. b.keys \in Seq(Nat)
  BY <1>1, MessagesAre
<1> QED
  BY <1>1, <1>2, SetIs, ElementOfSeq

\* The keys of a batch are numbers.
LEMMA BatchKeys ==
  ASSUME NEW b \in BatchMsgs PROVE b.keys \in Seq(Nat) /\ ToSet(b.keys) \subseteq Nat
<1>1. b.keys \in Seq(Nat)
  BY MessagesAre
<1> QED
  BY <1>1, SetIs, ElementOfSeq

\* Batches one before the other have no key in common.
LEMMA BeforeApart ==
  ASSUME NEW b \in BatchMsgs, NEW c \in BatchMsgs, Before(b, c) PROVE Apart(b, c) /\ Apart(c, b)
<1>1. \A k \in ToSet(b.keys) : k \in Nat
  BY BatchKeys
<1> QED
  BY <1>1 DEF Before, Apart

\* Less is on its way.
LEMMA OrderShrinks ==
  ASSUME NEW ls, NEW ls2, NEW rec, NEW keys, NEW keys2, Ordered(ls, rec, keys),
         Len(ls2) = Len(ls),
         \A l \in 1..Len(ls) : InOrder(ls2[l]) /\ SentIn(ls2[l]) \subseteq SentIn(ls[l]),
         ToSet(keys2) \subseteq ToSet(keys), Increasing(keys2)
  PROVE  Ordered(ls2, rec, keys2)
<1>1. \A l \in 1..Len(ls2) : InOrder(ls2[l]) /\ \A b \in SentIn(ls2[l]) : b.link = l /\ Under(b, keys2)
  BY DEF Ordered, Under
<1>2. \A l, m \in 1..Len(ls2) : l < m => \A b \in SentIn(ls2[l]), c \in SentIn(ls2[m]) : Before(b, c)
  BY DEF Ordered
<1>3. \A i \in 1..Len(rec) : rec[i].link <= Len(ls2) /\ Under(rec[i], keys2)
  BY DEF Ordered, Under
<1>4. \A i \in 1..Len(rec), l \in 1..Len(ls2) : \A b \in SentIn(ls2[l]) : Follows(rec[i], b, l)
  BY DEF Ordered
<1>5. \A i, j \in 1..Len(rec) : i < j => Follows(rec[i], rec[j], rec[j].link)
  BY DEF Ordered
<1> QED
  BY <1>1, <1>2, <1>3, <1>4, <1>5 DEF Ordered

\* One connection changes: what it carries besides q is gone.
LEMMA CarriedShrinks ==
  ASSUME NEW ls \in Seq(Links), NEW rec, NEW keys, Ordered(ls, rec, keys), NEW l \in 1..Len(ls),
         NEW ls2, Len(ls2) = Len(ls), \A m \in 1..Len(ls) : m # l => ls2[m] = ls[m],
         NEW q \in Links, q = ls2[l], NEW G, SentIn(q) \cup G = SentIn(ls[l]),
         \A g \in G, c \in SentIn(q) : Apart(g, c)
  PROVE  Carried(ls2) = Carried(ls) \ KeysOf(G) /\ KeysOf(G) \subseteq Carried(ls)
<1>1. /\ Len(ls2) = Len(ls) /\ ls2[l] = q /\ \A m \in 1..Len(ls) : m # l => ls2[m] = ls[m]
      /\ Len(ls) \in Nat
  BY LenProperties
<1>2. \A m \in 1..Len(ls) : ls[m] \in Links
  BY ElementOfSeq
<1>3. \A m \in 1..Len(ls) : m # l =>
        \A g \in SentIn(ls[l]), c \in SentIn(ls[m]) : Apart(g, c)
  <2> SUFFICES ASSUME NEW m \in 1..Len(ls), m # l, NEW g \in SentIn(ls[l]), NEW c \in SentIn(ls[m])
               PROVE  Apart(g, c)
    OBVIOUS
  <2>1. g \in BatchMsgs /\ c \in BatchMsgs
    BY <1>2, SentTypes
  <2>2. Before(g, c) \/ Before(c, g)
    BY <1>1 DEF Ordered
  <2> QED
    BY <2>1, <2>2, BeforeApart
<1>4. \A k : k \in KeysOf(SentIn(ls[l])) <=> k \in KeysOf(SentIn(q)) \/ k \in KeysOf(G)
  BY KeysAre
<1>5. \A k : k \in KeysOf(G) => k \notin KeysOf(SentIn(q))
  <2> SUFFICES ASSUME NEW k, k \in KeysOf(G), k \in KeysOf(SentIn(q)) PROVE FALSE
    OBVIOUS
  <2>1. PICK g \in G : k \in ToSet(g.keys)
    BY KeysAre
  <2>2. PICK c \in SentIn(q) : k \in ToSet(c.keys)
    BY KeysAre
  <2> QED
    BY <2>1, <2>2 DEF Apart
<1>6. \A k, m : k \in KeysOf(G) /\ m \in 1..Len(ls) /\ m # l => k \notin KeysOf(SentIn(ls[m]))
  <2> SUFFICES ASSUME NEW k, NEW m \in 1..Len(ls), m # l, k \in KeysOf(G), k \in KeysOf(SentIn(ls[m]))
               PROVE  FALSE
    OBVIOUS
  <2>1. PICK g \in G : k \in ToSet(g.keys)
    BY KeysAre
  <2>2. PICK c \in SentIn(ls[m]) : k \in ToSet(c.keys)
    BY KeysAre
  <2> QED
    BY <1>3, <2>1, <2>2 DEF Apart
<1>7. \A k : k \in Carried(ls2) <=> k \in Carried(ls) /\ k \notin KeysOf(G)
  <2> TAKE k
  <2>1. ASSUME k \in Carried(ls2) PROVE k \in Carried(ls) /\ k \notin KeysOf(G)
    <3>1. PICK m \in 1..Len(ls) : k \in KeysOf(SentIn(ls2[m]))
      BY <1>1, <2>1, CarriedAre
    <3>2. CASE m = l
      BY <1>1, <1>4, <1>5, <3>1, <3>2, CarriedAre
    <3>3. CASE m # l
      BY <1>1, <1>6, <3>1, <3>3, CarriedAre
    <3> QED
      BY <3>2, <3>3
  <2>2. ASSUME k \in Carried(ls), k \notin KeysOf(G) PROVE k \in Carried(ls2)
    <3>1. PICK m \in 1..Len(ls) : k \in KeysOf(SentIn(ls[m]))
      BY <2>2, CarriedAre
    <3>2. k \in KeysOf(SentIn(ls2[m])) /\ m \in 1..Len(ls2)
      BY <1>1, <1>4, <2>2, <3>1
    <3> QED
      BY <3>2, CarriedAre
  <2> QED
    BY <2>1, <2>2
<1>8. \A k : k \in KeysOf(G) => k \in Carried(ls)
  BY <1>4, CarriedAre
<1>9. Carried(ls2) = Carried(ls) \ KeysOf(G)
  BY <1>7
<1> QED
  BY <1>8, <1>9

\* The batch m is sent over connection l.
Sends(ls, ls2, l, m) ==
  /\ Len(ls2) = Len(ls) /\ InOrder(ls2[l])
  /\ \A k \in 1..Len(ls) : k # l => ls2[k] = ls[k]
  /\ \A b : b \in SentIn(ls2[l]) <=> b \in SentIn(ls[l]) \/ b = m

\* A batch sent adds its keys to those the links carry.
LEMMA CarriedGrows ==
  ASSUME NEW ls \in Seq(Links), NEW l \in 1..Len(ls), NEW ls2 \in Seq(Links), NEW b \in Msgs,
         Sends(ls, ls2, l, b)
  PROVE  Carried(ls2) = Carried(ls) \cup ToSet(b.keys)
<1>1. /\ Len(ls) \in Nat /\ Len(ls2) = Len(ls)
      /\ \A m \in 1..Len(ls) : m # l => ls2[m] = ls[m]
  BY LenProperties DEF Sends
<1>2. \A k : k \in KeysOf(SentIn(ls2[l])) <=> k \in KeysOf(SentIn(ls[l])) \/ k \in ToSet(b.keys)
  <2>1. \A c : c \in SentIn(ls2[l]) <=> c \in SentIn(ls[l]) \/ c = b
    BY DEF Sends
  <2> QED
    BY <2>1, KeysAre
<1>3. \A k : k \in Carried(ls2) <=> k \in Carried(ls) \/ k \in ToSet(b.keys)
  <2> TAKE k
  <2>1. ASSUME k \in Carried(ls2) PROVE k \in Carried(ls) \/ k \in ToSet(b.keys)
    <3>1. PICK m \in 1..Len(ls) : k \in KeysOf(SentIn(ls2[m]))
      BY <1>1, <2>1, CarriedAre
    <3> QED
      BY <1>1, <1>2, <3>1, CarriedAre
  <2>2. ASSUME k \in Carried(ls) PROVE k \in Carried(ls2)
    <3>1. PICK m \in 1..Len(ls) : k \in KeysOf(SentIn(ls[m]))
      BY <2>2, CarriedAre
    <3>2. k \in KeysOf(SentIn(ls2[m])) /\ m \in 1..Len(ls2)
      BY <1>1, <1>2, <3>1
    <3> QED
      BY <3>2, CarriedAre
  <2>3. ASSUME k \in ToSet(b.keys) PROVE k \in Carried(ls2)
    <3>1. k \in KeysOf(SentIn(ls2[l])) /\ l \in 1..Len(ls2)
      BY <1>1, <1>2, <2>3
    <3> QED
      BY <3>1, CarriedAre
  <2> QED
    BY <2>1, <2>2, <2>3
<1> QED
  BY <1>3

\* The end of what was sent is lost: G are the batches in it.
CutOff(r, n, G) ==
  \A b : b \in G <=> \E i \in n+1..Len(r.wire) : r.wire[i].type = "batch" /\ b = r.wire[i]

\* Cutting a wire keeps its order, and what is cut off has no key of what is left.
LEMMA OrderCut ==
  ASSUME NEW r \in Links, NEW q \in Links, NEW n \in 0..Len(r.wire), InOrder(r),
         q.writes = r.writes, Len(q.wire) = n, \A i \in 1..n : q.wire[i] = r.wire[i], NEW G,
         CutOff(r, n, G)
  PROVE  /\ InOrder(q) /\ SentIn(q) \cup G = SentIn(r)
         /\ \A g \in G, c \in SentIn(q) : Apart(g, c)
<1>1. Len(r.wire) \in Nat /\ \A i \in 1..n : i \in 1..Len(r.wire)
  BY LinkIs
<1>2. InOrder(q)
  BY <1>1 DEF InOrder
<1>3. \A b : b \in SentIn(q) \cup G <=> b \in SentIn(r)
  <2> TAKE b
  <2>1. (\E i \in 1..Len(r.wire) : r.wire[i].type = "batch" /\ b = r.wire[i]) <=>
          \/ \E i \in 1..n : r.wire[i].type = "batch" /\ b = r.wire[i]
          \/ \E i \in n+1..Len(r.wire) : r.wire[i].type = "batch" /\ b = r.wire[i]
    <3>1. \A i : i \in 1..Len(r.wire) <=> i \in 1..n \/ i \in n+1..Len(r.wire)
      BY <1>1
    <3> QED
      BY <3>1
  <2>2. b \in SentIn(q) <=>
          \/ \E i \in 1..n : r.wire[i].type = "batch" /\ b = r.wire[i]
          \/ \E i \in 1..Len(r.writes) : b = r.writes[i]
    BY SentAre
  <2>3. b \in SentIn(r) <=>
          \/ \E i \in 1..Len(r.wire) : r.wire[i].type = "batch" /\ b = r.wire[i]
          \/ \E i \in 1..Len(r.writes) : b = r.writes[i]
    BY SentAre
  <2> QED
    BY <2>1, <2>2, <2>3 DEF CutOff
<1>4. ASSUME NEW g \in G, NEW c \in SentIn(q) PROVE Apart(g, c)
  <2>1. g \in BatchMsgs /\ c \in BatchMsgs
    BY <1>3, SentTypes
  <2>2. PICK i \in n+1..Len(r.wire) : r.wire[i].type = "batch" /\ g = r.wire[i]
    BY DEF CutOff
  <2>3. i \in 1..Len(r.wire) /\ \A j \in 1..n : j < i
    BY <1>1
  <2>4. CASE \E j \in 1..n : r.wire[j].type = "batch" /\ c = r.wire[j]
    <3>1. Before(c, g)
      BY <1>1, <2>2, <2>3, <2>4 DEF InOrder
    <3> QED
      BY <2>1, <3>1, BeforeApart
  <2>5. CASE \E j \in 1..Len(r.writes) : c = r.writes[j]
    <3>1. Before(c, g)
      BY <2>2, <2>3, <2>5 DEF InOrder
    <3> QED
      BY <2>1, <3>1, BeforeApart
  <2>6. \/ \E j \in 1..n : r.wire[j].type = "batch" /\ c = r.wire[j]
        \/ \E j \in 1..Len(r.writes) : c = r.writes[j]
    <3>1. \/ \E j \in 1..Len(q.wire) : q.wire[j].type = "batch" /\ c = q.wire[j]
          \/ \E j \in 1..Len(q.writes) : c = q.writes[j]
      BY SentAre
    <3> QED
      BY <3>1
  <2> QED
    BY <2>4, <2>5, <2>6
<1> QED
  BY <1>2, <1>3, <1>4

\* The first message is taken: G has it when it is a batch.
LEMMA OrderTaken ==
  ASSUME NEW r \in Links, NEW q \in Links, InOrder(r), Len(r.wire) >= 1,
         q.writes = r.writes, Len(q.wire) = Len(r.wire) - 1,
         \A i \in 1..Len(q.wire) : q.wire[i] = r.wire[i + 1], NEW G,
         G = IF r.wire[1].type = "batch" THEN {r.wire[1]} ELSE {}
  PROVE  /\ InOrder(q) /\ SentIn(q) \cup G = SentIn(r)
         /\ \A g \in G, c \in SentIn(q) : Apart(g, c)
<1>1. /\ Len(r.wire) \in Nat /\ Len(q.wire) \in Nat
      /\ \A i \in 1..Len(q.wire) : i + 1 \in 1..Len(r.wire)
  BY LinkIs
<1>2. InOrder(q)
  <2>1. \A i, j \in 1..Len(q.wire) :
          i < j /\ q.wire[i].type = "batch" /\ q.wire[j].type = "batch" => Before(q.wire[i], q.wire[j])
    <3> SUFFICES ASSUME NEW i \in 1..Len(q.wire), NEW j \in 1..Len(q.wire), i < j,
                        q.wire[i].type = "batch", q.wire[j].type = "batch"
                 PROVE  Before(q.wire[i], q.wire[j])
      OBVIOUS
    <3>1. i + 1 < j + 1 /\ i + 1 \in 1..Len(r.wire) /\ j + 1 \in 1..Len(r.wire)
      BY <1>1
    <3> QED
      BY <3>1 DEF InOrder
  <2> QED
    BY <1>1, <2>1 DEF InOrder
<1>3. \A b : b \in SentIn(q) \cup G <=> b \in SentIn(r)
  <2> TAKE b
  <2>1. (\E i \in 1..Len(r.wire) : r.wire[i].type = "batch" /\ b = r.wire[i]) <=>
          \/ \E i \in 1..Len(q.wire) : r.wire[i + 1].type = "batch" /\ b = r.wire[i + 1]
          \/ r.wire[1].type = "batch" /\ b = r.wire[1]
    <3>1. \A i \in 1..Len(r.wire) : i = 1 \/ (i - 1 \in 1..Len(q.wire) /\ (i - 1) + 1 = i)
      BY <1>1
    <3>2. 1 \in 1..Len(r.wire)
      BY <1>1
    <3> QED
      BY <1>1, <3>1, <3>2
  <2>2. b \in SentIn(q) <=>
          \/ \E i \in 1..Len(q.wire) : q.wire[i].type = "batch" /\ b = q.wire[i]
          \/ \E i \in 1..Len(r.writes) : b = r.writes[i]
    BY SentAre
  <2>3. b \in SentIn(r) <=>
          \/ \E i \in 1..Len(r.wire) : r.wire[i].type = "batch" /\ b = r.wire[i]
          \/ \E i \in 1..Len(r.writes) : b = r.writes[i]
    BY SentAre
  <2> QED
    BY <2>1, <2>2, <2>3
<1>4. ASSUME NEW g \in G, NEW c \in SentIn(q) PROVE Apart(g, c)
  <2>1. g \in BatchMsgs /\ c \in BatchMsgs
    BY <1>3, SentTypes
  <2>2. r.wire[1].type = "batch" /\ g = r.wire[1] /\ 1 \in 1..Len(r.wire)
    BY <1>1
  <2>3. CASE \E j \in 1..Len(q.wire) : q.wire[j].type = "batch" /\ c = q.wire[j]
    <3>1. PICK j \in 1..Len(q.wire) : q.wire[j].type = "batch" /\ c = q.wire[j]
      BY <2>3
    <3>2. 1 < j + 1 /\ j + 1 \in 1..Len(r.wire)
      BY <1>1
    <3>3. Before(g, c)
      BY <2>2, <3>1, <3>2 DEF InOrder
    <3> QED
      BY <2>1, <3>3, BeforeApart
  <2>4. CASE \E j \in 1..Len(r.writes) : c = r.writes[j]
    <3>1. Before(c, g)
      BY <2>2, <2>4 DEF InOrder
    <3> QED
      BY <2>1, <3>1, BeforeApart
  <2>5. \/ \E j \in 1..Len(q.wire) : q.wire[j].type = "batch" /\ c = q.wire[j]
        \/ \E j \in 1..Len(r.writes) : c = r.writes[j]
    BY SentAre
  <2> QED
    BY <2>3, <2>4, <2>5
<1> QED
  BY <1>2, <1>3, <1>4

\* The first message is a batch that now waits for Redis.
LEMMA OrderAccepted ==
  ASSUME NEW r \in Links, NEW t \in Links, NEW q \in Links, InOrder(r), Len(r.wire) >= 1,
         t.writes = r.writes, Len(t.wire) = Len(r.wire) - 1,
         \A i \in 1..Len(t.wire) : t.wire[i] = r.wire[i + 1],
         r.wire[1].type = "batch", q.wire = t.wire, Len(q.writes) = Len(r.writes) + 1,
         \A i \in 1..Len(r.writes) : q.writes[i] = r.writes[i],
         q.writes[Len(r.writes) + 1] = r.wire[1]
  PROVE  InOrder(q) /\ SentIn(q) = SentIn(r)
<1>1. InOrder(t) /\ SentIn(t) \cup {r.wire[1]} = SentIn(r)
  <2>1. PICK G : /\ G = {r.wire[1]}
                 /\ G = IF r.wire[1].type = "batch" THEN {r.wire[1]} ELSE {}
    OBVIOUS
  <2>2. InOrder(t) /\ SentIn(t) \cup G = SentIn(r)
    BY <2>1, OrderTaken, Zenon
  <2> QED
    BY <2>1, <2>2
<1>2. /\ Len(r.wire) \in Nat /\ Len(r.writes) \in Nat /\ Len(t.wire) \in Nat
      /\ \A i \in 1..Len(q.writes) : i \in 1..Len(r.writes) \/ i = Len(r.writes) + 1
      /\ \A i \in 1..Len(r.writes) : i \in 1..Len(q.writes)
      /\ Len(r.writes) + 1 \in 1..Len(q.writes)
  BY LinkIs
<1>3. 1 \in 1..Len(r.wire) /\ \A j \in 1..Len(t.wire) : 1 < j + 1 /\ j + 1 \in 1..Len(r.wire)
  BY <1>2
<1>4. \A j \in 1..Len(t.wire) : t.wire[j].type = "batch" => Before(r.wire[1], t.wire[j])
  BY <1>3 DEF InOrder
<1>5. \A i \in 1..Len(r.writes) : Before(r.writes[i], r.wire[1])
  BY <1>3 DEF InOrder
<1>6. InOrder(q)
  <2>1. \A i \in 1..Len(q.writes), j \in 1..Len(q.wire) :
          q.wire[j].type = "batch" => Before(q.writes[i], q.wire[j])
    BY <1>1, <1>2, <1>4 DEF InOrder
  <2>2. \A i, j \in 1..Len(q.writes) : i < j => Before(q.writes[i], q.writes[j])
    <3> SUFFICES ASSUME NEW i \in 1..Len(q.writes), NEW j \in 1..Len(q.writes), i < j
                 PROVE  Before(q.writes[i], q.writes[j])
      OBVIOUS
    <3>1. i \in 1..Len(r.writes)
      BY <1>2
    <3> QED
      BY <1>1, <1>2, <1>5, <3>1 DEF InOrder
  <2> QED
    BY <1>1, <2>1, <2>2 DEF InOrder
<1>7. \A b : b \in SentIn(q) <=> b \in SentIn(t) \/ b = r.wire[1]
  <2> TAKE b
  <2>1. (\E i \in 1..Len(q.writes) : b = q.writes[i]) <=>
          (\E i \in 1..Len(r.writes) : b = r.writes[i]) \/ b = r.wire[1]
    BY <1>2
  <2>2. b \in SentIn(q) <=>
          \/ \E i \in 1..Len(t.wire) : t.wire[i].type = "batch" /\ b = t.wire[i]
          \/ \E i \in 1..Len(q.writes) : b = q.writes[i]
    BY SentAre
  <2>3. b \in SentIn(t) <=>
          \/ \E i \in 1..Len(t.wire) : t.wire[i].type = "batch" /\ b = t.wire[i]
          \/ \E i \in 1..Len(r.writes) : b = r.writes[i]
    BY SentAre
  <2> QED
    BY <2>1, <2>2, <2>3
<1>8. \A b : b \in SentIn(q) <=> b \in SentIn(r)
  BY <1>1, <1>7
<1> QED
  BY <1>6, <1>8

\* The first batch that waits for Redis is taken.
LEMMA OrderStored ==
  ASSUME NEW r \in Links, NEW q \in Links, NEW b \in BatchMsgs, InOrder(r), q.wire = r.wire,
         b = r.writes[1], Len(r.writes) >= 1, Len(q.writes) = Len(r.writes) - 1,
         \A i \in 1..Len(q.writes) : q.writes[i] = r.writes[i + 1]
  PROVE  /\ InOrder(q) /\ SentIn(q) \cup {b} = SentIn(r) /\ b \in SentIn(r)
         /\ \A c \in SentIn(q) : Before(b, c)
<1>1. /\ Len(r.writes) \in Nat /\ Len(q.writes) \in Nat /\ 1 \in 1..Len(r.writes)
      /\ \A i \in 1..Len(q.writes) : i + 1 \in 1..Len(r.writes) /\ 1 < i + 1
  BY LinkIs
<1>2. InOrder(q)
  <2>1. \A i, j \in 1..Len(q.writes) : i < j => Before(q.writes[i], q.writes[j])
    <3> SUFFICES ASSUME NEW i \in 1..Len(q.writes), NEW j \in 1..Len(q.writes), i < j
                 PROVE  Before(q.writes[i], q.writes[j])
      OBVIOUS
    <3>1. i + 1 < j + 1 /\ i + 1 \in 1..Len(r.writes) /\ j + 1 \in 1..Len(r.writes)
      BY <1>1
    <3> QED
      BY <3>1 DEF InOrder
  <2> QED
    BY <1>1, <2>1 DEF InOrder
<1>3. \A c : c \in SentIn(q) \/ c = b <=> c \in SentIn(r)
  <2> TAKE c
  <2>1. (\E i \in 1..Len(r.writes) : c = r.writes[i]) <=>
          (\E i \in 1..Len(q.writes) : c = r.writes[i + 1]) \/ c = b
    <3>1. \A i \in 1..Len(r.writes) : i = 1 \/ (i - 1 \in 1..Len(q.writes) /\ (i - 1) + 1 = i)
      BY <1>1
    <3> QED
      BY <1>1, <3>1
  <2>2. c \in SentIn(q) <=>
          \/ \E i \in 1..Len(r.wire) : r.wire[i].type = "batch" /\ c = r.wire[i]
          \/ \E i \in 1..Len(q.writes) : c = q.writes[i]
    BY SentAre
  <2>3. c \in SentIn(r) <=>
          \/ \E i \in 1..Len(r.wire) : r.wire[i].type = "batch" /\ c = r.wire[i]
          \/ \E i \in 1..Len(r.writes) : c = r.writes[i]
    BY SentAre
  <2> QED
    BY <2>1, <2>2, <2>3
<1>4. ASSUME NEW c \in SentIn(q) PROVE Before(b, c)
  <2>1. CASE \E i \in 1..Len(r.wire) : r.wire[i].type = "batch" /\ c = r.wire[i]
    BY <1>1, <2>1 DEF InOrder
  <2>2. CASE \E i \in 1..Len(q.writes) : c = q.writes[i]
    BY <1>1, <2>2 DEF InOrder
  <2>3. \/ \E i \in 1..Len(r.wire) : r.wire[i].type = "batch" /\ c = r.wire[i]
        \/ \E i \in 1..Len(q.writes) : c = q.writes[i]
    BY SentAre
  <2> QED
    BY <2>1, <2>2, <2>3
<1> QED
  BY <1>2, <1>3, <1>4

\* A message is sent.
LEMMA OrderSent ==
  ASSUME NEW r \in Links, NEW q \in Links, NEW m, InOrder(r), q.writes = r.writes,
         Len(q.wire) = Len(r.wire) + 1, \A i \in 1..Len(r.wire) : q.wire[i] = r.wire[i],
         q.wire[Len(r.wire) + 1] = m,
         m.type = "batch" => \A c \in SentIn(r) : Before(c, m)
  PROVE  InOrder(q) /\ SentIn(q) = SentIn(r) \cup IF m.type = "batch" THEN {m} ELSE {}
<1>1. /\ Len(r.wire) \in Nat
      /\ \A i \in 1..Len(q.wire) : i \in 1..Len(r.wire) \/ i = Len(r.wire) + 1
      /\ \A i \in 1..Len(r.wire) : i \in 1..Len(q.wire)
      /\ Len(r.wire) + 1 \in 1..Len(q.wire)
  BY LinkIs
<1>2. /\ \A i \in 1..Len(r.wire) : r.wire[i].type = "batch" => r.wire[i] \in SentIn(r)
      /\ \A i \in 1..Len(r.writes) : r.writes[i] \in SentIn(r)
  BY SentAre
<1>3. InOrder(q)
  <2>1. \A i \in 1..Len(q.writes), j \in 1..Len(q.wire) :
          q.wire[j].type = "batch" => Before(q.writes[i], q.wire[j])
    BY <1>1, <1>2 DEF InOrder
  <2>2. \A i, j \in 1..Len(q.wire) :
          i < j /\ q.wire[i].type = "batch" /\ q.wire[j].type = "batch" => Before(q.wire[i], q.wire[j])
    <3> SUFFICES ASSUME NEW i \in 1..Len(q.wire), NEW j \in 1..Len(q.wire), i < j,
                        q.wire[i].type = "batch", q.wire[j].type = "batch"
                 PROVE  Before(q.wire[i], q.wire[j])
      OBVIOUS
    <3>1. i \in 1..Len(r.wire)
      BY <1>1
    <3> QED
      BY <1>1, <1>2, <3>1 DEF InOrder
  <2> QED
    BY <2>1, <2>2 DEF InOrder
<1>4. \A b : b \in SentIn(q) <=> b \in SentIn(r) \/ (m.type = "batch" /\ b = m)
  <2> TAKE b
  <2>1. (\E i \in 1..Len(q.wire) : q.wire[i].type = "batch" /\ b = q.wire[i]) <=>
          \/ \E i \in 1..Len(r.wire) : r.wire[i].type = "batch" /\ b = r.wire[i]
          \/ m.type = "batch" /\ b = m
    BY <1>1
  <2>2. b \in SentIn(q) <=>
          \/ \E i \in 1..Len(q.wire) : q.wire[i].type = "batch" /\ b = q.wire[i]
          \/ \E i \in 1..Len(r.writes) : b = r.writes[i]
    BY SentAre
  <2>3. b \in SentIn(r) <=>
          \/ \E i \in 1..Len(r.wire) : r.wire[i].type = "batch" /\ b = r.wire[i]
          \/ \E i \in 1..Len(r.writes) : b = r.writes[i]
    BY SentAre
  <2> QED
    BY <2>1, <2>2, <2>3
<1>5. SentIn(q) = SentIn(r) \cup IF m.type = "batch" THEN {m} ELSE {}
  BY <1>4
<1> QED
  BY <1>3, <1>5

\* Keys that move from the page or the links to the lost, or on to the next place, leave the
\* division whole.
LEMMA DivideMoves ==
  ASSUME NEW A, NEW B, NEW C, NEW D, NEW E, NEW U, Divide(A, B, C, D, E, U),
         NEW X \in SUBSET A, NEW Y \in SUBSET B
  PROVE  /\ Divide(A \ X, B \ Y, C, D \cup (X \cup Y), E, U)
         /\ Divide(A, B \ Y, C, D, E \cup Y, U)
         /\ Divide(A \ X, B \cup X, C, D, E, U)
BY DEF Divide

\* The keys of one batch more.
LEMMA KeysOfMore ==
  ASSUME NEW B, NEW c
  PROVE  /\ KeysOf(B \cup {c}) = KeysOf(B) \cup ToSet(c.keys)
         /\ KeysOf({c}) = ToSet(c.keys) /\ KeysOf({}) = {}
<1>1. /\ \A k : k \in KeysOf(B \cup {c}) <=> k \in KeysOf(B) \cup ToSet(c.keys)
      /\ \A k : k \in KeysOf({c}) <=> k \in ToSet(c.keys)
      /\ \A k : k \notin KeysOf({})
  BY KeysAre
<1> QED
  BY <1>1

\* Keys are lost, or refused, that were on their way or in the buffer.
LEMMA KeysShrink ==
  ASSUME KeysInv, KeyTypes', NEW l \in 1..Len(links), NEW q \in Links,
         links' = [links EXCEPT ![l] = q], InOrder(q), NEW G, SentIn(q) \cup G = SentIn(links[l]),
         \A g \in G, c \in SentIn(q) : Apart(g, c), record' = record, typed' = typed,
         NEW X, X \subseteq ToSet(editor.buffer),
         ToSet(editor'.buffer) = ToSet(editor.buffer) \ X, Increasing(editor'.buffer),
         \/ lost' = lost \cup (X \cup KeysOf(G)) /\ KeysOf(refused') = KeysOf(refused)
         \/ X = {} /\ lost' = lost /\ KeysOf(refused') = KeysOf(refused) \cup KeysOf(G)
  PROVE  KeysInv'
<1>1. links \in Seq(Links)
  BY DEF KeysInv, KeyTypes
<1>2. PICK ls \in Seq(Links) : ls = [links EXCEPT ![l] = q] /\ ls = links'
  BY <1>1, ExceptSeq
<1>3. /\ Len(ls) = Len(links) /\ ls[l] = q
      /\ \A m \in 1..Len(links) : m # l => ls[m] = links[m]
  BY <1>1, <1>2, ExceptSeq
<1>4. PICK keys, keys2 : keys = editor.buffer /\ keys2 = editor'.buffer
  OBVIOUS
<1>5. Ordered(links, record, keys)
  BY <1>4 DEF KeysInv
<1>6. Ordered(ls, record, keys2)
  <2>1. \A m \in 1..Len(links) : InOrder(ls[m]) /\ SentIn(ls[m]) \subseteq SentIn(links[m])
    BY <1>3, <1>5 DEF Ordered
  <2> QED
    BY <1>3, <1>4, <1>5, <2>1, OrderShrinks
<1>7. /\ Carried(ls) = Carried(links) \ KeysOf(G) /\ KeysOf(G) \subseteq Carried(links)
  <2>1. PICK ls0 \in Seq(Links), rec \in Seq(BatchMsgs) : ls0 = links /\ rec = record
    BY <1>1 DEF KeysInv, KeyTypes
  <2>2. /\ l \in 1..Len(ls0) /\ Ordered(ls0, rec, keys) /\ SentIn(q) \cup G = SentIn(ls0[l])
    BY <1>5, <2>1
  <2>3. /\ Len(ls) = Len(ls0) /\ ls[l] = q /\ \A m \in 1..Len(ls0) : m # l => ls[m] = ls0[m]
    BY <1>3, <2>1
  <2>4. Carried(ls) = Carried(ls0) \ KeysOf(G) /\ KeysOf(G) \subseteq Carried(ls0)
    BY <2>2, <2>3, CarriedShrinks
  <2> QED
    BY <2>1, <2>4
<1>8. Divide(ToSet(keys), Carried(links), KeysOf(ToSet(record)), lost, KeysOf(refused), 1..typed)
  BY <1>4 DEF KeysInv
<1>9. Divide(ToSet(keys2), Carried(ls), KeysOf(ToSet(record)), lost', KeysOf(refused'), 1..typed)
  <2>1. CASE lost' = lost \cup (X \cup KeysOf(G)) /\ KeysOf(refused') = KeysOf(refused)
    <3>1. Divide(ToSet(keys) \ X, Carried(links) \ KeysOf(G), KeysOf(ToSet(record)),
                 lost \cup (X \cup KeysOf(G)), KeysOf(refused), 1..typed)
      BY <1>4, <1>7, <1>8, DivideMoves
    <3> QED
      BY <1>4, <1>7, <2>1, <3>1
  <2>2. CASE X = {} /\ lost' = lost /\ KeysOf(refused') = KeysOf(refused) \cup KeysOf(G)
    <3>1. Divide(ToSet(keys), Carried(links) \ KeysOf(G), KeysOf(ToSet(record)),
                 lost, KeysOf(refused) \cup KeysOf(G), 1..typed)
      BY <1>7, <1>8, DivideMoves
    <3>2. ToSet(keys2) = ToSet(keys)
      BY <1>4, <2>2
    <3> QED
      BY <1>7, <2>2, <3>1, <3>2
  <2> QED
    BY <2>1, <2>2
<1> QED
  BY <1>2, <1>4, <1>6, <1>9 DEF KeysInv

\* Nothing happens to what was sent.
LEMMA KeysStill ==
  ASSUME KeysInv, KeyTypes', links' = links, record' = record, typed' = typed,
         NEW X, X \subseteq ToSet(editor.buffer),
         ToSet(editor'.buffer) = ToSet(editor.buffer) \ X, Increasing(editor'.buffer),
         lost' = lost \cup X, refused' = refused
  PROVE  KeysInv'
<1>1. PICK keys, keys2 : keys = editor.buffer /\ keys2 = editor'.buffer
  OBVIOUS
<1>2. Ordered(links, record, keys)
  BY <1>1 DEF KeysInv
<1>3. Ordered(links, record, keys2)
  <2>1. \A m \in 1..Len(links) : InOrder(links[m])
    BY <1>2 DEF Ordered
  <2> QED
    BY <1>1, <1>2, <2>1, OrderShrinks
<1>4. Divide(ToSet(keys), Carried(links), KeysOf(ToSet(record)), lost, KeysOf(refused), 1..typed)
  BY <1>1 DEF KeysInv
<1>5. Divide(ToSet(keys2), Carried(links), KeysOf(ToSet(record)), lost', KeysOf(refused), 1..typed)
  <2>1. Divide(ToSet(keys) \ X, Carried(links) \ {}, KeysOf(ToSet(record)),
               lost \cup (X \cup {}), KeysOf(refused), 1..typed)
    BY <1>1, <1>4, DivideMoves
  <2>2. Carried(links) \ {} = Carried(links) /\ X \cup {} = X
    OBVIOUS
  <2> QED
    BY <1>1, <2>1, <2>2
<1> QED
  BY <1>1, <1>3, <1>5 DEF KeysInv

\* The same keys are on their way, in the same order.
LEMMA KeysSame ==
  ASSUME KeysInv, KeyTypes', NEW l \in 1..Len(links), NEW q \in Links,
         links' = [links EXCEPT ![l] = q], InOrder(q), SentIn(q) = SentIn(links[l]),
         record' = record, typed' = typed, editor'.buffer = editor.buffer,
         lost' = lost, refused' = refused
  PROVE  KeysInv'
<1>1. PICK G : G = {}
  OBVIOUS
<1>2. SentIn(q) \cup G = SentIn(links[l]) /\ \A g \in G, c \in SentIn(q) : Apart(g, c)
  BY <1>1
<1>3. Increasing(editor'.buffer)
  BY DEF KeysInv, Ordered
<1>4. /\ G \subseteq ToSet(editor.buffer)
      /\ ToSet(editor'.buffer) = ToSet(editor.buffer) \ G
      /\ lost' = lost \cup (G \cup KeysOf(G))
  BY <1>1, KeysOfMore
<1> QED
  BY <1>2, <1>3, <1>4, KeysShrink

\* Only the last keys stay in the buffer.
LEMMA BufferKept ==
  ASSUME NEW keys \in Seq(Nat), Increasing(keys), NEW n \in 0..Len(keys)
  PROVE  LET keys2 == SubSeq(keys, n + 1, Len(keys))
             X == ToSet(SubSeq(keys, 1, n)) IN
         /\ X \subseteq ToSet(keys) /\ ToSet(keys2) = ToSet(keys) \ X /\ Increasing(keys2)
<1> DEFINE keys2 == SubSeq(keys, n + 1, Len(keys))
           front == SubSeq(keys, 1, n)
           X == ToSet(front)
<1>1. Len(keys) \in Nat /\ n \in Nat /\ \A i \in 1..Len(keys) : keys[i] \in Nat
  BY LenProperties, ElementOfSeq
<1>2. /\ keys2 \in Seq(Nat) /\ Len(keys2) = Len(keys) - n
      /\ \A i \in 1..Len(keys)-n : keys2[i] = keys[n + i]
  <2>1. n + 1 \in Int /\ Len(keys) \in Int /\ \A i \in n+1..Len(keys) : keys[i] \in Nat
    BY <1>1
  <2>2. /\ keys2 \in Seq(Nat)
        /\ Len(keys2) = IF n + 1 <= Len(keys) THEN Len(keys) - (n + 1) + 1 ELSE 0
        /\ \A i \in 1..Len(keys)-(n+1)+1 : keys2[i] = keys[(n + 1) + i - 1]
    BY <2>1, SubSeqProperties
  <2> HIDE DEF keys2
  <2> QED
    BY <1>1, <2>2
<1>3. /\ front \in Seq(Nat) /\ Len(front) = n /\ \A i \in 1..n : front[i] = keys[i]
  <2>1. 1 \in Int /\ n \in Int /\ \A i \in 1..n : keys[i] \in Nat
    BY <1>1
  <2> QED
    BY <1>1, <2>1, SubSeqProperties
<1> HIDE DEF keys2, front
<1>4. /\ \A k : k \in ToSet(keys) <=> \E i \in 1..Len(keys) : k = keys[i]
      /\ \A k : k \in ToSet(keys2) <=> \E i \in 1..Len(keys)-n : k = keys[n + i]
      /\ \A k : k \in X <=> \E i \in 1..n : k = keys[i]
  <2>1. \A k : k \in ToSet(keys) <=> \E i \in 1..Len(keys) : k = keys[i]
    BY SetIs
  <2>2. \A k : k \in ToSet(keys2) <=> \E i \in 1..Len(keys2) : k = keys2[i]
    BY <1>2, SetIs
  <2>3. \A k : k \in ToSet(front) <=> \E i \in 1..Len(front) : k = front[i]
    BY <1>3, SetIs
  <2>4. \A k : k \in ToSet(keys2) <=> \E i \in 1..Len(keys)-n : k = keys[n + i]
    <3>1. \A i \in 1..Len(keys2) : i \in 1..Len(keys)-n /\ keys2[i] = keys[n + i]
      BY <1>2
    <3>2. \A i \in 1..Len(keys)-n : i \in 1..Len(keys2) /\ keys2[i] = keys[n + i]
      BY <1>2
    <3> QED
      BY <2>2, <3>1, <3>2
  <2>5. \A k : k \in ToSet(front) <=> \E i \in 1..n : k = keys[i]
    BY <1>3, <2>3
  <2> QED
    BY <2>1, <2>4, <2>5
<1> HIDE DEF X
<1>5. X \subseteq ToSet(keys)
  BY <1>1, <1>4
<1>6. \A k : k \in ToSet(keys2) <=> k \in ToSet(keys) /\ k \notin X
  <2> TAKE k
  <2>1. ASSUME k \in ToSet(keys2) PROVE k \in ToSet(keys) /\ k \notin X
    <3>1. PICK i \in 1..Len(keys)-n : k = keys[n + i]
      BY <1>4, <2>1
    <3>2. n + i \in 1..Len(keys) /\ \A j \in 1..n : j < n + i /\ j \in 1..Len(keys)
      BY <1>1
    <3>3. \A j \in 1..n : keys[j] < keys[n + i] /\ keys[j] \in Nat
      BY <1>1, <3>2 DEF Increasing
    <3>4. k \in Nat /\ \A j \in 1..n : keys[j] # k
      BY <1>1, <3>1, <3>2, <3>3
    <3> QED
      BY <1>4, <3>1, <3>2, <3>4
  <2>2. ASSUME k \in ToSet(keys), k \notin X PROVE k \in ToSet(keys2)
    <3>1. PICK i \in 1..Len(keys) : k = keys[i]
      BY <1>4, <2>2
    <3>2. i \notin 1..n
      BY <1>4, <2>2, <3>1
    <3>3. i - n \in 1..Len(keys)-n /\ n + (i - n) = i
      BY <1>1, <3>2
    <3> QED
      BY <1>4, <3>1, <3>3
  <2> QED
    BY <2>1, <2>2
<1>7. Increasing(keys2)
  <2> SUFFICES ASSUME NEW i \in 1..Len(keys2), NEW j \in 1..Len(keys2), i < j
               PROVE  keys2[i] < keys2[j]
    BY DEF Increasing
  <2>1. n + i < n + j /\ n + i \in 1..Len(keys) /\ n + j \in 1..Len(keys)
    BY <1>1, <1>2
  <2> QED
    BY <1>2, <2>1 DEF Increasing
<1>8. ToSet(keys2) = ToSet(keys) \ X
  BY <1>6
<1> QED
  BY <1>5, <1>7, <1>8 DEF keys2, front, X

\* The empty buffer.
LEMMA NothingKept == ToSet(<<>>) = {} /\ Increasing(<<>>) /\ Len(<<>>) = 0 /\ <<>> \in Seq(Nat)
<1>1. Len(<<>>) = 0 /\ <<>> \in Seq(Nat)
  BY EmptySeq
<1>2. \A k : k \notin ToSet(<<>>)
  <2>1. PICK e \in Seq(Nat) : e = <<>> /\ Len(e) = 0
    BY <1>1
  <2>2. \A k : k \in ToSet(e) <=> \E i \in 1..Len(e) : k = e[i]
    BY SetIs
  <2> QED
    BY <2>1, <2>2
<1> QED
  BY <1>1, <1>2 DEF Increasing

\* The buffer goes out in a batch.
LEMMA OrderSends ==
  ASSUME NEW ls \in Seq(Links), NEW rec \in Seq(BatchMsgs), NEW keys \in Seq(Nat),
         Ordered(ls, rec, keys),
         NEW l \in 1..Len(ls), \A k \in 1..Len(ls) : k <= l,
         NEW m \in Msgs, m.keys = keys, m.link = l,
         NEW ls2 \in Seq(Links), Sends(ls, ls2, l, m)
  PROVE  Ordered(ls2, rec, <<>>) /\ Carried(ls2) = Carried(ls) \cup ToSet(keys)
<1>1. /\ Len(ls) \in Nat /\ Len(ls2) = Len(ls) /\ InOrder(ls2[l])
      /\ \A k \in 1..Len(ls) : k # l => ls2[k] = ls[k]
  BY LenProperties DEF Sends
<1>2. \A b : b \in SentIn(ls2[l]) <=> b \in SentIn(ls[l]) \/ b = m
  BY DEF Sends
<1>4. /\ \A k \in 1..Len(ls) : \A b \in SentIn(ls[k]) : Before(b, m)
      /\ \A i \in 1..Len(rec) : Before(rec[i], m) /\ rec[i].link <= l
  BY DEF Ordered, Under, Before
<1>5. /\ \A k \in 1..Len(ls) : \A b \in SentIn(ls2[k]) : b \in SentIn(ls[k]) \/ (k = l /\ b = m)
      /\ \A k \in 1..Len(ls) : InOrder(ls2[k])
  BY <1>1, <1>2 DEF Ordered
<1>6. Ordered(ls2, rec, <<>>)
  <2>1. \A b : Under(b, <<>>)
    BY NothingKept DEF Under
  <2>2. \A k \in 1..Len(ls2) : InOrder(ls2[k]) /\ \A b \in SentIn(ls2[k]) : b.link = k /\ Under(b, <<>>)
    BY <1>1, <1>5, <2>1 DEF Ordered
  <2>3. \A k, n \in 1..Len(ls2) : k < n => \A b \in SentIn(ls2[k]), c \in SentIn(ls2[n]) : Before(b, c)
    <3> SUFFICES ASSUME NEW k \in 1..Len(ls), NEW n \in 1..Len(ls), k < n,
                        NEW b \in SentIn(ls2[k]), NEW c \in SentIn(ls2[n])
                 PROVE  Before(b, c)
      BY <1>1
    <3>1. k # l
      BY <1>1
    <3>2. b \in SentIn(ls[k])
      BY <1>5, <3>1
    <3>3. CASE c \in SentIn(ls[n])
      BY <3>2, <3>3 DEF Ordered
    <3>4. CASE c = m
      BY <1>4, <3>2, <3>4
    <3> QED
      BY <1>5, <3>3, <3>4
  <2>4. \A i \in 1..Len(rec) : rec[i].link <= Len(ls2) /\ Under(rec[i], <<>>)
    BY <1>1, <2>1 DEF Ordered
  <2>5. \A i \in 1..Len(rec), k \in 1..Len(ls2) : \A b \in SentIn(ls2[k]) : Follows(rec[i], b, k)
    <3>1. \A i \in 1..Len(rec) : Follows(rec[i], m, l)
      BY <1>4 DEF Follows
    <3>2. ASSUME NEW i \in 1..Len(rec), NEW k \in 1..Len(ls), NEW b \in SentIn(ls2[k])
          PROVE  Follows(rec[i], b, k)
      <4>1. CASE b \in SentIn(ls[k])
        BY <4>1 DEF Ordered
      <4>2. CASE k = l /\ b = m
        BY <3>1, <4>2
      <4> QED
        BY <1>5, <3>2, <4>1, <4>2
    <3> QED
      BY <1>1, <3>2
  <2>6. \A i, j \in 1..Len(rec) : i < j => Follows(rec[i], rec[j], rec[j].link)
    BY DEF Ordered
  <2> QED
    BY <2>2, <2>3, <2>4, <2>5, <2>6, NothingKept DEF Ordered
<1>7. Carried(ls2) = Carried(ls) \cup ToSet(keys)
  <2>1. Carried(ls2) = Carried(ls) \cup ToSet(m.keys)
    BY CarriedGrows
  <2> QED
    BY <2>1
<1> QED
  BY <1>6, <1>7

\* A flush moves the buffer's keys into a batch at the end of the connection's wire.
LEMMA KeysSend ==
  ASSUME KeysInv, KeyTypes', NEW l \in 1..Len(links), \A k \in 1..Len(links) : k <= l, NEW q \in Links, NEW m \in Msgs,
         m.type = "batch", m.keys = editor.buffer, m.link = l,
         Len(links') = Len(links), links'[l] = q, \A k \in 1..Len(links) : k # l => links'[k] = links[k],
         InOrder(q), \A b : b \in SentIn(q) <=> b \in SentIn(links[l]) \/ b = m,
         record' = record, typed' = typed, editor'.buffer = <<>>, lost' = lost, refused' = refused
  PROVE  KeysInv'
<1>1. PICK ls \in Seq(Links), rec \in Seq(BatchMsgs), keys \in Seq(Nat), ls2 \in Seq(Links) :
        ls = links /\ rec = record /\ keys = editor.buffer /\ ls2 = links'
  BY DEF KeysInv, KeyTypes
<1>2. /\ Ordered(ls, rec, keys) /\ l \in 1..Len(ls) /\ (\A k \in 1..Len(ls) : k <= l)
      /\ Divide(ToSet(keys), Carried(ls), KeysOf(ToSet(rec)), lost, KeysOf(refused), 1..typed)
  BY <1>1 DEF KeysInv
<1>3. /\ Len(ls2) = Len(ls) /\ ls2[l] = q
      /\ \A k \in 1..Len(ls) : k # l => ls2[k] = ls[k]
  BY <1>1
<1>4. /\ InOrder(ls2[l]) /\ m.keys = keys
      /\ \A b : b \in SentIn(ls2[l]) <=> b \in SentIn(ls[l]) \/ b = m
  BY <1>1, <1>3
<1>5. Ordered(ls2, rec, <<>>) /\ Carried(ls2) = Carried(ls) \cup ToSet(keys)
  <2>1. Sends(ls, ls2, l, m)
    BY <1>3, <1>4 DEF Sends
  <2> QED
    BY <1>2, <1>4, <2>1, OrderSends
<1>6. Divide({}, Carried(ls2), KeysOf(ToSet(rec)), lost, KeysOf(refused), 1..typed)
  <2>1. Divide(ToSet(keys) \ ToSet(keys), Carried(ls) \cup ToSet(keys), KeysOf(ToSet(rec)),
               lost, KeysOf(refused), 1..typed)
    BY <1>2, DivideMoves
  <2>2. ToSet(keys) \ ToSet(keys) = {}
    OBVIOUS
  <2> QED
    BY <1>5, <2>1, <2>2
<1> QED
  BY <1>1, <1>5, <1>6, NothingKept DEF KeysInv

\* flushBuffer.
LEMMA FlushKept ==
  ASSUME KeysInv, KeyTypes', NEW p \in Editors, p.buffer = editor.buffer, FlushKeys(p),
         UNCHANGED <<typed, record, refused>>
  PROVE  KeysInv'
<1>1. /\ KeyTypes /\ editor.buffer \in Seq(Nat) /\ links \in Seq(Links)
      /\ Ordered(links, record, editor.buffer)
  BY DEF KeysInv, KeyTypes
<1>2. CASE p.buffer # <<>> /\ conn.at # 0
  <2> DEFINE b == Batch(p.buffer)
  <2>1. /\ b \in BatchMsgs /\ b \in Msgs /\ b.type = "batch" /\ b.keys = editor.buffer
        /\ b.link = conn.at
    BY <1>1, BatchIs, MessagesAre
  <2>2. PICK m \in Msgs : m = b
    BY <2>1
  <2>3. /\ links' = Emit(links, <<m>>) /\ editor' = [p EXCEPT !.buffer = <<>>] /\ lost' = lost
    BY <1>2, <2>2 DEF FlushKeys
  <2> HIDE DEF b
  <2>4. PICK l \in 1..Len(links), r \in Links, q \in Links :
          /\ l = conn.at /\ l = Len(links) /\ r = links[l]
          /\ links' = [links EXCEPT ![l] = q]
          /\ q.joins = r.joins /\ q.bound = r.bound /\ q.writes = r.writes
          /\ Len(q.wire) = Len(r.wire) + 1
          /\ \A i \in 1..Len(r.wire) : q.wire[i] = r.wire[i]
          /\ q.wire[Len(r.wire) + 1] = m
    BY <1>1, <1>2, <2>2, <2>3, EmitsOne, Zenon
  <2>5. m.type = "batch" /\ m.keys = editor.buffer /\ m.link = l
    BY <2>1, <2>2, <2>4
  <2>6. InOrder(r) /\ \A c \in SentIn(r) : Before(c, m)
    BY <1>1, <2>4, <2>5 DEF Ordered, Under, Before
  <2>7. InOrder(q) /\ SentIn(q) = SentIn(r) \cup {m}
    BY <2>4, <2>5, <2>6, OrderSent
  <2>8. /\ Len(links') = Len(links) /\ links'[l] = q
        /\ \A k \in 1..Len(links) : k # l => links'[k] = links[k]
        /\ \A k \in 1..Len(links) : k <= l
    BY <1>1, <2>4, LinkMoves, LenProperties
  <2>9. \A c : c \in SentIn(q) <=> c \in SentIn(links[l]) \/ c = m
    BY <2>4, <2>7
  <2>10. editor'.buffer = <<>>
    BY <2>3 DEF Editors
  <2> QED
    BY <2>3, <2>5, <2>7, <2>8, <2>9, <2>10, KeysSend
<1>3. CASE ~(p.buffer # <<>> /\ conn.at # 0)
  <2> DEFINE spare == IF Len(p.buffer) > MaxBuffer THEN Len(p.buffer) - MaxBuffer ELSE 0
  <2>1. /\ links' = links /\ editor' = [p EXCEPT !.buffer = SubSeq(@, spare + 1, Len(@))]
        /\ lost' = lost \cup ToSet(SubSeq(p.buffer, 1, spare))
    BY <1>3 DEF FlushKeys, Lose
  <2>2. PICK keys \in Seq(Nat) : keys = p.buffer /\ keys = editor.buffer
    BY <1>1
  <2>3. spare \in 0..Len(keys)
    BY <2>2, LenProperties, KeyAssumption
  <2> HIDE DEF spare
  <2>4. editor'.buffer = SubSeq(keys, spare + 1, Len(keys))
    BY <2>1, <2>2 DEF Editors
  <2>5. Increasing(keys)
    BY <1>1, <2>2 DEF Ordered
  <2>6. /\ ToSet(SubSeq(keys, 1, spare)) \subseteq ToSet(keys)
        /\ ToSet(SubSeq(keys, spare + 1, Len(keys))) = ToSet(keys) \ ToSet(SubSeq(keys, 1, spare))
        /\ Increasing(SubSeq(keys, spare + 1, Len(keys)))
    BY <2>3, <2>5, BufferKept
  <2>7. PICK X : X = ToSet(SubSeq(keys, 1, spare))
    OBVIOUS
  <2>8. /\ X \subseteq ToSet(editor.buffer) /\ lost' = lost \cup X
        /\ ToSet(editor'.buffer) = ToSet(editor.buffer) \ X /\ Increasing(editor'.buffer)
    BY <2>1, <2>2, <2>4, <2>6, <2>7
  <2> QED
    BY <2>1, <2>8, KeysStill
<1> QED
  BY <1>2, <1>3

\* A key is pressed: it is the latest.
LEMMA OrderTyped ==
  ASSUME NEW ls \in Seq(Links), NEW rec \in Seq(BatchMsgs), NEW keys \in Seq(Nat), NEW t \in Nat,
         Ordered(ls, rec, keys), Carried(ls) \subseteq 1..t, KeysOf(ToSet(rec)) \subseteq 1..t,
         ToSet(keys) \subseteq 1..t
  PROVE  /\ Ordered(ls, rec, Append(keys, t + 1))
         /\ ToSet(Append(keys, t + 1)) = ToSet(keys) \cup {t + 1}
<1>1. PICK keys2 \in Seq(Nat) :
        /\ keys2 = Append(keys, t + 1) /\ Len(keys) \in Nat /\ Len(keys2) = Len(keys) + 1
        /\ keys2[Len(keys) + 1] = t + 1 /\ \A i \in 1..Len(keys) : keys2[i] = keys[i]
  <2>1. /\ Append(keys, t + 1) \in Seq(Nat) /\ Len(Append(keys, t + 1)) = Len(keys) + 1
        /\ Append(keys, t + 1)[Len(keys) + 1] = t + 1
        /\ \A i \in 1..Len(keys) : Append(keys, t + 1)[i] = keys[i]
    BY AppendProperties
  <2> QED
    BY <2>1, LenProperties
<1>2. \A i \in 1..Len(keys2) : i \in 1..Len(keys) \/ i = Len(keys) + 1
  BY <1>1
<1>3. \A k : k \in ToSet(keys2) <=> k \in ToSet(keys) \/ k = t + 1
  <2>1. \A k : k \in ToSet(keys2) <=> \E i \in 1..Len(keys2) : k = keys2[i]
    BY SetIs
  <2>2. \A k : k \in ToSet(keys) <=> \E i \in 1..Len(keys) : k = keys[i]
    BY SetIs
  <2>3. Len(keys) + 1 \in 1..Len(keys2) /\ \A i \in 1..Len(keys) : i \in 1..Len(keys2)
    BY <1>1
  <2>4. ASSUME NEW k \in ToSet(keys2) PROVE k \in ToSet(keys) \/ k = t + 1
    <3>1. PICK i \in 1..Len(keys2) : k = keys2[i]
      BY <2>1
    <3> QED
      BY <1>1, <1>2, <2>2, <3>1
  <2>5. ASSUME NEW k, k \in ToSet(keys) \/ k = t + 1 PROVE k \in ToSet(keys2)
    <3>1. CASE k \in ToSet(keys)
      <4>1. PICK i \in 1..Len(keys) : k = keys[i]
        BY <2>2, <3>1
      <4> QED
        BY <1>1, <2>1, <2>3, <4>1
    <3>2. CASE k = t + 1
      BY <1>1, <2>1, <2>3, <3>2
    <3> QED
      BY <2>5, <3>1, <3>2
  <2> QED
    BY <2>4, <2>5
<1>4. Increasing(keys2)
  <2>1. \A i \in 1..Len(keys) : keys[i] < t + 1
    <3>1. \A i \in 1..Len(keys) : keys[i] \in 1..t
      BY SetIs
    <3> QED
      BY <3>1
  <2> SUFFICES ASSUME NEW i \in 1..Len(keys2), NEW j \in 1..Len(keys2), i < j
               PROVE  keys2[i] < keys2[j]
    BY DEF Increasing
  <2>2. i \in 1..Len(keys)
    BY <1>1
  <2>3. CASE j \in 1..Len(keys)
    BY <1>1, <2>2, <2>3 DEF Ordered, Increasing
  <2>4. CASE j = Len(keys) + 1
    BY <1>1, <2>1, <2>2, <2>4
  <2> QED
    BY <1>2, <2>3, <2>4
<1>5. \A l \in 1..Len(ls) : \A b \in SentIn(ls[l]) : Under(b, keys2)
  <2> SUFFICES ASSUME NEW l \in 1..Len(ls), NEW b \in SentIn(ls[l]), NEW k \in ToSet(b.keys),
                      NEW m \in ToSet(keys2)
               PROVE  k < m
    BY DEF Under
  <2>1. k \in KeysOf(SentIn(ls[l]))
    BY KeysAre
  <2>2. k \in 1..t
    BY <2>1, CarriedAre
  <2>3. m \in ToSet(keys) => k < m
    BY DEF Ordered, Under
  <2> QED
    BY <1>3, <2>2, <2>3
<1>6. \A i \in 1..Len(rec) : Under(rec[i], keys2)
  <2> SUFFICES ASSUME NEW i \in 1..Len(rec), NEW k \in ToSet(rec[i].keys), NEW m \in ToSet(keys2)
               PROVE  k < m
    BY DEF Under
  <2>1. rec[i] \in ToSet(rec)
    BY SetIs
  <2>2. k \in 1..t
    BY <2>1, KeysAre
  <2>3. m \in ToSet(keys) => k < m
    BY DEF Ordered, Under
  <2> QED
    BY <1>3, <2>2, <2>3
<1>7. Ordered(ls, rec, keys2)
  BY <1>4, <1>5, <1>6 DEF Ordered
<1>8. ToSet(keys2) = ToSet(keys) \cup {t + 1}
  BY <1>3
<1> QED
  BY <1>1, <1>7, <1>8

\* A key pressed is the latest in the buffer, or in the batch a full buffer sends.
LEMMA KeyDownKept ==
  ASSUME KeysInv, KeyTypes', KeyDown PROVE KeysInv'
<1>1. PICK keys \in Seq(Nat), ls \in Seq(Links), rec \in Seq(BatchMsgs), t \in Nat :
        keys = editor.buffer /\ ls = links /\ rec = record /\ t = typed
  BY DEF KeysInv, KeyTypes
<1>2. /\ Ordered(ls, rec, keys)
      /\ Divide(ToSet(keys), Carried(ls), KeysOf(ToSet(rec)), lost, KeysOf(refused), 1..t)
  BY <1>1 DEF KeysInv
<1>3. /\ editor'.buffer = Append(keys, t + 1) /\ typed' = t + 1
      /\ links' = ls /\ record' = rec /\ refused' = refused /\ lost' = lost
  BY <1>1 DEF KeyDown, ends, KeysInv, KeyTypes
<1>4. /\ ToSet(keys) \subseteq 1..t /\ Carried(ls) \subseteq 1..t
      /\ KeysOf(ToSet(rec)) \subseteq 1..t /\ lost \subseteq 1..t /\ KeysOf(refused) \subseteq 1..t
  BY <1>2 DEF Divide
<1>5. /\ Ordered(ls, rec, Append(keys, t + 1))
      /\ ToSet(Append(keys, t + 1)) = ToSet(keys) \cup {t + 1}
  BY <1>2, <1>4, OrderTyped
<1>6. 1..(t + 1) = 1..t \cup {t + 1} /\ t + 1 \notin 1..t
  OBVIOUS
<1>7. Divide(ToSet(keys) \cup {t + 1}, Carried(ls), KeysOf(ToSet(rec)), lost, KeysOf(refused), 1..(t + 1))
  <2>1. ASSUME NEW A, NEW B, NEW C, NEW D, NEW E, NEW U, NEW x, Divide(A, B, C, D, E, U), x \notin U
        PROVE  Divide(A \cup {x}, B, C, D, E, U \cup {x})
    BY <2>1 DEF Divide
  <2>2. Divide(ToSet(keys) \cup {t + 1}, Carried(ls), KeysOf(ToSet(rec)), lost, KeysOf(refused),
               1..t \cup {t + 1})
    BY <1>2, <1>6, <2>1
  <2> QED
    BY <1>6, <2>2
<1> QED
  BY <1>3, <1>5, <1>7 DEF KeysInv

\* The timer's flush and a render's: sent, dropped or kept for later.
LEMMA FlushesKept ==
  ASSUME KeysInv, KeyTypes', FlushDue \/ Render PROVE KeysInv'
<1>1. editor \in Editors
  BY DEF KeysInv, KeyTypes, Editors
<1>2. CASE FlushDue
  BY <1>1, <1>2, FlushKept DEF FlushDue
<1>3. CASE Render
  <2> DEFINE p == [editor EXCEPT !.enabled = ~@]
  <2>1. p \in Editors /\ p.buffer = editor.buffer
    BY <1>1 DEF Editors
  <2>2. FlushKeys(p)
    BY <1>3 DEF Render
  <2> HIDE DEF p
  <2> QED
    BY <1>3, <2>1, <2>2, FlushKept DEF Render
<1> QED
  BY <1>2, <1>3

\* The same batches, with other joins.
LEMMA SentSame ==
  ASSUME NEW r, NEW q, InOrder(r), q.wire = r.wire, q.writes = r.writes
  PROVE  InOrder(q) /\ SentIn(q) = SentIn(r)
BY DEF InOrder, SentIn

\* Where no page is open, nothing waits in it and nothing is recorded.
Shut == editor.visit = 0 => editor.buffer = <<>> /\ ~editor.enabled

\* A flush opens no page.
LEMMA ShutFlush ==
  ASSUME NEW p \in Editors, p.visit # 0, FlushKeys(p) PROVE Shut'
<1>1. \/ editor' = [p EXCEPT !.buffer = <<>>]
      \/ \E n : editor' = [p EXCEPT !.buffer = SubSeq(@, n, Len(@))]
  BY DEF FlushKeys
<1>2. editor'.visit = p.visit
  BY <1>1 DEF Editors
<1> QED
  BY <1>2 DEF Shut

\* No step leaves keys in a page that is not open.
LEMMA ShutNext ==
  ASSUME KeyTypes, Shut, [KeyNext]_keyVars PROVE Shut'
<1>1. editor \in Editors /\ visits \in Nat
  BY DEF KeyTypes, Editors
<1>2. CASE KeyDown
  <2>1. editor'.visit = editor.visit /\ editor.visit # 0
    BY <1>1, <1>2 DEF KeyDown, Editors, Shut
  <2> QED
    BY <2>1 DEF Shut
<1>3. CASE FlushDue
  BY <1>1, <1>3, ShutFlush DEF FlushDue, Shut
<1>4. CASE Render
  <2> DEFINE p == [editor EXCEPT !.enabled = ~@]
  <2>1. p \in Editors /\ p.visit = editor.visit
    BY <1>1 DEF Editors
  <2>2. p.visit # 0 /\ FlushKeys(p)
    BY <1>4, <2>1 DEF Render
  <2> HIDE DEF p
  <2> QED
    BY <2>1, <2>2, ShutFlush
<1>5. CASE OpenPage
  BY <1>1, <1>5 DEF OpenPage, NoPage, Shut
<1>6. CASE QuitPage \/ CloseTab
  BY <1>6 DEF QuitPage, CloseTab, NoPage, Shut
<1>7. CASE Connect \/ LoseConnection
  BY <1>1, <1>7 DEF Connect, LoseConnection, Editors, Shut
<1>8. CASE GiveUpConnecting
  BY <1>8 DEF GiveUpConnecting, Shut
<1>9. ASSUME NEW l \in 1..Len(links), ReceiveJoin(l) \/ ReceiveLeave(l) \/ ReceiveBatch(l)
                                      \/ StoreBatch(l) \/ StoreFails(l)
      PROVE  Shut'
  BY <1>9 DEF ReceiveJoin, ReceiveLeave, ReceiveBatch, StoreBatch, StoreFails, Shut
<1>10. ASSUME NEW l \in 1..Len(links), NEW n \in 1..Len(links[l].joins),
              BindSocket(l, n) \/ AnswerSuccess(l, n) \/ AnswerRefusal(l, n)
       PROVE  Shut'
  <2>1. editor' = editor \/ editor' = [editor EXCEPT !.connected = TRUE]
    BY <1>10 DEF BindSocket, AnswerSuccess, AnswerRefusal
  <2> QED
    BY <1>1, <2>1 DEF Editors, Shut
<1>11. CASE UNCHANGED keyVars
  BY <1>11 DEF keyVars, Shut
<1> QED
  BY <1>2, <1>3, <1>4, <1>5, <1>6, <1>7, <1>8, <1>9, <1>10, <1>11 DEF KeyNext

\* A page that opens starts with an empty buffer.
LEMMA OpenPageKept ==
  ASSUME KeysInv, Shut, KeyTypes', OpenPage PROVE KeysInv'
<1>1. /\ KeyTypes /\ links \in Seq(Links) /\ visits \in Nat
      /\ Ordered(links, record, editor.buffer)
  BY DEF KeysInv, KeyTypes
<1>2. /\ UNCHANGED <<typed, record, refused, lost>> /\ editor.buffer = <<>>
      /\ editor' = [NoPage EXCEPT !.visit = visits + 1]
  BY DEF OpenPage, ends, Shut
<1>3. editor'.buffer = editor.buffer
  BY <1>2 DEF NoPage
<1>4. CASE conn.at # 0
  <2>1. PICK m \in Msgs : m = Join(visits + 1) /\ m.type = "join"
    BY <1>1, MessagesAre
  <2>2. links' = Emit(links, <<m>>)
    BY <1>4, <2>1 DEF OpenPage
  <2>3. PICK l \in 1..Len(links), r \in Links, q \in Links :
          /\ l = conn.at /\ l = Len(links) /\ r = links[l]
          /\ links' = [links EXCEPT ![l] = q]
          /\ q.joins = r.joins /\ q.bound = r.bound /\ q.writes = r.writes
          /\ Len(q.wire) = Len(r.wire) + 1
          /\ \A i \in 1..Len(r.wire) : q.wire[i] = r.wire[i]
          /\ q.wire[Len(r.wire) + 1] = m
    BY <1>1, <1>4, <2>1, <2>2, EmitsOne, Zenon
  <2>4. InOrder(r)
    BY <1>1, <2>3 DEF Ordered
  <2>5. InOrder(q) /\ SentIn(q) = SentIn(r)
    <3>1. m.type # "batch"
      BY <2>1
    <3>2. /\ m.type = "batch" => \A c \in SentIn(r) : Before(c, m)
          /\ InOrder(r) /\ q.writes = r.writes /\ Len(q.wire) = Len(r.wire) + 1
          /\ \A i \in 1..Len(r.wire) : q.wire[i] = r.wire[i]
          /\ q.wire[Len(r.wire) + 1] = m
      BY <2>3, <2>4, <3>1
    <3>3. InOrder(q) /\ SentIn(q) = SentIn(r) \cup IF m.type = "batch" THEN {m} ELSE {}
      BY <3>2, OrderSent
    <3> QED
      BY <3>1, <3>3
  <2>6. links' = [links EXCEPT ![l] = q] /\ SentIn(q) = SentIn(links[l])
    BY <2>3, <2>5
  <2> QED
    BY <1>2, <1>3, <2>5, <2>6, KeysSame
<1>5. CASE conn.at = 0
  <2>1. links' = links
    BY <1>5 DEF OpenPage
  <2>2. PICK X : X = {}
    OBVIOUS
  <2>3. Increasing(editor'.buffer)
    BY <1>1, <1>3 DEF Ordered
  <2> QED
    BY <1>2, <1>3, <2>1, <2>2, <2>3, KeysStill
<1> QED
  BY <1>4, <1>5

\* Giving up on the connection moves no key.
LEMMA GiveUpKept ==
  ASSUME KeysInv, KeyTypes', GiveUpConnecting PROVE KeysInv'
<1>1. PICK X : X = {}
  OBVIOUS
<1>2. UNCHANGED <<typed, editor, links, record, refused, lost>>
  BY DEF GiveUpConnecting, ends
<1>3. Increasing(editor'.buffer)
  BY <1>2 DEF KeysInv, Ordered
<1> QED
  BY <1>1, <1>2, <1>3, KeysStill

\* A connection is made: it carries no keys yet.
Connects(ls, ls2) ==
  /\ Len(ls2) = Len(ls) + 1
  /\ \A l \in 1..Len(ls) : ls2[l] = ls[l]
  /\ InOrder(ls2[Len(ls) + 1]) /\ SentIn(ls2[Len(ls) + 1]) = {}

\* A new link holds no batch.
LEMMA OrderLinks ==
  ASSUME NEW ls \in Seq(Links), NEW rec \in Seq(BatchMsgs), NEW keys, Ordered(ls, rec, keys),
         NEW ls2, Connects(ls, ls2)
  PROVE  Ordered(ls2, rec, keys) /\ Carried(ls2) = Carried(ls)
<1>1. /\ Len(ls) \in Nat /\ Len(ls2) = Len(ls) + 1
      /\ \A l \in 1..Len(ls2) : l \in 1..Len(ls) \/ l = Len(ls) + 1
      /\ \A l \in 1..Len(ls) : l \in 1..Len(ls2) /\ ls2[l] = ls[l]
      /\ InOrder(ls2[Len(ls) + 1]) /\ SentIn(ls2[Len(ls) + 1]) = {}
  BY LenProperties DEF Connects
<1>2. \A l \in 1..Len(ls2) : \A b \in SentIn(ls2[l]) : l \in 1..Len(ls) /\ b \in SentIn(ls[l])
  BY <1>1
<1>3. \A l \in 1..Len(ls2) : InOrder(ls2[l]) /\ \A b \in SentIn(ls2[l]) : b.link = l /\ Under(b, keys)
  <2>1. \A l \in 1..Len(ls2) : InOrder(ls2[l])
    BY <1>1 DEF Ordered
  <2> QED
    BY <1>2, <2>1 DEF Ordered
<1>4. \A l, m \in 1..Len(ls2) : l < m => \A b \in SentIn(ls2[l]), c \in SentIn(ls2[m]) : Before(b, c)
  BY <1>2 DEF Ordered
<1>5. \A i \in 1..Len(rec) : rec[i].link <= Len(ls2) /\ Under(rec[i], keys)
  <2>1. \A i \in 1..Len(rec) : rec[i] \in BatchMsgs /\ rec[i].link \in Nat
    BY ElementOfSeq, MessagesAre
  <2> QED
    BY <1>1, <2>1 DEF Ordered
<1>6. \A i \in 1..Len(rec), l \in 1..Len(ls2) : \A b \in SentIn(ls2[l]) : Follows(rec[i], b, l)
  BY <1>2 DEF Ordered
<1>7. Ordered(ls2, rec, keys)
  BY <1>3, <1>4, <1>5, <1>6 DEF Ordered
<1>8. \A k : k \in Carried(ls2) <=> k \in Carried(ls)
  <2> TAKE k
  <2>1. ASSUME k \in Carried(ls2) PROVE k \in Carried(ls)
    <3>1. PICK l \in 1..Len(ls2) : k \in KeysOf(SentIn(ls2[l]))
      BY <2>1, CarriedAre
    <3>2. PICK b \in SentIn(ls2[l]) : k \in ToSet(b.keys)
      BY <3>1, KeysAre
    <3>3. l \in 1..Len(ls) /\ k \in KeysOf(SentIn(ls[l]))
      BY <1>2, <3>2, KeysAre
    <3> QED
      BY <3>3, CarriedAre
  <2>2. ASSUME k \in Carried(ls) PROVE k \in Carried(ls2)
    <3>1. PICK l \in 1..Len(ls) : k \in KeysOf(SentIn(ls[l]))
      BY <2>2, CarriedAre
    <3>2. l \in 1..Len(ls2) /\ k \in KeysOf(SentIn(ls2[l]))
      BY <1>1, <3>1
    <3> QED
      BY <3>2, CarriedAre
  <2> QED
    BY <2>1, <2>2
<1>9. Carried(ls2) = Carried(ls)
  BY <1>8
<1> QED
  BY <1>7, <1>9

\* Connecting moves no key.
LEMMA ConnectKept ==
  ASSUME KeysInv, KeyTypes', Connect PROVE KeysInv'
<1>1. /\ links \in Seq(Links) /\ editor \in Editors /\ editor.visit \in Nat
      /\ Len(links) \in Nat
  BY LenProperties DEF KeysInv, KeyTypes, Editors
<1>2. /\ UNCHANGED <<typed, record, refused, lost>>
      /\ editor' = [editor EXCEPT !.connected = editor.visit # 0]
  BY DEF Connect, ends
<1>3. editor'.buffer = editor.buffer
  BY <1>1, <1>2 DEF Editors
<1>4. PICK a \in Seq(Msgs) :
        /\ links' = Append(links, [NewLink EXCEPT !.wire = a])
        /\ \A i \in 1..Len(a) : a[i].type = "join"
  <2> DEFINE c == IF conn.rejoin /\ conn.active THEN <<Join(editor.visit)>> ELSE <<>>
             d == IF conn.pending THEN <<Join(editor.visit)>> ELSE <<>>
             both == c \o d
  <2>1. links' = Append(links, [NewLink EXCEPT !.wire = both])
    BY DEF Connect
  <2>2. PICK j \in Msgs : j = Join(editor.visit) /\ j.type = "join"
    BY <1>1, MessagesAre
  <2>3. c \in {<<>>, <<j>>} /\ d \in {<<>>, <<j>>}
    BY <2>2
  <2>4. /\ c \in Seq(Msgs) /\ Len(c) \in Nat /\ d \in Seq(Msgs) /\ Len(d) \in Nat
        /\ (\A i \in 1..Len(c) : c[i] = j) /\ (\A i \in 1..Len(d) : d[i] = j)
    BY <2>3, EmptySeq, OneMessage
  <2> HIDE DEF c, d
  <2>5. /\ both \in Seq(Msgs) /\ Len(both) = Len(c) + Len(d)
        /\ \A i \in 1..Len(c)+Len(d) : both[i] = IF i <= Len(c) THEN c[i] ELSE d[i - Len(c)]
    BY <2>4, ConcatProperties
  <2> HIDE DEF both
  <2>6. \A i \in 1..Len(both) : both[i] = j
    <3> SUFFICES ASSUME NEW i \in 1..Len(both) PROVE both[i] = j
      OBVIOUS
    <3>1. CASE i <= Len(c)
      <4>1. i \in 1..Len(c) /\ both[i] = c[i]
        BY <2>4, <2>5, <3>1
      <4> QED
        BY <2>4, <4>1
    <3>2. CASE ~(i <= Len(c))
      <4>1. i - Len(c) \in 1..Len(d) /\ both[i] = d[i - Len(c)]
        BY <2>4, <2>5, <3>2
      <4> QED
        BY <2>4, <4>1
    <3> QED
      BY <3>1, <3>2
  <2> QED
    BY <2>1, <2>2, <2>5, <2>6
<1>5. PICK r \in Links : /\ r = [NewLink EXCEPT !.wire = a] /\ r.wire = a /\ Len(r.writes) = 0
  <2> DEFINE r == [NewLink EXCEPT !.wire = a]
  <2>1. <<>> \in Seq(JoinEntries) /\ <<>> \in Seq(BatchMsgs) /\ Len(<<>>) = 0
    BY EmptySeq
  <2>2. NewLink \in Links /\ NewLink.writes = <<>>
    BY <2>1, EmptySeq DEF NewLink, Links
  <2>3. r \in Links /\ r.wire = a /\ r.writes = NewLink.writes
    BY <2>2 DEF Links
  <2> QED
    BY <2>1, <2>2, <2>3
<1>6. InOrder(r) /\ SentIn(r) = {}
  <2>1. \A i \in 1..Len(r.wire) : r.wire[i].type # "batch"
    BY <1>4, <1>5
  <2>2. InOrder(r)
    BY <1>5, <2>1 DEF InOrder
  <2>3. \A b : b \notin SentIn(r)
    <3>1. \A b : b \in SentIn(r) <=>
            \/ \E i \in 1..Len(r.wire) : r.wire[i].type = "batch" /\ b = r.wire[i]
            \/ \E i \in 1..Len(r.writes) : b = r.writes[i]
      BY SentAre
    <3>2. \A i : i \notin 1..Len(r.writes)
      BY <1>5
    <3> QED
      BY <2>1, <3>1, <3>2
  <2> QED
    BY <2>2, <2>3
<1>7. /\ Len(links') = Len(links) + 1
      /\ links'[Len(links) + 1] = r /\ \A l \in 1..Len(links) : links'[l] = links[l]
  BY <1>1, <1>4, <1>5, AppendProperties
<1>8. PICK ls \in Seq(Links), rec \in Seq(BatchMsgs), keys \in Seq(Nat),
              ls2 \in Seq(Links) :
        ls = links /\ rec = record /\ keys = editor.buffer /\ ls2 = links'
  BY DEF KeysInv, KeyTypes
<1>9. /\ Ordered(ls, rec, keys) /\ Len(ls2) = Len(ls) + 1 /\ ls2[Len(ls) + 1] = r
      /\ \A l \in 1..Len(ls) : ls2[l] = ls[l]
      /\ Divide(ToSet(keys), Carried(ls), KeysOf(ToSet(rec)), lost, KeysOf(refused), 1..typed)
  BY <1>7, <1>8 DEF KeysInv
<1>10. Ordered(ls2, rec, keys) /\ Carried(ls2) = Carried(ls)
  <2>1. Connects(ls, ls2)
    BY <1>6, <1>9 DEF Connects
  <2> QED
    BY <1>9, <2>1, OrderLinks
<1> QED
  BY <1>2, <1>3, <1>8, <1>9, <1>10 DEF KeysInv

\* attempt:leave, and the last flush.
LEMMA QuitPageKept ==
  ASSUME KeysInv, KeyTypes', QuitPage PROVE KeysInv'
<1>1. /\ KeyTypes /\ links \in Seq(Links) /\ Ordered(links, record, editor.buffer)
  BY DEF KeysInv, KeyTypes
<1>2. /\ UNCHANGED <<typed, record, refused>> /\ editor' = NoPage
  BY DEF QuitPage
<1>3. editor'.buffer = <<>>
  BY <1>2 DEF NoPage
<1>4. CASE conn.at # 0
  <2>1. PICK l \in 1..Len(links), r \in Links, p \in Links, q \in Links, m \in Msgs :
          /\ l = conn.at /\ l = Len(links) /\ r = links[l]
          /\ links' = [links EXCEPT ![l] = q] /\ Extends(r, p, Leave)
          /\ m.type = "batch" /\ m.keys = editor.buffer /\ m.link = l /\ ~m.heard
          /\ IF editor.buffer = <<>> THEN q = p ELSE Extends(p, q, m)
    BY <1>1, <1>4, QuitSends, Zenon
  <2>2. lost' = lost
    BY <1>1, <1>4, QuitSends
  <2>3. InOrder(r) /\ \A c \in SentIn(r) : Before(c, m)
    BY <1>1, <2>1 DEF Ordered, Under, Before
  <2>4. InOrder(p) /\ SentIn(p) = SentIn(r)
    <3>1. PICK n \in Msgs : n = Leave /\ n.type = "leave"
      BY MessagesAre
    <3>2. /\ n.type = "batch" => \A c \in SentIn(r) : Before(c, n)
          /\ p.writes = r.writes /\ Len(p.wire) = Len(r.wire) + 1
          /\ \A i \in 1..Len(r.wire) : p.wire[i] = r.wire[i]
          /\ p.wire[Len(r.wire) + 1] = n
      BY <2>1, <3>1 DEF Extends
    <3>3. InOrder(p) /\ SentIn(p) = SentIn(r) \cup IF n.type = "batch" THEN {n} ELSE {}
      BY <2>3, <3>2, OrderSent
    <3> QED
      BY <3>1, <3>3
  <2>5. links' = [links EXCEPT ![l] = q] /\ r = links[l] /\ l = Len(links)
    BY <2>1
  <2>6. CASE editor.buffer = <<>>
    <3>1. q = p /\ editor'.buffer = editor.buffer
      BY <1>3, <2>1, <2>6
    <3>2. InOrder(q) /\ SentIn(q) = SentIn(links[l])
      BY <2>4, <2>5, <3>1
    <3> QED
      BY <1>2, <2>2, <2>5, <3>1, <3>2, KeysSame
  <2>7. CASE editor.buffer # <<>>
    <3>1. Extends(p, q, m) /\ m.type = "batch" /\ m.keys = editor.buffer /\ m.link = l
      BY <2>1, <2>7
    <3>2. \A c \in SentIn(p) : Before(c, m)
      BY <2>3, <2>4
    <3>3. InOrder(q) /\ SentIn(q) = SentIn(p) \cup {m}
      BY <2>4, <3>1, <3>2, OrderSent DEF Extends
    <3>4. \A b : b \in SentIn(q) <=> b \in SentIn(links[l]) \/ b = m
      BY <2>4, <2>5, <3>3
    <3>5. /\ Len(links') = Len(links) /\ links'[l] = q
          /\ \A k \in 1..Len(links) : k # l => links'[k] = links[k]
          /\ \A k \in 1..Len(links) : k <= l
      BY <1>1, <2>5, LinkMoves, LenProperties
    <3> QED
      BY <1>2, <1>3, <2>2, <3>1, <3>3, <3>4, <3>5, KeysSend
  <2> QED
    BY <2>6, <2>7
<1>5. CASE conn.at = 0
  <2>1. links' = links /\ lost' = lost \cup ToSet(editor.buffer)
    BY <1>5 DEF QuitPage, Lose
  <2>2. PICK X : X = ToSet(editor.buffer)
    OBVIOUS
  <2>3. /\ X \subseteq ToSet(editor.buffer) /\ lost' = lost \cup X
        /\ ToSet(editor'.buffer) = ToSet(editor.buffer) \ X /\ Increasing(editor'.buffer)
    BY <1>3, <2>1, <2>2, NothingKept
  <2> QED
    BY <1>2, <2>1, <2>3, KeysStill
<1> QED
  BY <1>4, <1>5

\* What was sent arrives up to some message.
LEMMA CutKept ==
  ASSUME KeysInv, KeyTypes', NEW X \in SUBSET ToSet(editor.buffer), CutLink(X),
         UNCHANGED <<typed, record, refused>>,
         ToSet(editor'.buffer) = ToSet(editor.buffer) \ X, Increasing(editor'.buffer)
  PROVE  KeysInv'
<1>1. /\ KeyTypes /\ links \in Seq(Links) /\ Len(links) \in Nat
      /\ Ordered(links, record, editor.buffer)
  BY LenProperties DEF KeysInv, KeyTypes
<1>2. CASE conn.at = 0
  <2>1. links' = links /\ lost' = lost \cup X
    BY <1>2 DEF CutLink, Lose
  <2> QED
    BY <2>1, KeysStill
<1>3. CASE conn.at # 0
  <2>1. PICK l \in 1..Len(links), r \in Links : l = conn.at /\ r = links[l]
    <3>1. conn.at \in 1..Len(links)
      BY <1>1, <1>3 DEF KeyTypes
    <3> QED
      BY <1>1, <3>1, ElementOfSeq
  <2>2. PICK n \in 0..Len(r.wire) :
          /\ links' = [links EXCEPT ![l].wire = SubSeq(r.wire, 1, n)]
          /\ lost' = lost \cup (X \cup KeysOf(Batches(SubSeq(r.wire, n + 1, Len(r.wire)))))
    BY <1>3, <2>1 DEF CutLink, Lose
  <2>3. PICK G : G = Batches(SubSeq(r.wire, n + 1, Len(r.wire)))
    OBVIOUS
  <2>4. CutOff(r, n, G)
    <3>1. Len(r.wire) \in Nat /\ \A i \in 1..Len(r.wire) : r.wire[i] \in Msgs
      BY LinkIs
    <3>2. PICK w \in Seq(Msgs) :
            /\ w = SubSeq(r.wire, n + 1, Len(r.wire)) /\ Len(w) = Len(r.wire) - n
            /\ \A i \in 1..Len(r.wire)-n : w[i] = r.wire[n + i]
      <4> DEFINE v == SubSeq(r.wire, n + 1, Len(r.wire))
      <4>1. n + 1 \in Int /\ Len(r.wire) \in Int /\ \A i \in n+1..Len(r.wire) : r.wire[i] \in Msgs
        BY <3>1
      <4>2. /\ v \in Seq(Msgs)
            /\ Len(v) = IF n + 1 <= Len(r.wire) THEN Len(r.wire) - (n + 1) + 1 ELSE 0
            /\ \A i \in 1..Len(r.wire)-(n+1)+1 : v[i] = r.wire[(n + 1) + i - 1]
        BY <4>1, SubSeqProperties
      <4> HIDE DEF v
      <4>3. Len(v) = Len(r.wire) - n
        BY <3>1, <4>2
      <4>4. \A i \in 1..Len(r.wire)-n : v[i] = r.wire[n + i]
        <5>1. \A i \in 1..Len(r.wire)-n : /\ i \in 1..Len(r.wire)-(n+1)+1
                                          /\ (n + 1) + i - 1 = n + i
          BY <3>1
        <5> QED
          BY <4>2, <5>1
      <4> QED
        BY <4>2, <4>3, <4>4 DEF v
    <3>3. \A b : b \in ToSet(w) <=> \E i \in 1..Len(w) : b = w[i]
      BY SetIs
    <3>4. \A b : b \in G <=> b \in ToSet(w) /\ b.type = "batch"
      BY <2>3, <3>2 DEF Batches
    <3>5. /\ \A i \in 1..Len(w) : n + i \in n+1..Len(r.wire) /\ w[i] = r.wire[n + i]
          /\ \A i \in n+1..Len(r.wire) : i - n \in 1..Len(w) /\ w[i - n] = r.wire[i]
      BY <3>1, <3>2
    <3>6. ASSUME NEW b, b \in G
          PROVE  \E i \in n+1..Len(r.wire) : r.wire[i].type = "batch" /\ b = r.wire[i]
      <4>1. PICK i \in 1..Len(w) : b = w[i]
        BY <3>3, <3>4, <3>6
      <4>2. n + i \in n+1..Len(r.wire) /\ r.wire[n + i] = b /\ b.type = "batch"
        BY <3>4, <3>5, <3>6, <4>1
      <4> QED
        BY <4>2
    <3>7. ASSUME NEW i \in n+1..Len(r.wire), r.wire[i].type = "batch" PROVE r.wire[i] \in G
      BY <3>3, <3>4, <3>5, <3>7
    <3> QED
      BY <3>6, <3>7 DEF CutOff
  <2>5. PICK q \in Links :
          /\ links' = [links EXCEPT ![l] = q] /\ q.writes = r.writes
          /\ Len(q.wire) = n /\ \A i \in 1..n : q.wire[i] = r.wire[i]
    <3>1. links' = [links EXCEPT ![l] = [r EXCEPT !.wire = SubSeq(r.wire, 1, n)]]
      BY <1>1, <2>1, <2>2
    <3> QED
      BY <3>1, WireCut
  <2>6. InOrder(r)
    BY <1>1, <2>1 DEF Ordered
  <2>7. /\ InOrder(q) /\ SentIn(q) \cup G = SentIn(r)
        /\ \A g \in G, c \in SentIn(q) : Apart(g, c)
    BY <2>4, <2>5, <2>6, OrderCut
  <2>8. links' = [links EXCEPT ![l] = q] /\ SentIn(q) \cup G = SentIn(links[l])
    BY <2>1, <2>5, <2>7
  <2>9. lost' = lost \cup (X \cup KeysOf(G)) /\ KeysOf(refused') = KeysOf(refused)
    BY <2>2, <2>3
  <2> QED
    BY <2>7, <2>8, <2>9, KeysShrink
<1> QED
  BY <1>2, <1>3

\* What a lost connection or a closed tab cuts off the wire, or drops from the page, is lost.
LEMMA LosesKept ==
  ASSUME KeysInv, KeyTypes', LoseConnection \/ CloseTab PROVE KeysInv'
<1>1. CASE LoseConnection
  <2>1. PICK X : X = {}
    OBVIOUS
  <2>2. CutLink(X) /\ UNCHANGED <<typed, record, refused>>
    BY <1>1, <2>1 DEF LoseConnection
  <2>3. editor'.buffer = editor.buffer
    BY <1>1 DEF LoseConnection, KeysInv, KeyTypes
  <2>4. /\ X \in SUBSET ToSet(editor.buffer) /\ Increasing(editor'.buffer)
        /\ ToSet(editor'.buffer) = ToSet(editor.buffer) \ X
    BY <2>1, <2>3 DEF KeysInv, Ordered
  <2> QED
    BY <2>2, <2>4, CutKept
<1>2. CASE CloseTab
  <2>1. PICK X : X = ToSet(editor.buffer)
    OBVIOUS
  <2>2. CutLink(X) /\ UNCHANGED <<typed, record, refused>>
    BY <1>2, <2>1 DEF CloseTab
  <2>3. editor'.buffer = <<>>
    BY <1>2 DEF CloseTab, NoPage
  <2>4. /\ X \in SUBSET ToSet(editor.buffer) /\ Increasing(editor'.buffer)
        /\ ToSet(editor'.buffer) = ToSet(editor.buffer) \ X
    BY <2>1, <2>3, NothingKept
  <2> QED
    BY <2>2, <2>4, CutKept
<1> QED
  BY <1>1, <1>2

\* What the server takes: a join or a leave ...
LEMMA TakesKept ==
  ASSUME KeysInv, KeyTypes', NEW l \in 1..Len(links), ReceiveJoin(l) \/ ReceiveLeave(l)
  PROVE  KeysInv'
<1>1. /\ KeyTypes /\ links \in Seq(Links) /\ links[l] \in Links
      /\ Ordered(links, record, editor.buffer)
  BY ElementOfSeq DEF KeysInv, KeyTypes
<1>2. PICK r \in Links : r = links[l]
  BY <1>1
<1>3. r.wire # <<>> /\ Head(r.wire).type # "batch"
  BY <1>2 DEF ReceiveJoin, ReceiveLeave, Arrives
<1>4. PICK t \in Links :
        /\ t = Taken(l) /\ t.writes = r.writes
        /\ Len(r.wire) >= 1 /\ Head(r.wire) = r.wire[1]
        /\ Len(t.wire) = Len(r.wire) - 1
        /\ \A i \in 1..Len(t.wire) : t.wire[i] = r.wire[i + 1]
        /\ Head(r.wire) \in Msgs
  BY <1>1, <1>2, <1>3, WireTaken
<1>5. InOrder(r)
  BY <1>1, <1>2 DEF Ordered
<1>6. InOrder(t) /\ SentIn(t) = SentIn(r)
  <2>1. PICK G : G = {} /\ G = IF r.wire[1].type = "batch" THEN {r.wire[1]} ELSE {}
    BY <1>3, <1>4
  <2>2. InOrder(t) /\ SentIn(t) \cup G = SentIn(r)
    BY <1>4, <1>5, <2>1, OrderTaken
  <2> QED
    BY <2>1, <2>2
<1>7. PICK q \in Links : links' = [links EXCEPT ![l] = q] /\ q.wire = t.wire /\ q.writes = t.writes
  <2>1. CASE ReceiveLeave(l)
    <3> DEFINE q == [t EXCEPT !.bound = FALSE]
    <3>1. q \in Links /\ q.wire = t.wire /\ q.writes = t.writes
      BY DEF Links
    <3>2. links' = [links EXCEPT ![l] = q]
      BY <1>4, <2>1 DEF ReceiveLeave
    <3> QED
      BY <3>1, <3>2
  <2>2. CASE ReceiveJoin(l)
    <3>1. PICK e \in JoinEntries : e = [visit |-> Head(r.wire).visit, at |-> "reading"]
      <4>1. Head(r.wire).type = "join"
        BY <1>2, <2>2 DEF ReceiveJoin, Arrives
      <4>2. Head(r.wire).visit \in Nat
        BY <1>4, <4>1, MessagesAre
      <4> QED
        BY <4>2 DEF JoinEntries
    <3>2. Append(t.joins, e) \in Seq(JoinEntries)
      BY LinkIs, AppendProperties
    <3> DEFINE q == [t EXCEPT !.joins = Append(@, e)]
    <3>3. q \in Links /\ q.wire = t.wire /\ q.writes = t.writes
      BY <3>2 DEF Links
    <3>4. links' = [links EXCEPT ![l] = q]
      BY <1>2, <1>4, <2>2, <3>1 DEF ReceiveJoin
    <3> QED
      BY <3>3, <3>4
  <2> QED
    BY <2>1, <2>2
<1>8. InOrder(q) /\ SentIn(q) = SentIn(links[l])
  <2>1. InOrder(q) /\ SentIn(q) = SentIn(t)
    BY <1>6, <1>7, SentSame
  <2> QED
    BY <1>2, <1>6, <2>1
<1>9. UNCHANGED <<typed, editor, record, refused, lost>>
  BY DEF ReceiveJoin, ReceiveLeave, ends
<1> QED
  BY <1>7, <1>8, <1>9, KeysSame

\* ... or a batch.
LEMMA ReceiveBatchKept ==
  ASSUME KeysInv, KeyTypes', NEW l \in 1..Len(links), ReceiveBatch(l) PROVE KeysInv'
<1>1. /\ KeyTypes /\ links \in Seq(Links) /\ links[l] \in Links
      /\ Ordered(links, record, editor.buffer) /\ Increasing(editor.buffer)
  BY ElementOfSeq DEF KeysInv, KeyTypes, Ordered
<1>2. PICK r \in Links : r = links[l]
  BY <1>1
<1>3. r.wire # <<>> /\ Head(r.wire).type = "batch"
  BY <1>2 DEF ReceiveBatch, Arrives
<1>4. PICK t \in Links :
        /\ t = Taken(l) /\ t.writes = r.writes
        /\ Len(r.wire) >= 1 /\ Head(r.wire) = r.wire[1] /\ r.wire[1] \in Msgs
        /\ Len(t.wire) = Len(r.wire) - 1
        /\ \A i \in 1..Len(t.wire) : t.wire[i] = r.wire[i + 1]
  BY <1>1, <1>2, <1>3, WireTaken
<1>5. PICK b \in BatchMsgs : b = Head(r.wire) /\ b = r.wire[1] /\ r.wire[1].type = "batch"
  BY <1>3, <1>4, MessagesAre
<1>6. InOrder(r)
  BY <1>1, <1>2 DEF Ordered
<1>7. UNCHANGED <<typed, editor, record>>
  BY DEF ReceiveBatch
<1>8. PICK X, G : X = {} /\ G = {b} /\ G = IF r.wire[1].type = "batch" THEN {r.wire[1]} ELSE {}
  BY <1>5
<1>9. /\ InOrder(t) /\ SentIn(t) \cup G = SentIn(r) /\ \A g \in G, c \in SentIn(t) : Apart(g, c)
  BY <1>4, <1>6, <1>8, OrderTaken
<1>10. SentIn(t) \cup G = SentIn(links[l]) /\ KeysOf(G) = ToSet(b.keys)
  BY <1>2, <1>8, <1>9, KeysOfMore
<1>11. /\ X \subseteq ToSet(editor.buffer) /\ Increasing(editor'.buffer)
       /\ ToSet(editor'.buffer) = ToSet(editor.buffer) \ X
  BY <1>1, <1>7, <1>8
<1>12. CASE links' = [links EXCEPT ![l] = t] /\ refused' = refused \cup {b} /\ lost' = lost
  <2>1. KeysOf(refused') = KeysOf(refused) \cup KeysOf(G)
    BY <1>10, <1>12, KeysOfMore
  <2> QED
    BY <1>7, <1>8, <1>9, <1>10, <1>11, <1>12, <2>1, KeysShrink
<1>13. CASE links' = [links EXCEPT ![l] = t] /\ lost' = lost \cup ToSet(b.keys) /\ refused' = refused
  <2>1. lost' = lost \cup (X \cup KeysOf(G)) /\ KeysOf(refused') = KeysOf(refused)
    BY <1>8, <1>10, <1>13
  <2> QED
    BY <1>7, <1>9, <1>10, <1>11, <1>13, <2>1, KeysShrink
<1>14. CASE /\ links' = [links EXCEPT ![l] = [t EXCEPT !.writes = Append(@, b)]]
            /\ UNCHANGED <<refused, lost>>
  <2> DEFINE q == [t EXCEPT !.writes = Append(@, b)]
  <2>1. /\ Append(t.writes, b) \in Seq(BatchMsgs) /\ Len(Append(t.writes, b)) = Len(t.writes) + 1
        /\ Append(t.writes, b)[Len(t.writes) + 1] = b
        /\ \A i \in 1..Len(t.writes) : Append(t.writes, b)[i] = t.writes[i]
    BY LinkIs, AppendProperties
  <2>2. q \in Links /\ q.wire = t.wire /\ q.writes = Append(t.writes, b)
    BY <2>1 DEF Links
  <2>3. links' = [links EXCEPT ![l] = q]
    BY <1>14
  <2> HIDE DEF q
  <2>4. /\ Len(q.writes) = Len(r.writes) + 1 /\ q.writes[Len(r.writes) + 1] = r.wire[1]
        /\ \A i \in 1..Len(r.writes) : q.writes[i] = r.writes[i]
    BY <1>4, <1>5, <2>1, <2>2
  <2>5. InOrder(q) /\ SentIn(q) = SentIn(r)
    BY <1>4, <1>5, <1>6, <2>2, <2>4, OrderAccepted
  <2>6. SentIn(q) = SentIn(links[l])
    BY <1>2, <2>5
  <2>7. /\ refused' = refused /\ lost' = lost /\ record' = record /\ typed' = typed
        /\ editor'.buffer = editor.buffer
    BY <1>7, <1>14
  <2> QED
    BY <2>2, <2>3, <2>5, <2>6, <2>7, KeysSame
<1> QED
  BY <1>2, <1>4, <1>5, <1>12, <1>13, <1>14 DEF ReceiveBatch, Lose, ends

\* The joins do not carry keys.
LEMMA JoinsKept ==
  ASSUME KeysInv, KeyTypes', NEW l \in 1..Len(links), NEW n \in 1..Len(links[l].joins),
         BindSocket(l, n) \/ AnswerSuccess(l, n) \/ AnswerRefusal(l, n)
  PROVE  KeysInv'
<1>1. /\ KeyTypes /\ links \in Seq(Links) /\ links[l] \in Links
      /\ Ordered(links, record, editor.buffer) /\ editor \in Editors
  BY ElementOfSeq DEF KeysInv, KeyTypes, Editors
<1>2. PICK r \in Links : r = links[l]
  BY <1>1
<1>3. PICK q \in Links : links' = [links EXCEPT ![l] = q] /\ q.wire = r.wire /\ q.writes = r.writes
  <2>1. CASE BindSocket(l, n)
    <3> DEFINE s == [r.joins EXCEPT ![n].at = "bound"]
               q == [r EXCEPT !.bound = TRUE, !.joins = s]
    <3>1. s \in Seq(JoinEntries)
      <4>1. r.joins \in Seq(JoinEntries) /\ n \in 1..Len(r.joins) /\ r.joins[n] \in JoinEntries
        BY <1>2, LinkIs
      <4>2. PICK e \in JoinEntries : e = [r.joins[n] EXCEPT !.at = "bound"]
        <5>1. PICK j \in JoinEntries : j = r.joins[n]
          BY <4>1
        <5>2. [j EXCEPT !.at = "bound"] \in JoinEntries
          BY DEF JoinEntries
        <5> QED
          BY <5>1, <5>2
      <4>3. s = [r.joins EXCEPT ![n] = e]
        BY <4>1, <4>2
      <4>4. [r.joins EXCEPT ![n] = e] \in Seq(JoinEntries)
        BY <4>1, ExceptSeq
      <4> QED
        BY <4>3, <4>4
    <3>2. links' = [links EXCEPT ![l] = q]
      BY <1>1, <1>2, <2>1 DEF BindSocket
    <3> HIDE DEF s
    <3>3. q \in Links /\ q.wire = r.wire /\ q.writes = r.writes
      BY <3>1 DEF Links
    <3> QED
      BY <3>2, <3>3
  <2>2. CASE AnswerSuccess(l, n) \/ AnswerRefusal(l, n)
    <3>1. EndJoin(l, n)
      BY <2>2 DEF AnswerSuccess, AnswerRefusal
    <3> QED
      BY <1>1, <1>2, <3>1, JoinsLess
  <2> QED
    BY <2>1, <2>2
<1>4. InOrder(q) /\ SentIn(q) = SentIn(links[l])
  <2>1. InOrder(r)
    BY <1>1, <1>2 DEF Ordered
  <2> QED
    BY <1>2, <1>3, <2>1, SentSame
<1>5. UNCHANGED <<typed, record, refused, lost>>
  BY DEF BindSocket, AnswerSuccess, AnswerRefusal, ends
<1>6. editor'.buffer = editor.buffer
  <2>1. editor' = editor \/ editor' = [editor EXCEPT !.connected = TRUE]
    BY DEF BindSocket, AnswerSuccess, AnswerRefusal
  <2> QED
    BY <1>1, <2>1 DEF Editors
<1> QED
  BY <1>3, <1>4, <1>5, <1>6, KeysSame

\* The batch the pipeline fails on is lost.
LEMMA StoreFailsKept ==
  ASSUME KeysInv, KeyTypes', NEW l \in 1..Len(links), StoreFails(l) PROVE KeysInv'
<1>1. KeyTypes /\ Ordered(links, record, editor.buffer)
  BY DEF KeysInv
<1>2. PICK r \in Links, q \in Links, b \in BatchMsgs :
        /\ r = links[l] /\ b = Head(r.writes) /\ b = r.writes[1] /\ b.keys \in Seq(Nat)
        /\ links' = [links EXCEPT ![l] = q]
        /\ q.wire = r.wire /\ q.joins = r.joins /\ q.bound = r.bound
        /\ Len(r.writes) >= 1 /\ Len(q.writes) = Len(r.writes) - 1
        /\ \A i \in 1..Len(q.writes) : q.writes[i] = r.writes[i + 1]
  <2>1. links[l].writes # <<>> /\ links' = [links EXCEPT ![l].writes = Tail(@)]
    BY DEF StoreFails
  <2> QED
    BY <1>1, <2>1, WriteTaken, Zenon
<1>3. InOrder(r)
  BY <1>1, <1>2 DEF Ordered
<1>4. InOrder(q) /\ SentIn(q) \cup {b} = SentIn(r) /\ \A c \in SentIn(q) : Before(b, c)
  BY <1>2, <1>3, OrderStored
<1>5. PICK X, G : X = {} /\ G = {b}
  OBVIOUS
<1>6. \A g \in G, c \in SentIn(q) : Apart(g, c)
  <2>1. ASSUME NEW c \in SentIn(q) PROVE Apart(b, c)
    BY <1>4, SentTypes, BeforeApart
  <2> QED
    BY <1>5, <2>1
<1>7. /\ links' = [links EXCEPT ![l] = q] /\ SentIn(q) \cup G = SentIn(links[l])
  BY <1>2, <1>4, <1>5
<1>8. UNCHANGED <<typed, editor, record, refused>> /\ lost' = lost \cup ToSet(b.keys)
  BY <1>2 DEF StoreFails, Lose
<1>9. lost' = lost \cup (X \cup KeysOf(G)) /\ KeysOf(refused') = KeysOf(refused)
  BY <1>5, <1>8, KeysOfMore
<1>10. /\ X \subseteq ToSet(editor.buffer) /\ Increasing(editor'.buffer)
       /\ ToSet(editor'.buffer) = ToSet(editor.buffer) \ X
  BY <1>1, <1>5, <1>8 DEF Ordered
<1> QED
  BY <1>4, <1>6, <1>7, <1>8, <1>9, <1>10, KeysShrink

\* The first batch of connection l that waits for Redis goes to the end of the record.
LEMMA OrderRecorded ==
  ASSUME NEW ls \in Seq(Links), NEW rec \in Seq(BatchMsgs), NEW keys, Ordered(ls, rec, keys),
         NEW l \in 1..Len(ls), NEW ls2, Len(ls2) = Len(ls),
         \A m \in 1..Len(ls) : m # l => ls2[m] = ls[m], NEW q \in Links, q = ls2[l], InOrder(q),
         NEW b \in BatchMsgs, SentIn(q) \cup {b} = SentIn(ls[l]),
         \A c \in SentIn(q) : Before(b, c),
         NEW rec2 \in Seq(BatchMsgs), Len(rec2) = Len(rec) + 1,
         \A i \in 1..Len(rec) : rec2[i] = rec[i], rec2[Len(rec) + 1] = b
  PROVE  Ordered(ls2, rec2, keys)
<1>1. /\ Len(ls) \in Nat /\ Len(rec) \in Nat
      /\ \A i \in 1..Len(rec2) : i \in 1..Len(rec) \/ i = Len(rec) + 1
  BY LenProperties
<1>2. b \in SentIn(ls[l]) /\ b.link = l /\ Under(b, keys)
  BY DEF Ordered
<1>3. \A m \in 1..Len(ls) : InOrder(ls2[m]) /\ SentIn(ls2[m]) \subseteq SentIn(ls[m])
  BY DEF Ordered
<1>4. \A m \in 1..Len(ls2) : InOrder(ls2[m]) /\ \A c \in SentIn(ls2[m]) : c.link = m /\ Under(c, keys)
  BY <1>3 DEF Ordered
<1>5. \A k, m \in 1..Len(ls2) : k < m => \A c \in SentIn(ls2[k]), d \in SentIn(ls2[m]) : Before(c, d)
  BY <1>3 DEF Ordered
<1>6. \A i \in 1..Len(rec2) : rec2[i].link <= Len(ls2) /\ Under(rec2[i], keys)
  BY <1>1, <1>2 DEF Ordered
<1>7. \A i \in 1..Len(rec2), m \in 1..Len(ls2) : \A c \in SentIn(ls2[m]) : Follows(rec2[i], c, m)
  <2> SUFFICES ASSUME NEW i \in 1..Len(rec2), NEW m \in 1..Len(ls), NEW c \in SentIn(ls2[m])
               PROVE  Follows(rec2[i], c, m)
    OBVIOUS
  <2>1. c \in SentIn(ls[m])
    BY <1>3
  <2>2. CASE i \in 1..Len(rec)
    BY <2>1, <2>2 DEF Ordered
  <2>3. CASE i = Len(rec) + 1
    <3>1. CASE m = l
      BY <1>2, <2>3, <3>1 DEF Follows
    <3>2. CASE m > l
      <4>1. Before(b, c)
        BY <1>2, <2>1, <3>2 DEF Ordered
      <4> QED
        BY <1>2, <2>3, <3>2, <4>1 DEF Follows
    <3>3. CASE m < l
      <4>1. Before(c, b)
        BY <1>2, <2>1, <3>3 DEF Ordered
      <4> QED
        BY <1>2, <2>3, <3>3, <4>1 DEF Follows
    <3> QED
      BY <1>1, <3>1, <3>2, <3>3
  <2> QED
    BY <1>1, <2>2, <2>3
<1>8. \A i, j \in 1..Len(rec2) : i < j => Follows(rec2[i], rec2[j], rec2[j].link)
  <2> SUFFICES ASSUME NEW i \in 1..Len(rec2), NEW j \in 1..Len(rec2), i < j
               PROVE  Follows(rec2[i], rec2[j], rec2[j].link)
    OBVIOUS
  <2>1. i \in 1..Len(rec)
    BY <1>1
  <2>2. CASE j \in 1..Len(rec)
    BY <2>1, <2>2 DEF Ordered
  <2>3. CASE j = Len(rec) + 1
    <3>1. Follows(rec[i], b, l)
      BY <1>2, <2>1 DEF Ordered
    <3> QED
      BY <1>2, <2>1, <2>3, <3>1
  <2> QED
    BY <1>1, <2>2, <2>3
<1>9. Increasing(keys)
  BY DEF Ordered
<1> QED
  BY <1>4, <1>5, <1>6, <1>7, <1>8, <1>9 DEF Ordered

\* rec2 is rec with b appended.
Grown(rec, b, rec2) ==
  /\ Len(rec2) = Len(rec) + 1
  /\ \A i \in 1..Len(rec) : rec2[i] = rec[i]
  /\ rec2[Len(rec) + 1] = b

\* The keys on record are the ones already there and the new batch's.
LEMMA RecordGrows ==
  ASSUME NEW rec \in Seq(BatchMsgs), NEW b, NEW rec2 \in Seq(BatchMsgs), Grown(rec, b, rec2)
  PROVE  KeysOf(ToSet(rec2)) = KeysOf(ToSet(rec)) \cup ToSet(b.keys)
<1>1. /\ Len(rec) \in Nat /\ Len(rec) + 1 \in 1..Len(rec2)
      /\ \A i \in 1..Len(rec2) : i \in 1..Len(rec) \/ i = Len(rec) + 1
      /\ \A i \in 1..Len(rec) : i \in 1..Len(rec2)
      /\ \A i \in 1..Len(rec) : rec2[i] = rec[i]
      /\ rec2[Len(rec) + 1] = b
  BY LenProperties DEF Grown
<1>2. \A c : c \in ToSet(rec) <=> \E i \in 1..Len(rec) : c = rec[i]
  BY SetIs
<1>3. \A c : c \in ToSet(rec2) <=> \E i \in 1..Len(rec2) : c = rec2[i]
  BY SetIs
<1>4. \A c : c \in ToSet(rec2) <=> c \in ToSet(rec) \/ c = b
  BY <1>1, <1>2, <1>3
<1>5. ToSet(rec2) = ToSet(rec) \cup {b}
  BY <1>4
<1> QED
  BY <1>5, KeysOfMore

\* The oldest batch is dropped.
LEMMA OrderTrimmed ==
  ASSUME NEW ls, NEW rec \in Seq(BatchMsgs), NEW keys, Ordered(ls, rec, keys), Len(rec) >= 1,
         NEW rec2 \in Seq(BatchMsgs), Len(rec2) = Len(rec) - 1,
         \A i \in 1..Len(rec2) : rec2[i] = rec[i + 1]
  PROVE  /\ Ordered(ls, rec2, keys)
         /\ KeysOf(ToSet(rec2)) = KeysOf(ToSet(rec)) \ ToSet(rec[1].keys)
         /\ ToSet(rec[1].keys) \subseteq KeysOf(ToSet(rec))
<1>1. /\ Len(rec) \in Nat /\ 1 \in 1..Len(rec)
      /\ \A i \in 1..Len(rec2) : i + 1 \in 1..Len(rec) /\ 1 < i + 1
      /\ \A i \in 1..Len(rec) : i = 1 \/ (i - 1 \in 1..Len(rec2) /\ (i - 1) + 1 = i)
  BY LenProperties
<1>2. Ordered(ls, rec2, keys)
  <2>1. \A i \in 1..Len(rec2) : rec2[i].link <= Len(ls) /\ Under(rec2[i], keys)
    BY <1>1 DEF Ordered
  <2>2. \A i \in 1..Len(rec2), l \in 1..Len(ls) : \A b \in SentIn(ls[l]) : Follows(rec2[i], b, l)
    BY <1>1 DEF Ordered
  <2>3. \A i, j \in 1..Len(rec2) : i < j => Follows(rec2[i], rec2[j], rec2[j].link)
    <3> SUFFICES ASSUME NEW i \in 1..Len(rec2), NEW j \in 1..Len(rec2), i < j
                 PROVE  Follows(rec2[i], rec2[j], rec2[j].link)
      OBVIOUS
    <3>1. i + 1 \in 1..Len(rec) /\ j + 1 \in 1..Len(rec) /\ i + 1 < j + 1
      BY <1>1
    <3>2. Follows(rec[i + 1], rec[j + 1], rec[j + 1].link)
      BY <3>1 DEF Ordered
    <3> QED
      BY <3>2
  <2> QED
    BY <2>1, <2>2, <2>3 DEF Ordered
<1>3. \A c : c \in ToSet(rec) <=> \E i \in 1..Len(rec) : c = rec[i]
  BY SetIs
<1>4. \A c : c \in ToSet(rec2) <=> \E i \in 1..Len(rec2) : c = rec2[i]
  BY SetIs
<1>5. \A c : c \in ToSet(rec) <=> c \in ToSet(rec2) \/ c = rec[1]
  <2>1. \A c : c \in ToSet(rec2) \/ c = rec[1] => c \in ToSet(rec)
    BY <1>1, <1>3, <1>4
  <2>2. ASSUME NEW c \in ToSet(rec), c # rec[1] PROVE c \in ToSet(rec2)
    <3>1. PICK i \in 1..Len(rec) : c = rec[i] /\ i # 1
      BY <1>3, <2>2
    <3>2. i - 1 \in 1..Len(rec2) /\ rec2[i - 1] = rec[i]
      BY <1>1, <3>1
    <3> QED
      BY <1>4, <3>1, <3>2
  <2> QED
    BY <2>1, <2>2
<1>6. ASSUME NEW c \in ToSet(rec2) PROVE Apart(rec[1], c)
  <2>1. PICK i \in 1..Len(rec2) : c = rec[i + 1]
    BY <1>4
  <2>2. Follows(rec[1], c, c.link)
    BY <1>1, <2>1 DEF Ordered
  <2>3. rec[1] \in BatchMsgs /\ c \in BatchMsgs
    BY <1>1, <2>1, ElementOfSeq
  <2> QED
    BY <2>2, <2>3, BeforeApart DEF Follows
<1>7. \A k : k \in KeysOf(ToSet(rec2)) <=> k \in KeysOf(ToSet(rec)) /\ k \notin ToSet(rec[1].keys)
  <2>1. \A k : k \in KeysOf(ToSet(rec)) <=> k \in KeysOf(ToSet(rec2)) \/ k \in ToSet(rec[1].keys)
    BY <1>5, KeysAre
  <2>2. ASSUME NEW k, k \in KeysOf(ToSet(rec2)) PROVE k \notin ToSet(rec[1].keys)
    <3>1. PICK c \in ToSet(rec2) : k \in ToSet(c.keys)
      BY <2>2, KeysAre
    <3> QED
      BY <1>6, <3>1 DEF Apart
  <2> QED
    BY <2>1, <2>2
<1>8. \A k : k \in ToSet(rec[1].keys) => k \in KeysOf(ToSet(rec))
  BY <1>5, KeysAre
<1>9. KeysOf(ToSet(rec2)) = KeysOf(ToSet(rec)) \ ToSet(rec[1].keys)
  BY <1>7
<1> QED
  BY <1>2, <1>8, <1>9

\* Keys stored move from the links to the record, and keys trimmed from the record to the lost.
LEMMA DivideStores ==
  ASSUME NEW A, NEW B, NEW C, NEW D, NEW E, NEW U, Divide(A, B, C, D, E, U), NEW Y \in SUBSET B
  PROVE  /\ Divide(A, B \ Y, C \cup Y, D, E, U)
         /\ \A Z \in SUBSET (C \cup Y) : Divide(A, B \ Y, (C \cup Y) \ Z, D \cup Z, E, U)
BY DEF Divide

\* A batch stored goes last on the record; what the trim drops is lost.
LEMMA StoreBatchKept ==
  ASSUME KeysInv, KeyTypes', NEW l \in 1..Len(links), StoreBatch(l) PROVE KeysInv'
<1>1. KeyTypes /\ record \in Seq(BatchMsgs) /\ links \in Seq(Links)
      /\ Ordered(links, record, editor.buffer)
  BY DEF KeysInv, KeyTypes
<1>2. PICK r \in Links, q \in Links, b \in BatchMsgs :
        /\ r = links[l] /\ b = Head(r.writes) /\ b = r.writes[1] /\ b.keys \in Seq(Nat)
        /\ links' = [links EXCEPT ![l] = q]
        /\ q.wire = r.wire /\ q.joins = r.joins /\ q.bound = r.bound
        /\ Len(r.writes) >= 1 /\ Len(q.writes) = Len(r.writes) - 1
        /\ \A i \in 1..Len(q.writes) : q.writes[i] = r.writes[i + 1]
  <2>1. links[l].writes # <<>> /\ links' = [links EXCEPT ![l].writes = Tail(@)]
    BY DEF StoreBatch
  <2> QED
    BY <1>1, <2>1, WriteTaken, Zenon
<1>3. InOrder(r)
  BY <1>1, <1>2 DEF Ordered
<1>4. InOrder(q) /\ SentIn(q) \cup {b} = SentIn(r) /\ \A c \in SentIn(q) : Before(b, c)
  BY <1>2, <1>3, OrderStored
<1>5. PICK spare \in {0, 1} :
        /\ record' = SubSeq(Append(record, b), spare + 1, Len(Append(record, b)))
        /\ lost' = lost \cup KeysOf(ToSet(SubSeq(Append(record, b), 1, spare)))
  <2> DEFINE s == IF Len(Append(record, b)) > MaxBatches THEN 1 ELSE 0
  <2>1. /\ s \in {0, 1}
        /\ record' = SubSeq(Append(record, b), s + 1, Len(Append(record, b)))
        /\ lost' = lost \cup KeysOf(ToSet(SubSeq(Append(record, b), 1, s)))
    BY <1>2 DEF StoreBatch, Lose
  <2> HIDE DEF s
  <2> QED
    BY <2>1
<1>6. PICK all \in Seq(BatchMsgs), out \in Seq(BatchMsgs) :
        /\ all = Append(record, b) /\ out = SubSeq(all, 1, spare)
        /\ record' \in Seq(BatchMsgs) /\ Len(record') = Len(record) + 1 - spare
        /\ Len(record) \in Nat /\ Len(all) = Len(record) + 1 /\ all[Len(record) + 1] = b
        /\ \A i \in 1..Len(record) : all[i] = record[i]
        /\ \A i \in 1..Len(record') : record'[i] = all[i + spare]
        /\ Len(out) = spare /\ (spare = 1 => out[1] = all[1])
  <2> DEFINE a == Append(record, b)
             o == SubSeq(a, 1, spare)
  <2>1. /\ record' \in Seq(BatchMsgs) /\ Len(record') = Len(record) + 1 - spare
        /\ Len(record) \in Nat
        /\ a \in Seq(BatchMsgs) /\ Len(a) = Len(record) + 1
        /\ a[Len(record) + 1] = b
        /\ \A i \in 1..Len(record) : a[i] = record[i]
        /\ \A i \in 1..Len(record') : record'[i] = a[i + spare]
        /\ o \in Seq(BatchMsgs) /\ Len(o) = spare /\ (spare = 1 => o[1] = a[1])
    BY <1>1, <1>5, RecordMoves
  <2>2. a = Append(record, b) /\ o = SubSeq(a, 1, spare)
    OBVIOUS
  <2> HIDE DEF a, o
  <2> QED
    BY <2>1, <2>2
<1>7. PICK ls \in Seq(Links), rec \in Seq(BatchMsgs), rec2 \in Seq(BatchMsgs),
              keys \in Seq(Nat), ls2 \in Seq(Links) :
        /\ ls = links /\ rec = record /\ rec2 = record' /\ keys = editor.buffer /\ ls2 = links'
  BY <1>1, <1>6 DEF KeyTypes
<1>8. /\ UNCHANGED <<typed, editor, refused>> /\ lost' = lost \cup KeysOf(ToSet(out))
  BY <1>5, <1>6 DEF StoreBatch
<1>9. /\ Len(ls2) = Len(ls) /\ q = ls2[l] /\ \A m \in 1..Len(ls) : m # l => ls2[m] = ls[m]
      /\ l \in 1..Len(ls) /\ SentIn(q) \cup {b} = SentIn(ls[l])
  BY <1>1, <1>2, <1>4, <1>7, LinkMoves
<1>10. /\ Ordered(ls, rec, keys)
       /\ Divide(ToSet(keys), Carried(ls), KeysOf(ToSet(rec)), lost, KeysOf(refused), 1..typed)
  BY <1>7 DEF KeysInv
<1>11. /\ Len(all) = Len(rec) + 1 /\ all[Len(rec) + 1] = b
       /\ \A i \in 1..Len(rec) : all[i] = rec[i]
  BY <1>6, <1>7
<1>12. Ordered(ls2, all, keys)
  BY <1>4, <1>9, <1>10, <1>11, OrderRecorded
<1>13. KeysOf(ToSet(all)) = KeysOf(ToSet(rec)) \cup ToSet(b.keys)
  <2>1. Grown(rec, b, all)
    BY <1>11 DEF Grown
  <2> QED
    BY <2>1, RecordGrows
<1>14. Carried(ls2) = Carried(ls) \ ToSet(b.keys) /\ ToSet(b.keys) \subseteq Carried(ls)
  <2>1. PICK G : G = {b}
    OBVIOUS
  <2>2. \A g \in G, c \in SentIn(q) : Apart(g, c)
    <3>1. ASSUME NEW c \in SentIn(q) PROVE Apart(b, c)
      BY <1>4, SentTypes, BeforeApart
    <3> QED
      BY <2>1, <3>1
  <2>3. SentIn(q) \cup G = SentIn(ls[l])
    BY <1>9, <2>1
  <2>4. Carried(ls2) = Carried(ls) \ KeysOf(G) /\ KeysOf(G) \subseteq Carried(ls)
    BY <1>9, <1>10, <2>2, <2>3, CarriedShrinks
  <2> QED
    BY <2>1, <2>4, KeysOfMore
<1>15. CASE spare = 0
  <2>1. /\ Len(rec2) = Len(all) /\ \A i \in 1..Len(all) : rec2[i] = all[i]
    BY <1>6, <1>7, <1>15
  <2>2. rec2 = all
    BY <2>1, SeqEqual
  <2>3. KeysOf(ToSet(out)) = {}
    <3>1. \A c : c \notin ToSet(out)
      <4>1. \A c : c \in ToSet(out) <=> \E i \in 1..Len(out) : c = out[i]
        BY SetIs
      <4>2. Len(out) = 0
        BY <1>6, <1>15
      <4> QED
        BY <4>1, <4>2
    <3> QED
      BY <3>1, KeysAre
  <2>4. Divide(ToSet(keys), Carried(ls) \ ToSet(b.keys), KeysOf(ToSet(rec)) \cup ToSet(b.keys),
               lost, KeysOf(refused), 1..typed)
    BY <1>10, <1>14, DivideStores
  <2> QED
    BY <1>7, <1>8, <1>12, <1>13, <1>14, <2>2, <2>3, <2>4 DEF KeysInv
<1>16. CASE spare = 1
  <2>1. /\ Len(rec2) = Len(all) - 1 /\ Len(all) >= 1
        /\ \A i \in 1..Len(rec2) : rec2[i] = all[i + 1]
    BY <1>6, <1>7, <1>16
  <2>2. /\ Ordered(ls2, rec2, keys)
        /\ KeysOf(ToSet(rec2)) = KeysOf(ToSet(all)) \ ToSet(all[1].keys)
        /\ ToSet(all[1].keys) \subseteq KeysOf(ToSet(all))
    BY <1>12, <2>1, OrderTrimmed
  <2>3. KeysOf(ToSet(out)) = ToSet(all[1].keys)
    <3>1. \A c : c \in ToSet(out) <=> c = all[1]
      <4>1. \A c : c \in ToSet(out) <=> \E i \in 1..Len(out) : c = out[i]
        BY SetIs
      <4>2. Len(out) = 1 /\ out[1] = all[1]
        BY <1>6, <1>16
      <4> QED
        BY <4>1, <4>2
    <3>2. \A k : k \in KeysOf(ToSet(out)) <=> k \in ToSet(all[1].keys)
      <4>1. \A k : k \in KeysOf(ToSet(out)) <=> \E c \in ToSet(out) : k \in ToSet(c.keys)
        BY KeysAre
      <4> QED
        BY <3>1, <4>1
    <3> QED
      BY <3>2
  <2>4. PICK Z : Z = ToSet(all[1].keys)
    OBVIOUS
  <2>5. Z \in SUBSET (KeysOf(ToSet(rec)) \cup ToSet(b.keys))
    BY <1>13, <2>2, <2>4
  <2>6. Divide(ToSet(keys), Carried(ls) \ ToSet(b.keys),
               (KeysOf(ToSet(rec)) \cup ToSet(b.keys)) \ Z,
               lost \cup Z, KeysOf(refused), 1..typed)
    BY <1>10, <1>14, <2>5, DivideStores
  <2>7. lost' = lost \cup Z /\ KeysOf(ToSet(rec2)) = (KeysOf(ToSet(rec)) \cup ToSet(b.keys)) \ Z
    BY <1>8, <1>13, <2>2, <2>3, <2>4
  <2>8. Divide(ToSet(keys), Carried(ls2), KeysOf(ToSet(rec2)), lost', KeysOf(refused), 1..typed)
    BY <1>14, <2>6, <2>7
  <2> QED
    BY <1>7, <1>8, <2>2, <2>8 DEF KeysInv
<1> QED
  BY <1>15, <1>16

\* No key is anywhere at the start.
LEMMA KeysInit == KeyInit => KeysInv /\ Shut
<1> SUFFICES ASSUME KeyInit PROVE KeysInv /\ Shut
  OBVIOUS
<1>1. /\ typed = 0 /\ editor = NoPage /\ links = <<>> /\ record = <<>> /\ refused = {} /\ lost = {}
      /\ editor.buffer = <<>> /\ ~editor.enabled
  BY DEF KeyInit, NoPage
<1>2. Len(<<>>) = 0 /\ ToSet(<<>>) = {} /\ Increasing(<<>>)
  BY NothingKept
<1>3. Ordered(<<>>, <<>>, <<>>)
  BY <1>2 DEF Ordered
<1>4. Carried(<<>>) = {} /\ KeysOf({}) = {}
  <2>1. \A k : k \notin Carried(<<>>) /\ k \notin KeysOf({})
    BY <1>2, CarriedAre, KeysAre
  <2> QED
    BY <2>1
<1>5. Divide({}, {}, {}, {}, {}, 1..0)
  BY DEF Divide
<1>6. KeyTypes
  BY SocketInit DEF SocketInv
<1> QED
  BY <1>1, <1>2, <1>3, <1>4, <1>5, <1>6 DEF KeysInv, Shut

\* Every step keeps the key invariant.
LEMMA KeysNext ==
  ASSUME KeysInv, Shut, KeyTypes', [KeyNext]_keyVars PROVE KeysInv'
<1>1. CASE UNCHANGED keyVars
  BY <1>1 DEF keyVars, KeysInv
<1>2. CASE KeyDown \/ FlushDue \/ Render \/ OpenPage \/ QuitPage
  BY <1>2, KeyDownKept, FlushesKept, OpenPageKept, QuitPageKept
<1>3. CASE Connect \/ LoseConnection \/ GiveUpConnecting \/ CloseTab
  BY <1>3, ConnectKept, LosesKept, GiveUpKept
<1>4. ASSUME NEW l \in 1..Len(links),
             ReceiveJoin(l) \/ ReceiveLeave(l) \/ ReceiveBatch(l) \/ StoreBatch(l) \/ StoreFails(l)
      PROVE  KeysInv'
  BY <1>4, TakesKept, ReceiveBatchKept, StoreBatchKept, StoreFailsKept
<1>5. ASSUME NEW l \in 1..Len(links), NEW n \in 1..Len(links[l].joins),
             BindSocket(l, n) \/ AnswerSuccess(l, n) \/ AnswerRefusal(l, n)
      PROVE  KeysInv'
  BY <1>5, JoinsKept
<1> QED
  BY <1>1, <1>2, <1>3, <1>4, <1>5 DEF KeyNext

\* The key invariant shows that each key typed is in exactly one place.
LEMMA Accounted ==
  ASSUME KeysInv PROVE KeysAccounted
<1> DEFINE A == ToSet(editor.buffer)
           B == UNION {KeysOf(Sent(l)) : l \in 1..Len(links)}
           C == KeysOf(ToSet(record))
           D == lost
           E == KeysOf(refused)
           places == <<A, B, C, D, E>>
<1>1. B = Carried(links)
  BY DEF Carried, Sent, SentIn
<1>2. Divide(A, B, C, D, E, 1..typed)
  BY <1>1 DEF KeysInv
<1>3. SUFFICES /\ UNION ToSet(places) = 1..typed
               /\ \A i, j \in 1..Len(places) : i # j => places[i] \cap places[j] = {}
  BY DEF KeysAccounted
<1> HIDE DEF A, B, C, D, E
<1>4. /\ Len(places) = 5 /\ DOMAIN places = 1..5 /\ places[1] = A /\ places[2] = B
      /\ places[3] = C /\ places[4] = D /\ places[5] = E
  OBVIOUS
<1>5. \A i : i \in 1..5 <=> i \in {1, 2, 3, 4, 5}
  OBVIOUS
<1> HIDE DEF places
<1>6. \A p : p \in ToSet(places) <=> p \in {A, B, C, D, E}
  BY <1>4, <1>5 DEF ToSet
<1>7. UNION ToSet(places) = A \cup B \cup C \cup D \cup E
  BY <1>6
<1>8. \A i, j \in 1..Len(places) : i # j => places[i] \cap places[j] = {}
  <2> SUFFICES ASSUME NEW i \in {1, 2, 3, 4, 5}, NEW j \in {1, 2, 3, 4, 5}, i # j
               PROVE  places[i] \cap places[j] = {}
    BY <1>4, <1>5
  <2> QED
    BY <1>2, <1>4 DEF Divide
<1> QED
  BY <1>2, <1>7, <1>8 DEF Divide

\* What is bounded: keys and visits by the model, connections too, and the list of
\* batches by what LTRIM keeps.
KeyBounds ==
  /\ typed \in 0..MaxKeys /\ visits \in 0..MaxVisits
  /\ Len(links) <= MaxLinks /\ Len(record) <= MaxBatches

\* A step that makes no connection, key, visit or batch keeps the bounds.
LEMMA BoundsStay ==
  ASSUME KeyBounds, UNCHANGED <<typed, visits, record>>, Len(links') = Len(links)
  PROVE  KeyBounds'
BY DEF KeyBounds

\* What is sent over a connection makes none.
LEMMA SentOver == ASSUME KeyTypes, NEW m PROVE Len(Emit(links, m)) = Len(links)
BY DEF Emit, KeyTypes

\* Nor does a flush.
LEMMA FlushOver == ASSUME KeyTypes, NEW p, FlushKeys(p) PROVE Len(links') = Len(links)
BY SentOver DEF FlushKeys

\* Nor does the end of a connection.
LEMMA CutOver == ASSUME KeyTypes, NEW ks, CutLink(ks) PROVE Len(links') = Len(links)
<1>1. links \in Seq(Links)
  BY DEF KeyTypes
<1>2. ASSUME NEW w, links' = [links EXCEPT ![conn.at].wire = w] PROVE Len(links') = Len(links)
  BY <1>1, <1>2
<1> QED
  BY <1>2 DEF CutLink

\* Every step keeps the bounds.
LEMMA BoundsNext == ASSUME KeyTypes, KeyBounds, [KeyNext]_keyVars PROVE KeyBounds'
<1>1. links \in Seq(Links) /\ Len(links) \in Nat /\ record \in Seq(BatchMsgs)
  BY LenProperties DEF KeyTypes
<1>2. CASE UNCHANGED keyVars
  BY <1>2, BoundsStay DEF keyVars
<1>3. CASE KeyDown
  BY <1>3, KeyAssumption DEF KeyDown, KeyBounds
<1>4. CASE FlushDue \/ Render
  BY <1>4, FlushOver, BoundsStay DEF FlushDue, Render
<1>5. CASE OpenPage
  <2>1. Len(links') = Len(links)
    BY <1>5, SentOver DEF OpenPage
  <2> QED
    BY <1>5, <2>1, KeyAssumption DEF OpenPage, KeyBounds
<1>6. CASE QuitPage
  <2>1. Len(links') = Len(links)
    BY <1>6, SentOver DEF QuitPage
  <2> QED
    BY <1>6, <2>1, BoundsStay DEF QuitPage
<1>7. CASE Connect
  <2>1. Len(links') = Len(links) + 1 /\ Len(links) < MaxLinks
    BY <1>1, <1>7 DEF Connect
  <2> QED
    BY <1>1, <1>7, <2>1, KeyAssumption DEF Connect, KeyBounds
<1>8. CASE LoseConnection \/ CloseTab
  BY <1>8, CutOver, BoundsStay DEF LoseConnection, CloseTab
<1>9. CASE GiveUpConnecting
  BY <1>9, BoundsStay DEF GiveUpConnecting
<1>10. ASSUME NEW l \in 1..Len(links),
              \/ ReceiveJoin(l) \/ ReceiveLeave(l) \/ ReceiveBatch(l) \/ StoreFails(l)
              \/ \E n \in 1..Len(links[l].joins) :
                    BindSocket(l, n) \/ AnswerSuccess(l, n) \/ AnswerRefusal(l, n)
       PROVE  KeyBounds'
  <2>1. Len(links') = Len(links) /\ UNCHANGED <<typed, visits, record>>
    BY <1>1, <1>10 DEF ReceiveJoin, ReceiveLeave, ReceiveBatch, StoreFails, BindSocket,
       AnswerSuccess, AnswerRefusal, EndJoin
  <2> QED
    BY <2>1, BoundsStay
<1>11. ASSUME NEW l \in 1..Len(links), StoreBatch(l) PROVE KeyBounds'
  <2>1. Len(links') = Len(links) /\ UNCHANGED <<typed, visits>>
    BY <1>1, <1>11 DEF StoreBatch
  <2>2. PICK all : all = Append(record, Head(links[l].writes))
    OBVIOUS
  <2>3. Len(all) = Len(record) + 1 /\ Len(record) \in Nat
    BY <1>1, <2>2
  <2>4. record' = SubSeq(all, (IF Len(all) > MaxBatches THEN 1 ELSE 0) + 1, Len(all))
    BY <1>11, <2>2 DEF StoreBatch
  <2>5. Len(record') <= MaxBatches
    BY <2>3, <2>4, KeyAssumption DEF KeyBounds
  <2> QED
    BY <2>1, <2>5 DEF KeyBounds
<1> QED
  BY <1>2, <1>3, <1>4, <1>5, <1>6, <1>7, <1>8, <1>9, <1>10, <1>11 DEF KeyNext

\* What is always so of the keys.
KeyInv == SocketInv /\ KeysInv /\ Shut /\ KeyBounds

LEMMA KeyAlways == KeySpec => []KeyInv
<1>1. KeyInit => KeyInv
  <2>1. KeyInit => KeyBounds
    BY KeyAssumption DEF KeyInit, KeyBounds
  <2> QED
    BY <2>1, SocketInit, KeysInit DEF KeyInv
<1>2. KeyInv /\ [KeyNext]_keyVars => KeyInv'
  <2> SUFFICES ASSUME KeyInv, [KeyNext]_keyVars PROVE KeyInv'
    OBVIOUS
  <2>1. SocketInv /\ SocketInv'
    BY SocketNext DEF KeyInv
  <2>2. KeyTypes /\ KeyTypes'
    BY <2>1 DEF SocketInv
  <2> QED
    BY <2>1, <2>2, KeysNext, ShutNext, BoundsNext DEF KeyInv
<1> QED
  BY <1>1, <1>2, PTL DEF KeySpec

\* The page, its socket and the lists are of their types: the buffer has keys that were
\* pressed, and the list of batches no more than it keeps (keystrokeService.ts).
THEOREM KeyTypesAlways == KeySpec => []KeyTypeOK
<1>1. KeyInv => KeyTypeOK
  <2> SUFFICES ASSUME KeyInv PROVE KeyTypeOK
    OBVIOUS
  <2>1. KeyTypes /\ KeyBounds /\ ToSet(editor.buffer) \subseteq 1..typed
    BY DEF KeyInv, KeysInv, Divide
  <2>2. editor.buffer \in Seq(1..typed)
    <3>1. PICK b \in Seq(Nat) : b = editor.buffer
      BY <2>1 DEF KeyTypes
    <3>2. Len(b) \in Nat /\ b = [i \in 1..Len(b) |-> b[i]] /\ \A i \in 1..Len(b) : b[i] \in 1..typed
      BY <2>1, <3>1, SetIs
    <3>3. b \in [1..Len(b) -> 1..typed]
      BY <3>2
    <3>4. \A T : \A n \in Nat : \A f \in [1..n -> T] : f \in Seq(T)
      BY SeqDef
    <3> QED
      BY <3>1, <3>2, <3>3, <3>4
  <2>3. {0, visits} \subseteq 0..visits /\ {0, Len(links)} \subseteq 0..Len(links)
    BY <2>1, LenProperties DEF KeyTypes
  <2>4. editor \in [visit : 0..visits, connected : BOOLEAN, enabled : BOOLEAN,
                   buffer : Seq(1..typed)]
    BY <2>1, <2>2, <2>3 DEF KeyTypes
  <2>5. conn \in [at : 0..Len(links), made : BOOLEAN, pending : BOOLEAN, active : BOOLEAN,
                 rejoin : BOOLEAN, heard : BOOLEAN]
    BY <2>1, <2>3 DEF KeyTypes
  <2> QED
    BY <2>1, <2>4, <2>5 DEF KeyTypeOK, KeyBounds
<1> QED
  BY <1>1, KeyAlways, PTL

\* Keystrokes: every key that was pressed while the page records is in one place - the
\* page's buffer, on its way, in the record, refused, or lost in a way the code has -; no
\* batch is refused between the answer to attempt:join and attempt:leave of the connection
\* it went over; and the record is in the order of typing, but for batches of an earlier
\* connection stored after those of a later one.
THEOREM KeystrokesKeptAlways == KeySpec => []KeystrokesKept
<1>1. KeyInv => KeystrokesKept
  <2> SUFFICES ASSUME KeyInv PROVE KeystrokesKept
    OBVIOUS
  <2>1. KeysInv /\ SocketInv
    BY DEF KeyInv
  <2>2. RecordOrdered
    BY <2>1 DEF KeysInv, Ordered, Follows, Before, RecordOrdered
  <2>3. KeysAccounted
    BY <2>1, Accounted
  <2> QED
    BY <2>1, <2>2, <2>3 DEF KeystrokesKept, SocketInv
<1> QED
  BY <1>1, KeyAlways, PTL
=============
