---------------------------- MODULE SocketProofs ----------------------------
(***************************************************************************)
(* Theorems about ExamRoom, for any numbers of windows, sockets, joins and *)
(* mishaps: who is in the room of an attempt, whom its sessions keep out,  *)
(* and who hears it.                                                       *)
(***************************************************************************)
EXTENDS ExamRoom, FiniteSetTheorems, TLAPS

-----------------------------------------------------------------------------
(* The invariant of a room                                                 *)

\* What a handler of attempt:join and a window may hold, and every variable.
JoinRec == [at : {"none", "members", "check", "drop", "add", "room", "answer", "done"},
            sock : {0} \cup Numbers, todo : SUBSET Numbers, who : {0} \cup Numbers, ok : BOOLEAN]

Windowed == [page : BOOLEAN, link : {0} \cup Numbers, retry : BOOLEAN, pending : BOOLEAN,
             active : BOOLEAN, rejoin : {"new", "on", "off"}]

RoomTypes ==
  /\ browser \in [Windows -> Windowed] /\ joins \in [1..MaxJoins -> JoinRec]
  /\ opened \in 0..MaxSockets /\ sockets \subseteq 1..opened /\ room \subseteq sockets
  /\ keys \subseteq Numbers /\ roster \subseteq Numbers
  /\ doubtful \subseteq Numbers /\ untimely \subseteq Numbers

\* A window's link is a socket of its own, which the server has; without one made
\* by the page it has nothing.
LinksOK ==
  /\ \A w \in Windows : browser[w].link \in {0} \cup sockets
  /\ \A v, w \in Windows : browser[v].link = browser[w].link /\ v # w => browser[v].link = 0
  /\ \A w \in Windows : browser[w].rejoin = "new" =>
       browser[w].link = 0 /\ ~browser[w].retry /\ ~browser[w].active

\* A join under way is of a socket that the server has or that went meanwhile;
\* what it granted is in the room, unless the socket left or went.
JoinsOK ==
  \A n \in 1..MaxJoins :
    /\ Busy(n) => joins[n].sock \in 1..opened /\ joins[n].sock \in sockets \cup untimely
    /\ joins[n].ok => joins[n].at = "answer"
    /\ joins[n].ok => joins[n].sock \in room \cup untimely

Hearing ==
  \A w \in Windows :
    /\ browser[w].active /\ browser[w].link # 0 /\ browser[w].page =>
         browser[w].link \in room \/ Joining(browser[w].link) \/ browser[w].rejoin = "off"
    /\ \A n \in 1..MaxJoins :
         joins[n].ok /\ browser[w].link = joins[n].sock =>
           browser[w].link \in room \/ browser[w].rejoin = "off"

\* A session that keeps others out is of a socket in the room, or is about to
\* get there, is being removed, or is left for one of the reasons.
Blocking ==
  \A s \in keys \cap roster :
    \/ s \in room \/ Removing(s) \/ s \in untimely
    \/ \E n \in 1..MaxJoins : joins[n].sock = s /\ joins[n].at \in {"add", "room"}

\* The sockets whose sessions can be relied on.
Sure == sockets \ doubtful

\* Their sessions last; no two join at a time, nor while one is removed.
SessionsLast ==
  /\ \A s \in room \cap Sure : s \in keys \cap roster /\ ~Removing(s)
  /\ \A n \in 1..MaxJoins : Busy(n) /\ joins[n].sock \in Sure =>
       /\ ~Removing(joins[n].sock)
       /\ joins[n].at \in {"add", "room"} => joins[n].sock \in keys
       /\ joins[n].at = "room" => joins[n].sock \in roster
       /\ \A m \in 1..MaxJoins : Busy(m) => m = n

\* A join still has to look at the sessions of the others in the room, and two
\* sockets of which both can be relied on are not there.
OthersSeen ==
  \A n \in 1..MaxJoins : \A u \in room \cap Sure :
    joins[n].sock \in Sure /\ joins[n].sock # u =>
      /\ joins[n].at \notin {"add", "room"}
      /\ joins[n].at \in {"check", "drop"} => u \in joins[n].todo
      /\ joins[n].at = "drop" => u # joins[n].who
SoleSure == \A s, u \in room \cap Sure : s = u

RoomInv == /\ RoomTypes /\ LinksOK /\ JoinsOK /\ Hearing /\ Blocking
           /\ SessionsLast /\ OthersSeen /\ SoleSure

ServerInv == JoinsOK /\ Blocking /\ SessionsLast /\ OthersSeen /\ SoleSure

\* The rest of what a step may leave as it was.
LEMMA BrowserOnly ==
  ASSUME RoomInv, UNCHANGED <<opened, sockets, room, joins, removals, keys, roster,
                              doubtful, untimely>>
  PROVE  ServerInv'
BY DEF RoomInv, ServerInv, JoinsOK, Blocking, SessionsLast, OthersSeen, SoleSure, Sure,
       Busy, Removing

\* A join that goes from one command to another.
LEMMA JoinMoves ==
  ASSUME RoomTypes, NEW n \in 1..MaxJoins, NEW r \in JoinRec, Step(n, r),
         Busy(n), r.at \notin {"none", "done"}, r.sock = joins[n].sock
  PROVE  /\ joins' \in [1..MaxJoins -> JoinRec] /\ joins'[n] = r
         /\ \A m \in 1..MaxJoins : m # n => joins'[m] = joins[m]
         /\ \A m \in 1..MaxJoins : (Busy(m)' <=> Busy(m)) /\ joins'[m].sock = joins[m].sock
         /\ \A s : Joining(s)' <=> Joining(s)
<1>1. /\ joins' = [joins EXCEPT ![n] = r] /\ joins \in [1..MaxJoins -> JoinRec]
      /\ joins' \in [1..MaxJoins -> JoinRec]
  BY DEF Step, RoomTypes
<1>2. joins'[n] = r /\ \A m \in 1..MaxJoins : m # n => joins'[m] = joins[m]
  BY <1>1
<1>3. \A m \in 1..MaxJoins : (Busy(m)' <=> Busy(m)) /\ joins'[m].sock = joins[m].sock
  BY <1>2 DEF Busy
<1>4. \A s : Joining(s)' <=> Joining(s)
  BY <1>3 DEF Joining
<1> QED
  BY <1>1, <1>2, <1>3, <1>4

\* Hearing while the browser stays and the room grows.
LEMMA HearingStays ==
  ASSUME Hearing, UNCHANGED browser, room \subseteq room', \A s : Joining(s) => Joining(s)',
         \A n \in 1..MaxJoins : joins'[n].ok => joins[n].ok /\ joins'[n].sock = joins[n].sock
  PROVE  Hearing'
BY DEF Hearing

\* A page that opens or a connection that is made joins the room.
LEMMA SendJoinKeeps ==
  ASSUME RoomInv, NEW s \in Numbers, SendJoin(s), s \in sockets', s \in 1..opened',
         sockets \subseteq sockets', sockets' \subseteq sockets \cup {opened + 1},
         opened' \in {opened, opened + 1},
         UNCHANGED <<room, removals, keys, roster, untimely>>
  PROVE  /\ joins' \in [1..MaxJoins -> JoinRec] /\ doubtful' \subseteq Numbers
         /\ ServerInv' /\ Joining(s)' /\ \A u : Joining(u) => Joining(u)'
         /\ \A n \in 1..MaxJoins : joins'[n].ok => joins[n].ok /\ joins'[n].sock = joins[n].sock
<1>0. /\ RoomTypes /\ LinksOK /\ JoinsOK /\ Hearing /\ Blocking
      /\ SessionsLast /\ OthersSeen /\ SoleSure
      /\ joins \in [1..MaxJoins -> JoinRec] /\ doubtful \subseteq Numbers /\ opened \in Nat
      /\ \A n \in 1..MaxJoins : joins[n].sock \in {0} \cup Numbers
  BY DEF RoomInv, RoomTypes, JoinRec
<1>1. PICK n \in 1..MaxJoins :
        /\ joins[n].at = "none"
        /\ joins' = [joins EXCEPT ![n] = [NoJoin EXCEPT !.at = "members", !.sock = s]]
        /\ doubtful' = doubtful
             \cup (IF Removing(s) \/ \E k \in 1..MaxJoins : Busy(k)
                   THEN {s} \cup {joins[k].sock : k \in {m \in 1..MaxJoins : Busy(m)}}
                   ELSE {})
  BY DEF SendJoin
<1> DEFINE r == [NoJoin EXCEPT !.at = "members", !.sock = s]
<1>2. r \in JoinRec /\ r.at = "members" /\ r.sock = s /\ r.ok = FALSE
  BY DEF NoJoin, JoinRec
<1> HIDE DEF r
<1>3. /\ joins' \in [1..MaxJoins -> JoinRec] /\ joins'[n] = r
      /\ \A m \in 1..MaxJoins : m # n => joins'[m] = joins[m]
  BY <1>0, <1>1, <1>2 DEF r
<1>4. \A m \in 1..MaxJoins : IF m = n THEN ~Busy(m) /\ Busy(m)' ELSE Busy(m)' <=> Busy(m)
  BY <1>1, <1>2, <1>3 DEF Busy
<1>5. Joining(s)' /\ \A u : Joining(u) => Joining(u)'
  BY <1>2, <1>3, <1>4 DEF Joining
<1>6. /\ doubtful \subseteq doubtful' /\ doubtful' \subseteq Numbers
      /\ Removing(s) => s \in doubtful'
      /\ \A k \in 1..MaxJoins : Busy(k) => joins[k].sock \in doubtful' /\ s \in doubtful'
  <2>1. \A k \in 1..MaxJoins : Busy(k) => joins[k].sock \in Numbers
    BY <1>0 DEF JoinsOK, RoomTypes, Numbers
  <2> QED
    BY <1>0, <1>1, <2>1
<1>7. \A m \in 1..MaxJoins : joins'[m].ok => joins[m].ok /\ joins'[m].sock = joins[m].sock
  BY <1>2, <1>3
<1>8. JoinsOK'
  BY <1>0, <1>2, <1>3, <1>4 DEF JoinsOK
<1>9. Blocking'
  BY <1>0, <1>1, <1>3 DEF Blocking, Removing
<1>10. room \cap Sure' \subseteq room \cap Sure
  BY <1>0, <1>6 DEF Sure, RoomTypes
<1>11. SessionsLast'
  <2>1. \A u \in room \cap Sure' : u \in keys \cap roster /\ ~Removing(u)'
    BY <1>0, <1>10 DEF SessionsLast, Removing
  <2>2. \A m \in 1..MaxJoins : Busy(m)' /\ joins'[m].sock \in Sure' =>
          m = n /\ ~Removing(s) /\ \A k \in 1..MaxJoins : Busy(k)' => k = n
    BY <1>2, <1>3, <1>4, <1>6 DEF Sure
  <2> QED
    BY <1>2, <1>3, <2>1, <2>2 DEF SessionsLast, Removing
<1>12. OthersSeen'
  <2> SUFFICES ASSUME NEW m \in 1..MaxJoins, NEW u \in room \cap Sure',
                      joins'[m].sock \in Sure', joins'[m].sock # u
               PROVE  /\ joins'[m].at \notin {"add", "room"}
                      /\ joins'[m].at \in {"check", "drop"} => u \in joins'[m].todo
                      /\ joins'[m].at = "drop" => u # joins'[m].who
    BY DEF OthersSeen
  <2>1. CASE m = n
    BY <1>2, <1>3, <2>1
  <2>2. CASE m # n /\ ~Busy(m)
    BY <1>3, <2>2 DEF Busy
  <2>3. CASE m # n /\ Busy(m)
    BY <1>3, <1>6, <2>3 DEF Sure
  <2> QED
    BY <2>1, <2>2, <2>3
<1>13. SoleSure'
  BY <1>0, <1>10 DEF SoleSure
<1> QED
  BY <1>3, <1>5, <1>6, <1>7, <1>8, <1>9, <1>11, <1>12, <1>13 DEF ServerInv

(* The windows                                                             *)

\* What a window that changes leaves of the others.
LEMMA WindowMoves ==
  ASSUME RoomTypes, NEW w \in Windows, NEW r \in Windowed, Update(w, r)
  PROVE  /\ browser' \in [Windows -> Windowed] /\ browser'[w] = r
         /\ \A v \in Windows : v # w => browser'[v] = browser[v]
BY DEF RoomTypes, Update

\* A window without a link, or with the one it had, and a page that is not
\* counted as active if it was not.
LEMMA WindowKeeps ==
  ASSUME RoomInv, NEW w \in Windows, NEW r \in Windowed, Update(w, r),
         r.link \in {0, browser[w].link}, r.active => browser[w].active,
         r.rejoin = "new" => r.link = 0 /\ ~r.retry /\ ~r.active,
         browser[w].rejoin = "off" => r.rejoin = "off" \/ r.link = 0,
         r.page => browser[w].page \/ r.link = 0 \/ Joining(r.link)',
         sockets \subseteq sockets', room \subseteq room', \A s : Joining(s) => Joining(s)',
         \A n \in 1..MaxJoins : joins'[n].ok => joins[n].ok /\ joins'[n].sock = joins[n].sock
  PROVE  browser' \in [Windows -> Windowed] /\ LinksOK' /\ Hearing'
<1>1. /\ browser' \in [Windows -> Windowed] /\ browser'[w] = r
      /\ \A v \in Windows : v # w => browser'[v] = browser[v]
      /\ LinksOK /\ Hearing
  BY WindowMoves DEF RoomInv
<1>2. LinksOK'
  BY <1>1 DEF LinksOK
<1>3. Hearing'
  <2>1. ASSUME NEW v \in Windows, browser'[v].active, browser'[v].link # 0, browser'[v].page
        PROVE  \/ browser'[v].link \in room' \/ browser'[v].rejoin = "off"
               \/ \E s : s = browser'[v].link /\ Joining(s)'
    BY <1>1, <2>1 DEF Hearing
  <2>2. ASSUME NEW v \in Windows, NEW n \in 1..MaxJoins, joins'[n].ok,
               browser'[v].link = joins'[n].sock
        PROVE  browser'[v].link \in room' \/ browser'[v].rejoin = "off" \/ browser'[v].link = 0
    BY <1>1, <2>2 DEF Hearing
  <2>3. \A n \in 1..MaxJoins : joins'[n].ok => joins'[n].sock # 0
    BY DEF RoomInv, JoinsOK, Busy, RoomTypes
  <2>4. \A v \in Windows : (\E s : s = browser'[v].link /\ Joining(s)')
           => (Joining(browser[v].link))'
    BY DEF Joining
  <2> QED
    BY <2>1, <2>2, <2>3, <2>4 DEF Hearing
<1> QED
  BY <1>1, <1>2, <1>3

LEMMA MountKeeps == ASSUME RoomInv, NEW w \in Windows, Mount(w) PROVE RoomInv'
<1>0. RoomTypes /\ LinksOK /\ browser[w] \in Windowed /\ opened \in Nat /\ opened <= MaxSockets
  BY DEF RoomInv, RoomTypes
<1>1. CASE browser[w].link # 0
  <2> DEFINE r == [browser[w] EXCEPT !.page = TRUE]
  <2>1. /\ Update(w, r) /\ SendJoin(browser[w].link) /\ ~browser[w].page
        /\ UNCHANGED <<opened, sockets, room, removals, keys, roster, mishaps, untimely>>
    BY <1>1 DEF Mount, server, redis
  <2>2. r \in Windowed /\ r.link = browser[w].link /\ r.active = browser[w].active
        /\ r.rejoin = browser[w].rejoin /\ r.retry = browser[w].retry
    BY <1>0 DEF Windowed
  <2>3. browser[w].link \in Numbers /\ browser[w].link \in sockets
        /\ browser[w].link \in 1..opened
    <3>1. browser[w].link \in sockets /\ sockets \subseteq 1..opened
      BY <1>0, <1>1 DEF LinksOK, RoomTypes
    <3>2. 1..opened \subseteq Numbers
      BY <1>0, RoomAssumption DEF Numbers
    <3> QED
      BY <3>1, <3>2
  <2>4. PICK s \in Numbers : s = browser[w].link
    BY <2>3
  <2> HIDE DEF r
  <2>5. /\ joins' \in [1..MaxJoins -> JoinRec] /\ doubtful' \subseteq Numbers
        /\ ServerInv' /\ Joining(s)' /\ \A u : Joining(u) => Joining(u)'
        /\ \A n \in 1..MaxJoins : joins'[n].ok => joins[n].ok /\ joins'[n].sock = joins[n].sock
    BY <2>1, <2>3, <2>4, SendJoinKeeps
  <2>6. PICK q \in Windowed : q = r
    BY <2>2
  <2>7. Update(w, q) /\ Joining(q.link)'
    BY <2>1, <2>2, <2>4, <2>5, <2>6
  <2>8. browser' \in [Windows -> Windowed] /\ LinksOK' /\ Hearing'
    BY <1>0, <2>1, <2>2, <2>5, <2>6, <2>7, WindowKeeps DEF LinksOK
  <2> QED
    BY <1>0, <2>1, <2>5, <2>8 DEF RoomInv, ServerInv, RoomTypes
<1>2. CASE browser[w].link = 0
  <2> DEFINE r == [browser[w] EXCEPT !.page = TRUE, !.pending = TRUE, !.retry = TRUE,
                                     !.rejoin = IF @ = "new" THEN "on" ELSE @]
  <2>1. Update(w, r) /\ UNCHANGED <<opened, sockets, room, joins, removals, keys, roster,
                                    doubtful, untimely>>
    BY <1>2 DEF Mount, server, redis, pasts
  <2>2. r \in Windowed /\ r.link = 0 /\ r.active = browser[w].active /\ r.rejoin # "new"
    BY <1>0, <1>2 DEF Windowed
  <2> HIDE DEF r
  <2>3. browser' \in [Windows -> Windowed] /\ LinksOK' /\ Hearing'
    BY <2>1, <2>2, WindowKeeps DEF Joining, Busy
  <2> QED
    BY <1>0, <2>1, <2>3, BrowserOnly DEF RoomInv, ServerInv, RoomTypes
<1> QED
  BY <1>1, <1>2

LEMMA ConnectedKeeps == ASSUME RoomInv, NEW w \in Windows, Connected(w) PROVE RoomInv'
<1>0. /\ RoomTypes /\ LinksOK /\ JoinsOK /\ Hearing /\ browser[w] \in Windowed
      /\ opened \in Nat /\ opened <= MaxSockets /\ sockets \subseteq 1..opened
      /\ room \subseteq sockets /\ browser \in [Windows -> Windowed]
      /\ browser[w].link = 0 /\ browser[w].retry
  BY DEF RoomInv, RoomTypes, Connected
<1> DEFINE s == opened + 1
           r == [browser[w] EXCEPT !.link = s, !.pending = FALSE]
<1>1. /\ s \in Numbers /\ opened' = s /\ sockets' = sockets \cup {s}
      /\ Update(w, r) /\ UNCHANGED <<room, removals, keys, roster, mishaps>>
      /\ IF browser[w].pending \/ (browser[w].rejoin = "on" /\ browser[w].active)
         THEN SendJoin(s) /\ UNCHANGED untimely
         ELSE UNCHANGED <<joins, doubtful, untimely>>
  BY DEF Connected, redis, pasts
<1>2. /\ r \in Windowed /\ r.link = s /\ r.page = browser[w].page
      /\ r.active = browser[w].active /\ r.rejoin = browser[w].rejoin
      /\ s # 0 /\ s \notin sockets /\ s \in 1..opened' /\ opened' \in 0..MaxSockets
  <2>1. /\ s # 0 /\ s \notin sockets /\ s \in 1..opened' /\ opened' \in 0..MaxSockets
    BY <1>0, <1>1, RoomAssumption DEF Numbers
  <2>2. s \in Numbers
    BY <1>1
  <2> HIDE DEF s
  <2> QED
    BY <1>0, <2>1, <2>2 DEF Windowed
<1>3. PICK q \in Numbers : q = s
  BY <1>1
<1>4. PICK b \in Windowed : b = r
  BY <1>2
<1> HIDE DEF r, s
<1>5. /\ joins' \in [1..MaxJoins -> JoinRec] /\ doubtful' \subseteq Numbers
      /\ ServerInv' /\ \A u : Joining(u) => Joining(u)'
      /\ \A n \in 1..MaxJoins : joins'[n].ok => joins[n].ok /\ joins'[n].sock = joins[n].sock
      /\ browser[w].active => Joining(q)' \/ browser[w].rejoin # "on"
  <2>1. CASE browser[w].pending \/ (browser[w].rejoin = "on" /\ browser[w].active)
    <3>1. SendJoin(q) /\ q \in sockets' /\ q \in 1..opened' /\ opened' \in {opened, opened + 1}
          /\ sockets \subseteq sockets' /\ sockets' \subseteq sockets \cup {opened + 1}
      BY <1>1, <1>2, <1>3, <2>1 DEF s
    <3> QED
      BY <1>1, <2>1, <3>1, SendJoinKeeps
  <2>2. CASE ~(browser[w].pending \/ (browser[w].rejoin = "on" /\ browser[w].active))
    <3>1. UNCHANGED <<joins, doubtful, untimely, room, removals, keys, roster>>
      BY <1>1, <2>2
    <3>2. /\ room \cap Sure' = room \cap Sure
          /\ \A n \in 1..MaxJoins : Busy(n) /\ joins[n].sock \in Sure' => joins[n].sock \in Sure
      <4>1. Sure' = (sockets \cup {s}) \ doubtful /\ s = opened + 1
        BY <1>1, <3>1 DEF Sure, s
      <4>2. \A n \in 1..MaxJoins : Busy(n) => joins[n].sock # s
        BY <1>0, <4>1 DEF JoinsOK
      <4> QED
        BY <1>0, <1>2, <4>1, <4>2 DEF Sure
    <3>3. JoinsOK'
      BY <1>0, <1>1, <3>1 DEF JoinsOK, Busy, s
    <3>4. SessionsLast' /\ OthersSeen' /\ SoleSure'
      <4>1. SessionsLast /\ OthersSeen /\ SoleSure
        BY DEF RoomInv
      <4>2. SessionsLast'
        BY <3>1, <3>2, <4>1 DEF SessionsLast, Busy, Removing
      <4>3. OthersSeen'
        BY <3>1, <3>2, <4>1 DEF OthersSeen, Busy
      <4>4. SoleSure'
        BY <3>1, <3>2, <4>1 DEF SoleSure
      <4> QED
        BY <4>2, <4>3, <4>4
    <3>5. Blocking'
      BY <3>1 DEF Blocking, RoomInv, Removing
    <3> QED
      BY <1>0, <2>2, <3>1, <3>3, <3>4, <3>5 DEF ServerInv, Joining, Busy, RoomTypes
  <2> QED
    BY <2>1, <2>2
<1>6. browser' \in [Windows -> Windowed] /\ browser'[w] = b
      /\ \A v \in Windows : v # w => browser'[v] = browser[v]
  BY <1>0, <1>1, <1>4, WindowMoves
<1>7. LinksOK'
  BY <1>0, <1>1, <1>2, <1>4, <1>6 DEF LinksOK
<1>8. Hearing'
  <2>1. \A n \in 1..MaxJoins : joins'[n].ok => joins'[n].sock # q
    BY <1>0, <1>3, <1>5 DEF JoinsOK, Busy, s
  <2>2. \A n \in 1..MaxJoins : joins'[n].ok /\ browser'[w].link = joins'[n].sock => FALSE
    BY <1>2, <1>3, <1>4, <1>6, <2>1
  <2>3. browser'[w].active => Joining(q)' \/ browser'[w].rejoin = "off"
    BY <1>0, <1>2, <1>4, <1>5, <1>6 DEF LinksOK, Windowed
  <2>4. browser'[w].link = q
    BY <1>2, <1>3, <1>4, <1>6
  <2>5. browser'[w].active => (Joining(browser[w].link))' \/ browser'[w].rejoin = "off"
    BY <2>3, <2>4 DEF Joining
  <2>6. \A v \in Windows : v # w =>
          /\ browser'[v] = browser[v]
          /\ Joining(browser[v].link) => (Joining(browser[v].link))'
    BY <1>5, <1>6 DEF Joining
  <2> QED
    BY <1>0, <1>1, <1>5, <2>2, <2>5, <2>6 DEF Hearing
<1>9. sockets' \subseteq 1..opened'
  BY <1>0, <1>1 DEF s
<1>10. RoomTypes'
  BY <1>0, <1>1, <1>2, <1>5, <1>6, <1>9 DEF RoomTypes
<1> QED
  BY <1>5, <1>7, <1>8, <1>10 DEF RoomInv, ServerInv

\* A page that is closed, a connection that breaks or fails, a new token.
LEMMA WindowsKeep ==
  ASSUME RoomInv, NEW w \in Windows,
         ConnectFails(w) \/ LinkLost(w) \/ CloseWindow(w) \/ TokenChanged(w)
  PROVE  RoomInv'
<1>0. /\ RoomTypes /\ LinksOK /\ browser[w] \in Windowed
      /\ UNCHANGED <<opened, sockets, room, joins, removals, keys, roster, doubtful, untimely>>
  BY DEF RoomInv, RoomTypes, ConnectFails, LinkLost, CloseWindow, TokenChanged, server, redis, pasts
<1>1. \E r \in Windowed :
        /\ Update(w, r) /\ r.link \in {0, browser[w].link}
        /\ r.active => browser[w].active
        /\ r.rejoin = "new" => r.link = 0 /\ ~r.retry /\ ~r.active
        /\ browser[w].rejoin = "off" => r.rejoin = "off" \/ r.link = 0
        /\ r.page => browser[w].page
  <2>1. CASE ConnectFails(w)
    <3> DEFINE r == [browser[w] EXCEPT !.pending = FALSE, !.active = FALSE]
    <3>1. r \in Windowed /\ Update(w, r) /\ r.link = browser[w].link /\ ~r.active
          /\ r.rejoin = browser[w].rejoin /\ r.retry = browser[w].retry /\ r.page = browser[w].page
      BY <1>0, <2>1 DEF ConnectFails, Windowed
    <3> HIDE DEF r
    <3> QED
      BY <1>0, <3>1 DEF LinksOK
  <2>2. CASE LinkLost(w)
    <3> DEFINE r == [browser[w] EXCEPT !.link = 0, !.retry = TRUE]
    <3>1. r \in Windowed /\ Update(w, r) /\ r.link = 0 /\ r.active = browser[w].active
          /\ r.rejoin = browser[w].rejoin /\ r.page = browser[w].page
      BY <1>0, <2>2 DEF LinkLost, Windowed
    <3>2. browser[w].link # 0
      BY <2>2 DEF LinkLost
    <3> HIDE DEF r
    <3> QED
      BY <1>0, <3>1, <3>2 DEF LinksOK
  <2>3. CASE CloseWindow(w)
    <3>1. Closed \in Windowed /\ Update(w, Closed) /\ Closed.link = 0 /\ ~Closed.active
          /\ ~Closed.page /\ ~Closed.retry
      BY <2>3 DEF CloseWindow, Closed, Windowed
    <3> QED
      BY <3>1
  <2>4. CASE TokenChanged(w)
    <3> DEFINE r == [browser[w] EXCEPT !.retry = TRUE]
    <3>1. r \in Windowed /\ Update(w, r) /\ r.link = browser[w].link
          /\ r.active = browser[w].active /\ browser[w].active
          /\ r.rejoin = browser[w].rejoin /\ r.page = browser[w].page
      BY <1>0, <2>4 DEF TokenChanged, Windowed
    <3> HIDE DEF r
    <3> QED
      BY <1>0, <3>1 DEF LinksOK
  <2> QED
    BY <2>1, <2>2, <2>3, <2>4
<1>2. \A s : Joining(s)' <=> Joining(s)
  BY <1>0 DEF Joining, Busy
<1>3. browser' \in [Windows -> Windowed] /\ LinksOK' /\ Hearing'
  <2>1. PICK r \in Windowed :
          /\ Update(w, r) /\ r.link \in {0, browser[w].link}
          /\ r.active => browser[w].active
          /\ r.rejoin = "new" => r.link = 0 /\ ~r.retry /\ ~r.active
          /\ browser[w].rejoin = "off" => r.rejoin = "off" \/ r.link = 0
          /\ r.page => browser[w].page
    BY <1>1
  <2>2. sockets \subseteq sockets' /\ room \subseteq room'
        /\ \A n \in 1..MaxJoins : joins'[n].ok => joins[n].ok /\ joins'[n].sock = joins[n].sock
    BY <1>0
  <2>3. \A s : Joining(s) => Joining(s)'
    BY <1>2
  <2> QED
    BY <2>1, <2>2, <2>3, WindowKeeps
<1> QED
  BY <1>0, <1>3, BrowserOnly DEF RoomInv, ServerInv, RoomTypes

\* A socket goes.
LEMMA DisconnectKeeps ==
  ASSUME RoomInv, NEW s \in sockets, Disconnect(s), UNCHANGED <<opened, joins, keys, roster>>
  PROVE  /\ ServerInv' /\ sockets' = sockets \ {s} /\ room' = room \ {s}
         /\ doubtful' \subseteq Numbers /\ untimely' \subseteq Numbers /\ room' \subseteq sockets'
         /\ \A u : Joining(u)' <=> Joining(u)
<1>0. /\ RoomTypes /\ JoinsOK /\ Blocking /\ SessionsLast /\ OthersSeen /\ SoleSure
      /\ sockets' = sockets \ {s} /\ room' = room \ {s} /\ doubtful' = doubtful \ {s}
      /\ removals' = (IF s \in room THEN removals \cup {<<s, "srem">>} ELSE removals)
      /\ untimely' = untimely \cup {u \in {s} : Joining(u)}
      /\ room \subseteq sockets /\ doubtful \subseteq Numbers /\ untimely \subseteq Numbers
  BY DEF RoomInv, Disconnect, RoomTypes
<1>1. s \in Numbers
  BY <1>0, RoomAssumption DEF RoomTypes, Numbers
<1>2. Sure' = Sure \ {s}
  BY <1>0 DEF Sure
<1>3. /\ \A n \in 1..MaxJoins : Busy(n)' <=> Busy(n)
      /\ \A u : Joining(u)' <=> Joining(u)
  BY DEF Busy, Joining
<1>4. \A u : u # s => (Removing(u)' <=> Removing(u))
  BY <1>0 DEF Removing
<1>5. Removing(s) => Removing(s)'
  BY <1>0 DEF Removing
<1>6. s \in room => Removing(s)'
  <2>1. s \in room => <<s, "srem">> \in removals'
    BY <1>0
  <2>2. <<s, "srem">>[1] = s
    OBVIOUS
  <2> QED
    BY <2>1, <2>2 DEF Removing
<1>7. Joining(s) => s \in untimely'
  BY <1>0
<1>8. JoinsOK'
  <2>1. \A n \in 1..MaxJoins : joins[n].sock = s /\ Busy(n) => s \in untimely'
    BY <1>7 DEF Joining
  <2>2. \A n \in 1..MaxJoins : joins[n].ok => Busy(n)
    BY <1>0 DEF JoinsOK, Busy
  <2> QED
    BY <1>0, <1>3, <2>1, <2>2 DEF JoinsOK
<1>9. Blocking'
  <2> SUFFICES ASSUME NEW u \in keys \cap roster
               PROVE  \/ u \in room' \/ Removing(u)' \/ u \in untimely'
                      \/ \E n \in 1..MaxJoins : joins[n].sock = u /\ joins[n].at \in {"add", "room"}
    BY DEF Blocking
  <2>1. CASE u = s
    BY <1>0, <1>5, <1>6, <2>1 DEF Blocking
  <2>2. CASE u # s
    BY <1>0, <1>4, <2>2 DEF Blocking
  <2> QED
    BY <2>1, <2>2
<1>10. SessionsLast'
  BY <1>0, <1>2, <1>3, <1>4 DEF SessionsLast
<1>11. OthersSeen'
  BY <1>0, <1>2 DEF OthersSeen
<1>12. SoleSure'
  BY <1>0, <1>2 DEF SoleSure
<1> QED
  BY <1>0, <1>1, <1>3, <1>8, <1>9, <1>10, <1>11, <1>12 DEF ServerInv

LEMMA NoticeKeeps == ASSUME RoomInv, NEW s \in Numbers, Notice(s) PROVE RoomInv'
<1>1. /\ s \in sockets /\ \A w \in Windows : browser[w].link # s
      /\ Disconnect(s) /\ UNCHANGED <<browser, opened, joins, keys, roster>>
      /\ RoomTypes /\ LinksOK /\ Hearing
  BY DEF Notice, redis, RoomInv
<1>2. /\ ServerInv' /\ sockets' = sockets \ {s} /\ room' = room \ {s}
      /\ doubtful' \subseteq Numbers /\ untimely' \subseteq Numbers /\ room' \subseteq sockets'
      /\ \A u : Joining(u)' <=> Joining(u)
  BY <1>1, DisconnectKeeps
<1>3. LinksOK'
  BY <1>1, <1>2 DEF LinksOK
<1>4. Hearing'
  <2>1. \A w \in Windows : (Joining(browser[w].link))' <=> Joining(browser[w].link)
    BY <1>1 DEF Joining, Busy
  <2> QED
    BY <1>1, <1>2, <2>1 DEF Hearing
<1>5. RoomTypes'
  BY <1>1, <1>2 DEF RoomTypes
<1> QED
  BY <1>2, <1>3, <1>4, <1>5 DEF RoomInv, ServerInv

LEMMA EvictKeeps == ASSUME RoomInv, NEW w \in Windows, Evict(w) PROVE RoomInv'
<1> DEFINE r == [browser[w] EXCEPT !.link = 0, !.retry = FALSE]
<1>1. /\ browser[w].link \in sockets
      /\ Disconnect(browser[w].link) /\ Update(w, r) /\ UNCHANGED <<opened, joins, keys, roster>>
      /\ RoomTypes /\ LinksOK /\ Hearing /\ JoinsOK /\ browser[w] \in Windowed
  BY DEF Evict, redis, RoomInv, RoomTypes
<1>2. PICK s \in sockets : s = browser[w].link
  BY <1>1
<1>3. s # 0
  BY <1>1 DEF RoomTypes
<1>4. /\ r \in Windowed /\ r.link = 0 /\ r.active = browser[w].active
      /\ r.page = browser[w].page /\ r.rejoin = browser[w].rejoin /\ r.rejoin # "new"
  BY <1>1, <1>2, <1>3 DEF Windowed, LinksOK
<1> HIDE DEF r
<1>5. /\ browser' \in [Windows -> Windowed] /\ browser'[w] = r
      /\ \A v \in Windows : v # w => browser'[v] = browser[v]
  BY <1>1, <1>4 DEF RoomTypes, Update
<1>6. /\ ServerInv' /\ sockets' = sockets \ {s} /\ room' = room \ {s}
      /\ doubtful' \subseteq Numbers /\ untimely' \subseteq Numbers /\ room' \subseteq sockets'
      /\ \A u : Joining(u)' <=> Joining(u)
  BY <1>1, <1>2, DisconnectKeeps
<1>7. \A v \in Windows : v # w => browser[v].link # s
  BY <1>1, <1>2, <1>3 DEF LinksOK
<1>8. LinksOK'
  BY <1>1, <1>4, <1>5, <1>6, <1>7 DEF LinksOK
<1>9. Hearing'
  <2>1. \A v \in Windows : v # w => ((Joining(browser[v].link))' <=> Joining(browser[v].link))
    BY <1>1, <1>5 DEF Joining, Busy
  <2>2. \A n \in 1..MaxJoins : joins[n].ok => joins[n].sock # 0
    BY <1>1 DEF JoinsOK, Busy
  <2>3. /\ browser'[w].link = 0
        /\ \A v \in Windows : v # w => browser'[v] = browser[v] /\ browser[v].link # s
    BY <1>4, <1>5, <1>7
  <2> QED
    BY <1>1, <1>6, <2>1, <2>2, <2>3 DEF Hearing
<1>10. RoomTypes'
  BY <1>1, <1>5, <1>6 DEF RoomTypes
<1> QED
  BY <1>6, <1>8, <1>9, <1>10 DEF RoomInv, ServerInv

LEMMA UnmountKeeps == ASSUME RoomInv, NEW w \in Windows, Unmount(w) PROVE RoomInv'
<1> DEFINE s == browser[w].link
           r == [browser[w] EXCEPT !.page = FALSE, !.pending = FALSE, !.active = FALSE,
                                   !.rejoin = "off"]
<1>1. /\ Update(w, r) /\ UNCHANGED <<opened, sockets, joins, keys, roster>>
      /\ RoomTypes /\ LinksOK /\ Hearing /\ JoinsOK /\ Blocking
      /\ SessionsLast /\ OthersSeen /\ SoleSure /\ browser[w] \in Windowed
      /\ IF s \in sockets
         THEN /\ room' = room \ {s} /\ removals' = removals \cup {<<s, "srem">>}
              /\ untimely' = untimely \cup {u \in {s} : Joining(u)}
              /\ doubtful' = doubtful \cup {u \in {s} : Joining(u)}
         ELSE UNCHANGED <<room, removals, doubtful, untimely>>
  BY DEF Unmount, redis, RoomInv, RoomTypes, pasts
<1>2. r \in Windowed /\ r.link = s /\ ~r.active /\ r.rejoin = "off"
  BY <1>1 DEF Windowed
<1>3. PICK k : k = s
  OBVIOUS
<1>4. PICK b \in Windowed : b = r
  BY <1>2
<1> HIDE DEF r, s
<1>5. /\ browser' \in [Windows -> Windowed] /\ browser'[w] = b
      /\ \A v \in Windows : v # w => browser'[v] = browser[v]
  BY <1>1, <1>4, WindowMoves
<1>6. b.link = k /\ ~b.active /\ b.rejoin = "off" /\ browser[w].link = k
  BY <1>2, <1>3, <1>4 DEF s
<1>7. LinksOK'
  BY <1>1, <1>5, <1>6 DEF LinksOK
<1>8. /\ room' \subseteq room /\ doubtful \subseteq doubtful' /\ untimely \subseteq untimely'
      /\ \A v \in Windows : v # w => (browser[v].link \in room' <=> browser[v].link \in room)
      /\ \A u : u # k => (Removing(u)' <=> Removing(u)) /\ (u \in room' <=> u \in room)
      /\ \A u : Removing(u) => Removing(u)'
      /\ k \in room => Removing(k)'
      /\ k \in sockets => k \notin room'
  <2>1. k = s
    BY <1>3
  <2>2. \A v \in Windows : v # w => browser[v].link # k \/ k = 0
    BY <1>1, <1>6 DEF LinksOK
  <2>3. 0 \notin room /\ room \subseteq sockets
    BY <1>1 DEF RoomTypes
  <2>4. k \in sockets => <<k, "srem">> \in removals'
    BY <1>1, <2>1
  <2>5. <<k, "srem">>[1] = k
    OBVIOUS
  <2>6. removals \subseteq removals' /\ removals' \subseteq removals \cup {<<k, "srem">>}
    BY <1>1, <2>1
  <2>7. \A u : u # k => (Removing(u)' <=> Removing(u))
    BY <2>5, <2>6 DEF Removing
  <2>8. \A u : Removing(u) => Removing(u)'
    BY <2>6 DEF Removing
  <2>9. k \in room => Removing(k)'
    BY <2>3, <2>4, <2>5 DEF Removing
  <2>10. /\ room' \subseteq room /\ doubtful \subseteq doubtful' /\ untimely \subseteq untimely'
         /\ \A u : u # k => (u \in room' <=> u \in room)
         /\ k \in sockets => k \notin room'
         /\ k = 0 => room' = room
    BY <1>1, <2>1, <2>3
  <2>11. \A v \in Windows : v # w => (browser[v].link \in room' <=> browser[v].link \in room)
    BY <2>2, <2>10
  <2> QED
    BY <2>7, <2>8, <2>9, <2>10, <2>11
<1>9. /\ \A n \in 1..MaxJoins : (Busy(n)' <=> Busy(n)) /\ joins'[n] = joins[n]
      /\ \A u : Joining(u)' <=> Joining(u)
      /\ \A v \in Windows : v # w => ((Joining(browser[v].link))' <=> Joining(browser[v].link))
  BY <1>1, <1>5 DEF Busy, Joining
<1>10. k \in sockets /\ Joining(k) => k \in untimely' /\ k \in doubtful'
  BY <1>1, <1>3
<1>11. Sure' \subseteq Sure
  BY <1>1, <1>8 DEF Sure
<1>12. Hearing'
  <2>1. \A v \in Windows : v # w => browser'[v] = browser[v]
             /\ (browser[v].link \in room' <=> browser[v].link \in room)
    BY <1>5, <1>8
  <2>2. ~browser'[w].active /\ browser'[w].rejoin = "off"
    BY <1>5, <1>6
  <2> QED
    BY <1>1, <1>9, <2>1, <2>2 DEF Hearing
<1>13. JoinsOK'
  <2>1. \A n \in 1..MaxJoins : joins[n].ok => Busy(n)
    BY <1>1 DEF JoinsOK, Busy
  <2>2. \A n \in 1..MaxJoins : joins[n].ok /\ joins[n].sock = k /\ k \in sockets => k \in untimely'
    BY <1>10, <2>1 DEF Joining
  <2>3. k \notin sockets => room' = room
    BY <1>1, <1>3
  <2> QED
    BY <1>1, <1>8, <1>9, <2>2, <2>3 DEF JoinsOK
<1>14. Blocking'
  BY <1>1, <1>8, <1>9 DEF Blocking
<1>15. SessionsLast'
  <2>1. k \in sockets \/ \A u : Removing(u)' <=> Removing(u)
    BY <1>1, <1>3 DEF Removing
  <2>2. \A u \in room' : k \in sockets => u # k
    BY <1>8
  <2>3. \A n \in 1..MaxJoins : Busy(n) /\ joins[n].sock = k /\ k \in sockets => k \in doubtful'
    BY <1>10 DEF Joining
  <2>4. \A n \in 1..MaxJoins : Busy(n) /\ joins[n].sock \in Sure' =>
           (Removing(joins[n].sock) <=> (\E x \in removals' : x[1] = joins[n].sock))
    BY <1>8, <2>1, <2>3 DEF Sure, Removing
  <2>5. \A u \in room' : Removing(u)' <=> Removing(u)
    BY <1>8, <2>1, <2>2
  <2> QED
    BY <1>1, <1>8, <1>9, <1>11, <2>4, <2>5 DEF SessionsLast, Removing
<1>16. OthersSeen'
  BY <1>1, <1>8, <1>9, <1>11 DEF OthersSeen
<1>17. SoleSure'
  BY <1>1, <1>8, <1>11 DEF SoleSure
<1>18. RoomTypes'
  <2>1. k \in sockets => k \in Numbers
    BY <1>1, RoomAssumption DEF RoomTypes, Numbers
  <2>2. doubtful' \subseteq Numbers /\ untimely' \subseteq Numbers
    BY <1>1, <1>3, <2>1 DEF RoomTypes
  <2> QED
    BY <1>1, <1>5, <1>8, <2>2 DEF RoomTypes
<1> QED
  BY <1>7, <1>12, <1>13, <1>14, <1>15, <1>16, <1>17, <1>18 DEF RoomInv

\* A replica dies with its sockets and what it was doing for them.
LEMMA ReplicaKeeps ==
  ASSUME RoomInv, NEW S \in SUBSET Numbers, ReplicaDies(S) PROVE RoomInv'
<1> DEFINE gone == [NoJoin EXCEPT !.at = "done"]
           cut(w) == [browser[w] EXCEPT !.link = 0, !.retry = TRUE]
           J(n) == IF joins[n].sock \in S THEN gone ELSE joins[n]
           B(w) == IF browser[w].link \in S THEN cut(w) ELSE browser[w]
<1>1. /\ RoomTypes /\ LinksOK /\ Hearing /\ JoinsOK /\ Blocking
      /\ SessionsLast /\ OthersSeen /\ SoleSure
      /\ S \subseteq 1..opened /\ sockets' = sockets \ S /\ room' = room \ S
      /\ doubtful' = doubtful \ S
      /\ UNCHANGED <<opened, keys, roster>>
  BY Zenon DEF ReplicaDies, RoomInv, redis
<1>u. /\ untimely \subseteq untimely' /\ untimely' \subseteq untimely \cup S
      /\ \A u \in S : u \in sockets \/ Joining(u) \/ Removing(u) => u \in untimely'
  BY DEF ReplicaDies
<1>2. gone \in JoinRec /\ gone.at = "done" /\ ~gone.ok
  BY DEF NoJoin, JoinRec
<1>a. joins' = [n \in 1..MaxJoins |-> J(n)] /\ browser' = [w \in Windows |-> B(w)]
  BY Zenon DEF ReplicaDies
<1>b. \A x : x \in removals' <=> x \in removals /\ x[1] \notin S
  BY Zenon DEF ReplicaDies
<1>c. \A w \in Windows : cut(w) \in Windowed /\ cut(w).link = 0
                         /\ cut(w).rejoin = browser[w].rejoin
  <2>1. \A w \in Windows : browser[w] \in Windowed
    BY <1>1 DEF RoomTypes
  <2> QED
    BY <2>1 DEF Windowed
<1> HIDE DEF gone, cut
<1>d. /\ \A n \in 1..MaxJoins : /\ joins[n].sock \in S => J(n) = gone
                                /\ joins[n].sock \notin S => J(n) = joins[n]
      /\ \A w \in Windows : /\ browser[w].link \in S => B(w) = cut(w)
                            /\ browser[w].link \notin S => B(w) = browser[w]
  OBVIOUS
<1> HIDE DEF J, B
<1>e. /\ \A n \in 1..MaxJoins : joins'[n] = J(n)
      /\ \A w \in Windows : browser'[w] = B(w)
  BY <1>a, Zenon
<1>f. joins \in [1..MaxJoins -> JoinRec] /\ browser \in [Windows -> Windowed]
  BY <1>1 DEF RoomTypes
<1>g. (\A n \in 1..MaxJoins : J(n) \in JoinRec) /\ (\A w \in Windows : B(w) \in Windowed)
  BY <1>2, <1>c, <1>d, <1>f
<1>3. /\ joins' \in [1..MaxJoins -> JoinRec]
      /\ \A n \in 1..MaxJoins : /\ joins[n].sock \in S => joins'[n] = gone
                                /\ joins[n].sock \notin S => joins'[n] = joins[n]
  BY <1>a, <1>d, <1>e, <1>g
<1>4. \A n \in 1..MaxJoins : Busy(n)' => Busy(n) /\ joins'[n] = joins[n] /\ joins[n].sock \notin S
  BY <1>2, <1>3 DEF Busy
<1>5. \A u : u \notin S => (Removing(u)' <=> Removing(u))
  BY <1>b DEF Removing
<1>6. \A u : u \notin S => (Joining(u)' <=> Joining(u))
  BY <1>2, <1>3 DEF Joining, Busy
<1>7. /\ browser' \in [Windows -> Windowed]
      /\ \A w \in Windows : /\ browser[w].link \in S => browser'[w].link = 0
                            /\ browser[w].link \notin S => browser'[w] = browser[w]
                            /\ browser'[w].rejoin = browser[w].rejoin
  BY <1>a, <1>c, <1>d, <1>e, <1>g
<1>8. 0 \notin S /\ Sure' = Sure \ S
  BY <1>1 DEF Sure
<1>9. LinksOK'
  <2>1. \A w \in Windows : browser'[w].link \in {0} \cup sockets'
    BY <1>1, <1>7 DEF LinksOK
  <2>2. \A v, w \in Windows : browser'[v].link = browser'[w].link /\ v # w => browser'[v].link = 0
    BY <1>1, <1>7 DEF LinksOK
  <2>3. \A w \in Windows : browser'[w].rejoin = "new" =>
          browser[w].link = 0 /\ browser'[w] = browser[w]
    BY <1>1, <1>7, <1>8 DEF LinksOK
  <2> QED
    BY <1>1, <2>1, <2>2, <2>3 DEF LinksOK
<1>10. JoinsOK'
  BY <1>1, <1>u, <1>2, <1>3, <1>4 DEF JoinsOK
<1>11. Hearing'
  <2>1. \A w \in Windows : browser'[w].link # 0 =>
           /\ browser'[w] = browser[w] /\ browser[w].link \notin S
           /\ (Joining(browser[w].link))' <=> Joining(browser[w].link)
    <3>1. \A w \in Windows : browser'[w].link # 0 =>
             browser'[w] = browser[w] /\ browser[w].link \notin S
      BY <1>7
    <3>2. ASSUME NEW w \in Windows, browser'[w].link # 0
          PROVE  (Joining(browser[w].link))' <=> Joining(browser[w].link)
      <4>1. PICK k : k = browser[w].link
        OBVIOUS
      <4>2. browser'[w].link = k /\ k \notin S /\ (Joining(k)' <=> Joining(k))
        BY <1>6, <3>1, <3>2, <4>1
      <4> QED
        BY <4>1, <4>2 DEF Joining
    <3> QED
      BY <3>1, <3>2
  <2>2. \A n \in 1..MaxJoins : joins'[n].ok => joins'[n] = joins[n] /\ joins[n].sock # 0
    BY <1>1, <1>2, <1>3 DEF JoinsOK, Busy
  <2> QED
    BY <1>1, <2>1, <2>2 DEF Hearing
<1>12. Blocking'
  <2> SUFFICES ASSUME NEW u \in keys \cap roster
               PROVE  \/ u \in room' \/ Removing(u)' \/ u \in untimely'
                      \/ \E n \in 1..MaxJoins : joins'[n].sock = u /\ joins'[n].at \in {"add", "room"}
    BY <1>1 DEF Blocking
  <2>1. CASE u \in S
    <3>1. u \in sockets \/ Joining(u) \/ Removing(u) \/ u \in untimely
      BY <1>1 DEF Blocking, Joining, Busy, RoomTypes
    <3> QED
      BY <1>u, <2>1, <3>1
  <2>2. CASE u \notin S
    BY <1>1, <1>u, <1>3, <1>5, <2>2 DEF Blocking
  <2> QED
    BY <2>1, <2>2
<1>13. SessionsLast'
  BY <1>1, <1>4, <1>5, <1>8 DEF SessionsLast
<1>14. OthersSeen'
  BY <1>1, <1>2, <1>3, <1>8 DEF OthersSeen
<1>15. SoleSure'
  BY <1>1, <1>8 DEF SoleSure
<1>16. RoomTypes'
  BY <1>1, <1>u, <1>3, <1>7 DEF RoomTypes
<1> QED
  BY <1>9, <1>10, <1>11, <1>12, <1>13, <1>14, <1>15, <1>16 DEF RoomInv

(* The session is removed, or expires                                      *)

\* What is left when a session lapses.
LEMMA LapseKeeps ==
  ASSUME RoomInv, UNCHANGED <<browser, opened, sockets, room, joins>>,
         untimely \subseteq untimely', untimely' \subseteq Numbers,
         \A u : Removing(u)' => Removing(u),
         \A u : Removing(u) =>
              Removing(u)' \/ u \notin keys' \cap roster' \/ u \in untimely',
         keys' \subseteq keys, roster' \subseteq roster,
         doubtful \subseteq doubtful', doubtful' \subseteq Numbers,
         \A u \in Numbers : u \in keys \cap roster /\ u \notin keys' \cap roster' =>
              Removing(u) \/ (~Joining(u) /\ (u \in room => u \in doubtful')),
         \A u \in Numbers : (u \in keys /\ u \notin keys') \/ (u \in roster /\ u \notin roster') =>
              Removing(u) \/ ~Joining(u)
  PROVE  RoomInv'
<1>1. /\ RoomTypes /\ LinksOK /\ Hearing /\ JoinsOK /\ Blocking
      /\ SessionsLast /\ OthersSeen /\ SoleSure
  BY DEF RoomInv
<1>2. \A n \in 1..MaxJoins : Busy(n)' <=> Busy(n)
  BY DEF Busy
<1>3. Sure' \subseteq Sure /\ Sure \subseteq Numbers
  BY <1>1, RoomAssumption DEF Sure, RoomTypes, Numbers
<1>4. RoomTypes'
  BY <1>1 DEF RoomTypes
<1>5. LinksOK' /\ JoinsOK'
  BY <1>1, <1>2 DEF LinksOK, JoinsOK
<1>6. Hearing'
  BY <1>1 DEF Hearing, Joining, Busy
<1>7. Blocking'
  BY <1>1 DEF Blocking
<1>8. SessionsLast'
  <2>1. ASSUME NEW u \in room \cap Sure'
        PROVE  u \in keys' \cap roster' /\ ~Removing(u)'
    <3>1. u \in keys \cap roster /\ ~Removing(u) /\ u \in Numbers /\ u \notin doubtful'
      BY <1>1, <1>3 DEF SessionsLast, Sure
    <3> QED
      BY <3>1
  <2>2. ASSUME NEW n \in 1..MaxJoins, Busy(n), joins[n].sock \in Sure'
        PROVE  /\ ~(\E x \in removals' : x[1] = joins[n].sock)
               /\ joins[n].at \in {"add", "room"} => joins[n].sock \in keys'
               /\ joins[n].at = "room" => joins[n].sock \in roster'
    <3>1. PICK k : k = joins[n].sock
      OBVIOUS
    <3>2. /\ k \in Sure /\ k \in Numbers /\ ~Removing(k) /\ Joining(k)
          /\ joins[n].at \in {"add", "room"} => k \in keys
          /\ joins[n].at = "room" => k \in roster
      BY <1>1, <1>3, <2>2, <3>1 DEF SessionsLast, Joining
    <3>3. ~Removing(k)' /\ (k \in keys => k \in keys') /\ (k \in roster => k \in roster')
      BY <3>2
    <3> QED
      BY <3>1, <3>2, <3>3 DEF Removing
  <2> QED
    BY <1>1, <1>2, <1>3, <2>1, <2>2 DEF SessionsLast, Removing
<1>9. OthersSeen'
  BY <1>1, <1>3 DEF OthersSeen
<1>10. SoleSure'
  BY <1>1, <1>3 DEF SoleSure
<1> QED
  BY <1>1, <1>4, <1>5, <1>6, <1>7, <1>8, <1>9, <1>10 DEF RoomInv

LEMMA RemovalsKeep ==
  ASSUME RoomInv, NEW s \in Numbers, RemoveEntry(s) \/ RemoveKey(s) \/ RemovalFails(s)
  PROVE  RoomInv'
<1>0. RoomTypes
  BY DEF RoomInv
<1>1. CASE RemoveEntry(s)
  <2>1. /\ UNCHANGED <<browser, opened, sockets, room, joins, untimely, doubtful, keys>>
        /\ <<s, "srem">> \in removals /\ roster' = roster \ {s}
        /\ removals' = (removals \ {<<s, "srem">>}) \cup {<<s, "del">>}
    BY <1>1 DEF RemoveEntry, server, pasts
  <2>2. <<s, "srem">>[1] = s /\ <<s, "del">>[1] = s
    OBVIOUS
  <2>3. \A u : Removing(u)' => Removing(u)
    BY <2>1, <2>2 DEF Removing
  <2>4. Removing(s)' /\ Removing(s)
    BY <2>1, <2>2 DEF Removing
  <2>5. \A u : u # s /\ Removing(u) => Removing(u)'
    BY <2>1, <2>2 DEF Removing
  <2>6. \A u : Removing(u) => Removing(u)' \/ u \notin keys' \cap roster'
    BY <2>4, <2>5
  <2> QED
    BY <1>0, <2>1, <2>3, <2>4, <2>6, LapseKeeps DEF RoomTypes
<1>2. CASE RemoveKey(s)
  <2>1. /\ UNCHANGED <<browser, opened, sockets, room, joins, untimely, doubtful, roster>>
        /\ <<s, "del">> \in removals /\ keys' = keys \ {s}
        /\ removals' = removals \ {<<s, "del">>}
    BY <1>2 DEF RemoveKey, server, pasts
  <2>2. <<s, "del">>[1] = s
    OBVIOUS
  <2>3. /\ \A u : Removing(u)' => Removing(u)
        /\ Removing(s)
    BY <2>1, <2>2 DEF Removing
  <2>4. \A u : u # s /\ Removing(u) => Removing(u)'
    BY <2>1, <2>2 DEF Removing
  <2>5. \A u : Removing(u) => Removing(u)' \/ u \notin keys' \cap roster'
    BY <2>1, <2>4
  <2> QED
    BY <1>0, <2>1, <2>3, <2>5, LapseKeeps DEF RoomTypes
<1>3. CASE RemovalFails(s)
  <2>1. /\ UNCHANGED <<browser, opened, sockets, room, joins, keys, roster, doubtful>>
        /\ untimely' = untimely \cup {s}
    BY <1>3 DEF RemovalFails, server, redis
  <2>2. PICK next \in {"srem", "del"} : removals' = removals \ {<<s, next>>}
    BY <1>3 DEF RemovalFails
  <2>3. <<s, next>>[1] = s
    OBVIOUS
  <2>4. \A u : Removing(u)' => Removing(u)
    BY <2>2 DEF Removing
  <2>5. \A u : u # s /\ Removing(u) => Removing(u)'
    BY <2>2, <2>3 DEF Removing
  <2>6. \A u : Removing(u) => Removing(u)' \/ u \in untimely'
    BY <2>1, <2>5
  <2> QED
    BY <1>0, <2>1, <2>4, <2>6, LapseKeeps DEF RoomTypes
<1> QED
  BY <1>1, <1>2, <1>3

LEMMA ExpiriesKeep ==
  ASSUME RoomInv, RosterExpires \/ \E s \in Numbers : KeyExpires(s) PROVE RoomInv'
<1>0. RoomTypes
  BY DEF RoomInv
<1>1. CASE \E s \in Numbers : KeyExpires(s)
  <2>1. PICK s \in Numbers : KeyExpires(s)
    BY <1>1
  <2>2. /\ UNCHANGED <<browser, opened, sockets, room, joins, removals, untimely, roster>>
        /\ ~Joining(s) /\ keys' = keys \ {s} /\ doubtful' = doubtful \cup ({s} \cap room)
    BY <2>1 DEF KeyExpires, server
  <2>3. \A u : Removing(u)' <=> Removing(u)
    BY <2>2 DEF Removing
  <2> QED
    BY <1>0, <2>2, <2>3, LapseKeeps DEF RoomTypes
<1>2. CASE RosterExpires
  <2>1. /\ UNCHANGED <<browser, opened, sockets, room, joins, removals, untimely>>
        /\ \A s \in Numbers : ~Joining(s)
        /\ roster' = {} /\ keys' \in SUBSET keys
        /\ doubtful' = doubtful \cup (roster \cap room)
    BY <1>2 DEF RosterExpires, server
  <2>2. \A u : Removing(u)' <=> Removing(u)
    BY <2>1 DEF Removing
  <2> QED
    BY <1>0, <2>1, <2>2, LapseKeeps DEF RoomTypes
<1> QED
  BY <1>1, <1>2


(* The commands of a join                                                  *)

\* What a join that goes on leaves of the windows.
LEMMA JoinKeeps ==
  ASSUME RoomInv, NEW n \in 1..MaxJoins, NEW r \in JoinRec, Step(n, r),
         Busy(n), r.at \notin {"none", "done"}, r.sock = joins[n].sock,
         r.ok => r.at = "answer",
         r.ok => r.sock \notin sockets \/ r.sock \in room',
         UNCHANGED <<browser, opened, sockets, removals>>,
         room \subseteq room', untimely \subseteq untimely'
  PROVE  /\ joins' \in [1..MaxJoins -> JoinRec] /\ LinksOK' /\ JoinsOK' /\ Hearing'
         /\ joins'[n] = r /\ joins[n].sock \in Numbers
         /\ joins[n].sock \in sockets \cup untimely
         /\ \A m \in 1..MaxJoins : m # n => joins'[m] = joins[m]
         /\ \A m \in 1..MaxJoins : (Busy(m)' <=> Busy(m)) /\ joins'[m].sock = joins[m].sock
         /\ \A u : Removing(u)' <=> Removing(u)
<1>1. RoomTypes /\ LinksOK /\ JoinsOK /\ Hearing
  BY DEF RoomInv
<1>2. /\ joins' \in [1..MaxJoins -> JoinRec] /\ joins'[n] = r
      /\ \A m \in 1..MaxJoins : m # n => joins'[m] = joins[m]
      /\ \A m \in 1..MaxJoins : (Busy(m)' <=> Busy(m)) /\ joins'[m].sock = joins[m].sock
      /\ \A s : Joining(s)' <=> Joining(s)
  BY <1>1, JoinMoves
<1>3. LinksOK'
  BY <1>1 DEF LinksOK
<1>4. joins[n].sock \in 1..opened /\ joins[n].sock \in sockets \cup untimely
  BY <1>1 DEF JoinsOK
<1>5. joins[n].sock \in Numbers /\ joins[n].sock # 0
  BY <1>1, <1>4, RoomAssumption DEF RoomTypes, Numbers
<1>6. JoinsOK'
  BY <1>1, <1>2, <1>4 DEF JoinsOK
<1>7. Hearing'
  <2>1. ASSUME NEW w \in Windows, r.ok, browser[w].link = r.sock
        PROVE  browser[w].link \in room'
    BY <1>1, <1>5, <2>1 DEF LinksOK
  <2>2. \A w \in Windows : (Joining(browser[w].link))' <=> Joining(browser[w].link)
    BY <1>2 DEF Joining, Busy
  <2> QED
    BY <1>1, <1>2, <2>1, <2>2 DEF Hearing
<1> QED
  BY <1>2, <1>3, <1>4, <1>5, <1>6, <1>7 DEF Removing

\* A join that looks on, or is refused.
LEMMA ReadRosterKeeps ==
  ASSUME RoomInv, NEW n \in 1..MaxJoins, ReadRoster(n) PROVE RoomInv'
<1>1. /\ RoomTypes /\ JoinsOK /\ Blocking /\ SessionsLast /\ OthersSeen /\ SoleSure
      /\ joins[n] \in JoinRec /\ joins[n].at = "members" /\ ~joins[n].ok /\ Busy(n)
      /\ UNCHANGED <<browser, opened, sockets, room, removals, keys, roster, doubtful, untimely>>
  BY DEF RoomInv, ReadRoster, server, redis, pasts, RoomTypes, JoinsOK, Busy
<1> DEFINE looks == [joins[n] EXCEPT !.at = "check", !.todo = roster \ {joins[n].sock}]
           refused == [joins[n] EXCEPT !.at = "answer"]
<1>2. /\ looks \in JoinRec /\ looks.at = "check" /\ looks.sock = joins[n].sock
      /\ looks.todo = roster \ {joins[n].sock} /\ ~looks.ok
      /\ refused \in JoinRec /\ refused.at = "answer" /\ refused.sock = joins[n].sock /\ ~refused.ok
  BY <1>1 DEF JoinRec, RoomTypes
<1>3. Step(n, looks) \/ Step(n, refused)
  BY DEF ReadRoster
<1> HIDE DEF looks, refused
<1>4. PICK r \in JoinRec : Step(n, r) /\ r \in {looks, refused}
  BY <1>2, <1>3
<1>5. /\ r.sock = joins[n].sock /\ ~r.ok /\ r.at \in {"check", "answer"}
      /\ r.at = "check" => r.todo = roster \ {joins[n].sock}
  BY <1>2, <1>4
<1>6. /\ joins' \in [1..MaxJoins -> JoinRec] /\ LinksOK' /\ JoinsOK' /\ Hearing'
      /\ joins'[n] = r /\ joins[n].sock \in Numbers
      /\ \A m \in 1..MaxJoins : m # n => joins'[m] = joins[m]
      /\ \A m \in 1..MaxJoins : (Busy(m)' <=> Busy(m)) /\ joins'[m].sock = joins[m].sock
      /\ \A u : Removing(u)' <=> Removing(u)
  BY <1>1, <1>4, <1>5, JoinKeeps
<1>7. Blocking'
  BY <1>1, <1>6 DEF Blocking
<1>8. SessionsLast'
  BY <1>1, <1>5, <1>6 DEF SessionsLast, Sure, Removing
<1>9. OthersSeen' /\ SoleSure'
  BY <1>1, <1>5, <1>6 DEF OthersSeen, SessionsLast, SoleSure, Sure
<1>10. RoomTypes'
  BY <1>1, <1>6 DEF RoomTypes
<1> QED
  BY <1>6, <1>7, <1>8, <1>9, <1>10 DEF RoomInv

LEMMA CheckSessionKeeps ==
  ASSUME RoomInv, NEW n \in 1..MaxJoins, CheckSession(n) PROVE RoomInv'
<1>1. /\ RoomTypes /\ JoinsOK /\ Blocking /\ SessionsLast /\ OthersSeen /\ SoleSure
      /\ joins[n] \in JoinRec /\ joins[n].at = "check" /\ ~joins[n].ok /\ Busy(n)
      /\ UNCHANGED <<browser, opened, sockets, room, removals, keys, roster, doubtful, untimely>>
  BY DEF RoomInv, CheckSession, server, redis, pasts, RoomTypes, JoinsOK, Busy
<1>2. PICK v \in joins[n].todo :
        Step(n, IF v \in keys THEN [joins[n] EXCEPT !.at = "answer", !.todo = {}]
                ELSE [joins[n] EXCEPT !.at = "drop", !.who = v, !.todo = @ \ {v}])
  BY Zenon DEF CheckSession
<1> DEFINE drops == [joins[n] EXCEPT !.at = "drop", !.who = v, !.todo = @ \ {v}]
           refused == [joins[n] EXCEPT !.at = "answer", !.todo = {}]
<1>3. /\ drops \in JoinRec /\ drops.at = "drop" /\ drops.sock = joins[n].sock
      /\ drops.todo = joins[n].todo \ {v} /\ drops.who = v /\ ~drops.ok
      /\ refused \in JoinRec /\ refused.at = "answer" /\ refused.sock = joins[n].sock /\ ~refused.ok
  BY <1>1 DEF JoinRec
<1>4. \/ v \in keys /\ Step(n, refused)
      \/ v \notin keys /\ Step(n, drops)
  BY <1>2
<1> HIDE DEF drops, refused
<1>5. PICK r \in JoinRec : Step(n, r) /\ (r = refused \/ (r = drops /\ v \notin keys))
  BY <1>3, <1>4
<1>6. /\ r.sock = joins[n].sock /\ ~r.ok /\ r.at \in {"drop", "answer"}
      /\ r.at = "drop" => r.todo = joins[n].todo \ {v} /\ r.who = v /\ v \notin keys
  BY <1>3, <1>5
<1>7. /\ joins' \in [1..MaxJoins -> JoinRec] /\ LinksOK' /\ JoinsOK' /\ Hearing'
      /\ joins'[n] = r /\ joins[n].sock \in Numbers
      /\ \A m \in 1..MaxJoins : m # n => joins'[m] = joins[m]
      /\ \A m \in 1..MaxJoins : (Busy(m)' <=> Busy(m)) /\ joins'[m].sock = joins[m].sock
      /\ \A u : Removing(u)' <=> Removing(u)
  BY <1>1, <1>5, <1>6, JoinKeeps
<1>8. Blocking'
  BY <1>1, <1>7 DEF Blocking
<1>9. SessionsLast'
  BY <1>1, <1>6, <1>7 DEF SessionsLast, Sure, Removing
<1>10. OthersSeen'
  <2> SUFFICES ASSUME NEW m \in 1..MaxJoins, NEW u \in room \cap Sure,
                      joins[m].sock \in Sure, joins[m].sock # u
               PROVE  /\ joins'[m].at \notin {"add", "room"}
                      /\ joins'[m].at \in {"check", "drop"} => u \in joins'[m].todo
                      /\ joins'[m].at = "drop" => u # joins'[m].who
    BY <1>1, <1>7 DEF OthersSeen, Sure
  <2>1. u \in keys
    BY <1>1 DEF SessionsLast
  <2>2. CASE m = n
    BY <1>1, <1>6, <1>7, <2>1, <2>2 DEF OthersSeen
  <2>3. CASE m # n
    BY <1>1, <1>7, <2>3 DEF OthersSeen
  <2> QED
    BY <2>2, <2>3
<1>11. SoleSure' /\ RoomTypes'
  BY <1>1, <1>7 DEF SoleSure, Sure, RoomTypes
<1> QED
  BY <1>7, <1>8, <1>9, <1>10, <1>11 DEF RoomInv

LEMMA DropEntryKeeps ==
  ASSUME RoomInv, NEW n \in 1..MaxJoins, DropEntry(n) PROVE RoomInv'
<1> DEFINE r == [joins[n] EXCEPT !.at = "check", !.who = 0]
<1>1. /\ RoomTypes /\ JoinsOK /\ Blocking /\ SessionsLast /\ OthersSeen /\ SoleSure
      /\ joins[n] \in JoinRec /\ joins[n].at = "drop" /\ ~joins[n].ok /\ Busy(n)
      /\ Step(n, r) /\ roster' = roster \ {joins[n].who}
      /\ doubtful' = doubtful \cup ({joins[n].who} \cap room)
      /\ UNCHANGED <<browser, opened, sockets, room, removals, keys, untimely>>
  BY DEF RoomInv, DropEntry, server, RoomTypes, JoinsOK, Busy
<1>2. r \in JoinRec /\ r.at = "check" /\ r.sock = joins[n].sock /\ r.todo = joins[n].todo /\ ~r.ok
  BY <1>1 DEF JoinRec
<1> HIDE DEF r
<1>3. PICK q \in JoinRec : q = r
  BY <1>2
<1>4. /\ joins' \in [1..MaxJoins -> JoinRec] /\ LinksOK' /\ JoinsOK' /\ Hearing'
      /\ joins'[n] = r /\ joins[n].sock \in Numbers
      /\ \A m \in 1..MaxJoins : m # n => joins'[m] = joins[m]
      /\ \A m \in 1..MaxJoins : (Busy(m)' <=> Busy(m)) /\ joins'[m].sock = joins[m].sock
      /\ \A u : Removing(u)' <=> Removing(u)
  BY <1>1, <1>2, <1>3, JoinKeeps
<1>5. Sure' \subseteq Sure /\ \A u \in room \cap Sure' : u # joins[n].who
  BY <1>1 DEF Sure
<1>6. Blocking'
  BY <1>1, <1>2, <1>4 DEF Blocking
<1>7. SessionsLast'
  <2>1. \A m \in 1..MaxJoins : Busy(m) /\ joins[m].sock \in Sure => m = n \/ ~Busy(n)
    BY <1>1 DEF SessionsLast
  <2> QED
    BY <1>1, <1>2, <1>4, <1>5, <2>1 DEF SessionsLast, Removing
<1>8. OthersSeen'
  BY <1>1, <1>2, <1>4, <1>5 DEF OthersSeen
<1>9. SoleSure'
  BY <1>1, <1>5 DEF SoleSure
<1>10. RoomTypes'
  <2>1. room \subseteq Numbers
    BY <1>1, RoomAssumption DEF RoomTypes, Numbers
  <2>2. doubtful' \subseteq Numbers
    BY <1>1, <2>1 DEF RoomTypes
  <2> QED
    BY <1>1, <1>4, <2>2 DEF RoomTypes
<1> QED
  BY <1>4, <1>6, <1>7, <1>8, <1>9, <1>10 DEF RoomInv

LEMMA StoreSessionKeeps ==
  ASSUME RoomInv, NEW n \in 1..MaxJoins, StoreSession(n) PROVE RoomInv'
<1> DEFINE r == [joins[n] EXCEPT !.at = "add"]
<1>1. /\ RoomTypes /\ JoinsOK /\ Blocking /\ SessionsLast /\ OthersSeen /\ SoleSure
      /\ joins[n] \in JoinRec /\ joins[n].at = "check" /\ joins[n].todo = {}
      /\ ~joins[n].ok /\ Busy(n)
      /\ Step(n, r) /\ keys' = keys \cup {joins[n].sock}
      /\ UNCHANGED <<browser, opened, sockets, room, removals, roster, doubtful, untimely>>
  BY DEF RoomInv, StoreSession, server, pasts, RoomTypes, JoinsOK, Busy
<1>2. r \in JoinRec /\ r.at = "add" /\ r.sock = joins[n].sock /\ ~r.ok
  BY <1>1 DEF JoinRec
<1> HIDE DEF r
<1>3. PICK q \in JoinRec : q = r
  BY <1>2
<1>4. /\ joins' \in [1..MaxJoins -> JoinRec] /\ LinksOK' /\ JoinsOK' /\ Hearing'
      /\ joins'[n] = r /\ joins[n].sock \in Numbers
      /\ \A m \in 1..MaxJoins : m # n => joins'[m] = joins[m]
      /\ \A m \in 1..MaxJoins : (Busy(m)' <=> Busy(m)) /\ joins'[m].sock = joins[m].sock
      /\ \A u : Removing(u)' <=> Removing(u)
  BY <1>1, <1>2, <1>3, JoinKeeps
<1>5. Blocking'
  <2>1. \A s \in keys' \cap roster' : s \in keys \cap roster \/ s = joins[n].sock
    BY <1>1
  <2> QED
    BY <1>1, <1>2, <1>4, <2>1 DEF Blocking
<1>6. SessionsLast'
  BY <1>1, <1>2, <1>4 DEF SessionsLast, Removing, Sure
<1>7. OthersSeen'
  BY <1>1, <1>2, <1>4 DEF OthersSeen, Sure
<1>8. SoleSure' /\ RoomTypes'
  BY <1>1, <1>4 DEF SoleSure, Sure, RoomTypes
<1> QED
  BY <1>4, <1>5, <1>6, <1>7, <1>8 DEF RoomInv

LEMMA AddToRosterKeeps ==
  ASSUME RoomInv, NEW n \in 1..MaxJoins, AddToRoster(n) PROVE RoomInv'
<1> DEFINE r == [joins[n] EXCEPT !.at = "room"]
<1>1. /\ RoomTypes /\ JoinsOK /\ Blocking /\ SessionsLast /\ OthersSeen /\ SoleSure
      /\ joins[n] \in JoinRec /\ joins[n].at = "add" /\ ~joins[n].ok /\ Busy(n)
      /\ Step(n, r) /\ roster' = roster \cup {joins[n].sock}
      /\ UNCHANGED <<browser, opened, sockets, room, removals, keys, doubtful, untimely>>
  BY DEF RoomInv, AddToRoster, server, pasts, RoomTypes, JoinsOK, Busy
<1>2. r \in JoinRec /\ r.at = "room" /\ r.sock = joins[n].sock /\ ~r.ok
  BY <1>1 DEF JoinRec
<1> HIDE DEF r
<1>3. PICK q \in JoinRec : q = r
  BY <1>2
<1>4. /\ joins' \in [1..MaxJoins -> JoinRec] /\ LinksOK' /\ JoinsOK' /\ Hearing'
      /\ joins'[n] = r /\ joins[n].sock \in Numbers
      /\ \A m \in 1..MaxJoins : m # n => joins'[m] = joins[m]
      /\ \A m \in 1..MaxJoins : (Busy(m)' <=> Busy(m)) /\ joins'[m].sock = joins[m].sock
      /\ \A u : Removing(u)' <=> Removing(u)
  BY <1>1, <1>2, <1>3, JoinKeeps
<1>5. Blocking'
  <2>1. \A s \in keys' \cap roster' : s \in keys \cap roster \/ s = joins[n].sock
    BY <1>1
  <2> QED
    BY <1>1, <1>2, <1>4, <2>1 DEF Blocking
<1>6. SessionsLast'
  BY <1>1, <1>2, <1>4 DEF SessionsLast, Removing, Sure
<1>7. OthersSeen'
  BY <1>1, <1>2, <1>4 DEF OthersSeen, Sure
<1>8. SoleSure' /\ RoomTypes'
  BY <1>1, <1>4 DEF SoleSure, Sure, RoomTypes
<1> QED
  BY <1>4, <1>5, <1>6, <1>7, <1>8 DEF RoomInv

\* The socket enters the room: it is the only one of those that can be relied on,
\* for its join has seen none of them.
LEMMA EnterRoomKeeps ==
  ASSUME RoomInv, NEW n \in 1..MaxJoins, EnterRoom(n) PROVE RoomInv'
<1> DEFINE granted == [joins[n] EXCEPT !.at = "answer", !.ok = TRUE]
           failed == [joins[n] EXCEPT !.at = "answer"]
<1>1. /\ RoomTypes /\ LinksOK /\ JoinsOK /\ Blocking /\ SessionsLast /\ OthersSeen /\ SoleSure
      /\ joins[n] \in JoinRec /\ joins[n].at = "room" /\ ~joins[n].ok /\ Busy(n)
      /\ room' = room \cup ({joins[n].sock} \cap sockets)
      /\ UNCHANGED <<browser, opened, sockets, removals, keys, roster, doubtful, untimely>>
      /\ Step(n, granted) \/ Step(n, failed)
  BY DEF RoomInv, EnterRoom, redis, pasts, RoomTypes, JoinsOK, Busy
<1>2. /\ granted \in JoinRec /\ granted.at = "answer" /\ granted.sock = joins[n].sock
      /\ failed \in JoinRec /\ failed.at = "answer" /\ failed.sock = joins[n].sock
  BY <1>1 DEF JoinRec
<1> HIDE DEF granted, failed
<1>3. PICK r \in JoinRec : Step(n, r) /\ r.at = "answer" /\ r.sock = joins[n].sock
  BY <1>1, <1>2
<1>4. PICK s : s = joins[n].sock
  OBVIOUS
<1>5. /\ room \subseteq room' /\ room' \subseteq sockets
      /\ \A u \in room' : u \in room \/ (u = s /\ s \in sockets)
      /\ s \in sockets => s \in room'
  BY <1>1, <1>4 DEF RoomTypes
<1>6. /\ joins' \in [1..MaxJoins -> JoinRec] /\ LinksOK' /\ JoinsOK' /\ Hearing'
      /\ joins'[n] = r /\ joins[n].sock \in Numbers
      /\ joins[n].sock \in sockets \cup untimely
      /\ \A m \in 1..MaxJoins : m # n => joins'[m] = joins[m]
      /\ \A m \in 1..MaxJoins : (Busy(m)' <=> Busy(m)) /\ joins'[m].sock = joins[m].sock
      /\ \A u : Removing(u)' <=> Removing(u)
  BY <1>1, <1>3, <1>4, <1>5, JoinKeeps
<1>7. Blocking'
  <2>1. s \in room' \/ s \in untimely
    BY <1>4, <1>5, <1>6
  <2>2. \A m \in 1..MaxJoins : joins[m].at \in {"add", "room"} =>
           joins'[m] = joins[m] \/ joins[m].sock = s
    BY <1>4, <1>6
  <2> QED
    BY <1>1, <1>5, <1>6, <2>1, <2>2 DEF Blocking
<1>8. Sure' = Sure /\ (s \in Sure => /\ s \in keys \cap roster /\ ~Removing(s)
                                     /\ \A m \in 1..MaxJoins : Busy(m) => m = n
                                     /\ \A u \in room \cap Sure : u = s)
  BY <1>1, <1>4 DEF SessionsLast, OthersSeen, Sure
<1>9. SessionsLast'
  BY <1>1, <1>3, <1>4, <1>5, <1>6, <1>8 DEF SessionsLast, Removing
<1>10. OthersSeen'
  <2> SUFFICES ASSUME NEW m \in 1..MaxJoins, NEW u \in room' \cap Sure,
                      joins[m].sock \in Sure, joins[m].sock # u
               PROVE  /\ joins'[m].at \notin {"add", "room"}
                      /\ joins'[m].at \in {"check", "drop"} => u \in joins'[m].todo
                      /\ joins'[m].at = "drop" => u # joins'[m].who
    BY <1>6, <1>8 DEF OthersSeen
  <2>1. CASE m = n
    BY <1>3, <1>6, <2>1
  <2>2. CASE m # n /\ u \in room
    BY <1>1, <1>6, <2>2 DEF OthersSeen
  <2>3. CASE m # n /\ u \notin room
    BY <1>5, <1>6, <1>8, <2>3 DEF Busy
  <2> QED
    BY <2>1, <2>2, <2>3
<1>11. SoleSure'
  BY <1>1, <1>5, <1>8 DEF SoleSure
<1>12. RoomTypes'
  BY <1>1, <1>5, <1>6 DEF RoomTypes
<1> QED
  BY <1>6, <1>7, <1>9, <1>10, <1>11, <1>12 DEF RoomInv

LEMMA JoinFailsKeeps ==
  ASSUME RoomInv, NEW n \in 1..MaxJoins, JoinFails(n) PROVE RoomInv'
<1> DEFINE r == [NoJoin EXCEPT !.at = "answer", !.sock = joins[n].sock]
<1>1. /\ RoomTypes /\ JoinsOK /\ Blocking /\ SessionsLast /\ OthersSeen /\ SoleSure
      /\ joins[n] \in JoinRec /\ Busy(n) /\ Step(n, r)
      /\ untimely' = untimely \cup {joins[n].sock}
      /\ UNCHANGED <<browser, opened, sockets, room, removals, keys, roster, doubtful>>
  BY DEF RoomInv, JoinFails, server, redis, RoomTypes, Busy
<1>2. r \in JoinRec /\ r.at = "answer" /\ r.sock = joins[n].sock /\ ~r.ok
  BY <1>1 DEF JoinRec, NoJoin
<1> HIDE DEF r
<1>3. PICK q \in JoinRec : q = r
  BY <1>2
<1>4. /\ joins' \in [1..MaxJoins -> JoinRec] /\ LinksOK' /\ JoinsOK' /\ Hearing'
      /\ joins'[n] = r /\ joins[n].sock \in Numbers
      /\ \A m \in 1..MaxJoins : m # n => joins'[m] = joins[m]
      /\ \A m \in 1..MaxJoins : (Busy(m)' <=> Busy(m)) /\ joins'[m].sock = joins[m].sock
      /\ \A u : Removing(u)' <=> Removing(u)
  BY <1>1, <1>2, <1>3, JoinKeeps
<1>5. Blocking'
  BY <1>1, <1>2, <1>4 DEF Blocking
<1>6. SessionsLast'
  BY <1>1, <1>2, <1>4 DEF SessionsLast, Removing, Sure
<1>7. OthersSeen'
  BY <1>1, <1>2, <1>4 DEF OthersSeen, Sure
<1>8. SoleSure' /\ RoomTypes'
  BY <1>1, <1>4 DEF SoleSure, Sure, RoomTypes
<1> QED
  BY <1>4, <1>5, <1>6, <1>7, <1>8 DEF RoomInv

\* The answer: the client counts the attempt as active or not.
LEMMA AnswerJoinKeeps ==
  ASSUME RoomInv, NEW n \in 1..MaxJoins, AnswerJoin(n) PROVE RoomInv'
<1> DEFINE told(w) == [browser[w] EXCEPT !.active = joins[n].ok]
           r == [NoJoin EXCEPT !.at = "done"]
<1>1. /\ RoomTypes /\ LinksOK /\ JoinsOK /\ Hearing /\ Blocking /\ SessionsLast /\ OthersSeen
      /\ SoleSure /\ joins[n] \in JoinRec /\ joins[n].at = "answer" /\ Busy(n) /\ Step(n, r)
      /\ browser' = [w \in Windows |-> IF browser[w].link = joins[n].sock
                                       THEN told(w) ELSE browser[w]]
      /\ UNCHANGED <<opened, sockets, room, removals, keys, roster, doubtful, untimely>>
  BY DEF RoomInv, AnswerJoin, server, redis, pasts, RoomTypes, Busy
<1>2. r \in JoinRec /\ r.at = "done" /\ ~r.ok
  BY DEF NoJoin, JoinRec
<1>3. \A w \in Windows : told(w) \in Windowed /\ told(w).link = browser[w].link
        /\ told(w).rejoin = browser[w].rejoin /\ told(w).retry = browser[w].retry
        /\ told(w).page = browser[w].page /\ told(w).active = joins[n].ok
  <2>1. joins[n].ok \in BOOLEAN /\ \A w \in Windows : browser[w] \in Windowed
    BY <1>1 DEF RoomTypes, JoinRec
  <2> QED
    BY <2>1 DEF Windowed
<1> HIDE DEF r, told
<1>4. /\ browser' \in [Windows -> Windowed]
      /\ \A w \in Windows :
           /\ browser[w].link = joins[n].sock => browser'[w] = told(w)
           /\ browser[w].link # joins[n].sock => browser'[w] = browser[w]
  BY <1>1, <1>3 DEF RoomTypes
<1>5. /\ joins' \in [1..MaxJoins -> JoinRec] /\ joins'[n] = r
      /\ \A m \in 1..MaxJoins : m # n => joins'[m] = joins[m]
  BY <1>1, <1>2 DEF RoomTypes, Step
<1>6. /\ ~Busy(n)' /\ \A m \in 1..MaxJoins : m # n => (Busy(m)' <=> Busy(m))
      /\ \A u : Removing(u)' <=> Removing(u)
  BY <1>1, <1>2, <1>5 DEF Busy, Removing
<1>7. joins[n].sock # 0
  BY <1>1 DEF JoinsOK, RoomTypes
<1>8. LinksOK'
  BY <1>1, <1>3, <1>4, <1>7 DEF LinksOK
<1>9. JoinsOK' /\ Blocking'
  BY <1>1, <1>2, <1>5, <1>6 DEF JoinsOK, Blocking
<1>10. Hearing'
  <2>1. ASSUME NEW w \in Windows, browser'[w].active, browser'[w].link # 0, browser'[w].page
        PROVE  \/ browser'[w].link \in room' \/ (Joining(browser[w].link))'
               \/ browser'[w].rejoin = "off"
    <3>1. CASE browser[w].link = joins[n].sock
      BY <1>1, <1>3, <1>4, <2>1, <3>1 DEF Hearing
    <3>2. CASE browser[w].link # joins[n].sock
      <4>1. /\ browser'[w] = browser[w]
            /\ browser[w].link \in room \/ Joining(browser[w].link) \/ browser[w].rejoin = "off"
        BY <1>1, <1>4, <2>1, <3>2 DEF Hearing
      <4>2. ASSUME Joining(browser[w].link) PROVE (Joining(browser[w].link))'
        BY <1>5, <1>6, <3>2, <4>1, <4>2 DEF Joining
      <4> QED
        BY <1>1, <4>1, <4>2
    <3> QED
      BY <3>1, <3>2
  <2>2. \A w \in Windows : browser'[w].link = browser[w].link /\ browser'[w].rejoin = browser[w].rejoin
    BY <1>3, <1>4
  <2>3. ASSUME NEW w \in Windows, NEW m \in 1..MaxJoins, joins'[m].ok,
               browser'[w].link = joins'[m].sock
        PROVE  browser'[w].link \in room' \/ browser'[w].rejoin = "off"
    BY <1>1, <1>2, <1>5, <2>2, <2>3 DEF Hearing
  <2>4. \A w \in Windows : (Joining(browser[w].link))' =>
           \E k \in 1..MaxJoins : joins'[k].sock = browser'[w].link /\ Busy(k)'
    BY DEF Joining
  <2> QED
    BY <2>1, <2>3, <2>4 DEF Hearing, Joining
<1>11. SessionsLast'
  BY <1>1, <1>2, <1>5, <1>6 DEF SessionsLast, Sure, Removing
<1>12. OthersSeen'
  BY <1>1, <1>2, <1>5 DEF OthersSeen, Sure
<1>13. SoleSure' /\ RoomTypes'
  BY <1>1, <1>4, <1>5 DEF SoleSure, Sure, RoomTypes
<1> QED
  BY <1>8, <1>9, <1>10, <1>11, <1>12, <1>13 DEF RoomInv

(* The room through every step                                             *)

LEMMA RoomStarts == RoomInit => RoomInv
<1> SUFFICES ASSUME RoomInit PROVE RoomInv
  OBVIOUS
<1>1. /\ browser = [w \in Windows |-> Closed] /\ joins = [n \in 1..MaxJoins |-> NoJoin]
      /\ opened = 0 /\ sockets = {} /\ room = {} /\ removals = {} /\ keys = {} /\ roster = {}
      /\ doubtful = {} /\ untimely = {}
  BY DEF RoomInit
<1>2. /\ Closed \in Windowed /\ Closed.link = 0 /\ ~Closed.retry /\ ~Closed.active
      /\ Closed.rejoin = "new"
      /\ NoJoin \in JoinRec /\ NoJoin.at = "none" /\ ~NoJoin.ok /\ NoJoin.sock = 0
  BY DEF Closed, Windowed, NoJoin, JoinRec
<1>3. /\ \A w \in Windows : browser[w] = Closed
      /\ \A n \in 1..MaxJoins : joins[n] = NoJoin /\ ~Busy(n)
  BY <1>1, <1>2 DEF Busy
<1>4. browser \in [Windows -> Windowed] /\ joins \in [1..MaxJoins -> JoinRec]
  BY <1>1, <1>2
<1>5. RoomTypes
  BY <1>1, <1>4, RoomAssumption DEF RoomTypes
<1>6. LinksOK
  BY <1>2, <1>3 DEF LinksOK
<1>7. JoinsOK /\ Hearing
  BY <1>2, <1>3 DEF JoinsOK, Hearing
<1>8. Blocking /\ SoleSure /\ OthersSeen
  BY <1>1 DEF Blocking, SoleSure, OthersSeen
<1>9. SessionsLast
  BY <1>1, <1>3 DEF SessionsLast
<1> QED
  BY <1>5, <1>6, <1>7, <1>8, <1>9 DEF RoomInv

LEMMA RoomStuck == RoomInv /\ UNCHANGED roomVars => RoomInv'
BY DEF RoomInv, roomVars, RoomTypes, LinksOK, JoinsOK, Hearing, Blocking, SessionsLast,
       OthersSeen, SoleSure, Sure, Joining, Removing, Busy

LEMMA RoomMoves == RoomInv /\ RoomNext => RoomInv'
<1> SUFFICES ASSUME RoomInv, RoomNext PROVE RoomInv'
  OBVIOUS
<1>1. ASSUME NEW w \in Windows,
             Mount(w) \/ Connected(w) \/ ConnectFails(w) \/ Unmount(w) \/ LinkLost(w)
               \/ CloseWindow(w) \/ Evict(w) \/ TokenChanged(w)
      PROVE  RoomInv'
  BY <1>1, MountKeeps, ConnectedKeeps, WindowsKeep, UnmountKeeps, EvictKeeps
<1>2. ASSUME NEW s \in Numbers,
             Notice(s) \/ RemoveEntry(s) \/ RemoveKey(s) \/ RemovalFails(s)
               \/ KeyExpires(s)
      PROVE  RoomInv'
  BY <1>2, NoticeKeeps, RemovalsKeep, ExpiriesKeep
<1>3. ASSUME NEW S \in SUBSET Numbers, ReplicaDies(S) PROVE RoomInv'
  BY <1>3, ReplicaKeeps
<1>4. ASSUME NEW n \in 1..MaxJoins,
             ReadRoster(n) \/ CheckSession(n) \/ DropEntry(n)
               \/ StoreSession(n) \/ AddToRoster(n) \/ EnterRoom(n) \/ AnswerJoin(n)
               \/ JoinFails(n)
      PROVE  RoomInv'
  BY <1>4, ReadRosterKeeps, CheckSessionKeeps, DropEntryKeeps, StoreSessionKeeps,
     AddToRosterKeeps, EnterRoomKeeps, AnswerJoinKeeps, JoinFailsKeeps
<1>5. RosterExpires => RoomInv'
  BY ExpiriesKeep
<1> QED
  BY <1>1, <1>2, <1>3, <1>4, <1>5 DEF RoomNext

LEMMA RoomTells == RoomInv => RoomExplained
<1> SUFFICES ASSUME RoomInv PROVE RoomExplained
  OBVIOUS
<1>1. RoomTypes /\ LinksOK /\ Hearing /\ Blocking /\ SoleSure
  BY DEF RoomInv
<1>2. SharedRoomExplained
  <2> SUFFICES ASSUME room \cap doubtful = {} PROVE ~(Cardinality(room) > 1)
    BY DEF SharedRoomExplained
  <2>1. \A s, u \in room : s = u
    BY <1>1 DEF SoleSure, Sure, RoomTypes
  <2>2. CASE room = {}
    BY <2>2, FS_EmptySet
  <2>3. CASE room # {}
    <3>1. PICK s : room = {s}
      BY <2>1, <2>3
    <3> QED
      BY <3>1, FS_Singleton
  <2> QED
    BY <2>2, <2>3
<1>3. BlockingExplained
  BY <1>1 DEF BlockingExplained, Blocking, Joining, Busy
<1>4. ActivePageHears
  <2>1. 0 \notin sockets
    BY <1>1 DEF RoomTypes
  <2> QED
    BY <1>1, <2>1 DEF ActivePageHears, Hearing
<1> QED
  BY <1>2, <1>3, <1>4 DEF RoomExplained

\* A room is shared only if a session lapsed in it or joins overlapped, a session
\* keeps others out only if its socket is there or went untimely, and a page that
\* counts its attempt as active hears its room (RoomExplained).
THEOREM RoomExplainedAlways == RoomSpec => []RoomExplained
<1>1. RoomInit => RoomInv
  BY RoomStarts
<1>2. RoomInv /\ [RoomNext]_roomVars => RoomInv'
  BY RoomMoves, RoomStuck
<1> QED
  BY <1>1, <1>2, RoomTells, PTL DEF RoomSpec
=============================================================================
