------------------------------ MODULE ExamRoom ------------------------------
(***************************************************************************)
(* One attempt's room: the browser windows of its candidate and their      *)
(* sockets (apps/web lib/socket.ts, hooks/useExamSocket.ts), the handlers  *)
(* attempt:join, code:save, attempt:leave and disconnect                   *)
(* (apps/api socket/examHandlers.ts), the socket server's evictions        *)
(* (socket/index.ts) and the sessions that socket/presenceService.ts keeps *)
(* in Redis: a key for each socket and the attempt's set of socket ids.    *)
(*                                                                         *)
(* Sockets are numbered as they connect.  A handler's Redis commands are   *)
(* separate steps; messages of one socket start their handlers in order,   *)
(* but the handlers then interleave.                                       *)
(***************************************************************************)
EXTENDS Naturals, FiniteSets

CONSTANTS Windows,       \* browser windows of one candidate
          MaxSockets,    \* bound: connections ever made
          MaxJoins,      \* bound: attempt:join messages ever sent
          MaxRoomMishaps \* bound: links lost or refused, evictions, dead
                         \* replicas, failed joins or removals, keys expired

ASSUME RoomAssumption == MaxSockets \in Nat /\ MaxJoins \in Nat

VARIABLES browser,   \* [Windows -> what a window's page and client hold]
          opened,    \* connections made so far
          sockets,   \* sockets the server holds connected
          room,      \* sockets in room attempt:<id>, socket.data.attemptId set
          joins,     \* [1..MaxJoins -> the handler of each attempt:join]
          removals,  \* removeSession calls under way: <<socket, next>>
          keys,      \* sockets with a session:<attempt>:<socket> key
          roster,    \* sessions:<attempt>, a set of socket ids
          mishaps,
          doubtful,  \* history: sockets whose session lapsed in the room, or
                     \* whose join met another join or a removal of its own
          untimely   \* history: sockets gone, left or failed while joining,
                     \* or whose removal failed or died with its replica

roomVars == <<browser, opened, sockets, room, joins, removals,
              keys, roster, mishaps, doubtful, untimely>>
redis == <<keys, roster>>
server == <<sockets, room>>
pasts == <<doubtful, untimely>>

Numbers == 1..MaxSockets
NoJoin == [at |-> "none", sock |-> 0, todo |-> {}, who |-> 0, ok |-> FALSE]

(* page: mounted; link: its socket or 0; retry: the library reconnects;    *)
(* pending: connectToExam waits for the connection; active: the attempt is *)
(* in activeAttemptIds; rejoin: whether rejoinActiveAttempts is a listener *)
(* ("new" before the client's socket object exists).                       *)
Closed == [page |-> FALSE, link |-> 0, retry |-> FALSE, pending |-> FALSE,
           active |-> FALSE, rejoin |-> "new"]

RoomInit ==
    /\ browser = [w \in Windows |-> Closed]
    /\ opened = 0 /\ sockets = {} /\ room = {}
    /\ joins = [n \in 1..MaxJoins |-> NoJoin]
    /\ removals = {} /\ keys = {} /\ roster = {}
    /\ mishaps = 0 /\ doubtful = {} /\ untimely = {}

Busy(n) == joins[n].at \notin {"none", "done"}
Joining(s) == \E n \in 1..MaxJoins : joins[n].sock = s /\ Busy(n)
Removing(s) == \E r \in removals : r[1] = s

(* socket.emit('attempt:join'): the handler starts, and overlaps with the  *)
(* joins and removals under way.                                           *)
SendJoin(s) ==
    \E n \in 1..MaxJoins :
        /\ joins[n].at = "none" /\ \A k \in 1..n-1 : joins[k].at # "none"
        /\ joins' = [joins EXCEPT ![n] = [NoJoin EXCEPT !.at = "members", !.sock = s]]
        /\ doubtful' = doubtful
             \cup (IF Removing(s) \/ \E k \in 1..MaxJoins : Busy(k)
                   THEN {s} \cup {joins[k].sock : k \in {m \in 1..MaxJoins : Busy(m)}}
                   ELSE {})

Mishap == mishaps < MaxRoomMishaps /\ mishaps' = mishaps + 1
Update(w, r) == browser' = [browser EXCEPT ![w] = r]
-----------------------------------------------------------------------------
(* The page mounts: listeners are attached to the window's socket, made    *)
(* here if it has none; if it is connected the join goes out at once.      *)
Mount(w) ==
    LET b == browser[w] IN
    /\ ~b.page /\ (b.link # 0 \/ opened < MaxSockets)
    /\ IF b.link # 0
       THEN /\ Update(w, [b EXCEPT !.page = TRUE])
            /\ SendJoin(b.link) /\ UNCHANGED untimely
       ELSE /\ Update(w, [b EXCEPT !.page = TRUE, !.pending = TRUE, !.retry = TRUE,
                                   !.rejoin = IF @ = "new" THEN "on" ELSE @])
            /\ UNCHANGED <<joins, pasts>>
    /\ UNCHANGED <<opened, server, removals, redis, mishaps>>

(* Variant: nobody joins again after a reconnection.                       *)
ConnectedOnly(w) ==
    LET b == browser[w]
        s == opened + 1
    IN  /\ b.link = 0 /\ b.retry /\ s \in Numbers
        /\ opened' = s /\ sockets' = sockets \cup {s}
        /\ Update(w, [b EXCEPT !.link = s, !.pending = FALSE])
        /\ IF b.pending THEN SendJoin(s) /\ UNCHANGED untimely
                        ELSE UNCHANGED <<joins, pasts>>
        /\ UNCHANGED <<room, removals, redis, mishaps>>

(* The library connects: the waiting connectToExam or the rejoin listener  *)
(* sends the join, or nobody does.                                         *)
Connected(w) ==
    LET b == browser[w]
        s == opened + 1
    IN  /\ b.link = 0 /\ b.retry /\ s \in Numbers
        /\ opened' = s /\ sockets' = sockets \cup {s}
        /\ Update(w, [b EXCEPT !.link = s, !.pending = FALSE])
        /\ IF b.pending \/ (b.rejoin = "on" /\ b.active)
           THEN SendJoin(s) /\ UNCHANGED untimely
           ELSE UNCHANGED <<joins, pasts>>
        /\ UNCHANGED <<room, removals, redis, mishaps>>

(* connect_error, or fifteen seconds without a connection, while           *)
(* connectToExam waits: it gives up, the library does not.                 *)
ConnectFails(w) ==
    /\ browser[w].pending /\ Mishap
    /\ Update(w, [browser[w] EXCEPT !.pending = FALSE, !.active = FALSE])
    /\ UNCHANGED <<opened, server, joins, removals, redis, pasts>>

(* Unmounting sends attempt:leave and drops every 'connect' listener, the  *)
(* one that rejoins included.  The handler of attempt:leave.               *)
Unmount(w) ==
    LET b == browser[w]
        s == b.link
    IN  /\ b.page
        /\ Update(w, [b EXCEPT !.page = FALSE, !.pending = FALSE, !.active = FALSE,
                               !.rejoin = "off"])
        /\ IF s \in sockets
           THEN /\ room' = room \ {s}
                /\ removals' = removals \cup {<<s, "srem">>}
                /\ untimely' = untimely \cup {u \in {s} : Joining(u)}
                /\ doubtful' = doubtful \cup {u \in {s} : Joining(u)}
           ELSE UNCHANGED <<room, removals, pasts>>
        /\ UNCHANGED <<opened, sockets, joins, redis, mishaps>>

(* The disconnect handlers: the socket leaves its rooms, and its session   *)
(* is removed if the socket was bound to the attempt.                      *)
Disconnect(s) ==
    /\ sockets' = sockets \ {s} /\ room' = room \ {s}
    /\ doubtful' = doubtful \ {s}
    /\ removals' = IF s \in room THEN removals \cup {<<s, "srem">>} ELSE removals
    /\ untimely' = untimely \cup {u \in {s} : Joining(u)}

(* The link fails: the client sees it and tries again; the server sees it  *)
(* when its ping is not answered, perhaps after the new connection.        *)
LinkLost(w) ==
    /\ browser[w].link # 0 /\ Mishap
    /\ Update(w, [browser[w] EXCEPT !.link = 0, !.retry = TRUE])
    /\ UNCHANGED <<opened, server, joins, removals, redis, pasts>>

CloseWindow(w) ==
    /\ browser[w].rejoin # "new"
    /\ Update(w, Closed)
    /\ UNCHANGED <<opened, server, joins, removals, redis, mishaps, pasts>>

Notice(s) ==
    /\ s \in sockets /\ \A w \in Windows : browser[w].link # s
    /\ Disconnect(s)
    /\ UNCHANGED <<browser, opened, joins, redis, mishaps>>

(* An eviction or an expired token: socket.disconnect(true) on the server, *)
(* after which the library does not reconnect by itself...                 *)
Evict(w) ==
    /\ browser[w].link \in sockets /\ Mishap
    /\ Disconnect(browser[w].link)
    /\ Update(w, [browser[w] EXCEPT !.link = 0, !.retry = FALSE])
    /\ UNCHANGED <<opened, joins, redis>>

(* ... until the API client has a new token.                               *)
TokenChanged(w) ==
    /\ browser[w].active /\ browser[w].link = 0 /\ ~browser[w].retry
    /\ Update(w, [browser[w] EXCEPT !.retry = TRUE])
    /\ UNCHANGED <<opened, server, joins, removals, redis, mishaps, pasts>>

(* A replica of the API dies: its sockets and handlers are gone, with the  *)
(* removals it was running, those of sockets gone before included.         *)
ReplicaDies(S) ==
    /\ S # {} /\ S \subseteq 1..opened /\ Mishap
    /\ sockets' = sockets \ S /\ room' = room \ S
    /\ joins' = [n \in 1..MaxJoins |->
                   IF joins[n].sock \in S THEN [NoJoin EXCEPT !.at = "done"]
                                          ELSE joins[n]]
    /\ removals' = {r \in removals : r[1] \notin S}
    /\ browser' = [w \in Windows |->
                     IF browser[w].link \in S
                     THEN [browser[w] EXCEPT !.link = 0, !.retry = TRUE]
                     ELSE browser[w]]
    /\ untimely' = untimely \cup
                     {s \in S : s \in sockets \/ Joining(s) \/ Removing(s)}
    /\ doubtful' = doubtful \ S
    /\ UNCHANGED <<opened, redis>>
-----------------------------------------------------------------------------
Step(n, r) == joins' = [joins EXCEPT ![n] = r]

(* attempt:join reads the attempt's status (AttemptLifecycle has its life: *)
(* here it is any), and trackSession SMEMBERS of the set.                  *)
ReadRoster(n) ==
    /\ joins[n].at = "members"
    /\ \E inProgress \in BOOLEAN :
          Step(n, IF inProgress
               THEN [joins[n] EXCEPT !.at = "check", !.todo = roster \ {joins[n].sock}]
               ELSE [joins[n] EXCEPT !.at = "answer"])
    /\ UNCHANGED <<browser, opened, server, removals, redis, mishaps, pasts>>

(* ... GET of each other session: a live one refuses the join, ...         *)
CheckSession(n) ==
    /\ joins[n].at = "check"
    /\ \E u \in joins[n].todo :
          Step(n, IF u \in keys THEN [joins[n] EXCEPT !.at = "answer", !.todo = {}]
                  ELSE [joins[n] EXCEPT !.at = "drop", !.who = u, !.todo = @ \ {u}])
    /\ UNCHANGED <<browser, opened, server, removals, redis, mishaps, pasts>>

(* ... and SREM of one without a key; ...                                  *)
DropEntry(n) ==
    /\ joins[n].at = "drop"
    /\ roster' = roster \ {joins[n].who}
    /\ Step(n, [joins[n] EXCEPT !.at = "check", !.who = 0])
    /\ doubtful' = doubtful \cup ({joins[n].who} \cap room)
    /\ UNCHANGED <<browser, opened, server, removals, keys,
                   mishaps, untimely>>

(* Variant: the other sessions are not waited for.                         *)
StoreSessionAnyway(n) ==
    /\ joins[n].at = "check"
    /\ keys' = keys \cup {joins[n].sock}
    /\ Step(n, [joins[n] EXCEPT !.at = "add"])
    /\ UNCHANGED <<browser, opened, server, removals, roster, mishaps, pasts>>

(* ... then SET of the session, SADD and EXPIRE of the set.                *)
StoreSession(n) ==
    /\ joins[n].at = "check" /\ joins[n].todo = {}
    /\ keys' = keys \cup {joins[n].sock}
    /\ Step(n, [joins[n] EXCEPT !.at = "add"])
    /\ UNCHANGED <<browser, opened, server, removals, roster,
                   mishaps, pasts>>

AddToRoster(n) ==
    /\ joins[n].at = "add"
    /\ roster' = roster \cup {joins[n].sock}
    /\ Step(n, [joins[n] EXCEPT !.at = "room"])
    /\ UNCHANGED <<browser, opened, server, removals, keys, mishaps, pasts>>

(* socket.join on a socket that has gone adds nobody who hears the room.   *)
(* If startTimer fails, the join is refused with the socket in the room.   *)
EnterRoom(n) ==
    LET s == joins[n].sock IN
    /\ joins[n].at = "room"
    /\ room' = room \cup ({s} \cap sockets)
    /\ \/ Step(n, [joins[n] EXCEPT !.at = "answer", !.ok = TRUE]) /\ UNCHANGED mishaps
       \/ Step(n, [joins[n] EXCEPT !.at = "answer"]) /\ Mishap
    /\ UNCHANGED <<browser, opened, sockets, removals, redis, pasts>>

(* The callback reaches the client if it still has this connection; the    *)
(* answer decides whether the attempt is in activeAttemptIds.              *)
AnswerJoin(n) ==
    /\ joins[n].at = "answer"
    /\ Step(n, [NoJoin EXCEPT !.at = "done"])
    /\ browser' = [w \in Windows |->
                     IF browser[w].link = joins[n].sock
                     THEN [browser[w] EXCEPT !.active = joins[n].ok] ELSE browser[w]]
    /\ UNCHANGED <<opened, server, removals, redis, mishaps, pasts>>

(* A database or Redis error anywhere in the join ends it.                 *)
JoinFails(n) ==
    /\ joins[n].at \in {"members", "check", "drop", "add", "room"}
    /\ Mishap
    /\ Step(n, [NoJoin EXCEPT !.at = "answer", !.sock = joins[n].sock])
    /\ untimely' = untimely \cup {joins[n].sock}
    /\ UNCHANGED <<browser, opened, server, removals, redis,
                   doubtful>>
-----------------------------------------------------------------------------
(* removeSession: SREM, then DEL.                                          *)
RemoveEntry(s) ==
    /\ <<s, "srem">> \in removals
    /\ removals' = (removals \ {<<s, "srem">>}) \cup {<<s, "del">>}
    /\ roster' = roster \ {s}
    /\ UNCHANGED <<browser, opened, server, joins, keys,
                   mishaps, pasts>>

RemoveKey(s) ==
    /\ <<s, "del">> \in removals
    /\ removals' = removals \ {<<s, "del">>}
    /\ keys' = keys \ {s}
    /\ UNCHANGED <<browser, opened, server, joins, roster,
                   mishaps, pasts>>

(* Neither caller awaits it or catches its error: the command that fails   *)
(* and those after it are not done again, and nobody is told.              *)
RemovalFails(s) ==
    /\ \E next \in {"srem", "del"} :
          <<s, next>> \in removals /\ removals' = removals \ {<<s, next>>}
    /\ Mishap
    /\ untimely' = untimely \cup {s}
    /\ UNCHANGED <<browser, opened, server, joins, redis, doubtful>>

(* updateSessionActivity, at the end of code:save on a socket of the room, *)
(* gives a key ten minutes more; it expires without one.  (A key set again *)
(* after its removal is in no set and keeps nobody out.)                   *)
KeyExpires(s) ==
    /\ s \in keys /\ ~Joining(s) /\ Mishap
    /\ keys' = keys \ {s}
    /\ doubtful' = doubtful \cup ({s} \cap room)
    /\ UNCHANGED <<browser, opened, server, joins, removals, roster,
                   untimely>>

(* The set has its time to live from the last join and no save renews it:  *)
(* eleven minutes later it expires, with the keys no save has renewed.  No *)
(* join takes that long.                                                   *)
RosterExpires ==
    /\ roster # {} /\ (\A s \in Numbers : ~Joining(s))
    /\ Mishap
    /\ roster' = {} /\ keys' \in SUBSET keys
    /\ doubtful' = doubtful \cup (roster \cap room)
    /\ UNCHANGED <<browser, opened, server, joins, removals,
                   untimely>>

RoomNext ==
    \/ \E w \in Windows :
          Mount(w) \/ Connected(w) \/ ConnectFails(w) \/ Unmount(w) \/ LinkLost(w)
            \/ CloseWindow(w) \/ Evict(w) \/ TokenChanged(w)
    \/ \E s \in Numbers :
          Notice(s) \/ RemoveEntry(s) \/ RemoveKey(s) \/ RemovalFails(s)
            \/ KeyExpires(s)
    \/ \E S \in SUBSET Numbers : ReplicaDies(S)
    \/ \E n \in 1..MaxJoins :
          ReadRoster(n) \/ CheckSession(n) \/ DropEntry(n)
            \/ StoreSession(n) \/ AddToRoster(n) \/ EnterRoom(n) \/ AnswerJoin(n)
            \/ JoinFails(n)
    \/ RosterExpires

RoomSpec == RoomInit /\ [][RoomNext]_roomVars
-----------------------------------------------------------------------------
RoomTypeOK ==
    /\ browser \in [Windows -> [page : BOOLEAN, link : 0..MaxSockets, retry : BOOLEAN,
                                pending : BOOLEAN, active : BOOLEAN,
                                rejoin : {"new", "on", "off"}]]
    /\ sockets \subseteq 1..opened /\ room \subseteq sockets
    /\ keys \subseteq Numbers /\ roster \subseteq Numbers

(* Two windows share the room only if the session of one lapsed while it   *)
(* was there, or their joins overlapped or met a removal of the same       *)
(* socket's session (presenceService.ts:5 promises one window).            *)
SharedRoomExplained ==
    Cardinality(room) > 1 => room \cap doubtful # {}

(* A session that keeps other windows out belongs to a socket that is in   *)
(* the room or about to be, or it is being removed; otherwise its socket   *)
(* went, left or failed while joining, its replica died, or removeSession, *)
(* which nobody awaits, failed (presenceService.ts:106-111): those keep    *)
(* the windows out until the key expires.                                  *)
BlockingExplained ==
    \A s \in keys \cap roster :
        s \in room \/ Joining(s) \/ Removing(s) \/ s \in untimely

(* A page that counts the attempt among its active ones and is connected   *)
(* is in the room or joining it, so it hears its timer and its grades,     *)
(* unless an earlier unmount took the rejoin listener away.                *)
ActivePageHears ==
    \A w \in Windows :
        browser[w].page /\ browser[w].active /\ browser[w].link \in sockets =>
            \/ browser[w].link \in room \/ Joining(browser[w].link)
            \/ browser[w].rejoin = "off"

(* A room is shared, or refused to a page that is alone, only for the      *)
(* reasons the steps of trackSession and removeSession leave room for, and *)
(* a page that counts its attempt as active is in its room.                *)
RoomExplained == SharedRoomExplained /\ BlockingExplained /\ ActivePageHears
=============================================================================
