------------------------------ MODULE Sessions ------------------------------
(***************************************************************************)
(* Signing in and out of the API: lib/token-manager.ts (refresh tokens and *)
(* their families in Redis), lib/session-cache.ts (the sessions a login    *)
(* may reuse), the handlers of routes/auth.ts, and the client of           *)
(* apps/web/src/lib/api.ts, one per browser tab.  One user, one browser:   *)
(* its tabs share localStorage, each keeps its own copy in memory.         *)
(*                                                                         *)
(* Every Redis command is a step, so requests of several tabs interleave   *)
(* between any two of them.  Access tokens are not kept anywhere and only  *)
(* decide when a tab refreshes, which may be at any time.                  *)
(***************************************************************************)
EXTENDS Naturals, Sequences

CONSTANTS Tabs,          \* browser tabs of the user
          MaxTokens,     \* bound: refresh tokens ever issued
          MaxLogins,     \* bound: logins, so also families and sessions
          MaxAuthFaults  \* bound: Redis errors, lost answers, expired families

ASSUME SessionAssumption == MaxLogins \in Nat

VARIABLES stored,     \* ids with a refresh:<id> key
          marked,     \* ids with a revoked:<id> key
          members,    \* token_family:<f>, a set of ids for each family
          familyOf,   \* the family in the JWT of each id issued, in order
          cached,     \* sessions with a session:<id> key
          listed,     \* user_sessions:<user>
          loginIndex, \* login_cache:<email>: a session or 0
          logins,     \* logins begun: each has a family and a session number
          held,       \* [Tabs -> id or 0]: refreshToken in a tab's memory
          saved,      \* the refresh token in localStorage, or 0
          req,        \* [Tabs -> the tab's request]
          authFaults,
          presented,  \* history: ids presented to /refresh
          causes,     \* history: families reused, logged out or hit by a fault
          over,       \* history: families ended with no rotation under way
          ended       \* history: sessions deleted by a finished logout-all

sessionVars == <<stored, marked, members, familyOf, cached, listed,
                 loginIndex, logins, held, saved, req, authFaults,
                 presented, causes, over, ended>>
redisTokens == <<stored, marked, members, familyOf>>
redisSessions == <<cached, listed, loginIndex>>
clientVars == <<held, saved>>
histories == <<presented, causes, over, ended>>

Families == 1..MaxLogins
Issued == DOMAIN familyOf
Idle == [op |-> "none", at |-> "idle", tok |-> 0, new |-> 0, fam |-> 0,
         keys |-> {}, todo |-> {}, clean |-> {}]

SessionInit ==
    /\ stored = {} /\ marked = {} /\ members = [f \in Families |-> {}]
    /\ familyOf = << >>
    /\ cached = {} /\ listed = {} /\ loginIndex = 0 /\ logins = 0
    /\ held = [t \in Tabs |-> 0] /\ saved = 0
    /\ req = [t \in Tabs |-> Idle]
    /\ authFaults = 0
    /\ presented = {} /\ causes = {} /\ over = {} /\ ended = {}

At(t, op, at) == req[t].op = op /\ req[t].at = at
Goto(t, at) == req' = [req EXCEPT ![t].at = at]
GotoWith(t, at, f, v) == req' = [req EXCEPT ![t] = [[@ EXCEPT !.at = at] EXCEPT ![f] = v]]

(* saveTokens: the tab's memory and localStorage.                          *)
SaveTokens(t, k) == held' = [held EXCEPT ![t] = k] /\ saved' = k

(* Revoking a family reads its set of members: it can be relied on only if *)
(* every live id of the family is in the set and no other request is about *)
(* to store an id or to delete the set.  An overlap can leave a live id outside the set *)
(* for good, since the set is deleted afterwards.                          *)
InFlight(f) ==
    {t \in Tabs : \/ req[t].op = "logoutAll"
                  \/ req[t].op \in {"login", "refresh"} /\ req[t].fam = f}
Listed(f) == \A k \in stored : familyOf[k] = f => k \in members[f]
Unclean(r, f) == [t \in Tabs |-> [r[t] EXCEPT !.clean = @ \ {f}]]
-----------------------------------------------------------------------------
(* Login: getCachedLogin reads the index, then the session it names, which *)
(* is reused; else a new session is stored, listed and indexed.            *)
Login(t) ==
    /\ req[t].at = "idle" /\ held[t] = 0 /\ logins < MaxLogins
    /\ logins' = logins + 1
    /\ req' = [req EXCEPT ![t] =
                 [Idle EXCEPT !.op = "login", !.fam = logins + 1,
                              !.tok = loginIndex,
                              !.at = IF loginIndex = 0 THEN "verify" ELSE "session"]]
    /\ UNCHANGED <<redisTokens, redisSessions, clientVars, authFaults, histories>>

(* getSession and its sliding SET; a missing session has its index         *)
(* deleted.  No caller changes a password, so the hash that the fast path  *)
(* compares is always the one stored.                                      *)
ReadSession(t) ==
    /\ At(t, "login", "session")
    /\ Goto(t, IF req[t].tok \in cached THEN "slide" ELSE "unindex")
    /\ UNCHANGED <<redisTokens, redisSessions, logins, clientVars, authFaults,
                   histories>>

SlideSession(t) ==
    /\ At(t, "login", "slide")
    /\ cached' = cached \cup {req[t].tok}
    /\ Goto(t, "issue")
    /\ UNCHANGED <<redisTokens, listed, loginIndex, logins, clientVars,
                   authFaults, histories>>

Unindex(t) ==
    /\ At(t, "login", "unindex")
    /\ loginIndex' = 0 /\ Goto(t, "verify")
    /\ UNCHANGED <<redisTokens, cached, listed, logins, clientVars,
                   authFaults, histories>>

(* bcrypt.compare fails, or createSession stores the session.              *)
VerifyPassword(t) ==
    /\ At(t, "login", "verify")
    /\ \/ Goto(t, "no") /\ UNCHANGED cached
       \/ cached' = cached \cup {req[t].fam} /\ Goto(t, "list")
    /\ UNCHANGED <<redisTokens, listed, loginIndex, logins, clientVars,
                   authFaults, histories>>

ListSession(t) ==
    /\ At(t, "login", "list")
    /\ listed' = listed \cup {req[t].fam} /\ Goto(t, "setIndex")
    /\ UNCHANGED <<redisTokens, cached, loginIndex, logins, clientVars,
                   authFaults, histories>>

SetIndex(t) ==
    /\ At(t, "login", "setIndex")
    /\ loginIndex' = req[t].fam /\ Goto(t, "issue")
    /\ UNCHANGED <<redisTokens, cached, listed, logins, clientVars,
                   authFaults, histories>>

(* Variant: the id is put into its family but not stored.                  *)
StoreTokenNot(t) ==
    /\ req[t].at = "issue" /\ Len(familyOf) < MaxTokens
    /\ familyOf' = Append(familyOf, req[t].fam)
    /\ GotoWith(t, "join", "new", Len(familyOf) + 1)
    /\ UNCHANGED <<stored, marked, members, redisSessions, logins, clientVars,
                   authFaults, histories>>

(* generateRefreshToken, and the second half of rotateRefreshToken: the    *)
(* new id is stored, then added to its family.                             *)
StoreToken(t) ==
    /\ req[t].at = "issue" /\ Len(familyOf) < MaxTokens
    /\ familyOf' = Append(familyOf, req[t].fam)
    /\ stored' = stored \cup {Len(familyOf) + 1}
    /\ GotoWith(t, "join", "new", Len(familyOf) + 1)
    /\ UNCHANGED <<marked, members, redisSessions, logins, clientVars,
                   authFaults, histories>>

JoinFamily(t) ==
    /\ req[t].at = "join"
    /\ members' = [members EXCEPT ![req[t].fam] = @ \cup {req[t].new}]
    /\ Goto(t, "yes")
    /\ UNCHANGED <<stored, marked, familyOf, redisSessions, logins, clientVars,
                   authFaults, histories>>
-----------------------------------------------------------------------------
(* Refresh.  refreshAccessToken keeps one request per tab in flight and    *)
(* presents the token of the tab's own memory.  An id marked as revoked    *)
(* ends its family; an id without data is refused.                         *)
Refresh(t) ==
    /\ req[t].at = "idle" /\ held[t] # 0
    /\ LET k == held[t]
           f == familyOf[k]
           reuse == k \in marked
       IN  /\ presented' = presented \cup {k}
           /\ causes' = IF k \in presented THEN causes \cup {f} ELSE causes
           /\ req' = [Unclean(req, f) EXCEPT ![t] =
                 [Idle EXCEPT !.op = "refresh", !.tok = k, !.fam = f,
                    !.at = IF reuse THEN "family" ELSE "data",
                    !.clean = {g \in {f} : reuse /\ Listed(f) /\ InFlight(f) = {}}]]
    /\ UNCHANGED <<redisTokens, redisSessions, logins, clientVars, authFaults,
                   over, ended>>

ReadToken(t) ==
    /\ At(t, "refresh", "data")
    /\ Goto(t, IF req[t].tok \in stored THEN "delOld" ELSE "no")
    /\ UNCHANGED <<redisTokens, redisSessions, logins, clientVars, authFaults,
                   histories>>

DeleteOld(t) ==
    /\ req[t].at = "delOld"
    /\ stored' = stored \ {req[t].tok} /\ Goto(t, "markOld")
    /\ UNCHANGED <<marked, members, familyOf, redisSessions, logins,
                   clientVars, authFaults, histories>>

(* After the mark a rotation issues the next id; a logout is done.         *)
MarkOld(t) ==
    /\ req[t].at = "markOld"
    /\ marked' = marked \cup {req[t].tok}
    /\ Goto(t, IF req[t].op = "refresh" THEN "issue" ELSE "yes")
    /\ UNCHANGED <<stored, members, familyOf, redisSessions, logins,
                   clientVars, authFaults, histories>>
-----------------------------------------------------------------------------
(* Logout: revokeRefreshToken of the tab's token.  api.ts sends neither    *)
(* the e-mail nor the session, so the login index stays.                   *)
Logout(t) ==
    /\ req[t].at = "idle" /\ held[t] # 0
    /\ LET f == familyOf[held[t]]
       IN  /\ causes' = causes \cup {f}
           /\ req' = [req EXCEPT ![t] = [Idle EXCEPT !.op = "logout",
                                !.tok = held[t], !.fam = f, !.at = "delOld"]]
    /\ UNCHANGED <<redisTokens, redisSessions, logins, clientVars, authFaults,
                   presented, over, ended>>

(* Logout-all: every refresh key is scanned, then each family is revoked.  *)
(* Variant: only the first page of the scan.                               *)
ScanKeysOnce == {k \in stored : \A m \in stored : k <= m}

ScanKeys == stored
Undisturbed == {f \in Families : Listed(f) /\ InFlight(f) = {} /\ f <= logins}

LogoutAll(t) ==
    /\ req[t].at = "idle" /\ held[t] # 0
    /\ causes' = causes \cup 1..logins
    /\ req' = [[u \in Tabs |-> [req[u] EXCEPT !.clean = {}]] EXCEPT
                 ![t] = [Idle EXCEPT !.op = "logoutAll",
                 !.at = "visit", !.keys = ScanKeys, !.clean = Undisturbed]]
    /\ UNCHANGED <<redisTokens, redisSessions, logins, clientVars, authFaults,
                   presented, over, ended>>

(* revokeAllUserTokens reads each scanned key; a key that is still there   *)
(* has its whole family revoked.                                           *)
VisitKey(t) ==
    /\ At(t, "logoutAll", "visit")
    /\ \E k \in req[t].keys :
          LET rest == [req[t] EXCEPT !.keys = @ \ {k}]
          IN  req' = [req EXCEPT ![t] =
                        IF k \notin stored THEN rest
                        ELSE [rest EXCEPT !.fam = familyOf[k], !.at = "family"]]
    /\ UNCHANGED <<redisTokens, redisSessions, logins, clientVars, authFaults,
                   histories>>

(* revokeTokenFamily, for a reused id and for logout-all.                  *)
ReadFamily(t) ==
    /\ req[t].at = "family"
    /\ GotoWith(t, "members", "todo", members[req[t].fam])
    /\ UNCHANGED <<redisTokens, redisSessions, logins, clientVars, authFaults,
                   histories>>

DeleteMember(t) ==
    /\ req[t].at = "members"
    /\ \E k \in req[t].todo : /\ stored' = stored \ {k}
                              /\ GotoWith(t, "markMember", "new", k)
    /\ UNCHANGED <<marked, members, familyOf, redisSessions, logins,
                   clientVars, authFaults, histories>>

MarkMember(t) ==
    /\ req[t].at = "markMember"
    /\ marked' = marked \cup {req[t].new}
    /\ GotoWith(t, "members", "todo", req[t].todo \ {req[t].new})
    /\ UNCHANGED <<stored, members, familyOf, redisSessions, logins,
                   clientVars, authFaults, histories>>

DropFamily(t) ==
    /\ req[t].at = "members" /\ req[t].todo = {}
    /\ members' = [members EXCEPT ![req[t].fam] = {}]
    /\ IF req[t].op = "refresh"
         THEN Goto(t, "no") /\ over' = over \cup req[t].clean
         ELSE Goto(t, "visit") /\ UNCHANGED over
    /\ UNCHANGED <<stored, marked, familyOf, redisSessions, logins,
                   clientVars, authFaults, presented, causes, ended>>

(* The families done, the sessions the user's set names are deleted in one *)
(* pipeline, then the login index; then the user's sockets are evicted.    *)
ReadSessions(t) ==
    /\ At(t, "logoutAll", "visit") /\ req[t].keys = {}
    /\ over' = over \cup req[t].clean
    /\ GotoWith(t, "sessions", "todo", listed)
    /\ UNCHANGED <<redisTokens, redisSessions, logins, clientVars, authFaults,
                   presented, causes, ended>>

DeleteSessions(t) ==
    /\ At(t, "logoutAll", "sessions")
    /\ cached' = cached \ req[t].todo
    /\ listed' = IF req[t].todo = {} THEN listed ELSE {}
    /\ Goto(t, "dropIndex")
    /\ UNCHANGED <<redisTokens, loginIndex, logins, clientVars, authFaults,
                   histories>>

(* Nobody looks at what the pipeline's commands answered: any of them may  *)
(* fail unseen, and logout-all goes on.                                    *)
PipelineFails(t) ==
    /\ At(t, "logoutAll", "sessions") /\ req[t].todo # {}
    /\ authFaults < MaxAuthFaults /\ authFaults' = authFaults + 1
    /\ \E deleted \in SUBSET req[t].todo :
          /\ cached' = cached \ deleted
          /\ GotoWith(t, "dropIndex", "todo", deleted)
    /\ listed' \in {listed, {}}
    /\ UNCHANGED <<redisTokens, loginIndex, logins, clientVars, histories>>

DropIndex(t) ==
    /\ At(t, "logoutAll", "dropIndex")
    /\ loginIndex' = 0
    /\ ended' = ended \cup req[t].todo
    /\ Goto(t, "yes")
    /\ UNCHANGED <<redisTokens, cached, listed, logins, clientVars, authFaults,
                   presented, causes, over>>
-----------------------------------------------------------------------------
(* In revokeTokenFamily a Redis error during logout-all is swallowed: the  *)
(* family is skipped as it is, and the scan goes on to its next key.       *)
Skippable(t) ==
    req[t].op = "logoutAll" /\ req[t].at \in {"family", "members", "markMember"}

SkipFamily(t) ==
    /\ Skippable(t) /\ authFaults < MaxAuthFaults
    /\ authFaults' = authFaults + 1
    /\ req' = [req EXCEPT ![t] = [@ EXCEPT !.at = "visit", !.todo = {},
                                          !.clean = req[t].clean \ {req[t].fam}]]
    /\ UNCHANGED <<redisTokens, redisSessions, logins, clientVars, histories>>

(* Any other Redis command that fails ends its request: the rotation's     *)
(* catch answers 401, the other handlers answer 500 (revokeRefreshToken    *)
(* swallows it and ends too).                                              *)
RedisFails(t) ==
    /\ req[t].at \notin {"idle", "yes", "no"} /\ authFaults < MaxAuthFaults
    /\ ~Skippable(t) /\ ~At(t, "logoutAll", "sessions")
    /\ authFaults' = authFaults + 1
    /\ causes' = causes \cup {req[t].fam}
    /\ Goto(t, "no")
    /\ UNCHANGED <<redisTokens, redisSessions, logins, clientVars,
                   presented, over, ended>>

(* The answer arrives: a login that succeeded and a rotation save their    *)
(* tokens, a refused rotation and both logouts clear them.                 *)
Answered(t) ==
    /\ req[t].at \in {"yes", "no"}
    /\ \/ req[t].op \in {"login", "refresh"} /\ req[t].at = "yes"
            /\ SaveTokens(t, req[t].new)
       \/ req[t].op = "login" /\ req[t].at = "no" /\ UNCHANGED clientVars
       \/ req[t].op = "refresh" /\ req[t].at = "no" /\ SaveTokens(t, 0)
       \/ req[t].op \in {"logout", "logoutAll"} /\ SaveTokens(t, 0)
    /\ req' = [req EXCEPT ![t] = Idle]
    /\ UNCHANGED <<redisTokens, redisSessions, logins, authFaults, histories>>

(* fetch throws: the tokens stay as they are.                              *)
AnswerLost(t) ==
    /\ req[t].at \in {"yes", "no"} /\ req[t].op \in {"login", "refresh"}
    /\ authFaults < MaxAuthFaults
    /\ authFaults' = authFaults + 1
    /\ req' = [req EXCEPT ![t] = Idle]
    /\ UNCHANGED <<redisTokens, redisSessions, logins, clientVars, histories>>

(* The set of a family keeps the time to live it got at the login, no      *)
(* rotation renews it: it expires after the login's own id, before those   *)
(* of later rotations.                                                     *)
FamilyExpires(f) ==
    /\ members[f] # {} /\ authFaults < MaxAuthFaults
    /\ \A k \in stored : familyOf[k] = f => \E j \in 1..k-1 : familyOf[j] = f
    /\ authFaults' = authFaults + 1
    /\ members' = [members EXCEPT ![f] = {}]
    /\ req' = Unclean(req, f)
    /\ UNCHANGED <<stored, marked, familyOf, redisSessions, logins, clientVars,
                   histories>>

(* The page is loaded again: loadTokens.                                   *)
LoadTokens(t) ==
    /\ req[t].at = "idle" /\ held[t] # saved
    /\ held' = [held EXCEPT ![t] = saved]
    /\ UNCHANGED <<redisTokens, redisSessions, logins, saved, req, authFaults,
                   histories>>

SessionNext ==
    \/ \E f \in Families : FamilyExpires(f)
    \/ \E t \in Tabs :
           \/ Login(t) \/ ReadSession(t) \/ SlideSession(t)
           \/ Unindex(t) \/ VerifyPassword(t) \/ ListSession(t) \/ SetIndex(t)
           \/ StoreToken(t) \/ JoinFamily(t)
           \/ Refresh(t) \/ ReadToken(t)
           \/ DeleteOld(t) \/ MarkOld(t)
           \/ Logout(t) \/ LogoutAll(t) \/ VisitKey(t)
           \/ ReadFamily(t) \/ DeleteMember(t) \/ MarkMember(t) \/ DropFamily(t)
           \/ ReadSessions(t) \/ DeleteSessions(t) \/ PipelineFails(t) \/ DropIndex(t)
           \/ SkipFamily(t) \/ RedisFails(t) \/ Answered(t) \/ AnswerLost(t) \/ LoadTokens(t)

SessionSpec == SessionInit /\ [][SessionNext]_sessionVars
-----------------------------------------------------------------------------
(* Tokens are numbered in the order of their issue; marks, members and     *)
(* sessions are among those issued.                                        *)
SessionTypeOK ==
    /\ familyOf \in Seq(Families) /\ stored \cup marked \subseteq Issued
    /\ \A f \in Families : \A k \in members[f] : familyOf[k] = f
    /\ cached \cup listed \subseteq Families /\ loginIndex \in 0..logins
    /\ held \in [Tabs -> {0} \cup Issued] /\ saved \in {0} \cup Issued

(* A tab's token of a family that a logout-all, or the reuse of one of its *)
(* tokens, has ended cannot be exchanged any more, except when a rotation  *)
(* or login of that family overlapped this ending or an earlier one: its   *)
(* id was stored after the keys were scanned or the members read; or when  *)
(* the set of the family had expired; or when a Redis command of its       *)
(* revocation failed, which logout-all passes over and answers success     *)
(* (routes/auth.ts:312, token-manager.ts:154 and 316-323).                 *)
OnlyOverlapsSurvive ==
    \A k \in stored \cap ({saved} \cup {held[t] : t \in Tabs}) :
        familyOf[k] \notin over

(* The login index never leads to a session that a logout-all has ended,   *)
(* although getSession writes back what it read before the deletion.  (A   *)
(* session whose DEL failed in the pipeline was not ended, although the    *)
(* logout-all answers success: session-cache.ts:155-161.)                  *)
EndedSessionsStayEnded == loginIndex \in ended => loginIndex \notin cached

(* What was signed out stays out: tokens of an ended family, sessions of a *)
(* finished logout-all.                                                    *)
SignedOutStaysOut == OnlyOverlapsSurvive /\ EndedSessionsStayEnded

(* A refresh is refused, which signs the tab out, only when a token of its *)
(* family was presented twice (by two tabs, or again after a lost answer), *)
(* the user logged out, or Redis failed.                                   *)
RefusedWithCause ==
    \A t \in Tabs : At(t, "refresh", "no") => req[t].fam \in causes
=============================================================================
