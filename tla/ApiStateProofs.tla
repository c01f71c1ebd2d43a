--------------------------- MODULE ApiStateProofs ---------------------------
(***************************************************************************)
(* Theorems about Accounts, ExamEntry, TestRun, ExamPage, ProctorLog,      *)
(* ScreenCapture and Sessions, for any numbers of people, requests,        *)
(* invitations, replicas, runs, versions, handlers, clicks and tabs, and   *)
(* about all components of MCApiState together.                            *)
(***************************************************************************)
EXTENDS MCApiState, KeystrokeProofs, FiniteSetTheorems, TLAPS

-----------------------------------------------------------------------------
(* Accounts                                                                *)

Statuses == {"NONE", "PENDING", "APPROVED", "REJECTED"}
Rows == [role : Roles, status : Statuses]
AccountOps == {"none", "register", "approve", "reject"} \cup Roles
Acts == [op : AccountOps, at : {"idle", "insert", "read", "write"},
             on : Rows, about : People \cup {"nobody"}]

\* Where each request stands: one that registers is about no row yet, one that
\* writes is about the row of another, which is there.
ActsOK ==
  /\ account \in [People -> Rows]
  /\ act \in [People -> Acts]
  /\ lateActs \in Nat /\ muddled \subseteq People
  /\ ruling \in [People -> Statuses]
  /\ \A p \in People :
       /\ act[p].op = "register" => account[p].status = "NONE"
       /\ act[p].at = "read" => act[p].about \in People \ {p}
       /\ act[p].at = "write" =>
            /\ act[p].about \in People \ {p}
            /\ account[act[p].about].status # "NONE"
            /\ act[p].on.status # "NONE"
       /\ act[p].at \in {"read", "write"} => act[p].op \in {"approve", "reject"} \cup Roles

(* What ActsOK says holds at the start.                                    *)
LEMMA ActsInit == AccountInit => ActsOK
BY DEF AccountInit, ActsOK, Rows, Statuses, AccountOps, Acts, Quiet, NoAccount, Roles

(* A request that is over is a request.                                    *)
LEMMA QuietIsRequest == Quiet \in Acts /\ Quiet.op = "none" /\ Quiet.at = "idle"
BY DEF Quiet, NoAccount, Rows, Roles, Statuses, AccountOps, Acts

(* What CountAdmins leaves: a registration with the row it will insert.    *)
LEMMA Registering ==
  ASSUME NEW w \in Rows
  PROVE  LET y == [Quiet EXCEPT !.op = "register", !.at = "insert", !.on = w]
         IN  y \in Acts /\ y.op = "register" /\ y.at = "insert"
BY QuietIsRequest DEF Acts, AccountOps

(* What Admitted leaves: a request about an account that it will read.     *)
LEMMA Deciding ==
  ASSUME NEW o \in AccountOps, NEW q \in People
  PROVE  LET y == [Quiet EXCEPT !.op = o, !.at = "read", !.about = q]
         IN  y \in Acts /\ y.op = o /\ y.at = "read" /\ y.about = q
BY QuietIsRequest DEF Acts

(* A request put in the place of another leaves the others.                *)
LEMMA PutRequest ==
  ASSUME NEW f \in [People -> Acts], NEW p \in People, NEW x \in Acts
  PROVE  /\ [f EXCEPT ![p] = x] \in [People -> Acts]
         /\ [f EXCEPT ![p] = x][p] = x
         /\ \A q \in People : q # p => [f EXCEPT ![p] = x][q] = f[q]
OBVIOUS

(* Every step of a request keeps ActsOK (routes/auth.ts,                   *)
(* routes/admin-users.ts).                                                 *)
LEMMA ActsStep == ActsOK /\ [AccountNext]_accountVars => ActsOK'
<1> SUFFICES ASSUME ActsOK, [AccountNext]_accountVars PROVE ActsOK'
  OBVIOUS
<1> USE DEF ActsOK
<1>1. ASSUME NEW p \in People, CountAdmins(p) PROVE ActsOK'
  <2>1. PICK r \in Roles, s \in {"APPROVED", "PENDING"} :
          act' = [act EXCEPT ![p] = [Quiet EXCEPT !.op = "register", !.at = "insert",
                                        !.on = [role |-> r, status |-> s]]]
    BY <1>1 DEF CountAdmins
  <2>2. /\ UNCHANGED <<account, ruling, muddled, lateActs>>
        /\ account[p].status = "NONE"
    BY <1>1 DEF CountAdmins
  <2> DEFINE x == [Quiet EXCEPT !.op = "register", !.at = "insert",
                                !.on = [role |-> r, status |-> s]]
  <2>3. act' = [act EXCEPT ![p] = x]
    BY <2>1
  <2>4. [role |-> r, status |-> s] \in Rows /\ "register" \in AccountOps
    BY DEF Rows, Statuses, AccountOps
  <2>5. x \in Acts /\ x.op = "register" /\ x.at = "insert"
    BY <2>4, Registering
  <2> HIDE DEF x
  <2>6. /\ act' \in [People -> Acts] /\ act'[p] = x
        /\ \A q \in People : q # p => act'[q] = act[q]
    BY <2>3, <2>5, PutRequest
  <2> QED
    BY <2>2, <2>5, <2>6
<1>2. ASSUME NEW p \in People, Register(p) PROVE ActsOK'
  <2>1. /\ account' = [account EXCEPT ![p] = act[p].on]
        /\ ruling' = [ruling EXCEPT ![p] = act[p].on.status]
        /\ act' = [act EXCEPT ![p] = Quiet]
        /\ UNCHANGED <<muddled, lateActs>> /\ account[p].status = "NONE"
    BY <1>2 DEF Register
  <2>2. act[p].on \in Rows /\ Quiet.op = "none" /\ Quiet.at = "idle"
    BY QuietIsRequest DEF Acts
  <2>3. account' \in [People -> Rows] /\ ruling' \in [People -> Statuses]
    BY <2>1, <2>2 DEF Rows
  <2>4. act' \in [People -> Acts]
    BY <2>1, QuietIsRequest, PutRequest
  <2>5. ASSUME NEW q \in People PROVE
          /\ act'[q].op = "register" => account'[q].status = "NONE"
          /\ act'[q].at = "read" => act'[q].about \in People \ {q}
          /\ act'[q].at = "write" =>
               /\ act'[q].about \in People \ {q}
               /\ account'[act'[q].about].status # "NONE"
               /\ act'[q].on.status # "NONE"
          /\ act'[q].at \in {"read", "write"} =>
               act'[q].op \in {"approve", "reject"} \cup Roles
    <3>1. CASE q = p
      BY <3>1, <2>1, <2>2
    <3>2. CASE q # p
      <4>1. act'[q] = act[q] /\ account'[q] = account[q]
        BY <3>2, <2>1
      <4>2. act[q].at = "write" => act[q].about # p
        BY <2>1
      <4>3. \A r \in People : r # p => account'[r] = account[r]
        BY <2>1
      <4> QED
        BY <4>1, <4>2, <4>3
    <3> QED
      BY <3>1, <3>2
  <2> QED
    BY <2>1, <2>3, <2>4, <2>5
<1>3. ASSUME NEW p \in People, SignIn(p) PROVE ActsOK'
  BY <1>3 DEF SignIn
<1>4. ASSUME NEW p \in People, Admitted(p) PROVE ActsOK'
  <2>1. PICK q \in People, op \in {"approve", "reject"} \cup Roles :
          /\ q # p
          /\ act' = [act EXCEPT ![p] = [Quiet EXCEPT !.op = op, !.at = "read", !.about = q]]
    BY <1>4 DEF Admitted
  <2> DEFINE x == [Quiet EXCEPT !.op = op, !.at = "read", !.about = q]
  <2>2. act' = [act EXCEPT ![p] = x]
    BY <2>1
  <2>3. op \in AccountOps /\ op # "register"
    BY DEF AccountOps, Roles
  <2>7. x \in Acts /\ x.op = op /\ x.at = "read" /\ x.about = q
    BY ONLY <2>3, q \in People, Deciding
  <2> HIDE DEF x
  <2>4. UNCHANGED <<account, ruling, muddled, lateActs>>
    BY <1>4 DEF Admitted
  <2>5. /\ act' \in [People -> Acts] /\ act'[p] = x
        /\ \A r \in People : r # p => act'[r] = act[r]
    BY <2>2, <2>7, PutRequest
  <2> QED
    BY <2>1, <2>3, <2>4, <2>5, <2>7
<1>5. ASSUME NEW p \in People, ReadAccount(p) PROVE ActsOK'
  <2>1. act[p].at = "read" /\ UNCHANGED <<account, ruling, muddled, lateActs>>
    BY <1>5 DEF ReadAccount
  <2>2. CASE act' = [act EXCEPT ![p] = Quiet]
    <3>1. /\ act' \in [People -> Acts] /\ act'[p] = Quiet
          /\ \A r \in People : r # p => act'[r] = act[r]
      BY <2>2, QuietIsRequest, PutRequest
    <3> QED
      BY <2>1, <3>1, QuietIsRequest
  <2>3. CASE /\ act' = [act EXCEPT ![p].at = "write", ![p].on = account[act[p].about]]
             /\ account[act[p].about].status # "NONE"
    <3>1. act[p].about \in People \ {p} /\ account[act[p].about] \in Rows
      BY <2>1
    <3>6. PICK z \in Acts, w \in Rows : z = act[p] /\ w = account[act[p].about]
      BY <3>1
    <3> DEFINE x == [z EXCEPT !.at = "write", !.on = w]
    <3>2. act' = [act EXCEPT ![p] = x]
      BY <2>3, <3>6
    <3>3. x \in Acts /\ x.op = z.op /\ x.about = z.about /\ x.at = "write" /\ x.on = w
      BY ONLY z \in Acts, w \in Rows DEF Acts
    <3> HIDE DEF x
    <3>5. /\ act' \in [People -> Acts] /\ act'[p] = x
          /\ \A r \in People : r # p => act'[r] = act[r]
      BY <3>2, <3>3, PutRequest
    <3> QED
      BY <2>1, <2>3, <3>1, <3>3, <3>5, <3>6
  <2> QED
    BY <1>5, <2>2, <2>3 DEF ReadAccount
<1>6. ASSUME NEW p \in People, WriteAccount(p) PROVE ActsOK'
  <2> DEFINE q == act[p].about
  <2>1. act[p].at = "write" /\ q \in People \ {p} /\ account[q].status # "NONE"
    BY <1>6 DEF WriteAccount
  <2>2. NewStatus(p) \in Statuses \ {"NONE"}
    BY <2>1 DEF NewStatus, Statuses, Rows, Acts, AccountOps
  <2>3. /\ account' = [account EXCEPT
                         ![q].role = IF act[p].op \in Roles THEN act[p].op ELSE @,
                         ![q].status = NewStatus(p)]
        /\ act' = [act EXCEPT ![p] = Quiet]
    BY <1>6 DEF WriteAccount
  <2>4. account' \in [People -> Rows] /\ account'[q].status = NewStatus(p)
    BY <2>1, <2>2, <2>3 DEF Rows
  <2>5. \A r \in People : r # q => account'[r] = account[r]
    BY <2>3
  <2>6. ruling' \in [People -> Statuses] /\ muddled' \subseteq People /\ lateActs' \in Nat
    <3>1. ruling' = [ruling EXCEPT ![q] = IF act[p].op \notin Roles \/ NeedsApproval(p)
                                           THEN NewStatus(p) ELSE @]
      BY <1>6 DEF WriteAccount
    <3>2. muddled' \subseteq muddled \cup {q}
      BY <1>6 DEF WriteAccount
    <3>3. lateActs' \in {lateActs, lateActs + 1}
      BY <1>6 DEF WriteAccount
    <3> QED
      BY <2>1, <2>2, <3>1, <3>2, <3>3
  <2>7. act' \in [People -> Acts]
    BY <2>3, QuietIsRequest, PutRequest
  <2>8. \A r \in People : act'[r] = IF r = p THEN Quiet ELSE act[r]
    BY <2>3
  <2>9. \A r \in People : account[r].status # "NONE" => account'[r].status # "NONE"
    BY <2>1, <2>2, <2>4, <2>5
  <2>10. \A r \in People : account[r].status = "NONE" => account'[r].status = "NONE"
    BY <2>1, <2>5
  <2> QED
    BY <2>4, <2>6, <2>7, <2>8, <2>9, <2>10, QuietIsRequest
<1>7. CASE UNCHANGED accountVars
  BY <1>7 DEF accountVars
<1> QED
  BY <1>1, <1>2, <1>3, <1>4, <1>5, <1>6, <1>7 DEF AccountNext

(* Requests are in the shape of ActsOK in every state.                     *)
LEMMA ActsAlways == AccountSpec => []ActsOK
BY ActsInit, ActsStep, PTL DEF AccountSpec

(* An approval or a rejection lasts until the next decision, but for the   *)
(* role change that had read the row before it (admin-users.ts:234, 248).  *)
THEOREM DecisionsKeptAlways == AccountSpec => []DecisionsKept
<1>1. AccountInit => DecisionsKept
  BY DEF AccountInit, DecisionsKept, NoAccount
<1>2. ActsOK /\ DecisionsKept /\ [AccountNext]_accountVars => DecisionsKept'
  <2> SUFFICES ASSUME ActsOK, DecisionsKept, [AccountNext]_accountVars
               PROVE  DecisionsKept'
    OBVIOUS
  <2> USE DEF DecisionsKept
  <2>1. ASSUME NEW p \in People,
               \/ CountAdmins(p) \/ SignIn(p) \/ Admitted(p) \/ ReadAccount(p)
        PROVE  DecisionsKept'
    BY <2>1 DEF CountAdmins, SignIn, Admitted, ReadAccount
  <2>2. ASSUME NEW p \in People, Register(p) PROVE DecisionsKept'
    BY <2>2 DEF Register, ActsOK
  <2>3. ASSUME NEW p \in People, WriteAccount(p) PROVE DecisionsKept'
    <3> DEFINE q == act[p].about
               rules == act[p].op \notin Roles \/ NeedsApproval(p)
    <3>1. act[p].at = "write" /\ q \in People \ {p}
      BY <2>3 DEF WriteAccount, ActsOK
    <3>2. account' = [account EXCEPT
                        ![q].role = IF act[p].op \in Roles THEN act[p].op ELSE @,
                        ![q].status = NewStatus(p)]
      BY <2>3 DEF WriteAccount
    <3>3. /\ ruling' = [ruling EXCEPT ![q] = IF rules THEN NewStatus(p) ELSE @]
          /\ muddled' = IF rules THEN muddled \ {q}
                        ELSE muddled \cup {r \in {q} : account[r].status # act[p].on.status}
      BY <2>3 DEF WriteAccount
    <3>4. account \in [People -> Rows] /\ ruling \in [People -> Statuses]
      BY DEF ActsOK
    <3>5. /\ account'[q].status = NewStatus(p)
          /\ \A r \in People : r # q => account'[r] = account[r] /\ ruling'[r] = ruling[r]
      BY <3>1, <3>2, <3>3, <3>4 DEF Rows
    <3>6. CASE rules
      BY <3>1, <3>3, <3>4, <3>5, <3>6
    <3>7. CASE ~rules
      <4>1. NewStatus(p) = act[p].on.status
        BY <3>7 DEF NewStatus, Roles
      <4>2. ruling'[q] = ruling[q]
        BY <3>1, <3>3, <3>4, <3>7
      <4>3. \A r \in People : r \notin muddled' => r \notin muddled
        BY <3>3, <3>7
      <4>4. q \notin muddled' => account[q].status = act[p].on.status
        BY <3>3, <3>7
      <4> QED
        BY <3>1, <3>5, <4>1, <4>2, <4>3, <4>4
    <3> QED
      BY <3>6, <3>7
  <2>4. CASE UNCHANGED accountVars
    BY <2>4 DEF accountVars
  <2> QED
    BY <2>1, <2>2, <2>3, <2>4 DEF AccountNext
<1> QED
  BY <1>1, <1>2, ActsAlways, PTL DEF AccountSpec

(* Administrators who decide about each other cannot all lose their        *)
(* accounts while each still is one when its decision is written           *)
(* (requireRole and the comparison of ids in routes/admin-users.ts).       *)
THEOREM AdminsRemainAlways == AccountSpec => AdminsRemain
<1> DEFINE Step == ApprovedAdmins # {} /\ ApprovedAdmins' = {} => lateActs' > lateActs
<1>1. ActsOK /\ [AccountNext]_accountVars => [Step]_accountVars
  <2> SUFFICES ASSUME ActsOK, AccountNext, ApprovedAdmins # {}, ApprovedAdmins' = {}
               PROVE  lateActs' > lateActs
    OBVIOUS
  <2>1. ASSUME NEW p \in People,
               \/ CountAdmins(p) \/ SignIn(p) \/ Admitted(p) \/ ReadAccount(p)
        PROVE  FALSE
    BY <2>1 DEF CountAdmins, SignIn, Admitted, ReadAccount, ApprovedAdmins
  <2>2. ASSUME NEW p \in People, Register(p) PROVE FALSE
    <3>1. /\ account' = [account EXCEPT ![p] = act[p].on]
          /\ account[p].status = "NONE"
      BY <2>2 DEF Register, ActsOK
    <3>2. PICK a \in ApprovedAdmins : TRUE
      OBVIOUS
    <3>3. a \in People /\ a # p
      BY <3>1, <3>2 DEF ApprovedAdmins
    <3>4. account'[a] = account[a]
      BY <3>1, <3>3 DEF ActsOK
    <3> QED
      BY <3>2, <3>3, <3>4 DEF ApprovedAdmins
  <2>3. ASSUME NEW p \in People, WriteAccount(p) PROVE lateActs' > lateActs
    <3>1. act[p].about \in People \ {p}
      BY <2>3 DEF WriteAccount, ActsOK
    <3>2. account'[p] = account[p]
      BY <2>3, <3>1 DEF WriteAccount, ActsOK
    <3>3. p \notin ApprovedAdmins
      BY <3>2 DEF ApprovedAdmins
    <3>4. lateActs' = lateActs + 1 /\ lateActs \in Nat
      BY <2>3, <3>3 DEF WriteAccount, ActsOK
    <3> QED
      BY <3>4
  <2> QED
    BY <2>1, <2>2, <2>3 DEF AccountNext
<1> QED
  BY <1>1, ActsAlways, PTL DEF AccountSpec, AdminsRemain
-----------------------------------------------------------------------------
(* ExamEntry                                                                *)

Calls == [op : {"none", "start", "accept", "publish", "unpublish", "invite", "delete"},
          at : {"idle", "attempts", "mark", "insert", "set", "count", "sweep", "exam", "ended"},
          inv : Invites \cup {NoInvite}, seen : Nat]

\* What an entry under way has read: below the limit, and that nothing was in
\* progress unless a row has come since.
EntryReads(c) ==
  /\ c.op \in {"start", "accept"} /\ c.at \in {"mark", "insert"} =>
       /\ c.seen < AttemptLimit /\ c.seen <= begun
       /\ c.seen = begun => inProgress = 0
  /\ c.op = "start" => c.inv = NoInvite
  /\ c.op = "accept" => c.inv \in Invites
  /\ c.op = "delete" => c.seen = 0
  /\ c.at = "idle" => c.inv = NoInvite /\ c.seen = 0

EntryOK ==
  /\ call \in [Requests -> Calls]
  /\ begun \in Nat /\ inProgress \in 0..begun /\ stale \in Nat /\ entryFaults \in Nat
  /\ \A h \in Requests : EntryReads(call[h])

\* A used invitation is at the insertion of its attempt, or has one, or failed.
MarksKept ==
  /\ invite \in [Invites -> {"none", "open", "used", "swept"}]
  /\ \A i \in Invites : invite[i] = "used" =>
       \/ begun > 0 \/ i \in spent
       \/ \E h \in Requests : Is(h, "accept", "insert") /\ call[h].inv = i

EntryInv == EntryOK /\ AttemptsExplained /\ MarksKept /\ SweptInvitesExplained

(* A request that has been answered.                                       *)
LEMMA EndedIsCall == Ended \in Calls /\ Ended.op = "none" /\ Ended.at = "ended"
<1>1. Fresh \in Calls /\ Fresh.op = "none"
  BY DEF Fresh, Calls
<1> QED
  BY <1>1 DEF Ended, Calls

(* A request with an invitation asks for the attempts first.               *)
LEMMA Accepts ==
  ASSUME NEW i \in Invites
  PROVE  LET x == [Fresh EXCEPT !.op = "accept", !.at = "attempts", !.inv = i]
         IN  x \in Calls /\ x.op = "accept" /\ x.at = "attempts" /\ x.inv = i
<1>1. Fresh \in Calls
  BY DEF Fresh, Calls
<1> QED
  BY <1>1 DEF Calls

(* One request moves and no attempt comes or goes.                         *)
LEMMA OneMoves ==
  ASSUME EntryOK, NEW h \in Requests, NEW x \in Calls, EntryReads(x),
         call' = [call EXCEPT ![h] = x], UNCHANGED <<begun, inProgress>>,
         stale' \in Nat, entryFaults' \in Nat
  PROVE  /\ EntryOK' /\ call'[h] = x
         /\ \A k \in Requests : k # h => call'[k] = call[k]
<1>1. /\ call'[h] = x /\ \A k \in Requests : k # h => call'[k] = call[k]
      /\ call' \in [Requests -> Calls]
  BY DEF EntryOK
<1>2. ASSUME NEW k \in Requests PROVE EntryReads(call[k])'
  <2>1. CASE k = h
    BY <1>1, <2>1 DEF EntryReads
  <2>2. CASE k # h
    BY <1>1, <2>2 DEF EntryReads, EntryOK
  <2> QED
    BY <2>1, <2>2
<1> QED
  BY <1>1, <1>2 DEF EntryOK

(* A step that only moves a request which is not at a step that matters.   *)
LEMMA Passes ==
  ASSUME EntryInv, NEW h \in Requests, NEW x \in Calls, EntryReads(x),
         call' = [call EXCEPT ![h] = x], UNCHANGED <<rows, entryFaults, entryPast>>,
         ~Is(h, "accept", "insert"), ~Is(h, "delete", "exam")
  PROVE  EntryInv'
<1>1. EntryOK' /\ \A k \in Requests : k # h => call'[k] = call[k]
  BY OneMoves DEF EntryInv, EntryOK, rows, entryPast
<1>2. AttemptsExplained'
  BY DEF EntryInv, AttemptsExplained, rows, entryPast
<1>3. MarksKept'
  BY <1>1 DEF EntryInv, MarksKept, Is, rows, entryPast
<1>4. SweptInvitesExplained'
  BY <1>1 DEF EntryInv, SweptInvitesExplained, Is, rows, entryPast
<1> QED
  BY <1>1, <1>2, <1>3, <1>4 DEF EntryInv

(* What EntryInv says holds at the start.                                  *)
LEMMA EntryStart == EntryInit => EntryInv
BY EntryAssumption
   DEF EntryInit, EntryInv, EntryOK, Calls, EntryReads, Fresh, AttemptsExplained,
       MarksKept, SweptInvitesExplained, Is

(* A start, an acceptance, a publication and the rest of the requests up   *)
(* to their first write.                                                   *)
LEMMA ReadsStep ==
  ASSUME EntryInv, NEW h \in Requests,
         \/ StartAttempt(h) \/ ReadAttempts(h) \/ AcceptInvite(h) \/ ReadAnyAttempt(h)
         \/ Publish(h) \/ Unpublish(h) \/ CreateInvite(h) \/ DeleteExam(h)
         \/ CountAttempts(h)
  PROVE  EntryInv'
<1>1. UNCHANGED <<rows, entryFaults, entryPast>>
  BY DEF StartAttempt, ReadAttempts, AcceptInvite, ReadAnyAttempt, Publish, Unpublish,
         CreateInvite, DeleteExam, CountAttempts
<1>2. /\ call \in [Requests -> Calls] /\ call[h] \in Calls /\ EntryReads(call[h])
      /\ begun \in Nat /\ inProgress \in 0..begun
  BY DEF EntryInv, EntryOK
<1>3. ~Is(h, "accept", "insert") /\ ~Is(h, "delete", "exam")
  BY DEF StartAttempt, ReadAttempts, AcceptInvite, ReadAnyAttempt, Publish, Unpublish,
         CreateInvite, DeleteExam, CountAttempts, Ask, Is
<1> SUFFICES \E x \in Calls : EntryReads(x) /\ call' = [call EXCEPT ![h] = x]
  BY <1>1, <1>3, Passes
<1>4. ASSUME Answer(h) PROVE \E x \in Calls : EntryReads(x) /\ call' = [call EXCEPT ![h] = x]
  BY <1>4, EndedIsCall DEF Answer, EntryReads
<1>5. ASSUME NEW o \in {"publish", "unpublish", "invite", "delete", "start"},
             NEW a \in {"attempts", "insert", "set", "count"}, Ask(h, o, a),
             a = "insert" => o = "invite"
      PROVE  \E x \in Calls : EntryReads(x) /\ call' = [call EXCEPT ![h] = x]
  <2>4. PICK c \in Calls : c = call[h]
    BY <1>2
  <2> DEFINE x == [c EXCEPT !.op = o, !.at = a]
  <2>1. call' = [call EXCEPT ![h] = x]
    BY <1>5, <2>4 DEF Ask
  <2>2. x \in Calls /\ x.op = o /\ x.at = a /\ x.inv = c.inv /\ x.seen = c.seen
    BY ONLY c \in Calls, o \in {"publish", "unpublish", "invite", "delete", "start"},
            a \in {"attempts", "insert", "set", "count"} DEF Calls
  <2> HIDE DEF x
  <2>3. call[h].at = "idle"
    BY <1>5 DEF Ask
  <2> QED
    BY <2>1, <2>2, <2>3, <2>4, <1>2, <1>5 DEF EntryReads
<1>6. ASSUME NEW a \in {"insert", "mark", "sweep"},
             call' = [call EXCEPT ![h].at = a, ![h].seen = begun],
             call[h].op = "start" => a = "insert" /\ begun < AttemptLimit,
             call[h].op = "accept" => a = "mark" /\ begun < AttemptLimit,
             call[h].op = "delete" => a = "sweep" /\ begun = 0,
             call[h].op \in {"start", "accept"} => inProgress = 0
      PROVE  \E x \in Calls : EntryReads(x) /\ call' = [call EXCEPT ![h] = x]
  <2>3. PICK c \in Calls, n \in Nat : c = call[h] /\ n = begun
    BY <1>2
  <2> DEFINE x == [c EXCEPT !.at = a, !.seen = n]
  <2>1. call' = [call EXCEPT ![h] = x]
    BY <1>6, <2>3
  <2>2. x \in Calls /\ x.op = c.op /\ x.at = a /\ x.inv = c.inv /\ x.seen = n
    BY ONLY c \in Calls, n \in Nat, a \in {"insert", "mark", "sweep"} DEF Calls
  <2> HIDE DEF x
  <2> QED
    <3>1. x.op \in {"start", "accept"} =>
            x.seen < AttemptLimit /\ x.seen <= begun /\ inProgress = 0
      BY <1>2, <1>6, <2>2, <2>3
    <3>2. x.op = "start" => x.inv = NoInvite
      BY <1>2, <2>2, <2>3 DEF EntryReads
    <3>3. x.op = "accept" => x.inv \in Invites
      BY <1>2, <2>2, <2>3 DEF EntryReads
    <3>4. (x.op = "delete" => x.seen = 0) /\ x.at # "idle"
      BY <1>6, <2>2, <2>3
    <3> QED
      BY <2>1, <2>2, <3>1, <3>2, <3>3, <3>4 DEF EntryReads
<1>7. ASSUME AcceptInvite(h)
      PROVE  \E x \in Calls : EntryReads(x) /\ call' = [call EXCEPT ![h] = x]
  <2>1. PICK i \in Invites :
          call' = [call EXCEPT ![h] = [Fresh EXCEPT !.op = "accept", !.at = "attempts",
                                                    !.inv = i]]
    BY <1>7 DEF AcceptInvite
  <2> DEFINE x == [Fresh EXCEPT !.op = "accept", !.at = "attempts", !.inv = i]
  <2>2. x \in Calls /\ x.op = "accept" /\ x.at = "attempts" /\ x.inv = i
    BY ONLY i \in Invites, Accepts
  <2>3. call' = [call EXCEPT ![h] = x]
    BY <2>1
  <2> HIDE DEF x
  <2> QED
    BY <2>2, <2>3 DEF EntryReads
<1>8. CASE StartAttempt(h) \/ Publish(h) \/ Unpublish(h) \/ CreateInvite(h) \/ DeleteExam(h)
  <2>1. \/ Ask(h, "start", "attempts") \/ Ask(h, "publish", "set") \/ Ask(h, "unpublish", "set")
        \/ Ask(h, "invite", "insert") \/ Ask(h, "delete", "count")
    BY <1>8 DEF StartAttempt, Publish, Unpublish, CreateInvite, DeleteExam
  <2> QED
    BY <2>1, <1>5
<1>9. CASE ReadAttempts(h)
  BY <1>2, <1>4, <1>6, <1>9, EntryAssumption DEF ReadAttempts, Is
<1>10. CASE ReadAnyAttempt(h)
  BY <1>2, <1>4, <1>6, <1>10, EntryAssumption DEF ReadAnyAttempt, Is
<1>11. CASE CountAttempts(h)
  BY <1>2, <1>4, <1>6, <1>11, EntryAssumption DEF CountAttempts, Is
<1> QED
  BY <1>7, <1>8, <1>9, <1>10, <1>11

(* The mark of an invitation is followed by the insertion.                 *)
LEMMA MarkStep == ASSUME EntryInv, NEW h \in Requests, MarkUsed(h) PROVE EntryInv'
<1>1. PICK c \in Calls : c = call[h]
  BY DEF EntryInv, EntryOK
<1> DEFINE x == [c EXCEPT !.at = "insert"]
<1>2. x \in Calls /\ x.at = "insert" /\ x.op = c.op /\ x.inv = c.inv /\ x.seen = c.seen
  BY DEF Calls
<1>3. /\ c.op = "accept" /\ c.at = "mark" /\ call' = [call EXCEPT ![h] = x]
      /\ invite' = [invite EXCEPT ![c.inv] = IF @ = "open" THEN "used" ELSE @]
      /\ UNCHANGED <<exam, begun, inProgress, entryFaults, stale, spent, overtaken>>
  BY <1>1 DEF MarkUsed, Is, Advance, entryPast
<1> HIDE DEF x
<1>4. EntryReads(c) /\ c.inv \in Invites
  BY <1>1, <1>3 DEF EntryInv, EntryOK, EntryReads
<1>5. EntryReads(x)
  BY <1>2, <1>3, <1>4 DEF EntryReads
<1>6. /\ EntryOK' /\ call'[h] = x
      /\ \A k \in Requests : k # h => call'[k] = call[k]
  BY <1>2, <1>3, <1>5, OneMoves DEF EntryInv, EntryOK
<1>7. AttemptsExplained'
  BY <1>3 DEF EntryInv, AttemptsExplained
<1>8. Is(h, "accept", "insert")' /\ call'[h].inv = c.inv
  BY <1>2, <1>3, <1>6 DEF Is
<1>9. \A k \in Requests, o \in {"accept", "delete"}, a \in {"insert", "exam"} :
        Is(k, o, a) => Is(k, o, a)' /\ call'[k] = call[k]
  BY <1>1, <1>3, <1>6 DEF Is
<1>10. MarksKept'
  <2>1. invite' \in [Invites -> {"none", "open", "used", "swept"}]
    BY <1>3 DEF EntryInv, MarksKept
  <2>2. \A i \in Invites : invite'[i] = "used" => invite[i] = "used" \/ i = c.inv
    BY <1>3 DEF EntryInv, MarksKept
  <2> QED
    BY <1>3, <1>8, <1>9, <2>1, <2>2 DEF EntryInv, MarksKept
<1>11. SweptInvitesExplained'
  <2>1. \A i \in Invites : invite'[i] = "swept" => invite[i] = "swept"
    BY <1>3 DEF EntryInv, MarksKept
  <2> QED
    BY <1>3, <1>9, <2>1 DEF EntryInv, SweptInvitesExplained
<1> QED
  BY <1>6, <1>7, <1>10, <1>11 DEF EntryInv

(* The answer to a request keeps EntryOK and leaves the others.            *)
LEMMA AnswerKeeps ==
  ASSUME EntryOK, NEW h \in Requests, Answer(h), UNCHANGED <<begun, inProgress>>,
         stale' \in Nat, entryFaults' \in Nat
  PROVE  /\ EntryOK' /\ call'[h] = Ended
         /\ \A k \in Requests : k # h => call'[k] = call[k]
<1>1. EntryReads(Ended)
  BY EndedIsCall DEF EntryReads
<1> QED
  BY <1>1, EndedIsCall, OneMoves DEF Answer

(* The insertion of an attempt, or its refusal by the foreign key.         *)
LEMMA InsertStep == ASSUME EntryInv, NEW h \in Requests, InsertAttempt(h) PROVE EntryInv'
<1>1. /\ call[h].op \in {"start", "accept"} /\ call[h].at = "insert" /\ Answer(h)
      /\ UNCHANGED <<exam, invite, entryFaults, overtaken>>
  BY DEF InsertAttempt
<1>2. /\ call' \in [Requests -> Calls] /\ call'[h] = Ended
      /\ \A k \in Requests : k # h => call'[k] = call[k]
  BY <1>1, EndedIsCall DEF Answer, EntryInv, EntryOK
<1>3. ~Is(h, "delete", "exam") /\ SweptInvitesExplained'
  <2>1. ~Is(h, "delete", "exam")
    BY <1>1 DEF Is
  <2> QED
    BY <1>1, <1>2, <2>1 DEF Is, EntryInv, SweptInvitesExplained
<1>4. CASE exam = "gone"
  <2>1. /\ spent' = spent \cup ({call[h].inv} \ {NoInvite})
        /\ UNCHANGED <<begun, inProgress, stale>>
    BY <1>4 DEF InsertAttempt
  <2>2. EntryOK'
    BY <1>1, <2>1, AnswerKeeps DEF EntryInv, EntryOK
  <2>3. AttemptsExplained'
    BY <2>1 DEF EntryInv, AttemptsExplained
  <2>4. MarksKept'
    <3> SUFFICES ASSUME NEW i \in Invites, invite[i] = "used"
                 PROVE  \/ begun > 0 \/ i \in spent'
                        \/ \E k \in Requests : Is(k, "accept", "insert")' /\ call'[k].inv = i
      BY <1>1, <2>1 DEF MarksKept, EntryInv
    <3>1. CASE begun > 0 \/ i \in spent
      BY <2>1, <3>1
    <3>2. ASSUME NEW k \in Requests, Is(k, "accept", "insert"), call[k].inv = i
          PROVE  i \in spent' \/ (Is(k, "accept", "insert")' /\ call'[k].inv = i)
      <4>1. CASE k = h
        <5>1. i # NoInvite /\ i = call[h].inv
          BY <3>2, <4>1, EntryAssumption
        <5> QED
          BY <2>1, <5>1
      <4>2. CASE k # h
        BY <1>2, <3>2, <4>2 DEF Is
      <4> QED
        BY <4>1, <4>2
    <3> QED
      BY <3>1, <3>2 DEF EntryInv, MarksKept
  <2> QED
    BY <1>3, <2>2, <2>3, <2>4 DEF EntryInv
<1>5. CASE exam # "gone"
  <2>1. /\ begun' = begun + 1 /\ inProgress' = inProgress + 1 /\ UNCHANGED spent
        /\ stale' = IF begun = call[h].seen THEN stale ELSE stale + 1
    BY <1>5 DEF InsertAttempt
  <2>2. /\ begun \in Nat /\ inProgress \in 0..begun /\ stale \in Nat /\ EntryReads(call[h])
        /\ call[h].seen \in Nat /\ entryFaults \in Nat
    BY DEF EntryInv, EntryOK, Calls
  <2>3. EntryOK'
    <3>1. ASSUME NEW k \in Requests PROVE EntryReads(call[k])'
      <4>1. CASE k = h
        BY <1>2, <4>1, EndedIsCall DEF EntryReads, Ended, Fresh
      <4>2. CASE k # h
        <5>1. EntryReads(call[k]) /\ call'[k] = call[k] /\ call[k].seen \in Nat
          BY <1>2, <4>2 DEF EntryInv, EntryOK, Calls
        <5> QED
          BY <2>1, <2>2, <5>1 DEF EntryReads
      <4> QED
        BY <4>1, <4>2
    <3> QED
      BY <1>1, <1>2, <2>1, <2>2, <3>1 DEF EntryOK
  <2>4. AttemptsExplained'
    <3>1. call[h].seen < AttemptLimit /\ (call[h].seen = begun => inProgress = 0)
      BY <1>1, <2>2 DEF EntryReads
    <3> QED
      BY <2>1, <2>2, <3>1, EntryAssumption DEF EntryInv, AttemptsExplained
  <2>5. MarksKept'
    BY <1>1, <2>1, <2>2 DEF EntryInv, MarksKept
  <2> QED
    BY <1>3, <2>3, <2>4, <2>5 DEF EntryInv
<1> QED
  BY <1>4, <1>5

(* The writes of an administrator's requests, and a database error.        *)
LEMMA WritesStep ==
  ASSUME EntryInv, NEW h \in Requests,
         SetPublished(h) \/ InsertInvite(h) \/ DropExam(h) \/ RequestFails(h)
  PROVE  EntryInv'
<1>1. /\ Answer(h) /\ UNCHANGED <<begun, inProgress, stale>>
      /\ entryFaults' \in {entryFaults, entryFaults + 1}
  BY DEF SetPublished, InsertInvite, DropExam, RequestFails, rows, entryPast
<1>2. /\ EntryOK' /\ call'[h] = Ended
      /\ \A k \in Requests : k # h => call'[k] = call[k]
  <2>1. EntryOK /\ stale' \in Nat /\ entryFaults' \in Nat
    BY <1>1 DEF EntryInv, EntryOK
  <2> QED
    BY <1>1, <2>1, AnswerKeeps
<1>3. AttemptsExplained'
  BY <1>1 DEF EntryInv, AttemptsExplained
<1>4. ASSUME ~Is(h, "accept", "insert"), UNCHANGED spent,
             invite' \in [Invites -> {"none", "open", "used", "swept"}],
             \A i \in Invites : invite'[i] = "used" => invite[i] = "used"
      PROVE  MarksKept'
  BY <1>1, <1>2, <1>4 DEF EntryInv, MarksKept, Is
<1>5. ASSUME ~Is(h, "delete", "exam"), UNCHANGED <<overtaken, entryFaults>>,
             exam = "gone" => exam' = "gone",
             \A i \in Invites : invite'[i] = "swept" => invite[i] = "swept"
      PROVE  SweptInvitesExplained'
  BY <1>1, <1>2, <1>5 DEF EntryInv, SweptInvitesExplained, Is
<1>6. CASE SetPublished(h)
  <2>1. /\ exam = "gone" => exam' = "gone"
        /\ UNCHANGED <<invite, spent, overtaken, entryFaults>>
    BY <1>6 DEF SetPublished, entryPast
  <2>2. ~Is(h, "accept", "insert") /\ ~Is(h, "delete", "exam")
    BY <1>6 DEF SetPublished, Is
  <2> QED
    BY <1>2, <1>3, <1>4, <1>5, <2>1, <2>2 DEF EntryInv, MarksKept
<1>7. CASE InsertInvite(h)
  <2>1. UNCHANGED <<exam, spent, overtaken, entryFaults>>
    BY <1>7 DEF InsertInvite, entryPast
  <2>2. ~Is(h, "accept", "insert") /\ ~Is(h, "delete", "exam")
    BY <1>7 DEF InsertInvite, Is
  <2>3. /\ invite' \in [Invites -> {"none", "open", "used", "swept"}]
        /\ \A i \in Invites : invite'[i] \in {"used", "swept"} => invite'[i] = invite[i]
    BY <1>7 DEF InsertInvite, EntryInv, MarksKept
  <2>4. MarksKept'
    BY <1>4, <2>1, <2>2, <2>3
  <2>5. SweptInvitesExplained'
    BY <1>5, <2>1, <2>2, <2>3
  <2> QED
    BY <1>2, <1>3, <2>4, <2>5 DEF EntryInv
<1>8. CASE DropExam(h)
  <2> DEFINE newer == begun > call[h].seen \/ \E i \in Invites : invite[i] \in {"open", "used"}
  <2>1. /\ exam' = IF begun > 0 \/ newer THEN exam ELSE "gone"
        /\ overtaken' = (overtaken \/ newer) /\ UNCHANGED <<invite, spent, entryFaults>>
    BY <1>8 DEF DropExam
  <2>2. call[h].op = "delete" /\ call[h].seen = 0 /\ ~Is(h, "accept", "insert")
    BY <1>8 DEF DropExam, Is, EntryInv, EntryOK, EntryReads
  <2>3. MarksKept'
    BY <1>4, <2>1, <2>2 DEF EntryInv, MarksKept
  <2>4. CASE begun > 0 \/ newer
    <3>1. overtaken'
      BY <2>1, <2>2, <2>4
    <3> QED
      BY <1>2, <1>3, <2>3, <3>1 DEF EntryInv, SweptInvitesExplained
  <2>5. CASE ~(begun > 0 \/ newer)
    <3>1. exam' = "gone"
      BY <2>1, <2>5
    <3> QED
      BY <1>2, <1>3, <2>3, <3>1 DEF EntryInv, SweptInvitesExplained
  <2> QED
    BY <2>4, <2>5
<1>9. CASE RequestFails(h)
  <2>1. /\ entryFaults' > 0 /\ UNCHANGED <<exam, invite>>
        /\ spent' = IF Is(h, "accept", "insert") THEN spent \cup {call[h].inv} ELSE spent
    BY <1>9 DEF RequestFails, rows, EntryInv, EntryOK
  <2>2. SweptInvitesExplained'
    BY <2>1 DEF SweptInvitesExplained
  <2>3. MarksKept'
    <3>1. ASSUME NEW i \in Invites, NEW k \in Requests,
                 Is(k, "accept", "insert"), call[k].inv = i
          PROVE  i \in spent' \/ (Is(k, "accept", "insert")' /\ call'[k].inv = i)
      <4>1. CASE k = h
        BY <2>1, <3>1, <4>1
      <4>2. CASE k # h
        BY <1>2, <3>1, <4>2 DEF Is
      <4> QED
        BY <4>1, <4>2
    <3>2. spent \subseteq spent'
      BY <2>1
    <3> QED
      BY <1>1, <2>1, <3>1, <3>2 DEF EntryInv, MarksKept
  <2> QED
    BY <1>2, <1>3, <2>2, <2>3 DEF EntryInv
<1> QED
  BY <1>6, <1>7, <1>8, <1>9

(* The deletion of an exam's invitations is followed by that of its row.   *)
LEMMA SweepStep == ASSUME EntryInv, NEW h \in Requests, SweepInvites(h) PROVE EntryInv'
<1>1. PICK c \in Calls : c = call[h]
  BY DEF EntryInv, EntryOK
<1> DEFINE x == [c EXCEPT !.at = "exam"]
<1>2. x \in Calls /\ x.at = "exam" /\ x.op = c.op /\ x.inv = c.inv /\ x.seen = c.seen
  BY DEF Calls
<1>3. /\ c.op = "delete" /\ c.at = "sweep" /\ call' = [call EXCEPT ![h] = x]
      /\ invite' = [i \in Invites |-> IF invite[i] = "none" THEN "none" ELSE "swept"]
      /\ UNCHANGED <<exam, begun, inProgress, entryFaults, stale, spent, overtaken>>
  BY <1>1 DEF SweepInvites, Is, Advance, entryPast
<1> HIDE DEF x
<1>4. EntryReads(x)
  BY <1>1, <1>2, <1>3 DEF EntryReads, EntryInv, EntryOK
<1>5. EntryOK' /\ call'[h] = x
  BY <1>2, <1>3, <1>4, OneMoves DEF EntryInv, EntryOK
<1>6. AttemptsExplained' /\ MarksKept'
  BY <1>3 DEF EntryInv, AttemptsExplained, MarksKept
<1>7. SweptInvitesExplained'
  BY <1>2, <1>3, <1>5 DEF SweptInvitesExplained, Is
<1> QED
  BY <1>5, <1>6, <1>7 DEF EntryInv

(* Every step keeps what EntryInv says.                                    *)
LEMMA EntryStep == EntryInv /\ [EntryNext]_entryVars => EntryInv'
<1> SUFFICES ASSUME EntryInv, [EntryNext]_entryVars PROVE EntryInv'
  OBVIOUS
<1>1. CASE AttemptOver
  <2>1. /\ inProgress > 0 /\ inProgress' = inProgress - 1
        /\ UNCHANGED <<exam, invite, begun, call, entryFaults, stale, spent, overtaken>>
    BY <1>1 DEF AttemptOver, entryPast
  <2>2. EntryOK'
    <3>1. \A h \in Requests : EntryReads(call[h])'
      BY <2>1 DEF EntryReads, EntryInv, EntryOK
    <3> QED
      BY <2>1, <3>1 DEF EntryInv, EntryOK
  <2>3. AttemptsExplained'
    BY <2>1 DEF EntryInv, EntryOK, AttemptsExplained
  <2>4. MarksKept' /\ SweptInvitesExplained'
    BY <2>1 DEF EntryInv, MarksKept, SweptInvitesExplained, Is
  <2> QED
    BY <2>2, <2>3, <2>4 DEF EntryInv
<1>2. CASE UNCHANGED entryVars
  BY <1>2 DEF entryVars, entryPast, EntryInv, EntryOK, EntryReads, AttemptsExplained,
              MarksKept, SweptInvitesExplained, Is
<1> QED
  BY <1>1, <1>2, ReadsStep, MarkStep, InsertStep, WritesStep, SweepStep DEF EntryNext

(* The limit of attempts, one at a time, the use of an invitation and what *)
(* the deletion of an exam leaves are as EntriesExplained says, however    *)
(* the requests interleave (attempts.ts:150-219, exams.ts:196-424).        *)
THEOREM EntriesExplainedAlways == EntrySpec => []EntriesExplained
<1>1. EntryInv => EntriesExplained
  BY DEF EntryInv, MarksKept, EntriesExplained, UsedInvitesExplained
<1> QED
  BY <1>1, EntryStep, EntryStart, PTL DEF EntrySpec
-----------------------------------------------------------------------------
(* TestRun                                                                  *)

\* Runs in the air may still be graded or have their result announced.
InTheAir(k) == k \in jobs \/ (\E c \in copies : c[2] = k) \/ request[k] \in {"lock", "queue"}
OwnOrAired(k) == k \in {0, clicks} \/ (clicks \in Clicks /\ k \in aired[clicks])

\* What the page knows: its run is the last one, its results that run's own
\* or of one that was in the air when it began.
PageOK ==
  /\ clicks \in 0..MaxClicks /\ started \in {0, clicks}
  /\ shown \in [Clicks -> 0..MaxClicks]
  /\ aired \in [Clicks -> SUBSET (0..MaxClicks)]
  /\ \A r \in Clicks : r > clicks => shown[r] = 0
  /\ ShownIsOwn

\* The requests and the jobs they became.
RequestsOK ==
  /\ request \in [Clicks -> {"none", "lock", "queue", "queued", "refused", "done"}]
  /\ \A r \in Clicks : r > clicks => request[r] = "none"
  /\ jobs \subseteq Clicks
  /\ \A r \in jobs : request[r] \in {"queued", "done"}
  /\ \A c \in copies : c[2] \in Clicks

\* The lock is held by what it protects, or went without it.
LockOK ==
  /\ lock \in 0..MaxClicks
  /\ \A r \in Clicks : (r \in jobs \/ request[r] = "queue") => r = lock \/ r \in loose

\* What can still be shown.
ResultsOK ==
  /\ \A k \in Clicks : InTheAir(k) => OwnOrAired(k)
  /\ row.after \in 0..clicks /\ row.job \in 0..MaxClicks
  /\ row.after = clicks => OwnOrAired(row.job)
  /\ \A q \in polls :
       /\ q.start \in 0..clicks /\ q.read.after \in 0..clicks /\ q.read.job \in 0..MaxClicks
       /\ q.read.after >= q.start => OwnOrAired(q.read.job)

RunsOK == PageOK /\ RequestsOK /\ LockOK /\ ResultsOK

(* What RunsOK says holds at the start.                                    *)
LEMMA RunsInit == RunInit => RunsOK
BY RunAssumption
   DEF RunInit, RunsOK, PageOK, RequestsOK, LockOK, ResultsOK, Clicks, InTheAir, OwnOrAired,
       ShownIsOwn

(* A result that may be shown is shown for the run it may be shown for.    *)
LEMMA ShowKeeps ==
  ASSUME PageOK, NEW j \in 0..MaxClicks, OwnOrAired(j), ShowResult(j),
         UNCHANGED <<clicks, aired, misread>>
  PROVE  PageOK'
<1>1. /\ started' = 0
      /\ shown' = [r \in Clicks |-> IF r = started THEN j ELSE shown[r]]
  BY DEF ShowResult, StopRun
<1>2. ShownIsOwn'
  BY <1>1 DEF PageOK, ShownIsOwn, OwnOrAired, Clicks
<1>3. \A r \in Clicks : r > clicks => shown'[r] = 0
  BY <1>1 DEF PageOK, Clicks
<1>4. shown' \in [Clicks -> 0..MaxClicks]
  BY <1>1 DEF PageOK
<1> QED
  BY <1>1, <1>2, <1>3, <1>4 DEF PageOK

(* A result of an older row is shown for a run that is misread from then.  *)
LEMMA MisreadKeeps ==
  ASSUME PageOK, NEW j \in 0..MaxClicks, ShowResult(j), UNCHANGED <<clicks, aired>>,
         misread' = misread \cup ({started} \cap Clicks)
  PROVE  PageOK'
<1>1. /\ started' = 0
      /\ shown' = [r \in Clicks |-> IF r = started THEN j ELSE shown[r]]
  BY DEF ShowResult, StopRun
<1>2. ShownIsOwn'
  BY <1>1 DEF PageOK, ShownIsOwn
<1>3. \A r \in Clicks : r > clicks => shown'[r] = 0
  BY <1>1 DEF PageOK, Clicks
<1>4. shown' \in [Clicks -> 0..MaxClicks]
  BY <1>1 DEF PageOK
<1> QED
  BY <1>1, <1>2, <1>3, <1>4 DEF PageOK

(* Where the page shows nothing, PageOK is kept.                           *)
LEMMA QuietKeeps ==
  ASSUME PageOK, UNCHANGED <<clicks, aired, shown, misread>>, started' \in {0, started}
  PROVE  PageOK'
BY DEF PageOK, ShownIsOwn

(* What the page does leaves the results that can be shown as they were.   *)
LEMMA ResultsKept ==
  ASSUME ResultsOK, UNCHANGED <<clicks, aired, row>>, polls' \subseteq polls,
         \A k \in Clicks : InTheAir(k)' => InTheAir(k)
  PROVE  ResultsOK'
BY DEF ResultsOK, OwnOrAired

(* A lock that goes leaves its run loose.                                  *)
LEMMA UnlockKeeps ==
  ASSUME LockOK, Unlock, UNCHANGED jobs, RunAssumption,
         \A r \in Clicks : request'[r] = "queue" => request[r] = "queue"
  PROVE  LockOK'
BY DEF LockOK, Unlock, Clicks, RunAssumption

(* Every step keeps what RunsOK says (page.tsx, attempts.ts, index.ts).    *)
LEMMA RunsStep == RunsOK /\ [RunNext]_runVars => RunsOK'
<1> SUFFICES ASSUME RunsOK, [RunNext]_runVars PROVE RunsOK'
  OBVIOUS
<1> USE RunAssumption
<1>1. CASE Click
  <2> DEFINE n == clicks + 1
  <2>1. /\ n \in Clicks /\ clicks' = n /\ started' = n
        /\ request' = [request EXCEPT ![n] = "lock"]
        /\ UNCHANGED <<polls, lock, jobs, row, copies, shown, loose, misread>>
    BY <1>1 DEF Click, Goes
  <2>2. aired' = [aired EXCEPT ![n] =
                    jobs \cup {c[2] : c \in copies} \cup {q.read.job : q \in polls}
                         \cup {k \in Clicks : request[k] \in {"lock", "queue"}}]
    BY <1>1 DEF Click
  <2>3. /\ clicks \in Nat /\ n > clicks /\ request[n] = "none" /\ shown[n] = 0
        /\ n \notin jobs
    BY <2>1 DEF RunsOK, PageOK, RequestsOK, Clicks
  <2>4. PageOK'
    <3> DEFINE X == jobs \cup {c[2] : c \in copies} \cup {q.read.job : q \in polls}
                         \cup {k \in Clicks : request[k] \in {"lock", "queue"}}
    <3>3. X \subseteq 0..MaxClicks
      <4>1. /\ jobs \subseteq Clicks /\ \A c \in copies : c[2] \in Clicks
            /\ \A q \in polls : q.read.job \in 0..MaxClicks
        BY DEF RunsOK, RequestsOK, ResultsOK
      <4>2. Clicks \subseteq 0..MaxClicks
        BY DEF Clicks
      <4> QED
        BY <4>1, <4>2
    <3> HIDE DEF X
    <3>1. aired' \in [Clicks -> SUBSET (0..MaxClicks)]
      BY <2>1, <2>2, <3>3 DEF RunsOK, PageOK, X
    <3>2. ShownIsOwn'
      BY <2>1, <2>2, <2>3 DEF RunsOK, PageOK, ShownIsOwn
    <3> QED
      BY <2>1, <2>3, <3>1, <3>2 DEF RunsOK, PageOK, Clicks
  <2>5. RequestsOK'
    BY <2>1, <2>3 DEF RunsOK, RequestsOK, Clicks
  <2>6. LockOK'
    BY <2>1, <2>3 DEF RunsOK, LockOK, RequestsOK
  <2>7. ResultsOK'
    <3>1. \A k \in Clicks : InTheAir(k)' => k = n \/ InTheAir(k)
      BY <2>1 DEF InTheAir, RunsOK, RequestsOK
    <3>2. \A k \in Clicks : InTheAir(k) => k \in aired'[n]
      BY <2>1, <2>2 DEF InTheAir, RunsOK, PageOK
    <3>3. \A q \in polls : q.read.job \in aired'[n]
      BY <2>1, <2>2 DEF RunsOK, PageOK
    <3>4. n # row.after /\ row.after \in 0..n
      BY <2>1, <2>3 DEF RunsOK, ResultsOK
    <3>5. \A q \in polls : q.start \in 0..n /\ q.read.after \in 0..n
      BY <2>1, <2>3 DEF RunsOK, ResultsOK
    <3> QED
      BY <2>1, <3>1, <3>2, <3>3, <3>4, <3>5 DEF ResultsOK, OwnOrAired, RunsOK
  <2> QED
    BY <2>4, <2>5, <2>6, <2>7 DEF RunsOK
<1>2. ASSUME NEW r \in Clicks, TakeLock(r) PROVE RunsOK'
  <2>1. /\ request[r] = "lock"
        /\ UNCHANGED <<clicks, started, shown, polls, jobs, row, copies, aired, misread, loose>>
        /\ \/ lock = 0 /\ lock' = r /\ request' = [request EXCEPT ![r] = "queue"]
           \/ UNCHANGED lock /\ request' = [request EXCEPT ![r] = "refused"]
    BY <1>2 DEF TakeLock, Stands, Goes, page
  <2>2. PageOK'
    BY <2>1, QuietKeeps DEF RunsOK
  <2>3. RequestsOK'
    BY <2>1 DEF RunsOK, PageOK, RequestsOK, Clicks
  <2>4. LockOK'
    BY <2>1 DEF RunsOK, LockOK, RequestsOK, Clicks
  <2>5. \A k \in Clicks : InTheAir(k)' => InTheAir(k)
    BY <2>1 DEF InTheAir, RunsOK, RequestsOK
  <2> QED
    BY <2>1, <2>2, <2>3, <2>4, <2>5, ResultsKept DEF RunsOK
<1>3. ASSUME NEW r \in Clicks, QueueRun(r) PROVE RunsOK'
  <2>1. /\ request[r] = "queue"
        /\ UNCHANGED <<clicks, started, shown, polls, row, copies, aired, misread>>
        /\ \/ /\ request' = [request EXCEPT ![r] = "queued"]
              /\ jobs' = jobs \cup {r} /\ UNCHANGED <<lock, loose>>
           \/ request' = [request EXCEPT ![r] = "refused"] /\ Unlock /\ UNCHANGED jobs
    BY <1>3 DEF QueueRun, Stands, Goes, page
  <2>2. PageOK'
    BY <2>1, QuietKeeps DEF RunsOK
  <2>3. RequestsOK'
    BY <2>1 DEF RunsOK, PageOK, RequestsOK, Clicks
  <2>4. LockOK'
    <3>1. CASE jobs' = jobs \cup {r} /\ UNCHANGED <<lock, loose>>
      BY <2>1, <3>1 DEF RunsOK, LockOK, RequestsOK, Clicks
    <3>2. CASE Unlock /\ UNCHANGED jobs
      <4>1. \A k \in Clicks : request'[k] = "queue" => request[k] = "queue"
        BY <2>1 DEF RunsOK, RequestsOK
      <4> QED
        BY <3>2, <4>1, UnlockKeeps DEF RunsOK
    <3> QED
      BY <2>1, <3>1, <3>2
  <2>5. \A k \in Clicks : InTheAir(k)' => InTheAir(k)
    BY <2>1 DEF InTheAir, RunsOK, RequestsOK
  <2> QED
    BY <2>1, <2>2, <2>3, <2>4, <2>5, ResultsKept DEF RunsOK
<1>4. ASSUME NEW r \in Clicks, RunQueued(r) \/ Refused(r) PROVE RunsOK'
  <2>1. /\ request[r] \in {"queued", "refused"}
        /\ UNCHANGED <<clicks, shown, polls, jobs, row, copies, aired, misread, lock, loose>>
        /\ started' \in {0, started} /\ request' = [request EXCEPT ![r] = "done"]
    BY <1>4 DEF RunQueued, Refused, Stands, Goes, StopRun
  <2>2. PageOK'
    BY <2>1, QuietKeeps DEF RunsOK
  <2>3. RequestsOK'
    BY <2>1 DEF RunsOK, PageOK, RequestsOK, Clicks
  <2>4. LockOK'
    BY <2>1 DEF RunsOK, LockOK, RequestsOK
  <2>5. \A k \in Clicks : InTheAir(k)' => InTheAir(k)
    BY <2>1 DEF InTheAir, RunsOK, RequestsOK
  <2> QED
    BY <2>1, <2>2, <2>3, <2>4, <2>5, ResultsKept DEF RunsOK
<1>5. ASSUME NEW r \in Clicks, SendPoll(r) PROVE RunsOK'
  <2>1. /\ started # 0 /\ polls' = polls \cup {[start |-> started, read |-> row]}
        /\ UNCHANGED <<clicks, started, shown, jobs, row, copies, aired, misread, lock, loose, request>>
    BY <1>5 DEF SendPoll, page
  <2>2. PageOK' /\ RequestsOK' /\ LockOK'
    BY <2>1, QuietKeeps DEF RunsOK, RequestsOK, LockOK
  <2>3. started = clicks /\ clicks \in Nat
    BY <2>1 DEF RunsOK, PageOK
  <2>4. ResultsOK'
    <3>1. \A k : OwnOrAired(k)' <=> OwnOrAired(k)
      BY <2>1 DEF OwnOrAired
    <3>2. \A k \in Clicks : InTheAir(k)' <=> InTheAir(k)
      BY <2>1 DEF InTheAir
    <3>3. \A q \in polls' : q \in polls \/ q = [start |-> clicks, read |-> row]
      BY <2>1, <2>3
    <3> QED
      BY <2>1, <2>3, <3>1, <3>2, <3>3 DEF RunsOK, ResultsOK
  <2> QED
    BY <2>2, <2>4 DEF RunsOK
<1>6. ASSUME NEW r \in Clicks, TimesOut(r) PROVE RunsOK'
  <2>1. /\ UNCHANGED <<clicks, shown, polls, jobs, row, copies, aired, misread, lock, loose, request>>
        /\ started' \in {0, started}
    BY <1>6 DEF TimesOut
  <2> QED
    BY <2>1, QuietKeeps, ResultsKept DEF RunsOK, RequestsOK, LockOK, InTheAir
<1>7. ASSUME NEW j \in Clicks, Graded(j) \/ JobLost(j) PROVE RunsOK'
  <2>1. /\ j \in jobs /\ jobs' = jobs \ {j} /\ loose' = loose \ {j}
        /\ UNCHANGED <<clicks, started, shown, polls, request, lock, aired, misread>>
        /\ \/ /\ row' = [job |-> j, after |-> clicks]
              /\ copies' = copies \cup (Replicas \X {j})
           \/ UNCHANGED <<row, copies>>
    BY <1>7 DEF Graded, JobLost, page
  <2>2. PageOK'
    BY <2>1, QuietKeeps DEF RunsOK
  <2>3. RequestsOK'
    BY <2>1 DEF RunsOK, RequestsOK
  <2>4. LockOK'
    BY <2>1 DEF RunsOK, LockOK, RequestsOK
  <2>5. \A k \in Clicks : InTheAir(k)' => InTheAir(k)
    BY <2>1 DEF InTheAir
  <2>6. OwnOrAired(j) /\ \A k : OwnOrAired(k)' <=> OwnOrAired(k)
    BY <2>1 DEF RunsOK, ResultsOK, InTheAir, OwnOrAired
  <2>7. ResultsOK'
    <3>1. \/ row' = row
          \/ row'.job = j /\ row'.after = clicks
      BY <2>1
    <3>2. clicks \in 0..clicks /\ j \in 0..MaxClicks
      BY DEF RunsOK, PageOK, Clicks
    <3> QED
      BY <2>1, <2>5, <2>6, <3>1, <3>2 DEF RunsOK, ResultsOK
  <2> QED
    BY <2>2, <2>3, <2>4, <2>7 DEF RunsOK
<1>8. ASSUME NEW q \in polls, PollAnswered(q) PROVE RunsOK'
  <2>1. /\ UNCHANGED <<clicks, jobs, row, copies, aired, lock, loose, request>>
        /\ polls' \subseteq polls
        /\ \/ UNCHANGED <<started, shown, misread>>
           \/ /\ q.read.after >= q.start /\ ShowResult(q.read.job)
              /\ UNCHANGED misread
           \/ /\ ShowResult(q.read.job)
              /\ misread' = misread \cup ({started} \cap Clicks)
    BY <1>8 DEF PollAnswered, GradedSince, page
  <2>2. PageOK'
    BY <2>1, QuietKeeps, ShowKeeps, MisreadKeeps DEF RunsOK, ResultsOK
  <2> QED
    BY <2>1, <2>2, ResultsKept DEF RunsOK, RequestsOK, LockOK, InTheAir
<1>9. ASSUME NEW x \in Replicas, NEW j \in Clicks, HandleComplete(x, j) PROVE RunsOK'
  <2>1. /\ <<x, j>> \in copies /\ copies' \subseteq copies /\ Unlock
        /\ UNCHANGED <<clicks, polls, request, jobs, row, aired, misread>>
        /\ ShowResult(j) \/ UNCHANGED <<started, shown>>
    BY <1>9 DEF HandleComplete, page
  <2>2. OwnOrAired(j) /\ j \in 0..MaxClicks
    BY <2>1 DEF RunsOK, ResultsOK, InTheAir, Clicks
  <2>3. PageOK'
    BY <2>1, <2>2, QuietKeeps, ShowKeeps DEF RunsOK
  <2>4. LockOK'
    BY <2>1, UnlockKeeps DEF RunsOK
  <2>5. RequestsOK' /\ \A k \in Clicks : InTheAir(k)' => InTheAir(k)
    BY <2>1 DEF RunsOK, RequestsOK, InTheAir
  <2> QED
    BY <2>1, <2>3, <2>4, <2>5, ResultsKept DEF RunsOK
<1>10. CASE LockExpires \/ UNCHANGED runVars
  <2>1. UNCHANGED <<clicks, started, shown, polls, request, jobs, row, copies, aired, misread>>
    BY <1>10 DEF LockExpires, runVars, page
  <2>2. Unlock \/ UNCHANGED <<lock, loose>>
    BY <1>10 DEF LockExpires, runVars
  <2>3. LockOK'
    BY <2>1, <2>2, UnlockKeeps DEF RunsOK, LockOK
  <2> QED
    BY <2>1, <2>3, QuietKeeps, ResultsKept DEF RunsOK, RequestsOK, InTheAir
<1> QED
  BY <1>1, <1>2, <1>3, <1>4, <1>5, <1>6, <1>7, <1>8, <1>9, <1>10 DEF RunNext

(* RunsOK holds in every state.                                            *)
LEMMA RunsAlways == RunSpec => []RunsOK
BY RunsInit, RunsStep, PTL DEF RunSpec

(* The page shows for a run the result of that run, or of one that was not *)
(* over when it began (page.tsx:292, 582), or a poll took an older row for *)
(* it by a browser clock behind the database's (590).                      *)
THEOREM ShownIsOwnAlways == RunSpec => []ShownIsOwn
<1>1. RunsOK => ShownIsOwn
  BY DEF RunsOK, PageOK
<1> QED
  BY <1>1, RunsAlways, PTL

(* Two test runs of an attempt are graded at a time only if the lock of    *)
(* one went before its job was done (attempts.ts:273, index.ts:280).       *)
THEOREM OneTestRunAlways == RunSpec => []OneTestRun
<1>1. RunsOK => OneTestRun
  BY DEF RunsOK, RequestsOK, LockOK, OneTestRun
<1> QED
  BY <1>1, RunsAlways, PTL

(* A page that says "running" has a request or a timeout that will end it  *)
(* (page.tsx:588).                                                         *)
THEOREM WaitIsWatchedAlways == RunSpec => []WaitIsWatched
<1>1. RunInit => WaitIsWatched
  BY DEF RunInit, WaitIsWatched
<1>2. RunsOK /\ RunsOK' /\ WaitIsWatched /\ [RunNext]_runVars => WaitIsWatched'
  <2> SUFFICES ASSUME RunsOK, RunsOK', WaitIsWatched, [RunNext]_runVars
               PROVE  WaitIsWatched'
    OBVIOUS
  <2>1. busy => started \in Clicks
    BY RunAssumption DEF WaitIsWatched, RunsOK, PageOK, Clicks
  <2>2. request \in [Clicks -> {"none", "lock", "queue", "queued", "refused", "done"}]
    BY DEF RunsOK, RequestsOK
  <2> USE DEF WaitIsWatched
  <2>3. CASE Click
    <3>1. /\ started' = clicks + 1 /\ clicks + 1 \in Clicks
          /\ request' = [request EXCEPT ![clicks + 1] = "lock"]
      BY <2>3 DEF Click, Goes
    <3> QED
      BY <2>2, <3>1 DEF Clicks
  <2>4. ASSUME NEW r \in Clicks, TakeLock(r) PROVE WaitIsWatched'
    BY <2>1, <2>2, <2>4 DEF TakeLock, Stands, Goes, page
  <2>5. ASSUME NEW r \in Clicks, QueueRun(r) PROVE WaitIsWatched'
    BY <2>1, <2>2, <2>5 DEF QueueRun, Stands, Goes, page
  <2>6. ASSUME NEW r \in Clicks, RunQueued(r) PROVE WaitIsWatched'
    BY <2>1, <2>2, <2>6 DEF RunQueued, Stands, Goes, Clicks
  <2>7. ASSUME NEW r \in Clicks, Refused(r) PROVE WaitIsWatched'
    BY <2>7 DEF Refused, StopRun
  <2>8. ASSUME NEW r \in Clicks, SendPoll(r) \/ Graded(r) \/ JobLost(r)
        PROVE  WaitIsWatched'
    <3>1. UNCHANGED <<busy, started, ref, timers, request>>
      BY <2>8 DEF SendPoll, Graded, JobLost, page
    <3> QED
      BY <3>1
  <2>9. ASSUME NEW r \in Clicks, TimesOut(r) PROVE WaitIsWatched'
    BY <2>1, <2>9 DEF TimesOut
  <2>10. ASSUME NEW q \in polls, PollAnswered(q) PROVE WaitIsWatched'
    <3>1. ~busy' \/ UNCHANGED <<busy, started, ref, timers, request>>
      BY <2>10 DEF PollAnswered, ShowResult, StopRun, page
    <3>2. CASE ~busy'
      BY <3>2
    <3>3. CASE UNCHANGED <<busy, started, ref, timers, request>>
      BY <3>3
    <3> QED
      BY <3>1, <3>2, <3>3
  <2>11. ASSUME NEW x \in Replicas, NEW j \in Clicks, HandleComplete(x, j)
         PROVE  WaitIsWatched'
    <3>1. ~busy' \/ UNCHANGED <<busy, started, ref, timers, request>>
      BY <2>11 DEF HandleComplete, ShowResult, StopRun, page
    <3>2. CASE ~busy'
      BY <3>2
    <3>3. CASE UNCHANGED <<busy, started, ref, timers, request>>
      BY <3>3
    <3> QED
      BY <3>1, <3>2, <3>3
  <2>12. CASE LockExpires \/ UNCHANGED runVars
    <3>1. UNCHANGED <<busy, started, ref, timers, request>>
      BY <2>12 DEF LockExpires, runVars, page
    <3> QED
      BY <3>1
  <2> QED
    BY <2>3, <2>4, <2>5, <2>6, <2>7, <2>8, <2>9, <2>10, <2>11, <2>12 DEF RunNext
<1> QED
  BY <1>1, <1>2, RunsAlways, PTL DEF RunSpec

(* What the page says of a test run is of that run, and ends: both of the  *)
(* above.                                                                  *)
THEOREM RunsExplainedAlways == RunSpec => []RunsExplained
BY ShownIsOwnAlways, WaitIsWatchedAlways, PTL DEF RunsExplained
-----------------------------------------------------------------------------
(* ExamPage                                                                *)

\* What the editor shows is on its way: its timer is set, or a save of it was
\* sent that no later one will replace, or it is in the buffer and stays there.
\* Saves are numbered, and only one with an older number can undo that, which is
\* what overtakenSaves notes.
LastSent(n) == \A q \in pageSaves : q.at = "sent" /\ q.n >= n => q.files = shownFiles

OnItsWay ==
  \/ saveTimer = shownFiles
  \/ \E r \in pageSaves : r.at = "sent" /\ r.files = shownFiles /\ LastSent(r.n)
  \/ pageBuffer = shownFiles /\ LastSent(bufferBy)
  \/ shownFiles \in failedSaves \cup cancelledSaves \cup overtakenSaves

PageInv ==
  /\ PageTypeOK
  /\ saveTimer \in Versions => view = "open" /\ saveTimer = shownFiles
  /\ \A q \in pageSaves : q.n <= savesSent
  /\ view = "open" => OnItsWay

(* A save that is sent carries what the editor shows, and the last number. *)
LEMMA SaveIsSent ==
  ASSUME PageInv, view = "open", NEW h \in BOOLEAN, SendSave(shownFiles, h)
  PROVE  /\ pageSaves' \subseteq SaveReq /\ savesSent' \in 0..MaxSaves
         /\ savesSent' = savesSent + 1 /\ pageSaves \subseteq pageSaves'
         /\ \A q \in pageSaves' : q \notin pageSaves => q.files = shownFiles
         /\ \A q \in pageSaves' : q.n <= savesSent'
         /\ \E r \in pageSaves' : r.at = "sent" /\ r.files = shownFiles
              /\ \A q \in pageSaves' : q.n >= r.n => q.files = shownFiles
<1> DEFINE r == [n |-> savesSent + 1, files |-> shownFiles, at |-> "sent", heard |-> h]
<1>1. savesSent \in 0..MaxSaves /\ MaxSaves \in Nat /\ pageSaves \subseteq SaveReq
      /\ shownFiles \in Versions
  BY PageAssumption DEF PageInv, PageTypeOK
<1>2. /\ pageSaves' = pageSaves \cup {r} /\ savesSent' = savesSent + 1
      /\ savesSent' \in 1..MaxSaves
  BY <1>1 DEF SendSave
<1>3. r \in SaveReq /\ r.n = savesSent + 1 /\ r.files = shownFiles /\ r.at = "sent"
  BY <1>1, <1>2 DEF SaveReq
<1>4. \A q \in pageSaves : q.n \in Nat /\ q.n <= savesSent
  BY <1>1 DEF PageInv, SaveReq
<1> HIDE DEF r
<1> QED
  BY <1>1, <1>2, <1>3, <1>4

(* Requests that nobody waits for any more are the same requests.          *)
LEMMA UnheardAre ==
  ASSUME NEW S \in SUBSET SaveReq
  PROVE  /\ Unheard(S) \subseteq SaveReq
         /\ \A q \in Unheard(S) : q.at = "sent" /\ \E r \in S :
              r.at = "sent" /\ r.n = q.n /\ r.files = q.files
         /\ \A r \in S : r.at = "sent" =>
              \E q \in Unheard(S) : q.at = "sent" /\ r.n = q.n /\ r.files = q.files
<1>1. ASSUME NEW r \in S, r.at = "sent"
      PROVE  /\ [r EXCEPT !.heard = FALSE] \in SaveReq
             /\ [r EXCEPT !.heard = FALSE].n = r.n
             /\ [r EXCEPT !.heard = FALSE].files = r.files
             /\ [r EXCEPT !.heard = FALSE].at = "sent"
  BY <1>1 DEF SaveReq
<1> QED
  BY <1>1 DEF Unheard

(* Saves under way end, or are no longer heard: what is on its way remains *)
(* so.                                                                     *)
LEMMA WayKept ==
  ASSUME PageInv, UNCHANGED <<shownFiles, pageBuffer, bufferBy>>,
         failedSaves \subseteq failedSaves', overtakenSaves \subseteq overtakenSaves',
         cancelledSaves \subseteq cancelledSaves',
         saveTimer = shownFiles => saveTimer' = shownFiles
                                     \/ shownFiles \in failedSaves' \cup cancelledSaves',
         \A q \in pageSaves' : q.at = "sent" =>
           \E r \in pageSaves : r.at = "sent" /\ r.n = q.n /\ r.files = q.files,
         \A r \in pageSaves : r.at = "sent" =>
           \/ \E q \in pageSaves' : q.at = "sent" /\ r.n = q.n /\ r.files = q.files
           \/ r.files \in failedSaves'
  PROVE  OnItsWay => OnItsWay'
<1> SUFFICES ASSUME OnItsWay PROVE OnItsWay'
  OBVIOUS
<1>1. ASSUME NEW n, LastSent(n)
      PROVE  \A q \in pageSaves' : q.at = "sent" /\ q.n >= n => q.files = shownFiles
  BY <1>1 DEF LastSent
<1>2. CASE saveTimer = shownFiles
  BY <1>2 DEF OnItsWay
<1>3. ASSUME NEW r \in pageSaves, r.at = "sent", r.files = shownFiles, LastSent(r.n)
      PROVE  OnItsWay'
  <2>1. CASE r.files \in failedSaves'
    BY <1>3, <2>1 DEF OnItsWay
  <2>2. ASSUME NEW q \in pageSaves', q.at = "sent", r.n = q.n, r.files = q.files
        PROVE  OnItsWay'
    <3>1. \A x \in pageSaves' : x.at = "sent" /\ x.n >= q.n => x.files = shownFiles'
      BY <1>1, <1>3, <2>2
    <3> QED
      BY <1>3, <2>2, <3>1 DEF OnItsWay, LastSent
  <2> QED
    BY <1>3, <2>1, <2>2
<1>4. CASE pageBuffer = shownFiles /\ LastSent(bufferBy)
  <2>1. \A x \in pageSaves' : x.at = "sent" /\ x.n >= bufferBy' => x.files = shownFiles'
    BY <1>1, <1>4
  <2> QED
    BY <1>4, <2>1 DEF OnItsWay, LastSent
<1>5. CASE shownFiles \in failedSaves \cup cancelledSaves \cup overtakenSaves
  BY <1>5 DEF OnItsWay
<1> QED
  BY <1>2, <1>3, <1>4, <1>5 DEF OnItsWay

LEMMA PageStep == PageInv /\ [PageNext]_pageVars => PageInv'
<1> SUFFICES ASSUME PageInv, [PageNext]_pageVars PROVE PageInv'
  OBVIOUS
<1>0. /\ MaxEdits \in Nat /\ MaxLoads \in Nat /\ MaxSaves \in Nat /\ MaxPageFaults \in Nat
      /\ Nothing \notin Versions /\ Nothing # IdleTimer /\ IdleTimer \notin Versions
  BY PageAssumption DEF Versions, IdleTimer
<1>1. PageTypeOK /\ pageSaves \subseteq SaveReq /\ pageSaves \in SUBSET SaveReq
  BY DEF PageInv, PageTypeOK
<1>a. UNCHANGED pageSaves =>
        /\ \A q \in pageSaves' : q.at = "sent" =>
             \E r \in pageSaves : r.at = "sent" /\ r.n = q.n /\ r.files = q.files
        /\ \A r \in pageSaves : r.at = "sent" =>
             \E q \in pageSaves' : q.at = "sent" /\ r.n = q.n /\ r.files = q.files
  OBVIOUS
<1>2. CASE UNCHANGED pageVars
  <2>1. OnItsWay => OnItsWay'
    BY <1>2, <1>a, WayKept DEF pageVars, pageClient, pageStored, pagePast
  <2> QED
    BY <1>2, <2>1 DEF PageInv, PageTypeOK, pageVars, pageClient, pageStored, pageCounts, pagePast
<1>3. CASE LoadAttempt
  <2>1. PageTypeOK'
    BY <1>0, <1>1, <1>3 DEF LoadAttempt, PageTypeOK, pageStored
  <2> QED
    BY <1>3, <2>1 DEF PageInv, LoadAttempt
<1>4. CASE ShowAttempt
  <2>1. PageTypeOK'
    BY <1>0, <1>1, <1>4 DEF ShowAttempt, PageTypeOK, pageStored, pageCounts, Versions
  <2> QED
    BY <1>4, <2>1 DEF PageInv, ShowAttempt, OnItsWay
<1>5. CASE LeavePage
  <2>u. /\ Unheard(pageSaves) \subseteq SaveReq
        /\ \A q \in Unheard(pageSaves) : q.at = "sent" /\ \E r \in pageSaves :
             r.at = "sent" /\ r.n = q.n /\ r.files = q.files
        /\ \A r \in pageSaves : r.at = "sent" =>
             \E q \in Unheard(pageSaves) : q.at = "sent" /\ r.n = q.n /\ r.files = q.files
    BY <1>1, UnheardAre
  <2>n. \A q \in pageSaves : q.n <= savesSent
    BY DEF PageInv
  <2>0. pageSaves' = Unheard(pageSaves)
    BY <1>5 DEF LeavePage
  <2>1. pageSaves' \subseteq SaveReq /\ \A q \in pageSaves' : q.n <= savesSent
    <3>1. ASSUME NEW q \in pageSaves' PROVE q.n <= savesSent
      <4>1. PICK r \in pageSaves : r.n = q.n
        BY <2>0, <2>u
      <4> QED
        BY <4>1, <2>n
    <3> QED
      BY <2>0, <2>u, <3>1
  <2>2. PageTypeOK'
    <3>1. pageSaves' \subseteq SaveReq
      BY <2>1
    <3>2. /\ view' = "closed" /\ rowRead' = 0 /\ saveTimer' = Nothing /\ pageJoined' = FALSE
          /\ UNCHANGED <<shownFiles, savesSent, pageStored, pageCounts>>
      BY <1>5 DEF LeavePage
    <3>3. 0 \in Versions
      BY <1>0 DEF Versions
    <3> QED
      BY <1>1, <3>1, <3>2, <3>3 DEF PageTypeOK, pageStored, pageCounts
  <2> QED
    BY <1>0, <1>5, <2>1, <2>2 DEF PageInv, LeavePage
<1>6. CASE JoinPage
  <2>1. PageTypeOK'
    BY <1>0, <1>1, <1>6 DEF JoinPage, PageTypeOK, pageStored, pageCounts
  <2>2. OnItsWay => OnItsWay'
    BY <1>6, <1>a, WayKept DEF JoinPage, pageStored, pagePast
  <2> QED
    BY <1>6, <2>1, <2>2 DEF PageInv, JoinPage
<1>7. CASE PageLinkDrops
  <2>u. /\ Unheard(pageSaves) \subseteq SaveReq
        /\ \A q \in Unheard(pageSaves) : q.at = "sent" /\ \E r \in pageSaves :
             r.at = "sent" /\ r.n = q.n /\ r.files = q.files
        /\ \A r \in pageSaves : r.at = "sent" =>
             \E q \in Unheard(pageSaves) : q.at = "sent" /\ r.n = q.n /\ r.files = q.files
    BY <1>1, UnheardAre
  <2>n. \A q \in pageSaves : q.n <= savesSent
    BY DEF PageInv
  <2>0. pageSaves' = Unheard(pageSaves)
    BY <1>7 DEF PageLinkDrops
  <2>1. /\ pageSaves' \subseteq SaveReq /\ \A q \in pageSaves' : q.n <= savesSent
        /\ \A q \in pageSaves' : q.at = "sent" =>
             \E r \in pageSaves : r.at = "sent" /\ r.n = q.n /\ r.files = q.files
        /\ \A r \in pageSaves : r.at = "sent" =>
             \E q \in pageSaves' : q.at = "sent" /\ r.n = q.n /\ r.files = q.files
    <3>1. ASSUME NEW q \in pageSaves' PROVE q.n <= savesSent
      <4>1. PICK r \in pageSaves : r.n = q.n
        BY <2>0, <2>u
      <4> QED
        BY <4>1, <2>n
    <3> QED
      BY <2>0, <2>u, <3>1
  <2>2. PageTypeOK'
    <3>1. pageSaves' \subseteq SaveReq
      BY <2>1
    <3>2. /\ pageJoined' = FALSE /\ pageFaults < MaxPageFaults /\ pageFaults' = pageFaults + 1
          /\ UNCHANGED <<view, rowRead, shownFiles, saveTimer, savesSent, pageStored,
                         edits, pageLoads>>
      BY <1>7 DEF PageLinkDrops, PageFault
    <3>3. pageFaults' \in 0..MaxPageFaults
      BY <1>0, <1>1, <3>2 DEF PageTypeOK
    <3> QED
      BY <1>1, <3>1, <3>2, <3>3 DEF PageTypeOK, pageStored
  <2>3. OnItsWay => OnItsWay'
    BY <1>7, <2>1, WayKept DEF PageLinkDrops, pageStored, pagePast
  <2> QED
    BY <1>7, <2>1, <2>2, <2>3 DEF PageInv, PageLinkDrops
<1>8. CASE Edit
  <2>1. PageTypeOK'
    BY <1>0, <1>1, <1>8 DEF Edit, PageTypeOK, pageStored, Versions
  <2> QED
    BY <1>8, <2>1 DEF PageInv, Edit, OnItsWay
<1>9. CASE SaveDue
  <2>1. view = "open" /\ saveTimer = shownFiles /\ shownFiles \in Versions
    BY <1>9 DEF SaveDue, PageInv
  <2>2. CASE SendSave(shownFiles, TRUE) /\ UNCHANGED failedSaves
    <3>1. /\ pageSaves' \subseteq SaveReq /\ savesSent' \in 0..MaxSaves
          /\ savesSent' = savesSent + 1
          /\ \A q \in pageSaves' : q.n <= savesSent'
          /\ \E r \in pageSaves' : r.at = "sent" /\ r.files = shownFiles
               /\ \A q \in pageSaves' : q.n >= r.n => q.files = shownFiles
      BY <2>1, <2>2, SaveIsSent
    <3>2. PageTypeOK'
      BY <1>0, <1>1, <1>9, <3>1 DEF SaveDue, PageTypeOK, pageStored, pageCounts
    <3>3. OnItsWay'
      BY <1>9, <3>1 DEF SaveDue, OnItsWay, LastSent
    <3> QED
      BY <1>0, <1>9, <3>1, <3>2, <3>3 DEF SaveDue, PageInv
  <2>3. CASE failedSaves' = failedSaves \cup {saveTimer} /\ UNCHANGED <<savesSent, pageSaves>>
    <3>1. PageTypeOK'
      BY <1>0, <1>1, <1>9, <2>3 DEF SaveDue, PageTypeOK, pageStored, pageCounts
    <3>2. OnItsWay'
      BY <1>9, <2>1, <2>3 DEF SaveDue, OnItsWay
    <3> QED
      BY <1>0, <1>9, <2>3, <3>1, <3>2 DEF SaveDue, PageInv
  <2> QED
    BY <1>9, <2>1, <2>2, <2>3 DEF SaveDue
<1>10. CASE IdleDue
  <2>1. PageTypeOK'
    BY <1>0, <1>1, <1>10 DEF IdleDue, PageTypeOK, pageStored, pageCounts
  <2>2. saveTimer # shownFiles
    BY <1>0, <1>1, <1>10 DEF IdleDue, PageTypeOK
  <2>3. OnItsWay => OnItsWay'
    BY <1>10, <1>a, <2>2, WayKept DEF IdleDue, pageStored, pagePast
  <2> QED
    BY <1>0, <1>10, <2>1, <2>3 DEF PageInv, IdleDue
<1>11. CASE SaveForRun
  <2>1. /\ pageSaves' \subseteq SaveReq /\ savesSent' \in 0..MaxSaves
        /\ savesSent' = savesSent + 1
        /\ \A q \in pageSaves' : q.n <= savesSent'
        /\ \E r \in pageSaves' : r.at = "sent" /\ r.files = shownFiles
             /\ \A q \in pageSaves' : q.n >= r.n => q.files = shownFiles
    BY <1>11, SaveIsSent DEF SaveForRun
  <2>2. PageTypeOK'
    BY <1>0, <1>1, <1>11, <2>1 DEF SaveForRun, PageTypeOK, pageClient, pageStored, pageCounts
  <2>3. OnItsWay'
    BY <1>11, <2>1 DEF SaveForRun, OnItsWay, LastSent, pageClient
  <2> QED
    BY <1>11, <2>1, <2>2, <2>3 DEF SaveForRun, PageInv, pageClient
<1>12. CASE FlushBuffer
  <2>1. PageTypeOK'
    BY <1>0, <1>1, <1>12 DEF FlushBuffer, PageTypeOK, pageClient, pageCounts
  <2>2. OnItsWay => OnItsWay'
    BY <1>12, <1>a, WayKept DEF FlushBuffer, pageClient, pagePast
  <2> QED
    BY <1>12, <2>1, <2>2 DEF PageInv, FlushBuffer, pageClient
<1>13. ASSUME NEW r \in pageSaves, WriteSave(r) PROVE PageInv'
  <2>1. /\ r \in SaveReq /\ r.n \in 1..MaxSaves /\ r.n <= savesSent /\ r.files \in Versions
        /\ r.at = "sent"
    BY <1>1, <1>13 DEF PageInv, SaveReq, WriteSave
  <2>2. PICK w : w = [r EXCEPT !.at = "written"]
    OBVIOUS
  <2>3. w \in SaveReq /\ w.n = r.n /\ w.at = "written"
    BY <2>1, <2>2 DEF SaveReq
  <2>4. /\ pageSaves' \subseteq (pageSaves \ {r}) \cup {w}
        /\ pageSaves \ {r} \subseteq pageSaves'
    BY <1>13, <2>2 DEF WriteSave
  <2>5. PageTypeOK'
    <3>1. bufferBy' \in 0..savesSent' /\ pageBuffer' \in Versions
      BY <1>0, <1>1, <1>13, <2>1 DEF WriteSave, PageTypeOK
    <3>2. pageSaves' \subseteq SaveReq
      BY <1>1, <2>3, <2>4
    <3> QED
      BY <1>1, <1>13, <3>1, <3>2 DEF WriteSave, PageTypeOK, pageClient, pageCounts
  <2>6. \A q \in pageSaves' : q.n <= savesSent'
    BY <1>13, <2>1, <2>3, <2>4 DEF WriteSave, PageInv
  <2>7. ASSUME OnItsWay PROVE OnItsWay'
    <3>0. /\ UNCHANGED <<shownFiles, saveTimer, failedSaves, cancelledSaves>>
          /\ overtakenSaves \subseteq overtakenSaves'
          /\ pageBuffer' = r.files /\ bufferBy' = r.n
          /\ r.n < bufferBy => pageBuffer \in overtakenSaves'
      BY <1>13 DEF WriteSave, pageClient
    <3>1. \A q \in pageSaves' : q.at = "sent" => q \in pageSaves
      BY <2>3, <2>4
    <3>2. ASSUME NEW n, LastSent(n), r.n >= n, NEW m, m = r.n, n \in Nat PROVE OnItsWay'
      <4>1. \A q \in pageSaves' : q.at = "sent" /\ q.n >= m => q.n >= n
        <5>1. \A q \in pageSaves : q.n \in Nat
          BY <1>1 DEF SaveReq
        <5> QED
          BY <2>1, <3>1, <3>2, <5>1
      <4>2. \A q \in pageSaves' : q.at = "sent" /\ q.n >= bufferBy' => q.files = shownFiles'
        BY <3>0, <3>1, <3>2, <4>1 DEF LastSent
      <4>3. r.files = shownFiles
        BY <2>1, <3>2 DEF LastSent
      <4> QED
        BY <3>0, <4>2, <4>3 DEF OnItsWay, LastSent
    <3>3. CASE saveTimer = shownFiles
      BY <3>0, <3>3 DEF OnItsWay
    <3>4. ASSUME NEW x \in pageSaves, x.at = "sent", x.files = shownFiles, LastSent(x.n)
          PROVE  OnItsWay'
      <4>1. x.n \in Nat
        BY <1>1 DEF SaveReq
      <4>2. CASE x = r
        BY <2>1, <3>2, <3>4, <4>1, <4>2
      <4>3. CASE x # r
        <5>1. x \in pageSaves'
          BY <2>4, <4>3
        <5>2. \A q \in pageSaves' : q.at = "sent" /\ q.n >= x.n => q.files = shownFiles'
          BY <3>0, <3>1, <3>4 DEF LastSent
        <5> QED
          BY <3>0, <3>4, <5>1, <5>2 DEF OnItsWay, LastSent
      <4> QED
        BY <4>2, <4>3
    <3>5. CASE pageBuffer = shownFiles /\ LastSent(bufferBy)
      <4>1. bufferBy \in Nat
        BY <1>1 DEF PageTypeOK
      <4>2. CASE r.n < bufferBy
        BY <3>0, <3>5, <4>2 DEF OnItsWay
      <4>3. CASE r.n >= bufferBy
        BY <3>2, <3>5, <4>1, <4>3
      <4> QED
        BY <2>1, <4>1, <4>2, <4>3
    <3>6. CASE shownFiles \in failedSaves \cup cancelledSaves \cup overtakenSaves
      BY <3>0, <3>6 DEF OnItsWay
    <3> QED
      BY <2>7, <3>3, <3>4, <3>5, <3>6 DEF OnItsWay
  <2> QED
    BY <1>13, <2>5, <2>6, <2>7 DEF PageInv, WriteSave, pageClient
<1>14. ASSUME NEW r \in pageSaves, SaveAnswered(r) PROVE PageInv'
  <2>1. PageTypeOK' /\ \A q \in pageSaves' : q.n <= savesSent'
    BY <1>0, <1>1, <1>14 DEF SaveAnswered, PageTypeOK, pageStored, pageCounts, PageInv
  <2>2. OnItsWay => OnItsWay'
    <3>1. /\ UNCHANGED <<shownFiles, pageBuffer, bufferBy, failedSaves, overtakenSaves>>
          /\ cancelledSaves \subseteq cancelledSaves'
          /\ saveTimer = shownFiles => shownFiles \in cancelledSaves'
      BY <1>1, <1>14 DEF SaveAnswered, pageStored, PageTypeOK
    <3>2. /\ \A q \in pageSaves' : q.at = "sent" =>
               \E x \in pageSaves : x.at = "sent" /\ x.n = q.n /\ x.files = q.files
          /\ \A x \in pageSaves : x.at = "sent" =>
               \E q \in pageSaves' : q.at = "sent" /\ x.n = q.n /\ x.files = q.files
      BY <1>14 DEF SaveAnswered
    <3> QED
      BY <3>1, <3>2, WayKept
  <2> QED
    BY <1>0, <1>14, <2>1, <2>2 DEF PageInv, SaveAnswered
<1>15. ASSUME NEW r \in pageSaves, SaveFails(r) PROVE PageInv'
  <2>1. PageTypeOK' /\ \A q \in pageSaves' : q.n <= savesSent'
    BY <1>0, <1>1, <1>15 DEF SaveFails, PageFault, PageTypeOK, pageClient, pageStored, PageInv
  <2>2. OnItsWay => OnItsWay'
    <3>1. /\ UNCHANGED <<shownFiles, pageBuffer, bufferBy, saveTimer, cancelledSaves, overtakenSaves>>
          /\ failedSaves' = failedSaves \cup {r.files} /\ pageSaves' = pageSaves \ {r}
      BY <1>15 DEF SaveFails, pageStored, pageClient
    <3>2. /\ \A q \in pageSaves' : q.at = "sent" =>
               \E x \in pageSaves : x.at = "sent" /\ x.n = q.n /\ x.files = q.files
          /\ \A x \in pageSaves : x.at = "sent" =>
               \/ \E q \in pageSaves' : q.at = "sent" /\ x.n = q.n /\ x.files = q.files
               \/ x.files \in failedSaves'
      BY <3>1
    <3> QED
      BY <3>1, <3>2, WayKept
  <2> QED
    BY <1>15, <2>1, <2>2 DEF PageInv, SaveFails, pageClient
<1>16. ASSUME NEW r \in pageSaves, SaveTimesOut(r) PROVE PageInv'
  <2>0. /\ Unheard({r}) \subseteq SaveReq
        /\ \A q \in Unheard({r}) : q.at = "sent" /\ r.at = "sent" /\ r.n = q.n /\ r.files = q.files
        /\ r.at = "sent" => \E q \in Unheard({r}) : q.at = "sent" /\ r.n = q.n /\ r.files = q.files
    <3>1. {r} \in SUBSET SaveReq
      BY <1>1
    <3> QED
      BY <3>1, UnheardAre
  <2>1. pageSaves' = (pageSaves \ {r}) \cup Unheard({r})
    BY <1>16 DEF SaveTimesOut
  <2>2. PageTypeOK'
    <3>1. pageSaves' \subseteq SaveReq
      BY <1>1, <2>0, <2>1
    <3> QED
      BY <1>0, <1>1, <1>16, <3>1 DEF SaveTimesOut, PageFault, PageTypeOK, pageClient, pageStored
  <2>3. \A q \in pageSaves' : q.n <= savesSent'
    BY <1>16, <2>0, <2>1 DEF SaveTimesOut, PageInv
  <2>4. OnItsWay => OnItsWay'
    <3>1. UNCHANGED <<shownFiles, pageBuffer, bufferBy, saveTimer, failedSaves, cancelledSaves,
                      overtakenSaves>>
      BY <1>16 DEF SaveTimesOut, pageStored, pageClient, pagePast
    <3>2. /\ \A q \in pageSaves' : q.at = "sent" =>
               \E x \in pageSaves : x.at = "sent" /\ x.n = q.n /\ x.files = q.files
          /\ \A x \in pageSaves : x.at = "sent" =>
               \E q \in pageSaves' : q.at = "sent" /\ x.n = q.n /\ x.files = q.files
      BY <2>0, <2>1
    <3> QED
      BY <3>1, <3>2, WayKept
  <2> QED
    BY <1>16, <2>2, <2>3, <2>4 DEF PageInv, SaveTimesOut, pageClient
<1> QED
  BY <1>2, <1>3, <1>4, <1>5, <1>6, <1>7, <1>8, <1>9, <1>10, <1>11, <1>12, <1>13, <1>14, <1>15,
     <1>16 DEF PageNext

LEMMA PageInitOK == PageInit => PageInv
<1> SUFFICES ASSUME PageInit PROVE PageInv
  OBVIOUS
<1>1. /\ 0 \in Versions /\ Nothing \notin Versions /\ 0 \in 0..MaxSaves /\ 0 \in 0..0
      /\ 0 \in 0..MaxLoads /\ 0 \in 0..MaxPageFaults
  BY PageAssumption DEF Versions
<1>2. PageTypeOK
  BY <1>1 DEF PageInit, PageTypeOK
<1> QED
  BY <1>1, <1>2 DEF PageInit, PageInv

(* While the editor shows files that are not in the buffer, a timer or a   *)
(* request is about to bring them there, or one of the named exceptions    *)
(* has happened (page.tsx:467, useExamSocket.ts:171).                      *)
THEOREM EditsAccountedAlways == PageSpec => []EditsAccounted
<1>1. PageInv => EditsAccounted
  BY DEF PageInv, OnItsWay, EditsAccounted
<1> QED
  BY <1>1, PageInitOK, PageStep, PTL DEF PageSpec

(* The types of the exam page's state, and the range of every counter.     *)
THEOREM PageTypesAlways == PageSpec => []PageTypeOK
<1>1. PageInv => PageTypeOK
  BY DEF PageInv
<1> QED
  BY <1>1, PageInitOK, PageStep, PTL DEF PageSpec

-----------------------------------------------------------------------------
(* The integrity record (ProctorLog)                                       *)

HandlerStep == {"idle", "event", "count", "warn", "emit", "push", "trim", "over"}

LogCounts ==
  /\ handler \in [Handlers -> [at : HandlerStep, read : Nat]]
  /\ events \in Nat /\ counter \in Nat /\ shots \in Nat /\ taken \in Nat /\ broken \in Nat
  /\ warnings \subseteq Nat

\* A handler that is about to warn has counted its event, and what it has read
\* counts no event that was not counted.
WarningsOK ==
  \A h \in Handlers :
    /\ Handling(h, "warn") => counter > 0
    /\ Handling(h, "emit") => 0 < handler[h].read /\ handler[h].read <= counter

LogInv ==
  /\ LogCounts /\ WarningsOK /\ RecordAgrees
  /\ status \in {"IN_PROGRESS", "SUBMITTED", "GRADING", "DONE"}

\* What a handler that goes to another step leaves as it was.
LEMMA HandlerMoves ==
  ASSUME LogCounts, NEW h \in Handlers, NEW at \in HandlerStep, Move(h, at)
  PROVE  /\ handler' \in [Handlers -> [at : HandlerStep, read : Nat]]
         /\ handler'[h].at = at /\ handler'[h].read = handler[h].read
         /\ \A g \in Handlers \ {h} : handler'[g] = handler[g]
BY DEF LogCounts, Move

\* How many handlers are at a step, when one of them moves.
LEMMA HandlersCounted ==
  ASSUME LogCounts, LogCounts', NEW h \in Handlers, NEW at,
         \A g \in Handlers \ {h} : handler'[g] = handler[g]
  PROVE  /\ Between(at) \in Nat /\ Between(at)' \in Nat
         /\ Between(at)' = Between(at)
              + (IF Handling(h, at)' THEN 1 ELSE 0) - (IF Handling(h, at) THEN 1 ELSE 0)
<1> DEFINE A == {g \in Handlers : Handling(g, at)}
           B == {g \in Handlers : Handling(g, at)'}
<1>1. IsFiniteSet(A) /\ IsFiniteSet(B)
  BY LogAssumption, FS_Subset
<1>2. Cardinality(A) \in Nat /\ Cardinality(B) \in Nat
  BY <1>1, FS_CardinalityType
<1>3. Between(at) = Cardinality(A) /\ Between(at)' = Cardinality(B)
  BY DEF Between
<1>4. \A g \in Handlers \ {h} : Handling(g, at)' <=> Handling(g, at)
  BY DEF Handling
<1>5. CASE Handling(h, at) /\ Handling(h, at)'
  <2>1. A = B
    BY <1>4, <1>5
  <2> HIDE DEF A, B
  <2> QED
    BY <1>2, <1>3, <1>5, <2>1
<1>6. CASE ~Handling(h, at) /\ ~Handling(h, at)'
  <2>1. A = B
    BY <1>4, <1>6
  <2> HIDE DEF A, B
  <2> QED
    BY <1>2, <1>3, <1>6, <2>1
<1>7. CASE Handling(h, at) /\ ~Handling(h, at)'
  <2>1. B = A \ {h} /\ h \in A
    BY <1>4, <1>7
  <2>2. Cardinality(B) = Cardinality(A) - 1
    BY <1>1, <2>1, FS_RemoveElement
  <2> HIDE DEF A, B
  <2> QED
    BY <1>2, <1>3, <1>7, <2>2
<1>8. CASE ~Handling(h, at) /\ Handling(h, at)'
  <2>1. B = A \cup {h} /\ h \notin A
    BY <1>4, <1>8
  <2>2. Cardinality(B) = Cardinality(A) + 1
    BY <1>1, <2>1, FS_AddElement
  <2> HIDE DEF A, B
  <2> QED
    BY <1>2, <1>3, <1>8, <2>2
<1> QED
  BY <1>5, <1>6, <1>7, <1>8

\* A step that leaves the counters of the record alone, but for a handler that
\* was neither at "count" nor at "trim" and does not go there.
LEMMA RecordKept ==
  ASSUME LogInv, LogCounts', NEW h \in Handlers,
         \A g \in Handlers \ {h} : handler'[g] = handler[g],
         handler[h].at \notin {"count", "trim"}, handler'[h].at \notin {"count", "trim"},
         UNCHANGED <<events, counter, shots, taken, broken>>,
         \A n \in warnings' : 0 < n /\ n <= counter
  PROVE  RecordAgrees'
<1>1. Between("count")' = Between("count") /\ Between("trim")' = Between("trim")
  BY HandlersCounted DEF LogInv, Handling
<1> QED
  BY <1>1 DEF LogInv, RecordAgrees

LEMMA LogStep == LogInv /\ [LogNext]_logVars => LogInv'
<1> SUFFICES ASSUME LogInv, [LogNext]_logVars PROVE LogInv'
  OBVIOUS
<1>0. LogCounts /\ WarningsOK /\ RecordAgrees /\ KeepShots \in Nat
  BY LogAssumption DEF LogInv
<1>1. CASE UNCHANGED logVars
  BY <1>1 DEF LogInv, LogCounts, WarningsOK, RecordAgrees, Between, Handling, logVars
<1>2. ASSUME NEW h \in Handlers, ReadForEvent(h) \/ ReadForShot(h)
      PROVE  LogInv'
  <2>1. PICK at \in {"event", "push", "over"} : Move(h, at)
    BY <1>2 DEF ReadForEvent, ReadForShot
  <2>2. /\ UNCHANGED <<status, events, counter, warnings, shots, taken, broken>>
        /\ handler[h].at = "idle"
    BY <1>2 DEF ReadForEvent, ReadForShot, Handling
  <2>3. /\ handler' \in [Handlers -> [at : HandlerStep, read : Nat]]
        /\ handler'[h].at = at /\ \A g \in Handlers \ {h} : handler'[g] = handler[g]
    BY <1>0, <2>1, HandlerMoves DEF HandlerStep
  <2>4. LogCounts' /\ WarningsOK'
    BY <1>0, <2>1, <2>2, <2>3 DEF LogCounts, WarningsOK, Handling
  <2>5. RecordAgrees'
    BY <1>0, <2>1, <2>2, <2>3, <2>4, RecordKept DEF RecordAgrees
  <2> QED
    BY <2>2, <2>4, <2>5 DEF LogInv
<1>3. ASSUME NEW h \in Handlers, InsertEvent(h)
      PROVE  LogInv'
  <2>1. /\ UNCHANGED <<status, counter, warnings, shots, taken, broken>>
        /\ events' = events + 1 /\ handler[h].at = "event" /\ Move(h, "count")
    BY <1>3 DEF InsertEvent, Handling
  <2>2. /\ handler' \in [Handlers -> [at : HandlerStep, read : Nat]]
        /\ handler'[h].at = "count" /\ \A g \in Handlers \ {h} : handler'[g] = handler[g]
    BY <1>0, <2>1, HandlerMoves DEF HandlerStep
  <2>3. LogCounts' /\ WarningsOK'
    BY <1>0, <2>1, <2>2 DEF LogCounts, WarningsOK, Handling
  <2>4. /\ Between("count") \in Nat /\ Between("count")' = Between("count") + 1
        /\ Between("trim")' = Between("trim")
    BY <1>0, <2>1, <2>2, <2>3, HandlersCounted DEF Handling
  <2>5. RecordAgrees'
    BY <1>0, <2>1, <2>4 DEF RecordAgrees, LogCounts
  <2> QED
    BY <2>1, <2>3, <2>5 DEF LogInv
<1>4. ASSUME NEW h \in Handlers, CountEvent(h)
      PROVE  LogInv'
  <2>1. PICK at \in {"warn", "over"} : Move(h, at)
    BY <1>4 DEF CountEvent
  <2>2. /\ UNCHANGED <<status, events, warnings, shots, taken, broken>>
        /\ counter' = counter + 1 /\ handler[h].at = "count"
    BY <1>4 DEF CountEvent, Handling
  <2>3. /\ handler' \in [Handlers -> [at : HandlerStep, read : Nat]]
        /\ handler'[h].at = at /\ \A g \in Handlers \ {h} : handler'[g] = handler[g]
    BY <1>0, <2>1, HandlerMoves DEF HandlerStep
  <2>4. LogCounts'
    BY <1>0, <2>2, <2>3 DEF LogCounts
  <2>5. WarningsOK'
    BY <1>0, <2>1, <2>2, <2>3 DEF LogCounts, WarningsOK, Handling
  <2>6. /\ Between("count") \in Nat /\ Between("count")' = Between("count") - 1
        /\ Between("trim")' = Between("trim")
    BY <1>0, <2>1, <2>2, <2>3, <2>4, HandlersCounted DEF Handling
  <2>7. \A n \in warnings : n <= counter => n <= counter'
    BY <1>0, <2>2 DEF LogCounts
  <2>8. RecordAgrees'
    BY <1>0, <2>2, <2>6, <2>7 DEF RecordAgrees, LogCounts
  <2> QED
    BY <2>2, <2>4, <2>5, <2>8 DEF LogInv
<1>5. ASSUME NEW h \in Handlers, ReadCount(h)
      PROVE  LogInv'
  <2>1. /\ UNCHANGED <<status, events, counter, warnings, shots, taken, broken>>
        /\ handler' = [handler EXCEPT ![h] = [at |-> "emit", read |-> counter]]
        /\ handler[h].at = "warn"
    BY <1>5 DEF ReadCount, Handling
  <2>2. /\ handler' \in [Handlers -> [at : HandlerStep, read : Nat]]
        /\ handler'[h] = [at |-> "emit", read |-> counter]
        /\ \A g \in Handlers \ {h} : handler'[g] = handler[g]
    BY <1>0, <2>1 DEF LogCounts, HandlerStep
  <2>3. LogCounts' /\ WarningsOK'
    BY <1>0, <2>1, <2>2 DEF LogCounts, WarningsOK, Handling
  <2>4. RecordAgrees'
    BY <1>0, <2>1, <2>2, <2>3, RecordKept DEF RecordAgrees
  <2> QED
    BY <2>1, <2>3, <2>4 DEF LogInv
<1>6. ASSUME NEW h \in Handlers, Warn(h)
      PROVE  LogInv'
  <2>1. /\ UNCHANGED <<status, events, counter, shots, taken, broken>>
        /\ warnings' = warnings \cup {handler[h].read}
        /\ handler[h].at = "emit" /\ Move(h, "over")
    BY <1>6 DEF Warn, Handling
  <2>2. /\ handler' \in [Handlers -> [at : HandlerStep, read : Nat]]
        /\ handler'[h].at = "over" /\ \A g \in Handlers \ {h} : handler'[g] = handler[g]
    BY <1>0, <2>1, HandlerMoves DEF HandlerStep
  <2>3. LogCounts' /\ WarningsOK'
    BY <1>0, <2>1, <2>2 DEF LogCounts, WarningsOK, Handling
  <2>4. \A n \in warnings' : 0 < n /\ n <= counter
    BY <1>0, <2>1 DEF RecordAgrees, WarningsOK, Handling
  <2>5. RecordAgrees'
    BY <2>1, <2>2, <2>3, <2>4, RecordKept
  <2> QED
    BY <2>1, <2>3, <2>5 DEF LogInv
<1>7. ASSUME NEW h \in Handlers, PushShot(h)
      PROVE  LogInv'
  <2>1. /\ UNCHANGED <<status, events, counter, warnings, broken>>
        /\ shots' = shots + 1 /\ taken' = taken + 1
        /\ handler[h].at = "push" /\ Move(h, "trim")
    BY <1>7 DEF PushShot, Handling
  <2>2. /\ handler' \in [Handlers -> [at : HandlerStep, read : Nat]]
        /\ handler'[h].at = "trim" /\ \A g \in Handlers \ {h} : handler'[g] = handler[g]
    BY <1>0, <2>1, HandlerMoves DEF HandlerStep
  <2>3. LogCounts' /\ WarningsOK'
    BY <1>0, <2>1, <2>2 DEF LogCounts, WarningsOK, Handling
  <2>4. /\ Between("trim") \in Nat /\ Between("trim")' = Between("trim") + 1
        /\ Between("count")' = Between("count")
    BY <1>0, <2>1, <2>2, <2>3, HandlersCounted DEF Handling
  <2>5. RecordAgrees'
    BY <1>0, <2>1, <2>4 DEF RecordAgrees, LogCounts
  <2> QED
    BY <2>1, <2>3, <2>5 DEF LogInv
<1>8. ASSUME NEW h \in Handlers, TrimShots(h)
      PROVE  LogInv'
  <2>1. /\ UNCHANGED <<status, events, counter, warnings, taken, broken>>
        /\ shots' = IF shots > KeepShots THEN KeepShots ELSE shots
        /\ handler[h].at = "trim" /\ Move(h, "over")
    BY <1>8 DEF TrimShots, Handling
  <2>2. /\ handler' \in [Handlers -> [at : HandlerStep, read : Nat]]
        /\ handler'[h].at = "over" /\ \A g \in Handlers \ {h} : handler'[g] = handler[g]
    BY <1>0, <2>1, HandlerMoves DEF HandlerStep
  <2>3. LogCounts' /\ WarningsOK'
    BY <1>0, <2>1, <2>2 DEF LogCounts, WarningsOK, Handling
  <2>4. /\ Between("trim")' \in Nat /\ Between("trim")' = Between("trim") - 1
        /\ Between("count")' = Between("count")
    BY <1>0, <2>1, <2>2, <2>3, HandlersCounted DEF Handling
  <2>5. RecordAgrees'
    BY <1>0, <2>1, <2>4 DEF RecordAgrees, LogCounts
  <2> QED
    BY <2>1, <2>3, <2>5 DEF LogInv
<1>9. ASSUME NEW h \in Handlers, HandlerFails(h)
      PROVE  LogInv'
  <2>1. /\ UNCHANGED <<status, events, counter, warnings, shots, taken>>
        /\ broken' = IF handler[h].at \in {"count", "trim"} THEN broken + 1 ELSE broken
        /\ Move(h, "over")
    BY <1>9 DEF HandlerFails
  <2>2. /\ handler' \in [Handlers -> [at : HandlerStep, read : Nat]]
        /\ handler'[h].at = "over" /\ \A g \in Handlers \ {h} : handler'[g] = handler[g]
    BY <1>0, <2>1, HandlerMoves DEF HandlerStep
  <2>3. LogCounts' /\ WarningsOK'
    BY <1>0, <2>1, <2>2 DEF LogCounts, WarningsOK, Handling
  <2>4. RecordAgrees'
    <3>1. CASE handler[h].at = "count"
      <4>1. /\ Between("count") \in Nat /\ Between("count")' = Between("count") - 1
            /\ Between("trim")' = Between("trim") /\ Between("trim") \in Nat
        BY <1>0, <2>2, <2>3, <3>1, HandlersCounted DEF Handling
      <4> QED
        BY <1>0, <2>1, <3>1, <4>1 DEF RecordAgrees, LogCounts
    <3>2. CASE handler[h].at = "trim"
      <4>1. /\ Between("trim") \in Nat /\ Between("trim")' = Between("trim") - 1
            /\ Between("count")' = Between("count") /\ Between("count") \in Nat
        BY <1>0, <2>2, <2>3, <3>2, HandlersCounted DEF Handling
      <4> QED
        BY <1>0, <2>1, <3>2, <4>1 DEF RecordAgrees, LogCounts
    <3>3. CASE handler[h].at \notin {"count", "trim"}
      BY <1>0, <2>1, <2>2, <2>3, <3>3, RecordKept DEF RecordAgrees
    <3> QED
      BY <3>1, <3>2, <3>3
  <2> QED
    BY <2>1, <2>3, <2>4 DEF LogInv
<1>10. CASE StatusMoves
  BY <1>0, <1>10 DEF StatusMoves, LogInv, LogCounts, WarningsOK, RecordAgrees, Between, Handling
<1> QED
  BY <1>1, <1>2, <1>3, <1>4, <1>5, <1>6, <1>7, <1>8, <1>9, <1>10 DEF LogNext

LEMMA LogInitOK == LogInit => LogInv
<1> SUFFICES ASSUME LogInit PROVE LogInv
  OBVIOUS
<1>1. LogCounts /\ WarningsOK /\ KeepShots \in Nat
  BY LogAssumption DEF LogInit, LogCounts, WarningsOK, Handling, HandlerStep
<1>2. Between("count") = 0 /\ Between("trim") = 0
  <2>1. /\ {h \in Handlers : Handling(h, "count")} = {}
        /\ {h \in Handlers : Handling(h, "trim")} = {}
    BY DEF LogInit, Handling
  <2> QED
    BY <2>1, FS_EmptySet DEF Between
<1>3. RecordAgrees
  BY <1>1, <1>2 DEF LogInit, RecordAgrees
<1> QED
  BY <1>1, <1>3 DEF LogInit, LogInv

(* The counters of an attempt agree with its proctor events, but for the   *)
(* handlers between the two writes and those that ended there; no warning  *)
(* counts an event that was not counted; the list of screenshots passes    *)
(* its limit by no more than the handlers that have not trimmed it         *)
(* (proctorService.ts, attempts.ts).                                       *)
THEOREM RecordAgreesAlways == LogSpec => []RecordAgrees
<1>1. LogInv => RecordAgrees
  BY DEF LogInv
<1> QED
  BY <1>1, LogInitOK, LogStep, PTL DEF LogSpec

-----------------------------------------------------------------------------
(* The shared screen (ScreenCapture)                                       *)

Views == [loaded : BOOLEAN, sharing : BOOLEAN, requesting : BOOLEAN,
          overlay : BOOLEAN, submitted : BOOLEAN, refused : BOOLEAN]

ScreenTypes == ScreenTypeOK /\ display \in Views /\ granted \in Seq(Nat)

\* What the page shows agrees with its stream, and a request belongs to a visit.
SharingOK ==
  /\ stay = 0 => stream = 0
  /\ stay # 0 => (display.sharing <=> stream # 0)
  /\ stay # 0 /\ display.loaded /\ ~display.overlay => display.sharing
  /\ stay # 0 /\ display.sharing => random \/ display.submitted \/ display.refused

\* The page's stream was granted in its visit, and is the only live one that was,
\* unless it was granted beside another.
StreamOK ==
  /\ stream # 0 => granted[stream] = stay
  /\ stream # 0 /\ crossed \cup strayed = {} => stream \in live /\ source = stream
  /\ stream \notin crossed \cup {0} => \A m \in live : granted[m] = stay => m = stream

AskedOK ==
  \A r \in ShareClicks : asked[r].at \in {"fullscreen", "asking"} => asked[r].stay # 0

ScreenInv == ScreenTypes /\ SharingOK /\ StreamOK /\ AskedOK /\ NoStrayCapture

\* The effect changes nothing but the overlay, which it closes only for a screen
\* that is shared.
LEMMA ShownView ==
  ASSUME NEW v \in Views
  PROVE  /\ Shown(v) \in Views
         /\ Shown(v).loaded = v.loaded /\ Shown(v).sharing = v.sharing
         /\ Shown(v).submitted = v.submitted /\ Shown(v).refused = v.refused
         /\ v.loaded /\ ~Shown(v).overlay => v.sharing \/ ~v.overlay
BY DEF Shown, Views

\* A step of one request.
LEMMA RequestMoves ==
  ASSUME ScreenTypes, AskedOK, NEW r \in ShareClicks,
         NEW at \in {"none", "fullscreen", "asking", "done"}, Proceed(r, at),
         at \in {"fullscreen", "asking"} => asked[r].at \in {"fullscreen", "asking"}
  PROVE  /\ asked' \in [ShareClicks -> [at : {"none", "fullscreen", "asking", "done"},
                                        stay : 0..stays]]
         /\ \A x \in ShareClicks :
              asked'[x].at \in {"fullscreen", "asking"} => asked'[x].stay # 0
BY DEF ScreenTypes, ScreenTypeOK, AskedOK, Proceed

LEMMA ScreenStep == ScreenInv /\ [ScreenNext]_screenVars => ScreenInv'
<1> SUFFICES ASSUME ScreenInv, [ScreenNext]_screenVars PROVE ScreenInv'
  OBVIOUS
<1>0. /\ ScreenTypes /\ SharingOK /\ StreamOK /\ AskedOK /\ NoStrayCapture
      /\ MaxStays \in Nat
  BY ScreenAssumption DEF ScreenInv
<1>t. /\ stay \in {0, stays} /\ stays \in 0..MaxStays /\ stays \in Nat
      /\ live \subseteq 1..Len(granted) /\ crossed \subseteq 1..Len(granted)
      /\ strayed \subseteq 1..Len(granted)
      /\ stream \in 0..Len(granted) /\ source \in 0..Len(granted)
      /\ asked \in [ShareClicks -> [at : {"none", "fullscreen", "asking", "done"},
                                    stay : 0..stays]]
      /\ display \in Views /\ granted \in Seq(Nat) /\ Len(granted) \in Nat /\ NoView \in Views
  BY <1>0 DEF ScreenTypes, ScreenTypeOK, Views, NoView
<1>1. CASE UNCHANGED screenVars
  BY <1>1 DEF ScreenInv, ScreenTypes, ScreenTypeOK, SharingOK, StreamOK, AskedOK,
     NoStrayCapture, screenVars
<1>2. CASE EnterExam
  <2>1. /\ stay = 0 /\ stream = 0 /\ stay' = stays + 1 /\ stays' = stays + 1
        /\ stays' \in 0..MaxStays /\ display' = NoView /\ stays < MaxStays
        /\ UNCHANGED <<stream, source, live, granted, asked, random, crossed, strayed>>
    BY <1>0, <1>2, <1>t DEF EnterExam, SharingOK
  <2>2. asked' \in [ShareClicks -> [at : {"none", "fullscreen", "asking", "done"},
                                    stay : 0..stays']]
    <3>1. 0..stays \subseteq 0..stays'
      BY <1>t, <2>1
    <3> QED
      BY <1>t, <2>1, <3>1
  <2>3. ScreenTypes'
    BY <1>t, <2>1, <2>2 DEF ScreenTypes, ScreenTypeOK
  <2>4. SharingOK' /\ StreamOK' /\ AskedOK' /\ NoStrayCapture'
    BY <1>0, <1>t, <2>1 DEF SharingOK, StreamOK, AskedOK, NoStrayCapture, NoView
  <2> QED
    BY <2>3, <2>4 DEF ScreenInv
<1>3. CASE AttemptLoaded
  <2>1. /\ display' = [display EXCEPT !.loaded = TRUE, !.overlay = TRUE] /\ stay # 0
        /\ UNCHANGED <<stay, stays, stream, source, live, granted, asked, random,
                       crossed, strayed>>
    BY <1>3 DEF AttemptLoaded
  <2>2. display' \in Views
    BY <1>t, <2>1 DEF Views
  <2>3. ScreenTypes'
    BY <1>0, <2>1, <2>2 DEF ScreenTypes, ScreenTypeOK
  <2>4. SharingOK'
    BY <1>0, <1>t, <2>1 DEF SharingOK, Views
  <2> QED
    BY <1>0, <2>1, <2>3, <2>4 DEF ScreenInv, StreamOK, AskedOK, NoStrayCapture
<1>4. ASSUME NEW r \in ShareClicks, AskToShare(r)
      PROVE  ScreenInv'
  <2>1. /\ stay # 0
        /\ asked' = [asked EXCEPT ![r] = [at |-> "fullscreen", stay |-> stay]]
        /\ UNCHANGED <<stay, stays, display, stream, source, live, granted, random,
                       crossed, strayed>>
    BY <1>4 DEF AskToShare
  <2>2. ScreenTypes'
    BY <1>0, <1>t, <2>1 DEF ScreenTypes, ScreenTypeOK
  <2>3. AskedOK'
    BY <1>0, <1>t, <2>1 DEF AskedOK
  <2> QED
    BY <1>0, <2>1, <2>2, <2>3 DEF ScreenInv, StreamOK, SharingOK, NoStrayCapture
<1>5. ASSUME NEW r \in ShareClicks, Fullscreen(r) \/ Deny(r)
      PROVE  ScreenInv'
  <2>1. PICK at \in {"asking", "done"} : Proceed(r, at)
    BY <1>5 DEF Fullscreen, Deny
  <2>2. /\ asked[r].at \in {"fullscreen", "asking"}
        /\ UNCHANGED <<stay, stays, stream, source, live, granted, random, crossed, strayed>>
    BY <1>5 DEF Fullscreen, Deny
  <2>3. PICK b \in BOOLEAN :
          display' = display \/ display' = Shown([display EXCEPT !.requesting = b])
    BY <1>5 DEF Fullscreen, Deny
  <2>4. /\ display' \in Views
        /\ display'.loaded = display.loaded /\ display'.sharing = display.sharing
        /\ display'.submitted = display.submitted /\ display'.refused = display.refused
        /\ display.loaded /\ ~display'.overlay => display.sharing \/ ~display.overlay
    <3>1. CASE display' = display
      BY <1>t, <3>1
    <3>2. CASE display' = Shown([display EXCEPT !.requesting = b])
      <4> DEFINE v == [display EXCEPT !.requesting = b]
      <4>1. /\ v \in Views /\ v.loaded = display.loaded /\ v.sharing = display.sharing
            /\ v.submitted = display.submitted /\ v.refused = display.refused
            /\ v.overlay = display.overlay
        BY <1>t DEF Views
      <4> HIDE DEF v
      <4>2. display' = Shown(v)
        BY <3>2 DEF v
      <4> QED
        BY <4>1, <4>2, ShownView
    <3> QED
      BY <2>3, <3>1, <3>2
  <2>5. /\ asked' \in [ShareClicks -> [at : {"none", "fullscreen", "asking", "done"},
                                       stay : 0..stays]]
        /\ AskedOK'
    BY <1>0, <2>1, <2>2, RequestMoves DEF AskedOK
  <2>6. ScreenTypes'
    BY <1>0, <2>2, <2>4, <2>5 DEF ScreenTypes, ScreenTypeOK
  <2>7. SharingOK'
    BY <1>0, <2>2, <2>4 DEF SharingOK
  <2> QED
    BY <1>0, <2>2, <2>5, <2>6, <2>7 DEF ScreenInv, StreamOK, NoStrayCapture
<1>6. ASSUME NEW r \in ShareClicks, Grant(r)
      PROVE  ScreenInv'
  <2> DEFINE n == Len(granted) + 1
             others == {m \in live : granted[m] = stay}
  <2>1. /\ asked[r].at = "asking" /\ Proceed(r, "done")
        /\ granted' = Append(granted, asked[r].stay)
        /\ live' = live \cup {n} /\ source' = n /\ random' = TRUE
        /\ UNCHANGED <<stay, stays>>
    BY <1>6 DEF Grant
  <2>2. asked[r].stay \in Nat /\ asked[r].stay # 0
    BY <1>0, <1>t, <2>1 DEF AskedOK
  <2>3. /\ granted' \in Seq(Nat) /\ Len(granted') = n /\ n \in Nat /\ n # 0
        /\ granted'[n] = asked[r].stay
        /\ \A m \in 1..Len(granted) : granted'[m] = granted[m] /\ m # n
        /\ 1..Len(granted) \subseteq 1..Len(granted') /\ n \in 1..Len(granted')
    BY <1>t, <2>1, <2>2
  <2>4. /\ asked' \in [ShareClicks -> [at : {"none", "fullscreen", "asking", "done"},
                                       stay : 0..stays]]
        /\ AskedOK'
    BY <1>0, <2>1, RequestMoves DEF AskedOK
  <2>5. CASE Ours(r)
    <3>1. /\ stream' = n
          /\ display' = Shown([display EXCEPT !.sharing = TRUE, !.requesting = FALSE,
                                              !.refused = FALSE])
          /\ crossed' = crossed \cup (IF others = {} THEN {} ELSE others \cup {n})
          /\ strayed' = strayed
      BY <1>6, <2>5 DEF Grant
    <3>2. stay = asked[r].stay /\ stay # 0
      BY <2>2, <2>5 DEF Ours
    <3>3. display' \in Views /\ display'.sharing = TRUE
      <4> DEFINE v == [display EXCEPT !.sharing = TRUE, !.requesting = FALSE,
                                      !.refused = FALSE]
      <4>1. v \in Views /\ v.sharing = TRUE
        BY <1>t DEF Views
      <4> HIDE DEF v
      <4>2. display' = Shown(v)
        BY <3>1 DEF v
      <4> QED
        BY <4>1, <4>2, ShownView
    <3>4. others \subseteq live /\ \A m \in live : granted[m] = stay <=> m \in others
      OBVIOUS
    <3>5. ScreenTypes'
      <4>1. /\ live' \subseteq 1..Len(granted') /\ crossed' \subseteq 1..Len(granted')
            /\ strayed' \subseteq 1..Len(granted')
            /\ stream' \in 0..Len(granted') /\ source' \in 0..Len(granted')
        BY <1>t, <2>1, <2>3, <3>1, <3>4
      <4> QED
        BY <1>t, <2>1, <2>3, <2>4, <3>3, <4>1 DEF ScreenTypes, ScreenTypeOK
    <3>6. SharingOK'
      BY <2>1, <2>3, <3>1, <3>2, <3>3 DEF SharingOK
    <3> HIDE DEF others
    <3>7. StreamOK'
      <4>1. granted'[stream'] = stay' /\ stream' \in live' /\ source' = stream'
        BY <2>1, <2>3, <3>1, <3>2
      <4>2. ASSUME stream' \notin crossed' \cup {0}, NEW m \in live', granted'[m] = stay'
            PROVE  m = stream'
        <5>1. others = {}
          BY <3>1, <4>2
        <5> QED
          BY <1>t, <2>1, <2>3, <3>1, <3>4, <4>2, <5>1
      <4> QED
        BY <4>1, <4>2 DEF StreamOK
    <3>8. NoStrayCapture'
      <4>1. ASSUME NEW m \in live' PROVE m \in {stream'} \cup crossed' \cup strayed'
        <5>1. CASE m \in {n} \cup crossed \cup strayed
          BY <3>1, <5>1
        <5>2. CASE m \notin {n} \cup crossed \cup strayed
          <6>1. m = stream /\ m \in live /\ m # 0
            BY <1>0, <1>t, <2>1, <4>1, <5>2 DEF NoStrayCapture
          <6>2. m \in others
            BY <1>0, <3>4, <6>1 DEF StreamOK
          <6> QED
            BY <3>1, <6>2
        <5> QED
          BY <5>1, <5>2
      <4> QED
        BY <2>1, <3>2, <4>1 DEF NoStrayCapture
    <3> QED
      BY <2>4, <3>5, <3>6, <3>7, <3>8 DEF ScreenInv
  <2>6. CASE ~Ours(r)
    <3>1. strayed' = strayed \cup {n} /\ UNCHANGED <<stream, display, crossed>>
      BY <1>6, <2>6 DEF Grant
    <3>2. stay # asked[r].stay
      BY <2>6 DEF Ours
    <3>3. ScreenTypes'
      <4>1. /\ live' \subseteq 1..Len(granted') /\ crossed' \subseteq 1..Len(granted')
            /\ strayed' \subseteq 1..Len(granted')
            /\ stream' \in 0..Len(granted') /\ source' \in 0..Len(granted')
        <5>1. stream \in 0..Len(granted') /\ n \in 0..Len(granted')
          BY <1>t, <2>3
        <5> HIDE DEF n, others
        <5> QED
          BY <1>t, <2>1, <2>3, <3>1, <5>1
      <4>2. /\ stay' \in {0, stays'} /\ stays' \in 0..MaxStays /\ stays' = stays
            /\ display' \in Views
        BY <1>t, <2>1, <3>1
      <4> HIDE DEF n, others
      <4> QED
        BY <2>3, <2>4, <4>1, <4>2 DEF ScreenTypes, ScreenTypeOK
    <3>4. SharingOK'
      BY <1>0, <2>1, <3>1 DEF SharingOK
    <3>5. StreamOK'
      <4>1. stream # 0 => granted'[stream] = stay
        BY <1>0, <1>t, <2>3 DEF StreamOK
      <4>2. ASSUME stream \notin crossed \cup {0}, NEW m \in live', granted'[m] = stay
            PROVE  m = stream
        <5>1. m \in live /\ granted[m] = stay
          BY <1>t, <2>1, <2>3, <3>2, <4>2
        <5> QED
          BY <1>0, <4>2, <5>1 DEF StreamOK
      <4> QED
        BY <2>1, <3>1, <4>1, <4>2 DEF StreamOK
    <3>6. NoStrayCapture'
      BY <1>0, <2>1, <3>1 DEF NoStrayCapture
    <3> QED
      BY <2>4, <3>3, <3>4, <3>5, <3>6 DEF ScreenInv
  <2> QED
    BY <2>5, <2>6
<1>7. ASSUME NEW n \in 1..Len(granted), StopSharing(n)
      PROVE  ScreenInv'
  <2>1. /\ n \in live /\ live' = live \ {n} /\ source' = 0 /\ n # 0
        /\ UNCHANGED <<stay, stays, granted, asked, random, crossed, strayed>>
    BY <1>7 DEF StopSharing
  <2>2. AskedOK'
    BY <1>0, <2>1 DEF AskedOK
  <2>3. CASE granted[n] = stay
    <3>1. /\ stream' = 0
          /\ display' = Shown([display EXCEPT !.sharing = FALSE, !.overlay = TRUE])
      BY <1>7, <2>3 DEF StopSharing
    <3>2. /\ display' \in Views /\ display'.sharing = FALSE
          /\ display'.loaded => display'.overlay
      <4> DEFINE v == [display EXCEPT !.sharing = FALSE, !.overlay = TRUE]
      <4>1. v \in Views /\ v.sharing = FALSE /\ v.overlay = TRUE
        BY <1>t DEF Views
      <4> HIDE DEF v
      <4>2. display' = Shown(v)
        BY <3>1 DEF v
      <4> QED
        BY <4>1, <4>2, ShownView
    <3>3. ScreenTypes'
      BY <1>t, <2>1, <3>1, <3>2 DEF ScreenTypes, ScreenTypeOK
    <3>4. SharingOK' /\ StreamOK'
      BY <2>1, <3>1, <3>2 DEF SharingOK, StreamOK
    <3>5. NoStrayCapture'
      <4>1. ASSUME NEW m \in live' PROVE m \in crossed \cup strayed
        <5>1. CASE m = stream
          <6>1. stream # 0 /\ n # stream
            BY <1>t, <2>1, <4>1, <5>1
          <6>2. stream \in crossed
            BY <1>0, <2>1, <2>3, <6>1 DEF StreamOK
          <6> QED
            BY <5>1, <6>2
        <5>2. CASE m # stream
          BY <1>0, <2>1, <4>1, <5>2 DEF NoStrayCapture
        <5> QED
          BY <5>1, <5>2
      <4> QED
        BY <1>0, <2>1, <4>1 DEF NoStrayCapture
    <3> QED
      BY <2>2, <3>3, <3>4, <3>5 DEF ScreenInv
  <2>4. CASE granted[n] # stay
    <3>1. UNCHANGED <<stream, display>>
      BY <1>7, <2>4 DEF StopSharing
    <3>2. ScreenTypes'
      BY <1>t, <2>1, <3>1 DEF ScreenTypes, ScreenTypeOK
    <3>3. SharingOK' /\ NoStrayCapture'
      BY <1>0, <2>1, <3>1 DEF SharingOK, NoStrayCapture
    <3>4. stream # 0 => crossed \cup strayed # {}
      BY <1>0, <2>1, <2>4 DEF NoStrayCapture, StreamOK
    <3>5. StreamOK'
      BY <1>0, <2>1, <3>1, <3>4 DEF StreamOK
    <3> QED
      BY <2>2, <3>2, <3>3, <3>5 DEF ScreenInv
  <2> QED
    BY <2>3, <2>4
<1>8. CASE ConfirmSubmit \/ SubmitRefused
  <2>1. /\ stay # 0 /\ display' \in Views
        /\ display'.sharing = display.sharing /\ display'.loaded = display.loaded
        /\ display'.overlay = display.overlay
        /\ display'.submitted \/ display'.refused
        /\ UNCHANGED <<stay, stays, stream, source, live, granted, asked, crossed, strayed>>
    BY <1>8, <1>t DEF ConfirmSubmit, SubmitRefused, Views
  <2>2. random' = random \/ random' = FALSE
    BY <1>8 DEF ConfirmSubmit, SubmitRefused
  <2>3. ScreenTypes'
    BY <1>t, <2>1 DEF ScreenTypes, ScreenTypeOK
  <2>4. SharingOK'
    BY <1>0, <2>1 DEF SharingOK
  <2>5. NoStrayCapture'
    BY <1>0, <2>1 DEF NoStrayCapture
  <2> QED
    BY <1>0, <2>1, <2>3, <2>4, <2>5 DEF ScreenInv, StreamOK, AskedOK
<1>9. CASE LeaveExam
  <2>1. /\ stay' = 0 /\ display' = NoView /\ random' = FALSE
        /\ live' = live \ {stream} /\ stream' = 0 /\ source' = 0
        /\ UNCHANGED <<stays, granted, asked, crossed, strayed>>
    BY <1>9 DEF LeaveExam
  <2>2. ScreenTypes'
    BY <1>t, <2>1 DEF ScreenTypes, ScreenTypeOK
  <2>3. SharingOK' /\ StreamOK' /\ AskedOK' /\ NoStrayCapture'
    BY <1>0, <2>1 DEF SharingOK, StreamOK, AskedOK, NoStrayCapture
  <2> QED
    BY <2>2, <2>3 DEF ScreenInv
<1>10. CASE Reload
  <2>1. /\ stay' = 0 /\ display' = NoView /\ random' = FALSE
        /\ live' = {} /\ stream' = 0 /\ source' = 0 /\ crossed' = {} /\ strayed' = {}
        /\ asked' = [r \in ShareClicks |->
                         IF asked[r].at = "none" THEN asked[r]
                         ELSE [at |-> "done", stay |-> 0]]
        /\ UNCHANGED <<stays, granted>>
    BY <1>10 DEF Reload
  <2>2. /\ asked' \in [ShareClicks -> [at : {"none", "fullscreen", "asking", "done"},
                                       stay : 0..stays]]
        /\ AskedOK'
    BY <1>t, <2>1 DEF AskedOK
  <2>3. ScreenTypes'
    BY <1>t, <2>1, <2>2 DEF ScreenTypes, ScreenTypeOK
  <2>4. SharingOK' /\ StreamOK' /\ NoStrayCapture'
    BY <2>1 DEF SharingOK, StreamOK, NoStrayCapture
  <2> QED
    BY <2>2, <2>3, <2>4 DEF ScreenInv
<1> QED
  BY <1>1, <1>2, <1>3, <1>4, <1>5, <1>6, <1>7, <1>8, <1>9, <1>10 DEF ScreenNext

LEMMA ScreenInitOK == ScreenInit => ScreenInv
<1> SUFFICES ASSUME ScreenInit PROVE ScreenInv
  OBVIOUS
<1>1. granted = << >> /\ Len(granted) = 0 /\ granted \in Seq(Nat)
  BY DEF ScreenInit
<1>2. NoView \in Views
  BY DEF NoView, Views
<1>3. ScreenTypes
  BY <1>1, <1>2, ScreenAssumption DEF ScreenInit, ScreenTypes, ScreenTypeOK
<1> QED
  BY <1>3 DEF ScreenInit, ScreenInv, SharingOK, StreamOK, AskedOK, NoStrayCapture

(* While the editor is open the page has a live stream and captures are    *)
(* taken from it, and no screen is captured when the exam is left, but for *)
(* a stream that was granted twice in one visit or after its visit         *)
(* (useScreenShare.ts, proctorCapture.ts, page.tsx).                       *)
THEOREM CapturesExplainedAlways == ScreenSpec => []CapturesExplained
<1>1. ScreenInv => CapturesExplained
  BY DEF ScreenInv, SharingOK, StreamOK, CapturesExplained, WorkIsCaptured, Working
<1> QED
  BY <1>1, ScreenInitOK, ScreenStep, PTL DEF ScreenSpec

-----------------------------------------------------------------------------
(* Signing in and out (Sessions)                                           *)

\* Where a login is before its session is listed.
BeforeList == {"session", "slide", "unindex", "verify", "list"}
\* Where a request revokes the family fam.
Revoking == {"family", "members", "markMember"}
AuthStages ==
  BeforeList \cup Revoking \cup
    {"idle", "setIndex", "issue", "join", "data", "delOld", "markOld", "visit", "sessions",
     "dropIndex", "yes", "no"}
AuthReq == [op : {"none", "login", "refresh", "logout", "logoutAll"}, at : AuthStages,
            tok : Nat, new : Nat, fam : {0} \cup Families,
            keys : SUBSET Nat, todo : SUBSET Nat, clean : SUBSET Families]

OfFamily(f) == {k \in Issued : familyOf[k] = f}

\* What a request is about, at each of its steps.
RequestOK(r) ==
  /\ r.at \in BeforeList \cup {"setIndex"} => r.op = "login"
  /\ r.at \in {"issue", "join"} => r.op \in {"login", "refresh"}
  /\ r.at = "data" => r.op = "refresh"
  /\ r.at \in {"delOld", "markOld"} => r.op \in {"refresh", "logout"}
  /\ r.at \in Revoking => r.op \in {"refresh", "logoutAll"} /\ r.fam # 0
  /\ r.at \in {"visit", "sessions", "dropIndex"} => r.op = "logoutAll"
  /\ r.op = "login" => r.fam \in 1..logins /\ r.tok \in 0..logins
  /\ r.at \in {"session", "slide"} => r.tok # 0
  /\ r.op \in {"refresh", "logout"} => r.tok \in Issued /\ r.fam = familyOf[r.tok]
  /\ r.op \in {"login", "refresh"} /\ r.at \in {"join", "yes"} => r.new \in OfFamily(r.fam)
  /\ r.keys \subseteq Issued
  /\ r.at \in {"members", "markMember"} => r.todo \subseteq OfFamily(r.fam)
  /\ r.at = "markMember" => r.new \in OfFamily(r.fam)
  /\ r.at \in {"sessions", "dropIndex"} => r.todo \subseteq 1..logins

StoreTypes ==
  /\ logins \in 0..MaxLogins /\ loginIndex \in 0..logins
  /\ familyOf \in Seq(Families) /\ \A k \in Issued : familyOf[k] <= logins
  /\ stored \subseteq Issued /\ marked \subseteq Issued
  /\ members \in [Families -> SUBSET Nat]
  /\ \A f \in Families : members[f] \subseteq OfFamily(f)
  /\ held \in [Tabs -> {0} \cup Issued] /\ saved \in {0} \cup Issued
  /\ cached \subseteq Families /\ listed \subseteq 1..logins
  /\ ended \subseteq 1..logins /\ over \subseteq 1..logins

AuthTypes ==
  /\ StoreTypes /\ req \in [Tabs -> AuthReq]
  /\ \A t \in Tabs : RequestOK(req[t])

\* An id that was presented, or whose family was reused, logged out or hit by a
\* fault.
Blamed(k) == k \in presented \/ familyOf[k] \in causes

CauseOf(r) ==
  /\ r.op = "refresh" => r.tok \in presented
  /\ r.op = "logout" \/ r.at \in Revoking => r.fam \in causes
  /\ \A k \in r.keys : familyOf[k] \in causes
  /\ r.op = "refresh" /\ r.at = "data" => r.tok \in stored \/ r.fam \in causes
  /\ r.op = "refresh" /\ r.at = "no" => r.fam \in causes

\* Ids are marked, and no longer stored, for a cause; so is a refresh refused.
CausesOK ==
  /\ \A k \in marked \cup (Issued \ stored) : Blamed(k)
  /\ \A t \in Tabs : CauseOf(req[t])
  /\ \A t \in Tabs : \A u \in Tabs \ {t} :
       req[t].op = "refresh" /\ req[u].op = "refresh" /\ req[t].tok = req[u].tok
         => req[t].fam \in causes

\* A login whose session is not listed yet, or not indexed.
Unlisted(r, f) == r.at \in BeforeList /\ r.fam = f
Unset(r, f) == r.at \in BeforeList \cup {"setIndex"} /\ r.fam = f

\* A session is indexed once, by its own login, after it was listed; one that a
\* logout-all deletes comes back to the cache only by a login that has read it
\* in the index, which then does not lead to it any more.
IndexOK ==
  /\ \A t \in Tabs : \A u \in Tabs \ {t} :
       req[t].op = "login" /\ req[u].op = "login" => req[t].fam # req[u].fam
  /\ \A u \in Tabs : ~Unset(req[u], loginIndex)
  /\ \A t, u \in Tabs : req[t].at \in {"session", "slide"} => ~Unset(req[u], req[t].tok)
  /\ \A f \in listed \cup ended : \A u \in Tabs : ~Unlisted(req[u], f)
  /\ \A t, u \in Tabs : req[t].at \in {"sessions", "dropIndex"} =>
       \A f \in req[t].todo : ~Unlisted(req[u], f)
  /\ \A t, u \in Tabs : req[t].at = "dropIndex" /\ req[u].at = "setIndex" =>
       req[u].fam \notin req[t].todo \cap cached
  /\ \A u \in Tabs : req[u].at = "setIndex" => req[u].fam \notin ended \cap cached
  /\ loginIndex \in ended =>
       /\ loginIndex \notin cached
       /\ \A t \in Tabs : req[t].at = "slide" => req[t].tok # loginIndex

FlightOf(r, f) == r.op = "logoutAll" \/ (r.op \in {"login", "refresh"} /\ r.fam = f)
Stored(f) == {k \in stored : familyOf[k] = f}

\* The ids of the family f that a request which revokes families has still to delete.
Left(r, f) ==
  IF r.at = "visit" \/ r.fam # f THEN r.keys \cap members[f]
  ELSE IF r.at = "family" THEN members[f]
  ELSE IF r.at = "members" THEN r.todo ELSE r.todo \ {r.new}

\* A family that can be relied on to be revoked: no other request is about it, and
\* all that is stored of it will be deleted.
CleanOK ==
  \A t \in Tabs : \A f \in req[t].clean :
    /\ f <= logins
    /\ req[t].op = "logoutAll" \/ (req[t].op = "refresh" /\ req[t].fam = f)
    /\ \A u \in Tabs \ {t} : ~FlightOf(req[u], f)
    /\ req[t].at \in Revoking \cup {"visit"} => Stored(f) \subseteq Left(req[t], f)

\* A request that stores an id of f, or is going to.
Storing(r, f) ==
  /\ r.op \in {"login", "refresh"} /\ r.fam = f
  /\ r.at \in BeforeList \cup {"setIndex", "delOld", "markOld", "issue"}

OverOK == \A f \in over : Stored(f) = {} /\ \A u \in Tabs : ~Storing(req[u], f)

SessionInv == AuthTypes /\ CausesOK /\ IndexOK /\ CleanOK /\ OverOK

SameRequest(r, q) ==
  /\ q.op = r.op /\ q.at = r.at /\ q.tok = r.tok /\ q.new = r.new /\ q.fam = r.fam
  /\ q.keys = r.keys /\ q.todo = r.todo /\ q.clean \subseteq r.clean

\* A step of the tab t leaves the requests of the others, but for families that
\* can no longer be relied on.
OthersKept(t) == \A u \in Tabs \ {t} : SameRequest(req[u], req'[u])

SameOwn(r, q) ==
  q.op = r.op /\ q.tok = r.tok /\ q.fam = r.fam /\ q.keys = r.keys /\ q.clean = r.clean

LEMMA GotoKeeps ==
  ASSUME AuthTypes, NEW t \in Tabs, NEW at \in AuthStages, Goto(t, at)
  PROVE  /\ req' \in [Tabs -> AuthReq] /\ OthersKept(t) /\ SameOwn(req[t], req'[t])
         /\ req'[t].at = at /\ req'[t].new = req[t].new /\ req'[t].todo = req[t].todo
BY DEF AuthTypes, Goto, AuthReq, OthersKept, SameRequest, SameOwn

LEMMA GotoTodoKeeps ==
  ASSUME AuthTypes, NEW t \in Tabs, NEW at \in AuthStages, NEW v \in SUBSET Nat,
         GotoWith(t, at, "todo", v)
  PROVE  /\ req' \in [Tabs -> AuthReq] /\ OthersKept(t) /\ SameOwn(req[t], req'[t])
         /\ req'[t].at = at /\ req'[t].new = req[t].new /\ req'[t].todo = v
BY DEF AuthTypes, GotoWith, AuthReq, OthersKept, SameRequest, SameOwn

LEMMA GotoNewKeeps ==
  ASSUME AuthTypes, NEW t \in Tabs, NEW at \in AuthStages, NEW v \in Nat,
         GotoWith(t, at, "new", v)
  PROVE  /\ req' \in [Tabs -> AuthReq] /\ OthersKept(t) /\ SameOwn(req[t], req'[t])
         /\ req'[t].at = at /\ req'[t].new = v /\ req'[t].todo = req[t].todo
BY DEF AuthTypes, GotoWith, AuthReq, OthersKept, SameRequest, SameOwn

\* Tokens are only added, and keep their families.
TokensGrow ==
  /\ logins \in Nat /\ logins' \in Nat /\ logins <= logins'
  /\ Issued \subseteq Issued' /\ \A k \in Issued : familyOf'[k] = familyOf[k]

LEMMA RequestKept ==
  ASSUME NEW r, NEW q, RequestOK(r), SameRequest(r, q), TokensGrow
  PROVE  RequestOK(q)'
<1>1. \A f : OfFamily(f) \subseteq OfFamily(f)'
  BY DEF TokensGrow, OfFamily
<1>2. 1..logins \subseteq 1..logins' /\ 0..logins \subseteq 0..logins'
  BY DEF TokensGrow
<1> QED
  BY <1>1, <1>2 DEF RequestOK, SameRequest, TokensGrow

LEMMA RequestsKept ==
  ASSUME AuthTypes, NEW t \in Tabs, OthersKept(t), RequestOK(req[t])', TokensGrow
  PROVE  \A u \in Tabs : RequestOK(req[u])'
<1>1. ASSUME NEW u \in Tabs \ {t} PROVE RequestOK(req[u])'
  <2>1. PICK r : r = req[u]
    OBVIOUS
  <2>2. PICK q : q = req'[u]
    OBVIOUS
  <2>3. RequestOK(q)'
    BY <2>1, <2>2, RequestKept DEF AuthTypes, OthersKept
  <2> QED
    BY <2>2, <2>3
<1> QED
  BY <1>1

\* A step that issues no token, begins no login and leaves the families as they are.
LEMMA TypesKept ==
  ASSUME AuthTypes, NEW t \in Tabs, OthersKept(t), req' \in [Tabs -> AuthReq],
         RequestOK(req[t])', UNCHANGED <<familyOf, members, logins>>,
         stored' \subseteq Issued, marked' \subseteq Issued,
         loginIndex' \in 0..logins, cached' \subseteq Families,
         listed' \subseteq 1..logins, ended' \subseteq 1..logins, over' \subseteq 1..logins,
         held' \in [Tabs -> {0} \cup Issued], saved' \in {0} \cup Issued
  PROVE  AuthTypes'
<1>1. TokensGrow
  BY DEF TokensGrow, AuthTypes, StoreTypes, Issued
<1>2. \A u \in Tabs : RequestOK(req[u])'
  BY <1>1, RequestsKept
<1>3. StoreTypes'
  BY DEF AuthTypes, StoreTypes, Issued, OfFamily
<1> QED
  BY <1>2, <1>3 DEF AuthTypes

LEMMA CausesKept ==
  ASSUME AuthTypes, CausesOK, NEW t \in Tabs, OthersKept(t), TokensGrow,
         presented \subseteq presented', causes \subseteq causes',
         \A k \in marked' \ marked : Blamed(k)',
         \A k \in Issued' \ stored' : k \in Issued \ stored \/ Blamed(k)',
         \A u \in Tabs \ {t} : req[u].op = "refresh" /\ req[u].at = "data"
           /\ req[u].tok \in stored \ stored' => req[u].fam \in causes',
         CauseOf(req[t])',
         \A u \in Tabs \ {t} :
           req'[t].op = "refresh" /\ req[u].op = "refresh" /\ req'[t].tok = req[u].tok
             => req'[t].fam \in causes' /\ req[u].fam \in causes'
  PROVE  CausesOK'
<1>1. \A k \in Issued : Blamed(k) => Blamed(k)'
  BY DEF TokensGrow, Blamed
<1>2. \A k \in (marked \cup (Issued \ stored))' : Blamed(k)'
  BY <1>1 DEF CausesOK, AuthTypes, StoreTypes
<1>3. ASSUME NEW u \in Tabs \ {t} PROVE CauseOf(req[u])'
  <2>1. SameRequest(req[u], req'[u]) /\ CauseOf(req[u]) /\ RequestOK(req[u])
    BY DEF OthersKept, CausesOK, AuthTypes
  <2>2. \A k \in req[u].keys : familyOf'[k] \in causes'
    BY <2>1 DEF RequestOK, CauseOf, TokensGrow
  <2> QED
    BY <2>1, <2>2 DEF CauseOf, SameRequest
<1>4. ASSUME NEW u \in Tabs, NEW w \in Tabs \ {u}, req'[u].op = "refresh",
             req'[w].op = "refresh", req'[u].tok = req'[w].tok
      PROVE  req'[u].fam \in causes'
  <2>1. CASE u = t
    BY <1>4, <2>1 DEF OthersKept, SameRequest
  <2>2. CASE w = t
    BY <1>4, <2>2 DEF OthersKept, SameRequest
  <2>3. CASE u # t /\ w # t
    BY <1>4, <2>3 DEF OthersKept, SameRequest, CausesOK
  <2> QED
    BY <2>1, <2>2, <2>3
<1> QED
  BY <1>2, <1>3, <1>4 DEF CausesOK

\* A step that stores, marks and presents nothing, of a request that goes on.
LEMMA CausesQuiet ==
  ASSUME AuthTypes, CausesOK, NEW t \in Tabs, OthersKept(t), CauseOf(req[t])',
         UNCHANGED <<familyOf, stored, marked, presented>>,
         logins \in Nat, logins' \in Nat, logins <= logins', causes \subseteq causes',
         req'[t].op = "refresh" =>
           req[t].op = "refresh" /\ req'[t].tok = req[t].tok /\ req'[t].fam = req[t].fam
  PROVE  CausesOK'
<1>1. TokensGrow
  BY DEF TokensGrow, Issued
<1>2. \A u \in Tabs \ {t} :
        req'[t].op = "refresh" /\ req[u].op = "refresh" /\ req'[t].tok = req[u].tok
          => req'[t].fam \in causes' /\ req[u].fam \in causes'
  BY DEF CausesOK
<1> QED
  BY <1>1, <1>2, CausesKept DEF Issued

\* A step that is not about the sessions, their index or a login's place there.
LEMMA IndexQuiet ==
  ASSUME AuthTypes, IndexOK, NEW t \in Tabs, OthersKept(t),
         req'[t].op = "login" => req[t].op = "login" /\ req'[t].fam = req[t].fam,
         req'[t].at \in BeforeList =>
           req[t].at \in BeforeList /\ req'[t].fam = req[t].fam,
         req'[t].at \notin {"setIndex", "session", "slide", "sessions", "dropIndex"},
         loginIndex' \in {loginIndex, 0}, UNCHANGED <<listed, cached, ended>>
  PROVE  IndexOK'
<1>0. /\ \A u \in Tabs \ {t} : SameRequest(req[u], req'[u])
      /\ \A u \in Tabs : req[u].at \in BeforeList => req[u].fam # 0
      /\ 0 \notin ended
  BY DEF OthersKept, AuthTypes, StoreTypes, RequestOK
<1>1. \A u \in Tabs : \A f : (Unset(req'[u], f) => Unset(req[u], f))
        /\ (Unlisted(req'[u], f) => Unlisted(req[u], f))
  BY <1>0 DEF SameRequest, Unset, Unlisted, BeforeList
<1>2. \A u \in Tabs : ~Unset(req'[u], 0)
  BY <1>1 DEF AuthTypes, RequestOK, Unset
<1>3. \A u \in Tabs : ~Unset(req'[u], loginIndex')
  BY <1>1, <1>2 DEF IndexOK
<1>4. \A u \in Tabs : req'[u].at \in {"setIndex", "session", "slide", "sessions", "dropIndex"}
        => SameRequest(req[u], req'[u])
  BY <1>0
<1>5. \A u \in Tabs : \A w \in Tabs \ {u} :
        req'[u].op = "login" /\ req'[w].op = "login" => req'[u].fam # req'[w].fam
  BY <1>0 DEF IndexOK, SameRequest
<1>6. \A u, w \in Tabs : req'[u].at \in {"session", "slide"} => ~Unset(req'[w], req'[u].tok)
  BY <1>1, <1>4 DEF IndexOK, SameRequest
<1>7. \A f \in listed \cup ended : \A u \in Tabs : ~Unlisted(req'[u], f)
  BY <1>1 DEF IndexOK
<1>8. \A u, w \in Tabs : req'[u].at \in {"sessions", "dropIndex"} =>
        \A f \in req'[u].todo : ~Unlisted(req'[w], f)
  BY <1>1, <1>4 DEF IndexOK, SameRequest
<1>9. \A u, w \in Tabs : req'[u].at = "dropIndex" /\ req'[w].at = "setIndex" =>
        req'[w].fam \notin req'[u].todo \cap cached
  BY <1>4 DEF IndexOK, SameRequest
<1>10. \A u \in Tabs : req'[u].at = "setIndex" => req'[u].fam \notin ended \cap cached
  BY <1>4 DEF IndexOK, SameRequest
<1>11. loginIndex' \in ended => /\ loginIndex' \notin cached
         /\ \A u \in Tabs : req'[u].at = "slide" => req'[u].tok # loginIndex'
  BY <1>0, <1>4 DEF IndexOK, SameRequest
<1> QED
  BY <1>3, <1>5, <1>6, <1>7, <1>8, <1>9, <1>10, <1>11 DEF IndexOK

\* A step of a tab whose request gets no other family, and stores no id.
LEMMA CleanKept ==
  ASSUME AuthTypes, CleanOK, NEW t \in Tabs, OthersKept(t),
         \A f \in 1..logins : FlightOf(req'[t], f) => FlightOf(req[t], f),
         UNCHANGED <<familyOf, members>>, stored' \subseteq stored,
         logins \in Nat, logins' \in Nat, logins <= logins',
         req'[t].clean \subseteq req[t].clean,
         \A f \in req'[t].clean :
           /\ req'[t].op = "logoutAll" \/ (req'[t].op = "refresh" /\ req'[t].fam = f)
           /\ req'[t].at \in Revoking \cup {"visit"} => Stored(f)' \subseteq Left(req[t], f)'
  PROVE  CleanOK'
<1>1. ASSUME NEW u \in Tabs, NEW f \in req'[u].clean
      PROVE  f \in req[u].clean /\ f <= logins /\ f \in 1..logins
  <2>1. f \in req[u].clean
    BY <1>1 DEF OthersKept, SameRequest
  <2> QED
    BY <1>1, <2>1, SessionAssumption DEF CleanOK, AuthTypes, AuthReq, Families
<1>2. \A f : Stored(f)' \subseteq Stored(f)
  BY DEF Stored
<1>3. ASSUME NEW u \in Tabs \ {t}, NEW f \in req'[u].clean
      PROVE  /\ req'[u].op = "logoutAll" \/ (req'[u].op = "refresh" /\ req'[u].fam = f)
             /\ req'[u].at \in Revoking \cup {"visit"} => Stored(f)' \subseteq Left(req[u], f)'
  BY <1>1, <1>2 DEF CleanOK, OthersKept, SameRequest, Left
<1>4. ASSUME NEW u \in Tabs, NEW f \in req'[u].clean, NEW w \in Tabs \ {u}
      PROVE  ~FlightOf(req'[w], f)
  <2>1. ~FlightOf(req[w], f) /\ f \in 1..logins
    BY <1>1 DEF CleanOK
  <2>2. CASE w = t
    BY <2>1, <2>2
  <2>3. CASE w # t
    BY <2>1, <2>3 DEF OthersKept, SameRequest, FlightOf
  <2> QED
    BY <2>2, <2>3
<1>5. \A u \in Tabs : \A f \in req'[u].clean : f <= logins'
  BY <1>1 DEF AuthTypes, AuthReq, Families
<1> QED
  BY <1>3, <1>4, <1>5 DEF CleanOK

LEMMA OverKept ==
  ASSUME AuthTypes, OverOK, NEW t \in Tabs, OthersKept(t),
         UNCHANGED <<familyOf, over>>, stored' \subseteq stored,
         \A f \in over : ~Storing(req'[t], f)
  PROVE  OverOK'
<1>1. \A u \in Tabs \ {t} : \A f \in over : ~Storing(req'[u], f)
  BY DEF OverOK, OthersKept, SameRequest, Storing
<1>2. \A f \in over : Stored(f)' = {}
  BY DEF OverOK, Stored
<1> QED
  BY <1>1, <1>2 DEF OverOK

LEMMA SessionFacts ==
  ASSUME SessionInv, NEW t \in Tabs
  PROVE  /\ AuthTypes /\ CausesOK /\ IndexOK /\ CleanOK /\ OverOK
         /\ req[t] \in AuthReq /\ RequestOK(req[t]) /\ CauseOf(req[t])
         /\ logins \in Nat /\ loginIndex \in 0..logins /\ loginIndex \in Nat
         /\ MaxLogins \in Nat /\ logins <= MaxLogins
         /\ stored \subseteq Issued /\ marked \subseteq Issued /\ cached \subseteq Families
         /\ listed \subseteq 1..logins /\ ended \subseteq 1..logins /\ over \subseteq 1..logins
         /\ held \in [Tabs -> {0} \cup Issued] /\ saved \in {0} \cup Issued
         /\ familyOf \in Seq(Families) /\ Issued \subseteq Nat
         /\ \A k \in Issued : familyOf[k] \in Families /\ familyOf[k] \in 1..logins
<1>1. /\ AuthTypes /\ CausesOK /\ IndexOK /\ CleanOK /\ OverOK /\ StoreTypes
      /\ req[t] \in AuthReq /\ RequestOK(req[t]) /\ CauseOf(req[t])
  BY DEF SessionInv, AuthTypes, CausesOK
<1>2. /\ logins \in Nat /\ loginIndex \in Nat /\ logins <= MaxLogins
      /\ familyOf \in Seq(Families)
  BY <1>1, SessionAssumption DEF StoreTypes
<1>3. Issued \subseteq Nat /\ \A k \in Issued : familyOf[k] \in Families
  BY <1>2 DEF Issued
<1>4. \A k \in Issued : familyOf[k] \in 1..logins
  BY <1>1, <1>2, <1>3, SessionAssumption DEF StoreTypes, Families
<1> QED
  BY <1>1, <1>2, <1>3, <1>4, SessionAssumption DEF StoreTypes

\* A step that stores, marks, lists and ends nothing, of a request that goes on.
LEMMA QuietStep ==
  ASSUME SessionInv, NEW t \in Tabs, OthersKept(t), req' \in [Tabs -> AuthReq],
         RequestOK(req[t])', CauseOf(req[t])',
         UNCHANGED <<redisTokens, cached, listed, logins, presented, over, ended>>,
         loginIndex' \in {loginIndex, 0}, causes \subseteq causes',
         held' \in [Tabs -> {0} \cup Issued], saved' \in {0} \cup Issued,
         req'[t].op \in {"login", "refresh"} => req'[t].op = req[t].op
           /\ req'[t].tok = req[t].tok /\ req'[t].fam = req[t].fam,
         req'[t].op = "logoutAll" => req[t].op = "logoutAll",
         req'[t].at \in BeforeList => req[t].at \in BeforeList,
         req'[t].at \notin {"setIndex", "session", "slide", "sessions", "dropIndex"},
         req'[t].clean \subseteq req[t].clean,
         \A f \in req'[t].clean :
           /\ req'[t].op \in {"refresh", "logoutAll"}
           /\ req'[t].at \in Revoking \cup {"visit"} => Stored(f)' \subseteq Left(req[t], f)',
         \A f \in over : ~Storing(req'[t], f)
  PROVE  SessionInv'
<1>0. /\ AuthTypes /\ CausesOK /\ IndexOK /\ CleanOK /\ OverOK
      /\ logins \in Nat /\ loginIndex' \in 0..logins
      /\ UNCHANGED <<familyOf, members, stored, marked, listed, cached, ended, over,
                     logins, presented>>
      /\ stored \subseteq Issued /\ marked \subseteq Issued /\ cached \subseteq Families
      /\ listed \subseteq 1..logins /\ ended \subseteq 1..logins /\ over \subseteq 1..logins
  BY SessionFacts DEF redisTokens
<1>1. AuthTypes'
  BY <1>0, TypesKept
<1>2. CausesOK'
  <2>1. logins' \in Nat /\ logins <= logins'
    BY <1>0
  <2> QED
    BY <1>0, <2>1, CausesQuiet
<1>3. IndexOK'
  <2>1. req'[t].at \in BeforeList => req'[t].op = "login"
    BY <1>1 DEF AuthTypes, RequestOK
  <2> QED
    BY <1>0, <2>1, IndexQuiet
<1>4. CleanOK'
  <2>1. \A f \in 1..logins : FlightOf(req'[t], f) => FlightOf(req[t], f)
    BY DEF FlightOf
  <2>2. \A f \in req'[t].clean :
          req'[t].op = "logoutAll" \/ (req'[t].op = "refresh" /\ req'[t].fam = f)
    BY <1>0 DEF CleanOK
  <2>3. logins' \in Nat /\ logins <= logins' /\ stored' \subseteq stored
    BY <1>0
  <2> QED
    BY <1>0, <2>1, <2>2, <2>3, CleanKept
<1>5. OverOK'
  BY <1>0, OverKept
<1> QED
  BY <1>1, <1>2, <1>3, <1>4, <1>5 DEF SessionInv

LEMMA UnindexKeeps == ASSUME SessionInv, NEW t \in Tabs, Unindex(t) PROVE SessionInv'
<1>1. /\ req[t].op = "login" /\ req[t].at = "unindex" /\ Goto(t, "verify") /\ loginIndex' = 0
      /\ UNCHANGED <<redisTokens, cached, listed, logins, clientVars, authFaults, histories>>
  BY DEF Unindex, At
<1>2. /\ req' \in [Tabs -> AuthReq] /\ OthersKept(t) /\ SameOwn(req[t], req'[t])
      /\ req'[t].at = "verify"
  BY <1>1, SessionFacts, GotoKeeps DEF AuthStages, BeforeList
<1>3. RequestOK(req[t])' /\ CauseOf(req[t])'
  BY <1>1, <1>2, SessionFacts
     DEF RequestOK, CauseOf, SameOwn, Revoking, histories, redisTokens, Issued, BeforeList
<1>4. req[t].clean = {}
  BY <1>1, SessionFacts DEF CleanOK
<1>5. \A f \in over : ~Storing(req'[t], f)
  BY <1>1, <1>2, SessionFacts DEF OverOK, Storing, SameOwn, BeforeList
<1> QED
  BY <1>1, <1>2, <1>3, <1>4, <1>5, SessionFacts, QuietStep
     DEF SameOwn, histories, clientVars, BeforeList, Revoking

LEMMA ReadTokenKeeps == ASSUME SessionInv, NEW t \in Tabs, ReadToken(t) PROVE SessionInv'
<1>1. PICK at \in {"delOld", "no"} :
        /\ req[t].op = "refresh" /\ req[t].at = "data" /\ Goto(t, at)
        /\ at = "delOld" <=> req[t].tok \in stored
        /\ UNCHANGED <<redisTokens, redisSessions, logins, clientVars, authFaults, histories>>
  BY DEF ReadToken, At
<1>2. /\ req' \in [Tabs -> AuthReq] /\ OthersKept(t) /\ SameOwn(req[t], req'[t])
      /\ req'[t].at = at
  BY <1>1, SessionFacts, GotoKeeps DEF AuthStages
<1>3. RequestOK(req[t])' /\ CauseOf(req[t])'
  BY <1>1, <1>2, SessionFacts
     DEF RequestOK, CauseOf, SameOwn, Revoking, histories, redisTokens, Issued, BeforeList
<1>4. \A f \in over : ~Storing(req'[t], f)
  BY <1>1, <1>2, SessionFacts
     DEF OverOK, Storing, SameOwn, BeforeList, Stored, RequestOK
<1> QED
  BY <1>1, <1>2, <1>3, <1>4, SessionFacts, QuietStep
     DEF SameOwn, histories, clientVars, redisSessions, BeforeList, Revoking

LEMMA VisitKeyKeeps == ASSUME SessionInv, NEW t \in Tabs, VisitKey(t) PROVE SessionInv'
<1>0. /\ req[t].op = "logoutAll" /\ req[t].at = "visit"
      /\ UNCHANGED <<redisTokens, redisSessions, logins, clientVars, authFaults, histories>>
  BY DEF VisitKey, At
<1>k. PICK k \in req[t].keys :
        req' = [req EXCEPT ![t] =
                  IF k \notin stored THEN [req[t] EXCEPT !.keys = req[t].keys \ {k}]
                  ELSE [[req[t] EXCEPT !.keys = req[t].keys \ {k}]
                          EXCEPT !.fam = familyOf[k], !.at = "family"]]
  BY DEF VisitKey
<1>1. /\ req[t].op = "logoutAll" /\ req[t].at = "visit" /\ k \in req[t].keys
      /\ UNCHANGED <<redisTokens, redisSessions, logins, clientVars, authFaults, histories>>
  BY <1>0
<1>2. /\ k \in Issued /\ familyOf[k] \in Families /\ familyOf[k] # 0
      /\ familyOf[k] \in causes
  BY <1>1, SessionFacts DEF RequestOK, CauseOf, Families
<1>3. /\ req' \in [Tabs -> AuthReq] /\ OthersKept(t)
      /\ req'[t].op = "logoutAll" /\ req'[t].keys = req[t].keys \ {k}
      /\ req'[t].clean = req[t].clean
      /\ k \in stored => req'[t].fam = familyOf[k] /\ req'[t].at = "family"
      /\ k \notin stored => req'[t].at = "visit"
  <2> DEFINE q == IF k \notin stored THEN [req[t] EXCEPT !.keys = req[t].keys \ {k}]
                  ELSE [[req[t] EXCEPT !.keys = req[t].keys \ {k}]
                          EXCEPT !.fam = familyOf[k], !.at = "family"]
  <2>1. /\ q \in AuthReq /\ q.op = req[t].op /\ q.keys = req[t].keys \ {k}
        /\ q.clean = req[t].clean
        /\ k \in stored => q.fam = familyOf[k] /\ q.at = "family"
        /\ k \notin stored => q.at = req[t].at
    BY <1>2, SessionFacts DEF AuthReq, AuthStages, Revoking
  <2>2. req' = [req EXCEPT ![t] = q]
    BY <1>k
  <2> HIDE DEF q
  <2>3. req' \in [Tabs -> AuthReq] /\ req'[t] = q /\ OthersKept(t)
    BY <2>1, <2>2, SessionFacts DEF AuthTypes, OthersKept, SameRequest
  <2> QED
    BY <1>1, <2>1, <2>3
<1>4. req'[t].at \in {"family", "visit"}
  BY <1>3
<1>5. RequestOK(req[t])' /\ CauseOf(req[t])'
  BY <1>1, <1>2, <1>3, <1>4, SessionFacts
     DEF RequestOK, CauseOf, Revoking, histories, redisTokens, Issued, BeforeList
<1>6. ASSUME NEW f \in req[t].clean PROVE Stored(f)' \subseteq Left(req[t], f)'
  <2>1. Stored(f) \subseteq req[t].keys \cap members[f] /\ Stored(f)' = Stored(f)
    BY <1>1, SessionFacts DEF CleanOK, Left, Stored, redisTokens
  <2>2. CASE k \in stored /\ familyOf[k] = f
    BY <1>1, <1>3, <2>1, <2>2 DEF Left, redisTokens
  <2>3. CASE ~(k \in stored /\ familyOf[k] = f)
    <3>1. Stored(f) \subseteq req'[t].keys \cap members[f]
      BY <1>3, <2>1, <2>3 DEF Stored
    <3>2. Left(req[t], f)' = req'[t].keys \cap members[f]
      BY <1>1, <1>3, <2>3 DEF Left, redisTokens
    <3> QED
      BY <2>1, <3>1, <3>2
  <2> QED
    BY <2>2, <2>3
<1> QED
  BY <1>1, <1>3, <1>4, <1>5, <1>6, SessionFacts, QuietStep
     DEF histories, clientVars, redisSessions, BeforeList, Storing

LEMMA ReadFamilyKeeps == ASSUME SessionInv, NEW t \in Tabs, ReadFamily(t) PROVE SessionInv'
<1>1. /\ req[t].at = "family" /\ GotoWith(t, "members", "todo", members[req[t].fam])
      /\ UNCHANGED <<redisTokens, redisSessions, logins, clientVars, authFaults, histories>>
  BY DEF ReadFamily
<1>2. /\ req[t].fam \in Families /\ req[t].op \in {"refresh", "logoutAll"}
      /\ members[req[t].fam] \in SUBSET Nat
      /\ members[req[t].fam] \subseteq OfFamily(req[t].fam)
  BY <1>1, SessionFacts DEF RequestOK, Revoking, AuthReq, AuthTypes, StoreTypes
<1>3. /\ req' \in [Tabs -> AuthReq] /\ OthersKept(t) /\ SameOwn(req[t], req'[t])
      /\ req'[t].at = "members" /\ req'[t].todo = members[req[t].fam]
  <2>1. AuthTypes /\ "members" \in AuthStages
    BY SessionFacts DEF AuthStages, Revoking
  <2> QED
    BY <1>1, <1>2, <2>1, GotoTodoKeeps
<1>4. RequestOK(req[t])' /\ CauseOf(req[t])'
  BY <1>1, <1>2, <1>3, SessionFacts
     DEF RequestOK, CauseOf, SameOwn, Revoking, histories, redisTokens, Issued, BeforeList,
         OfFamily
<1>5. ASSUME NEW f \in req[t].clean PROVE Stored(f)' \subseteq Left(req[t], f)'
  <2>1. Stored(f) \subseteq Left(req[t], f) /\ Stored(f)' = Stored(f)
    BY <1>1, SessionFacts DEF CleanOK, Stored, redisTokens, Revoking
  <2> QED
    BY <1>1, <1>3, <2>1 DEF Left, SameOwn, redisTokens
<1> QED
  BY <1>1, <1>2, <1>3, <1>4, <1>5, SessionFacts, QuietStep
     DEF SameOwn, histories, clientVars, redisSessions, BeforeList, Revoking, Storing

LEMMA RedisFailsKeeps == ASSUME SessionInv, NEW t \in Tabs, RedisFails(t) PROVE SessionInv'
<1>1. /\ Goto(t, "no") /\ causes' = causes \cup {req[t].fam}
      /\ UNCHANGED <<redisTokens, redisSessions, logins, clientVars, presented, over, ended>>
  BY DEF RedisFails
<1>2. /\ req' \in [Tabs -> AuthReq] /\ OthersKept(t) /\ SameOwn(req[t], req'[t])
      /\ req'[t].at = "no"
  BY <1>1, SessionFacts, GotoKeeps DEF AuthStages
<1>3. RequestOK(req[t])' /\ CauseOf(req[t])'
  BY <1>1, <1>2, SessionFacts
     DEF RequestOK, CauseOf, SameOwn, Revoking, redisTokens, Issued, BeforeList
<1>4. \A f \in req[t].clean : req[t].op \in {"refresh", "logoutAll"}
  BY SessionFacts DEF CleanOK
<1> QED
  BY <1>1, <1>2, <1>3, <1>4, SessionFacts, QuietStep
     DEF SameOwn, clientVars, redisSessions, BeforeList, Revoking, Storing

\* A family that is skipped can no longer be relied on; of the others as much is
\* left to delete as before.
LEMMA SkipFamilyKeeps == ASSUME SessionInv, NEW t \in Tabs, SkipFamily(t) PROVE SessionInv'
<1> DEFINE q == [req[t] EXCEPT !.at = "visit", !.todo = {}, !.clean = req[t].clean \ {req[t].fam}]
<1>1. /\ req[t].op = "logoutAll" /\ req[t].at \in Revoking /\ req' = [req EXCEPT ![t] = q]
      /\ UNCHANGED <<redisTokens, redisSessions, logins, clientVars, histories>>
  <2>1. req[t].op = "logoutAll" /\ req[t].at \in Revoking
    BY DEF SkipFamily, Skippable, Revoking
  <2>2. /\ req' = [req EXCEPT ![t] = q]
        /\ UNCHANGED <<redisTokens, redisSessions, logins, clientVars, histories>>
    BY DEF SkipFamily
  <2> QED
    BY <2>1, <2>2
<1>2. /\ q \in AuthReq /\ q.op = req[t].op /\ q.at = "visit" /\ q.tok = req[t].tok
      /\ q.new = req[t].new /\ q.fam = req[t].fam /\ q.keys = req[t].keys
      /\ q.clean = req[t].clean \ {req[t].fam} /\ q.todo = {}
  BY SessionFacts DEF AuthReq, AuthStages
<1> HIDE DEF q
<1>3. req' \in [Tabs -> AuthReq] /\ req'[t] = q /\ OthersKept(t)
  BY <1>1, <1>2, SessionFacts DEF AuthTypes, OthersKept, SameRequest
<1>4. RequestOK(req[t])' /\ CauseOf(req[t])'
  BY <1>1, <1>2, <1>3, SessionFacts
     DEF RequestOK, CauseOf, Revoking, histories, redisTokens, Issued, BeforeList
<1>5. ASSUME NEW f \in q.clean PROVE Stored(f)' \subseteq Left(req[t], f)'
  <2>1. /\ Stored(f) \subseteq Left(req[t], f) /\ Stored(f)' = Stored(f)
        /\ req[t].fam # f
    BY <1>1, <1>2, SessionFacts DEF CleanOK, Stored, redisTokens
  <2> QED
    BY <1>1, <1>2, <1>3, <2>1 DEF Left, redisTokens, Revoking
<1>6. \A f \in over : ~Storing(req'[t], f)
  BY <1>1, <1>2, <1>3 DEF Storing
<1> QED
  BY <1>1, <1>2, <1>3, <1>4, <1>5, <1>6, SessionFacts, QuietStep
     DEF histories, clientVars, redisSessions, BeforeList, Revoking

LEMMA DoneKeeps ==
  ASSUME SessionInv, NEW t \in Tabs, req' = [req EXCEPT ![t] = Idle],
         held' \in [Tabs -> {0} \cup Issued], saved' \in {0} \cup Issued,
         UNCHANGED <<redisTokens, redisSessions, logins, histories>>
  PROVE  SessionInv'
<1>1. /\ Idle \in AuthReq /\ Idle.op = "none" /\ Idle.at = "idle" /\ Idle.keys = {}
      /\ Idle.clean = {}
  BY DEF Idle, AuthReq, AuthStages
<1>2. req' \in [Tabs -> AuthReq] /\ OthersKept(t) /\ req'[t] = Idle
  BY <1>1, SessionFacts DEF AuthTypes, OthersKept, SameRequest
<1>3. RequestOK(req[t])' /\ CauseOf(req[t])'
  BY <1>1, <1>2 DEF RequestOK, CauseOf, Revoking, BeforeList
<1> QED
  BY <1>1, <1>2, <1>3, SessionFacts, QuietStep
     DEF histories, redisSessions, BeforeList, Revoking, Storing

LEMMA AnsweredKeeps == ASSUME SessionInv, NEW t \in Tabs, Answered(t) PROVE SessionInv'
<1>1. /\ req' = [req EXCEPT ![t] = Idle]
      /\ UNCHANGED <<redisTokens, redisSessions, logins, histories>>
  BY DEF Answered
<1>2. /\ held' \in [Tabs -> {0} \cup Issued] /\ saved' \in {0} \cup Issued
  <2>1. CASE UNCHANGED clientVars
    BY <2>1, SessionFacts DEF clientVars
  <2>2. CASE SaveTokens(t, 0)
    BY <2>2, SessionFacts DEF SaveTokens
  <2>3. CASE /\ req[t].op \in {"login", "refresh"} /\ req[t].at = "yes"
             /\ SaveTokens(t, req[t].new)
    <3>1. req[t].new \in Issued
      BY <2>3, SessionFacts DEF RequestOK, OfFamily
    <3> QED
      BY <2>3, <3>1, SessionFacts DEF SaveTokens
  <2> QED
    BY <2>1, <2>2, <2>3 DEF Answered
<1> QED
  BY <1>1, <1>2, DoneKeeps

LEMMA AnswerLostKeeps == ASSUME SessionInv, NEW t \in Tabs, AnswerLost(t) PROVE SessionInv'
BY SessionFacts, DoneKeeps DEF AnswerLost, clientVars

LEMMA LoadTokensKeeps == ASSUME SessionInv, NEW t \in Tabs, LoadTokens(t) PROVE SessionInv'
<1>1. /\ held' \in [Tabs -> {0} \cup Issued] /\ saved' \in {0} \cup Issued
  BY SessionFacts DEF LoadTokens
<1> QED
  BY <1>1 DEF LoadTokens, SessionInv, AuthTypes, StoreTypes, CausesOK, CauseOf, IndexOK,
     CleanOK, OverOK, redisTokens, redisSessions, histories, RequestOK, OfFamily, Issued,
     Blamed, Stored, Left, Unset, Unlisted

LEMMA LogoutKeeps == ASSUME SessionInv, NEW t \in Tabs, Logout(t) PROVE SessionInv'
<1>1. /\ held[t] # 0 /\ causes' = causes \cup {familyOf[held[t]]}
      /\ req' = [req EXCEPT ![t] = [Idle EXCEPT !.op = "logout",
                    !.tok = held[t], !.fam = familyOf[held[t]], !.at = "delOld"]]
      /\ UNCHANGED <<redisTokens, redisSessions, logins, clientVars, authFaults,
                     presented, over, ended>>
  BY DEF Logout
<1>2. held[t] \in Issued /\ held[t] \in Nat /\ familyOf[held[t]] \in Families
  BY <1>1, SessionFacts
<1>3. /\ req' \in [Tabs -> AuthReq] /\ OthersKept(t)
      /\ req'[t].op = "logout" /\ req'[t].at = "delOld" /\ req'[t].tok = held[t]
      /\ req'[t].fam = familyOf[held[t]] /\ req'[t].keys = {} /\ req'[t].clean = {}
  BY <1>1, <1>2, SessionFacts DEF AuthTypes, AuthReq, AuthStages, OthersKept, SameRequest, Idle
<1>4. RequestOK(req[t])' /\ CauseOf(req[t])'
  BY <1>1, <1>2, <1>3 DEF RequestOK, CauseOf, Revoking, redisTokens, Issued, BeforeList
<1> QED
  BY <1>1, <1>3, <1>4, SessionFacts, QuietStep
     DEF clientVars, redisSessions, BeforeList, Revoking, Storing

\* A step about the sessions alone.
LEMMA TokensKept ==
  ASSUME SessionInv, NEW t \in Tabs, OthersKept(t), req' \in [Tabs -> AuthReq],
         SameOwn(req[t], req'[t]), RequestOK(req[t])', req'[t].at \notin Revoking \cup {"visit"},
         req'[t].op = "refresh" => req'[t].at \notin {"data", "no"},
         UNCHANGED <<redisTokens, logins, clientVars, presented, causes, over>>,
         loginIndex' \in 0..logins, cached' \subseteq Families,
         listed' \subseteq 1..logins, ended' \subseteq 1..logins,
         \A f \in over : ~Storing(req'[t], f)
  PROVE  AuthTypes' /\ CausesOK' /\ CleanOK' /\ OverOK'
<1>0. /\ AuthTypes /\ CausesOK /\ CleanOK /\ OverOK /\ CauseOf(req[t])
      /\ logins \in Nat /\ logins' \in Nat /\ logins <= logins'
      /\ UNCHANGED <<familyOf, members, stored, marked, over, logins, presented, causes>>
      /\ stored \subseteq Issued /\ marked \subseteq Issued
      /\ over \subseteq 1..logins /\ UNCHANGED <<held, saved>>
      /\ held \in [Tabs -> {0} \cup Issued] /\ saved \in {0} \cup Issued
  BY SessionFacts DEF redisTokens, clientVars
<1>1. AuthTypes'
  BY <1>0, TypesKept
<1>2. CausesOK'
  <2>1. CauseOf(req[t])'
    BY <1>0 DEF CauseOf, SameOwn, Revoking
  <2> QED
    BY <1>0, <2>1, CausesQuiet DEF SameOwn
<1>3. CleanOK'
  <2>1. \A f \in 1..logins : FlightOf(req'[t], f) => FlightOf(req[t], f)
    BY DEF FlightOf, SameOwn
  <2>2. \A f \in req'[t].clean :
          req'[t].op = "logoutAll" \/ (req'[t].op = "refresh" /\ req'[t].fam = f)
    BY <1>0 DEF CleanOK, SameOwn
  <2> QED
    BY <1>0, <2>1, <2>2, CleanKept DEF SameOwn
<1>4. OverOK'
  BY <1>0, OverKept
<1> QED
  BY <1>1, <1>2, <1>3, <1>4

LEMMA UnsetKept ==
  ASSUME NEW t \in Tabs, OthersKept(t), req'[t].fam = req[t].fam,
         req'[t].at \in BeforeList => req[t].at \in BeforeList,
         req'[t].at = "setIndex" => req[t].at \in BeforeList
  PROVE  \A u \in Tabs : \A f : /\ Unset(req'[u], f) => Unset(req[u], f)
                                /\ Unlisted(req'[u], f) => Unlisted(req[u], f)
BY DEF OthersKept, SameRequest, Unset, Unlisted

\* What is left to show of the index when a request goes on.
LEMMA IndexMoves ==
  ASSUME AuthTypes, IndexOK, NEW t \in Tabs, OthersKept(t), SameOwn(req[t], req'[t]),
         req'[t].at \in BeforeList => req[t].at \in BeforeList,
         req'[t].at = "setIndex" => req[t].at \in BeforeList,
         req'[t].at \in {"session", "slide"} => req[t].at \in {"session", "slide"},
         \A u \in Tabs : ~Unset(req'[u], loginIndex'),
         \A f \in listed' \cup ended' : \A u \in Tabs : ~Unlisted(req'[u], f),
         req'[t].at \in {"sessions", "dropIndex"} =>
           \A f \in req'[t].todo : \A u \in Tabs : ~Unlisted(req'[u], f),
         \A u, w \in Tabs : req'[u].at = "dropIndex" /\ req'[w].at = "setIndex" =>
           req'[w].fam \notin req'[u].todo \cap cached',
         \A u \in Tabs : req'[u].at = "setIndex" => req'[u].fam \notin ended' \cap cached',
         loginIndex' \in ended' =>
           /\ loginIndex' \notin cached'
           /\ \A u \in Tabs : req'[u].at = "slide" => req'[u].tok # loginIndex'
  PROVE  IndexOK'
<1>1. \A u \in Tabs : \A f : /\ Unset(req'[u], f) => Unset(req[u], f)
                             /\ Unlisted(req'[u], f) => Unlisted(req[u], f)
  BY UnsetKept DEF SameOwn
<1>2. \A u \in Tabs : req'[u].op = req[u].op /\ req'[u].fam = req[u].fam
        /\ req'[u].tok = req[u].tok
  BY DEF OthersKept, SameRequest, SameOwn
<1>3. \A u \in Tabs : req'[u].at \in {"session", "slide"} => req[u].at \in {"session", "slide"}
  BY DEF OthersKept, SameRequest
<1>4. \A u \in Tabs : \A w \in Tabs \ {u} :
        req'[u].op = "login" /\ req'[w].op = "login" => req'[u].fam # req'[w].fam
  BY <1>2 DEF IndexOK
<1>5. \A u, w \in Tabs : req'[u].at \in {"session", "slide"} => ~Unset(req'[w], req'[u].tok)
  BY <1>1, <1>2, <1>3 DEF IndexOK
<1>6. \A u, w \in Tabs : req'[u].at \in {"sessions", "dropIndex"} =>
        \A f \in req'[u].todo : ~Unlisted(req'[w], f)
  <2>1. \A u \in Tabs \ {t} : req'[u].at = req[u].at /\ req'[u].todo = req[u].todo
    BY DEF OthersKept, SameRequest
  <2> QED
    BY <1>1, <2>1 DEF IndexOK
<1> QED
  BY <1>4, <1>5, <1>6 DEF IndexOK

LEMMA ReadSessionKeeps == ASSUME SessionInv, NEW t \in Tabs, ReadSession(t) PROVE SessionInv'
<1>1. PICK at \in {"slide", "unindex"} :
        /\ req[t].op = "login" /\ req[t].at = "session" /\ Goto(t, at)
        /\ at = "slide" <=> req[t].tok \in cached
        /\ UNCHANGED <<redisTokens, redisSessions, logins, clientVars, authFaults, histories>>
  BY DEF ReadSession, At
<1>2. /\ req' \in [Tabs -> AuthReq] /\ OthersKept(t) /\ SameOwn(req[t], req'[t])
      /\ req'[t].at = at /\ at \in BeforeList
      /\ UNCHANGED <<cached, listed, loginIndex, ended>>
  BY <1>1, SessionFacts, GotoKeeps DEF AuthStages, BeforeList, redisSessions, histories
<1>3. RequestOK(req[t])'
  BY <1>1, <1>2, SessionFacts
     DEF RequestOK, SameOwn, Revoking, redisTokens, Issued, BeforeList
<1>4. \A f \in over : ~Storing(req'[t], f)
  BY <1>1, <1>2, SessionFacts DEF OverOK, Storing, SameOwn, BeforeList
<1>5. AuthTypes' /\ CausesOK' /\ CleanOK' /\ OverOK'
  BY <1>1, <1>2, <1>3, <1>4, SessionFacts, TokensKept
     DEF SameOwn, histories, redisSessions, BeforeList, Revoking
<1>6. IndexOK'
  <2>1. \A u \in Tabs : \A f : /\ Unset(req'[u], f) => Unset(req[u], f)
                               /\ Unlisted(req'[u], f) => Unlisted(req[u], f)
    BY <1>1, <1>2, UnsetKept DEF SameOwn, BeforeList
  <2>2. \A u \in Tabs : req'[u].at \in {"dropIndex", "setIndex"} =>
          u # t /\ req[u].at = req'[u].at /\ req[u].fam = req'[u].fam /\ req[u].todo = req'[u].todo
    BY <1>2 DEF OthersKept, SameRequest, BeforeList
  <2>3. \A u, w \in Tabs : req'[u].at = "dropIndex" /\ req'[w].at = "setIndex" =>
          req'[w].fam \notin req'[u].todo \cap cached'
    BY <1>2, <2>2, SessionFacts DEF IndexOK
  <2>4. \A u \in Tabs : req'[u].at = "setIndex" => req'[u].fam \notin ended' \cap cached'
    BY <1>2, <2>2, SessionFacts DEF IndexOK
  <2>5. loginIndex' \in ended' =>
           /\ loginIndex' \notin cached'
           /\ \A u \in Tabs : req'[u].at = "slide" => req'[u].tok # loginIndex'
    <3>1. \A u \in Tabs \ {t} : req'[u].at = req[u].at /\ req'[u].tok = req[u].tok
      BY <1>2 DEF OthersKept, SameRequest
    <3>2. req'[t].at = "slide" => req'[t].tok \in cached
      BY <1>1, <1>2 DEF SameOwn
    <3> QED
      BY <1>2, <3>1, <3>2, SessionFacts DEF IndexOK
  <2>6. /\ \A u \in Tabs : ~Unset(req'[u], loginIndex')
        /\ \A f \in listed' \cup ended' : \A u \in Tabs : ~Unlisted(req'[u], f)
    BY <1>2, <2>1, SessionFacts DEF IndexOK
  <2> QED
    BY <1>1, <1>2, <2>3, <2>4, <2>5, <2>6, SessionFacts, IndexMoves DEF BeforeList
<1> QED
  BY <1>5, <1>6 DEF SessionInv

LEMMA SlideSessionKeeps == ASSUME SessionInv, NEW t \in Tabs, SlideSession(t) PROVE SessionInv'
<1>1. /\ req[t].op = "login" /\ req[t].at = "slide" /\ Goto(t, "issue")
      /\ cached' = cached \cup {req[t].tok}
      /\ UNCHANGED <<redisTokens, listed, loginIndex, logins, clientVars, authFaults, histories>>
  BY DEF SlideSession, At
<1>2. /\ req' \in [Tabs -> AuthReq] /\ OthersKept(t) /\ SameOwn(req[t], req'[t])
      /\ req'[t].at = "issue" /\ UNCHANGED <<listed, loginIndex, ended>>
  BY <1>1, SessionFacts, GotoKeeps DEF AuthStages, histories
<1>3. RequestOK(req[t])'
  BY <1>1, <1>2, SessionFacts
     DEF RequestOK, SameOwn, Revoking, redisTokens, Issued, BeforeList
<1>4. req[t].tok \in Families
  BY <1>1, SessionFacts DEF RequestOK, Families
<1>5. \A f \in over : ~Storing(req'[t], f)
  BY <1>1, <1>2, SessionFacts DEF OverOK, Storing, SameOwn, BeforeList
<1>6. AuthTypes' /\ CausesOK' /\ CleanOK' /\ OverOK'
  BY <1>1, <1>2, <1>3, <1>4, <1>5, SessionFacts, TokensKept
     DEF SameOwn, histories, Revoking
<1>7. IndexOK'
  <2>1. \A u \in Tabs : \A f : /\ Unset(req'[u], f) => Unset(req[u], f)
                               /\ Unlisted(req'[u], f) => Unlisted(req[u], f)
    BY <1>1, <1>2, UnsetKept DEF SameOwn, BeforeList
  <2>2. \A u \in Tabs : req'[u].at \in {"dropIndex", "setIndex", "slide"} =>
          u # t /\ req[u].at = req'[u].at /\ req[u].fam = req'[u].fam
            /\ req[u].todo = req'[u].todo /\ req[u].tok = req'[u].tok
    BY <1>2 DEF OthersKept, SameRequest
  <2>3. \A u \in Tabs : req[u].at = "setIndex" => req[u].fam # req[t].tok
    BY <1>1, SessionFacts DEF IndexOK, Unset
  <2>4. \A u, w \in Tabs : req'[u].at = "dropIndex" /\ req'[w].at = "setIndex" =>
          req'[w].fam \notin req'[u].todo \cap cached'
    BY <1>1, <2>2, <2>3, SessionFacts DEF IndexOK
  <2>5. \A u \in Tabs : req'[u].at = "setIndex" => req'[u].fam \notin ended' \cap cached'
    BY <1>1, <1>2, <2>2, <2>3, SessionFacts DEF IndexOK
  <2>6. loginIndex' \in ended' =>
           /\ loginIndex' \notin cached'
           /\ \A u \in Tabs : req'[u].at = "slide" => req'[u].tok # loginIndex'
    BY <1>1, <1>2, <2>2, SessionFacts DEF IndexOK
  <2>7. /\ \A u \in Tabs : ~Unset(req'[u], loginIndex')
        /\ \A f \in listed' \cup ended' : \A u \in Tabs : ~Unlisted(req'[u], f)
    BY <1>2, <2>1, SessionFacts DEF IndexOK
  <2> QED
    BY <1>1, <1>2, <2>4, <2>5, <2>6, <2>7, SessionFacts, IndexMoves DEF BeforeList
<1> QED
  BY <1>6, <1>7 DEF SessionInv

LEMMA VerifyPasswordKeeps ==
  ASSUME SessionInv, NEW t \in Tabs, VerifyPassword(t) PROVE SessionInv'
<1>1. PICK at \in {"no", "list"} :
        /\ req[t].op = "login" /\ req[t].at = "verify" /\ Goto(t, at)
        /\ cached' \in {cached, cached \cup {req[t].fam}}
        /\ UNCHANGED <<redisTokens, listed, loginIndex, logins, clientVars, authFaults, histories>>
  BY DEF VerifyPassword, At
<1>2. /\ req' \in [Tabs -> AuthReq] /\ OthersKept(t) /\ SameOwn(req[t], req'[t])
      /\ req'[t].at = at /\ UNCHANGED <<listed, loginIndex, ended>>
  BY <1>1, SessionFacts, GotoKeeps DEF AuthStages, BeforeList, histories
<1>3. RequestOK(req[t])'
  BY <1>1, <1>2, SessionFacts
     DEF RequestOK, SameOwn, Revoking, redisTokens, Issued, BeforeList
<1>4. req[t].fam \in Families
  BY <1>1, SessionFacts DEF RequestOK, Families
<1>5. \A f \in over : ~Storing(req'[t], f)
  BY <1>1, <1>2, SessionFacts DEF OverOK, Storing, SameOwn, BeforeList
<1>6. AuthTypes' /\ CausesOK' /\ CleanOK' /\ OverOK'
  BY <1>1, <1>2, <1>3, <1>4, <1>5, SessionFacts, TokensKept
     DEF SameOwn, histories, Revoking
<1>7. IndexOK'
  <2>1. \A u \in Tabs : \A f : /\ Unset(req'[u], f) => Unset(req[u], f)
                               /\ Unlisted(req'[u], f) => Unlisted(req[u], f)
    BY <1>1, <1>2, UnsetKept DEF SameOwn, BeforeList
  <2>2. \A u \in Tabs : req'[u].at \in {"dropIndex", "setIndex", "slide"} =>
          u # t /\ req[u].at = req'[u].at /\ req[u].fam = req'[u].fam
            /\ req[u].todo = req'[u].todo /\ req[u].tok = req'[u].tok
    BY <1>2 DEF OthersKept, SameRequest
  <2>3. \A u \in Tabs \ {t} : req[u].at = "setIndex" => req[u].fam # req[t].fam
    <3>1. \A u \in Tabs : req[u].at = "setIndex" => req[u].op = "login"
      BY SessionFacts DEF AuthTypes, RequestOK
    <3> QED
      BY <1>1, <3>1, SessionFacts DEF IndexOK
  <2>4. req[t].fam # loginIndex
    BY <1>1, SessionFacts DEF IndexOK, Unset, BeforeList
  <2>5. \A u, w \in Tabs : req'[u].at = "dropIndex" /\ req'[w].at = "setIndex" =>
          req'[w].fam \notin req'[u].todo \cap cached'
    BY <1>1, <2>2, <2>3, SessionFacts DEF IndexOK
  <2>6. \A u \in Tabs : req'[u].at = "setIndex" => req'[u].fam \notin ended' \cap cached'
    BY <1>1, <1>2, <2>2, <2>3, SessionFacts DEF IndexOK
  <2>7. loginIndex' \in ended' =>
           /\ loginIndex' \notin cached'
           /\ \A u \in Tabs : req'[u].at = "slide" => req'[u].tok # loginIndex'
    BY <1>1, <1>2, <2>2, <2>4, SessionFacts DEF IndexOK
  <2>8. /\ \A u \in Tabs : ~Unset(req'[u], loginIndex')
        /\ \A f \in listed' \cup ended' : \A u \in Tabs : ~Unlisted(req'[u], f)
    BY <1>2, <2>1, SessionFacts DEF IndexOK
  <2> QED
    BY <1>1, <1>2, <2>5, <2>6, <2>7, <2>8, SessionFacts, IndexMoves DEF BeforeList
<1> QED
  BY <1>6, <1>7 DEF SessionInv

LEMMA ListSessionKeeps == ASSUME SessionInv, NEW t \in Tabs, ListSession(t) PROVE SessionInv'
<1>1. /\ req[t].op = "login" /\ req[t].at = "list" /\ Goto(t, "setIndex")
      /\ listed' = listed \cup {req[t].fam}
      /\ UNCHANGED <<redisTokens, cached, loginIndex, logins, clientVars, authFaults, histories>>
  BY DEF ListSession, At
<1>2. /\ req' \in [Tabs -> AuthReq] /\ OthersKept(t) /\ SameOwn(req[t], req'[t])
      /\ req'[t].at = "setIndex" /\ UNCHANGED <<cached, loginIndex, ended>>
  BY <1>1, SessionFacts, GotoKeeps DEF AuthStages, histories
<1>3. RequestOK(req[t])'
  BY <1>1, <1>2, SessionFacts
     DEF RequestOK, SameOwn, Revoking, redisTokens, Issued, BeforeList
<1>4. req[t].fam \in 1..logins
  BY <1>1, SessionFacts DEF RequestOK
<1>5. \A f \in over : ~Storing(req'[t], f)
  BY <1>1, <1>2, SessionFacts DEF OverOK, Storing, SameOwn, BeforeList
<1>6. AuthTypes' /\ CausesOK' /\ CleanOK' /\ OverOK'
  BY <1>1, <1>2, <1>3, <1>4, <1>5, SessionFacts, TokensKept
     DEF SameOwn, histories, Revoking
<1>7. IndexOK'
  <2>1. \A u \in Tabs : \A f : /\ Unset(req'[u], f) => Unset(req[u], f)
                               /\ Unlisted(req'[u], f) => Unlisted(req[u], f)
    BY <1>1, <1>2, UnsetKept DEF SameOwn, BeforeList
  <2>2. \A u \in Tabs \ {t} : req[u].at = req'[u].at /\ req[u].fam = req'[u].fam
            /\ req[u].todo = req'[u].todo /\ req[u].tok = req'[u].tok
    BY <1>2 DEF OthersKept, SameRequest
  <2>3. req'[t].fam = req[t].fam /\ Unlisted(req[t], req[t].fam)
    BY <1>1, <1>2 DEF SameOwn, Unlisted, BeforeList
  <2>4. req[t].fam \notin ended
    BY <2>3, SessionFacts DEF IndexOK
  <2>5. \A u \in Tabs : req[u].at = "dropIndex" => req[t].fam \notin req[u].todo
    BY <2>3, SessionFacts DEF IndexOK
  <2>6. \A u, w \in Tabs : req'[u].at = "dropIndex" /\ req'[w].at = "setIndex" =>
          req'[w].fam \notin req'[u].todo \cap cached'
    BY <1>2, <2>2, <2>3, <2>5, SessionFacts DEF IndexOK
  <2>7. \A u \in Tabs : req'[u].at = "setIndex" => req'[u].fam \notin ended' \cap cached'
    BY <1>2, <2>2, <2>3, <2>4, SessionFacts DEF IndexOK
  <2>8. loginIndex' \in ended' =>
           /\ loginIndex' \notin cached'
           /\ \A u \in Tabs : req'[u].at = "slide" => req'[u].tok # loginIndex'
    BY <1>2, <2>2, SessionFacts DEF IndexOK
  <2>9. \A u \in Tabs : ~Unset(req'[u], loginIndex')
    BY <1>2, <2>1, SessionFacts DEF IndexOK
  <2>10. \A f \in listed' \cup ended' : \A u \in Tabs : ~Unlisted(req'[u], f)
    <3>1. ASSUME NEW u \in Tabs PROVE ~Unlisted(req'[u], req[t].fam)
      <4>1. CASE u = t
        BY <1>2, <4>1 DEF Unlisted, BeforeList
      <4>2. CASE u # t
        <5>1. req[u].at \in BeforeList => req[u].op = "login"
          BY SessionFacts DEF AuthTypes, RequestOK
        <5> QED
          BY <1>1, <2>2, <4>2, <5>1, SessionFacts DEF IndexOK, Unlisted
      <4> QED
        BY <4>1, <4>2
    <3> QED
      BY <1>1, <1>2, <2>1, <3>1, SessionFacts DEF IndexOK
  <2> QED
    BY <1>1, <1>2, <2>6, <2>7, <2>8, <2>9, <2>10, SessionFacts, IndexMoves DEF BeforeList
<1> QED
  BY <1>6, <1>7 DEF SessionInv

LEMMA SetIndexKeeps == ASSUME SessionInv, NEW t \in Tabs, SetIndex(t) PROVE SessionInv'
<1>1. /\ req[t].op = "login" /\ req[t].at = "setIndex" /\ Goto(t, "issue")
      /\ loginIndex' = req[t].fam
      /\ UNCHANGED <<redisTokens, cached, listed, logins, clientVars, authFaults, histories>>
  BY DEF SetIndex, At
<1>2. /\ req' \in [Tabs -> AuthReq] /\ OthersKept(t) /\ SameOwn(req[t], req'[t])
      /\ req'[t].at = "issue" /\ UNCHANGED <<cached, listed, ended>>
  BY <1>1, SessionFacts, GotoKeeps DEF AuthStages, histories
<1>3. RequestOK(req[t])'
  BY <1>1, <1>2, SessionFacts
     DEF RequestOK, SameOwn, Revoking, redisTokens, Issued, BeforeList
<1>4. req[t].fam \in 0..logins
  BY <1>1, SessionFacts DEF RequestOK
<1>5. \A f \in over : ~Storing(req'[t], f)
  BY <1>1, <1>2, SessionFacts DEF OverOK, Storing, SameOwn, BeforeList
<1>6. AuthTypes' /\ CausesOK' /\ CleanOK' /\ OverOK'
  BY <1>1, <1>2, <1>3, <1>4, <1>5, SessionFacts, TokensKept
     DEF SameOwn, histories, Revoking
<1>7. IndexOK'
  <2>1. \A u \in Tabs : \A f : Unlisted(req'[u], f) => Unlisted(req[u], f)
    BY <1>1, <1>2, UnsetKept DEF SameOwn, BeforeList
  <2>2. \A u \in Tabs : req'[u].at \in {"dropIndex", "setIndex", "slide"} =>
          u # t /\ req[u].at = req'[u].at /\ req[u].fam = req'[u].fam
            /\ req[u].todo = req'[u].todo /\ req[u].tok = req'[u].tok
    BY <1>2 DEF OthersKept, SameRequest
  <2>3. \A u, w \in Tabs : req'[u].at = "dropIndex" /\ req'[w].at = "setIndex" =>
          req'[w].fam \notin req'[u].todo \cap cached'
    BY <1>2, <2>2, SessionFacts DEF IndexOK
  <2>4. \A u \in Tabs : req'[u].at = "setIndex" => req'[u].fam \notin ended' \cap cached'
    BY <1>2, <2>2, SessionFacts DEF IndexOK
  <2>5. loginIndex' \in ended' =>
           /\ loginIndex' \notin cached'
           /\ \A u \in Tabs : req'[u].at = "slide" => req'[u].tok # loginIndex'
    <3>1. req[t].fam \notin ended \cap cached
      BY <1>1, SessionFacts DEF IndexOK
    <3>2. \A u \in Tabs : req[u].at = "slide" => req[u].tok # req[t].fam
      BY <1>1, SessionFacts DEF IndexOK, Unset
    <3> QED
      BY <1>1, <1>2, <2>2, <3>1, <3>2
  <2>6. \A f \in listed' \cup ended' : \A u \in Tabs : ~Unlisted(req'[u], f)
    BY <1>2, <2>1, SessionFacts DEF IndexOK
  <2>7. ASSUME NEW u \in Tabs PROVE ~Unset(req'[u], loginIndex')
    <3>1. CASE u = t
      BY <1>2, <3>1 DEF Unset, BeforeList
    <3>2. CASE u # t
      <4>1. req[u].at \in BeforeList \cup {"setIndex"} => req[u].op = "login"
        BY SessionFacts DEF AuthTypes, RequestOK
      <4>2. req'[u].at = req[u].at /\ req'[u].fam = req[u].fam
        BY <1>2, <3>2 DEF OthersKept, SameRequest
      <4> QED
        BY <1>1, <3>2, <4>1, <4>2, SessionFacts DEF IndexOK, Unset
    <3> QED
      BY <3>1, <3>2
  <2> QED
    BY <1>1, <1>2, <2>3, <2>4, <2>5, <2>6, <2>7, SessionFacts, IndexMoves DEF BeforeList
<1> QED
  BY <1>6, <1>7 DEF SessionInv

LEMMA ReadSessionsKeeps == ASSUME SessionInv, NEW t \in Tabs, ReadSessions(t) PROVE SessionInv'
<1>1. /\ req[t].op = "logoutAll" /\ req[t].at = "visit" /\ req[t].keys = {}
      /\ GotoWith(t, "sessions", "todo", listed) /\ over' = over \cup req[t].clean
      /\ UNCHANGED <<redisTokens, redisSessions, logins, clientVars, authFaults,
                     presented, causes, ended>>
  BY DEF ReadSessions, At
<1>0. /\ AuthTypes /\ CausesOK /\ IndexOK /\ CleanOK /\ OverOK /\ CauseOf(req[t])
      /\ RequestOK(req[t])
      /\ logins \in Nat /\ logins' \in Nat /\ logins <= logins' /\ listed \subseteq 1..logins
      /\ UNCHANGED <<familyOf, members, stored, marked, logins, presented, causes, held, saved,
                     loginIndex, cached, listed, ended>>
      /\ stored \subseteq Issued /\ marked \subseteq Issued /\ cached \subseteq Families
      /\ over \subseteq 1..logins /\ ended \subseteq 1..logins /\ loginIndex \in 0..logins
      /\ held \in [Tabs -> {0} \cup Issued] /\ saved \in {0} \cup Issued
  BY <1>1, SessionFacts DEF redisTokens, clientVars, redisSessions
<1>2. /\ req' \in [Tabs -> AuthReq] /\ OthersKept(t) /\ SameOwn(req[t], req'[t])
      /\ req'[t].at = "sessions" /\ req'[t].todo = listed
  <2>1. listed \in SUBSET Nat
    BY <1>0
  <2> QED
    BY <1>0, <1>1, <2>1, GotoTodoKeeps DEF AuthStages
<1>3. RequestOK(req[t])' /\ CauseOf(req[t])'
  BY <1>0, <1>1, <1>2 DEF RequestOK, CauseOf, SameOwn, Revoking, Issued, BeforeList
<1>4. req[t].clean \subseteq 1..logins
  BY <1>0, SessionFacts DEF CleanOK, AuthReq, Families
<1>5. AuthTypes'
  <2>1. over' \subseteq 1..logins
    BY <1>0, <1>1, <1>4
  <2> QED
    BY <1>0, <1>2, <1>3, <2>1, TypesKept
<1>6. CausesOK'
  BY <1>0, <1>2, <1>3, CausesQuiet DEF SameOwn
<1>7. CleanOK'
  <2>1. \A f \in 1..logins : FlightOf(req'[t], f) => FlightOf(req[t], f)
    BY <1>2 DEF FlightOf, SameOwn
  <2>2. \A f \in req'[t].clean :
          req'[t].op = "logoutAll" \/ (req'[t].op = "refresh" /\ req'[t].fam = f)
    BY <1>1, <1>2 DEF SameOwn
  <2> QED
    BY <1>0, <1>2, <2>1, <2>2, CleanKept DEF SameOwn, Revoking
<1>8. OverOK'
  <2>1. ASSUME NEW f \in over' PROVE Stored(f) = {}
    <3>1. CASE f \in over
      BY <1>0, <3>1 DEF OverOK
    <3>2. CASE f \in req[t].clean
      BY <1>0, <1>1, <3>2 DEF CleanOK, Left
    <3> QED
      BY <1>1, <2>1, <3>1, <3>2
  <2>2. ASSUME NEW f \in over', NEW u \in Tabs PROVE ~Storing(req'[u], f)
    <3>1. CASE u = t
      BY <1>1, <1>2, <3>1 DEF Storing, SameOwn
    <3>2. CASE u # t /\ f \in over
      BY <1>0, <1>2, <3>2 DEF OverOK, OthersKept, SameRequest, Storing
    <3>3. CASE u # t /\ f \in req[t].clean
      BY <1>0, <1>2, <3>3 DEF CleanOK, OthersKept, SameRequest, Storing, FlightOf
    <3> QED
      BY <1>1, <2>2, <3>1, <3>2, <3>3
  <2>3. \A f : Stored(f)' = Stored(f)
    BY <1>0 DEF Stored
  <2> QED
    BY <2>1, <2>2, <2>3 DEF OverOK
<1>9. IndexOK'
  <2>1. \A u \in Tabs : \A f : /\ Unset(req'[u], f) => Unset(req[u], f)
                               /\ Unlisted(req'[u], f) => Unlisted(req[u], f)
    BY <1>1, <1>2, UnsetKept DEF SameOwn, BeforeList
  <2>2. \A u \in Tabs : req'[u].at \in {"dropIndex", "setIndex", "slide"} =>
          u # t /\ req[u].at = req'[u].at /\ req[u].fam = req'[u].fam
            /\ req[u].todo = req'[u].todo /\ req[u].tok = req'[u].tok
    BY <1>2 DEF OthersKept, SameRequest
  <2>3. \A u, w \in Tabs : req'[u].at = "dropIndex" /\ req'[w].at = "setIndex" =>
          req'[w].fam \notin req'[u].todo \cap cached'
    BY <1>0, <2>2 DEF IndexOK
  <2>4. \A u \in Tabs : req'[u].at = "setIndex" => req'[u].fam \notin ended' \cap cached'
    BY <1>0, <2>2 DEF IndexOK
  <2>5. loginIndex' \in ended' =>
           /\ loginIndex' \notin cached'
           /\ \A u \in Tabs : req'[u].at = "slide" => req'[u].tok # loginIndex'
    BY <1>0, <2>2 DEF IndexOK
  <2>6. /\ \A u \in Tabs : ~Unset(req'[u], loginIndex')
        /\ \A f \in listed' \cup ended' : \A u \in Tabs : ~Unlisted(req'[u], f)
    BY <1>0, <2>1 DEF IndexOK
  <2> QED
    BY <1>0, <1>1, <1>2, <2>3, <2>4, <2>5, <2>6, IndexMoves DEF BeforeList
<1> QED
  BY <1>5, <1>6, <1>7, <1>8, <1>9 DEF SessionInv

\* The pipeline deletes sessions of the list that was read, perhaps not all.
LEMMA SessionsGone ==
  ASSUME SessionInv, NEW t \in Tabs, NEW gone \in SUBSET req[t].todo,
         req[t].op = "logoutAll", req[t].at = "sessions",
         cached' = cached \ gone, listed' \subseteq listed,
         req' \in [Tabs -> AuthReq], OthersKept(t), SameOwn(req[t], req'[t]),
         req'[t].at = "dropIndex", req'[t].todo = gone,
         UNCHANGED <<redisTokens, loginIndex, logins, clientVars, histories>>
  PROVE  SessionInv'
<1>1. /\ req[t].op = "logoutAll" /\ req[t].at = "sessions"
      /\ cached' = cached \ gone /\ listed' \subseteq listed
      /\ UNCHANGED <<redisTokens, loginIndex, logins, clientVars, histories>>
  OBVIOUS
<1>2. /\ req' \in [Tabs -> AuthReq] /\ OthersKept(t) /\ SameOwn(req[t], req'[t])
      /\ req'[t].at = "dropIndex" /\ req'[t].todo = gone /\ gone \subseteq req[t].todo
      /\ UNCHANGED <<loginIndex, ended>>
  BY DEF histories
<1>3. RequestOK(req[t])'
  BY <1>1, <1>2, SessionFacts
     DEF RequestOK, SameOwn, Revoking, redisTokens, Issued, BeforeList
<1>4. cached' \subseteq Families /\ listed' \subseteq 1..logins
  BY <1>1, SessionFacts
<1>5. \A f \in over : ~Storing(req'[t], f)
  BY <1>1, <1>2 DEF Storing, SameOwn
<1>6. AuthTypes' /\ CausesOK' /\ CleanOK' /\ OverOK'
  BY <1>1, <1>2, <1>3, <1>4, <1>5, SessionFacts, TokensKept
     DEF SameOwn, histories, Revoking
<1>7. IndexOK'
  <2>1. \A u \in Tabs : \A f : /\ Unset(req'[u], f) => Unset(req[u], f)
                               /\ Unlisted(req'[u], f) => Unlisted(req[u], f)
    BY <1>1, <1>2, UnsetKept DEF SameOwn, BeforeList
  <2>2. \A u \in Tabs \ {t} : req[u].at = req'[u].at /\ req[u].fam = req'[u].fam
            /\ req[u].todo = req'[u].todo /\ req[u].tok = req'[u].tok
    BY <1>2 DEF OthersKept, SameRequest
  <2>3. \A u, w \in Tabs : req'[u].at = "dropIndex" /\ req'[w].at = "setIndex" =>
          req'[w].fam \notin req'[u].todo \cap cached'
    BY <1>1, <1>2, <2>2, SessionFacts DEF IndexOK
  <2>4. \A u \in Tabs : req'[u].at = "setIndex" => req'[u].fam \notin ended' \cap cached'
    BY <1>1, <1>2, <2>2, SessionFacts DEF IndexOK
  <2>5. loginIndex' \in ended' =>
           /\ loginIndex' \notin cached'
           /\ \A u \in Tabs : req'[u].at = "slide" => req'[u].tok # loginIndex'
    BY <1>1, <1>2, <2>2, SessionFacts DEF IndexOK
  <2>6. \A u \in Tabs : ~Unset(req'[u], loginIndex')
    BY <1>2, <2>1, SessionFacts DEF IndexOK
  <2>7. \A f \in listed' \cup ended' : \A u \in Tabs : ~Unlisted(req'[u], f)
    BY <1>1, <1>2, <2>1, SessionFacts DEF IndexOK
  <2>8. \A f \in req'[t].todo : \A u \in Tabs : ~Unlisted(req'[u], f)
    BY <1>1, <1>2, <2>1, SessionFacts DEF IndexOK
  <2> QED
    BY <1>1, <1>2, <2>3, <2>4, <2>5, <2>6, <2>7, <2>8, SessionFacts, IndexMoves DEF BeforeList
<1> QED
  BY <1>6, <1>7 DEF SessionInv

LEMMA DeleteSessionsKeeps ==
  ASSUME SessionInv, NEW t \in Tabs, DeleteSessions(t) PROVE SessionInv'
<1>1. /\ req[t].op = "logoutAll" /\ req[t].at = "sessions" /\ Goto(t, "dropIndex")
      /\ cached' = cached \ req[t].todo /\ listed' \subseteq listed
      /\ UNCHANGED <<redisTokens, loginIndex, logins, clientVars, histories>>
  BY DEF DeleteSessions, At
<1>2. /\ req' \in [Tabs -> AuthReq] /\ OthersKept(t) /\ SameOwn(req[t], req'[t])
      /\ req'[t].at = "dropIndex" /\ req'[t].todo = req[t].todo
  BY <1>1, SessionFacts, GotoKeeps DEF AuthStages
<1> QED
  BY <1>1, <1>2, SessionsGone

LEMMA PipelineFailsKeeps ==
  ASSUME SessionInv, NEW t \in Tabs, PipelineFails(t) PROVE SessionInv'
<1>1. /\ req[t].op = "logoutAll" /\ req[t].at = "sessions" /\ listed' \subseteq listed
      /\ UNCHANGED <<redisTokens, loginIndex, logins, clientVars, histories>>
  BY DEF PipelineFails, At
<1>2. PICK gone \in SUBSET req[t].todo :
        cached' = cached \ gone /\ GotoWith(t, "dropIndex", "todo", gone)
  BY DEF PipelineFails
<1>3. gone \in SUBSET Nat
  BY <1>2, SessionFacts DEF AuthReq
<1>4. /\ req' \in [Tabs -> AuthReq] /\ OthersKept(t) /\ SameOwn(req[t], req'[t])
      /\ req'[t].at = "dropIndex" /\ req'[t].todo = gone
  BY <1>2, <1>3, SessionFacts, GotoTodoKeeps DEF AuthStages
<1> QED
  BY <1>1, <1>2, <1>4, SessionsGone

LEMMA DropIndexKeeps == ASSUME SessionInv, NEW t \in Tabs, DropIndex(t) PROVE SessionInv'
<1>1. /\ req[t].op = "logoutAll" /\ req[t].at = "dropIndex" /\ Goto(t, "yes")
      /\ loginIndex' = 0 /\ ended' = ended \cup req[t].todo
      /\ UNCHANGED <<redisTokens, cached, listed, logins, clientVars, authFaults,
                     presented, causes, over>>
  BY DEF DropIndex, At
<1>2. /\ req' \in [Tabs -> AuthReq] /\ OthersKept(t) /\ SameOwn(req[t], req'[t])
      /\ req'[t].at = "yes"
  BY <1>1, SessionFacts, GotoKeeps DEF AuthStages
<1>3. RequestOK(req[t])'
  BY <1>1, <1>2, SessionFacts
     DEF RequestOK, SameOwn, Revoking, redisTokens, Issued, BeforeList
<1>4. ended' \subseteq 1..logins /\ loginIndex' \in 0..logins
  BY <1>1, SessionFacts DEF RequestOK
<1>5. \A f \in over : ~Storing(req'[t], f)
  BY <1>1, <1>2 DEF Storing, SameOwn
<1>6. AuthTypes' /\ CausesOK' /\ CleanOK' /\ OverOK'
  <2>1. cached' \subseteq Families /\ listed' \subseteq 1..logins
    BY <1>1, SessionFacts
  <2> QED
    BY <1>1, <1>2, <1>3, <1>4, <1>5, <2>1, SessionFacts, TokensKept DEF SameOwn, Revoking
<1>7. IndexOK'
  <2>1. \A u \in Tabs : \A f : /\ Unset(req'[u], f) => Unset(req[u], f)
                               /\ Unlisted(req'[u], f) => Unlisted(req[u], f)
    BY <1>1, <1>2, UnsetKept DEF SameOwn, BeforeList
  <2>2. \A u \in Tabs : req'[u].at \in {"dropIndex", "setIndex", "slide"} =>
          u # t /\ req[u].at = req'[u].at /\ req[u].fam = req'[u].fam
            /\ req[u].todo = req'[u].todo /\ req[u].tok = req'[u].tok
    BY <1>2 DEF OthersKept, SameRequest
  <2>3. \A u, w \in Tabs : req'[u].at = "dropIndex" /\ req'[w].at = "setIndex" =>
          req'[w].fam \notin req'[u].todo \cap cached'
    BY <1>1, <2>2, SessionFacts DEF IndexOK
  <2>4. \A u \in Tabs : req'[u].at = "setIndex" => req'[u].fam \notin ended' \cap cached'
    BY <1>1, <2>2, SessionFacts DEF IndexOK
  <2>5. loginIndex' \notin ended'
    BY <1>1, <1>4
  <2>6. \A u \in Tabs : ~Unset(req'[u], loginIndex')
    <3>1. \A u \in Tabs : ~Unset(req[u], 0)
      BY SessionFacts DEF AuthTypes, RequestOK, Unset
    <3> QED
      BY <1>1, <2>1, <3>1
  <2>7. \A f \in listed' \cup ended' : \A u \in Tabs : ~Unlisted(req'[u], f)
    BY <1>1, <2>1, SessionFacts DEF IndexOK
  <2> QED
    BY <1>1, <1>2, <2>3, <2>4, <2>5, <2>6, <2>7, SessionFacts, IndexMoves DEF BeforeList
<1> QED
  BY <1>6, <1>7 DEF SessionInv

LEMMA LoginKeeps == ASSUME SessionInv, NEW t \in Tabs, Login(t) PROVE SessionInv'
<1>1. /\ req[t].at = "idle" /\ logins < MaxLogins /\ logins' = logins + 1
      /\ req' = [req EXCEPT ![t] =
                   [Idle EXCEPT !.op = "login", !.fam = logins + 1, !.tok = loginIndex,
                                !.at = IF loginIndex = 0 THEN "verify" ELSE "session"]]
      /\ UNCHANGED <<familyOf, members, stored, marked, cached, listed, loginIndex, held, saved,
                     authFaults, presented, causes, over, ended>>
  BY DEF Login, redisTokens, redisSessions, clientVars, histories
<1>0. /\ AuthTypes /\ CausesOK /\ IndexOK /\ CleanOK /\ OverOK /\ StoreTypes
      /\ logins \in Nat /\ logins' \in Nat /\ logins <= logins' /\ loginIndex \in Nat
      /\ loginIndex \in 0..logins /\ listed \subseteq 1..logins /\ ended \subseteq 1..logins
      /\ over \subseteq 1..logins /\ MaxLogins \in Nat /\ logins + 1 \in Families
      /\ logins + 1 \notin 0..logins /\ 0..logins \subseteq 0..logins'
      /\ 1..logins \subseteq 1..logins' /\ 1..logins \subseteq 0..logins
      /\ \A k \in Issued : familyOf[k] \in 1..logins
  BY <1>1, SessionFacts DEF AuthTypes, Families
<1>2. /\ req' \in [Tabs -> AuthReq] /\ OthersKept(t)
      /\ req'[t].op = "login" /\ req'[t].fam = logins + 1 /\ req'[t].tok = loginIndex
      /\ req'[t].at \in {"verify", "session"} /\ req'[t].at \in BeforeList
      /\ req'[t].at = "session" => loginIndex # 0
      /\ req'[t].keys = {} /\ req'[t].clean = {}
  BY <1>0, <1>1 DEF AuthTypes, AuthReq, AuthStages, BeforeList, OthersKept, SameRequest, Idle
<1>3. RequestOK(req[t])' /\ CauseOf(req[t])'
  BY <1>0, <1>1, <1>2 DEF RequestOK, CauseOf, Revoking, BeforeList
<1>4. AuthTypes'
  <2>1. TokensGrow
    BY <1>0, <1>1 DEF TokensGrow, Issued
  <2>2. \A u \in Tabs : RequestOK(req[u])'
    BY <1>0, <1>2, <1>3, <2>1, RequestsKept
  <2>3. StoreTypes'
    <3>1. /\ loginIndex' \in 0..logins' /\ listed' \subseteq 1..logins'
          /\ ended' \subseteq 1..logins' /\ over' \subseteq 1..logins'
          /\ logins' \in 0..MaxLogins
      BY <1>0, <1>1
    <3>2. \A k \in Issued' : familyOf'[k] <= logins'
      BY <1>0, <1>1 DEF Issued
    <3> QED
      BY <1>0, <1>1, <3>1, <3>2 DEF StoreTypes, OfFamily, Issued
  <2> QED
    BY <1>2, <2>2, <2>3 DEF AuthTypes
<1>5. CausesOK'
  BY <1>0, <1>1, <1>2, <1>3, CausesQuiet
<1>6. CleanOK'
  <2>1. \A f \in 1..logins : FlightOf(req'[t], f) => FlightOf(req[t], f)
    BY <1>0, <1>2 DEF FlightOf
  <2> QED
    BY <1>0, <1>1, <1>2, <2>1, CleanKept
<1>7. OverOK'
  <2>1. \A f \in over : ~Storing(req'[t], f)
    BY <1>0, <1>2 DEF Storing
  <2> QED
    BY <1>0, <1>1, <1>2, <2>1, OverKept
<1>8. IndexOK'
  <2>1. \A u \in Tabs \ {t} : SameRequest(req[u], req'[u])
    BY <1>2 DEF OthersKept
  <2>2. \A u \in Tabs \ {t} : \A f : /\ Unset(req'[u], f) => Unset(req[u], f)
                                     /\ Unlisted(req'[u], f) => Unlisted(req[u], f)
    BY <2>1 DEF SameRequest, Unset, Unlisted
  <2>3. \A f \in 0..logins : ~Unset(req'[t], f) /\ ~Unlisted(req'[t], f)
    BY <1>0, <1>2 DEF Unset, Unlisted
  <2>4. \A u \in Tabs : req'[u].at \in {"dropIndex", "setIndex", "slide", "sessions"} =>
          u # t /\ SameRequest(req[u], req'[u])
    BY <1>2, <2>1
  <2>5. \A u \in Tabs : \A w \in Tabs \ {u} :
          req'[u].op = "login" /\ req'[w].op = "login" => req'[u].fam # req'[w].fam
    <3>1. \A u \in Tabs \ {t} : req'[u].op = "login" => req'[u].fam \in 0..logins
      BY <1>0, <2>1 DEF SameRequest, AuthTypes, RequestOK
    <3>2. \A u, w \in Tabs \ {t} : u # w /\ req'[u].op = "login" /\ req'[w].op = "login" =>
            req'[u].fam # req'[w].fam
      BY <1>0, <2>1 DEF SameRequest, IndexOK
    <3> QED
      BY <1>0, <1>2, <3>1, <3>2
  <2>6. \A u \in Tabs : ~Unset(req'[u], loginIndex)
    BY <1>0, <2>2, <2>3 DEF IndexOK
  <2>7. ASSUME NEW u \in Tabs, NEW w \in Tabs, req'[u].at \in {"session", "slide"}
        PROVE  ~Unset(req'[w], req'[u].tok)
    <3>1. CASE u = t
      BY <1>2, <2>6, <3>1
    <3>2. CASE u # t
      <4>1. /\ req'[u].tok = req[u].tok /\ ~Unset(req[w], req[u].tok)
            /\ req[u].tok \in 0..logins
        BY <1>0, <2>1, <2>7, <3>2 DEF SameRequest, IndexOK, AuthTypes, RequestOK, BeforeList
      <4> QED
        BY <2>2, <2>3, <4>1
    <3> QED
      BY <3>1, <3>2
  <2>8. \A f \in listed \cup ended : \A u \in Tabs : ~Unlisted(req'[u], f)
    BY <1>0, <2>2, <2>3 DEF IndexOK
  <2>9. ASSUME NEW u \in Tabs, NEW w \in Tabs, req'[u].at \in {"sessions", "dropIndex"},
               NEW f \in req'[u].todo
        PROVE  ~Unlisted(req'[w], f)
    <3>1. /\ f \in req[u].todo /\ ~Unlisted(req[w], f) /\ f \in 0..logins
      BY <1>0, <2>4, <2>9 DEF SameRequest, IndexOK, AuthTypes, RequestOK
    <3> QED
      BY <2>2, <2>3, <3>1
  <2>10. \A u, w \in Tabs : req'[u].at = "dropIndex" /\ req'[w].at = "setIndex" =>
           req'[w].fam \notin req'[u].todo \cap cached
    BY <1>0, <2>4 DEF SameRequest, IndexOK
  <2>11. \A u \in Tabs : req'[u].at = "setIndex" => req'[u].fam \notin ended \cap cached
    BY <1>0, <2>4 DEF SameRequest, IndexOK
  <2>12. loginIndex \in ended => /\ loginIndex \notin cached
           /\ \A u \in Tabs : req'[u].at = "slide" => req'[u].tok # loginIndex
    BY <1>0, <2>4 DEF SameRequest, IndexOK
  <2> QED
    BY <1>1, <2>5, <2>6, <2>7, <2>8, <2>9, <2>10, <2>11, <2>12 DEF IndexOK
<1> QED
  BY <1>4, <1>5, <1>6, <1>7, <1>8 DEF SessionInv

LEMMA MarkOldKeeps == ASSUME SessionInv, NEW t \in Tabs, MarkOld(t) PROVE SessionInv'
<1>1. PICK at \in {"issue", "yes"} :
        /\ req[t].at = "markOld" /\ Goto(t, at) /\ marked' = marked \cup {req[t].tok}
        /\ at = "issue" <=> req[t].op = "refresh"
        /\ UNCHANGED <<stored, members, familyOf, redisSessions, logins, clientVars,
                       authFaults, histories>>
  BY DEF MarkOld
<1>0. /\ AuthTypes /\ CausesOK /\ IndexOK /\ CleanOK /\ OverOK /\ CauseOf(req[t])
      /\ RequestOK(req[t]) /\ logins \in Nat /\ logins' \in Nat /\ logins <= logins'
      /\ UNCHANGED <<familyOf, members, stored, logins, presented, causes, held, saved,
                     loginIndex, cached, listed, ended, over>>
      /\ stored \subseteq Issued /\ marked \subseteq Issued /\ cached \subseteq Families
      /\ listed \subseteq 1..logins /\ over \subseteq 1..logins /\ ended \subseteq 1..logins
      /\ loginIndex \in 0..logins
      /\ held \in [Tabs -> {0} \cup Issued] /\ saved \in {0} \cup Issued
  BY <1>1, SessionFacts DEF clientVars, redisSessions, histories
<1>2. /\ req' \in [Tabs -> AuthReq] /\ OthersKept(t) /\ SameOwn(req[t], req'[t])
      /\ req'[t].at = at
  BY <1>0, <1>1, GotoKeeps DEF AuthStages
<1>3. /\ req[t].op \in {"refresh", "logout"} /\ req[t].tok \in Issued
      /\ req[t].fam = familyOf[req[t].tok] /\ Blamed(req[t].tok)
  BY <1>0, <1>1 DEF RequestOK, CauseOf, Blamed
<1>4. RequestOK(req[t])' /\ CauseOf(req[t])'
  BY <1>0, <1>1, <1>2, <1>3 DEF RequestOK, CauseOf, SameOwn, Revoking, Issued, BeforeList
<1>5. AuthTypes'
  <2>1. marked' \subseteq Issued
    BY <1>0, <1>1, <1>3
  <2> QED
    BY <1>0, <1>2, <1>4, <2>1, TypesKept
<1>6. CausesOK'
  <2>1. TokensGrow
    BY <1>0 DEF TokensGrow, Issued
  <2>2. \A k \in marked' \ marked : Blamed(k)'
    BY <1>0, <1>1, <1>3 DEF Blamed
  <2>3. \A u \in Tabs \ {t} :
          req'[t].op = "refresh" /\ req[u].op = "refresh" /\ req'[t].tok = req[u].tok
            => req'[t].fam \in causes' /\ req[u].fam \in causes'
    BY <1>0, <1>2 DEF CausesOK, SameOwn
  <2> QED
    BY <1>0, <1>2, <1>4, <2>1, <2>2, <2>3, CausesKept DEF Issued
<1>7. IndexOK'
  <2>1. req'[t].at \notin BeforeList
    BY <1>1, <1>2 DEF BeforeList
  <2> QED
    BY <1>0, <1>1, <1>2, <2>1, IndexQuiet DEF SameOwn
<1>8. CleanOK'
  <2>1. \A f \in 1..logins : FlightOf(req'[t], f) => FlightOf(req[t], f)
    BY <1>2 DEF FlightOf, SameOwn
  <2>2. \A f \in req'[t].clean :
          req'[t].op = "logoutAll" \/ (req'[t].op = "refresh" /\ req'[t].fam = f)
    BY <1>0, <1>2 DEF SameOwn, CleanOK
  <2> QED
    BY <1>0, <1>1, <1>2, <2>1, <2>2, CleanKept DEF SameOwn, Revoking
<1>9. OverOK'
  <2>1. \A f \in over : ~Storing(req'[t], f)
    BY <1>0, <1>1, <1>2, <1>3 DEF OverOK, Storing, SameOwn, BeforeList
  <2> QED
    BY <1>0, <1>2, <2>1, OverKept
<1> QED
  BY <1>5, <1>6, <1>7, <1>8, <1>9 DEF SessionInv

LEMMA MarkMemberKeeps == ASSUME SessionInv, NEW t \in Tabs, MarkMember(t) PROVE SessionInv'
<1>1. /\ req[t].at = "markMember" /\ marked' = marked \cup {req[t].new}
      /\ GotoWith(t, "members", "todo", req[t].todo \ {req[t].new})
      /\ UNCHANGED <<stored, members, familyOf, redisSessions, logins, clientVars,
                     authFaults, histories>>
  BY DEF MarkMember
<1>0. /\ AuthTypes /\ CausesOK /\ IndexOK /\ CleanOK /\ OverOK /\ CauseOf(req[t])
      /\ RequestOK(req[t]) /\ logins \in Nat /\ logins' \in Nat /\ logins <= logins'
      /\ UNCHANGED <<familyOf, members, stored, logins, presented, causes, held, saved,
                     loginIndex, cached, listed, ended, over>>
      /\ stored \subseteq Issued /\ marked \subseteq Issued /\ cached \subseteq Families
      /\ listed \subseteq 1..logins /\ over \subseteq 1..logins /\ ended \subseteq 1..logins
      /\ loginIndex \in 0..logins
      /\ held \in [Tabs -> {0} \cup Issued] /\ saved \in {0} \cup Issued
  BY <1>1, SessionFacts DEF clientVars, redisSessions, histories
<1>2. /\ req' \in [Tabs -> AuthReq] /\ OthersKept(t) /\ SameOwn(req[t], req'[t])
      /\ req'[t].at = "members" /\ req'[t].todo = req[t].todo \ {req[t].new}
  <2>1. req[t].todo \ {req[t].new} \in SUBSET Nat
    BY <1>0, SessionFacts DEF AuthReq
  <2> QED
    BY <1>0, <1>1, <2>1, GotoTodoKeeps DEF AuthStages, Revoking
<1>3. /\ req[t].op \in {"refresh", "logoutAll"} /\ req[t].new \in Issued
      /\ req[t].fam = familyOf[req[t].new] /\ Blamed(req[t].new)
  BY <1>0, <1>1 DEF RequestOK, CauseOf, Blamed, Revoking, OfFamily
<1>4. RequestOK(req[t])' /\ CauseOf(req[t])'
  BY <1>0, <1>1, <1>2, <1>3
     DEF RequestOK, CauseOf, SameOwn, Revoking, Issued, BeforeList, OfFamily
<1>5. AuthTypes'
  <2>1. marked' \subseteq Issued
    BY <1>0, <1>1, <1>3
  <2> QED
    BY <1>0, <1>2, <1>4, <2>1, TypesKept
<1>6. CausesOK'
  <2>1. TokensGrow
    BY <1>0 DEF TokensGrow, Issued
  <2>2. \A k \in marked' \ marked : Blamed(k)'
    BY <1>0, <1>1, <1>3 DEF Blamed
  <2>3. \A u \in Tabs \ {t} :
          req'[t].op = "refresh" /\ req[u].op = "refresh" /\ req'[t].tok = req[u].tok
            => req'[t].fam \in causes' /\ req[u].fam \in causes'
    BY <1>0, <1>2 DEF CausesOK, SameOwn
  <2> QED
    BY <1>0, <1>2, <1>4, <2>1, <2>2, <2>3, CausesKept DEF Issued
<1>7. IndexOK'
  <2>1. req'[t].at \notin BeforeList
    BY <1>1, <1>2 DEF BeforeList
  <2> QED
    BY <1>0, <1>1, <1>2, <2>1, IndexQuiet DEF SameOwn
<1>8. CleanOK'
  <2>1. \A f \in 1..logins : FlightOf(req'[t], f) => FlightOf(req[t], f)
    BY <1>2 DEF FlightOf, SameOwn
  <2>2. \A f \in req'[t].clean :
          req'[t].op = "logoutAll" \/ (req'[t].op = "refresh" /\ req'[t].fam = f)
    BY <1>0, <1>2 DEF SameOwn, CleanOK
  <2>3. \A f \in req'[t].clean : Stored(f)' \subseteq Left(req[t], f)'
    <3>1. \A f \in req[t].clean : Stored(f) \subseteq Left(req[t], f)
      BY <1>0, <1>1 DEF CleanOK, Revoking
    <3> QED
      BY <1>0, <1>1, <1>2, <3>1 DEF Left, Stored, SameOwn
  <2> QED
    BY <1>0, <1>1, <1>2, <2>1, <2>2, <2>3, CleanKept DEF SameOwn
<1>9. OverOK'
  <2>1. \A f \in over : ~Storing(req'[t], f)
    BY <1>2 DEF Storing, BeforeList
  <2> QED
    BY <1>0, <1>2, <2>1, OverKept
<1> QED
  BY <1>5, <1>6, <1>7, <1>8, <1>9 DEF SessionInv

LEMMA DeleteOldKeeps == ASSUME SessionInv, NEW t \in Tabs, DeleteOld(t) PROVE SessionInv'
<1>1. /\ req[t].at = "delOld" /\ Goto(t, "markOld") /\ stored' = stored \ {req[t].tok}
      /\ UNCHANGED <<marked, members, familyOf, redisSessions, logins, clientVars,
                     authFaults, histories>>
  BY DEF DeleteOld
<1>0. /\ AuthTypes /\ CausesOK /\ IndexOK /\ CleanOK /\ OverOK /\ CauseOf(req[t])
      /\ RequestOK(req[t]) /\ logins \in Nat /\ logins' \in Nat /\ logins <= logins'
      /\ UNCHANGED <<familyOf, members, marked, logins, presented, causes, held, saved,
                     loginIndex, cached, listed, ended, over>>
      /\ stored \subseteq Issued /\ marked \subseteq Issued /\ cached \subseteq Families
      /\ listed \subseteq 1..logins /\ over \subseteq 1..logins /\ ended \subseteq 1..logins
      /\ loginIndex \in 0..logins
      /\ held \in [Tabs -> {0} \cup Issued] /\ saved \in {0} \cup Issued
  BY <1>1, SessionFacts DEF clientVars, redisSessions, histories
<1>2. /\ req' \in [Tabs -> AuthReq] /\ OthersKept(t) /\ SameOwn(req[t], req'[t])
      /\ req'[t].at = "markOld"
  BY <1>0, <1>1, GotoKeeps DEF AuthStages
<1>3. /\ req[t].op \in {"refresh", "logout"} /\ req[t].tok \in Issued
      /\ req[t].fam = familyOf[req[t].tok] /\ Blamed(req[t].tok)
  BY <1>0, <1>1 DEF RequestOK, CauseOf, Blamed
<1>4. RequestOK(req[t])' /\ CauseOf(req[t])'
  BY <1>0, <1>1, <1>2, <1>3 DEF RequestOK, CauseOf, SameOwn, Revoking, Issued, BeforeList
<1>5. AuthTypes'
  <2>1. stored' \subseteq Issued
    BY <1>0, <1>1
  <2> QED
    BY <1>0, <1>2, <1>4, <2>1, TypesKept
<1>6. CausesOK'
  <2>1. TokensGrow
    BY <1>0 DEF TokensGrow, Issued
  <2>2. \A k \in Issued' \ stored' : k \in Issued \ stored \/ Blamed(k)'
    BY <1>0, <1>1, <1>3 DEF Blamed, Issued
  <2>3. ASSUME NEW u \in Tabs \ {t}, req[u].op = "refresh", req[u].tok = req[t].tok
        PROVE  req[u].fam \in causes
    <3>1. CASE req[t].op = "refresh"
      BY <1>0, <2>3, <3>1 DEF CausesOK
    <3>2. CASE req[t].op = "logout"
      <4>1. req[u].fam = familyOf[req[u].tok]
        BY <1>0, <2>3 DEF AuthTypes, RequestOK
      <4> QED
        BY <1>0, <1>3, <2>3, <3>2, <4>1 DEF CauseOf
    <3> QED
      BY <1>3, <3>1, <3>2
  <2>4. \A u \in Tabs \ {t} : req[u].op = "refresh" /\ req[u].at = "data"
           /\ req[u].tok \in stored \ stored' => req[u].fam \in causes'
    BY <1>0, <1>1, <2>3
  <2>5. \A u \in Tabs \ {t} :
          req'[t].op = "refresh" /\ req[u].op = "refresh" /\ req'[t].tok = req[u].tok
            => req'[t].fam \in causes' /\ req[u].fam \in causes'
    BY <1>0, <1>2 DEF CausesOK, SameOwn
  <2> QED
    BY <1>0, <1>2, <1>4, <2>1, <2>2, <2>4, <2>5, CausesKept
<1>7. IndexOK'
  <2>1. req'[t].at \notin BeforeList
    BY <1>1, <1>2 DEF BeforeList
  <2> QED
    BY <1>0, <1>1, <1>2, <2>1, IndexQuiet DEF SameOwn
<1>8. CleanOK'
  <2>1. \A f \in 1..logins : FlightOf(req'[t], f) => FlightOf(req[t], f)
    BY <1>2 DEF FlightOf, SameOwn
  <2>2. \A f \in req'[t].clean :
          req'[t].op = "logoutAll" \/ (req'[t].op = "refresh" /\ req'[t].fam = f)
    BY <1>0, <1>2 DEF SameOwn, CleanOK
  <2>3. stored' \subseteq stored
    BY <1>1
  <2> QED
    BY <1>0, <1>2, <2>1, <2>2, <2>3, CleanKept DEF SameOwn, Revoking
<1>9. OverOK'
  <2>1. \A f \in over : ~Storing(req'[t], f)
    BY <1>0, <1>1, <1>2, <1>3 DEF OverOK, Storing, SameOwn, BeforeList
  <2> QED
    BY <1>0, <1>1, <1>2, <2>1, OverKept
<1> QED
  BY <1>5, <1>6, <1>7, <1>8, <1>9 DEF SessionInv

LEMMA DeleteMemberKeeps ==
  ASSUME SessionInv, NEW t \in Tabs, DeleteMember(t) PROVE SessionInv'
<1>1. PICK k \in req[t].todo :
        /\ req[t].at = "members" /\ stored' = stored \ {k} /\ GotoWith(t, "markMember", "new", k)
        /\ UNCHANGED <<marked, members, familyOf, redisSessions, logins, clientVars,
                       authFaults, histories>>
  BY DEF DeleteMember
<1>0. /\ AuthTypes /\ CausesOK /\ IndexOK /\ CleanOK /\ OverOK /\ CauseOf(req[t])
      /\ RequestOK(req[t]) /\ logins \in Nat /\ logins' \in Nat /\ logins <= logins'
      /\ UNCHANGED <<familyOf, members, marked, logins, presented, causes, held, saved,
                     loginIndex, cached, listed, ended, over>>
      /\ stored \subseteq Issued /\ marked \subseteq Issued /\ cached \subseteq Families
      /\ listed \subseteq 1..logins /\ over \subseteq 1..logins /\ ended \subseteq 1..logins
      /\ loginIndex \in 0..logins
      /\ held \in [Tabs -> {0} \cup Issued] /\ saved \in {0} \cup Issued
  BY <1>1, SessionFacts DEF clientVars, redisSessions, histories
<1>3. /\ req[t].op \in {"refresh", "logoutAll"} /\ k \in Issued /\ k \in OfFamily(req[t].fam)
      /\ req[t].fam = familyOf[k] /\ Blamed(k) /\ req[t].fam \in causes /\ k \in Nat
  BY <1>0, <1>1, SessionFacts DEF RequestOK, CauseOf, Blamed, Revoking, OfFamily
<1>2. /\ req' \in [Tabs -> AuthReq] /\ OthersKept(t) /\ SameOwn(req[t], req'[t])
      /\ req'[t].at = "markMember" /\ req'[t].new = k /\ req'[t].todo = req[t].todo
  BY <1>0, <1>1, <1>3, GotoNewKeeps DEF AuthStages, Revoking
<1>4. RequestOK(req[t])' /\ CauseOf(req[t])'
  BY <1>0, <1>1, <1>2, <1>3
     DEF RequestOK, CauseOf, SameOwn, Revoking, Issued, BeforeList, OfFamily
<1>5. AuthTypes'
  <2>1. stored' \subseteq Issued
    BY <1>0, <1>1
  <2> QED
    BY <1>0, <1>2, <1>4, <2>1, TypesKept
<1>6. CausesOK'
  <2>1. TokensGrow
    BY <1>0 DEF TokensGrow, Issued
  <2>2. \A x \in Issued' \ stored' : x \in Issued \ stored \/ Blamed(x)'
    BY <1>0, <1>1, <1>3 DEF Blamed, Issued
  <2>3. \A u \in Tabs \ {t} : req[u].op = "refresh" /\ req[u].at = "data"
           /\ req[u].tok \in stored \ stored' => req[u].fam \in causes'
    BY <1>0, <1>1, <1>3 DEF AuthTypes, RequestOK
  <2>4. \A u \in Tabs \ {t} :
          req'[t].op = "refresh" /\ req[u].op = "refresh" /\ req'[t].tok = req[u].tok
            => req'[t].fam \in causes' /\ req[u].fam \in causes'
    BY <1>0, <1>2 DEF CausesOK, SameOwn
  <2> QED
    BY <1>0, <1>2, <1>4, <2>1, <2>2, <2>3, <2>4, CausesKept
<1>7. IndexOK'
  <2>1. req'[t].at \notin BeforeList
    BY <1>1, <1>2 DEF BeforeList
  <2> QED
    BY <1>0, <1>1, <1>2, <2>1, IndexQuiet DEF SameOwn
<1>8. CleanOK'
  <2>1. \A f \in 1..logins : FlightOf(req'[t], f) => FlightOf(req[t], f)
    BY <1>2 DEF FlightOf, SameOwn
  <2>2. \A f \in req'[t].clean :
          req'[t].op = "logoutAll" \/ (req'[t].op = "refresh" /\ req'[t].fam = f)
    BY <1>0, <1>2 DEF SameOwn, CleanOK
  <2>3. \A f \in req'[t].clean : Stored(f)' \subseteq Left(req[t], f)'
    <3>1. \A f \in req[t].clean : Stored(f) \subseteq Left(req[t], f)
      BY <1>0, <1>1 DEF CleanOK, Revoking
    <3> QED
      BY <1>0, <1>1, <1>2, <3>1 DEF Left, Stored, SameOwn
  <2>4. stored' \subseteq stored
    BY <1>1
  <2> QED
    BY <1>0, <1>2, <2>1, <2>2, <2>3, <2>4, CleanKept DEF SameOwn
<1>9. OverOK'
  <2>1. \A f \in over : ~Storing(req'[t], f)
    BY <1>2 DEF Storing, BeforeList
  <2> QED
    BY <1>0, <1>1, <1>2, <2>1, OverKept
<1> QED
  BY <1>5, <1>6, <1>7, <1>8, <1>9 DEF SessionInv

LEMMA JoinFamilyKeeps == ASSUME SessionInv, NEW t \in Tabs, JoinFamily(t) PROVE SessionInv'
<1>1. /\ req[t].at = "join" /\ Goto(t, "yes")
      /\ members' = [members EXCEPT ![req[t].fam] = members[req[t].fam] \cup {req[t].new}]
      /\ UNCHANGED <<stored, marked, familyOf, redisSessions, logins, clientVars,
                     authFaults, histories>>
  BY DEF JoinFamily
<1>0. /\ AuthTypes /\ CausesOK /\ IndexOK /\ CleanOK /\ OverOK /\ CauseOf(req[t])
      /\ RequestOK(req[t]) /\ logins \in Nat /\ logins' \in Nat /\ logins <= logins'
      /\ UNCHANGED <<familyOf, stored, marked, logins, presented, causes, held, saved,
                     loginIndex, cached, listed, ended, over>>
      /\ StoreTypes
  BY <1>1, SessionFacts DEF clientVars, redisSessions, histories, AuthTypes
<1>2. /\ req' \in [Tabs -> AuthReq] /\ OthersKept(t) /\ SameOwn(req[t], req'[t])
      /\ req'[t].at = "yes" /\ req'[t].new = req[t].new
  BY <1>0, <1>1, GotoKeeps DEF AuthStages
<1>3. /\ req[t].op \in {"refresh", "login"} /\ req[t].new \in OfFamily(req[t].fam)
      /\ req[t].new \in Nat
  BY <1>0, <1>1, SessionFacts DEF RequestOK, OfFamily
<1>4. RequestOK(req[t])' /\ CauseOf(req[t])'
  BY <1>0, <1>1, <1>2, <1>3
     DEF RequestOK, CauseOf, SameOwn, Revoking, Issued, BeforeList, OfFamily
<1>5. AuthTypes'
  <2>1. TokensGrow
    BY <1>0 DEF TokensGrow, Issued
  <2>2. \A u \in Tabs : RequestOK(req[u])'
    BY <1>0, <1>2, <1>4, <2>1, RequestsKept
  <2>3. /\ members' \in [Families -> SUBSET Nat]
        /\ \A f \in Families : members'[f] \subseteq OfFamily(f)
    BY <1>0, <1>1, <1>3 DEF StoreTypes
  <2>4. StoreTypes'
    BY <1>0, <2>3 DEF StoreTypes, OfFamily, Issued
  <2> QED
    BY <1>2, <2>2, <2>4 DEF AuthTypes
<1>6. CausesOK'
  BY <1>0, <1>2, <1>4, CausesQuiet DEF SameOwn
<1>7. IndexOK'
  <2>1. req'[t].at \notin BeforeList
    BY <1>1, <1>2 DEF BeforeList
  <2> QED
    BY <1>0, <1>1, <1>2, <2>1, IndexQuiet DEF SameOwn
<1>8. CleanOK'
  <2>0. \A u \in Tabs \ {t} : SameRequest(req[u], req'[u])
    BY <1>2 DEF OthersKept
  <2>1. ASSUME NEW u \in Tabs, NEW f \in req'[u].clean
        PROVE  /\ f \in req[u].clean /\ f \in Families /\ f <= logins'
               /\ req'[u].op = "logoutAll" \/ (req'[u].op = "refresh" /\ req'[u].fam = f)
    BY <1>0, <1>2, <2>0 DEF SameRequest, SameOwn, CleanOK, AuthTypes, AuthReq
  <2>2. \A u \in Tabs : \A f \in req'[u].clean : \A w \in Tabs \ {u} : ~FlightOf(req'[w], f)
    BY <1>0, <1>2, <2>0, <2>1 DEF SameRequest, SameOwn, CleanOK, FlightOf
  <2>3. ASSUME NEW u \in Tabs, NEW f \in req'[u].clean, req'[u].at \in Revoking \cup {"visit"}
        PROVE  Stored(f)' \subseteq Left(req[u], f)'
    <3>1. u # t /\ SameRequest(req[u], req'[u]) /\ f \in req[u].clean
      BY <1>2, <2>0, <2>1, <2>3 DEF Revoking
    <3>2. Stored(f) \subseteq Left(req[u], f) /\ req[t].fam # f
      BY <1>0, <1>3, <2>3, <3>1 DEF CleanOK, SameRequest, FlightOf
    <3>3. members'[f] = members[f] /\ Stored(f)' = Stored(f)
      BY <1>0, <1>1, <2>1, <3>2 DEF StoreTypes, Stored
    <3> QED
      BY <3>1, <3>2, <3>3 DEF SameRequest, Left
  <2> QED
    BY <2>1, <2>2, <2>3 DEF CleanOK
<1>9. OverOK'
  <2>1. \A f \in over : ~Storing(req'[t], f)
    BY <1>2 DEF Storing, BeforeList
  <2> QED
    BY <1>0, <1>1, <1>2, <2>1, OverKept
<1> QED
  BY <1>5, <1>6, <1>7, <1>8, <1>9 DEF SessionInv

LEMMA DropFamilyKeeps == ASSUME SessionInv, NEW t \in Tabs, DropFamily(t) PROVE SessionInv'
<1>1. PICK at \in {"no", "visit"} :
        /\ req[t].at = "members" /\ req[t].todo = {} /\ Goto(t, at)
        /\ members' = [members EXCEPT ![req[t].fam] = {}]
        /\ at = "no" => req[t].op = "refresh" /\ over' = over \cup req[t].clean
        /\ at = "visit" => req[t].op # "refresh" /\ over' = over
        /\ UNCHANGED <<stored, marked, familyOf, redisSessions, logins, clientVars,
                       authFaults, presented, causes, ended>>
  BY DEF DropFamily
<1>0. /\ AuthTypes /\ CausesOK /\ IndexOK /\ CleanOK /\ OverOK /\ CauseOf(req[t])
      /\ RequestOK(req[t]) /\ logins \in Nat /\ logins' \in Nat /\ logins <= logins'
      /\ UNCHANGED <<familyOf, stored, marked, logins, presented, causes, held, saved,
                     loginIndex, cached, listed, ended>>
      /\ StoreTypes /\ over \subseteq 1..logins
  BY <1>1, SessionFacts DEF clientVars, redisSessions, AuthTypes
<1>2. /\ req' \in [Tabs -> AuthReq] /\ OthersKept(t) /\ SameOwn(req[t], req'[t])
      /\ req'[t].at = at /\ req'[t].todo = req[t].todo /\ req'[t].new = req[t].new
  BY <1>0, <1>1, GotoKeeps DEF AuthStages
<1>3. /\ req[t].op \in {"refresh", "logoutAll"} /\ req[t].fam \in causes
      /\ req[t].fam \in Families
      /\ at = "visit" => req[t].op = "logoutAll"
  BY <1>0, <1>1, SessionFacts DEF RequestOK, Revoking, CauseOf, AuthReq
<1>4. RequestOK(req[t])' /\ CauseOf(req[t])'
  BY <1>0, <1>1, <1>2, <1>3
     DEF RequestOK, CauseOf, SameOwn, Revoking, Issued, BeforeList, OfFamily
<1>5. req[t].clean \subseteq 1..logins
  BY <1>0, SessionFacts DEF CleanOK, AuthReq, Families
<1>6. AuthTypes'
  <2>1. TokensGrow
    BY <1>0 DEF TokensGrow, Issued
  <2>2. \A u \in Tabs : RequestOK(req[u])'
    BY <1>0, <1>2, <1>4, <2>1, RequestsKept
  <2>3. /\ members' \in [Families -> SUBSET Nat]
        /\ \A f \in Families : members'[f] \subseteq OfFamily(f)
    BY <1>0, <1>1 DEF StoreTypes
  <2>4. over' \subseteq 1..logins
    BY <1>0, <1>1, <1>5
  <2>5. StoreTypes'
    BY <1>0, <2>3, <2>4 DEF StoreTypes, OfFamily, Issued
  <2> QED
    BY <1>2, <2>2, <2>5 DEF AuthTypes
<1>7. CausesOK'
  BY <1>0, <1>2, <1>4, CausesQuiet DEF SameOwn
<1>8. IndexOK'
  <2>1. req'[t].at \notin BeforeList
    BY <1>1, <1>2 DEF BeforeList
  <2> QED
    BY <1>0, <1>1, <1>2, <2>1, IndexQuiet DEF SameOwn
<1>u. \A u \in Tabs \ {t} : SameRequest(req[u], req'[u])
  BY <1>2 DEF OthersKept
<1>s. \A f : Stored(f)' = Stored(f)
  BY <1>0 DEF Stored
<1>9. CleanOK'
  <2>1. ASSUME NEW u \in Tabs, NEW f \in req'[u].clean
        PROVE  /\ f \in req[u].clean /\ f \in Families /\ f <= logins'
               /\ req'[u].op = "logoutAll" \/ (req'[u].op = "refresh" /\ req'[u].fam = f)
    BY <1>0, <1>2, <1>u DEF SameRequest, SameOwn, CleanOK, AuthTypes, AuthReq
  <2>2. \A u \in Tabs : \A f \in req'[u].clean : \A w \in Tabs \ {u} : ~FlightOf(req'[w], f)
    BY <1>0, <1>2, <1>u, <2>1 DEF SameRequest, SameOwn, CleanOK, FlightOf
  <2>3. ASSUME NEW u \in Tabs, NEW f \in req'[u].clean, req'[u].at \in Revoking \cup {"visit"}
        PROVE  Stored(f)' \subseteq Left(req[u], f)'
    <3>1. CASE u # t
      <4>1. SameRequest(req[u], req'[u]) /\ f \in req[u].clean
        BY <1>u, <2>1, <2>3, <3>1
      <4>2. Stored(f) \subseteq Left(req[u], f) /\ req[t].fam # f
        BY <1>0, <1>3, <2>3, <3>1, <4>1 DEF CleanOK, SameRequest, FlightOf
      <4>3. members'[f] = members[f]
        BY <1>0, <1>1, <2>1, <4>2 DEF StoreTypes
      <4> QED
        BY <1>s, <4>1, <4>2, <4>3 DEF SameRequest, Left
    <3>2. CASE u = t /\ f = req[t].fam
      BY <1>0, <1>1, <1>s, <2>1, <3>2 DEF CleanOK, Left, Revoking
    <3>3. CASE u = t /\ f # req[t].fam
      <4>1. at = "visit" /\ members'[f] = members[f]
        BY <1>0, <1>1, <1>2, <2>1, <2>3, <3>3 DEF Revoking, StoreTypes
      <4>2. Stored(f) \subseteq req[t].keys \cap members[f]
        BY <1>0, <1>1, <2>1, <3>3 DEF CleanOK, Left, Revoking
      <4> QED
        BY <1>2, <1>s, <3>3, <4>1, <4>2 DEF Left, SameOwn
    <3> QED
      BY <3>1, <3>2, <3>3
  <2> QED
    BY <2>1, <2>2, <2>3 DEF CleanOK
<1>10. OverOK'
  <2>1. ~\E f : Storing(req'[t], f)
    BY <1>1, <1>2 DEF Storing, BeforeList
  <2>2. ASSUME NEW f \in over'
        PROVE  Stored(f) = {} /\ \A u \in Tabs \ {t} : ~Storing(req'[u], f)
    <3>1. CASE f \in over
      BY <1>0, <1>u, <3>1 DEF OverOK, SameRequest, Storing
    <3>2. CASE at = "no" /\ f \in req[t].clean
      <4>1. Stored(f) \subseteq req[t].todo
        BY <1>0, <1>1, <3>2 DEF CleanOK, Left, Revoking
      <4>2. \A u \in Tabs \ {t} : ~FlightOf(req[u], f)
        BY <1>0, <3>2 DEF CleanOK
      <4> QED
        BY <1>1, <1>u, <4>1, <4>2 DEF FlightOf, SameRequest, Storing
    <3> QED
      BY <1>1, <2>2, <3>1, <3>2
  <2> QED
    BY <1>s, <2>1, <2>2 DEF OverOK
<1> QED
  BY <1>6, <1>7, <1>8, <1>9, <1>10 DEF SessionInv

LEMMA StoreTokenKeeps == ASSUME SessionInv, NEW t \in Tabs, StoreToken(t) PROVE SessionInv'
<1> DEFINE n == Len(familyOf) + 1
<1>1. /\ req[t].at = "issue" /\ familyOf' = Append(familyOf, req[t].fam)
      /\ stored' = stored \cup {n} /\ GotoWith(t, "join", "new", n)
      /\ UNCHANGED <<marked, members, redisSessions, logins, clientVars,
                     authFaults, histories>>
  BY DEF StoreToken
<1>0. /\ AuthTypes /\ CausesOK /\ IndexOK /\ CleanOK /\ OverOK /\ CauseOf(req[t])
      /\ RequestOK(req[t]) /\ logins \in Nat /\ logins' \in Nat /\ logins <= logins'
      /\ UNCHANGED <<members, marked, logins, presented, causes, held, saved,
                     loginIndex, cached, listed, ended, over>>
      /\ StoreTypes /\ familyOf \in Seq(Families) /\ n \in Nat
      /\ \A k \in Issued : familyOf[k] \in 1..logins
  BY <1>1, SessionFacts DEF clientVars, redisSessions, histories, AuthTypes
<1>2. /\ req' \in [Tabs -> AuthReq] /\ OthersKept(t) /\ SameOwn(req[t], req'[t])
      /\ req'[t].at = "join" /\ req'[t].new = n /\ req'[t].todo = req[t].todo
  BY <1>0, <1>1, GotoNewKeeps DEF AuthStages
<1>3. /\ req[t].op \in {"login", "refresh"} /\ req[t].fam \in Families
      /\ req[t].fam \in 1..logins
  BY <1>0, <1>1, SessionFacts DEF RequestOK, Families
<1>4. /\ familyOf' \in Seq(Families) /\ Issued' = Issued \cup {n} /\ n \notin Issued
      /\ familyOf'[n] = req[t].fam /\ \A k \in Issued : familyOf'[k] = familyOf[k]
  BY <1>0, <1>1, <1>3 DEF Issued
<1> HIDE DEF n
<1>5. TokensGrow
  BY <1>0, <1>4 DEF TokensGrow
<1>6. RequestOK(req[t])' /\ CauseOf(req[t])'
  <2>1. RequestOK(req[t])'
    BY <1>0, <1>1, <1>2, <1>3, <1>4
       DEF RequestOK, SameOwn, Revoking, BeforeList, OfFamily
  <2>2. \A k \in req'[t].keys : familyOf'[k] \in causes'
    BY <1>0, <1>2, <1>4 DEF RequestOK, CauseOf, SameOwn
  <2>3. CauseOf(req[t])'
    BY <1>0, <1>2, <2>2 DEF CauseOf, SameOwn, Revoking
  <2> QED
    BY <2>1, <2>3
<1>7. AuthTypes'
  <2>1. \A u \in Tabs : RequestOK(req[u])'
    BY <1>0, <1>2, <1>5, <1>6, RequestsKept
  <2>2. StoreTypes'
    <3>1. \A f \in Families : members[f] \subseteq OfFamily(f)'
      BY <1>0, <1>4 DEF StoreTypes, OfFamily
    <3>2. \A k \in Issued' : familyOf'[k] <= logins
      BY <1>0, <1>3, <1>4 DEF StoreTypes
    <3>3. /\ stored' \subseteq Issued' /\ marked' \subseteq Issued'
          /\ held' \in [Tabs -> {0} \cup Issued'] /\ saved' \in {0} \cup Issued'
      BY <1>0, <1>1, <1>4 DEF StoreTypes
    <3> QED
      BY <1>0, <1>4, <3>1, <3>2, <3>3 DEF StoreTypes
  <2> QED
    BY <1>2, <2>1, <2>2 DEF AuthTypes
<1>8. CausesOK'
  <2>1. \A k \in Issued' \ stored' : k \in Issued \ stored
    BY <1>1, <1>4
  <2>2. \A u \in Tabs \ {t} :
          req'[t].op = "refresh" /\ req[u].op = "refresh" /\ req'[t].tok = req[u].tok
            => req'[t].fam \in causes' /\ req[u].fam \in causes'
    BY <1>0, <1>2 DEF CausesOK, SameOwn
  <2>3. stored \subseteq stored'
    BY <1>1
  <2> QED
    BY <1>0, <1>2, <1>5, <1>6, <2>1, <2>2, <2>3, CausesKept
<1>9. IndexOK'
  <2>1. req'[t].at \notin BeforeList
    BY <1>1, <1>2 DEF BeforeList
  <2> QED
    BY <1>0, <1>1, <1>2, <2>1, IndexQuiet DEF SameOwn
<1>u. \A u \in Tabs \ {t} : SameRequest(req[u], req'[u])
  BY <1>2 DEF OthersKept
<1>s. \A f : f # req[t].fam => Stored(f)' = Stored(f)
  BY <1>0, <1>1, <1>4 DEF Stored, StoreTypes
<1>10. CleanOK'
  <2>1. ASSUME NEW u \in Tabs, NEW f \in req'[u].clean
        PROVE  /\ f \in req[u].clean /\ f <= logins'
               /\ req'[u].op = "logoutAll" \/ (req'[u].op = "refresh" /\ req'[u].fam = f)
    BY <1>0, <1>2, <1>u DEF SameRequest, SameOwn, CleanOK
  <2>2. \A u \in Tabs : \A f \in req'[u].clean : \A w \in Tabs \ {u} : ~FlightOf(req'[w], f)
    BY <1>0, <1>2, <1>u, <2>1 DEF SameRequest, SameOwn, CleanOK, FlightOf
  <2>3. ASSUME NEW u \in Tabs, NEW f \in req'[u].clean, req'[u].at \in Revoking \cup {"visit"}
        PROVE  Stored(f)' \subseteq Left(req[u], f)'
    <3>1. u # t /\ SameRequest(req[u], req'[u]) /\ f \in req[u].clean
      BY <1>2, <1>u, <2>1, <2>3 DEF Revoking
    <3>2. Stored(f) \subseteq Left(req[u], f) /\ req[t].fam # f
      BY <1>0, <1>3, <2>3, <3>1 DEF CleanOK, SameRequest, FlightOf
    <3> QED
      BY <1>0, <1>s, <3>1, <3>2 DEF SameRequest, Left
  <2> QED
    BY <2>1, <2>2, <2>3 DEF CleanOK
<1>11. OverOK'
  <2>1. \A f \in over : f # req[t].fam
    BY <1>0, <1>1, <1>3 DEF OverOK, Storing
  <2>2. \A u \in Tabs : \A f : Storing(req'[u], f) => Storing(req[u], f)
    BY <1>1, <1>2, <1>u DEF SameRequest, SameOwn, Storing, BeforeList
  <2> QED
    BY <1>0, <1>s, <2>1, <2>2 DEF OverOK
<1> QED
  BY <1>7, <1>8, <1>9, <1>10, <1>11 DEF SessionInv

LEMMA RefreshKeeps == ASSUME SessionInv, NEW t \in Tabs, Refresh(t) PROVE SessionInv'
<1> DEFINE k == held[t]
           f == familyOf[k]
           reuse == k \in marked
           sound == {g \in {f} : reuse /\ Listed(f) /\ InFlight(f) = {}}
<1>1. /\ req[t].at = "idle" /\ k # 0 /\ presented' = presented \cup {k}
      /\ causes' = IF k \in presented THEN causes \cup {f} ELSE causes
      /\ req' = [Unclean(req, f) EXCEPT ![t] =
                   [Idle EXCEPT !.op = "refresh", !.tok = k, !.fam = f,
                      !.at = IF reuse THEN "family" ELSE "data", !.clean = sound]]
      /\ UNCHANGED <<redisTokens, redisSessions, logins, clientVars, authFaults, over, ended>>
  BY DEF Refresh
<1>0. /\ AuthTypes /\ CausesOK /\ IndexOK /\ CleanOK /\ OverOK
      /\ logins \in Nat /\ logins' \in Nat /\ logins <= logins'
      /\ UNCHANGED <<familyOf, members, stored, marked, logins, held, saved,
                     loginIndex, cached, listed, ended, over>>
      /\ StoreTypes /\ k \in Issued /\ k \in Nat /\ f \in Families /\ f \in 1..logins
      /\ f # 0 /\ stored \subseteq Issued /\ marked \subseteq Issued /\ cached \subseteq Families
      /\ listed \subseteq 1..logins /\ over \subseteq 1..logins /\ ended \subseteq 1..logins
      /\ loginIndex \in 0..logins
      /\ held \in [Tabs -> {0} \cup Issued] /\ saved \in {0} \cup Issued
  BY <1>1, SessionFacts DEF clientVars, redisSessions, redisTokens, AuthTypes
<1>2. /\ req' \in [Tabs -> AuthReq] /\ OthersKept(t)
      /\ \A u \in Tabs \ {t} : req'[u].clean = req[u].clean \ {f}
      /\ req'[t].op = "refresh" /\ req'[t].tok = k /\ req'[t].fam = f
      /\ req'[t].at = (IF reuse THEN "family" ELSE "data")
      /\ req'[t].keys = {} /\ req'[t].clean = sound
  <2> DEFINE q == [Idle EXCEPT !.op = "refresh", !.tok = k, !.fam = f,
                      !.at = IF reuse THEN "family" ELSE "data", !.clean = sound]
  <2>1. sound \subseteq Families
    BY <1>0
  <2> HIDE DEF sound, k, f, reuse
  <2>2. /\ q \in AuthReq /\ q.op = "refresh" /\ q.tok = k /\ q.fam = f
        /\ q.at = (IF reuse THEN "family" ELSE "data") /\ q.keys = {} /\ q.clean = sound
    BY <1>0, <2>1 DEF Idle, AuthReq, AuthStages, Revoking
  <2>3. req' = [Unclean(req, f) EXCEPT ![t] = q]
    BY <1>1
  <2> HIDE DEF q
  <2>4. /\ req' \in [Tabs -> AuthReq] /\ req'[t] = q
        /\ \A u \in Tabs \ {t} : req'[u] = [req[u] EXCEPT !.clean = req[u].clean \ {f}]
    BY <1>0, <2>2, <2>3 DEF Unclean, AuthTypes, AuthReq
  <2>5. \A u \in Tabs \ {t} :
          SameRequest(req[u], req'[u]) /\ req'[u].clean = req[u].clean \ {f}
    BY <1>0, <2>4 DEF AuthTypes, AuthReq, SameRequest
  <2> QED
    BY <2>2, <2>4, <2>5 DEF OthersKept
<1>3. /\ reuse => f \in causes'
      /\ k \notin stored => f \in causes'
      /\ k \in presented => f \in causes'
      /\ presented \subseteq presented' /\ causes \subseteq causes' /\ k \in presented'
  BY <1>0, <1>1 DEF CausesOK, Blamed
<1>r. req'[t].at \in {"family", "data"} /\ (req'[t].at = "family" => reuse)
  BY <1>2
<1>f. f = familyOf[k]
  OBVIOUS
<1>c. ASSUME NEW g \in sound
      PROVE  g = f /\ reuse /\ Listed(f) /\ \A u \in Tabs : ~FlightOf(req[u], f)
  <2>1. g = f /\ reuse /\ Listed(f) /\ InFlight(f) = {}
    OBVIOUS
  <2> HIDE DEF sound, reuse, f, k
  <2> QED
    BY <2>1 DEF InFlight, FlightOf
<1> HIDE DEF sound, reuse, f, k
<1>4. RequestOK(req[t])' /\ CauseOf(req[t])'
  BY <1>0, <1>2, <1>3, <1>r, <1>f DEF RequestOK, CauseOf, Revoking, Issued, BeforeList
<1>5. AuthTypes'
  BY <1>0, <1>2, <1>4, TypesKept
<1>6. CausesOK'
  <2>1. TokensGrow
    BY <1>0 DEF TokensGrow, Issued
  <2>2. ASSUME NEW u \in Tabs \ {t}, req[u].op = "refresh", req[u].tok = k
        PROVE  f \in causes' /\ req[u].fam \in causes'
    BY <1>0, <1>3, <1>f, <2>2 DEF CausesOK, CauseOf, AuthTypes, RequestOK
  <2>3. \A u \in Tabs \ {t} :
          req'[t].op = "refresh" /\ req[u].op = "refresh" /\ req'[t].tok = req[u].tok
            => req'[t].fam \in causes' /\ req[u].fam \in causes'
    BY <1>2, <2>2
  <2> QED
    BY <1>0, <1>2, <1>3, <1>4, <2>1, <2>3, CausesKept DEF Issued
<1>7. IndexOK'
  <2>1. req'[t].at \notin BeforeList
    BY <1>r DEF BeforeList
  <2> QED
    BY <1>0, <1>2, <1>r, <2>1, IndexQuiet
<1>u. \A u \in Tabs \ {t} : SameRequest(req[u], req'[u])
  BY <1>2 DEF OthersKept
<1>8. CleanOK'
  <2>1. ASSUME NEW u \in Tabs \ {t}, NEW g \in req'[u].clean
        PROVE  /\ g <= logins' /\ g # f
               /\ req'[u].op = "logoutAll" \/ (req'[u].op = "refresh" /\ req'[u].fam = g)
               /\ \A w \in Tabs \ {u} : ~FlightOf(req'[w], g)
               /\ req'[u].at \in Revoking \cup {"visit"} => Stored(g)' \subseteq Left(req[u], g)'
    <3>1. g \in req[u].clean /\ g # f
      BY <1>2, <2>1
    <3>2. \A w \in Tabs \ {u} : ~FlightOf(req'[w], g)
      BY <1>0, <1>2, <1>u, <3>1 DEF CleanOK, FlightOf, SameRequest
    <3>3. Stored(g)' = Stored(g) /\ Left(req[u], g)' = Left(req[u], g)
      BY <1>0, <1>u DEF Stored, Left, SameRequest
    <3> QED
      BY <1>0, <1>u, <3>1, <3>2, <3>3 DEF CleanOK, SameRequest
  <2>2. ASSUME NEW g \in req'[t].clean
        PROVE  /\ g <= logins' /\ req'[t].op = "refresh" /\ req'[t].fam = g
               /\ \A w \in Tabs \ {t} : ~FlightOf(req'[w], g)
               /\ Stored(g)' \subseteq Left(req[t], g)'
    <3>1. g = f /\ reuse /\ Listed(f) /\ \A u \in Tabs : ~FlightOf(req[u], f)
      BY <1>2, <1>c, <2>2
    <3>2. Listed(g) /\ req'[t].fam = g /\ req'[t].at = "family"
      BY <1>2, <3>1
    <3>3. Stored(g) \subseteq members[g] /\ Stored(g)' = Stored(g)
      BY <1>0, <3>2 DEF Listed, Stored
    <3>4. Left(req[t], g)' = members[g]
      BY <1>0, <3>2 DEF Left
    <3>5. \A w \in Tabs \ {t} : ~FlightOf(req'[w], g)
      BY <1>u, <3>1 DEF FlightOf, SameRequest
    <3>6. g <= logins'
      BY <1>0, <3>1
    <3> QED
      BY <1>2, <3>2, <3>3, <3>4, <3>5, <3>6
  <2> QED
    BY <2>1, <2>2 DEF CleanOK
<1>9. OverOK'
  <2>1. \A g \in over : ~Storing(req'[t], g)
    BY <1>r DEF Storing, BeforeList
  <2> QED
    BY <1>0, <1>2, <2>1, OverKept
<1> QED
  BY <1>5, <1>6, <1>7, <1>8, <1>9 DEF SessionInv

LEMMA LogoutAllKeeps == ASSUME SessionInv, NEW t \in Tabs, LogoutAll(t) PROVE SessionInv'
<1>1. /\ req[t].at = "idle" /\ causes' = causes \cup 1..logins
      /\ req' = [[u \in Tabs |-> [req[u] EXCEPT !.clean = {}]] EXCEPT
                   ![t] = [Idle EXCEPT !.op = "logoutAll",
                             !.at = "visit", !.keys = stored, !.clean = Undisturbed]]
      /\ UNCHANGED <<redisTokens, redisSessions, logins, clientVars, authFaults,
                     presented, over, ended>>
  BY DEF LogoutAll, ScanKeys
<1>0. /\ AuthTypes /\ CausesOK /\ IndexOK /\ CleanOK /\ OverOK
      /\ logins \in Nat /\ logins' \in Nat /\ logins <= logins'
      /\ UNCHANGED <<familyOf, members, stored, marked, logins, held, saved,
                     loginIndex, cached, listed, ended, over, presented>>
      /\ StoreTypes /\ Issued \subseteq Nat /\ \A k \in Issued : familyOf[k] \in 1..logins
      /\ stored \subseteq Issued /\ marked \subseteq Issued /\ cached \subseteq Families
      /\ listed \subseteq 1..logins /\ over \subseteq 1..logins /\ ended \subseteq 1..logins
      /\ loginIndex \in 0..logins
      /\ held \in [Tabs -> {0} \cup Issued] /\ saved \in {0} \cup Issued
  BY <1>1, SessionFacts DEF clientVars, redisSessions, redisTokens, AuthTypes
<1>c. ASSUME NEW f \in Undisturbed
      PROVE  f \in Families /\ f <= logins /\ Listed(f) /\ \A u \in Tabs : ~FlightOf(req[u], f)
  BY DEF Undisturbed, InFlight, FlightOf
<1>2. /\ req' \in [Tabs -> AuthReq] /\ OthersKept(t)
      /\ \A u \in Tabs \ {t} : req'[u].clean = {}
      /\ req'[t].op = "logoutAll" /\ req'[t].at = "visit" /\ req'[t].keys = stored
      /\ req'[t].clean = Undisturbed
  <2> DEFINE q == [Idle EXCEPT !.op = "logoutAll",
                             !.at = "visit", !.keys = stored, !.clean = Undisturbed]
  <2>1. Undisturbed \subseteq Families
    BY <1>c
  <2>2. /\ q \in AuthReq /\ q.op = "logoutAll" /\ q.at = "visit"
        /\ q.keys = stored /\ q.clean = Undisturbed
    BY <1>0, <2>1 DEF Idle, AuthReq, AuthStages
  <2>3. req' = [[u \in Tabs |-> [req[u] EXCEPT !.clean = {}]] EXCEPT ![t] = q]
    BY <1>1
  <2> HIDE DEF q
  <2>4. /\ req' \in [Tabs -> AuthReq] /\ req'[t] = q
        /\ \A u \in Tabs \ {t} : req'[u] = [req[u] EXCEPT !.clean = {}]
    BY <1>0, <2>2, <2>3 DEF AuthTypes, AuthReq
  <2>5. \A u \in Tabs \ {t} : SameRequest(req[u], req'[u]) /\ req'[u].clean = {}
    BY <1>0, <2>4 DEF AuthTypes, AuthReq, SameRequest
  <2> QED
    BY <2>2, <2>4, <2>5 DEF OthersKept
<1>3. RequestOK(req[t])' /\ CauseOf(req[t])'
  BY <1>0, <1>1, <1>2 DEF RequestOK, CauseOf, Revoking, Issued, BeforeList
<1>4. AuthTypes'
  BY <1>0, <1>2, <1>3, TypesKept
<1>5. CausesOK'
  BY <1>0, <1>1, <1>2, <1>3, CausesQuiet
<1>6. IndexOK'
  <2>1. req'[t].at \notin BeforeList
    BY <1>2 DEF BeforeList
  <2> QED
    BY <1>0, <1>2, <2>1, IndexQuiet
<1>7. CleanOK'
  <2>1. ASSUME NEW f \in Undisturbed
        PROVE  /\ f <= logins' /\ \A w \in Tabs \ {t} : ~FlightOf(req'[w], f)
               /\ Stored(f)' \subseteq Left(req[t], f)'
    <3>1. Stored(f) \subseteq stored \cap members[f]
      BY <1>c DEF Listed, Stored
    <3>2. Stored(f)' = Stored(f) /\ Left(req[t], f)' = stored \cap members[f]
      BY <1>0, <1>2 DEF Stored, Left
    <3> QED
      BY <1>0, <1>2, <1>c, <3>1, <3>2 DEF OthersKept, SameRequest, FlightOf
  <2> QED
    BY <1>2, <2>1 DEF CleanOK
<1>8. OverOK'
  <2>1. \A g \in over : ~Storing(req'[t], g)
    BY <1>2 DEF Storing
  <2> QED
    BY <1>0, <1>2, <2>1, OverKept
<1> QED
  BY <1>4, <1>5, <1>6, <1>7, <1>8 DEF SessionInv

LEMMA FamilyExpiresKeeps ==
  ASSUME SessionInv, NEW f \in Families, FamilyExpires(f) PROVE SessionInv'
<1>1. /\ members' = [members EXCEPT ![f] = {}] /\ req' = Unclean(req, f)
      /\ UNCHANGED <<stored, marked, familyOf, cached, listed, loginIndex, logins, held, saved,
                     presented, causes, over, ended>>
  BY DEF FamilyExpires, redisSessions, clientVars, histories
<1>0. /\ AuthTypes /\ CausesOK /\ IndexOK /\ CleanOK /\ OverOK /\ StoreTypes /\ logins \in Nat
  BY SessionAssumption DEF SessionInv, AuthTypes, StoreTypes
<1>2. /\ req' \in [Tabs -> AuthReq]
      /\ \A u \in Tabs : SameRequest(req[u], req'[u]) /\ req'[u].clean = req[u].clean \ {f}
  BY <1>0, <1>1 DEF Unclean, AuthTypes, AuthReq, SameRequest
<1>3. TokensGrow
  BY <1>0, <1>1 DEF TokensGrow, Issued
<1>4. AuthTypes'
  <2>1. ASSUME NEW u \in Tabs PROVE RequestOK(req[u])'
    <3>1. PICK r : r = req[u]
      OBVIOUS
    <3>2. PICK q : q = req'[u]
      OBVIOUS
    <3>3. RequestOK(q)'
      BY <1>0, <1>2, <1>3, <3>1, <3>2, RequestKept DEF AuthTypes
    <3> QED
      BY <3>2, <3>3
  <2>2. /\ members' \in [Families -> SUBSET Nat]
        /\ \A g \in Families : members'[g] \subseteq OfFamily(g)
    BY <1>0, <1>1 DEF StoreTypes
  <2>3. StoreTypes'
    BY <1>0, <1>1, <2>2 DEF StoreTypes, OfFamily, Issued
  <2> QED
    BY <1>2, <2>1, <2>3 DEF AuthTypes
<1>5. CausesOK'
  BY <1>0, <1>1, <1>2 DEF CausesOK, CauseOf, Blamed, SameRequest, Issued
<1>6. IndexOK'
  BY <1>0, <1>1, <1>2 DEF IndexOK, SameRequest, Unset, Unlisted
<1>7. CleanOK'
  <2>1. ASSUME NEW u \in Tabs, NEW g \in req'[u].clean
        PROVE  /\ g \in req[u].clean /\ g # f /\ g \in Families
    BY <1>0, <1>2, <2>1 DEF AuthTypes, AuthReq
  <2>2. ASSUME NEW u \in Tabs, NEW g \in req'[u].clean, req'[u].at \in Revoking \cup {"visit"}
        PROVE  Stored(g)' \subseteq Left(req[u], g)'
    <3>1. Stored(g) \subseteq Left(req[u], g) /\ SameRequest(req[u], req'[u])
      BY <1>0, <1>2, <2>1, <2>2 DEF CleanOK, SameRequest
    <3>2. members'[g] = members[g] /\ Stored(g)' = Stored(g)
      BY <1>0, <1>1, <2>1 DEF StoreTypes, Stored
    <3> QED
      BY <3>1, <3>2 DEF SameRequest, Left
  <2> QED
    BY <1>0, <1>1, <1>2, <2>1, <2>2 DEF CleanOK, SameRequest, FlightOf
<1>8. OverOK'
  BY <1>0, <1>1, <1>2 DEF OverOK, SameRequest, Storing, Stored
<1> QED
  BY <1>4, <1>5, <1>6, <1>7, <1>8 DEF SessionInv

LEMMA SessionStep == SessionInv /\ [SessionNext]_sessionVars => SessionInv'
<1> SUFFICES ASSUME SessionInv, [SessionNext]_sessionVars PROVE SessionInv'
  OBVIOUS
<1>1. CASE UNCHANGED sessionVars
  BY <1>1 DEF sessionVars, SessionInv, AuthTypes, StoreTypes, CausesOK, CauseOf, IndexOK,
     CleanOK, OverOK, RequestOK, OfFamily, Issued, Blamed, Stored, Left, Unset, Unlisted
<1>2. CASE \E f \in Families : FamilyExpires(f)
  BY <1>2, FamilyExpiresKeeps
<1>3. ASSUME NEW t \in Tabs,
             Login(t) \/ ReadSession(t) \/ SlideSession(t) \/ Unindex(t) \/ VerifyPassword(t)
               \/ ListSession(t) \/ SetIndex(t)
      PROVE  SessionInv'
  BY <1>3, LoginKeeps, ReadSessionKeeps, SlideSessionKeeps, UnindexKeeps, VerifyPasswordKeeps,
     ListSessionKeeps, SetIndexKeeps
<1>4. ASSUME NEW t \in Tabs,
             StoreToken(t) \/ JoinFamily(t) \/ Refresh(t) \/ ReadToken(t) \/ DeleteOld(t)
               \/ MarkOld(t) \/ Logout(t) \/ LogoutAll(t) \/ VisitKey(t)
      PROVE  SessionInv'
  BY <1>4, StoreTokenKeeps, JoinFamilyKeeps, RefreshKeeps, ReadTokenKeeps, DeleteOldKeeps,
     MarkOldKeeps, LogoutKeeps, LogoutAllKeeps, VisitKeyKeeps
<1>5. ASSUME NEW t \in Tabs,
             ReadFamily(t) \/ DeleteMember(t) \/ MarkMember(t) \/ DropFamily(t)
               \/ ReadSessions(t) \/ DeleteSessions(t) \/ PipelineFails(t) \/ DropIndex(t)
      PROVE  SessionInv'
  BY <1>5, ReadFamilyKeeps, DeleteMemberKeeps, MarkMemberKeeps, DropFamilyKeeps,
     ReadSessionsKeeps, DeleteSessionsKeeps, PipelineFailsKeeps, DropIndexKeeps
<1>6. ASSUME NEW t \in Tabs,
             SkipFamily(t) \/ RedisFails(t) \/ Answered(t) \/ AnswerLost(t) \/ LoadTokens(t)
      PROVE  SessionInv'
  BY <1>6, SkipFamilyKeeps, RedisFailsKeeps, AnsweredKeeps, AnswerLostKeeps, LoadTokensKeeps
<1> QED
  BY <1>1, <1>2, <1>3, <1>4, <1>5, <1>6 DEF SessionNext

LEMMA SessionInitOK == SessionInit => SessionInv
<1> SUFFICES ASSUME SessionInit PROVE SessionInv
  OBVIOUS
<1>1. /\ Idle \in AuthReq /\ Idle.op = "none" /\ Idle.at = "idle" /\ Idle.keys = {}
      /\ Idle.clean = {}
  BY DEF Idle, AuthReq, AuthStages
<1>2. /\ familyOf \in Seq(Families) /\ Issued = {} /\ 0 \in 0..MaxLogins /\ 0 \in 0..logins
  BY SessionAssumption DEF SessionInit, Issued
<1>3. /\ req \in [Tabs -> AuthReq] /\ \A t \in Tabs : req[t] = Idle
  BY <1>1 DEF SessionInit
<1>4. AuthTypes
  BY <1>1, <1>2, <1>3
     DEF SessionInit, AuthTypes, StoreTypes, RequestOK, BeforeList, Revoking, OfFamily
<1>5. CausesOK
  BY <1>1, <1>2, <1>3 DEF SessionInit, CausesOK, CauseOf, Revoking
<1>6. IndexOK
  BY <1>1, <1>3 DEF SessionInit, IndexOK, Unset, Unlisted, BeforeList
<1>7. CleanOK /\ OverOK
  BY <1>1, <1>3 DEF SessionInit, CleanOK, OverOK
<1> QED
  BY <1>4, <1>5, <1>6, <1>7 DEF SessionInv

(* A tab's token of a family that a logout-all or the reuse of a token has *)
(* ended cannot be exchanged, unless a rotation or login of that family    *)
(* overlapped it or its set had expired; and the login index never leads   *)
(* to a session that a logout-all has ended (routes/auth.ts:312,           *)
(* token-manager.ts:154, session-cache.ts).                                *)
THEOREM SignedOutStaysOutAlways == SessionSpec => []SignedOutStaysOut
<1>1. SessionInv => SignedOutStaysOut
  BY DEF SessionInv, AuthTypes, StoreTypes, IndexOK, OverOK, Stored, SignedOutStaysOut,
     OnlyOverlapsSurvive, EndedSessionsStayEnded
<1> QED
  BY <1>1, SessionInitOK, SessionStep, PTL DEF SessionSpec

(* A refresh is refused, which signs the tab out, only when a token of its *)
(* family was presented twice, the user logged out, or Redis failed        *)
(* (token-manager.ts, routes/auth.ts).                                     *)
THEOREM RefusedWithCauseAlways == SessionSpec => []RefusedWithCause
<1>1. SessionInv => RefusedWithCause
  BY DEF SessionInv, CausesOK, CauseOf, RefusedWithCause, At
<1> QED
  BY <1>1, SessionInitOK, SessionStep, PTL DEF SessionSpec

-----------------------------------------------------------------------------
(* The types of the components (ApiTypeOK)                                  *)

(* Requests to admin-users that were admitted and have not written.        *)
AtWork == {p \in People : act[p].at \in {"read", "write"}}

\* A late write was a decision, and so is each one under way.
ActsCounted ==
  /\ token \in [People -> Roles \cup {"NONE"}]
  /\ decisions \in 0..MaxDecisions
  /\ IsFiniteSet(AtWork) /\ lateActs + Cardinality(AtWork) <= decisions

(* One request less or one more is under way.                              *)
LEMMA AtWorkMoves ==
  ASSUME ActsOK, ActsCounted, NEW p \in People, NEW x \in Acts, act' = [act EXCEPT ![p] = x]
  PROVE  /\ IsFiniteSet(AtWork') /\ Cardinality(AtWork') \in Nat
         /\ Cardinality(AtWork) \in Nat
         /\ IF x.at \in {"read", "write"}
            THEN Cardinality(AtWork') = IF p \in AtWork THEN Cardinality(AtWork)
                                          ELSE Cardinality(AtWork) + 1
            ELSE Cardinality(AtWork') = IF p \in AtWork THEN Cardinality(AtWork) - 1
                                          ELSE Cardinality(AtWork)
         /\ Cardinality(AtWork') <= Cardinality(AtWork) + 1
         /\ p \in AtWork => Cardinality(AtWork') <= Cardinality(AtWork)
<1>1. act'[p] = x /\ \A q \in People : q # p => act'[q] = act[q]
  BY DEF ActsOK
<1>2. CASE x.at \in {"read", "write"}
  <2>1. AtWork' = AtWork \cup {p}
    BY <1>1, <1>2 DEF AtWork
  <2>2. /\ IsFiniteSet(AtWork) /\ IsFiniteSet(AtWork')
        /\ Cardinality(AtWork') = IF p \in AtWork THEN Cardinality(AtWork)
                                  ELSE Cardinality(AtWork) + 1
    BY <2>1, FS_AddElement DEF ActsCounted
  <2>3. Cardinality(AtWork) \in Nat /\ Cardinality(AtWork') \in Nat
    BY <2>2, FS_CardinalityType
  <2> QED
    BY <1>2, <2>2, <2>3
<1>3. CASE x.at \notin {"read", "write"}
  <2>1. AtWork' = AtWork \ {p}
    BY <1>1, <1>3 DEF AtWork
  <2>2. /\ IsFiniteSet(AtWork) /\ IsFiniteSet(AtWork')
        /\ Cardinality(AtWork') = IF p \in AtWork THEN Cardinality(AtWork) - 1
                                  ELSE Cardinality(AtWork)
    BY <2>1, FS_RemoveElement DEF ActsCounted
  <2>3. Cardinality(AtWork) \in Nat /\ Cardinality(AtWork') \in Nat
    BY <2>2, FS_CardinalityType
  <2> QED
    BY <1>3, <2>2, <2>3
<1> QED
  BY <1>2, <1>3

(* A step keeps the count of the decisions.                                *)
LEMMA CountedStep == ActsOK /\ ActsCounted /\ [AccountNext]_accountVars => ActsCounted'
<1> SUFFICES ASSUME ActsOK, ActsCounted, [AccountNext]_accountVars PROVE ActsCounted'
  OBVIOUS
<1>0. /\ Quiet \in Acts /\ Quiet.at = "idle" /\ lateActs \in Nat /\ decisions \in Nat
      /\ MaxDecisions \in Nat
  BY QuietIsRequest, AccountAssumption DEF ActsOK, ActsCounted
<1>1. CASE UNCHANGED accountVars
  BY <1>1 DEF accountVars, ActsCounted, AtWork
<1>2. ASSUME NEW p \in People, CountAdmins(p) PROVE ActsCounted'
  <2>1. PICK x \in Acts : act' = [act EXCEPT ![p] = x] /\ x.at = "insert"
    <3>1. PICK r \in Roles, s \in Statuses :
            act' = [act EXCEPT ![p] = [Quiet EXCEPT !.op = "register", !.at = "insert",
                                                    !.on = [role |-> r, status |-> s]]]
      BY <1>2 DEF CountAdmins, Statuses
    <3>2. [role |-> r, status |-> s] \in Rows
      BY DEF Rows
    <3> QED
      BY <3>1, <3>2, Registering
  <2>2. UNCHANGED <<token, decisions, lateActs>> /\ p \notin AtWork
    BY <1>2 DEF CountAdmins, AtWork
  <2> QED
    BY <1>0, <2>1, <2>2, AtWorkMoves DEF ActsCounted
<1>3. ASSUME NEW p \in People, Register(p) PROVE ActsCounted'
  <2>1. /\ act' = [act EXCEPT ![p] = Quiet] /\ p \notin AtWork
        /\ UNCHANGED <<decisions, lateActs>> /\ token' = [token EXCEPT ![p] = act[p].on.role]
    BY <1>3 DEF Register, AtWork
  <2>2. act[p].on.role \in Roles
    BY DEF ActsOK, Acts, Rows
  <2> QED
    BY <1>0, <2>1, <2>2, AtWorkMoves DEF ActsCounted
<1>4. ASSUME NEW p \in People, SignIn(p) PROVE ActsCounted'
  <2>1. account[p].role \in Roles
    BY DEF ActsOK, Rows
  <2> QED
    BY <1>4, <2>1 DEF SignIn, ActsCounted, AtWork
<1>5. ASSUME NEW p \in People, Admitted(p) PROVE ActsCounted'
  <2>1. PICK q \in People, op \in {"approve", "reject"} \cup Roles :
          act' = [act EXCEPT ![p] = [Quiet EXCEPT !.op = op, !.at = "read", !.about = q]]
    BY <1>5 DEF Admitted
  <2>2. PICK x \in Acts : act' = [act EXCEPT ![p] = x]
    BY <1>0, <2>1 DEF Acts, AccountOps
  <2>3. p \notin AtWork /\ decisions < MaxDecisions /\ decisions' = decisions + 1
        /\ UNCHANGED <<token, lateActs>>
    BY <1>5 DEF Admitted, AtWork
  <2>4. IsFiniteSet(AtWork') /\ Cardinality(AtWork') \in Nat /\ Cardinality(AtWork) \in Nat
        /\ Cardinality(AtWork') <= Cardinality(AtWork) + 1
    BY <2>2, <2>3, AtWorkMoves
  <2> QED
    BY <1>0, <2>3, <2>4 DEF ActsCounted
<1>6. ASSUME NEW p \in People, ReadAccount(p) PROVE ActsCounted'
  <2>1. PICK x \in Acts : act' = [act EXCEPT ![p] = x]
    <3>1. act[p] \in Acts /\ act[p].about \in People
      BY <1>6 DEF ReadAccount, ActsOK
    <3>2. account[act[p].about] \in Rows
      BY <3>1 DEF ActsOK
    <3>3. CASE act' = [act EXCEPT ![p] = Quiet]
      BY <1>0, <3>3
    <3>4. CASE act' = [act EXCEPT ![p].at = "write", ![p].on = account[act[p].about]]
      <4>1. act' = [act EXCEPT ![p] = [act[p] EXCEPT !.at = "write", !.on = account[act[p].about]]]
        BY <3>4 DEF ActsOK
      <4>2. [act[p] EXCEPT !.at = "write", !.on = account[act[p].about]] \in Acts
        BY <3>1, <3>2 DEF Acts
      <4> QED
        BY <4>1, <4>2
    <3> QED
      BY <1>6, <3>3, <3>4 DEF ReadAccount
  <2>2. p \in AtWork /\ UNCHANGED <<token, decisions, lateActs>>
    BY <1>6 DEF ReadAccount, AtWork
  <2>3. IsFiniteSet(AtWork') /\ Cardinality(AtWork') \in Nat /\ Cardinality(AtWork) \in Nat
        /\ Cardinality(AtWork') <= Cardinality(AtWork)
    BY <2>1, <2>2, AtWorkMoves
  <2> QED
    BY <1>0, <2>2, <2>3 DEF ActsCounted
<1>7. ASSUME NEW p \in People, WriteAccount(p) PROVE ActsCounted'
  <2>1. /\ act' = [act EXCEPT ![p] = Quiet] /\ p \in AtWork
        /\ UNCHANGED <<token, decisions>> /\ lateActs' \in {lateActs, lateActs + 1}
    BY <1>7 DEF WriteAccount, AtWork
  <2>2. IsFiniteSet(AtWork') /\ Cardinality(AtWork') \in Nat /\ Cardinality(AtWork) \in Nat
        /\ Cardinality(AtWork') = Cardinality(AtWork) - 1
    BY <1>0, <2>1, AtWorkMoves
  <2> QED
    BY <1>0, <2>1, <2>2 DEF ActsCounted
<1> QED
  BY <1>1, <1>2, <1>3, <1>4, <1>5, <1>6, <1>7 DEF AccountNext

(* Accounts, tokens and roles are of their types, and an admin who has     *)
(* lost the role writes at most once for each decision that was admitted   *)
(* (admin-users.ts).                                                       *)
THEOREM AccountTypesAlways == AccountSpec => []AccountTypeOK
<1>1. AccountInit => ActsCounted
  <2> SUFFICES ASSUME AccountInit PROVE ActsCounted
    OBVIOUS
  <2>1. AtWork = {}
    BY DEF AccountInit, AtWork, Quiet
  <2> QED
    BY <2>1, FS_EmptySet, AccountAssumption DEF AccountInit, ActsCounted
<1>2. ActsOK /\ ActsCounted => AccountTypeOK
  <2> SUFFICES ASSUME ActsOK, ActsCounted PROVE AccountTypeOK
    OBVIOUS
  <2>1. Cardinality(AtWork) \in Nat /\ lateActs \in Nat
    BY FS_CardinalityType DEF ActsOK, ActsCounted
  <2>2. lateActs \in 0..MaxDecisions
    BY <2>1, AccountAssumption DEF ActsCounted
  <2> QED
    BY <2>2 DEF ActsOK, ActsCounted, AccountTypeOK, Rows, Statuses
<1> QED
  BY <1>1, <1>2, ActsInit, ActsStep, CountedStep, PTL DEF AccountSpec

\* The rows of an exam, and that every entry on an old reading is one of its attempts.
EntryBounds ==
  /\ exam \in {"draft", "published", "gone"}
  /\ begun \in 0..MaxEntries /\ stale \in 0..begun

(* Every step keeps them.                                                  *)
LEMMA BoundsOfEntry == EntryInv /\ EntryBounds /\ [EntryNext]_entryVars => EntryBounds'
<1> SUFFICES ASSUME EntryInv, EntryBounds, [EntryNext]_entryVars PROVE EntryBounds'
  OBVIOUS
<1>1. CASE UNCHANGED <<exam, begun, stale>>
  BY <1>1 DEF EntryBounds
<1>2. CASE UNCHANGED entryVars \/ AttemptOver
  BY <1>1, <1>2 DEF entryVars, entryPast, AttemptOver
<1>3. ASSUME NEW h \in Requests,
             \/ StartAttempt(h) \/ ReadAttempts(h) \/ AcceptInvite(h) \/ ReadAnyAttempt(h)
             \/ MarkUsed(h) \/ Publish(h) \/ Unpublish(h) \/ CreateInvite(h) \/ InsertInvite(h)
             \/ DeleteExam(h) \/ CountAttempts(h) \/ SweepInvites(h) \/ RequestFails(h)
      PROVE  EntryBounds'
  BY <1>1, <1>3 DEF StartAttempt, ReadAttempts, AcceptInvite, ReadAnyAttempt, MarkUsed, Publish,
     Unpublish, CreateInvite, InsertInvite, DeleteExam, CountAttempts, SweepInvites,
     RequestFails, rows, entryPast
<1>4. ASSUME NEW h \in Requests, InsertAttempt(h) PROVE EntryBounds'
  <2>1. CASE exam = "gone"
    BY <1>1, <1>4, <2>1 DEF InsertAttempt
  <2>2. CASE exam # "gone"
    <3>1. /\ begun < MaxEntries /\ begun' = begun + 1 /\ exam' = exam
          /\ stale' \in {stale, stale + 1}
      BY <1>4, <2>2 DEF InsertAttempt
    <3> QED
      BY <3>1, EntryAssumption DEF EntryBounds
  <2> QED
    BY <2>1, <2>2
<1>5. ASSUME NEW h \in Requests, SetPublished(h) \/ DropExam(h) PROVE EntryBounds'
  BY <1>5 DEF SetPublished, DropExam, EntryBounds, entryPast
<1> QED
  BY <1>2, <1>3, <1>4, <1>5 DEF EntryNext

(* The exam, its invitations and attempts are of their types; no more      *)
(* entries are late than there are attempts (attempts.ts, exams.ts).       *)
THEOREM EntryTypesAlways == EntrySpec => []EntryTypeOK
<1>1. EntryInit => EntryBounds
  BY EntryAssumption DEF EntryInit, EntryBounds
<1>2. EntryInv /\ EntryBounds => EntryTypeOK
  BY DEF EntryInv, EntryOK, MarksKept, EntryBounds, EntryTypeOK
<1> QED
  BY <1>1, <1>2, EntryStart, EntryStep, BoundsOfEntry, PTL DEF EntrySpec

\* The timers, the lock and the row are of runs that were started.
RunBounds ==
  /\ ref \in 0..clicks /\ timers \subseteq 1..clicks
  /\ lock \in 0..clicks /\ row.job \in 0..clicks

(* Runs with a request were started.                                       *)
LEMMA RunsAreOn ==
  ASSUME RunsOK
  PROVE  clicks \in Nat /\ jobs \subseteq 1..clicks
         /\ \A r \in Clicks : request[r] # "none" => r \in 1..clicks
<1>1. clicks \in Nat /\ \A r \in Clicks : r \in Nat /\ r >= 1
  BY RunAssumption DEF RunsOK, PageOK, Clicks
<1>2. \A r \in Clicks : request[r] # "none" => r \in 1..clicks
  BY <1>1 DEF RunsOK, RequestsOK
<1> QED
  BY <1>1, <1>2 DEF RunsOK, RequestsOK

(* Stopping the run keeps them.                                            *)
LEMMA StopBounds ==
  ASSUME RunsOK, RunBounds, StopRun \/ UNCHANGED page
  PROVE  ref' \in 0..clicks /\ timers' \subseteq 1..clicks
<1>1. clicks \in Nat
  BY RunsAreOn
<1>2. ref' \in {ref, 0} /\ timers' \subseteq timers
  BY DEF StopRun, page
<1> QED
  BY <1>1, <1>2 DEF RunBounds

(* Every step keeps them.                                                  *)
LEMMA BoundsOfRuns == RunsOK /\ RunBounds /\ [RunNext]_runVars => RunBounds'
<1> SUFFICES ASSUME RunsOK, RunBounds, [RunNext]_runVars PROVE RunBounds'
  OBVIOUS
<1>0. /\ clicks \in Nat /\ jobs \subseteq 1..clicks
      /\ \A r \in Clicks : request[r] # "none" => r \in 1..clicks
  BY RunsAreOn
<1>1. CASE UNCHANGED <<clicks, ref, timers, lock, row>>
  BY <1>1 DEF RunBounds
<1>2. CASE Click
  <2>1. /\ clicks' = clicks + 1 /\ ref' = 0 /\ timers' \subseteq timers
        /\ UNCHANGED <<lock, row>>
    BY <1>2 DEF Click
  <2>2. \A n \in 0..clicks : n \in 0..clicks'
    BY <1>0, <2>1
  <2>3. \A n \in 1..clicks : n \in 1..clicks'
    BY <1>0, <2>1
  <2>4. 0 \in 0..clicks'
    BY <1>0, <2>1
  <2> QED
    BY <2>1, <2>2, <2>3, <2>4 DEF RunBounds
<1>3. ASSUME NEW r \in Clicks, TakeLock(r) PROVE RunBounds'
  <2>1. request[r] = "lock" /\ lock' \in {lock, r} /\ UNCHANGED <<clicks, ref, timers, row>>
    BY <1>3 DEF TakeLock, Stands, page
  <2>2. r \in 0..clicks
    BY <1>0, <2>1
  <2> QED
    BY <2>1, <2>2 DEF RunBounds
<1>4. ASSUME NEW r \in Clicks, QueueRun(r) PROVE RunBounds'
  <2>1. lock' \in {lock, 0} /\ UNCHANGED <<clicks, ref, timers, row>>
    BY <1>4 DEF QueueRun, Unlock, page
  <2> QED
    BY <1>0, <2>1 DEF RunBounds
<1>5. ASSUME NEW r \in Clicks, RunQueued(r) PROVE RunBounds'
  <2>1. /\ request[r] = "queued" /\ ref' = r /\ timers' = timers \cup {r}
        /\ UNCHANGED <<clicks, lock, row>>
    BY <1>5 DEF RunQueued, Stands
  <2>2. r \in 1..clicks
    BY <1>0, <2>1
  <2> QED
    BY <1>0, <2>1, <2>2 DEF RunBounds
<1>6. ASSUME NEW r \in Clicks, Refused(r) PROVE RunBounds'
  <2>1. ref' \in 0..clicks /\ timers' \subseteq 1..clicks /\ UNCHANGED <<clicks, lock, row>>
    BY <1>6, StopBounds DEF Refused
  <2> QED
    BY <2>1 DEF RunBounds
<1>7. ASSUME NEW r \in Clicks, TimesOut(r) PROVE RunBounds'
  <2>1. /\ ref' \in {ref, 0} /\ timers' \subseteq timers /\ UNCHANGED <<clicks, lock, row>>
    BY <1>7 DEF TimesOut
  <2> QED
    BY <1>0, <2>1 DEF RunBounds
<1>8. ASSUME NEW q \in polls, PollAnswered(q) PROVE RunBounds'
  <2>1. ref' \in 0..clicks /\ timers' \subseteq 1..clicks /\ UNCHANGED <<clicks, lock, row>>
    BY <1>8, StopBounds DEF PollAnswered, ShowResult
  <2> QED
    BY <2>1 DEF RunBounds
<1>9. ASSUME NEW x \in Replicas, NEW j \in Clicks, HandleComplete(x, j) PROVE RunBounds'
  <2>1. /\ ref' \in 0..clicks /\ timers' \subseteq 1..clicks
        /\ UNCHANGED <<clicks, row>> /\ lock' = 0
    BY <1>9, StopBounds DEF HandleComplete, ShowResult, Unlock
  <2> QED
    BY <1>0, <2>1 DEF RunBounds
<1>10. CASE LockExpires
  <2>1. lock' = 0 /\ UNCHANGED <<clicks, ref, timers, row>>
    BY <1>10 DEF LockExpires, Unlock, page
  <2> QED
    BY <1>0, <2>1 DEF RunBounds
<1>11. ASSUME NEW j \in Clicks, Graded(j) PROVE RunBounds'
  <2>1. j \in jobs /\ row'.job = j /\ UNCHANGED <<clicks, ref, timers, lock>>
    BY <1>11 DEF Graded, page
  <2> QED
    BY <1>0, <2>1 DEF RunBounds
<1>12. ASSUME NEW r \in Clicks, SendPoll(r) \/ JobLost(r) PROVE RunBounds'
  BY <1>1, <1>12 DEF SendPoll, JobLost, page
<1>13. CASE UNCHANGED runVars
  BY <1>1, <1>13 DEF runVars
<1> QED
  BY <1>2, <1>3, <1>4, <1>5, <1>6, <1>7, <1>8, <1>9, <1>10, <1>11, <1>12, <1>13 DEF RunNext

(* Requests are where their handlers can be, and timers, lock, jobs and    *)
(* row are of runs that were started (page.tsx, attempts.ts).              *)
THEOREM RunTypesAlways == RunSpec => []RunTypeOK
<1>1. RunInit => RunBounds
  BY DEF RunInit, RunBounds
<1>2. RunsOK /\ RunBounds => RunTypeOK
  <2> SUFFICES ASSUME RunsOK, RunBounds PROVE RunTypeOK
    OBVIOUS
  <2> QED
    BY RunsAreOn DEF RunsOK, PageOK, RequestsOK, RunBounds, RunTypeOK
<1> QED
  BY <1>1, <1>2, RunsInit, RunsStep, BoundsOfRuns, PTL DEF RunSpec

(* The record's counters are numbers, its status that of an attempt        *)
(* (proctorService.ts).                                                    *)
THEOREM LogTypesAlways == LogSpec => []LogTypeOK
<1>1. LogInv => LogTypeOK
  BY DEF LogInv, LogCounts, LogTypeOK
<1> QED
  BY <1>1, LogInitOK, LogStep, PTL DEF LogSpec

(* The streams the page knows were granted, and asked for in its stays     *)
(* (page.tsx).                                                             *)
THEOREM ScreenTypesAlways == ScreenSpec => []ScreenTypeOK
<1>1. ScreenInv => ScreenTypeOK
  BY DEF ScreenInv, ScreenTypes
<1> QED
  BY <1>1, ScreenInitOK, ScreenStep, PTL DEF ScreenSpec

(* Tokens that are stored or marked were issued, the members of a family   *)
(* are its own, and sessions are of logins (token-manager.ts).             *)
THEOREM SessionTypesAlways == SessionSpec => []SessionTypeOK
<1>1. SessionInv => SessionTypeOK
  <2> SUFFICES ASSUME SessionInv PROVE SessionTypeOK
    OBVIOUS
  <2>1. StoreTypes
    BY DEF SessionInv, AuthTypes
  <2>2. 1..logins \subseteq Families
    <3>1. logins \in 0..MaxLogins
      BY <2>1 DEF StoreTypes
    <3> QED
      BY <3>1, SessionAssumption DEF Families
  <2> QED
    BY <2>1, <2>2 DEF StoreTypes, OfFamily, SessionTypeOK
<1> QED
  BY <1>1, SessionInitOK, SessionStep, PTL DEF SessionSpec

-----------------------------------------------------------------------------
(* The components taken together (MCApiState)                               *)

\* A behaviour of the composition is one of every component.
LEMMA ApiParts ==
  ApiSpec => /\ SessionSpec /\ EntrySpec /\ AccountSpec /\ RunSpec
             /\ LogSpec /\ PageSpec /\ KeySpec /\ ScreenSpec
<1>1. ApiInit => /\ SessionInit /\ EntryInit /\ AccountInit /\ RunInit
                 /\ LogInit /\ PageInit /\ KeyInit /\ ScreenInit
  BY DEF ApiInit
<1> USE DEF ApiNext, apiVars, captureVars
<1>2. [ApiNext]_apiVars => [SessionNext]_sessionVars
  OBVIOUS
<1>3. [ApiNext]_apiVars => [EntryNext]_entryVars
  OBVIOUS
<1>4. [ApiNext]_apiVars => [AccountNext]_accountVars
  OBVIOUS
<1>5. [ApiNext]_apiVars => [RunNext]_runVars
  OBVIOUS
<1>6. [ApiNext]_apiVars => [LogNext]_logVars
  OBVIOUS
<1>7. [ApiNext]_apiVars => [PageNext]_pageVars
  OBVIOUS
<1>8. [ApiNext]_apiVars => [KeyNext]_keyVars
  OBVIOUS
<1>9. [ApiNext]_apiVars => [ScreenNext]_screenVars
  OBVIOUS
<1> HIDE DEF ApiNext, apiVars, captureVars
<1> QED
  BY <1>1, <1>2, <1>3, <1>4, <1>5, <1>6, <1>7, <1>8, <1>9, PTL
     DEF ApiSpec, SessionSpec, EntrySpec, AccountSpec, RunSpec, LogSpec, PageSpec, KeySpec,
         ScreenSpec

\* Whichever component runs, what it has is of its types, and its counters are in range.
THEOREM ApiTypesAlways == ApiSpec => []ApiTypeOK
<1> DEFINE All == /\ SessionTypeOK /\ EntryTypeOK /\ AccountTypeOK /\ RunTypeOK
                  /\ LogTypeOK /\ PageTypeOK /\ KeyTypeOK /\ ScreenTypeOK
           Part == part \in Parts
<1>1. Part /\ All => ApiTypeOK
  BY DEF Parts, ApiTypeOK
<1>2. ApiInit => Part
  BY DEF ApiInit
<1>3. Part /\ [ApiNext]_apiVars => Part'
  BY DEF ApiNext, apiVars
<1> QED
  BY <1>1, <1>2, <1>3, ApiParts, SessionTypesAlways, EntryTypesAlways, AccountTypesAlways,
     RunTypesAlways, LogTypesAlways, PageTypesAlways, KeyTypesAlways, ScreenTypesAlways, PTL
     DEF ApiSpec

\* What the components promise, each on its own, holds of them together.
THEOREM ApiSafe ==
  ApiSpec => /\ []SignedOutStaysOut /\ []RefusedWithCause /\ []EntriesExplained
             /\ []DecisionsKept /\ []OneTestRun /\ []RunsExplained /\ []RecordAgrees
             /\ []CapturesExplained /\ []KeystrokesKept /\ []EditsAccounted /\ AdminsRemain
BY ApiParts, SignedOutStaysOutAlways, RefusedWithCauseAlways, EntriesExplainedAlways,
   DecisionsKeptAlways, OneTestRunAlways, RunsExplainedAlways, RecordAgreesAlways,
   CapturesExplainedAlways, KeystrokesKeptAlways, EditsAccountedAlways, AdminsRemainAlways

=============
