------------------------------ MODULE Accounts ------------------------------
(***************************************************************************)
(* The accounts of the platform: registration (apps/api routes/auth.ts),   *)
(* the role check of middleware/auth.ts and the decisions an administrator *)
(* takes (routes/admin-users.ts).  The role of a request is the one in its *)
(* token, the approval is read from the row before the handler, and the    *)
(* handler reads and writes the row of the account it is about: four       *)
(* moments with other requests between them.                               *)
(***************************************************************************)
EXTENDS Naturals, FiniteSets

CONSTANTS People,
          Bootstrap,  \* ALLOW_FIRST_ADMIN_BOOTSTRAP
          MaxDecisions  \* bound: admin requests ever made

ASSUME AccountAssumption == MaxDecisions \in Nat

Roles == {"ADMIN", "REVIEWER", "CANDIDATE"}
NoAccount == [role |-> "CANDIDATE", status |-> "NONE"]

VARIABLES account,   \* [People -> row of users]
          token,     \* [People -> role in the person's JWT, or "NONE"]
          act,       \* [People -> the person's request to admin-users]
          decisions,
          ruling,    \* history: status each account's last decision gave it
          muddled,   \* history: accounts whose role change read an old status
          lateActs   \* history: writes by one no longer an approved admin

accountVars == <<account, token, act, decisions, ruling, muddled, lateActs>>

Quiet == [op |-> "none", at |-> "idle", on |-> NoAccount, about |-> "nobody"]

AccountInit ==
    /\ account = [p \in People |-> NoAccount]
    /\ token = [p \in People |-> "NONE"]
    /\ act = [p \in People |-> Quiet]
    /\ decisions = 0
    /\ ruling = [p \in People |-> "NONE"]
    /\ muddled = {} /\ lateActs = 0

ApprovedAdmins ==
    {p \in People : account[p].role = "ADMIN" /\ account[p].status = "APPROVED"}
-----------------------------------------------------------------------------
(* Registration: candidates are approved; an admin is if the count of      *)
(* approved admins, read before the insertion, was zero and the bootstrap  *)
(* is allowed; anybody else waits.                                         *)
CountAdmins(p) ==
    /\ account[p].status = "NONE" /\ act[p].at = "idle"
    /\ \E r \in Roles :
          LET s == IF r = "CANDIDATE" \/ (r = "ADMIN" /\ Bootstrap /\ ApprovedAdmins = {})
                   THEN "APPROVED" ELSE "PENDING"
          IN  act' = [act EXCEPT ![p] = [Quiet EXCEPT !.op = "register", !.at = "insert",
                                           !.on = [role |-> r, status |-> s]]]
    /\ UNCHANGED <<account, token, decisions, ruling, muddled, lateActs>>

Register(p) ==
    /\ act[p].op = "register" /\ act[p].at = "insert"
    /\ account' = [account EXCEPT ![p] = act[p].on]
    /\ token' = [token EXCEPT ![p] = act[p].on.role]
    /\ ruling' = [ruling EXCEPT ![p] = act[p].on.status]
    /\ act' = [act EXCEPT ![p] = Quiet]
    /\ UNCHANGED <<decisions, muddled, lateActs>>

(* A login puts the role of the row into the token; until the next one the *)
(* token keeps it.                                                         *)
SignIn(p) ==
    /\ account[p].status # "NONE"
    /\ token' = [token EXCEPT ![p] = account[p].role]
    /\ UNCHANGED <<account, act, decisions, ruling, muddled, lateActs>>

(* Variant: one may decide about oneself.                                  *)
AdmittedToSelf(p) ==
    /\ act[p].at = "idle" /\ token[p] = "ADMIN" /\ decisions < MaxDecisions
    /\ account[p].status = "APPROVED"
    /\ \E q \in People, op \in {"approve", "reject"} \cup Roles :
          act' = [act EXCEPT ![p] = [Quiet EXCEPT !.op = op, !.at = "read", !.about = q]]
    /\ decisions' = decisions + 1
    /\ UNCHANGED <<account, token, ruling, muddled, lateActs>>

(* requireRole('ADMIN'): the token's role, and the row's status.           *)
Admitted(p) ==
    /\ act[p].at = "idle" /\ token[p] = "ADMIN" /\ decisions < MaxDecisions
    /\ account[p].status = "APPROVED"
    /\ \E q \in People, op \in {"approve", "reject"} \cup Roles :
          /\ q # p
          /\ act' = [act EXCEPT ![p] = [Quiet EXCEPT !.op = op, !.at = "read", !.about = q]]
    /\ decisions' = decisions + 1
    /\ UNCHANGED <<account, token, ruling, muddled, lateActs>>

(* The row of the other account is read; a decision already taken is       *)
(* refused.                                                                *)
ReadAccount(p) ==
    LET q == act[p].about IN
    /\ act[p].at = "read"
    /\ IF \/ account[q].status = "NONE"
          \/ act[p].op = "approve" /\ account[q].status = "APPROVED"
          \/ act[p].op = "reject" /\ account[q].status = "REJECTED"
       THEN act' = [act EXCEPT ![p] = Quiet]
       ELSE act' = [act EXCEPT ![p].at = "write", ![p].on = account[q]]
    /\ UNCHANGED <<account, token, decisions, ruling, muddled, lateActs>>

(* A candidate made admin or reviewer waits for approval; any other change *)
(* of role writes back the status that was read.                           *)
NeedsApproval(p) ==
    act[p].op \in {"ADMIN", "REVIEWER"} /\ act[p].on.role = "CANDIDATE"

(* Variant: every change of role waits for approval again.                 *)
NewStatusAlways(p) ==
    CASE act[p].op = "approve" -> "APPROVED"
      [] act[p].op = "reject" -> "REJECTED"
      [] OTHER -> "PENDING"

NewStatus(p) ==
    CASE act[p].op = "approve" -> "APPROVED"
      [] act[p].op = "reject" -> "REJECTED"
      [] NeedsApproval(p) -> "PENDING"
      [] OTHER -> act[p].on.status

WriteAccount(p) ==
    LET q == act[p].about
        rules == act[p].op \notin Roles \/ NeedsApproval(p)
    IN  /\ act[p].at = "write"
        /\ account' = [account EXCEPT
                         ![q].role = IF act[p].op \in Roles THEN act[p].op ELSE @,
                         ![q].status = NewStatus(p)]
        /\ ruling' = [ruling EXCEPT ![q] = IF rules THEN NewStatus(p) ELSE @]
        /\ muddled' = IF rules THEN muddled \ {q}
                      ELSE muddled \cup {r \in {q} : account[r].status # act[p].on.status}
        /\ lateActs' = IF p \in ApprovedAdmins THEN lateActs ELSE lateActs + 1
        /\ act' = [act EXCEPT ![p] = Quiet]
        /\ UNCHANGED <<token, decisions>>

AccountNext ==
    \E p \in People : \/ CountAdmins(p) \/ Register(p) \/ SignIn(p)
                      \/ Admitted(p) \/ ReadAccount(p) \/ WriteAccount(p)

AccountSpec == AccountInit /\ [][AccountNext]_accountVars
-----------------------------------------------------------------------------
AccountTypeOK ==
    /\ account \in [People -> [role : Roles,
                               status : {"NONE", "PENDING", "APPROVED", "REJECTED"}]]
    /\ token \in [People -> Roles \cup {"NONE"}]
    /\ lateActs \in 0..MaxDecisions

(* An approval or rejection lasts until the next decision, unless a change *)
(* of role had read the row before and wrote the older status back         *)
(* (admin-users.ts:234 reads, 248 writes).                                 *)
DecisionsKept ==
    \A p \in People : p \notin muddled => account[p].status = ruling[p]

(* Administrators that have been there do not all lose their accounts by   *)
(* each other's decisions, as long as each still was an approved admin     *)
(* when its decision was written: the check of the caller's own id keeps   *)
(* the last one.                                                           *)
AdminsRemain ==
    [][ApprovedAdmins # {} /\ ApprovedAdmins' = {} => lateActs' > lateActs]_accountVars
=============================================================================
