--------------------------- MODULE PooledResource ---------------------------
(***************************************************************************)
(* What every pool of the grader promises, whatever it pools (networks,    *)
(* containers): a resource is idle in the pool, or with one user, or       *)
(* neither; it passes from one user to the next only through the pool.     *)
(***************************************************************************)
EXTENDS Naturals, FiniteSets

CONSTANTS Resource,  \* names of networks or of containers
          User       \* phases of gradings, and the goroutines that warm pools

VARIABLES idle,      \* resources that wait in the pool
          users      \* users[r]: who works with r

poolVars == <<idle, users>>

PoolInit ==
  /\ idle = {}
  /\ users = [r \in Resource |-> {}]

\* u creates r, or takes it from the pool
Obtain(u, r) ==
  /\ users[r] = {}
  /\ idle' = idle \ {r}
  /\ users' = [users EXCEPT ![r] = {u}]

\* u puts r back for the next user
Return(u, r) ==
  /\ users[r] = {u}
  /\ idle' = idle \cup {r}
  /\ users' = [users EXCEPT ![r] = {}]

\* u gives r up for good
Discard(u, r) ==
  /\ users[r] = {u}
  /\ users' = [users EXCEPT ![r] = {}]
  /\ UNCHANGED idle

\* the pool removes a resource that nobody uses
Remove(r) ==
  /\ r \in idle
  /\ idle' = idle \ {r}
  /\ UNCHANGED users

\* the process ends: nothing of the pool remains
Forget ==
  /\ idle' = {}
  /\ users' = [r \in Resource |-> {}]

\* the first conjunct only spares TLC the steps that leave the pool as it is
PoolNext ==
  /\ poolVars' # poolVars
  /\ \/ \E u \in User, r \in Resource : Obtain(u, r) \/ Return(u, r) \/ Discard(u, r)
     \/ \E r \in Resource : Remove(r)
     \/ Forget

PoolSpec == PoolInit /\ [][PoolNext]_poolVars

\* Exclusive use: nobody else works with a resource, and it is not offered.
Exclusive ==
  \A r \in Resource : Cardinality(users[r]) =< 1 /\ (r \in idle => users[r] = {})
=============================================================================
