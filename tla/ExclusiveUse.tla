---------------------------- MODULE ExclusiveUse ----------------------------
(***************************************************************************)
(* What the gateway's instance pool promises its callers, with no          *)
(* functions, leases or locks: a runtime instance serves one user at a     *)
(* time, and once it has been retired from the pool no new user gets it.   *)
(* A user that already holds a retired instance may go on using it (the    *)
(* gateway stops instances under their users) and leaves when it is done.  *)
(***************************************************************************)
CONSTANTS Users,       \* callers: HTTP requests and MQ workers
          Instances,   \* runtime instances
          Nobody       \* not a user: the instance is free

VARIABLES user,        \* user[i]: who uses instance i
          retired      \* instances that left the pool for good

abstractVars == <<user, retired>>

AbstractTypeOK ==
  /\ user \in [Instances -> Users \cup {Nobody}]
  /\ retired \subseteq Instances

AbstractInit ==
  /\ user = [i \in Instances |-> Nobody]
  /\ retired = {}

\* A user takes an instance nobody uses and that was never retired.
Take(u, i) ==
  /\ user[i] = Nobody
  /\ i \notin retired
  /\ user' = [user EXCEPT ![i] = u]
  /\ UNCHANGED retired

\* The users in L let go of what they use, and the instances in R retire.
\* Both at once: a release may retire, a sweep or a restart does many.
LeaveAndRetire(L, R) ==
  /\ user' = [i \in Instances |-> IF user[i] \in L THEN Nobody ELSE user[i]]
  /\ retired' = retired \cup R

AbstractNext ==
  \/ \E u \in Users, i \in Instances : Take(u, i)
  \/ \E L \in SUBSET Users, R \in SUBSET Instances : LeaveAndRetire(L, R)

AbstractSpec == AbstractInit /\ [][AbstractNext]_abstractVars
=============================================================================
