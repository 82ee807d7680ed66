------------------------------ MODULE Directory ------------------------------
(***************************************************************************)
(* What store.GetOrCreateUser promises: a directory from federated         *)
(* identities to personal tenants in which an entry is made once, with a   *)
(* tenant of its own, and every answer is the directory's.  Module Users   *)
(* implements it with SQL statements that interleave.                      *)
(***************************************************************************)
CONSTANTS Identities, TenantIds, Calls, None

VARIABLES
    dir,     \* the tenant of each identity that has logged in
    answer   \* what a call has been answered, None if nothing (yet)

\* First login: the identity gets a tenant no other identity has.
Create(i, t) ==
    /\ dir[i] = None
    /\ \A j \in Identities : dir[j] # t
    /\ dir' = [dir EXCEPT ![i] = t]

\* A call is answered with the directory's entry of some identity, after the
\* creation if it is the one that creates.
Answer(k, i) ==
    /\ answer[k] = None
    /\ dir'[i] # None
    /\ answer' = [answer EXCEPT ![k] = dir'[i]]

Forget(k) ==
    /\ answer' = [answer EXCEPT ![k] = None]
    /\ UNCHANGED dir

DirectoryInit ==
    /\ dir = [i \in Identities |-> None]
    /\ answer = [k \in Calls |-> None]

DirectoryNext ==
    \/ \E i \in Identities, t \in TenantIds, k \in Calls :
          Create(i, t) /\ (Answer(k, i) \/ UNCHANGED answer)
    \/ \E k \in Calls, i \in Identities : UNCHANGED dir /\ Answer(k, i)
    \/ \E k \in Calls : Forget(k)

DirectorySpec == DirectoryInit /\ [][DirectoryNext]_<<dir, answer>>
=============================================================================
