-------------------------------- MODULE Users --------------------------------
(***************************************************************************)
(* store.GetOrCreateUser, run by every authenticated request and so by     *)
(* several requests of one user at once: a lookup, and on first login a    *)
(* transaction that inserts a personal tenant and then the user, where the *)
(* UNIQUE (provider, subject) constraint picks the winner of a race.       *)
(* One action is one SQL statement.  The transaction runs at PostgreSQL's  *)
(* default isolation (READ COMMITTED): an insert that conflicts with an    *)
(* uncommitted row waits for that transaction to end.                      *)
(***************************************************************************)
CONSTANTS
    Identities,   \* (provider, subject) pairs
    Emails,       \* non-empty email addresses
    TenantIds,    \* ids gen_random_uuid() may return
    Calls,        \* calls of GetOrCreateUser at once
    NoEmail,      \* "", what an API key or a dev token carries
    None

ASSUME UsersNoneAssumption == None \notin TenantIds /\ None \notin Calls
                              /\ None \notin Identities /\ NoEmail \notin Emails

VARIABLES
    users,     \* the committed rows of users: identity -> tenant, None if no row
    email,     \* the email column of those rows
    tenants,   \* the committed rows of tenants
    pending,   \* the call whose transaction holds an uncommitted row for an identity
    pc,        \* where a call is
    who,       \* its (provider, subject) argument
    mail,      \* its email argument
    made,      \* tenantID: the tenant its transaction has inserted
    res        \* the tenant of the user it returned

tables == <<users, email, tenants>>
vars == <<tables, pending, pc, who, mail, made, res>>

TypeOK ==
    /\ users \in [Identities -> TenantIds \cup {None}]
    /\ email \in [Identities -> Emails \cup {NoEmail}]
    /\ tenants \subseteq TenantIds
    /\ pending \in [Identities -> Calls \cup {None}]
    /\ pc \in [Calls -> {"idle", "get", "email", "tenant", "insert", "commit", "reget",
                         "done"}]
    /\ who \in [Calls -> Identities \cup {None}]
    /\ mail \in [Calls -> Emails \cup {NoEmail}]
    /\ made \in [Calls -> TenantIds \cup {None}]
    /\ res \in [Calls -> TenantIds \cup {None}]

Init ==
    /\ users = [i \in Identities |-> None]
    /\ email = [i \in Identities |-> NoEmail]
    /\ tenants = {}
    /\ pending = [i \in Identities |-> None]
    /\ pc = [k \in Calls |-> "idle"]
    /\ who = [k \in Calls |-> None]
    /\ mail = [k \in Calls |-> NoEmail]
    /\ made = [k \in Calls |-> None]
    /\ res = [k \in Calls |-> None]

-----------------------------------------------------------------------------
Call(k, i, e) ==
    /\ pc[k] = "idle"
    /\ pc' = [pc EXCEPT ![k] = "get"]
    /\ who' = [who EXCEPT ![k] = i]
    /\ mail' = [mail EXCEPT ![k] = e]
    /\ UNCHANGED <<tables, pending, made, res>>

\* The user's row is returned.
Found(k) ==
    /\ pc' = [pc EXCEPT ![k] = "done"]
    /\ res' = [res EXCEPT ![k] = users[who[k]]]

\* s.getUser: an existing row is returned, after an email update if the caller
\* brings a newer address.
getUser(k) ==
    /\ pc[k] = "get"
    /\ IF users[who[k]] = None
       THEN pc' = [pc EXCEPT ![k] = "tenant"] /\ UNCHANGED res
       ELSE IF mail[k] # NoEmail /\ email[who[k]] # mail[k]
            THEN pc' = [pc EXCEPT ![k] = "email"] /\ UNCHANGED res
            ELSE Found(k)
    /\ UNCHANGED <<tables, pending, who, mail, made>>

UpdateEmail(k) ==
    /\ pc[k] = "email"
    /\ email' = [email EXCEPT ![who[k]] = mail[k]]
    /\ Found(k)
    /\ UNCHANGED <<users, tenants, pending, who, mail, made>>

\* Begin and INSERT INTO tenants: the row is visible to this transaction only.
InsertTenant(k) ==
    /\ pc[k] = "tenant"
    /\ \E t \in TenantIds :
          /\ t \notin tenants
          /\ \A o \in Calls : made[o] # t
          /\ made' = [made EXCEPT ![k] = t]
    /\ pc' = [pc EXCEPT ![k] = "insert"]
    /\ UNCHANGED <<tables, pending, who, mail, res>>

\* Mutant: ON CONFLICT ... DO UPDATE.
InsertUserUpserts(k) ==
    /\ pc[k] = "insert"
    /\ pending[who[k]] = None
    /\ pending' = [pending EXCEPT ![who[k]] = k]
    /\ pc' = [pc EXCEPT ![k] = "commit"]
    /\ UNCHANGED <<tables, who, mail, made, res>>

\* INSERT INTO users ... ON CONFLICT DO NOTHING, with nobody in the way.
InsertUser(k) ==
    /\ pc[k] = "insert"
    /\ users[who[k]] = None
    /\ pending[who[k]] = None
    /\ pending' = [pending EXCEPT ![who[k]] = k]
    /\ pc' = [pc EXCEPT ![k] = "commit"]
    /\ UNCHANGED <<tables, who, mail, made, res>>

\* Mutant: the loser commits where it should roll back.
LosesRaceCommits(k) ==
    /\ pc[k] = "insert"
    /\ users[who[k]] # None
    /\ tenants' = tenants \cup {made[k]}
    /\ made' = [made EXCEPT ![k] = None]
    /\ pc' = [pc EXCEPT ![k] = "reget"]
    /\ UNCHANGED <<users, email, pending, who, mail, res>>

\* The same statement finds the winner's committed row (having waited for it
\* if need be) and returns no row: roll the tenant back.
LosesRace(k) ==
    /\ pc[k] = "insert"
    /\ users[who[k]] # None
    /\ made' = [made EXCEPT ![k] = None]
    /\ pc' = [pc EXCEPT ![k] = "reget"]
    /\ UNCHANGED <<tables, pending, who, mail, res>>

\* ... and use the winner's row.
RegetUser(k) ==
    /\ pc[k] = "reget"
    /\ Found(k)
    /\ UNCHANGED <<tables, pending, who, mail, made>>

\* What a commit does to the tables.
Committed(k) ==
    /\ users' = [users EXCEPT ![who[k]] = made[k]]
    /\ email' = [email EXCEPT ![who[k]] = mail[k]]
    /\ tenants' = tenants \cup {made[k]}

\* Mutant: the new user is returned and the transaction never committed.
CommitForgotten(k) ==
    /\ pc[k] = "commit"
    /\ pending' = [pending EXCEPT ![who[k]] = None]
    /\ pc' = [pc EXCEPT ![k] = "done"]
    /\ res' = [res EXCEPT ![k] = made[k]]
    /\ made' = [made EXCEPT ![k] = None]
    /\ UNCHANGED <<tables, who, mail>>

\* Mutant: the identity is returned in place of the tenant.
CommitReturnsSubject(k) ==
    /\ pc[k] = "commit"
    /\ Committed(k)
    /\ pending' = [pending EXCEPT ![who[k]] = None]
    /\ pc' = [pc EXCEPT ![k] = "done"]
    /\ res' = [res EXCEPT ![k] = who[k]]
    /\ made' = [made EXCEPT ![k] = None]
    /\ UNCHANGED <<who, mail>>

Commit(k) ==
    /\ pc[k] = "commit"
    /\ Committed(k)
    /\ pending' = [pending EXCEPT ![who[k]] = None]
    /\ pc' = [pc EXCEPT ![k] = "done"]
    /\ res' = [res EXCEPT ![k] = made[k]]
    /\ made' = [made EXCEPT ![k] = None]
    /\ UNCHANGED <<who, mail>>

\* Mutant: there is no deferred Rollback, the transaction stays open.
FailsKeepsTx(k) ==
    /\ pc[k] \in {"get", "email", "tenant", "insert", "commit", "reget"}
    /\ pc' = [pc EXCEPT ![k] = "done"]
    /\ made' = [made EXCEPT ![k] = None]
    /\ UNCHANGED <<tables, pending, who, mail, res>>

\* A statement fails (the request's context is cancelled, the database
\* connection is lost): the deferred Rollback runs and the caller gets an error.
\* An update or a commit whose answer is lost may have taken place.
Fails(k) ==
    /\ pc[k] \in {"get", "email", "tenant", "insert", "commit", "reget"}
    /\ \/ UNCHANGED tables
       \/ /\ pc[k] = "email"
          /\ email' = [email EXCEPT ![who[k]] = mail[k]]
          /\ UNCHANGED <<users, tenants>>
       \/ pc[k] = "commit" /\ Committed(k)
    /\ pending' = [i \in Identities |-> IF pending[i] = k THEN None ELSE pending[i]]
    /\ pc' = [pc EXCEPT ![k] = "done"]
    /\ made' = [made EXCEPT ![k] = None]
    /\ UNCHANGED <<who, mail, res>>

\* The request is over.
Return(k) ==
    /\ pc[k] = "done"
    /\ pc' = [pc EXCEPT ![k] = "idle"]
    /\ who' = [who EXCEPT ![k] = None]
    /\ mail' = [mail EXCEPT ![k] = NoEmail]
    /\ res' = [res EXCEPT ![k] = None]
    /\ UNCHANGED <<tables, pending, made>>

Step(k) ==
    \/ getUser(k) \/ UpdateEmail(k) \/ InsertTenant(k) \/ InsertUser(k)
    \/ LosesRace(k) \/ RegetUser(k) \/ Commit(k)

Next ==
    \E k \in Calls :
        \/ \E i \in Identities, e \in Emails \cup {NoEmail} : Call(k, i, e)
        \/ Step(k)
        \/ Fails(k)
        \/ Return(k)

Spec == Init /\ [][Next]_vars

\* The database executes the statements it is sent, and an insert that waits
\* for other transactions is not passed over forever (lock waits are queued).
FairSpec ==
    /\ Spec
    /\ \A k \in Calls :
         /\ WF_vars(Step(k))
         /\ SF_vars(InsertUser(k) \/ LosesRace(k))

-----------------------------------------------------------------------------
(* Properties.                                                               *)

\* A personal tenant belongs to exactly one user: a lost race or a failure at
\* any statement leaves no orphan tenant, and no two users share one.
TenantsArePersonal ==
    /\ \A t \in tenants : \E i \in Identities : users[i] = t
    /\ \A i, j \in Identities : users[i] # None /\ users[i] = users[j] => i = j

\* A user never moves to another tenant, whoever else logs in meanwhile.
TenantIsForever ==
    [][\A i \in Identities : users[i] # None => users'[i] = users[i]]_vars

D == INSTANCE Directory WITH dir <- users, answer <- res

\* Winner and losers of a first-login race, and every later call, are answered
\* as by the atomic directory: the same tenant, once committed.
UsersImplementDirectory == D!DirectorySpec

\* A call returns: waiting for another call's uncommitted row never lasts, as
\* that call either commits or rolls back.
CallReturns ==
    \A k \in Calls : pc[k] = "get" ~> pc[k] = "done"

=============================================================================
