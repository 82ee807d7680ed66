------------------------------ MODULE UsersProofs ------------------------------
(***************************************************************************)
(* Proofs about module Users, for any number of identities and concurrent  *)
(* calls: every personal tenant has exactly one user, a user's tenant never *)
(* changes, and GetOrCreateUser implements the atomic directory.           *)
(***************************************************************************)
EXTENDS Users, TLAPS

\* A call that runs knows its identity, has not answered yet unless it is done,
\* and on the paths that found a row there still is one (users are never
\* deleted).
CallsAreSane ==
    \A k \in Calls :
        /\ pc[k] # "idle" => who[k] \in Identities
        /\ res[k] # None => pc[k] = "done"
        /\ pc[k] \in {"email", "reget"} => users[who[k]] # None

\* A tenant inserted by an open transaction is its own: neither committed nor
\* another transaction's.
MadeIsPrivate ==
    \A k \in Calls :
        /\ pc[k] \in {"insert", "commit"} <=> made[k] # None
        /\ made[k] \notin tenants
        /\ \A o \in Calls : made[k] # None /\ made[k] = made[o] => k = o

\* The unique index: an uncommitted row belongs to the one call that is about to
\* commit it, and excludes a committed row.
IndexIsUnique ==
    /\ \A k \in Calls : pc[k] = "commit" => pending[who[k]] = k
    /\ \A i \in Identities :
         pending[i] # None => /\ users[i] = None
                              /\ pc[pending[i]] = "commit"
                              /\ who[pending[i]] = i

\* A committed user's tenant is committed.
TenantsExist == \A i \in Identities : users[i] # None => users[i] \in tenants

\* The inductive invariant.
IInv ==
    /\ TypeOK
    /\ CallsAreSane
    /\ MadeIsPrivate
    /\ IndexIsUnique
    /\ TenantsExist
    /\ TenantsArePersonal

-----------------------------------------------------------------------------
\* The invariant is kept by a new call.
LEMMA CallInv ==
    ASSUME IInv, NEW k \in Calls, NEW i \in Identities, NEW e \in Emails \cup {NoEmail}, Call(k, i, e)
    PROVE  IInv'
<1> USE UsersNoneAssumption DEF Call, tables
<1>1. TypeOK'
  BY DEF IInv, TypeOK, CallsAreSane, MadeIsPrivate
<1>2. CallsAreSane'
  BY DEF IInv, TypeOK, CallsAreSane, IndexIsUnique
<1>3. MadeIsPrivate'
  BY DEF IInv, TypeOK, MadeIsPrivate
<1>4. IndexIsUnique'
  BY DEF IInv, TypeOK, CallsAreSane, IndexIsUnique
<1>5. TenantsExist' /\ TenantsArePersonal'
  BY DEF IInv, TypeOK, CallsAreSane, MadeIsPrivate, IndexIsUnique, TenantsExist, TenantsArePersonal
<1>6. QED
  BY <1>1, <1>2, <1>3, <1>4, <1>5 DEF IInv

\* The invariant is kept by the lookup.
LEMMA GetUserInv ==
    ASSUME IInv, NEW k \in Calls, getUser(k)
    PROVE  IInv'
<1> USE UsersNoneAssumption DEF getUser, Found, tables
<1>1. TypeOK'
  BY DEF IInv, TypeOK, CallsAreSane, MadeIsPrivate
<1>2. CallsAreSane'
  BY DEF IInv, TypeOK, CallsAreSane, IndexIsUnique
<1>3. MadeIsPrivate'
  BY DEF IInv, TypeOK, MadeIsPrivate
<1>4. IndexIsUnique'
  BY DEF IInv, TypeOK, CallsAreSane, IndexIsUnique
<1>5. TenantsExist' /\ TenantsArePersonal'
  BY DEF IInv, TypeOK, CallsAreSane, MadeIsPrivate, IndexIsUnique, TenantsExist, TenantsArePersonal
<1>6. QED
  BY <1>1, <1>2, <1>3, <1>4, <1>5 DEF IInv

\* The invariant is kept by the email update.
LEMMA UpdateEmailInv ==
    ASSUME IInv, NEW k \in Calls, UpdateEmail(k)
    PROVE  IInv'
<1> USE UsersNoneAssumption DEF UpdateEmail, Found, tables
<1>1. TypeOK'
  BY DEF IInv, TypeOK, CallsAreSane, MadeIsPrivate
<1>2. CallsAreSane'
  BY DEF IInv, TypeOK, CallsAreSane, IndexIsUnique
<1>3. MadeIsPrivate'
  BY DEF IInv, TypeOK, MadeIsPrivate
<1>4. IndexIsUnique'
  BY DEF IInv, TypeOK, CallsAreSane, IndexIsUnique
<1>5. TenantsExist' /\ TenantsArePersonal'
  BY DEF IInv, TypeOK, CallsAreSane, MadeIsPrivate, IndexIsUnique, TenantsExist, TenantsArePersonal
<1>6. QED
  BY <1>1, <1>2, <1>3, <1>4, <1>5 DEF IInv

\* The invariant is kept by the tenant insert.
LEMMA InsertTenantInv ==
    ASSUME IInv, NEW k \in Calls, InsertTenant(k)
    PROVE  IInv'
<1> USE UsersNoneAssumption DEF InsertTenant, tables
<1>1. TypeOK'
  BY DEF IInv, TypeOK, CallsAreSane, MadeIsPrivate
<1>2. CallsAreSane'
  BY DEF IInv, TypeOK, CallsAreSane, IndexIsUnique
<1>3. MadeIsPrivate'
  BY DEF IInv, TypeOK, MadeIsPrivate
<1>4. IndexIsUnique'
  BY DEF IInv, TypeOK, CallsAreSane, IndexIsUnique
<1>5. TenantsExist' /\ TenantsArePersonal'
  BY DEF IInv, TypeOK, CallsAreSane, MadeIsPrivate, IndexIsUnique, TenantsExist, TenantsArePersonal
<1>6. QED
  BY <1>1, <1>2, <1>3, <1>4, <1>5 DEF IInv

\* The invariant is kept by the user insert.
LEMMA InsertUserInv ==
    ASSUME IInv, NEW k \in Calls, InsertUser(k)
    PROVE  IInv'
<1> USE UsersNoneAssumption DEF InsertUser, tables
<1>1. TypeOK'
  BY DEF IInv, TypeOK, CallsAreSane, MadeIsPrivate
<1>2. CallsAreSane'
  BY DEF IInv, TypeOK, CallsAreSane, IndexIsUnique
<1>3. MadeIsPrivate'
  BY DEF IInv, TypeOK, MadeIsPrivate
<1>4. IndexIsUnique'
  BY DEF IInv, TypeOK, CallsAreSane, IndexIsUnique
<1>5. TenantsExist' /\ TenantsArePersonal'
  BY DEF IInv, TypeOK, CallsAreSane, MadeIsPrivate, IndexIsUnique, TenantsExist, TenantsArePersonal
<1>6. QED
  BY <1>1, <1>2, <1>3, <1>4, <1>5 DEF IInv

\* The invariant is kept by a lost race.
LEMMA LosesRaceInv ==
    ASSUME IInv, NEW k \in Calls, LosesRace(k)
    PROVE  IInv'
<1> USE UsersNoneAssumption DEF LosesRace, tables
<1>1. TypeOK'
  BY DEF IInv, TypeOK, CallsAreSane, MadeIsPrivate
<1>2. CallsAreSane'
  BY DEF IInv, TypeOK, CallsAreSane, IndexIsUnique
<1>3. MadeIsPrivate'
  BY DEF IInv, TypeOK, MadeIsPrivate
<1>4. IndexIsUnique'
  BY DEF IInv, TypeOK, CallsAreSane, IndexIsUnique
<1>5. TenantsExist' /\ TenantsArePersonal'
  BY DEF IInv, TypeOK, CallsAreSane, MadeIsPrivate, IndexIsUnique, TenantsExist, TenantsArePersonal
<1>6. QED
  BY <1>1, <1>2, <1>3, <1>4, <1>5 DEF IInv

\* The invariant is kept by reading the winner's row.
LEMMA RegetUserInv ==
    ASSUME IInv, NEW k \in Calls, RegetUser(k)
    PROVE  IInv'
<1> USE UsersNoneAssumption DEF RegetUser, Found, tables
<1>1. TypeOK'
  BY DEF IInv, TypeOK, CallsAreSane, MadeIsPrivate
<1>2. CallsAreSane'
  BY DEF IInv, TypeOK, CallsAreSane, IndexIsUnique
<1>3. MadeIsPrivate'
  BY DEF IInv, TypeOK, MadeIsPrivate
<1>4. IndexIsUnique'
  BY DEF IInv, TypeOK, CallsAreSane, IndexIsUnique
<1>5. TenantsExist' /\ TenantsArePersonal'
  BY DEF IInv, TypeOK, CallsAreSane, MadeIsPrivate, IndexIsUnique, TenantsExist, TenantsArePersonal
<1>6. QED
  BY <1>1, <1>2, <1>3, <1>4, <1>5 DEF IInv

\* The invariant is kept by the commit.
LEMMA CommitInv ==
    ASSUME IInv, NEW k \in Calls, Commit(k)
    PROVE  IInv'
<1> USE UsersNoneAssumption DEF Commit, Committed, tables
<1>1. TypeOK'
  BY DEF IInv, TypeOK, CallsAreSane, MadeIsPrivate
<1>2. CallsAreSane'
  BY DEF IInv, TypeOK, CallsAreSane, IndexIsUnique
<1>3. MadeIsPrivate'
  BY DEF IInv, TypeOK, MadeIsPrivate
<1>4. IndexIsUnique'
  BY DEF IInv, TypeOK, CallsAreSane, IndexIsUnique
<1>5. TenantsExist' /\ TenantsArePersonal'
  BY DEF IInv, TypeOK, CallsAreSane, MadeIsPrivate, IndexIsUnique, TenantsExist, TenantsArePersonal
<1>6. QED
  BY <1>1, <1>2, <1>3, <1>4, <1>5 DEF IInv

\* The invariant is kept by a failing statement.
LEMMA FailsInv ==
    ASSUME IInv, NEW k \in Calls, Fails(k)
    PROVE  IInv'
<1> USE UsersNoneAssumption DEF Fails, Committed, tables
<1>1. TypeOK'
  BY DEF IInv, TypeOK, CallsAreSane, MadeIsPrivate
<1>2. CallsAreSane'
  BY DEF IInv, TypeOK, CallsAreSane, IndexIsUnique
<1>3. MadeIsPrivate'
  BY DEF IInv, TypeOK, MadeIsPrivate
<1>4. IndexIsUnique'
  BY DEF IInv, TypeOK, CallsAreSane, IndexIsUnique
<1>5. TenantsExist' /\ TenantsArePersonal'
  BY DEF IInv, TypeOK, CallsAreSane, MadeIsPrivate, IndexIsUnique, TenantsExist, TenantsArePersonal
<1>6. QED
  BY <1>1, <1>2, <1>3, <1>4, <1>5 DEF IInv

\* The invariant is kept by the end of a request.
LEMMA ReturnInv ==
    ASSUME IInv, NEW k \in Calls, Return(k)
    PROVE  IInv'
<1> USE UsersNoneAssumption DEF Return, tables
<1>1. TypeOK'
  BY DEF IInv, TypeOK, CallsAreSane, MadeIsPrivate
<1>2. CallsAreSane'
  BY DEF IInv, TypeOK, CallsAreSane, IndexIsUnique
<1>3. MadeIsPrivate'
  BY DEF IInv, TypeOK, MadeIsPrivate
<1>4. IndexIsUnique'
  BY DEF IInv, TypeOK, CallsAreSane, IndexIsUnique
<1>5. TenantsExist' /\ TenantsArePersonal'
  BY DEF IInv, TypeOK, CallsAreSane, MadeIsPrivate, IndexIsUnique, TenantsExist, TenantsArePersonal
<1>6. QED
  BY <1>1, <1>2, <1>3, <1>4, <1>5 DEF IInv

-----------------------------------------------------------------------------
\* Every statement of every call keeps the invariant.
LEMMA StepInv == IInv /\ [Next]_vars => IInv'
<1> SUFFICES ASSUME IInv, [Next]_vars PROVE IInv'
  OBVIOUS
<1>1. ASSUME NEW k \in Calls, NEW i \in Identities, NEW e \in Emails \cup {NoEmail},
             Call(k, i, e)
      PROVE  IInv'
  BY <1>1, CallInv
<1>2. ASSUME NEW k \in Calls, Step(k) PROVE IInv'
  BY <1>2, GetUserInv, UpdateEmailInv, InsertTenantInv, InsertUserInv, LosesRaceInv,
     RegetUserInv, CommitInv DEF Step
<1>3. ASSUME NEW k \in Calls, Fails(k) \/ Return(k) PROVE IInv'
  BY <1>3, FailsInv, ReturnInv
<1>4. ASSUME UNCHANGED vars PROVE IInv'
  BY <1>4 DEF vars, tables, IInv, TypeOK, CallsAreSane, MadeIsPrivate, IndexIsUnique,
              TenantsExist, TenantsArePersonal
<1>5. QED
  BY <1>1, <1>2, <1>3, <1>4 DEF Next

\* The invariant holds of the empty tables and every step keeps it.
LEMMA UsersInductive == Spec => []IInv
<1>1. Init => IInv
  BY UsersNoneAssumption
     DEF Init, IInv, TypeOK, CallsAreSane, MadeIsPrivate, IndexIsUnique, TenantsExist,
         TenantsArePersonal
<1>2. QED
  BY <1>1, StepInv, PTL DEF Spec

\* Type correctness of the tables and of every call of GetOrCreateUser.
THEOREM UsersTypeOK == Spec => []TypeOK
<1>1. IInv => TypeOK
  BY DEF IInv
<1>2. QED
  BY <1>1, UsersInductive, PTL

\* No race, failure or lost answer leaves an orphan tenant or a shared one.
THEOREM UsersTenantsArePersonal == Spec => []TenantsArePersonal
<1>1. IInv => TenantsArePersonal
  BY DEF IInv
<1>2. QED
  BY <1>1, UsersInductive, PTL

\* A user's tenant never changes once committed: only a commit writes users, and
\* the unique index lets it do so only where there is no row.
THEOREM UsersTenantIsForever == Spec => TenantIsForever
<1>1. ASSUME IInv, [Next]_vars, NEW i \in Identities, users[i] # None
      PROVE  users'[i] = users[i]
  <2>1. ASSUME NEW k \in Calls, pc[k] = "commit", Committed(k)
        PROVE  users'[i] = users[i]
    <3>1. users[who[k]] = None
      BY <2>1, <1>1, UsersNoneAssumption DEF IInv, IndexIsUnique, CallsAreSane
    <3>2. QED
      BY <3>1, <2>1, <1>1 DEF Committed, IInv, TypeOK
  <2>2. ASSUME NEW k \in Calls, Step(k) PROVE users'[i] = users[i]
    BY <2>1, <2>2 DEF Step, getUser, UpdateEmail, InsertTenant, InsertUser, LosesRace,
                      RegetUser, Commit, tables
  <2>3. ASSUME NEW k \in Calls, Fails(k) PROVE users'[i] = users[i]
    BY <2>1, <2>3 DEF Fails, tables
  <2>4. QED
    BY <1>1, <2>2, <2>3 DEF Next, Call, Return, vars, tables
<1>2. IInv /\ [Next]_vars
      => [\A i \in Identities : users[i] # None => users'[i] = users[i]]_vars
  BY <1>1
<1>3. QED
  BY <1>2, UsersInductive, PTL DEF Spec, TenantIsForever

-----------------------------------------------------------------------------
(* The refinement: statements of calls as steps of the directory.           *)

\* Returning a found row answers the call from the directory.
LEMMA FoundAnswers ==
    ASSUME IInv, NEW k \in Calls, who[k] \in Identities, users[who[k]] # None,
           pc[k] # "done", Found(k), UNCHANGED users
    PROVE  D!DirectoryNext
<1>1. D!Answer(k, who[k])
  BY DEF D!Answer, Found, IInv, TypeOK, CallsAreSane
<1>2. QED
  BY <1>1 DEF D!DirectoryNext

\* A commit makes the directory's entry, with a tenant no other identity has.
LEMMA CommitCreates ==
    ASSUME IInv, NEW k \in Calls, pc[k] = "commit", Committed(k)
    PROVE  /\ who[k] \in Identities
           /\ made[k] \in TenantIds
           /\ D!Create(who[k], made[k])
<1>1. who[k] \in Identities /\ users[who[k]] = None
  BY UsersNoneAssumption DEF IInv, TypeOK, CallsAreSane, IndexIsUnique
<1>2. made[k] \in TenantIds /\ \A j \in Identities : users[j] # made[k]
  BY UsersNoneAssumption DEF IInv, TypeOK, MadeIsPrivate, TenantsExist
<1>3. QED
  BY <1>1, <1>2 DEF D!Create, Committed

\* Every statement of a call is a step of the directory or leaves it unchanged.
LEMMA UsersStepRefines == IInv /\ [Next]_vars => [D!DirectoryNext]_<<users, res>>
<1> SUFFICES ASSUME IInv, [Next]_vars PROVE [D!DirectoryNext]_<<users, res>>
  OBVIOUS
<1>1. ASSUME NEW k \in Calls, getUser(k) PROVE [D!DirectoryNext]_<<users, res>>
  BY <1>1, FoundAnswers DEF getUser, tables, IInv, CallsAreSane
<1>2. ASSUME NEW k \in Calls, UpdateEmail(k) PROVE D!DirectoryNext
  BY <1>2, FoundAnswers DEF UpdateEmail, IInv, CallsAreSane
<1>3. ASSUME NEW k \in Calls, RegetUser(k) PROVE D!DirectoryNext
  BY <1>3, FoundAnswers DEF RegetUser, tables, IInv, CallsAreSane
<1>4. ASSUME NEW k \in Calls, Commit(k) PROVE D!DirectoryNext
  <2>1. /\ who[k] \in Identities
        /\ made[k] \in TenantIds
        /\ D!Create(who[k], made[k])
    BY <1>4, CommitCreates DEF Commit
  <2>2. D!Answer(k, who[k])
    BY <1>4, <2>1, UsersNoneAssumption
       DEF Commit, Committed, D!Answer, IInv, TypeOK, CallsAreSane
  <2>3. QED
    BY <2>1, <2>2 DEF D!DirectoryNext
<1>5. ASSUME NEW k \in Calls, Fails(k) PROVE [D!DirectoryNext]_<<users, res>>
  <2>1. CASE UNCHANGED users
    BY <1>5, <2>1 DEF Fails
  <2>2. CASE pc[k] = "commit" /\ Committed(k)
    BY <1>5, <2>2, CommitCreates DEF Fails, D!DirectoryNext
  <2>3. QED
    BY <1>5, <2>1, <2>2 DEF Fails, tables
<1>6. ASSUME NEW k \in Calls, Return(k) PROVE D!DirectoryNext
  BY <1>6 DEF Return, tables, D!DirectoryNext, D!Forget
<1>7. ASSUME NEW k \in Calls, NEW i \in Identities, NEW e \in Emails \cup {NoEmail},
             Call(k, i, e)
      PROVE  UNCHANGED <<users, res>>
  BY <1>7 DEF Call, tables
<1>8. ASSUME NEW k \in Calls, InsertTenant(k) \/ InsertUser(k) \/ LosesRace(k)
      PROVE  UNCHANGED <<users, res>>
  BY <1>8 DEF InsertTenant, InsertUser, LosesRace, tables
<1>9. QED
  BY <1>1, <1>2, <1>3, <1>4, <1>5, <1>6, <1>7, <1>8 DEF Next, Step, vars, tables

\* GetOrCreateUser, statement by statement and with failures in between,
\* implements the atomic directory.
THEOREM UsersRefineDirectory == Spec => UsersImplementDirectory
<1>1. Init => D!DirectoryInit
  BY DEF Init, D!DirectoryInit
<1>2. QED
  BY <1>1, UsersStepRefines, UsersInductive, PTL
     DEF Spec, UsersImplementDirectory, D!DirectorySpec
=============================================================================
