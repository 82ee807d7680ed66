---------------------------- MODULE AccountsProofs ----------------------------
(***************************************************************************)
(* Proofs about module Accounts, for any accounts, providers, keys,        *)
(* secrets and concurrent requests: revoked keys and keys of an old secret *)
(* stay out, a key that was handed out is on record, and every key and     *)
(* machine goes by a name of the account behind it.                        *)
(***************************************************************************)
EXTENDS Accounts, TLAPS

\* The account behind a request is the one whose token it brought, or the maker
\* of the key.
CredentialIsReal(r) ==
    r.pc # "idle" => /\ r.op # None
                     /\ r.by \in Accounts
                     /\ \/ r.cred \in Accounts /\ r.by = r.cred
                        \/ r.cred \in held /\ r.by = r.cred.maker

\* A key that was revoked when its request began still is, until the request is
\* refused; one that got past the signature has the current secret.
RevocationIsSeen(r) ==
    /\ r.pc = "lookup" => r.cred \in APIKeys
    /\ r.cred \in APIKeys =>
         /\ r.pc \in Admitted \cup {"lookup"} => r.cred.secret = secret
         /\ r.pc \in {"verify", "lookup"} /\ r.revoked => Revoked(r.cred.id)
         /\ r.pc \in Admitted => ~r.revoked

\* An admitted request goes by a name of the account behind it.
ActsForMaker(r) ==
    r.pc \in Admitted => r.ident \in NamesOf(r.by) /\ r.mail \in {EmailOf[r.by], NoEmail}

\* A key in the making is its request's, and is on record only once it is sent.
KeyInTheMaking(r) ==
    /\ r.key # None <=> r.op = "apiKey" /\ r.pc \in {"user", "record", "reply"}
    /\ r.pc \in {"mint", "record", "reply"} => r.op = "apiKey"
    /\ r.key # None =>
         /\ r.key.maker = r.by /\ r.key.subject \in NamesOf(r.by)
         /\ r.pc # "reply" => apiKeys[r.key.id] = None
         /\ r.pc = "reply" => /\ apiKeys[r.key.id] # None
                              /\ apiKeys[r.key.id].user \in NamesOf(r.by)

Sane(r) ==
    CredentialIsReal(r) /\ RevocationIsSeen(r) /\ ActsForMaker(r) /\ KeyInTheMaking(r)

\* No two requests make keys of one id.
KeysAreDistinct ==
    \A q, o \in Requests :
        req[q].key # None /\ req[o].key # None /\ req[q].key.id = req[o].key.id => q = o

\* The inductive invariant.
IInv ==
    /\ TypeOK
    /\ \A q \in Requests : Sane(req[q])
    /\ KeysAreDistinct
    /\ HandedKeyWorks
    /\ KeyNamesItsMaker

-----------------------------------------------------------------------------
\* An account's names are identities.
LEMMA NamesAreIdentities ==
    ASSUME NEW a \in Accounts
    PROVE  /\ NamesOf(a) \subseteq Identities
           /\ OwnUser(a) \in NamesOf(a)
  BY AccountsAssumption DEF NamesOf, OwnUser, Identities

\* The subject of a new key is a name of the account that asks for it, whether the
\* email replaces the subject or not.
LEMMA SubjectIsName ==
    ASSUME NEW a \in Accounts, NEW q \in Requests,
           req[q].ident \in NamesOf(a), req[q].mail \in {EmailOf[a], NoEmail}
    PROVE  KeySubject(q) \in NamesOf(a)
  BY AccountsAssumption DEF NamesOf, OwnUser, KeySubject

\* A request that is not running promises nothing.
LEMMA IdleIsSane ==
    /\ Idle \in Request /\ Idle.pc = "idle" /\ Idle.key = None
    /\ Sane(Idle) /\ Sane(Idle)'
  BY CredentialsAssumption, AccountsAssumption
     DEF Idle, Request, Sane, CredentialIsReal, RevocationIsSeen, ActsForMaker,
         KeyInTheMaking, Admitted

\* The invariant is kept by a step of one request that leaves the tables and the
\* process alone, if the request is sane afterwards.
LEMMA QuietInv ==
    ASSUME IInv, NEW q \in Requests, NEW r \in Request,
           req' = [req EXCEPT ![q] = r], UNCHANGED <<tables, held, process>>,
           Sane(r),
           r.key # None /\ r.key # req[q].key
               => \A o \in Requests : req[o].key # None => req[o].key.id # r.key.id
    PROVE  IInv'
<1> USE DEF tables, process
<1>1. TypeOK'
  BY DEF IInv, TypeOK
<1>2. ASSUME NEW o \in Requests PROVE Sane(req[o])'
  <2>1. Sane(req'[o])
    BY DEF IInv, TypeOK
  <2>2. QED
    BY <2>1 DEF Sane, CredentialIsReal, RevocationIsSeen, ActsForMaker, KeyInTheMaking,
                Revoked, NamesOf
<1>3. KeysAreDistinct'
  BY DEF IInv, TypeOK, KeysAreDistinct
<1>4. HandedKeyWorks' /\ KeyNamesItsMaker'
  BY DEF IInv, HandedKeyWorks, KeyNamesItsMaker
<1>5. QED
  BY <1>1, <1>2, <1>3, <1>4 DEF IInv

\* The invariant is kept by a request that ends without having changed anything.
LEMMA EndsInv ==
    ASSUME IInv, NEW q \in Requests, Ends(q), UNCHANGED <<tables, held, process>>
    PROVE  IInv'
  BY QuietInv, IdleIsSane DEF Ends

\* The invariant is kept by a request that arrives with a token.
LEMMA TokenRequestInv ==
    ASSUME IInv, NEW q \in Requests, NEW op \in {"apiKey", "enroll"}, NEW a \in Accounts,
           TokenRequest(q, op, a)
    PROVE  IInv'
<1>1. PICK r \in Request : r = [Idle EXCEPT !.pc = "verify", !.op = op, !.cred = a, !.by = a]
  BY DEF Idle, Request
<1>2. r.pc = "verify" /\ r.op = op /\ r.cred = a /\ r.by = a /\ r.key = None
  BY <1>1 DEF Idle
<1>3. Sane(r)
  BY <1>2, CredentialsAssumption
     DEF Sane, CredentialIsReal, RevocationIsSeen, ActsForMaker, KeyInTheMaking, Admitted
<1>4. QED
  BY <1>1, <1>2, <1>3, QuietInv DEF TokenRequest

\* The invariant is kept by a request that arrives with a key.
LEMMA KeyRequestInv ==
    ASSUME IInv, NEW q \in Requests, NEW op \in {"apiKey", "enroll"}, NEW k \in held,
           KeyRequest(q, op, k)
    PROVE  IInv'
<1>1. k \in APIKeys /\ k.maker \in Accounts /\ Revoked(k.id) \in BOOLEAN
  BY DEF IInv, TypeOK, APIKeys, Revoked, KeyRow
<1>2. PICK r \in Request :
        r = [Idle EXCEPT !.pc = "verify", !.op = op, !.cred = k,
                         !.by = k.maker, !.revoked = Revoked(k.id)]
  BY <1>1 DEF Idle, Request
<1>3. /\ r.pc = "verify" /\ r.op = op /\ r.cred = k /\ r.by = k.maker /\ r.key = None
      /\ r.revoked = Revoked(k.id)
  BY <1>2 DEF Idle
<1>4. Sane(r)
  BY <1>1, <1>3, CredentialsAssumption
     DEF Sane, CredentialIsReal, RevocationIsSeen, ActsForMaker, KeyInTheMaking, Admitted
<1>5. QED
  BY <1>2, <1>3, <1>4, QuietInv DEF KeyRequest

\* A request that verifyToken admits, under a name of the account behind it.
LEMMA AdmitInv ==
    ASSUME IInv, NEW q \in Requests, NEW a \in Accounts, NEW ident \in NamesOf(a),
           NEW mail \in {EmailOf[a], NoEmail},
           req[q].pc \in {"verify", "lookup"}, req[q].by = a,
           req[q].cred \in APIKeys => /\ req[q].cred.secret = secret
                                      /\ ~Revoked(req[q].cred.id),
           Admit(q, ident, mail), UNCHANGED <<tables, held, process>>
    PROVE  IInv'
<1>1. /\ req[q] \in Request /\ req \in [Requests -> Request] /\ Sane(req[q])
      /\ ident \in Identities /\ mail \in Emails \cup {NoEmail}
  BY NamesAreIdentities, AccountsAssumption DEF IInv, TypeOK
<1>2. PICK pc \in {"mint", "user"} :
        /\ pc = IF req[q].op = "apiKey" THEN "mint" ELSE "user"
        /\ pc = "mint" <=> req[q].op = "apiKey"
  OBVIOUS
<1>3. PICK r \in Request : r = [req[q] EXCEPT !.pc = pc, !.ident = ident, !.mail = mail]
  BY <1>1 DEF Request, Admitted
<1>4. /\ r.pc = pc /\ r.op = req[q].op /\ r.cred = req[q].cred /\ r.by = a
      /\ r.key = req[q].key /\ r.revoked = req[q].revoked /\ r.ident = ident /\ r.mail = mail
  BY <1>1, <1>3 DEF Request
<1>5. req' = [req EXCEPT ![q] = r]
  BY <1>1, <1>2, <1>3 DEF Admit
<1>6. CredentialIsReal(r) /\ RevocationIsSeen(r)
  BY <1>1, <1>2, <1>4 DEF Sane, CredentialIsReal, RevocationIsSeen, Admitted
<1>7. ActsForMaker(r) /\ KeyInTheMaking(r)
  BY <1>1, <1>2, <1>4 DEF Sane, CredentialIsReal, ActsForMaker, KeyInTheMaking, Admitted
<1>8. QED
  BY <1>4, <1>5, <1>6, <1>7, QuietInv DEF Sane

\* The invariant is kept by verifyToken for an identity provider's token.
LEMMA VerifyTokenInv ==
    ASSUME IInv, NEW q \in Requests, VerifyToken(q)
    PROVE  IInv'
<1>1. PICK a \in Accounts : a = req[q].cred
  BY DEF VerifyToken
<1>2. /\ req[q].pc = "verify" /\ req[q].by = a /\ UNCHANGED <<tables, held, process>>
      /\ req[q].cred \notin APIKeys
  BY <1>1, CredentialsAssumption DEF VerifyToken, At, IInv, TypeOK, Sane, CredentialIsReal
<1>3. CASE Ends(q)
  BY <1>2, <1>3, EndsInv
<1>4. CASE \E mail \in {EmailOf[a], NoEmail} : Admit(q, OwnUser(a), mail)
  BY <1>2, <1>4, AdmitInv, NamesAreIdentities
<1>5. QED
  BY <1>1, <1>3, <1>4 DEF VerifyToken

\* The invariant is kept by the check of a key's signature.
LEMMA VerifyAPIKeyInv ==
    ASSUME IInv, NEW q \in Requests, VerifyAPIKey(q)
    PROVE  IInv'
<1>1. CASE req[q].cred.secret # secret
  BY <1>1, EndsInv DEF VerifyAPIKey
<1>2. CASE req[q].cred.secret = secret
  <2>1. /\ req[q] \in Request /\ req \in [Requests -> Request] /\ Sane(req[q])
        /\ req[q].pc = "verify" /\ req[q].cred \in APIKeys
        /\ UNCHANGED <<tables, held, process>>
    BY DEF IInv, TypeOK, VerifyAPIKey, At
  <2>2. PICK r \in Request : r = [req[q] EXCEPT !.pc = "lookup"]
    BY <2>1 DEF Request
  <2>3. /\ r.pc = "lookup" /\ r.op = req[q].op /\ r.cred = req[q].cred /\ r.by = req[q].by
        /\ r.key = req[q].key /\ r.revoked = req[q].revoked
    BY <2>1, <2>2 DEF Request
  <2>4. req' = [req EXCEPT ![q] = r]
    BY <1>2, <2>1, <2>2 DEF VerifyAPIKey, Goes
  <2>5. Sane(r)
    BY <1>2, <2>1, <2>3
       DEF Sane, CredentialIsReal, RevocationIsSeen, ActsForMaker, KeyInTheMaking, Admitted
  <2>6. QED
    BY <2>1, <2>3, <2>4, <2>5, QuietInv
<1>3. QED
  BY <1>1, <1>2

\* The invariant is kept by the lookup of a key: the subject of a key that reached
\* a client is a name of its maker.
LEMMA IsAPIKeyRevokedInv ==
    ASSUME IInv, NEW q \in Requests, IsAPIKeyRevoked(q)
    PROVE  IInv'
<1>1. CASE Revoked(req[q].cred.id)
  BY <1>1, EndsInv DEF IsAPIKeyRevoked
<1>2. CASE ~Revoked(req[q].cred.id)
  <2>1. /\ req[q].pc = "lookup" /\ req[q].cred \in APIKeys /\ req[q].cred.secret = secret
        /\ Admit(q, req[q].cred.subject, NoEmail) /\ UNCHANGED <<tables, held, process>>
    BY <1>2 DEF IsAPIKeyRevoked, At, IInv, Sane, RevocationIsSeen
  <2>2. req[q].cred \in held /\ req[q].by = req[q].cred.maker /\ req[q].by \in Accounts
    BY <2>1, CredentialsAssumption DEF IInv, Sane, CredentialIsReal
  <2>3. req[q].cred.subject \in NamesOf(req[q].by)
    BY <2>2 DEF IInv, KeyNamesItsMaker
  <2>4. QED
    BY <1>2, <2>1, <2>2, <2>3, AdmitInv
<1>3. QED
  BY <1>1, <1>2

\* The invariant is kept by the making of a key.
LEMMA GenerateAPIKeyInv ==
    ASSUME IInv, NEW q \in Requests, GenerateAPIKey(q)
    PROVE  IInv'
<1>1. PICK k \in KeyIds :
        /\ apiKeys[k] = None
        /\ \A o \in Requests : req[o].key # None => req[o].key.id # k
        /\ req' = [req EXCEPT ![q].pc = "user",
                              ![q].key = [id |-> k, secret |-> secret,
                                          subject |-> KeySubject(q), maker |-> req[q].by]]
  BY DEF GenerateAPIKey
<1>2. /\ req[q] \in Request /\ req \in [Requests -> Request] /\ Sane(req[q])
      /\ req[q].pc = "mint" /\ req[q].op = "apiKey" /\ req[q].by \in Accounts
      /\ UNCHANGED <<tables, held, process>>
  BY DEF IInv, TypeOK, GenerateAPIKey, At, Sane, KeyInTheMaking, CredentialIsReal
<1>3. KeySubject(q) \in NamesOf(req[q].by) /\ KeySubject(q) \in Identities
  BY <1>2, SubjectIsName, NamesAreIdentities DEF Sane, ActsForMaker, Admitted
<1>4. PICK key \in APIKeys :
        key = [id |-> k, secret |-> secret, subject |-> KeySubject(q), maker |-> req[q].by]
  BY <1>2, <1>3 DEF APIKeys, IInv, TypeOK
<1>5. key.id = k /\ key.subject = KeySubject(q) /\ key.maker = req[q].by /\ key # None
  BY <1>4, CredentialsAssumption
<1>6. PICK r \in Request : r = [req[q] EXCEPT !.pc = "user", !.key = key]
  BY <1>2 DEF Request, Admitted
<1>7. /\ r.pc = "user" /\ r.op = "apiKey" /\ r.cred = req[q].cred /\ r.by = req[q].by
      /\ r.key = key /\ r.revoked = req[q].revoked
      /\ r.ident = req[q].ident /\ r.mail = req[q].mail
  BY <1>2, <1>6 DEF Request
<1>8. req' = [req EXCEPT ![q] = r]
  BY <1>1, <1>2, <1>4, <1>6
<1>9. CredentialIsReal(r) /\ RevocationIsSeen(r) /\ ActsForMaker(r)
  BY <1>2, <1>7, CredentialsAssumption
     DEF Sane, CredentialIsReal, RevocationIsSeen, ActsForMaker, Admitted
<1>10. KeyInTheMaking(r)
  BY <1>1, <1>3, <1>5, <1>7 DEF KeyInTheMaking
<1>11. QED
  BY <1>1, <1>2, <1>5, <1>7, <1>8, <1>9, <1>10, QuietInv DEF Sane

\* The invariant is kept by GetOrCreateUser.
LEMMA GetOrCreateUserInv ==
    ASSUME IInv, NEW q \in Requests, GetOrCreateUser(q)
    PROVE  IInv'
<1>1. PICK pc \in {"record", "insert"} :
        /\ pc = IF req[q].op = "apiKey" THEN "record" ELSE "insert"
        /\ pc = "record" <=> req[q].op = "apiKey"
  OBVIOUS
<1>2. /\ req[q] \in Request /\ req \in [Requests -> Request] /\ Sane(req[q])
      /\ req[q].pc = "user" /\ UNCHANGED <<tables, held, process>>
  BY DEF IInv, TypeOK, GetOrCreateUser, At
<1>3. PICK r \in Request : r = [req[q] EXCEPT !.pc = pc]
  BY <1>2 DEF Request, Admitted
<1>4. /\ r.pc = pc /\ r.op = req[q].op /\ r.cred = req[q].cred /\ r.by = req[q].by
      /\ r.key = req[q].key /\ r.revoked = req[q].revoked
      /\ r.ident = req[q].ident /\ r.mail = req[q].mail
  BY <1>2, <1>3 DEF Request
<1>5. req' = [req EXCEPT ![q] = r]
  BY <1>1, <1>2, <1>3 DEF GetOrCreateUser, Goes
<1>6. CredentialIsReal(r) /\ RevocationIsSeen(r)
  BY <1>1, <1>2, <1>4 DEF Sane, CredentialIsReal, RevocationIsSeen, Admitted
<1>7. ActsForMaker(r) /\ KeyInTheMaking(r)
  BY <1>1, <1>2, <1>4 DEF Sane, ActsForMaker, KeyInTheMaking, Admitted
<1>8. QED
  BY <1>2, <1>4, <1>5, <1>6, <1>7, QuietInv DEF Sane

-----------------------------------------------------------------------------
\* The row of a key that is recorded is new: no key in a client's hands and no
\* other key in the making has its id.
LEMMA RecordedKeepsRows ==
    ASSUME IInv, NEW q \in Requests, req[q].pc = "record", apiKeys' = Recorded(q),
           UNCHANGED held
    PROVE  /\ apiKeys' \in [KeyIds -> KeyRow \cup {None}]
           /\ req[q].key \in APIKeys
           /\ apiKeys'[req[q].key.id] # None
           /\ apiKeys'[req[q].key.id].user \in NamesOf(req[q].by)
           /\ \A k \in held : apiKeys'[k.id] = apiKeys[k.id]
           /\ \A o \in Requests \ {q} :
                req[o].key # None => apiKeys'[req[o].key.id] = apiKeys[req[o].key.id]
<1>1. /\ req[q] \in Request /\ Sane(req[q]) /\ req[q].op = "apiKey" /\ req[q].key # None
      /\ req[q].by \in Accounts
  BY DEF IInv, TypeOK, Sane, KeyInTheMaking, CredentialIsReal
<1>2. /\ req[q].key \in APIKeys /\ req[q].key.id \in KeyIds
      /\ req[q].ident \in NamesOf(req[q].by) /\ apiKeys[req[q].key.id] = None
  BY <1>1 DEF Request, APIKeys, Sane, ActsForMaker, KeyInTheMaking, Admitted
<1>3. PICK row \in KeyRow : row = [user |-> req[q].ident, revoked |-> FALSE]
  BY <1>1, <1>2, NamesAreIdentities DEF KeyRow
<1>4. row # None /\ row.user \in NamesOf(req[q].by)
  BY <1>2, <1>3, CredentialsAssumption
<1>5. apiKeys' = [apiKeys EXCEPT ![req[q].key.id] = row]
  BY <1>3 DEF Recorded
<1>6. apiKeys \in [KeyIds -> KeyRow \cup {None}]
  BY DEF IInv, TypeOK
<1>7. \A k \in held : k.id # req[q].key.id
  BY <1>2 DEF IInv, HandedKeyWorks
<1>8. \A o \in Requests \ {q} : req[o].key # None => req[o].key.id # req[q].key.id
  BY <1>1 DEF IInv, KeysAreDistinct
<1>9. QED
  BY <1>2, <1>4, <1>5, <1>6, <1>7, <1>8

\* A request stays sane when the tables change and keep the rows it relies on.
LEMMA RowsKeepSane ==
    ASSUME IInv, NEW o \in Requests, req'[o] = req[o], secret' = secret, held \subseteq held',
           \A k \in held : Revoked(k.id) => Revoked(k.id)',
           req[o].key # None =>
               /\ apiKeys[req[o].key.id] = None => apiKeys'[req[o].key.id] = None
               /\ apiKeys[req[o].key.id] # None =>
                    /\ apiKeys'[req[o].key.id] # None
                    /\ apiKeys'[req[o].key.id].user = apiKeys[req[o].key.id].user
    PROVE  Sane(req[o])'
<1>1. Sane(req[o])
  BY DEF IInv
<1>2. CredentialIsReal(req[o])'
  BY <1>1 DEF Sane, CredentialIsReal
<1>3. RevocationIsSeen(req[o])'
  BY <1>1, CredentialsAssumption
     DEF Sane, RevocationIsSeen, CredentialIsReal, Admitted
<1>4. ActsForMaker(req[o])' /\ KeyInTheMaking(req[o])'
  BY <1>1 DEF Sane, ActsForMaker, KeyInTheMaking, NamesOf, OwnUser
<1>5. QED
  BY <1>2, <1>3, <1>4 DEF Sane

\* The end of a request leaves the others' keys apart.
LEMMA EndedKeepsKeys ==
    ASSUME IInv, NEW q \in Requests, Ends(q)
    PROVE  /\ req' \in [Requests -> Request]
           /\ \A o \in Requests \ {q} : req'[o] = req[o]
           /\ Sane(req[q])'
           /\ KeysAreDistinct'
<1>1. Idle \in Request /\ Idle.key = None /\ Sane(Idle)'
  BY IdleIsSane
<1>2. req' = [req EXCEPT ![q] = Idle] /\ req \in [Requests -> Request]
  BY DEF Ends, IInv, TypeOK
<1>3. req' \in [Requests -> Request] /\ req'[q] = Idle
  BY <1>1, <1>2
<1>4. \A o \in Requests \ {q} : req'[o] = req[o]
  BY <1>2
<1>5. KeysAreDistinct'
  BY <1>1, <1>3, <1>4 DEF IInv, KeysAreDistinct
<1>6. Sane(req[q])'
  BY <1>1, <1>3
<1>7. QED
  BY <1>3, <1>4, <1>5, <1>6

\* The invariant is kept by recording a key, whether the answer arrives or not.
LEMMA RecordedInv ==
    ASSUME IInv, NEW q \in Requests, req[q].pc = "record", apiKeys' = Recorded(q),
           Goes(q, "reply") \/ Ends(q), UNCHANGED <<machines, held, process>>
    PROVE  IInv'
<1> USE DEF process
<1>1. /\ apiKeys' \in [KeyIds -> KeyRow \cup {None}]
      /\ apiKeys'[req[q].key.id] # None
      /\ apiKeys'[req[q].key.id].user \in NamesOf(req[q].by)
      /\ \A k \in held : apiKeys'[k.id] = apiKeys[k.id]
      /\ \A o \in Requests \ {q} :
           req[o].key # None => apiKeys'[req[o].key.id] = apiKeys[req[o].key.id]
  BY RecordedKeepsRows
<1>2. \A k \in held : Revoked(k.id) => Revoked(k.id)'
  BY <1>1 DEF Revoked
<1>3. /\ req' \in [Requests -> Request]
      /\ \A o \in Requests \ {q} : req'[o] = req[o]
      /\ Sane(req[q])'
      /\ KeysAreDistinct'
  <2>1. CASE Ends(q)
    BY <2>1, EndedKeepsKeys
  <2>2. CASE Goes(q, "reply")
    <3>1. req[q] \in Request /\ req \in [Requests -> Request] /\ Sane(req[q])
      BY DEF IInv, TypeOK
    <3>2. PICK r \in Request : r = [req[q] EXCEPT !.pc = "reply"]
      BY <3>1 DEF Request, Admitted
    <3>3. /\ r.pc = "reply" /\ r.op = req[q].op /\ r.cred = req[q].cred /\ r.by = req[q].by
          /\ r.key = req[q].key /\ r.revoked = req[q].revoked
          /\ r.ident = req[q].ident /\ r.mail = req[q].mail
      BY <3>1, <3>2 DEF Request
    <3>4. req' = [req EXCEPT ![q] = r]
      BY <2>2, <3>1, <3>2 DEF Goes
    <3>5. CredentialIsReal(r)' /\ RevocationIsSeen(r)' /\ ActsForMaker(r)'
      BY <3>1, <3>3
         DEF Sane, CredentialIsReal, RevocationIsSeen, ActsForMaker, Admitted, NamesOf, OwnUser
    <3>6. KeyInTheMaking(r)'
      BY <1>1, <3>1, <3>3 DEF Sane, KeyInTheMaking, NamesOf, OwnUser
    <3>7. KeysAreDistinct'
      BY <3>1, <3>3, <3>4 DEF IInv, KeysAreDistinct
    <3>8. QED
      BY <3>1, <3>4, <3>5, <3>6, <3>7 DEF Sane
  <2>3. QED
    BY <2>1, <2>2
<1>4. TypeOK'
  BY <1>1, <1>3 DEF IInv, TypeOK
<1>5. \A o \in Requests : Sane(req[o])'
  BY <1>1, <1>2, <1>3, RowsKeepSane
<1>6. HandedKeyWorks' /\ KeyNamesItsMaker'
  BY <1>1 DEF IInv, HandedKeyWorks, KeyNamesItsMaker, NamesOf, OwnUser
<1>7. QED
  BY <1>3, <1>4, <1>5, <1>6 DEF IInv

\* The invariant is kept by the answer that carries a key: it is on record.
LEMMA ReplyInv ==
    ASSUME IInv, NEW q \in Requests, Reply(q)
    PROVE  IInv'
<1> USE DEF tables, process
<1>1. /\ req[q].pc = "reply" /\ req[q] \in Request /\ Sane(req[q])
      /\ held' \in {held, held \cup {req[q].key}} /\ Ends(q)
      /\ UNCHANGED <<apiKeys, machines, secret, providers>>
  BY DEF Reply, At, IInv, TypeOK
<1>2. /\ req[q].key \in APIKeys
      /\ apiKeys[req[q].key.id] # None
      /\ apiKeys[req[q].key.id].user \in NamesOf(req[q].key.maker)
      /\ req[q].key.subject \in NamesOf(req[q].key.maker)
  BY <1>1 DEF Request, Sane, KeyInTheMaking
<1>3. TypeOK' /\ KeysAreDistinct'
  BY <1>1, <1>2, EndedKeepsKeys DEF IInv, TypeOK
<1>4. \A o \in Requests : Sane(req[o])'
  BY <1>1, EndedKeepsKeys, RowsKeepSane DEF Revoked
<1>5. HandedKeyWorks' /\ KeyNamesItsMaker'
  BY <1>1, <1>2 DEF IInv, HandedKeyWorks, KeyNamesItsMaker, NamesOf, OwnUser
<1>6. QED
  BY <1>3, <1>4, <1>5 DEF IInv

\* The invariant is kept by inserting a machine, whether the answer arrives or not.
LEMMA InsertedInv ==
    ASSUME IInv, NEW q \in Requests, req[q].pc = "insert", machines' = Inserted(q), Ends(q),
           UNCHANGED <<apiKeys, held, process>>
    PROVE  IInv'
<1> USE DEF process
<1>1. req[q].by \in Accounts /\ req[q].ident \in NamesOf(req[q].by)
  BY DEF IInv, Sane, CredentialIsReal, ActsForMaker, Admitted
<1>2. PICK m \in [user : Identities, by : Accounts] :
        m = [user |-> req[q].ident, by |-> req[q].by]
  BY <1>1, NamesAreIdentities
<1>3. m.user \in NamesOf(m.by) /\ machines' = machines \cup {m}
  BY <1>1, <1>2 DEF Inserted
<1>4. TypeOK' /\ KeysAreDistinct'
  BY <1>3, EndedKeepsKeys DEF IInv, TypeOK
<1>5. \A o \in Requests : Sane(req[o])'
  BY EndedKeepsKeys, RowsKeepSane DEF Revoked
<1>6. HandedKeyWorks' /\ KeyNamesItsMaker'
  BY <1>3 DEF IInv, HandedKeyWorks, KeyNamesItsMaker, NamesOf, OwnUser
<1>7. QED
  BY <1>4, <1>5, <1>6 DEF IInv

\* The invariant is kept by a database call that fails, also after it took place.
LEMMA FailsInv ==
    ASSUME IInv, NEW q \in Requests, Fails(q)
    PROVE  IInv'
<1>1. CASE UNCHANGED tables
  BY <1>1, EndsInv DEF Fails
<1>2. CASE At(q, "record") /\ apiKeys' = Recorded(q) /\ UNCHANGED machines
  BY <1>2, RecordedInv DEF Fails, At
<1>3. CASE At(q, "insert") /\ machines' = Inserted(q) /\ UNCHANGED apiKeys
  BY <1>3, InsertedInv DEF Fails, At
<1>4. QED
  BY <1>1, <1>2, <1>3 DEF Fails

\* The invariant is kept when a key is revoked under the requests that use it.
LEMMA RevokeAPIKeyInv ==
    ASSUME IInv, NEW k \in KeyIds, NEW user \in Identities, RevokeAPIKey(k, user)
    PROVE  IInv'
<1>1. /\ apiKeys[k] \in KeyRow /\ apiKeys \in [KeyIds -> KeyRow \cup {None}]
      /\ UNCHANGED <<machines, held, secret, providers, req>>
  BY DEF RevokeAPIKey, process, IInv, TypeOK
<1>2. PICK row \in KeyRow : row = [apiKeys[k] EXCEPT !.revoked = TRUE]
  BY <1>1 DEF KeyRow
<1>3. row # None /\ row.user = apiKeys[k].user /\ row.revoked
  BY <1>1, <1>2, CredentialsAssumption DEF KeyRow
<1>4. apiKeys' = [apiKeys EXCEPT ![k] = row] /\ apiKeys[k] # None
  BY <1>2 DEF RevokeAPIKey
<1>5. TypeOK'
  BY <1>1, <1>4 DEF IInv, TypeOK
<1>6. \A o \in Requests : Sane(req[o])'
  <2>1. \A j \in KeyIds : Revoked(j) => Revoked(j)'
    BY <1>1, <1>3, <1>4 DEF Revoked
  <2>2. \A j \in held : j.id \in KeyIds
    BY DEF IInv, TypeOK, APIKeys
  <2>3. \A j \in KeyIds :
          /\ apiKeys[j] = None => apiKeys'[j] = None
          /\ apiKeys[j] # None => apiKeys'[j] # None /\ apiKeys'[j].user = apiKeys[j].user
    BY <1>1, <1>3, <1>4
  <2>4. \A o \in Requests : req[o].key # None => req[o].key.id \in KeyIds
    BY DEF IInv, TypeOK, Request, APIKeys
  <2>5. QED
    BY <1>1, <2>1, <2>2, <2>3, <2>4, RowsKeepSane
<1>7. KeysAreDistinct' /\ KeyNamesItsMaker'
  BY <1>1 DEF IInv, KeysAreDistinct, KeyNamesItsMaker, NamesOf, OwnUser
<1>8. HandedKeyWorks'
  BY <1>1, <1>3, <1>4 DEF IInv, TypeOK, APIKeys, HandedKeyWorks, NamesOf, OwnUser
<1>9. QED
  BY <1>5, <1>6, <1>7, <1>8 DEF IInv

\* The invariant is kept by a restart, with the same secret or another one.
LEMMA RestartInv ==
    ASSUME IInv, Restart
    PROVE  IInv'
<1>1. Idle \in Request /\ Idle.key = None /\ Sane(Idle)'
  BY IdleIsSane
<1>2. /\ req' = [q \in Requests |-> Idle] /\ UNCHANGED <<apiKeys, machines, held>>
      /\ secret' \in Secrets /\ providers' \subseteq Providers
  BY DEF Restart, tables, AddProviders
<1>3. TypeOK'
  BY <1>1, <1>2 DEF IInv, TypeOK
<1>4. \A q \in Requests : Sane(req[q])'
  BY <1>1, <1>2
<1>5. KeysAreDistinct'
  BY <1>1, <1>2 DEF KeysAreDistinct
<1>6. HandedKeyWorks' /\ KeyNamesItsMaker'
  BY <1>2 DEF IInv, HandedKeyWorks, KeyNamesItsMaker, NamesOf, OwnUser
<1>7. QED
  BY <1>3, <1>4, <1>5, <1>6 DEF IInv

-----------------------------------------------------------------------------
\* Every step of every request, a revocation and a restart keep the invariant.
LEMMA StepInv == IInv /\ [Next]_vars => IInv'
<1> SUFFICES ASSUME IInv, [Next]_vars PROVE IInv'
  OBVIOUS
<1>1. ASSUME NEW q \in Requests, RecordAPIKey(q) \/ CreateMachine(q) PROVE IInv'
  BY <1>1, RecordedInv, InsertedInv DEF RecordAPIKey, CreateMachine, At
<1>2. ASSUME NEW q \in Requests, RequestStep(q) PROVE IInv'
  BY <1>1, <1>2, VerifyTokenInv, VerifyAPIKeyInv, IsAPIKeyRevokedInv, GenerateAPIKeyInv,
     GetOrCreateUserInv, ReplyInv, FailsInv DEF RequestStep
<1>3. CASE UNCHANGED vars
  BY <1>3 DEF vars, tables, process, IInv, TypeOK, Sane, CredentialIsReal, RevocationIsSeen,
              Revoked, ActsForMaker, KeyInTheMaking, KeysAreDistinct, HandedKeyWorks,
              KeyNamesItsMaker, NamesOf, OwnUser
<1>4. QED
  BY <1>2, <1>3, TokenRequestInv, KeyRequestInv, RevokeAPIKeyInv, RestartInv DEF Next

\* The invariant holds of the empty tables and every step keeps it.
LEMMA AccountsInductive == Spec => []IInv
<1>1. Init => IInv
  <2> SUFFICES ASSUME Init PROVE IInv
    OBVIOUS
  <2>1. Idle \in Request /\ Idle.key = None /\ Sane(Idle)
    BY IdleIsSane
  <2>2. TypeOK
    BY <2>1 DEF Init, TypeOK, AddProviders
  <2>3. (\A q \in Requests : Sane(req[q])) /\ KeysAreDistinct
    BY <2>1 DEF Init, KeysAreDistinct
  <2>4. HandedKeyWorks /\ KeyNamesItsMaker
    BY DEF Init, HandedKeyWorks, KeyNamesItsMaker
  <2>5. QED
    BY <2>2, <2>3, <2>4 DEF IInv
<1>2. QED
  BY <1>1, StepInv, PTL DEF Spec

\* Type correctness of the tables and of every request.
THEOREM AccountsTypeOK == Spec => []TypeOK
<1>1. IInv => TypeOK
  BY DEF IInv
<1>2. QED
  BY <1>1, AccountsInductive, PTL

\* verifyToken admits no request that began with a revoked key, nor one whose key
\* was signed with a secret from before the last restart.
THEOREM AccountsRevokedStaysOut == Spec => []RevokedStaysOut
<1>1. IInv => RevokedStaysOut
  BY DEF IInv, Sane, RevocationIsSeen, RevokedStaysOut
<1>2. QED
  BY <1>1, AccountsInductive, PTL

\* HandleGenerateAPIKey records a key before it answers: every key that reached a
\* client has its own row, under a user of the account it goes back to.
THEOREM AccountsHandedKeyWorks == Spec => []HandedKeyWorks
<1>1. IInv => HandedKeyWorks
  BY DEF IInv
<1>2. QED
  BY <1>1, AccountsInductive, PTL

\* However long the chain of keys made with keys, a key and a machine enrolled
\* with it go by a name of the account at its root.
THEOREM AccountsKeyNamesItsMaker == Spec => []KeyNamesItsMaker
<1>1. IInv => KeyNamesItsMaker
  BY DEF IInv
<1>2. QED
  BY <1>1, AccountsInductive, PTL
=============================================================================
