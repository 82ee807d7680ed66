------------------------------ MODULE Accounts ------------------------------
(***************************************************************************)
(* Who a request acts for: verifyToken (an identity provider's token or an *)
(* API key), HandleGenerateAPIKey, which makes API keys, the api_keys      *)
(* table, and HandleCreateMachine as the operation whose owner matters.    *)
(*                                                                         *)
(* An authenticated request is a chain of database calls, so keys are      *)
(* revoked and the relay restarts (with another signing secret, unless     *)
(* API_KEY_SECRET is set) while requests are on their way; a call may fail *)
(* and a reply may be lost.  A user is its identity here: module Directory *)
(* says that GetOrCreateUser finds or makes the one row of an identity.    *)
(* The relay runs without DEV_MODE, in which it does not check tokens.     *)
(***************************************************************************)
CONSTANTS
    Accounts,     \* people's accounts, each named by its OIDC subject
    Providers,
    ProviderOf,   \* the identity provider of an account
    Emails,
    EmailOf,      \* its email address
    KeyIds,       \* ids gonanoid may return
    Secrets,      \* signing secrets
    Requests,     \* requests at once
    NoEmail,      \* ""
    None

ASSUME AccountsAssumption ==
    /\ ProviderOf \in [Accounts -> Providers]
    /\ EmailOf \in [Accounts -> Emails]
    /\ NoEmail \notin Emails \cup Accounts
    /\ None \notin Accounts

VARIABLES
    apiKeys,     \* the api_keys table
    machines,    \* machine rows: the user they are under, and who created them
    held,        \* API keys that reached a client
    secret,      \* Server.apiKeySecret
    providers,   \* the providers registered when the relay started
    req          \* the requests

tables == <<apiKeys, machines>>
process == <<secret, providers>>
vars == <<tables, held, process, req>>

\* (provider, subject), the columns that name a user.
Identities == Providers \X (Accounts \cup Emails)

\* The user an account signs in to the web app as.
OwnUser(a) == <<ProviderOf[a], a>>

\* A signed key; `maker` is history: the account at the root of its making.
APIKeys == [id : KeyIds, secret : Secrets, subject : Identities, maker : Accounts]

\* A request: what it asks for, its credential, the identity verifyToken
\* returned, the key it has made; and history: the account behind the
\* credential, and whether the key was revoked before the request began.
Idle == [pc |-> "idle", op |-> None, cred |-> None, ident |-> None, mail |-> NoEmail,
         key |-> None, by |-> None, revoked |-> FALSE]

\* Past verifyToken.
Admitted == {"mint", "user", "record", "reply", "insert"}

Request == [pc : {"idle", "verify", "lookup"} \cup Admitted,
            op : {"apiKey", "enroll", None},
            cred : Accounts \cup APIKeys \cup {None},
            ident : Identities \cup {None},
            mail : Emails \cup {NoEmail},
            key : APIKeys \cup {None},
            by : Accounts \cup {None},
            revoked : BOOLEAN]

\* A row of the api_keys table.
KeyRow == [user : Identities, revoked : BOOLEAN]

\* The prefix "phk:" tells a key from a token, and a row is not nil.
ASSUME CredentialsAssumption ==
    /\ \A a \in Accounts \cup {None} : a \notin APIKeys
    /\ None \notin KeyRow \cup {"apiKey", "enroll"}

TypeOK ==
    /\ apiKeys \in [KeyIds -> KeyRow \cup {None}]
    /\ machines \subseteq [user : Identities, by : Accounts]
    /\ held \subseteq APIKeys
    /\ secret \in Secrets
    /\ providers \subseteq Providers
    /\ req \in [Requests -> Request]

\* Startup registers the providers that are configured; one whose discovery
\* fails is left out.
AddProviders == SUBSET Providers

Init ==
    /\ apiKeys = [k \in KeyIds |-> None]
    /\ machines = {}
    /\ held = {}
    /\ secret \in Secrets
    /\ providers \in AddProviders
    /\ req = [q \in Requests |-> Idle]

At(q, pc) == req[q].pc = pc
Goes(q, pc) == req' = [req EXCEPT ![q].pc = pc]
Ends(q) == req' = [req EXCEPT ![q] = Idle]

Revoked(k) == apiKeys[k] = None \/ apiKeys[k].revoked

-----------------------------------------------------------------------------
(* verifyToken.                                                             *)

\* A request arrives with an account's OIDC token.
TokenRequest(q, op, a) ==
    /\ At(q, "idle")
    /\ req' = [req EXCEPT ![q] = [Idle EXCEPT !.pc = "verify", !.op = op, !.cred = a, !.by = a]]
    /\ UNCHANGED <<tables, held, process>>

\* A request arrives with an API key.
KeyRequest(q, op, k) ==
    /\ At(q, "idle")
    /\ req' = [req EXCEPT ![q] = [Idle EXCEPT !.pc = "verify", !.op = op, !.cred = k,
                                              !.by = k.maker, !.revoked = Revoked(k.id)]]
    /\ UNCHANGED <<tables, held, process>>

\* verifyToken returns an identity and the handler goes on.
Admit(q, ident, mail) ==
    req' = [req EXCEPT ![q].pc = IF req[q].op = "apiKey" THEN "mint" ELSE "user",
                       ![q].ident = ident,
                       ![q].mail = mail]

\* Mutant: the loop's variable names another provider than the one that verified.
VerifyTokenAnyName(q) ==
    /\ At(q, "verify")
    /\ req[q].cred \in Accounts
    /\ LET a == req[q].cred
       IN  \/ /\ ProviderOf[a] \in providers
              /\ \E p \in providers, mail \in {EmailOf[a], NoEmail} : Admit(q, <<p, a>>, mail)
           \/ Ends(q)
    /\ UNCHANGED <<tables, held, process>>

\* An OIDC token: the provider that issued it, if it is registered, verifies it.
\* The email claim is optional.  A token may also be refused (expired).
VerifyToken(q) ==
    /\ At(q, "verify")
    /\ req[q].cred \in Accounts
    /\ LET a == req[q].cred
       IN  \/ /\ ProviderOf[a] \in providers
              /\ \E mail \in {EmailOf[a], NoEmail} : Admit(q, OwnUser(a), mail)
           \/ Ends(q)
    /\ UNCHANGED <<tables, held, process>>

\* "phk:": the signature is checked with the current secret.
VerifyAPIKey(q) ==
    /\ At(q, "verify")
    /\ req[q].cred \in APIKeys
    /\ IF req[q].cred.secret = secret THEN Goes(q, "lookup") ELSE Ends(q)
    /\ UNCHANGED <<tables, held, process>>

\* Mutant: a signature is good enough.
IsAPIKeyRevokedNever(q) ==
    /\ At(q, "lookup")
    /\ Admit(q, req[q].cred.subject, NoEmail)
    /\ UNCHANGED <<tables, held, process>>

\* Then the table is asked, where an unknown id counts as revoked; the key's
\* subject is the identity, without an email.
IsAPIKeyRevoked(q) ==
    /\ At(q, "lookup")
    /\ IF Revoked(req[q].cred.id) THEN Ends(q) ELSE Admit(q, req[q].cred.subject, NoEmail)
    /\ UNCHANGED <<tables, held, process>>

-----------------------------------------------------------------------------
(* HandleGenerateAPIKey and HandleCreateMachine.                            *)

\* A key is for the identity's email, if it came with one, in place of its subject.
KeySubject(q) == <<req[q].ident[1], IF req[q].mail # NoEmail THEN req[q].mail ELSE req[q].ident[2]>>

\* gonanoid's id is fresh; the current secret signs the key.
GenerateAPIKey(q) ==
    /\ At(q, "mint")
    /\ \E k \in KeyIds :
          /\ apiKeys[k] = None
          /\ \A o \in Requests : req[o].key # None => req[o].key.id # k
          /\ req' = [req EXCEPT ![q].pc = "user",
                                ![q].key = [id |-> k, secret |-> secret,
                                            subject |-> KeySubject(q), maker |-> req[q].by]]
    /\ UNCHANGED <<tables, held, process>>

\* The user's row is found or made.
GetOrCreateUser(q) ==
    /\ At(q, "user")
    /\ Goes(q, IF req[q].op = "apiKey" THEN "record" ELSE "insert")
    /\ UNCHANGED <<tables, held, process>>

Recorded(q) == [apiKeys EXCEPT ![req[q].key.id] = [user |-> req[q].ident, revoked |-> FALSE]]

RecordAPIKey(q) ==
    /\ At(q, "record")
    /\ apiKeys' = Recorded(q)
    /\ Goes(q, "reply")
    /\ UNCHANGED <<machines, held, process>>

\* The key is sent to the client; the response may be lost.
Reply(q) ==
    /\ At(q, "reply")
    /\ held' \in {held, held \cup {req[q].key}}
    /\ Ends(q)
    /\ UNCHANGED <<tables, process>>

Inserted(q) == machines \cup {[user |-> req[q].ident, by |-> req[q].by]}

\* HandleCreateMachine inserts a machine under the user's tenant.
CreateMachine(q) ==
    /\ At(q, "insert")
    /\ machines' = Inserted(q)
    /\ Ends(q)
    /\ UNCHANGED <<apiKeys, held, process>>

\* Mutant: RecordAPIKey's error is logged and the key is sent.
FailsUnnoticed(q) ==
    /\ req[q].pc \in {"lookup", "user", "record", "insert"}
    /\ IF At(q, "record") THEN Goes(q, "reply") ELSE Ends(q)
    /\ UNCHANGED <<tables, held, process>>

\* A database call fails, which may have taken place; the request ends in error.
Fails(q) ==
    /\ req[q].pc \in {"lookup", "user", "record", "insert"}
    /\ \/ UNCHANGED tables
       \/ At(q, "record") /\ apiKeys' = Recorded(q) /\ UNCHANGED machines
       \/ At(q, "insert") /\ machines' = Inserted(q) /\ UNCHANGED apiKeys
    /\ Ends(q)
    /\ UNCHANGED <<held, process>>

-----------------------------------------------------------------------------
\* Store.RevokeAPIKey, which no handler calls: somebody with access to the
\* database does.
RevokeAPIKey(k, user) ==
    /\ apiKeys[k] # None
    /\ apiKeys[k].user = user
    /\ ~apiKeys[k].revoked
    /\ apiKeys' = [apiKeys EXCEPT ![k].revoked = TRUE]
    /\ UNCHANGED <<machines, held, process, req>>

\* The relay restarts: API_KEY_SECRET is set and the secret is the same, or a
\* random one is generated.
Restart ==
    /\ secret' \in Secrets
    /\ providers' \in AddProviders
    /\ req' = [q \in Requests |-> Idle]
    /\ UNCHANGED <<tables, held>>

RequestStep(q) ==
    \/ VerifyToken(q) \/ VerifyAPIKey(q) \/ IsAPIKeyRevoked(q)
    \/ GenerateAPIKey(q) \/ GetOrCreateUser(q) \/ RecordAPIKey(q) \/ Reply(q)
    \/ CreateMachine(q) \/ Fails(q)

Next ==
    \/ \E q \in Requests :
         \/ RequestStep(q)
         \/ \E op \in {"apiKey", "enroll"} :
              \/ \E a \in Accounts : TokenRequest(q, op, a)
              \/ \E k \in held : KeyRequest(q, op, k)
    \/ \E k \in KeyIds, u \in Identities : RevokeAPIKey(k, u)
    \/ Restart

Spec == Init /\ [][Next]_vars

-----------------------------------------------------------------------------
(* Properties.                                                               *)

\* A key that was revoked, or signed with a secret the relay no longer has, is
\* of no use to a request that begins afterwards (VerifyAPIKey and
\* IsAPIKeyRevoked look at the state of now, not at one of an earlier request).
RevokedStaysOut ==
    \A q \in Requests :
        req[q].pc \in Admitted /\ req[q].cred \in APIKeys
        => ~req[q].revoked /\ req[q].cred.secret = secret

\* The names an account goes by.
NamesOf(a) == {OwnUser(a), <<ProviderOf[a], EmailOf[a]>>}

\* A key that reached a client is on record, for a user of the account it goes
\* back to: it works until it is revoked or the secret changes, although unknown
\* ids are refused, and whoever revokes it does so for that account
\* (HandleGenerateAPIKey records the key before it answers).
HandedKeyWorks ==
    \A k \in held : apiKeys[k.id] # None /\ apiKeys[k.id].user \in NamesOf(k.maker)

\* A key acts under a name of the account it goes back to, also when it was made
\* with another key, and so does every machine enrolled with one.
KeyNamesItsMaker ==
    /\ \A k \in held : k.subject \in NamesOf(k.maker)
    /\ \A m \in machines : m.user \in NamesOf(m.by)

\* "registers the machine under your account": a machine is enrolled under the
\* user its creator signs in as, with an API key too.  The code does not ensure
\* it: a key's subject is the email address.
EnrolledUnderOwnAccount ==
    \A m \in machines : m.user = OwnUser(m.by)
=============================================================================
