----------------------------- MODULE EnrollProofs -----------------------------
(***************************************************************************)
(* Proofs about modules Enroll and TokenCache, for any number of hosts,    *)
(* accounts, keys, names and concurrent commands: a config on disk names a *)
(* row, an enroll that reports success leaves a machine that can connect,  *)
(* and it is under the account it was meant for.                           *)
(***************************************************************************)
EXTENDS Enroll, TLAPS

\* A login that runs has a host, and one that writes a token has it.
LoginsAreSane ==
    \A l \in Logins :
        /\ login[l].pc # "idle" => login[l].host # None
        /\ login[l].pc = "write" => login[l].acct # None

\* A token in the cache is of the account the user last signed in as, unless
\* logins overlapped.
TokenIsMine ==
    \A h \in Hosts : tokenFile[h] \in Accounts => me[h] \in {tokenFile[h], "unsure"}

\* The relay has created the row of key k.
Created(k) == row[k] # None \/ k \in deleted

\* A command that runs has a host and a name, and from some point on a key, of
\* which there is a row once the relay has answered, and not before.
Sane(r) ==
    /\ r.pc = "idle" <=> r.host = None
    /\ r.pc # "idle" => r.name # None
    /\ r.key # None <=> r.pc \in {"key", "post", "info", "cfg"}
    /\ r.pc \in {"key", "post"} => ~Created(r.key)
    /\ r.pc \in {"info", "cfg"} => Created(r.key)

\* A command beside which no other runs on its host has written its own key, and
\* presents a token of the account it is meant for.
Alone(r) ==
    r.pc # "idle" /\ ~overlap[r.host] =>
        /\ last[r.host] = "busy"
        /\ r.pc \in {"post", "info", "cfg"} => keyFile[r.host] = r.key
        /\ who[r.host] # "unsure" =>
             /\ r.pc \in {"key", "post"} /\ r.tok \in Accounts => r.tok = who[r.host]
             /\ r.pc \in {"info", "cfg"} => owner[r.key] = who[r.host] \/ r.key \in deleted

\* Commands have keys of their own, and two of them share a host only as overlap
\* says.
RunsAreApart ==
    \A e, o \in Runs : e # o =>
        /\ run[e].key # None => run[e].key # run[o].key
        /\ run[e].host # None /\ run[e].host = run[o].host => overlap[run[e].host]

\* What a successful enroll leaves on the host, and on the relay.
Left(h) ==
    last[h] = "ok" /\ ~overlap[h] =>
        /\ cfgFile[h] \in Keys
        /\ keyFile[h] = cfgFile[h]
        /\ who[h] # "unsure" => owner[cfgFile[h]] = who[h] \/ cfgFile[h] \in deleted

\* The inductive invariant.
IInv ==
    /\ TypeOK
    /\ LoginsAreSane
    /\ TokenIsMine
    /\ \A e \in Runs : Sane(run[e]) /\ Alone(run[e])
    /\ RunsAreApart
    /\ ConfigNamesARow
    /\ \A h \in Hosts : Left(h)

-----------------------------------------------------------------------------
(* phosphor login, and the token it leaves.                                 *)

\* The invariant is kept by a step of the token cache, if its own part is.
LEMMA TokensInv ==
    ASSUME IInv, UNCHANGED <<relay, disk, run, last, seen>>,
           TokenTypeOK', LoginsAreSane', TokenIsMine'
    PROVE  IInv'
<1> USE DEF relay, disk, seen, IInv
<1>1. TypeOK'
  BY DEF TypeOK
<1>2. \A e \in Runs : Sane(run[e])' /\ Alone(run[e])'
  BY DEF Sane, Alone, Created
<1>3. RunsAreApart' /\ ConfigNamesARow' /\ \A h \in Hosts : Left(h)'
  BY DEF RunsAreApart, ConfigNamesARow, Left
<1>4. QED
  BY <1>1, <1>2, <1>3

\* The state of a login command.
LoginCommand == [pc : {"idle", "browser", "poll", "write", "unlinked"},
                 host : Hosts \cup {None},
                 acct : Accounts \cup {"blank", None}]

\* The cache's part of the invariant is kept by a step of one login that writes
\* to its host's file what it has a token for, or nothing that passes for one.
LEMMA LoginKeepsTokens ==
    ASSUME IInv, NEW l \in Logins, NEW r \in LoginCommand, NEW h \in Hosts,
           login' = [login EXCEPT ![l] = r],
           r.pc # "idle" => r.host # None,
           r.pc = "write" => r.acct # None,
           NEW f \in Contents \cup {None, Torn}, NEW a \in Accounts \cup {"blank", "unsure", None},
           tokenFile' = [tokenFile EXCEPT ![h] = f], me' = [me EXCEPT ![h] = a],
           f \in Accounts => a \in {f, "unsure"}
    PROVE  TokenTypeOK' /\ LoginsAreSane' /\ TokenIsMine'
<1>1. /\ login \in [Logins -> LoginCommand]
      /\ tokenFile \in [Hosts -> Contents \cup {None, Torn}]
      /\ me \in [Hosts -> Accounts \cup {"blank", "unsure", None}]
  BY DEF IInv, TypeOK, TokenTypeOK, LoginCommand
<1>2. /\ login' \in [Logins -> LoginCommand]
      /\ tokenFile' \in [Hosts -> Contents \cup {None, Torn}]
      /\ me' \in [Hosts -> Accounts \cup {"blank", "unsure", None}]
  BY <1>1
<1>3. TokenTypeOK'
  BY <1>2 DEF TokenTypeOK, LoginCommand
<1>4. LoginsAreSane'
  BY <1>1 DEF IInv, LoginsAreSane
<1>5. TokenIsMine'
  BY <1>1 DEF IInv, TokenIsMine
<1>6. QED
  BY <1>3, <1>4, <1>5

\* The idle login command.
LEMMA LoginIdleType ==
    LoginIdle \in LoginCommand /\ LoginIdle.pc = "idle"
  BY DEF LoginIdle, LoginCommand

\* The cache's part of the invariant is kept by the start of a login.
LEMMA LoginStarts ==
    ASSUME IInv, NEW l \in Logins, NEW h \in Hosts, NEW way \in {"browser", "poll"},
           Login(l, h, way)
    PROVE  TokenTypeOK' /\ LoginsAreSane' /\ TokenIsMine'
<1>1. PICK r \in LoginCommand : r = [pc |-> way, host |-> h, acct |-> None]
  BY DEF LoginCommand
<1>2. r.pc = way /\ r.host = h /\ h # None
  BY <1>1, EnrollAssumption
<1>3. login' = [login EXCEPT ![l] = r] /\ UNCHANGED <<tokenFile, me>>
  BY <1>1 DEF Login
<1>4. tokenFile \in [Hosts -> Contents \cup {None, Torn}]
      /\ me \in [Hosts -> Accounts \cup {"blank", "unsure", None}]
  BY DEF IInv, TypeOK, TokenTypeOK
<1>5. login \in [Logins -> LoginCommand]
  BY DEF IInv, TypeOK, TokenTypeOK, LoginCommand
<1>6. TokenTypeOK'
  BY <1>3, <1>4, <1>5 DEF TokenTypeOK, LoginCommand
<1>7. LoginsAreSane'
  BY <1>2, <1>3, <1>5 DEF IInv, LoginsAreSane
<1>8. TokenIsMine'
  BY <1>3 DEF IInv, TokenIsMine
<1>9. QED
  BY <1>6, <1>7, <1>8

\* The cache's part of the invariant is kept when a login has its token and
\* truncates the file.
LEMMA LoginSaves ==
    ASSUME IInv, NEW l \in Logins, NEW a \in Accounts \cup {"blank"},
           login[l].pc # "idle", SaveTokenCache(l, a)
    PROVE  TokenTypeOK' /\ LoginsAreSane' /\ TokenIsMine'
<1>1. /\ login \in [Logins -> LoginCommand] /\ login[l] \in LoginCommand
      /\ tokenFile \in [Hosts -> Contents \cup {None, Torn}]
      /\ me \in [Hosts -> Accounts \cup {"blank", "unsure", None}]
  BY DEF IInv, TypeOK, TokenTypeOK, LoginCommand
<1>2. PICK h \in Hosts : h = login[l].host
  BY <1>1 DEF IInv, LoginsAreSane, LoginCommand
<1>3. PICK r \in LoginCommand : r = [login[l] EXCEPT !.pc = "write", !.acct = a]
  BY <1>1 DEF LoginCommand
<1>4. r.pc = "write" /\ r.host = h /\ r.acct = a /\ h # None
  BY <1>1, <1>2, <1>3, EnrollAssumption DEF LoginCommand
<1>5. a # None /\ Torn \in Contents \cup {None, Torn} /\ Torn \notin Accounts
  BY EnrollAssumption
<1>6. /\ login' = [login EXCEPT ![l] = r] /\ tokenFile' = [tokenFile EXCEPT ![h] = Torn]
      /\ me' = [me EXCEPT ![h] = me[h]] /\ me[h] \in Accounts \cup {"blank", "unsure", None}
  BY <1>1, <1>2, <1>3 DEF SaveTokenCache
<1>7. QED
  BY <1>4, <1>5, <1>6, LoginKeepsTokens

\* The cache's part of the invariant is kept when a login ends and says so.
LEMMA LoginSucceeds ==
    ASSUME IInv, NEW l \in Logins, login[l].pc \in {"write", "unlinked"},
           WriteTokens(l) \/ WriteUnlinked(l)
    PROVE  TokenTypeOK' /\ LoginsAreSane' /\ TokenIsMine'
<1>1. /\ login \in [Logins -> LoginCommand] /\ login[l] \in LoginCommand
      /\ tokenFile \in [Hosts -> Contents \cup {None, Torn}]
      /\ me \in [Hosts -> Accounts \cup {"blank", "unsure", None}]
  BY DEF IInv, TypeOK, TokenTypeOK, LoginCommand
<1>2. PICK h \in Hosts : h = login[l].host
  BY <1>1 DEF IInv, LoginsAreSane, LoginCommand
<1>3. LoginIdle \in LoginCommand /\ LoginIdle.pc = "idle"
  BY LoginIdleType
<1>4. login' = [login EXCEPT ![l] = LoginIdle]
  BY DEF WriteTokens, WriteUnlinked, Succeeds
<1>5. CASE WriteTokens(l)
  <2>1. PICK a \in Accounts \cup {"blank"} : a = login[l].acct
    BY <1>1, <1>5 DEF IInv, LoginsAreSane, LoginCommand, WriteTokens
  <2>2. PICK m \in {a, "unsure"} : me' = [me EXCEPT ![h] = m]
    BY <1>2, <1>5, <2>1 DEF WriteTokens, Succeeds
  <2>3. PICK f \in {a, Torn} : tokenFile' = [tokenFile EXCEPT ![h] = f]
    BY <1>2, <1>5, <2>1 DEF WriteTokens
  <2>4. f \in Contents \cup {None, Torn} /\ m \in Accounts \cup {"blank", "unsure", None}
    BY DEF Contents
  <2>5. f \in Accounts => m \in {f, "unsure"}
    BY EnrollAssumption
  <2>6. QED
    BY <1>3, <1>4, <2>2, <2>3, <2>4, <2>5, LoginKeepsTokens
<1>6. CASE WriteUnlinked(l)
  <2>1. me' = [me EXCEPT ![h] = "unsure"]
    BY <1>2, <1>6 DEF WriteUnlinked, Succeeds
  <2>2. PICK f \in Contents \cup {None, Torn} : f = tokenFile[h]
    BY <1>1
  <2>3. tokenFile' = [tokenFile EXCEPT ![h] = f]
    BY <1>1, <1>6, <2>2 DEF WriteUnlinked
  <2>4. "unsure" \in Accounts \cup {"blank", "unsure", None}
    OBVIOUS
  <2>5. QED
    BY <1>3, <1>4, <2>1, <2>3, <2>4, LoginKeepsTokens
<1>7. QED
  BY <1>5, <1>6

\* The cache's part of the invariant is kept when a login fails.
LEMMA LoginFailsKeeps ==
    ASSUME IInv, NEW l \in Logins, LoginFails(l)
    PROVE  TokenTypeOK' /\ LoginsAreSane' /\ TokenIsMine'
<1>1. /\ login \in [Logins -> LoginCommand]
      /\ tokenFile \in [Hosts -> Contents \cup {None, Torn}]
      /\ me \in [Hosts -> Accounts \cup {"blank", "unsure", None}]
  BY DEF IInv, TypeOK, TokenTypeOK, LoginCommand
<1>2. login' = [login EXCEPT ![l] = LoginIdle] /\ UNCHANGED <<tokenFile, me>>
  BY DEF LoginFails
<1>3. TokenTypeOK'
  BY <1>1, <1>2, LoginIdleType DEF TokenTypeOK, LoginCommand
<1>4. LoginsAreSane'
  BY <1>1, <1>2, LoginIdleType DEF IInv, LoginsAreSane
<1>5. TokenIsMine'
  BY <1>2 DEF IInv, TokenIsMine
<1>6. QED
  BY <1>3, <1>4, <1>5

\* The cache's part of the invariant is kept by a logout, which takes the file
\* away under the logins that write it.
LEMMA LogoutKeeps ==
    ASSUME IInv, NEW h \in Hosts, Logout(h)
    PROVE  TokenTypeOK' /\ LoginsAreSane' /\ TokenIsMine'
<1>1. /\ login \in [Logins -> LoginCommand]
      /\ tokenFile \in [Hosts -> Contents \cup {None, Torn}]
      /\ me \in [Hosts -> Accounts \cup {"blank", "unsure", None}]
  BY DEF IInv, TypeOK, TokenTypeOK, LoginCommand
<1>2. PICK r \in LoginCommand : r = [pc |-> "unlinked", host |-> h, acct |-> None]
  BY DEF LoginCommand
<1>3. r.pc = "unlinked" /\ r.host = h /\ h # None
  BY <1>2, EnrollAssumption
<1>4. login' = [l \in Logins |-> IF login[l].host = h /\ login[l].pc = "write"
                                 THEN r ELSE login[l]]
  BY <1>2 DEF Logout
<1>5. PICK m \in {"unsure", None} : me' = [me EXCEPT ![h] = m]
  BY DEF Logout
<1>6. tokenFile' = [tokenFile EXCEPT ![h] = None]
  BY DEF Logout
<1>7. login' \in [Logins -> LoginCommand]
  BY <1>1, <1>4
<1>8. TokenTypeOK'
  BY <1>1, <1>5, <1>6, <1>7 DEF TokenTypeOK, LoginCommand
<1>9. LoginsAreSane'
  BY <1>3, <1>4 DEF IInv, LoginsAreSane
<1>10. None \notin Accounts
  BY EnrollAssumption
<1>11. TokenIsMine'
  BY <1>1, <1>5, <1>6, <1>10 DEF IInv, TokenIsMine
<1>12. QED
  BY <1>8, <1>9, <1>11

\* The cache's part of the invariant is kept when the token in it expires.
LEMMA TokenExpiresKeeps ==
    ASSUME IInv, NEW h \in Hosts, TokenExpires(h)
    PROVE  TokenTypeOK' /\ LoginsAreSane' /\ TokenIsMine'
<1>1. tokenFile \in [Hosts -> Contents \cup {None, Torn}]
  BY DEF IInv, TypeOK, TokenTypeOK
<1>2. tokenFile' = [tokenFile EXCEPT ![h] = "expired"] /\ UNCHANGED <<login, me>>
  BY DEF TokenExpires
<1>3. TokenTypeOK'
  BY <1>1, <1>2 DEF IInv, TypeOK, TokenTypeOK, Contents
<1>4. LoginsAreSane'
  BY <1>2 DEF IInv, LoginsAreSane
<1>5. "expired" \notin Accounts
  BY EnrollAssumption
<1>6. TokenIsMine'
  BY <1>1, <1>2, <1>5 DEF IInv, TokenIsMine
<1>7. QED
  BY <1>3, <1>4, <1>6

\* The invariant is kept by every step of the token cache.
LEMMA TokenStepInv ==
    ASSUME IInv, TokenStep, UNCHANGED <<relay, disk, run, last, seen>>
    PROVE  IInv'
<1>1. TokenTypeOK' /\ LoginsAreSane' /\ TokenIsMine'
  <2>1. CASE \E l \in Logins : LoginStep(l)
    <3>1. PICK l \in Logins : LoginStep(l)
      BY <2>1
    <3>2. CASE \E h \in Hosts : Login(l, h, "browser") \/ RequestDeviceCode(l, h)
      BY <3>2, LoginStarts DEF RequestDeviceCode
    <3>3. CASE \E a \in Accounts : BrowserLogin(l, a)
      BY <3>3, LoginSaves DEF BrowserLogin
    <3>4. CASE \E a \in Accounts \cup {"blank"} : PollForToken(l, a)
      BY <3>4, LoginSaves DEF PollForToken
    <3>5. CASE WriteTokens(l) \/ WriteUnlinked(l)
      <4>1. login[l].pc \in {"write", "unlinked"}
        BY <3>5 DEF WriteTokens, WriteUnlinked
      <4>2. QED
        BY <3>5, <4>1, LoginSucceeds
    <3>6. CASE LoginFails(l)
      BY <3>6, LoginFailsKeeps
    <3>7. QED
      BY <3>1, <3>2, <3>3, <3>4, <3>5, <3>6 DEF LoginStep
  <2>2. CASE \E h \in Hosts : Logout(h) \/ TokenExpires(h)
    BY <2>2, LogoutKeeps, TokenExpiresKeeps
  <2>3. QED
    BY <2>1, <2>2 DEF TokenStep
<1>2. QED
  BY <1>1, TokensInv

-----------------------------------------------------------------------------
(* phosphor enroll.                                                         *)

\* The invariant is kept by a step of command e on host h that leaves the other
\* hosts and the other commands alone, that touches no row but one it creates,
\* and that keeps the command's own part of the invariant.
LEMMA RunStepInv ==
    ASSUME IInv, TypeOK', NEW e \in Runs, NEW h \in Hosts,
           UNCHANGED <<deleted, tokenVars>>,
           \A o \in Runs : o # e => run'[o] = run[o],
           run'[e].host \in {h, None},
           \A o \in Runs : o # e /\ run[o].host = h => overlap'[h],
           \A x \in Hosts : x # h =>
              /\ keyFile'[x] = keyFile[x] /\ cfgFile'[x] = cfgFile[x]
              /\ last'[x] = last[x] /\ overlap'[x] = overlap[x] /\ who'[x] = who[x],
           \A k \in Keys :
              \/ row'[k] = row[k] /\ owner'[k] = owner[k]
              \/ ~Created(k) /\ \A o \in Runs : o # e => run[o].key # k,
           \A k \in Keys : row[k] # None => row'[k] # None,
           \A o \in Runs : o # e /\ run'[e].key # None => run[o].key # run'[e].key,
           Sane(run[e])', Alone(run[e])',
           cfgFile'[h] \in Keys => Created(cfgFile[h])',
           Left(h)'
    PROVE  IInv'
<1>1. LoginsAreSane' /\ TokenIsMine'
  BY DEF IInv, LoginsAreSane, TokenIsMine, tokenVars
<1>2. \A k \in Keys : Created(k) => Created(k)' /\ owner'[k] = owner[k]
  BY DEF Created
<1>3. ASSUME NEW o \in Runs, o # e
      PROVE  Sane(run[o])' /\ Alone(run[o])'
  <2>1. run[o] \in EnrollRun /\ Sane(run[o]) /\ Alone(run[o])
    BY DEF IInv, TypeOK
  <2>2. run'[o] = run[o] /\ deleted' = deleted
    BY <1>3
  <2>3. Sane(run[o])'
    BY <1>2, <1>3, <2>1, <2>2 DEF Sane, Created, EnrollRun
  <2>4. CASE run[o].pc = "idle"
    BY <2>2, <2>3, <2>4 DEF Alone
  <2>5. CASE run[o].pc # "idle" /\ run[o].host = h
    BY <1>3, <2>2, <2>3, <2>5 DEF Alone
  <2>6. CASE run[o].pc # "idle" /\ run[o].host # h
    <3>1. run[o].host \in Hosts
      BY <2>1, <2>6 DEF Sane, EnrollRun
    <3>2. /\ keyFile'[run[o].host] = keyFile[run[o].host]
          /\ last'[run[o].host] = last[run[o].host]
          /\ overlap'[run[o].host] = overlap[run[o].host]
          /\ who'[run[o].host] = who[run[o].host]
      BY <2>6, <3>1
    <3>3. run[o].pc \in {"info", "cfg"} => owner'[run[o].key] = owner[run[o].key]
      BY <1>2, <2>1 DEF Sane, EnrollRun
    <3>4. QED
      BY <2>1, <2>2, <2>3, <3>2, <3>3 DEF Alone
  <2>7. QED
    BY <2>3, <2>4, <2>5, <2>6
<1>4. RunsAreApart'
  <2>1. SUFFICES ASSUME NEW p \in Runs, NEW o \in Runs, p # o
                 PROVE  /\ run'[p].key # None => run'[p].key # run'[o].key
                        /\ run'[p].host # None /\ run'[p].host = run'[o].host
                           => overlap'[run'[p].host]
    BY DEF RunsAreApart
  <2>2. run'[p].key # None => run'[p].key # run'[o].key
    BY <2>1 DEF IInv, RunsAreApart
  <2>3. ASSUME run'[p].host # None, run'[p].host = run'[o].host
        PROVE  overlap'[run'[p].host]
    <3>1. CASE p = e \/ o = e
      BY <2>1, <2>3, <3>1
    <3>2. CASE p # e /\ o # e
      <4>1. run'[p] = run[p] /\ run'[o] = run[o]
        BY <3>2
      <4>2. run[p].host \in Hosts /\ overlap[run[p].host]
        BY <2>1, <2>3, <4>1 DEF IInv, RunsAreApart, TypeOK, EnrollRun
      <4>3. CASE run[p].host = h
        BY <3>2, <4>1, <4>3
      <4>4. CASE run[p].host # h
        BY <4>1, <4>2, <4>4
      <4>5. QED
        BY <4>3, <4>4
    <3>3. QED
      BY <3>1, <3>2
  <2>4. QED
    BY <2>2, <2>3
<1>5. ConfigNamesARow'
  BY <1>2 DEF IInv, ConfigNamesARow, Created
<1>6. ASSUME NEW x \in Hosts, x # h
      PROVE  Left(x)'
  <2>1. cfgFile[x] \in Keys => owner'[cfgFile[x]] = owner[cfgFile[x]]
    BY <1>2 DEF IInv, ConfigNamesARow, Created
  <2>2. /\ keyFile'[x] = keyFile[x] /\ cfgFile'[x] = cfgFile[x]
        /\ last'[x] = last[x] /\ overlap'[x] = overlap[x] /\ who'[x] = who[x]
        /\ deleted' = deleted
    BY <1>6
  <2>3. Left(x)
    BY DEF IInv
  <2>4. QED
    BY <2>1, <2>2, <2>3 DEF Left
<1>7. QED
  BY <1>1, <1>3, <1>4, <1>5, <1>6 DEF IInv

\* The invariant is kept when a command generates the machine's key, if nobody else
\* is on the host or overlap says so, and the token is of the right account.
LEMMA GenerateInv ==
    ASSUME IInv, NEW e \in Runs, NEW h \in Hosts, NEW n \in Names,
           NEW token \in Accounts \cup {"expired"},
           GenerateMachineKey(e, h, n, token),
           last' \in [Hosts -> {"none", "busy", "ok", "error"}],
           overlap' \in [Hosts -> BOOLEAN],
           who' \in [Hosts -> Accounts \cup {"blank", "unsure", None}],
           \A x \in Hosts : x # h =>
              last'[x] = last[x] /\ overlap'[x] = overlap[x] /\ who'[x] = who[x],
           overlap'[h] \/ last'[h] = "busy",
           \A o \in Runs : o # e /\ run[o].host = h => overlap'[h],
           overlap'[h] \/ (token \in Accounts => who'[h] \in {token, "unsure"})
    PROVE  IInv'
<1>1. /\ run \in [Runs -> EnrollRun]
      /\ keyFile \in [Hosts -> Keys \cup {None, Torn}]
      /\ cfgFile \in [Hosts -> Keys \cup {None, Torn}]
  BY DEF IInv, TypeOK
<1>2. PICK k \in Keys :
         /\ ~Created(k)
         /\ \A o \in Runs : run[o].key # k
         /\ run' = [run EXCEPT ![e] = [pc |-> "key", host |-> h, key |-> k, name |-> n,
                                       tok |-> token]]
  BY DEF GenerateMachineKey, Created
<1>3. PICK r \in EnrollRun :
         r = [pc |-> "key", host |-> h, key |-> k, name |-> n, tok |-> token]
  BY DEF EnrollRun
<1>4. /\ r.pc = "key" /\ r.host = h /\ r.key = k /\ r.name = n /\ r.tok = token
      /\ h # None /\ k # None /\ n # None
  BY <1>3, EnrollAssumption
<1>5. run' = [run EXCEPT ![e] = r]
  BY <1>2, <1>3
<1>6. /\ keyFile' = [keyFile EXCEPT ![h] = Torn]
      /\ UNCHANGED <<row, owner, deleted, cfgFile>> /\ UNCHANGED tokenVars
  BY DEF GenerateMachineKey, relay
<1>7. TypeOK'
  <2>1. TokenTypeOK'
    BY <1>6 DEF IInv, TypeOK, TokenTypeOK, tokenVars
  <2>2. QED
    BY <1>1, <1>5, <1>6, <2>1 DEF IInv, TypeOK
<1>8. /\ run'[e] = r
      /\ \A o \in Runs : o # e => run'[o] = run[o]
      /\ \A o \in Runs : o # e /\ run'[e].key # None => run[o].key # run'[e].key
      /\ run'[e].host \in {h, None}
  BY <1>1, <1>2, <1>4, <1>5
<1>9. Sane(run[e])'
  BY <1>2, <1>4, <1>6, <1>8 DEF Sane, Created
<1>10. Alone(run[e])'
  BY <1>4, <1>8 DEF Alone
<1>11. Left(h)'
  BY DEF Left
<1>12. cfgFile'[h] \in Keys => Created(cfgFile[h])'
  BY <1>6 DEF IInv, ConfigNamesARow, Created
<1>13. \A x \in Hosts : x # h =>
          /\ keyFile'[x] = keyFile[x] /\ cfgFile'[x] = cfgFile[x]
          /\ last'[x] = last[x] /\ overlap'[x] = overlap[x] /\ who'[x] = who[x]
  BY <1>1, <1>6
<1>14. UNCHANGED <<deleted, tokenVars>>
       /\ \A o \in Runs : o # e /\ run[o].host = h => overlap'[h]
  BY <1>6
<1>15. /\ \A j \in Keys : row'[j] = row[j] /\ owner'[j] = owner[j]
       /\ \A j \in Keys : row[j] # None => row'[j] # None
  BY <1>6
<1>16. QED
  BY <1>7, <1>8, <1>9, <1>10, <1>11, <1>12, <1>13, <1>14, <1>15, RunStepInv

\* The invariant is kept when a command starts, and goes straight to the key.
LEMMA StartsInv ==
    ASSUME IInv, NEW e \in Runs, NEW h \in Hosts, NEW n \in Names,
           NEW token \in Accounts \cup {"expired"},
           NEW a \in Accounts \cup {"blank", "unsure", None},
           Starts(h), GenerateMachineKey(e, h, n, token), who' = [who EXCEPT ![h] = a],
           token \in Accounts => a \in {token, "unsure"}
    PROVE  IInv'
<1>1. /\ last \in [Hosts -> {"none", "busy", "ok", "error"}]
      /\ who \in [Hosts -> Accounts \cup {"blank", "unsure", None}]
  BY DEF IInv, TypeOK
<1>2. overlap \in [Hosts -> BOOLEAN]
  BY DEF IInv, TypeOK
<1>3. /\ last' = [last EXCEPT ![h] = "busy"]
      /\ last' \in [Hosts -> {"none", "busy", "ok", "error"}]
      /\ last'[h] = "busy" /\ \A x \in Hosts : x # h => last'[x] = last[x]
  BY <1>1 DEF Starts
<1>4. /\ who' \in [Hosts -> Accounts \cup {"blank", "unsure", None}]
      /\ who'[h] = a /\ \A x \in Hosts : x # h => who'[x] = who[x]
  BY <1>1
<1>5. PICK b \in BOOLEAN : /\ overlap' = [overlap EXCEPT ![h] = b]
                           /\ b <=> \E o \in Runs : run[o].host = h
  BY DEF Starts
<1>6. /\ overlap' \in [Hosts -> BOOLEAN]
      /\ \A x \in Hosts : x # h => overlap'[x] = overlap[x]
      /\ \A o \in Runs : o # e /\ run[o].host = h => overlap'[h]
  BY <1>2, <1>5
<1>7. QED
  BY <1>3, <1>4, <1>6, GenerateInv

\* The invariant is kept by a start with an API key, or with a cached token.
LEMMA StartWithTokenInv ==
    ASSUME IInv, NEW e \in Runs, NEW h \in Hosts, NEW n \in Names,
           StartCached(e, h, n) \/ \E a \in Accounts : StartWithKey(e, h, n, a)
    PROVE  IInv'
<1>1. CASE \E a \in Accounts : StartWithKey(e, h, n, a)
  <2>1. PICK a \in Accounts : StartWithKey(e, h, n, a)
    BY <1>1
  <2>2. Starts(h) /\ GenerateMachineKey(e, h, n, a) /\ who' = [who EXCEPT ![h] = a]
    BY <2>1 DEF StartWithKey
  <2>3. QED
    BY <2>2, StartsInv
<1>2. CASE StartCached(e, h, n)
  <2>1. PICK t \in Accounts \cup {"expired"} : t = tokenFile[h]
    BY <1>2 DEF StartCached, Cached
  <2>2. PICK a \in {"unsure", me[h]} : who' = [who EXCEPT ![h] = a]
    BY <1>2 DEF StartCached
  <2>3. a \in Accounts \cup {"blank", "unsure", None}
    BY DEF IInv, TypeOK, TokenTypeOK
  <2>4. t \in Accounts => a \in {t, "unsure"}
    BY <2>1 DEF IInv, TokenIsMine
  <2>5. Starts(h) /\ GenerateMachineKey(e, h, n, t)
    BY <1>2, <2>1 DEF StartCached
  <2>6. QED
    BY <2>2, <2>3, <2>4, <2>5, StartsInv
<1>3. QED
  BY <1>1, <1>2

\* The invariant is kept when a command starts, and opens the browser.
LEMMA StartBrowserInv ==
    ASSUME IInv, NEW e \in Runs, NEW h \in Hosts, NEW n \in Names, StartBrowser(e, h, n)
    PROVE  IInv'
<1>1. /\ run \in [Runs -> EnrollRun]
      /\ last \in [Hosts -> {"none", "busy", "ok", "error"}]
      /\ who \in [Hosts -> Accounts \cup {"blank", "unsure", None}]
  BY DEF IInv, TypeOK
<1>2. overlap \in [Hosts -> BOOLEAN]
  BY DEF IInv, TypeOK
<1>3. PICK r \in EnrollRun :
         r = [pc |-> "browser", host |-> h, key |-> None, name |-> n, tok |-> None]
  BY DEF EnrollRun
<1>4. /\ r.pc = "browser" /\ r.host = h /\ r.key = None /\ r.name = n
      /\ h # None /\ n # None
  BY <1>3, EnrollAssumption
<1>5. /\ run' = [run EXCEPT ![e] = r]
      /\ last' = [last EXCEPT ![h] = "busy"]
      /\ who' = [who EXCEPT ![h] = "unsure"]
      /\ UNCHANGED <<row, owner, deleted, keyFile, cfgFile>> /\ UNCHANGED tokenVars
  BY <1>3 DEF StartBrowser, Starts, relay, disk
<1>6. PICK b \in BOOLEAN : /\ overlap' = [overlap EXCEPT ![h] = b]
                           /\ b <=> \E o \in Runs : run[o].host = h
  BY DEF StartBrowser, Starts
<1>7. /\ overlap' \in [Hosts -> BOOLEAN]
      /\ \A x \in Hosts : x # h => overlap'[x] = overlap[x]
      /\ \A o \in Runs : o # e /\ run[o].host = h => overlap'[h]
  BY <1>2, <1>6
<1>8. TypeOK'
  <2>1. TokenTypeOK'
    BY <1>5 DEF IInv, TypeOK, TokenTypeOK, tokenVars
  <2>2. /\ run' \in [Runs -> EnrollRun]
        /\ last' \in [Hosts -> {"none", "busy", "ok", "error"}]
        /\ who' \in [Hosts -> Accounts \cup {"blank", "unsure", None}]
    BY <1>1, <1>5
  <2>3. QED
    BY <1>5, <1>7, <2>1, <2>2 DEF IInv, TypeOK
<1>9. /\ run'[e] = r
      /\ \A o \in Runs : o # e => run'[o] = run[o]
      /\ \A o \in Runs : o # e /\ run'[e].key # None => run[o].key # run'[e].key
      /\ run'[e].host \in {h, None}
  BY <1>1, <1>4, <1>5
<1>10. /\ last'[h] = "busy" /\ who'[h] = "unsure"
       /\ \A x \in Hosts : x # h => last'[x] = last[x] /\ who'[x] = who[x]
  BY <1>1, <1>5
<1>11. Sane(run[e])' /\ Alone(run[e])' /\ Left(h)'
  BY <1>4, <1>9, <1>10 DEF Sane, Alone, Left
<1>12. cfgFile'[h] \in Keys => Created(cfgFile[h])'
  BY <1>5 DEF IInv, ConfigNamesARow, Created
<1>13. \A x \in Hosts : x # h =>
          /\ keyFile'[x] = keyFile[x] /\ cfgFile'[x] = cfgFile[x]
          /\ last'[x] = last[x] /\ overlap'[x] = overlap[x] /\ who'[x] = who[x]
  BY <1>5, <1>7, <1>10
<1>14. /\ UNCHANGED <<deleted, tokenVars>>
       /\ \A j \in Keys : row'[j] = row[j] /\ owner'[j] = owner[j]
       /\ \A j \in Keys : row[j] # None => row'[j] # None
  BY <1>5
<1>15. QED
  BY <1>7, <1>8, <1>9, <1>11, <1>12, <1>13, <1>14, RunStepInv

\* What a command that runs may count on.
LEMMA Running ==
    ASSUME IInv, NEW e \in Runs, run[e].pc # "idle"
    PROVE  /\ run[e] \in EnrollRun /\ run[e].host \in Hosts /\ run[e].name \in Names
           /\ Sane(run[e]) /\ Alone(run[e])
           /\ run[e].pc # "browser" => run[e].key \in Keys
           /\ \A o \in Runs : o # e /\ run[o].host = run[e].host => overlap[run[e].host]
           /\ \A o \in Runs : o # e /\ run[e].key # None => run[o].key # run[e].key
<1>1. run[e] \in EnrollRun /\ Sane(run[e]) /\ Alone(run[e])
  BY DEF IInv, TypeOK
<1>2. run[e].host \in Hosts /\ run[e].name \in Names
  BY <1>1 DEF Sane, EnrollRun
<1>3. run[e].pc # "browser" => run[e].key \in Keys
  BY <1>1 DEF Sane, EnrollRun
<1>4. run[e].host # None
  BY <1>2, EnrollAssumption
<1>5. \A o \in Runs : o # e /\ run[o].host = run[e].host => overlap[run[e].host]
  BY <1>4 DEF IInv, RunsAreApart
<1>6. \A o \in Runs : o # e /\ run[e].key # None => run[o].key # run[e].key
  BY DEF IInv, RunsAreApart
<1>7. QED
  BY <1>1, <1>2, <1>3, <1>5, <1>6

\* The invariant is kept when the user has signed in for an enroll.
LEMMA SignInInv ==
    ASSUME IInv, NEW e \in Runs, NEW a \in Accounts, SignIn(e, a)
    PROVE  IInv'
<1>1. run[e].pc = "browser"
  BY DEF SignIn, At
<1>2. PICK h \in Hosts : h = run[e].host
  BY <1>1, Running
<1>3. PICK n \in Names : n = run[e].name
  BY <1>1, Running
<1>4. GenerateMachineKey(e, h, n, a) /\ who' = [who EXCEPT ![h] = a]
  BY <1>2, <1>3 DEF SignIn
<1>5. UNCHANGED <<last, overlap>>
  BY DEF SignIn
<1>6. /\ last' \in [Hosts -> {"none", "busy", "ok", "error"}]
      /\ who' \in [Hosts -> Accounts \cup {"blank", "unsure", None}]
      /\ who'[h] = a /\ \A x \in Hosts : x # h => who'[x] = who[x] /\ last'[x] = last[x]
  BY <1>4, <1>5 DEF IInv, TypeOK
<1>7. /\ overlap' \in [Hosts -> BOOLEAN]
      /\ \A x \in Hosts : x # h => overlap'[x] = overlap[x]
  BY <1>5 DEF IInv, TypeOK
<1>8. overlap'[h] \/ last'[h] = "busy"
  BY <1>1, <1>2, <1>5, Running DEF Alone
<1>9. \A o \in Runs : o # e /\ run[o].host = h => overlap'[h]
  BY <1>1, <1>2, <1>5, Running
<1>10. QED
  BY <1>4, <1>6, <1>7, <1>8, <1>9, GenerateInv

\* The invariant is kept by a step of a running command that keeps its host and key,
\* or ends, and that changes its own files and row only.
LEMMA OwnStepInv ==
    ASSUME IInv, NEW e \in Runs, run[e].pc # "idle",
           NEW h \in Hosts, h = run[e].host,
           NEW r \in EnrollRun, run' = [run EXCEPT ![e] = r],
           r.host \in {h, None}, r.key \in {run[e].key, None},
           UNCHANGED <<deleted, seen, tokenVars>>,
           NEW f \in Keys \cup {None, Torn}, keyFile' = [keyFile EXCEPT ![h] = f],
           NEW c \in Keys \cup {None, Torn}, cfgFile' = [cfgFile EXCEPT ![h] = c],
           NEW w \in {"none", "busy", "ok", "error"}, last' = [last EXCEPT ![h] = w],
           row' \in [Keys -> Names \cup {None}], owner' \in [Keys -> Accounts \cup {None}],
           \A k \in Keys :
              \/ row'[k] = row[k] /\ owner'[k] = owner[k]
              \/ ~Created(k) /\ k = run[e].key,
           Sane(run[e])', Alone(run[e])',
           c \in Keys => Created(c)',
           Left(h)'
    PROVE  IInv'
<1>1. /\ run \in [Runs -> EnrollRun]
      /\ keyFile \in [Hosts -> Keys \cup {None, Torn}]
      /\ cfgFile \in [Hosts -> Keys \cup {None, Torn}]
      /\ last \in [Hosts -> {"none", "busy", "ok", "error"}]
  BY DEF IInv, TypeOK
<1>2. overlap' = overlap /\ who' = who /\ deleted' = deleted /\ UNCHANGED tokenVars
  BY DEF seen
<1>3. TypeOK'
  <2>1. TokenTypeOK'
    BY <1>2 DEF IInv, TypeOK, TokenTypeOK, tokenVars
  <2>2. overlap' \in [Hosts -> BOOLEAN]
    BY <1>2 DEF IInv, TypeOK
  <2>3. QED
    BY <1>1, <1>2, <2>1, <2>2 DEF IInv, TypeOK
<1>4. /\ run'[e] = r
      /\ \A o \in Runs : o # e => run'[o] = run[o]
      /\ run'[e].host \in {h, None}
  BY <1>1
<1>5. \A o \in Runs : o # e /\ run'[e].key # None => run[o].key # run'[e].key
  BY <1>4, Running
<1>6. \A o \in Runs : o # e /\ run[o].host = h => overlap'[h]
  BY <1>2, Running
<1>7. \A x \in Hosts : x # h =>
          /\ keyFile'[x] = keyFile[x] /\ cfgFile'[x] = cfgFile[x]
          /\ last'[x] = last[x] /\ overlap'[x] = overlap[x] /\ who'[x] = who[x]
  BY <1>1, <1>2
<1>8. \A k \in Keys :
         \/ row'[k] = row[k] /\ owner'[k] = owner[k]
         \/ ~Created(k) /\ \A o \in Runs : o # e => run[o].key # k
  <2>1. run[e].key \in Keys => run[e].key # None
    BY EnrollAssumption
  <2>2. QED
    BY <2>1, Running
<1>9. \A k \in Keys : row[k] # None => row'[k] # None
  BY DEF Created
<1>10. cfgFile'[h] \in Keys => Created(cfgFile[h])'
  BY <1>1
<1>11. UNCHANGED <<deleted, tokenVars>>
  BY <1>2
<1>12. QED
  BY <1>3, <1>4, <1>5, <1>6, <1>7, <1>8, <1>9, <1>10, <1>11, RunStepInv

\* The idle command.
LEMMA IdleType ==
    /\ Idle \in EnrollRun /\ Idle.pc = "idle" /\ Idle.host = None /\ Idle.key = None
    /\ Sane(Idle)
  BY DEF Idle, EnrollRun, Sane

\* What is on a host's disk and how its last enroll ended, by type.
LEMMA HostType ==
    ASSUME IInv, NEW h \in Hosts
    PROVE  /\ keyFile[h] \in Keys \cup {None, Torn} /\ keyFile = [keyFile EXCEPT ![h] = keyFile[h]]
           /\ cfgFile[h] \in Keys \cup {None, Torn} /\ cfgFile = [cfgFile EXCEPT ![h] = cfgFile[h]]
           /\ last[h] \in {"none", "busy", "ok", "error"} /\ last = [last EXCEPT ![h] = last[h]]
           /\ row \in [Keys -> Names \cup {None}] /\ owner \in [Keys -> Accounts \cup {None}]
           /\ cfgFile[h] \in Keys => Created(cfgFile[h])
<1>1. /\ keyFile \in [Hosts -> Keys \cup {None, Torn}]
      /\ cfgFile \in [Hosts -> Keys \cup {None, Torn}]
      /\ last \in [Hosts -> {"none", "busy", "ok", "error"}]
      /\ row \in [Keys -> Names \cup {None}] /\ owner \in [Keys -> Accounts \cup {None}]
  BY DEF IInv, TypeOK
<1>2. cfgFile[h] \in Keys => Created(cfgFile[h])
  BY DEF IInv, ConfigNamesARow, Created
<1>3. QED
  BY <1>1, <1>2

\* The invariant is kept when the machine's key is written.
LEMMA WriteKeyInv ==
    ASSUME IInv, NEW e \in Runs, WriteKey(e)
    PROVE  IInv'
<1>1. run[e].pc = "key"
  BY DEF WriteKey, At
<1>2. PICK h \in Hosts : h = run[e].host
  BY <1>1, Running
<1>3. PICK k \in Keys : k = run[e].key
  BY <1>1, Running
<1>4. run[e] \in EnrollRun /\ Sane(run[e]) /\ Alone(run[e])
  BY <1>1, Running
<1>5. PICK r \in EnrollRun : r = [run[e] EXCEPT !.pc = "post"]
  BY <1>4 DEF EnrollRun
<1>6. r.pc = "post" /\ r.host = h /\ r.key = k /\ r.name = run[e].name /\ r.tok = run[e].tok
  BY <1>2, <1>3, <1>4, <1>5 DEF EnrollRun
<1>7. /\ run' = [run EXCEPT ![e] = r]
      /\ keyFile' = [keyFile EXCEPT ![h] = k]
      /\ UNCHANGED <<row, owner, deleted, cfgFile, last>>
      /\ UNCHANGED <<overlap, who>> /\ UNCHANGED tokenVars
  BY <1>2, <1>3, <1>5 DEF WriteKey, Goes, relay, seen
<1>8. PICK c \in Keys \cup {None, Torn} : c = cfgFile[h]
  BY HostType
<1>9. PICK w \in {"none", "busy", "ok", "error"} : w = last[h]
  BY HostType
<1>10. /\ cfgFile' = [cfgFile EXCEPT ![h] = c] /\ last' = [last EXCEPT ![h] = w]
       /\ row' \in [Keys -> Names \cup {None}] /\ owner' \in [Keys -> Accounts \cup {None}]
  BY <1>7, <1>8, <1>9, HostType
<1>11. run'[e] = r /\ keyFile'[h] = k
  BY <1>7 DEF IInv, TypeOK
<1>12. Sane(run[e])'
  BY <1>1, <1>2, <1>3, <1>4, <1>6, <1>7, <1>11 DEF Sane, Created
<1>13. Alone(run[e])'
  BY <1>1, <1>2, <1>4, <1>6, <1>7, <1>11 DEF Alone
<1>14. Left(h)'
  BY <1>1, <1>2, <1>4, <1>7 DEF Alone, Left
<1>15. c \in Keys => Created(c)'
  BY <1>7, <1>8, HostType DEF Created
<1>16. UNCHANGED <<deleted, seen, tokenVars>>
  BY <1>7 DEF seen
<1>17. QED
  BY <1>1, <1>2, <1>3, <1>6, <1>7, <1>10, <1>12, <1>13, <1>14, <1>15, <1>16, OwnStepInv

\* The row a request inserts is the command's own, and new.
LEMMA InsertedRow ==
    ASSUME IInv, NEW e \in Runs, run[e].pc = "post", Inserted(e)
    PROVE  /\ row' \in [Keys -> Names \cup {None}] /\ owner' \in [Keys -> Accounts \cup {None}]
           /\ row'[run[e].key] # None /\ owner'[run[e].key] = run[e].tok
           /\ run[e].tok \in Accounts
           /\ \A k \in Keys :
                 \/ row'[k] = row[k] /\ owner'[k] = owner[k]
                 \/ ~Created(k) /\ k = run[e].key
           /\ \A k \in Keys : row[k] # None => row'[k] # None
<1>1. PICK k \in Keys : k = run[e].key
  BY Running
<1>2. PICK n \in Names : n = run[e].name
  BY Running
<1>3. PICK a \in Accounts : a = run[e].tok
  BY DEF Inserted
<1>4. ~Created(k)
  BY <1>1, Running DEF Sane
<1>5. row' = [row EXCEPT ![k] = n] /\ owner' = [owner EXCEPT ![k] = a]
  BY <1>1, <1>2, <1>3 DEF Inserted
<1>6. n # None
  BY EnrollAssumption
<1>7. row \in [Keys -> Names \cup {None}] /\ owner \in [Keys -> Accounts \cup {None}]
  BY DEF IInv, TypeOK
<1>8. QED
  BY <1>1, <1>3, <1>4, <1>5, <1>6, <1>7

\* The invariant is kept when the relay answers that the machine is created.
LEMMA CreateMachineInv ==
    ASSUME IInv, NEW e \in Runs, CreateMachine(e)
    PROVE  IInv'
<1>1. run[e].pc = "post" /\ Inserted(e)
  BY DEF CreateMachine, At
<1>2. PICK h \in Hosts : h = run[e].host
  BY <1>1, Running
<1>3. PICK k \in Keys : k = run[e].key
  BY <1>1, Running
<1>4. run[e] \in EnrollRun /\ Sane(run[e]) /\ Alone(run[e])
  BY <1>1, Running
<1>5. PICK r \in EnrollRun : r = [run[e] EXCEPT !.pc = "info", !.tok = None]
  BY <1>4 DEF EnrollRun
<1>6. r.pc = "info" /\ r.host = h /\ r.key = k /\ r.name = run[e].name
  BY <1>2, <1>3, <1>4, <1>5 DEF EnrollRun
<1>7. /\ run' = [run EXCEPT ![e] = r]
      /\ UNCHANGED <<deleted, keyFile, cfgFile, last>>
      /\ UNCHANGED <<overlap, who>> /\ UNCHANGED tokenVars
  BY <1>5 DEF CreateMachine, disk, seen
<1>8. PICK f \in Keys \cup {None, Torn} : f = keyFile[h]
  BY HostType
<1>9. PICK c \in Keys \cup {None, Torn} : c = cfgFile[h]
  BY HostType
<1>10. PICK w \in {"none", "busy", "ok", "error"} : w = last[h]
  BY HostType
<1>11. /\ keyFile' = [keyFile EXCEPT ![h] = f]
       /\ cfgFile' = [cfgFile EXCEPT ![h] = c] /\ last' = [last EXCEPT ![h] = w]
  BY <1>7, <1>8, <1>9, <1>10, HostType
<1>12. /\ row' \in [Keys -> Names \cup {None}] /\ owner' \in [Keys -> Accounts \cup {None}]
       /\ row'[k] # None /\ owner'[k] = run[e].tok /\ run[e].tok \in Accounts
       /\ \A j \in Keys :
             \/ row'[j] = row[j] /\ owner'[j] = owner[j]
             \/ ~Created(j) /\ j = run[e].key
       /\ \A j \in Keys : row[j] # None => row'[j] # None
  BY <1>1, <1>3, InsertedRow
<1>13. run'[e] = r
  BY <1>7 DEF IInv, TypeOK
<1>14. Sane(run[e])'
  BY <1>1, <1>2, <1>3, <1>4, <1>6, <1>12, <1>13 DEF Sane, Created
<1>15. Alone(run[e])'
  BY <1>1, <1>2, <1>3, <1>4, <1>6, <1>7, <1>12, <1>13 DEF Alone
<1>16. Left(h)'
  BY <1>1, <1>2, <1>4, <1>7 DEF Alone, Left
<1>17. c \in Keys => Created(c)'
  BY <1>7, <1>9, <1>12, HostType DEF Created
<1>18. UNCHANGED <<deleted, seen, tokenVars>>
  BY <1>7 DEF seen
<1>19. run[e].pc # "idle" /\ r.host \in {h, None} /\ r.key \in {run[e].key, None}
  BY <1>1, <1>3, <1>6
<1>20. QED
  BY <1>2, <1>7, <1>11, <1>12, <1>14, <1>15, <1>16, <1>17, <1>18, <1>19, OwnStepInv

\* The invariant is kept when a running command ends with an error, having inserted
\* its row or not.
LEMMA ErrorInv ==
    ASSUME IInv, NEW e \in Runs, run[e].pc # "idle", Ends(e, "error"),
           UNCHANGED <<deleted, disk, seen, tokenVars>>,
           \/ run[e].pc = "post" /\ Inserted(e)
           \/ UNCHANGED <<row, owner>>
    PROVE  IInv'
<1>1. PICK h \in Hosts : h = run[e].host
  BY Running
<1>2. run' = [run EXCEPT ![e] = Idle] /\ last' = [last EXCEPT ![h] = "error"]
  BY <1>1 DEF Ends
<1>3. UNCHANGED <<deleted, keyFile, cfgFile>> /\ UNCHANGED <<deleted, seen, tokenVars>>
  BY DEF disk
<1>4. PICK f \in Keys \cup {None, Torn} : f = keyFile[h]
  BY HostType
<1>5. PICK c \in Keys \cup {None, Torn} : c = cfgFile[h]
  BY HostType
<1>6. keyFile' = [keyFile EXCEPT ![h] = f] /\ cfgFile' = [cfgFile EXCEPT ![h] = c]
  BY <1>3, <1>4, <1>5, HostType
<1>7. /\ row' \in [Keys -> Names \cup {None}] /\ owner' \in [Keys -> Accounts \cup {None}]
      /\ \A j \in Keys :
            \/ row'[j] = row[j] /\ owner'[j] = owner[j]
            \/ ~Created(j) /\ j = run[e].key
      /\ \A j \in Keys : row[j] # None => row'[j] # None
  BY <1>1, InsertedRow, HostType
<1>8. run'[e] = Idle /\ last'[h] = "error"
  BY <1>2 DEF IInv, TypeOK
<1>9. Sane(run[e])' /\ Alone(run[e])' /\ Left(h)'
  BY <1>8, IdleType DEF Sane, Alone, Left
<1>10. c \in Keys => Created(c)'
  BY <1>3, <1>5, <1>7, HostType DEF Created
<1>11. /\ Idle \in EnrollRun /\ Idle.host \in {h, None} /\ Idle.key \in {run[e].key, None}
       /\ "error" \in {"none", "busy", "ok", "error"}
  BY IdleType
<1>12. QED
  BY <1>1, <1>2, <1>3, <1>6, <1>7, <1>9, <1>10, <1>11, OwnStepInv

\* The invariant is kept when the config is truncated.
LEMMA FetchSSHInfoInv ==
    ASSUME IInv, NEW e \in Runs, FetchSSHInfo(e)
    PROVE  IInv'
<1>1. run[e].pc = "info"
  BY DEF FetchSSHInfo, At
<1>2. PICK h \in Hosts : h = run[e].host
  BY <1>1, Running
<1>3. PICK k \in Keys : k = run[e].key
  BY <1>1, Running
<1>4. run[e] \in EnrollRun /\ Sane(run[e]) /\ Alone(run[e])
  BY <1>1, Running
<1>5. PICK r \in EnrollRun : r = [run[e] EXCEPT !.pc = "cfg"]
  BY <1>4 DEF EnrollRun
<1>6. r.pc = "cfg" /\ r.host = h /\ r.key = k /\ r.name = run[e].name
  BY <1>2, <1>3, <1>4, <1>5 DEF EnrollRun
<1>7. /\ run' = [run EXCEPT ![e] = r]
      /\ cfgFile' = [cfgFile EXCEPT ![h] = Torn]
      /\ UNCHANGED <<row, owner, deleted, keyFile, last>>
      /\ UNCHANGED <<overlap, who>> /\ UNCHANGED tokenVars
  BY <1>2, <1>5 DEF FetchSSHInfo, Goes, relay, seen
<1>8. PICK f \in Keys \cup {None, Torn} : f = keyFile[h]
  BY HostType
<1>9. PICK w \in {"none", "busy", "ok", "error"} : w = last[h]
  BY HostType
<1>10. /\ keyFile' = [keyFile EXCEPT ![h] = f] /\ last' = [last EXCEPT ![h] = w]
       /\ row' \in [Keys -> Names \cup {None}] /\ owner' \in [Keys -> Accounts \cup {None}]
  BY <1>7, <1>8, <1>9, HostType
<1>11. run'[e] = r
  BY <1>7 DEF IInv, TypeOK
<1>12. Sane(run[e])'
  BY <1>1, <1>2, <1>3, <1>4, <1>6, <1>7, <1>11 DEF Sane, Created
<1>13. Alone(run[e])'
  BY <1>1, <1>2, <1>3, <1>4, <1>6, <1>7, <1>11 DEF Alone
<1>14. Left(h)'
  BY <1>1, <1>2, <1>4, <1>7 DEF Alone, Left
<1>15. Torn \in Keys \cup {None, Torn} /\ Torn \notin Keys
  BY EnrollAssumption
<1>16. UNCHANGED <<deleted, seen, tokenVars>>
  BY <1>7 DEF seen
<1>17. run[e].pc # "idle" /\ r.host \in {h, None} /\ r.key \in {run[e].key, None}
  BY <1>1, <1>3, <1>6
<1>18. \A j \in Keys : row'[j] = row[j] /\ owner'[j] = owner[j]
  BY <1>7
<1>19. QED
  BY <1>2, <1>7, <1>10, <1>12, <1>13, <1>14, <1>15, <1>16, <1>17, <1>18, OwnStepInv

\* The invariant is kept when the config is written and the command has succeeded.
LEMMA SaveMachineConfigInv ==
    ASSUME IInv, NEW e \in Runs, SaveMachineConfig(e)
    PROVE  IInv'
<1>1. run[e].pc = "cfg"
  BY DEF SaveMachineConfig, At
<1>2. PICK h \in Hosts : h = run[e].host
  BY <1>1, Running
<1>3. PICK k \in Keys : k = run[e].key
  BY <1>1, Running
<1>4. Sane(run[e]) /\ Alone(run[e])
  BY <1>1, Running
<1>5. /\ run' = [run EXCEPT ![e] = Idle] /\ last' = [last EXCEPT ![h] = "ok"]
      /\ cfgFile' = [cfgFile EXCEPT ![h] = k]
      /\ UNCHANGED <<row, owner, deleted, keyFile>>
      /\ UNCHANGED <<overlap, who>> /\ UNCHANGED tokenVars
  BY <1>2, <1>3 DEF SaveMachineConfig, Ends, relay, seen
<1>6. PICK f \in Keys \cup {None, Torn} : f = keyFile[h]
  BY HostType
<1>7. /\ keyFile' = [keyFile EXCEPT ![h] = f]
      /\ row' \in [Keys -> Names \cup {None}] /\ owner' \in [Keys -> Accounts \cup {None}]
  BY <1>5, <1>6, HostType
<1>8. run'[e] = Idle /\ cfgFile'[h] = k
  BY <1>5 DEF IInv, TypeOK
<1>9. Sane(run[e])' /\ Alone(run[e])'
  BY <1>8, IdleType DEF Sane, Alone
<1>10. Left(h)'
  BY <1>1, <1>2, <1>3, <1>4, <1>5, <1>8 DEF Alone, Left
<1>11. Created(k)'
  BY <1>1, <1>3, <1>4, <1>5 DEF Sane, Created
<1>12. UNCHANGED <<deleted, seen, tokenVars>>
  BY <1>5 DEF seen
<1>13. /\ Idle \in EnrollRun /\ Idle.host \in {h, None} /\ Idle.key \in {run[e].key, None}
       /\ "ok" \in {"none", "busy", "ok", "error"} /\ k \in Keys \cup {None, Torn}
       /\ run[e].pc # "idle"
  BY <1>1, IdleType
<1>14. \A j \in Keys : row'[j] = row[j] /\ owner'[j] = owner[j]
  BY <1>5
<1>15. QED
  BY <1>2, <1>5, <1>7, <1>9, <1>10, <1>11, <1>12, <1>13, <1>14, OwnStepInv

-----------------------------------------------------------------------------
(* The machines page.                                                       *)

\* The invariant is kept when a row is renamed or deleted: it has been created, and
\* remains so.
LEMMA PageInv ==
    ASSUME IInv, NEW k \in Keys, DeleteMachine(k) \/ \E n \in Names : RenameMachine(k, n)
    PROVE  IInv'
<1>1. /\ row \in [Keys -> Names \cup {None}] /\ owner \in [Keys -> Accounts \cup {None}]
      /\ deleted \subseteq Keys
  BY DEF IInv, TypeOK
<1>2. UNCHANGED <<keyFile, cfgFile, run, last>> /\ UNCHANGED <<overlap, who>>
      /\ UNCHANGED tokenVars
  BY DEF DeleteMachine, RenameMachine, disk, seen
<1>3. /\ row' \in [Keys -> Names \cup {None}] /\ owner' \in [Keys -> Accounts \cup {None}]
      /\ deleted' \in SUBSET Keys
  BY <1>1 DEF DeleteMachine, RenameMachine
<1>4. \A j \in Keys : /\ Created(j)' <=> Created(j)
                      /\ owner'[j] = owner[j] \/ j \in deleted'
                      /\ j \in deleted => j \in deleted'
  BY <1>1, EnrollAssumption DEF DeleteMachine, RenameMachine, Created
<1>5. TypeOK'
  <2>1. TokenTypeOK'
    BY <1>2 DEF IInv, TypeOK, TokenTypeOK, tokenVars
  <2>2. overlap' \in [Hosts -> BOOLEAN]
    BY <1>2 DEF IInv, TypeOK
  <2>3. QED
    BY <1>2, <1>3, <2>1, <2>2 DEF IInv, TypeOK
<1>6. LoginsAreSane' /\ TokenIsMine'
  BY <1>2 DEF IInv, LoginsAreSane, TokenIsMine, tokenVars
<1>7. ASSUME NEW e \in Runs
      PROVE  Sane(run[e])' /\ Alone(run[e])'
  <2>1. run[e] \in EnrollRun /\ Sane(run[e]) /\ Alone(run[e])
    BY DEF IInv, TypeOK
  <2>2. run[e].pc \in {"key", "post", "info", "cfg"} => run[e].key \in Keys
    BY <2>1 DEF Sane, EnrollRun
  <2>3. Sane(run[e])'
    BY <1>2, <1>4, <2>1, <2>2 DEF Sane
  <2>4. Alone(run[e])'
    BY <1>2, <1>4, <2>1, <2>2 DEF Alone
  <2>5. QED
    BY <2>3, <2>4
<1>8. RunsAreApart'
  BY <1>2 DEF IInv, RunsAreApart
<1>9. ConfigNamesARow'
  BY <1>2, <1>4 DEF IInv, ConfigNamesARow, Created
<1>10. \A h \in Hosts : Left(h)'
  BY <1>2, <1>4 DEF IInv, Left
<1>11. QED
  BY <1>5, <1>6, <1>7, <1>8, <1>9, <1>10 DEF IInv

-----------------------------------------------------------------------------
(* The specification.                                                       *)

\* The invariant holds initially.
LEMMA InitInv ==
    Init => IInv
<1> SUFFICES ASSUME Init PROVE IInv
  OBVIOUS
<1>1. TypeOK
  <2>1. TokenTypeOK
    BY LoginIdleType DEF Init, TokenInit, TokenTypeOK, LoginCommand
  <2>2. overlap \in [Hosts -> BOOLEAN]
    BY DEF Init
  <2>3. QED
    BY <2>1, <2>2, IdleType DEF Init, TypeOK
<1>2. LoginsAreSane /\ TokenIsMine
  BY LoginIdleType, EnrollAssumption DEF Init, TokenInit, LoginsAreSane, TokenIsMine
<1>3. \A e \in Runs : Sane(run[e]) /\ Alone(run[e])
  BY IdleType DEF Init, Alone
<1>4. RunsAreApart /\ ConfigNamesARow /\ \A h \in Hosts : Left(h)
  BY IdleType, EnrollAssumption DEF Init, RunsAreApart, ConfigNamesARow, Left
<1>5. QED
  BY <1>1, <1>2, <1>3, <1>4 DEF IInv

\* A step that changes nothing keeps the invariant.
LEMMA StutterInv ==
    ASSUME IInv, UNCHANGED vars
    PROVE  IInv'
<1>1. UNCHANGED <<relay, disk, run, last, seen>> /\ UNCHANGED tokenVars
  BY DEF vars
<1>2. TokenTypeOK' /\ LoginsAreSane' /\ TokenIsMine'
  BY <1>1 DEF IInv, TypeOK, TokenTypeOK, LoginsAreSane, TokenIsMine, tokenVars
<1>3. QED
  BY <1>1, <1>2, TokensInv

\* Every step keeps the invariant.
LEMMA StepInv ==
    IInv /\ [Next]_vars => IInv'
<1> SUFFICES ASSUME IInv, [Next]_vars PROVE IInv'
  OBVIOUS
<1>1. CASE \E e \in Runs : EnrollStep(e) \/ \E h \in Hosts, n \in Names : Start(e, h, n)
  <2>1. PICK e \in Runs : EnrollStep(e) \/ \E h \in Hosts, n \in Names : Start(e, h, n)
    BY <1>1
  <2>2. ASSUME NEW h \in Hosts, NEW n \in Names, Start(e, h, n)
        PROVE  IInv'
    BY <2>2, StartWithTokenInv, StartBrowserInv DEF Start
  <2>3. CASE \E a \in Accounts : SignIn(e, a)
    BY <2>3, SignInInv
  <2>4. CASE WriteKey(e)
    BY <2>4, WriteKeyInv
  <2>5. CASE CreateMachine(e)
    BY <2>5, CreateMachineInv
  <2>6. CASE CreateFails(e)
    <3>1. run[e].pc = "post" /\ run[e].pc # "idle"
      BY <2>6 DEF CreateFails, At
    <3>2. QED
      BY <2>6, <3>1, ErrorInv DEF CreateFails
  <2>7. CASE FetchSSHInfo(e)
    BY <2>7, FetchSSHInfoInv
  <2>8. CASE SaveMachineConfig(e)
    BY <2>8, SaveMachineConfigInv
  <2>9. CASE Killed(e)
    BY <2>9, ErrorInv DEF Killed, At, relay
  <2>10. QED
    BY <2>1, <2>2, <2>3, <2>4, <2>5, <2>6, <2>7, <2>8, <2>9 DEF EnrollStep
<1>2. CASE \E k \in Keys : DeleteMachine(k) \/ \E n \in Names : RenameMachine(k, n)
  BY <1>2, PageInv
<1>3. CASE TokenStep /\ UNCHANGED <<relay, disk, run, last, seen>>
  BY <1>3, TokenStepInv
<1>4. CASE UNCHANGED vars
  BY <1>4, StutterInv
<1>5. QED
  BY <1>1, <1>2, <1>3, <1>4 DEF Next

\* IInv is an invariant of the specification.
LEMMA Inductive ==
    Spec => []IInv
  BY InitInv, StepInv, PTL DEF Spec

\* The states of the enroll and login commands, the files they leave on the hosts
\* and the rows of the relay have the shapes the code gives them.
THEOREM EnrollTypeOK ==
    Spec => []TypeOK
<1>1. IInv => TypeOK
  BY DEF IInv
<1>2. QED
  BY <1>1, Inductive, PTL

\* A config on disk names a row that the relay created, whatever commands ran,
\* overlapped or died: SaveMachineConfig comes last in Enroll, and each run's key
\* is its own.
THEOREM EnrollConfigNamesARow ==
    Spec => []ConfigNamesARow
<1>1. IInv => ConfigNamesARow
  BY DEF IInv
<1>2. QED
  BY <1>1, Inductive, PTL

\* An enroll that reports success, with no other one beside it, leaves a key and a
\* config that belong together, of a row that was created: from the key's write on,
\* the key file holds the run's own key, and the config is written from the row.
THEOREM EnrollEnrolledIsUsable ==
    Spec => []EnrolledIsUsable
<1>1. IInv => EnrolledIsUsable
  BY DEF IInv, Left, ConfigNamesARow, EnrolledIsUsable, LoadMachineConfig, LoadMachineKey,
         Matches
<1>2. QED
  BY <1>1, Inductive, PTL

\* And the machine is under the account the enroll was meant for: a token found in
\* the cache is of the account last signed in as, because SaveTokenCache leaves
\* nothing readable until the login it belongs to has succeeded.
THEOREM EnrollEnrolledAsSignedIn ==
    Spec => []EnrolledAsSignedIn
<1>1. IInv => EnrolledAsSignedIn
  BY DEF IInv, Left, EnrolledAsSignedIn
<1>2. QED
  BY <1>1, Inductive, PTL
=============================================================================
