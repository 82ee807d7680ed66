----------------------------- MODULE TokenCache -----------------------------
(***************************************************************************)
(* Signing in on the command line: `phosphor login`, in the browser or     *)
(* with a device code, `phosphor logout`, and tokens.json, where a login   *)
(* leaves its token for later commands.                                    *)
(*                                                                         *)
(* SaveTokenCache truncates the file and then writes it; commands are      *)
(* killed, and overlap.  The browser login itself is module Login's, the   *)
(* identity provider's device endpoints are external.  A token is the      *)
(* account it speaks for, until it has expired.                            *)
(***************************************************************************)
CONSTANTS
    Hosts,
    Accounts,
    Logins,    \* login commands running at once
    None,      \* no file, no host, no account
    Torn       \* a file that does not parse

VARIABLES
    tokenFile, \* tokens.json of each host
    login,     \* the login commands
    me         \* history: the account the host's user last signed in as

tokenVars == <<tokenFile, login, me>>

LoginIdle == [pc |-> "idle", host |-> None, acct |-> None]

\* What a file that parses holds: a token, or "blank", the saved answer of a
\* provider that sent none.
Contents == Accounts \cup {"expired", "blank"}

TokenTypeOK ==
    /\ tokenFile \in [Hosts -> Contents \cup {None, Torn}]
    /\ login \in [Logins -> [pc : {"idle", "browser", "poll", "write", "unlinked"},
                             host : Hosts \cup {None},
                             acct : Accounts \cup {"blank", None}]]
    /\ me \in [Hosts -> Accounts \cup {"blank", "unsure", None}]

TokenInit ==
    /\ tokenFile = [h \in Hosts |-> None]
    /\ login = [l \in Logins |-> LoginIdle]
    /\ me = [h \in Hosts |-> None]

LoginRuns(h) == \E l \in Logins : login[l].host = h

\* LoadTokenCache gives Enroll a token: the file is there, parses, and is not
\* blank.  Whether the token has expired it does not ask.
Cached(h) == tokenFile[h] \in Accounts \cup {"expired"}

-----------------------------------------------------------------------------
(* phosphor login.                                                          *)

\* The command waits for the browser or, once the provider has given it a device
\* code, for the user to enter that.
Login(l, h, way) ==
    /\ login[l].pc = "idle"
    /\ login' = [login EXCEPT ![l] = [pc |-> way, host |-> h, acct |-> None]]
    /\ UNCHANGED <<tokenFile, me>>

\* RequestDeviceCode succeeds.  When it fails the command ends as it began.
RequestDeviceCode(l, h) == Login(l, h, "poll")

\* A token has come: SaveTokenCache truncates the file...
SaveTokenCache(l, a) ==
    /\ tokenFile' = [tokenFile EXCEPT ![login[l].host] = Torn]
    /\ login' = [login EXCEPT ![l].pc = "write", ![l].acct = a]
    /\ UNCHANGED me

\* The login says that it succeeded, as account a.  Beside another one nobody can
\* tell which of them the user means.
Succeeds(l, a) ==
    /\ login' = [login EXCEPT ![l] = LoginIdle]
    /\ me' = [me EXCEPT ![login[l].host] =
                  IF \E o \in Logins \ {l} : login[o].host = login[l].host
                  THEN "unsure" ELSE a]

\* Mutant: the error of SaveTokenCache is not looked at.
BrowserLoginUnsaved(l, a) ==
    /\ login[l].pc = "browser"
    /\ Succeeds(l, a)
    /\ UNCHANGED tokenFile

\* BrowserLogin returns the token of the account the user chose.
BrowserLogin(l, a) ==
    /\ login[l].pc = "browser"
    /\ SaveTokenCache(l, a)

\* PollForToken asks until the answer is no longer "pending" or "slow_down"; one
\* that names no error is taken for a token, even when it holds none.
PollForToken(l, a) ==
    /\ login[l].pc = "poll"
    /\ SaveTokenCache(l, a)

\* ... and writes it.  If another login wrote it meanwhile, the end of the longer
\* token may show behind the shorter one.
WriteTokens(l) ==
    /\ login[l].pc = "write"
    /\ LET h == login[l].host
       IN  \/ tokenFile' = [tokenFile EXCEPT ![h] = login[l].acct]
           \/ tokenFile[h] # Torn /\ tokenFile' = [tokenFile EXCEPT ![h] = Torn]
    /\ Succeeds(l, login[l].acct)

\* The file that was truncated is no longer the one of that name.
WriteUnlinked(l) ==
    /\ login[l].pc = "unlinked"
    /\ Succeeds(l, "unsure")
    /\ UNCHANGED tokenFile

\* Any step fails (no answer, a denial, an expired code, a disk that is full) or
\* the command is killed.
LoginFails(l) ==
    /\ login[l].pc # "idle"
    /\ login' = [login EXCEPT ![l] = LoginIdle]
    /\ UNCHANGED <<tokenFile, me>>

-----------------------------------------------------------------------------
\* phosphor logout: ClearTokenCache removes the file, if there is one.
Logout(h) ==
    /\ tokenFile' = [tokenFile EXCEPT ![h] = None]
    /\ login' = [l \in Logins |-> IF login[l].host = h /\ login[l].pc = "write"
                                  THEN [pc |-> "unlinked", host |-> h, acct |-> None]
                                  ELSE login[l]]
    /\ me' = [me EXCEPT ![h] = IF LoginRuns(h) THEN "unsure" ELSE None]

\* The cached token expires; the refresh token beside it is never used.
TokenExpires(h) ==
    /\ tokenFile[h] \in Accounts
    /\ tokenFile' = [tokenFile EXCEPT ![h] = "expired"]
    /\ UNCHANGED <<login, me>>

LoginStep(l) ==
    \/ \E h \in Hosts : Login(l, h, "browser") \/ RequestDeviceCode(l, h)
    \/ \E a \in Accounts : BrowserLogin(l, a)
    \/ \E a \in Accounts \cup {"blank"} : PollForToken(l, a)
    \/ WriteTokens(l) \/ WriteUnlinked(l) \/ LoginFails(l)

TokenStep ==
    \/ \E l \in Logins : LoginStep(l)
    \/ \E h \in Hosts : Logout(h) \/ TokenExpires(h)
=============================================================================
