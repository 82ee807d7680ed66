------------------------------- MODULE Enroll -------------------------------
(***************************************************************************)
(* Enrolling machines: `phosphor enroll` (cli.Enroll, GenerateMachineKey,  *)
(* SaveMachineConfig) with the sign-in it finds in the token cache (module *)
(* TokenCache), the relay's handlers that create, rename and delete the    *)
(* rows, and what `phosphor tunnel` can load of what enrolling left on     *)
(* disk.                                                                   *)
(*                                                                         *)
(* Each file is truncated and then written (os.WriteFile), each call of    *)
(* the relay may be refused or lose its answer, and the command may be     *)
(* killed anywhere or run twice at once.  Every run generates a key of its *)
(* own, so a row, its id and its key are one here: "id k" is the id of the *)
(* row that holds key k.                                                   *)
(***************************************************************************)
EXTENDS TokenCache

CONSTANTS
    Keys,      \* keys ed25519.GenerateKey may return, and the ids of their rows
    Names,     \* display names of machines
    Runs       \* enroll commands running at once

ASSUME EnrollAssumption ==
    /\ None \notin Keys \cup Hosts \cup Names \cup Accounts \cup {"blank", "expired", "unsure"}
    /\ Torn \notin Keys \cup Accounts
    /\ Torn # None
    /\ Accounts \cap {"expired", "blank", "unsure"} = {}

VARIABLES
    row,       \* the machines table: the name in the row with key k
    owner,     \* and its account
    deleted,   \* keys whose row was created and deleted
    keyFile,   \* machine_key of each host
    cfgFile,   \* machine.json of each host: the machine id in it
    run,       \* the enroll commands
    last,      \* how the last enroll of a host to end ended
    overlap,   \* history: that enroll ran while another was running
    who        \* history: the account it was meant for

disk == <<keyFile, cfgFile>>
relay == <<row, owner, deleted>>
seen == <<overlap, who>>
vars == <<relay, disk, run, last, seen, tokenVars>>

Idle == [pc |-> "idle", host |-> None, key |-> None, name |-> None, tok |-> None]

\* An enroll command: where it is, the host it runs on, the key it has generated,
\* the machine's name, and the token it presents.
EnrollRun == [pc : {"idle", "browser", "key", "post", "info", "cfg"},
              host : Hosts \cup {None},
              key : Keys \cup {None},
              name : Names \cup {None},
              tok : Accounts \cup {"expired", None}]

TypeOK ==
    /\ TokenTypeOK
    /\ row \in [Keys -> Names \cup {None}]
    /\ owner \in [Keys -> Accounts \cup {None}]
    /\ deleted \subseteq Keys
    /\ keyFile \in [Hosts -> Keys \cup {None, Torn}]
    /\ cfgFile \in [Hosts -> Keys \cup {None, Torn}]
    /\ run \in [Runs -> EnrollRun]
    /\ last \in [Hosts -> {"none", "busy", "ok", "error"}]
    /\ overlap \in [Hosts -> BOOLEAN]
    /\ who \in [Hosts -> Accounts \cup {"blank", "unsure", None}]

Init ==
    /\ TokenInit
    /\ row = [k \in Keys |-> None]
    /\ owner = [k \in Keys |-> None]
    /\ deleted = {}
    /\ keyFile = [h \in Hosts |-> None]
    /\ cfgFile = [h \in Hosts |-> None]
    /\ run = [e \in Runs |-> Idle]
    /\ last = [h \in Hosts |-> "none"]
    /\ overlap = [h \in Hosts |-> FALSE]
    /\ who = [h \in Hosts |-> None]

\* No row of the account has the name (UNIQUE (tenant_id, name)).
NameFree(a, n) == \A k \in Keys : ~(row[k] = n /\ owner[k] = a)

-----------------------------------------------------------------------------
(* phosphor enroll.                                                         *)

\* The command ends, with an error or without.
Ends(e, how) ==
    /\ run' = [run EXCEPT ![e] = Idle]
    /\ last' = [last EXCEPT ![run[e].host] = how]

At(e, pc) == run[e].pc = pc
Goes(e, pc) == run' = [run EXCEPT ![e].pc = pc]

\* The user runs the command.
Starts(h) ==
    /\ last' = [last EXCEPT ![h] = "busy"]
    /\ overlap' = [overlap EXCEPT ![h] = \E o \in Runs : run[o].host = h]

\* GenerateMachineKey: a fresh key, and the file is truncated...
GenerateMachineKey(e, h, n, token) ==
    /\ \E k \in Keys :
          /\ row[k] = None /\ k \notin deleted
          /\ \A o \in Runs : run[o].key # k
          /\ \A o \in Hosts : keyFile[o] # k /\ cfgFile[o] # k
          /\ run' = [run EXCEPT ![e] = [pc |-> "key", host |-> h, key |-> k, name |-> n,
                                        tok |-> token]]
    /\ keyFile' = [keyFile EXCEPT ![h] = Torn]
    /\ UNCHANGED <<relay, cfgFile, tokenVars>>

\* With an API key of account a the command goes straight to the machine's key.
StartWithKey(e, h, n, a) ==
    /\ At(e, "idle")
    /\ Starts(h)
    /\ GenerateMachineKey(e, h, n, a)
    /\ who' = [who EXCEPT ![h] = a]

\* Without one a cached token is used, expired or not...
StartCached(e, h, n) ==
    /\ At(e, "idle")
    /\ Cached(h)
    /\ Starts(h)
    /\ GenerateMachineKey(e, h, n, tokenFile[h])
    /\ who' = [who EXCEPT ![h] = IF LoginRuns(h) THEN "unsure" ELSE me[h]]

\* ... and without that the browser is opened...
StartBrowser(e, h, n) ==
    /\ At(e, "idle")
    /\ ~Cached(h)
    /\ Starts(h)
    /\ run' = [run EXCEPT ![e] = [pc |-> "browser", host |-> h, key |-> None, name |-> n,
                                  tok |-> None]]
    /\ who' = [who EXCEPT ![h] = "unsure"]
    /\ UNCHANGED <<relay, disk, tokenVars>>

\* ... for a token that serves this run only.
SignIn(e, a) ==
    /\ At(e, "browser")
    /\ GenerateMachineKey(e, run[e].host, run[e].name, a)
    /\ who' = [who EXCEPT ![run[e].host] = a]
    /\ UNCHANGED <<last, overlap>>

\* Mutant: a key that is on disk already is kept.
WriteKeyOnce(e) ==
    /\ At(e, "key")
    /\ keyFile' = [keyFile EXCEPT ![run[e].host] =
                       IF cfgFile[run[e].host] \in Keys THEN cfgFile[run[e].host] ELSE run[e].key]
    /\ Goes(e, "post")
    /\ UNCHANGED <<relay, cfgFile, last, seen, tokenVars>>

\* ... and written.
WriteKey(e) ==
    /\ At(e, "key")
    /\ keyFile' = [keyFile EXCEPT ![run[e].host] = run[e].key]
    /\ Goes(e, "post")
    /\ UNCHANGED <<relay, cfgFile, last, seen, tokenVars>>

\* HandleCreateMachine inserts the row under the account of the token.
Inserted(e) ==
    /\ run[e].tok \in Accounts
    /\ NameFree(run[e].tok, run[e].name)
    /\ row' = [row EXCEPT ![run[e].key] = run[e].name]
    /\ owner' = [owner EXCEPT ![run[e].key] = run[e].tok]

\* POST /api/machines is answered with 201.
CreateMachine(e) ==
    /\ At(e, "post")
    /\ Inserted(e)
    /\ run' = [run EXCEPT ![e].pc = "info", ![e].tok = None]
    /\ UNCHANGED <<deleted, disk, last, seen, tokenVars>>

\* Mutant: the error status is not looked at, a body that decodes is enough.
CreateFailsUnnoticed(e) ==
    /\ At(e, "post")
    /\ Goes(e, "info")
    /\ UNCHANGED <<relay, disk, last, seen, tokenVars>>

\* The request is refused (401 for an expired token, 409 for a name in use, 500)
\* or never arrives, or the row is created and the answer lost: Enroll returns an
\* error.
CreateFails(e) ==
    /\ At(e, "post")
    /\ Inserted(e) \/ UNCHANGED <<row, owner>>
    /\ Ends(e, "error")
    /\ UNCHANGED <<deleted, disk, seen, tokenVars>>

\* GET /api/ssh-info gives the gateway's address and host key.  With them the
\* config is saved, the last thing Enroll does: truncated...
FetchSSHInfo(e) ==
    /\ At(e, "info")
    /\ cfgFile' = [cfgFile EXCEPT ![run[e].host] = Torn]
    /\ Goes(e, "cfg")
    /\ UNCHANGED <<relay, keyFile, last, seen, tokenVars>>

\* Mutant: the machine's name is saved in place of its id.
SaveMachineConfigName(e) ==
    /\ At(e, "cfg")
    /\ cfgFile' = [cfgFile EXCEPT ![run[e].host] = run[e].name]
    /\ Ends(e, "ok")
    /\ UNCHANGED <<relay, keyFile, seen, tokenVars>>

\* ... and written.
SaveMachineConfig(e) ==
    /\ At(e, "cfg")
    /\ cfgFile' = [cfgFile EXCEPT ![run[e].host] = run[e].key]
    /\ Ends(e, "ok")
    /\ UNCHANGED <<relay, keyFile, seen, tokenVars>>

\* Any other step fails (disk full, no ssh-info) or the command is killed.
Killed(e) ==
    /\ ~At(e, "idle")
    /\ Ends(e, "error")
    /\ UNCHANGED <<relay, disk, seen, tokenVars>>

-----------------------------------------------------------------------------
(* The machines page: HandleUpdateMachine and HandleDeleteMachine.          *)

RenameMachine(k, n) ==
    /\ row[k] # None
    /\ NameFree(owner[k], n)
    /\ row' = [row EXCEPT ![k] = n]
    /\ UNCHANGED <<owner, deleted, disk, run, last, seen, tokenVars>>

DeleteMachine(k) ==
    /\ row[k] # None
    /\ row' = [row EXCEPT ![k] = None]
    /\ owner' = [owner EXCEPT ![k] = None]
    /\ deleted' = deleted \cup {k}
    /\ UNCHANGED <<disk, run, last, seen, tokenVars>>

-----------------------------------------------------------------------------
(* phosphor tunnel reads both files once, when it starts.                   *)

\* LoadMachineConfig finds an id; a missing or unreadable file ends the command.
LoadMachineConfig(h) == cfgFile[h] \in Keys

\* So does LoadMachineKey.
LoadMachineKey(h) == keyFile[h] \in Keys

\* The gateway accepts the id with its own key only.
Matches(h) == keyFile[h] = cfgFile[h]

-----------------------------------------------------------------------------
Start(e, h, n) ==
    \/ \E a \in Accounts : StartWithKey(e, h, n, a)
    \/ StartCached(e, h, n)
    \/ StartBrowser(e, h, n)

EnrollStep(e) ==
    \/ \E a \in Accounts : SignIn(e, a)
    \/ WriteKey(e) \/ CreateMachine(e) \/ CreateFails(e) \/ FetchSSHInfo(e)
    \/ SaveMachineConfig(e) \/ Killed(e)

Next ==
    \/ \E e \in Runs : EnrollStep(e) \/ \E h \in Hosts, n \in Names : Start(e, h, n)
    \/ \E k \in Keys : DeleteMachine(k) \/ \E n \in Names : RenameMachine(k, n)
    \/ TokenStep /\ UNCHANGED <<relay, disk, run, last, seen>>

Spec == Init /\ [][Next]_vars

-----------------------------------------------------------------------------
(* Properties.                                                               *)

\* An enroll that reports success, and that did not run beside another one on
\* the host, leaves a whole key and a whole config that belong together, of a
\* row the relay has or had (the order of Enroll's writes and calls), whatever
\* runs before it were refused, killed or lost their answers.
EnrolledIsUsable ==
    \A h \in Hosts :
        last[h] = "ok" /\ ~overlap[h]
        => /\ LoadMachineConfig(h) /\ LoadMachineKey(h) /\ Matches(h)
           /\ row[keyFile[h]] # None \/ keyFile[h] \in deleted

\* A config on disk always names a row that the relay created, even when runs
\* overlap or die: an id is only saved once the relay has answered with it.
ConfigNamesARow ==
    \A h \in Hosts :
        cfgFile[h] \in Keys => row[cfgFile[h]] # None \/ cfgFile[h] \in deleted

\* An enroll that reports success, with no other enroll beside it, has put the
\* machine under the account it was meant for: the API key's, the one just chosen
\* in the browser, or the one the host's last successful login was for, and none
\* after a logout.  Logins that failed, were killed while saving or got a blank
\* answer in between make no difference (Enroll's choice of token, Login,
\* SaveTokenCache, ClearTokenCache).
EnrolledAsSignedIn ==
    \A h \in Hosts :
        last[h] = "ok" /\ ~overlap[h] /\ who[h] # "unsure"
        => owner[cfgFile[h]] = who[h] \/ cfgFile[h] \in deleted

\* "Machine -> hub authentication uses an SSH machine key created at enrollment":
\* when no enroll is running, the key on disk is the one created at the
\* enrollment that machine.json identifies.  The code does not ensure it.
KeyMatchesConfig ==
    \A h \in Hosts :
        /\ \A e \in Runs : run[e].host # h
        /\ LoadMachineConfig(h)
        /\ LoadMachineKey(h)
        => Matches(h)
=============================================================================
