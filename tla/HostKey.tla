------------------------------- MODULE HostKey -------------------------------
(***************************************************************************)
(* The gateway's SSH host key: LoadOrCreateHostKey, which main.go calls at *)
(* every start of the relay before anything listens, and the file it keeps *)
(* the key in.  os.WriteFile creates an empty file and then writes it, so  *)
(* the process may die in between.                                         *)
(*                                                                         *)
(* The file is on a persistent volume of one relay process: what was       *)
(* written stays, and nobody but the operator, faced with a relay that     *)
(* does not start, removes it.                                             *)
(***************************************************************************)
CONSTANTS
    HostKeys,   \* keys ed25519.GenerateKey may return
    None,       \* no file, no key
    Torn        \* a file that was created and not written

ASSUME HostKeyAssumption == None \notin HostKeys /\ Torn \notin HostKeys /\ Torn # None

VARIABLES
    relay,      \* the process: not running, persisting a new key, serving
    keyFile,    \* SSH_HOST_KEY_FILE
    served      \* the key in memory, which ssh-info and the gateway present

hostKeyVars == <<relay, keyFile, served>>

HostKeyTypeOK ==
    /\ relay \in {"down", "writing", "up"}
    /\ keyFile \in HostKeys \cup {None, Torn}
    /\ served \in HostKeys \cup {None}

HostKeyInit ==
    /\ relay = "down"
    /\ keyFile = None
    /\ served = None

\* A start that finds a key serves it.  One that finds an unreadable file exits,
\* and the relay stays down.
LoadHostKey ==
    /\ relay = "down"
    /\ keyFile \in HostKeys
    /\ relay' = "up"
    /\ served' = keyFile
    /\ UNCHANGED keyFile

\* A start that finds no file generates a key and creates the file...
GenerateHostKey(k) ==
    /\ relay = "down"
    /\ keyFile = None
    /\ relay' = "writing"
    /\ served' = k
    /\ keyFile' = Torn

\* ... writes it, and only then does the relay listen.
PersistHostKey ==
    /\ relay = "writing"
    /\ relay' = "up"
    /\ keyFile' = served
    /\ UNCHANGED served

\* Mutant: the error of WriteFile is not looked at.
PersistFailsServes ==
    /\ relay = "writing"
    /\ relay' = "up"
    /\ UNCHANGED <<served, keyFile>>

\* The write fails (the relay exits) or the process is killed before it.
PersistFails ==
    /\ relay = "writing"
    /\ relay' = "down"
    /\ served' = None
    /\ UNCHANGED keyFile

\* The relay stops: a deployment, a crash.
RelayStops ==
    /\ relay = "up"
    /\ relay' = "down"
    /\ served' = None
    /\ UNCHANGED keyFile

\* The operator removes the file that keeps the relay from starting.
RemoveHostKey ==
    /\ relay = "down"
    /\ keyFile = Torn
    /\ keyFile' = None
    /\ UNCHANGED <<relay, served>>
=============================================================================
