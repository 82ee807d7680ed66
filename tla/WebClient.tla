------------------------------ MODULE WebClient ------------------------------
(***************************************************************************)
(* A terminal in the browser: ConnectView and useSSH, the WebAssembly SSH  *)
(* client they call (webssh.connect, openAndAuth, wsConn, await) and the   *)
(* host-key pins in localStorage, which all views of a machine share, also *)
(* those in other tabs.                                                    *)
(*                                                                         *)
(* The page has one thread.  An action is one task of its event loop with  *)
(* everything that follows before the next task: the Go runtime runs its   *)
(* goroutines until all are blocked, and the promises they settled run     *)
(* their continuations.  Between tasks anything may happen: the user       *)
(* leaves, the socket closes, another view changes the pin.                *)
(* Key re-exchange and what the terminal displays are left out.            *)
(***************************************************************************)
CONSTANTS
    Views,         \* mounted ConnectViews of one machine
    Fingerprints,  \* host keys the machine may present
    None

ASSUME WebNoneAssumption == None \notin Fingerprints \cup {"hostkey", "password"}

VARIABLES
    view,        \* the component: the form, the terminal, unmounted
    cancelled,   \* `cancelled` of the effect that started the connection
    pc,          \* the effect's async function and the goroutine of connect
    ws,          \* the WebSocket
    fp,          \* the fingerprint of the host key presented on it
    ask,         \* authRequest: the prompt on the screen
    connected,   \* the hook's state `connected`
    pin,         \* localStorage: the pinned fingerprint of the machine
    accepted     \* history: fingerprints the user has accepted

vars == <<view, cancelled, pc, ws, fp, ask, connected, pin, accepted>>

\* The goroutine of connect has something to do or to wait for.
Working == {"load", "open", "hello", "hostkey", "auth", "prompt", "shell"}

TypeOK ==
    /\ view \in [Views -> {"form", "terminal", "left"}]
    /\ cancelled \in [Views -> BOOLEAN]
    /\ pc \in [Views -> {"idle", "up", "over"} \cup Working]
    /\ ws \in [Views -> {"none", "connecting", "open", "closed"}]
    /\ fp \in [Views -> Fingerprints \cup {None}]
    /\ ask \in [Views -> {"hostkey", "password", None}]
    /\ connected \in [Views -> BOOLEAN]
    /\ pin \in Fingerprints \cup {None}
    /\ accepted \subseteq Fingerprints

Init ==
    /\ view = [v \in Views |-> "form"]
    /\ cancelled = [v \in Views |-> FALSE]
    /\ pc = [v \in Views |-> "idle"]
    /\ ws = [v \in Views |-> "none"]
    /\ fp = [v \in Views |-> None]
    /\ ask = [v \in Views |-> None]
    /\ connected = [v \in Views |-> FALSE]
    /\ pin = None
    /\ accepted = {}

Goes(v, where) == pc' = [pc EXCEPT ![v] = where]
Asks(v, what) == ask' = [ask EXCEPT ![v] = what]

\* The connection is over and its socket closed: connect returns an error, which
\* the hook shows unless it was cancelled, or session.close has run.
HangsUp(v) ==
    /\ Goes(v, "over")
    /\ ws' = [ws EXCEPT ![v] = IF @ = "none" THEN "none" ELSE "closed"]

-----------------------------------------------------------------------------
(* ConnectView and useSSH.                                                  *)

\* The form is submitted; the hook's effect calls loadSSH.
Submit(v) ==
    /\ view[v] = "form"
    /\ view' = [view EXCEPT ![v] = "terminal"]
    /\ Goes(v, "load")
    /\ UNCHANGED <<cancelled, ws, fp, ask, connected, pin, accepted>>

\* The effect's cleanup: the session that is up, if any, is disconnected, which
\* closes its socket.  One that is being built goes on.
Cleanup(v) ==
    /\ cancelled' = [cancelled EXCEPT ![v] = pc[v] # "idle"]
    /\ IF pc[v] = "up" THEN HangsUp(v) ELSE UNCHANGED <<pc, ws>>

\* The user leaves the page: a prompt disappears unanswered.
Unmount(v) ==
    /\ view[v] # "left"
    /\ view' = [view EXCEPT ![v] = "left"]
    /\ Cleanup(v)
    /\ Asks(v, None)
    /\ UNCHANGED <<fp, connected, pin, accepted>>

\* The token or the key changes under a view that stays: cleanup, and startedRef
\* keeps the effect from connecting again.
DependenciesChange(v) ==
    /\ view[v] = "terminal"
    /\ ~cancelled[v]
    /\ Cleanup(v)
    /\ UNCHANGED <<view, fp, ask, connected, pin, accepted>>

\* The button [disconnect]; before the session is up there is no handle and the
\* connection goes on.
Disconnect(v) ==
    /\ view[v] = "terminal"
    /\ IF pc[v] = "up" THEN HangsUp(v) ELSE UNCHANGED <<pc, ws>>
    /\ connected' = [connected EXCEPT ![v] = FALSE]
    /\ UNCHANGED <<view, cancelled, fp, ask, pin, accepted>>

-----------------------------------------------------------------------------
(* webssh.connect.                                                          *)

\* loadSSH resolves: connect creates the WebSocket and openAndAuth listens.
\* Nobody looks at `cancelled` here.
Loaded(v) ==
    /\ pc[v] = "load"
    /\ Goes(v, "open")
    /\ ws' = [ws EXCEPT ![v] = "connecting"]
    /\ UNCHANGED <<view, cancelled, fp, ask, connected, pin, accepted>>

LoadFails(v) ==
    /\ pc[v] = "load"
    /\ HangsUp(v)
    /\ UNCHANGED <<view, cancelled, fp, ask, connected, pin, accepted>>

\* The socket opens and the token is sent.
Opened(v) ==
    /\ ws[v] = "connecting"
    /\ ws' = [ws EXCEPT ![v] = "open"]
    /\ UNCHANGED <<view, cancelled, pc, fp, ask, connected, pin, accepted>>

\* {"ok":true}: the listeners are exchanged for wsConn's and the handshake begins.
Acknowledged(v) ==
    /\ pc[v] = "open"
    /\ ws[v] = "open"
    /\ Goes(v, "hello")
    /\ UNCHANGED <<view, cancelled, ws, fp, ask, connected, pin, accepted>>

\* The relay answers with an error, the machine has refused every method of
\* authentication, or it refuses the session, the pty or the shell.
Refused(v) ==
    /\ pc[v] \in {"open", "auth", "shell"}
    /\ ws[v] = "open"
    /\ HangsUp(v)
    /\ UNCHANGED <<view, cancelled, fp, ask, connected, pin, accepted>>

\* Mutant: any pin will do.
HostKeyAnyPin(v, f) ==
    /\ pc[v] = "hello"
    /\ fp' = [fp EXCEPT ![v] = f]
    /\ IF pin # None
       THEN Goes(v, "auth") /\ UNCHANGED ask
       ELSE Goes(v, "hostkey") /\ Asks(v, "hostkey")
    /\ UNCHANGED <<view, cancelled, ws, connected, pin, accepted>>

\* The machine presents its key.  HostKeyCallback awaits onHostKey, which
\* accepts the pinned key and asks the user about every other.
HostKey(v, f) ==
    /\ pc[v] = "hello"
    /\ fp' = [fp EXCEPT ![v] = f]
    /\ IF pin = f
       THEN Goes(v, "auth") /\ UNCHANGED ask
       ELSE /\ Goes(v, "hostkey")
            /\ ask' = [ask EXCEPT ![v] = IF view[v] = "left" THEN None ELSE "hostkey"]
    /\ UNCHANGED <<view, cancelled, ws, connected, pin, accepted>>

\* The user answers: an accepted key is pinned.  If the socket closed meanwhile
\* the handshake fails now.
AnswerHostKey(v, accept) ==
    /\ ask[v] = "hostkey"
    /\ Asks(v, None)
    /\ pin' = IF accept THEN fp[v] ELSE pin
    /\ accepted' = IF accept THEN accepted \cup {fp[v]} ELSE accepted
    /\ IF accept /\ ws[v] = "open"
       THEN Goes(v, "auth") /\ UNCHANGED ws
       ELSE HangsUp(v)
    /\ UNCHANGED <<view, cancelled, fp, connected>>

\* The machine wants a password, or another answer, and the callback awaits it.
PasswordAsked(v) ==
    /\ pc[v] = "auth"
    /\ Goes(v, "prompt")
    /\ ask' = [ask EXCEPT ![v] = IF view[v] = "left" THEN None ELSE "password"]
    /\ UNCHANGED <<view, cancelled, ws, fp, connected, pin, accepted>>

\* An answer or a cancellation: the ssh library goes on to the machine's verdict
\* or to the next method, unless the socket closed meanwhile.
AnswerPassword(v) ==
    /\ ask[v] = "password"
    /\ Asks(v, None)
    /\ IF ws[v] = "open"
       THEN Goes(v, "auth") /\ UNCHANGED ws
       ELSE HangsUp(v)
    /\ UNCHANGED <<view, cancelled, fp, connected, pin, accepted>>

\* Authenticated: the session, its pty and its shell are requested.
Authenticated(v) ==
    /\ pc[v] = "auth"
    /\ Goes(v, "shell")
    /\ UNCHANGED <<view, cancelled, ws, fp, ask, connected, pin, accepted>>

\* Mutant: the hook keeps the handle although it was cancelled.
ShellStartedAnyway(v) ==
    /\ pc[v] = "shell"
    /\ Goes(v, "up")
    /\ connected' = [connected EXCEPT ![v] = TRUE]
    /\ UNCHANGED <<view, cancelled, ws, fp, ask, pin, accepted>>

\* The shell has started: connect resolves and the hook keeps the handle, or, if
\* it was cancelled, disconnects.
ShellStarted(v) ==
    /\ pc[v] = "shell"
    /\ IF cancelled[v]
       THEN HangsUp(v) /\ UNCHANGED connected
       ELSE /\ Goes(v, "up")
            /\ connected' = [connected EXCEPT ![v] = TRUE]
            /\ UNCHANGED ws
    /\ UNCHANGED <<view, cancelled, fp, ask, pin, accepted>>

\* The shell was gone by the time it had started: its end came with the reply,
\* so onClose runs before the promise's continuation, which sets `connected`.
ShellStartedAndEnded(v) ==
    /\ pc[v] = "shell"
    /\ HangsUp(v)
    /\ connected' = [connected EXCEPT ![v] = ~cancelled[v]]
    /\ UNCHANGED <<view, cancelled, fp, ask, pin, accepted>>

\* Mutant: a closed socket ends connect also while a prompt is open.
SocketClosesEndsAll(v) ==
    /\ ws[v] \in {"connecting", "open"}
    /\ ws' = [ws EXCEPT ![v] = "closed"]
    /\ Goes(v, "over")
    /\ connected' = [connected EXCEPT ![v] = IF pc[v] = "up" /\ ~cancelled[v] THEN FALSE ELSE @]
    /\ UNCHANGED <<view, cancelled, fp, ask, pin, accepted>>

\* The socket closes, or the machine ends the connection or the session.  A
\* goroutine that reads or waits notices; one that awaits an answer does not.
SocketCloses(v) ==
    /\ ws[v] \in {"connecting", "open"}
    /\ ws' = [ws EXCEPT ![v] = "closed"]
    /\ IF pc[v] \in {"hostkey", "prompt"} THEN UNCHANGED pc ELSE Goes(v, "over")
    /\ connected' = [connected EXCEPT ![v] = IF pc[v] = "up" /\ ~cancelled[v] THEN FALSE ELSE @]
    /\ UNCHANGED <<view, cancelled, fp, ask, pin, accepted>>

-----------------------------------------------------------------------------
User(v) ==
    \/ Submit(v)
    \/ Unmount(v)
    \/ DependenciesChange(v)
    \/ Disconnect(v)
    \/ \E yes \in BOOLEAN : AnswerHostKey(v, yes)
    \/ AnswerPassword(v)

Network(v) ==
    \/ Loaded(v)
    \/ LoadFails(v)
    \/ Opened(v)
    \/ Acknowledged(v)
    \/ Refused(v)
    \/ \E f \in Fingerprints : HostKey(v, f)
    \/ PasswordAsked(v)
    \/ Authenticated(v)
    \/ ShellStarted(v)
    \/ ShellStartedAndEnded(v)
    \/ SocketCloses(v)

\* Every view has come to its end.
Done == (\A v \in Views : view[v] = "left") /\ UNCHANGED vars

Next == (\E v \in Views : User(v) \/ Network(v)) \/ Done

Spec == Init /\ [][Next]_vars

\* A connection that does not get as far as a shell ends: the module loads or
\* does not, and the relay's timeouts and the sshd's login grace time close the
\* socket.  A shell may run for ever, and the user need not do anything.
FairSpec ==
    /\ Spec
    /\ \A v \in Views :
         /\ WF_vars(Loaded(v) \/ LoadFails(v))
         /\ WF_vars(pc[v] \in Working /\ SocketCloses(v))

-----------------------------------------------------------------------------
(* Properties.                                                               *)

\* No credential is asked for, and no shell started, towards a host key that the
\* user has not accepted, in this view or an earlier one, even when another
\* view changes the pin while this one connects (onHostKey, setHostKeyPin).
HostKeyTrusted ==
    \A v \in Views : pc[v] \in {"auth", "prompt", "shell", "up"} => fp[v] \in accepted

\* A prompt on the screen has a goroutine waiting for its answer, so no answer
\* goes to a connection that has given up or to the next question (authRequest
\* with await), whatever became of the socket meanwhile.
PromptHasWaiter ==
    \A v \in Views :
        /\ ask[v] = "hostkey" => pc[v] = "hostkey"
        /\ ask[v] = "password" => pc[v] = "prompt"

\* Who leaves hangs up: a view that was left, or whose token or key changed, in
\* any phase of connecting, ends up without a socket for good (the cleanup, and
\* the check of `cancelled` when connect resolves).
LeavingHangsUp ==
    \A v \in Views :
        (cancelled[v] \/ view[v] = "left") ~> [](ws[v] \in {"none", "closed"})
=============================================================================
