---------------------------- MODULE TunnelClient ----------------------------
(***************************************************************************)
(* `phosphor tunnel` on one machine: RunTunnel's reconnect loop,           *)
(* runTunnelOnce with its keepalive and context goroutines, and            *)
(* bridgeToSSHD for each channel the gateway opens, against a gateway      *)
(* whose host key (module HostKey) enrolling has pinned.  The gateway      *)
(* restarts, the link breaks or goes silent.  How long the loop backs off  *)
(* is left out, only that the wait ends; so is the authentication of the   *)
(* machine, which module Enroll covers.                                    *)
(***************************************************************************)
EXTENDS Naturals, HostKey

CONSTANTS
    Chans,       \* channels the gateway may have open at once
    MaxFaults    \* bound: failures of the gateway and the network

ASSUME MaxFaultsAssumption == MaxFaults \in Nat

VARIABLES
    pc,       \* where RunTunnel is
    stop,     \* ctx is cancelled
    link,     \* the SSH connection: "silent" when nothing arrives any more
    ka,       \* the keepalive goroutine: waiting for its tick, or for a reply
    watch,    \* goroutines that wait for connCtx to end (the one that closes client)
    ch,       \* bridgeToSSHD of each channel
    pin,      \* host_key in machine.json: the key the tunnel insists on
    faults    \* failures so far

env == <<pin, hostKeyVars, faults>>
vars == <<pc, stop, link, ka, watch, ch, env>>

TypeOK ==
    /\ HostKeyTypeOK
    /\ pc \in {"new", "dial", "listen", "accept", "drain", "backoff", "stopped"}
    /\ stop \in BOOLEAN
    /\ link \in {"none", "up", "silent", "closed"}
    /\ ka \in {"off", "tick", "sent"}
    /\ watch \in 0..1
    /\ ch \in [Chans -> {"none", "dial", "copy"}]
    /\ pin \in HostKeys \cup {None}
    /\ faults \in 0..MaxFaults

Init ==
    /\ HostKeyInit
    /\ pc = "new"
    /\ stop = FALSE
    /\ link = "none"
    /\ ka = "off"
    /\ watch = 0
    /\ ch = [c \in Chans |-> "none"]
    /\ pin = None
    /\ faults = 0

\* The tunnel is up and registered.
Established == pc = "accept" /\ link = "up"

\* The machine is enrolled: ssh-info gives the key the gateway serves now, and
\* RunTunnel starts with it.
Pin ==
    /\ pc = "new"
    /\ relay = "up"
    /\ pin' = served
    /\ pc' = "dial"
    /\ UNCHANGED <<stop, link, ka, watch, ch, hostKeyVars, faults>>

-----------------------------------------------------------------------------
(* runTunnelOnce.                                                           *)

\* The function returns (its deferred calls close the client and end connCtx)
\* and RunTunnel looks at ctx.
Returns ==
    /\ pc' = IF stop THEN "stopped" ELSE "backoff"
    /\ link' = "none"
    /\ ka' = "off"
    /\ watch' = 0
    /\ UNCHANGED <<stop, ch, env>>

\* The gateway answers and presents the pinned key (FixedHostKey).
Reachable == relay = "up" /\ served = pin

\* ssh.Dial connects and authenticates.
Dial ==
    /\ pc = "dial"
    /\ Reachable
    /\ link = "none"
    /\ link' = "up"
    /\ pc' = "listen"
    /\ UNCHANGED <<stop, ka, watch, ch, env>>

DialFails ==
    /\ pc = "dial"
    /\ ~Reachable
    /\ Returns

\* client.Listen: the gateway grants the forward; the two goroutines start.
Listen ==
    /\ pc = "listen"
    /\ link = "up"
    /\ pc' = "accept"
    /\ ka' = "tick"
    /\ watch' = watch + 1
    /\ UNCHANGED <<stop, link, ch, env>>

\* The request for the forward fails with the connection.  There is no timeout
\* of the program's own here: on a silent link it ends when TCP gives up.
ListenFails ==
    /\ pc = "listen"
    /\ link \in {"silent", "closed"}
    /\ Returns

\* The keepalive goroutine's tick: a request is sent, or fails at once.
KeepaliveTick ==
    /\ ka = "tick"
    /\ IF link = "closed"
       THEN ka' = "off"
       ELSE ka' = "sent"
    /\ UNCHANGED <<pc, stop, link, watch, ch, env>>

KeepaliveReply ==
    /\ ka = "sent"
    /\ link = "up"
    /\ ka' = "tick"
    /\ UNCHANGED <<pc, stop, link, watch, ch, env>>

\* Mutant: the goroutine gives up and leaves the client open.
KeepaliveLostOnly ==
    /\ ka = "sent"
    /\ link \in {"silent", "closed"}
    /\ ka' = "off"
    /\ UNCHANGED <<pc, stop, link, watch, ch, env>>

\* No reply in time, or the request fails: client.Close().
KeepaliveLost ==
    /\ ka = "sent"
    /\ link \in {"silent", "closed"}
    /\ link' = "closed"
    /\ ka' = "off"
    /\ UNCHANGED <<pc, stop, watch, ch, env>>

\* Mutant: nobody closes the client when the context ends.
WatchContextOnly ==
    /\ watch > 0
    /\ stop
    /\ watch' = 0
    /\ ka' = "off"
    /\ UNCHANGED <<pc, stop, link, ch, env>>

\* connCtx ends with ctx: client.Close(), and the keepalive goroutine returns.
WatchContext ==
    /\ watch > 0
    /\ stop
    /\ link' = "closed"
    /\ watch' = 0
    /\ ka' = "off"
    /\ UNCHANGED <<pc, stop, ch, env>>

\* listener.Accept fails once the connection is over.
AcceptFails ==
    /\ pc = "accept"
    /\ link = "closed"
    /\ pc' = "drain"
    /\ UNCHANGED <<stop, link, ka, watch, ch, env>>

\* Mutant: runTunnelOnce returns without waiting for its sessions.
DrainedAtOnce ==
    /\ pc = "drain"
    /\ Returns

\* Mutant: connCtx is never cancelled, its goroutine stays.
DrainedKeepsContext ==
    /\ pc = "drain"
    /\ \A c \in Chans : ch[c] = "none"
    /\ pc' = IF stop THEN "stopped" ELSE "backoff"
    /\ link' = "none"
    /\ ka' = "off"
    /\ UNCHANGED <<stop, watch, ch, env>>

\* wg.Wait: every bridgeToSSHD has returned.
Drained ==
    /\ pc = "drain"
    /\ \A c \in Chans : ch[c] = "none"
    /\ Returns

\* RunTunnel: the backoff is over, or ctx is.
Backoff ==
    /\ pc = "backoff"
    /\ pc' = IF stop THEN "stopped" ELSE "dial"
    /\ UNCHANGED <<stop, link, ka, watch, ch, env>>

-----------------------------------------------------------------------------
(* bridgeToSSHD.                                                            *)

\* The gateway opens a channel; the goroutine dials the local sshd.
AcceptChannel(c) ==
    /\ Established
    /\ ch[c] = "none"
    /\ ch' = [ch EXCEPT ![c] = "dial"]
    /\ UNCHANGED <<pc, stop, link, ka, watch, env>>

\* The sshd answers.  The dial is made under connCtx, but that ends only when
\* ctx does or when runTunnelOnce returns.
ConnectSSHD(c) ==
    /\ ch[c] = "dial"
    /\ ch' = [ch EXCEPT ![c] = "copy"]
    /\ UNCHANGED <<pc, stop, link, ka, watch, env>>

\* It does not, in the time the system gives a dial, or the context is over.
ConnectFails(c) ==
    /\ ch[c] = "dial"
    /\ ch' = [ch EXCEPT ![c] = "none"]
    /\ UNCHANGED <<pc, stop, link, ka, watch, env>>

\* Either copy is done, because one side hung up: both are closed.
SessionEnds(c) ==
    /\ ch[c] = "copy"
    /\ link # "silent"
    /\ ch' = [ch EXCEPT ![c] = "none"]
    /\ UNCHANGED <<pc, stop, link, ka, watch, env>>

-----------------------------------------------------------------------------
(* The environment.                                                         *)

\* ctx is cancelled.
Cancel ==
    /\ pc \notin {"new", "stopped"}
    /\ ~stop
    /\ stop' = TRUE
    /\ UNCHANGED <<pc, link, ka, watch, ch, env>>

\* A live connection breaks.
Broken == IF link \in {"up", "silent"} THEN "closed" ELSE link

GatewayStops ==
    /\ faults < MaxFaults
    /\ RelayStops
    /\ faults' = faults + 1
    /\ link' = Broken
    /\ UNCHANGED <<pc, stop, ka, watch, ch, pin>>

\* The relay dies while it writes its first key.
FirstStartFails ==
    /\ faults < MaxFaults
    /\ PersistFails
    /\ faults' = faults + 1
    /\ UNCHANGED <<pc, stop, link, ka, watch, ch, pin>>

Start == LoadHostKey \/ PersistHostKey \/ \E k \in HostKeys : GenerateHostKey(k)

GatewayStarts == Start /\ UNCHANGED <<pc, stop, link, ka, watch, ch, pin, faults>>

OperatorActs == RemoveHostKey /\ UNCHANGED <<pc, stop, link, ka, watch, ch, pin, faults>>

\* The gateway drops the connection: its idle timeout, a replacement.
LinkBreaks ==
    /\ faults < MaxFaults
    /\ link \in {"up", "silent"}
    /\ link' = "closed"
    /\ faults' = faults + 1
    /\ UNCHANGED <<pc, stop, ka, watch, ch, pin, hostKeyVars>>

\* Packets stop arriving and nobody says so.
LinkGoesSilent ==
    /\ faults < MaxFaults
    /\ link = "up"
    /\ link' = "silent"
    /\ faults' = faults + 1
    /\ UNCHANGED <<pc, stop, ka, watch, ch, pin, hostKeyVars>>

Step ==
    \/ Pin \/ Dial \/ DialFails \/ Listen \/ ListenFails \/ AcceptFails \/ Drained \/ Backoff

Keepalive == KeepaliveTick \/ KeepaliveReply \/ KeepaliveLost

Session(c) == ConnectSSHD(c) \/ ConnectFails(c) \/ SessionEnds(c)

Stopped == pc = "stopped" /\ UNCHANGED vars

Next ==
    \/ Step
    \/ Keepalive
    \/ WatchContext
    \/ \E c \in Chans : AcceptChannel(c) \/ Session(c)
    \/ Cancel \/ GatewayStops \/ FirstStartFails \/ GatewayStarts \/ OperatorActs
    \/ LinkBreaks \/ LinkGoesSilent
    \/ Stopped

Spec == Init /\ [][Next]_vars

\* The program's goroutines run, its timers fire, the gateway comes back; a
\* dial of the sshd ends one way or the other; a session's copy ends once the
\* tunnel's connection is closed, and otherwise may last forever.
FairSpec ==
    /\ Spec
    /\ WF_vars(Step)
    /\ WF_vars(Keepalive)
    /\ WF_vars(WatchContext)
    /\ WF_vars(GatewayStarts)
    /\ \A c \in Chans : /\ WF_vars(ConnectSSHD(c) \/ ConnectFails(c))
                        /\ WF_vars(link = "closed" /\ SessionEnds(c))

-----------------------------------------------------------------------------
(* Properties.                                                               *)

\* The tunnel of an enrolled machine is rebuilt: once the faults are over,
\* whatever they were and in whatever phase they struck, the machine is reachable
\* for good, without anybody's help (RunTunnel, "this is what survives relay
\* redeploys"; the keepalive goroutine; LoadOrCreateHostKey).
TunnelRecovers ==
    <>[](pin = None \/ stop \/ Established)

\* A pin keeps working: once a machine has pinned the key it was given, every
\* relay that serves at all serves that key, however often it is restarted or
\* dies, its first start included ("must be stable across restarts so CLI
\* host-key pinning keeps working": persist first, then listen).
PinKeepsWorking ==
    pin # None /\ relay = "up" => served = pin

\* Sessions of a lost tunnel are over before the next one is dialled, so no
\* sshd connection outlives the tunnel that carried it (wg.Wait).
SessionsAreDrained ==
    pc \in {"dial", "listen", "backoff"} => \A c \in Chans : ch[c] = "none"

\* Cancelling the context ends RunTunnel, also from a tunnel that works, one
\* that hangs, and a backoff.
CancelStops ==
    stop ~> pc = "stopped"
=============================================================================
