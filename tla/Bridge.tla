-------------------------------- MODULE Bridge --------------------------------
(***************************************************************************)
(* Browser sessions: GET /ws/ssh/{machineID} (relay.HandleSSHBridge), the  *)
(* per-machine cap (bridgeCounts), Registry.Dial and pipe, on top of the   *)
(* gateway as module Tunnels describes it.                                 *)
(*                                                                         *)
(* One session is one handler goroutine; while it pipes it has two copy    *)
(* goroutines and a watchdog.  The handler's deferred calls are the steps  *)
(* at "release".  Bytes are not modelled, only whether a stream can carry  *)
(* some; neither is the clock: a watchdog tick may come at any time.       *)
(***************************************************************************)
EXTENDS Tunnels, FiniteSets

CONSTANTS
    Sessions,              \* handler goroutines at once
    Tenants,
    TenantOf,              \* the tenant each machine is enrolled under
    maxBridgesPerMachine   \* the cap (16 in the code)

ASSUME TenantOfAssumption == TenantOf \in [Machines -> Tenants]
ASSUME CapAssumption == maxBridgesPerMachine \in Nat \ {0}
ASSUME SessionsAssumption == IsFiniteSet(Sessions)

\* The machineID path value is the client's text.  uuid.Parse accepts other
\* spellings of an id (upper case, urn:uuid:, braces); bridgeCounts and the
\* registry compare text, and the registry only holds the canonical spelling.
Paths == Machines \X {"canonical", "other"}
machineOf(p) == p[1]

VARIABLES
    pc,        \* where the handler is
    tenant,    \* user.TenantID
    path,      \* r.PathValue("machineID")
    ws,        \* the browser's WebSocket
    onto,      \* t.conn in Registry.Dial: the connection dialled
    chan,      \* the forwarded-tcpip channel
    copies,    \* pipe's copyOne goroutines still running
    ctxDone,   \* the handler's context is cancelled
    active,    \* pipe's `active`
    n          \* bridgeCounts.n

sessionVars == <<pc, tenant, path, ws, onto, chan, copies, ctxDone, active>>
bridgeVars == <<sessionVars, n>>
vars == <<tunnelVars, bridgeVars>>

\* The handler has a slot it has not given back.
Holding == {"dial", "opening", "ready", "piping", "wait", "release"}

Copies == {"down", "up"}   \* copyOne(ws, tunnel), copyOne(tunnel, ws)

\* The state of the gateway, the handlers and bridgeCounts, whose counters never exceed
\* the cap.
TypeOK ==
    /\ row \in [Machines -> {"none", "enrolled", "deleted"}]
    /\ tunnels \in [Machines -> Conns \cup {None}]
    /\ conn \in [Conns -> ConnStates]
    /\ of \in [Conns -> Machines \cup {None}]
    /\ pc \in [Sessions -> {"idle", "acquire"} \cup Holding]
    /\ tenant \in [Sessions -> Tenants \cup {None}]
    /\ path \in [Sessions -> Paths \cup {None}]
    /\ ws \in [Sessions -> {"none", "open", "closed"}]
    /\ onto \in [Sessions -> Conns \cup {None}]
    /\ chan \in [Sessions -> {"none", "opening", "open", "closing", "closed"}]
    /\ copies \in [Sessions -> SUBSET Copies]
    /\ ctxDone \in [Sessions -> BOOLEAN]
    /\ active \in [Sessions -> BOOLEAN]
    /\ n \in [Paths -> 0..maxBridgesPerMachine]

BridgeInit ==
    /\ pc = [b \in Sessions |-> "idle"]
    /\ tenant = [b \in Sessions |-> None]
    /\ path = [b \in Sessions |-> None]
    /\ ws = [b \in Sessions |-> "none"]
    /\ onto = [b \in Sessions |-> None]
    /\ chan = [b \in Sessions |-> "none"]
    /\ copies = [b \in Sessions |-> {}]
    /\ ctxDone = [b \in Sessions |-> FALSE]
    /\ active = [b \in Sessions |-> FALSE]
    /\ n = [p \in Paths |-> 0]

Init == TunnelsInit /\ BridgeInit

\* The stream a session dialled can still move bytes in both directions.
Carrying(b) == chan[b] \in {"open", "closing"} /\ conn[onto[b]] = "up"

\* The channel is over for the relay: the CLI closed it, or the mux died.
ChannelOver(b) == chan[b] = "closed" \/ conn[onto[b]] \in {"closed", "gone"}

\* The handler returns and the goroutine is free for another request.
Returned(b) ==
    /\ pc' = [pc EXCEPT ![b] = "idle"]
    /\ tenant' = [tenant EXCEPT ![b] = None]
    /\ path' = [path EXCEPT ![b] = None]
    /\ ws' = [ws EXCEPT ![b] = "none"]
    /\ onto' = [onto EXCEPT ![b] = None]
    /\ chan' = [chan EXCEPT ![b] = "none"]
    /\ copies' = [copies EXCEPT ![b] = {}]
    /\ ctxDone' = [ctxDone EXCEPT ![b] = FALSE]
    /\ active' = [active EXCEPT ![b] = FALSE]

-----------------------------------------------------------------------------
(* HandleSSHBridge up to the pipe.                                          *)

\* Mutant: the machine's tenant is not compared with the user's.
AuthorizeAnyTenant(b, t, p) ==
    /\ pc[b] = "idle"
    /\ row[machineOf(p)] = "enrolled"
    /\ pc' = [pc EXCEPT ![b] = "acquire"]
    /\ tenant' = [tenant EXCEPT ![b] = t]
    /\ path' = [path EXCEPT ![b] = p]
    /\ ws' = [ws EXCEPT ![b] = "open"]
    /\ UNCHANGED <<tunnelVars, onto, chan, copies, ctxDone, active, n>>

\* The WebSocket is accepted, the auth prelude resolves to a user, the path
\* parses as a UUID, and GetMachine finds a row of the user's tenant.  A request
\* that fails on the way (no message in 10s, bad JSON, bad token, no such
\* machine, another tenant's) ends before it has touched anything.
Authorize(b, t, p) ==
    /\ pc[b] = "idle"
    /\ row[machineOf(p)] = "enrolled"
    /\ TenantOf[machineOf(p)] = t
    /\ pc' = [pc EXCEPT ![b] = "acquire"]
    /\ tenant' = [tenant EXCEPT ![b] = t]
    /\ path' = [path EXCEPT ![b] = p]
    /\ ws' = [ws EXCEPT ![b] = "open"]
    /\ UNCHANGED <<tunnelVars, onto, chan, copies, ctxDone, active, n>>

\* Mutant: > where >= is meant.
acquireOffByOne(b) ==
    /\ pc[b] = "acquire"
    /\ IF n[path[b]] > maxBridgesPerMachine
       THEN Returned(b) /\ UNCHANGED n
       ELSE /\ n' = [n EXCEPT ![path[b]] = @ + 1]
            /\ pc' = [pc EXCEPT ![b] = "dial"]
            /\ UNCHANGED <<tenant, path, ws, onto, chan, copies, ctxDone, active>>
    /\ UNCHANGED tunnelVars

\* Mutant: the session is counted before the cap is looked at, and stays counted when
\* it is refused.
acquireCountsRefused(b) ==
    /\ pc[b] = "acquire"
    /\ n' = [n EXCEPT ![path[b]] = @ + 1]
    /\ IF n[path[b]] >= maxBridgesPerMachine
       THEN Returned(b)
       ELSE /\ pc' = [pc EXCEPT ![b] = "dial"]
            /\ UNCHANGED <<tenant, path, ws, onto, chan, copies, ctxDone, active>>
    /\ UNCHANGED tunnelVars

\* bridgeCounts.acquire, by the text of the path.
acquire(b) ==
    /\ pc[b] = "acquire"
    /\ IF n[path[b]] >= maxBridgesPerMachine
       THEN Returned(b) /\ UNCHANGED n
       ELSE /\ n' = [n EXCEPT ![path[b]] = @ + 1]
            /\ pc' = [pc EXCEPT ![b] = "dial"]
            /\ UNCHANGED <<tenant, path, ws, onto, chan, copies, ctxDone, active>>
    /\ UNCHANGED tunnelVars

\* Mutant: the offline answer returns without giving the slot back.
DialLeaksSlot(b) ==
    /\ pc[b] = "dial"
    /\ LET t == IF path[b][2] = "canonical" THEN tunnels[machineOf(path[b])] ELSE None
       IN  IF t = None
           THEN Returned(b)
           ELSE /\ pc' = [pc EXCEPT ![b] = "opening"]
                /\ onto' = [onto EXCEPT ![b] = t]
                /\ chan' = [chan EXCEPT ![b] = "opening"]
                /\ UNCHANGED <<tenant, path, ws, copies, ctxDone, active>>
    /\ UNCHANGED <<tunnelVars, n>>

\* Registry.Dial reads the entry under the read lock and, once it has released
\* the lock, asks that connection for a channel.
Dial(b) ==
    /\ pc[b] = "dial"
    /\ LET t == IF path[b][2] = "canonical" THEN tunnels[machineOf(path[b])] ELSE None
       IN  IF t = None
           THEN /\ pc' = [pc EXCEPT ![b] = "release"]
                /\ UNCHANGED <<onto, chan>>
           ELSE /\ pc' = [pc EXCEPT ![b] = "opening"]
                /\ onto' = [onto EXCEPT ![b] = t]
                /\ chan' = [chan EXCEPT ![b] = "opening"]
    /\ UNCHANGED <<tunnelVars, tenant, path, ws, copies, ctxDone, active, n>>

\* OpenChannel has no timeout: it returns when the CLI answers...
ChannelAnswered(b) ==
    /\ pc[b] = "opening"
    /\ conn[onto[b]] = "up"
    /\ \/ /\ pc' = [pc EXCEPT ![b] = "ready"]
          /\ chan' = [chan EXCEPT ![b] = "open"]
       \/ /\ pc' = [pc EXCEPT ![b] = "release"]
          /\ chan' = [chan EXCEPT ![b] = "closed"]
    /\ UNCHANGED <<tunnelVars, tenant, path, ws, onto, copies, ctxDone, active, n>>

\* ... or when the connection dies.
ChannelFails(b) ==
    /\ pc[b] = "opening"
    /\ conn[onto[b]] \in {"closed", "gone"}
    /\ pc' = [pc EXCEPT ![b] = "release"]
    /\ chan' = [chan EXCEPT ![b] = "closed"]
    /\ UNCHANGED <<tunnelVars, tenant, path, ws, onto, copies, ctxDone, active, n>>

\* {"ok":true} is written and the pipe starts; the write may already notice that
\* the browser has left, and then the deferred tunnelConn.Close() runs.
Confirm(b) ==
    /\ pc[b] = "ready"
    /\ \/ /\ pc' = [pc EXCEPT ![b] = "piping"]
          /\ copies' = [copies EXCEPT ![b] = Copies]
          /\ UNCHANGED chan
       \/ /\ ws[b] = "closed"
          /\ pc' = [pc EXCEPT ![b] = "release"]
          /\ chan' = [chan EXCEPT ![b] = IF @ = "open" THEN "closing" ELSE @]
          /\ UNCHANGED copies
    /\ UNCHANGED <<tunnelVars, tenant, path, ws, onto, ctxDone, active, n>>

-----------------------------------------------------------------------------
(* pipe.                                                                     *)

\* One of the copies moves some bytes.
Transfer(b) ==
    /\ pc[b] = "piping"
    /\ copies[b] # {}
    /\ ws[b] = "open"
    /\ Carrying(b)
    /\ active' = [active EXCEPT ![b] = TRUE]
    /\ UNCHANGED <<tunnelVars, pc, tenant, path, ws, onto, chan, copies, ctxDone, n>>

\* The copy from the WebSocket ends: the browser is gone or the context is
\* cancelled (NetConn reads with it), or a write to a dead channel failed.
\* Its deferred cancel ends the context.
UpEnds(b) ==
    /\ "up" \in copies[b]
    /\ ws[b] = "closed" \/ ctxDone[b] \/ ChannelOver(b)
    /\ copies' = [copies EXCEPT ![b] = @ \ {"up"}]
    /\ ctxDone' = [ctxDone EXCEPT ![b] = TRUE]
    /\ UNCHANGED <<tunnelVars, pc, tenant, path, ws, onto, chan, active, n>>

\* The copy from the channel ends: EOF or a dead mux, or bytes arrived that the
\* closed WebSocket does not take.  Closing the channel on this side only sends
\* a message; a blocked Read waits for the CLI's answer.
DownEnds(b) ==
    /\ "down" \in copies[b]
    /\ ChannelOver(b) \/ (Carrying(b) /\ (ws[b] = "closed" \/ ctxDone[b]))
    /\ copies' = [copies EXCEPT ![b] = @ \ {"down"}]
    /\ ctxDone' = [ctxDone EXCEPT ![b] = TRUE]
    /\ UNCHANGED <<tunnelVars, pc, tenant, path, ws, onto, chan, active, n>>

\* The idle watchdog: a period without bytes ends the session.
Tick(b) ==
    /\ pc[b] = "piping"
    /\ ~ctxDone[b]
    /\ active' = [active EXCEPT ![b] = FALSE]
    /\ IF active[b]
       THEN UNCHANGED <<ctxDone, ws, chan>>
       ELSE /\ ctxDone' = [ctxDone EXCEPT ![b] = TRUE]
            /\ ws' = [ws EXCEPT ![b] = "closed"]
            /\ chan' = [chan EXCEPT ![b] = IF @ = "open" THEN "closing" ELSE @]
    /\ UNCHANGED <<tunnelVars, pc, tenant, path, onto, copies, n>>

\* Mutant: pipe closes the WebSocket and leaves the channel open.
PipeClosesOneEnd(b) ==
    /\ pc[b] = "piping"
    /\ ctxDone[b]
    /\ pc' = [pc EXCEPT ![b] = "wait"]
    /\ ws' = [ws EXCEPT ![b] = "closed"]
    /\ UNCHANGED <<tunnelVars, tenant, path, onto, chan, copies, ctxDone, active, n>>

\* pipe wakes on ctx.Done() and closes both ends...
PipeCloses(b) ==
    /\ pc[b] = "piping"
    /\ ctxDone[b]
    /\ pc' = [pc EXCEPT ![b] = "wait"]
    /\ ws' = [ws EXCEPT ![b] = "closed"]
    /\ chan' = [chan EXCEPT ![b] = IF @ = "open" THEN "closing" ELSE @]
    /\ UNCHANGED <<tunnelVars, tenant, path, onto, copies, ctxDone, active, n>>

\* ... and waits for both copies (wg.Wait) before the handler unwinds.
PipeReturns(b) ==
    /\ pc[b] = "wait"
    /\ copies[b] = {}
    /\ pc' = [pc EXCEPT ![b] = "release"]
    /\ UNCHANGED <<tunnelVars, tenant, path, ws, onto, chan, copies, ctxDone, active, n>>

\* The deferred bridgeCounts.release, and the handler returns.
release(b) ==
    /\ pc[b] = "release"
    /\ n' = [n EXCEPT ![path[b]] = IF @ > 0 THEN @ - 1 ELSE @]
    /\ Returned(b)
    /\ UNCHANGED tunnelVars

-----------------------------------------------------------------------------
(* The other ends.                                                           *)

\* The browser closes its tab, or its connection breaks.
BrowserLeaves(b) ==
    /\ ws[b] = "open"
    /\ ws' = [ws EXCEPT ![b] = "closed"]
    /\ UNCHANGED <<tunnelVars, pc, tenant, path, onto, chan, copies, ctxDone, active, n>>

\* The CLI closes the channel: its sshd hung up, or in answer to our close.
ChannelClosed(b) ==
    /\ Carrying(b)
    /\ chan' = [chan EXCEPT ![b] = "closed"]
    /\ UNCHANGED <<tunnelVars, pc, tenant, path, ws, onto, copies, ctxDone, active, n>>

\* The relay restarts: its sessions and its counts are lost with it.
Restart ==
    /\ TunnelsRestart
    /\ pc' = [b \in Sessions |-> "idle"]
    /\ tenant' = [b \in Sessions |-> None]
    /\ path' = [b \in Sessions |-> None]
    /\ ws' = [b \in Sessions |-> "none"]
    /\ onto' = [b \in Sessions |-> None]
    /\ chan' = [b \in Sessions |-> "none"]
    /\ copies' = [b \in Sessions |-> {}]
    /\ ctxDone' = [b \in Sessions |-> FALSE]
    /\ active' = [b \in Sessions |-> FALSE]
    /\ n' = [p \in Paths |-> 0]

HandlerStep(b) ==
    \/ acquire(b) \/ Dial(b) \/ ChannelFails(b)
    \/ Confirm(b) \/ UpEnds(b) \/ DownEnds(b)
    \/ PipeCloses(b) \/ PipeReturns(b) \/ release(b)

SessionStep(b) ==
    \/ \E t \in Tenants, p \in Paths : Authorize(b, t, p)
    \/ HandlerStep(b)
    \/ ChannelAnswered(b)
    \/ Transfer(b)
    \/ Tick(b)
    \/ BrowserLeaves(b)
    \/ ChannelClosed(b)

Next ==
    \/ TunnelStep /\ UNCHANGED bridgeVars
    \/ \E b \in Sessions : SessionStep(b)
    \/ Restart

Spec == Init /\ [][Next]_vars

\* The handler's goroutines run and the watchdog ticks; a copy goroutine may be
\* stuck in a read or a write until the channel is over; the ssh library of a
\* CLI that is there answers a channel open and a channel close; the gateway
\* gives up on vanished CLIs.
Fairness ==
    /\ \A b \in Sessions :
         /\ WF_vars(acquire(b) \/ Dial(b) \/ ChannelFails(b) \/ Confirm(b)
                    \/ PipeCloses(b) \/ PipeReturns(b) \/ release(b))
         /\ WF_vars(UpEnds(b) /\ ChannelOver(b))
         /\ WF_vars(DownEnds(b) /\ ChannelOver(b))
         /\ WF_vars(Tick(b))
         /\ WF_vars(ChannelAnswered(b))
         /\ WF_vars(chan[b] = "closing" /\ ChannelClosed(b))
    /\ \A c \in Conns : WF_vars(conn[c] = "zombie" /\ Close(c) /\ UNCHANGED bridgeVars)

FairSpec == Spec /\ Fairness

-----------------------------------------------------------------------------
(* Properties.                                                               *)

\* Sessions that count against path p.
Holders(p) == {b \in Sessions : pc[b] \in Holding /\ path[b] = p}

\* The counter is exact: on every exit path of the handler the slot that acquire
\* took is given back once, and never another session's.
CountsAreHolders ==
    \A p \in Paths : n[p] = Cardinality(Holders(p))

\* A session's channel is open towards machine m.
OpenTo(b, m) == pc[b] \in {"opening", "ready", "piping", "wait"} /\ of[onto[b]] = m

\* The cap holds per machine, although slots are counted per spelling of its id:
\* no machine has more open channels than maxBridgesPerMachine.
CapPerMachine ==
    \A m \in Machines :
        Cardinality({b \in Sessions : OpenTo(b, m)}) <= maxBridgesPerMachine

\* Bytes only flow between a user and a machine of the user's own tenant, even
\* when the machine's entry is replaced, deleted or re-registered between the
\* tenant check, the registry lookup and the channel open.
TenantIsolation ==
    \A b \in Sessions :
        onto[b] # None => /\ of[onto[b]] # None
                          /\ TenantOf[of[onto[b]]] = tenant[b]

\* A slot does not leak: once the browser has left, or the tunnel's connection
\* is lost or its CLI has vanished, the handler unwinds and returns.
SlotIsReleased ==
    \A b \in Sessions :
        (pc[b] \in Holding /\ (ws[b] = "closed" \/ (onto[b] # None /\ conn[onto[b]] # "up")))
            ~> pc[b] = "idle"
=============================================================================
