-------------------------------- MODULE Gate --------------------------------
(***************************************************************************)
(* The SSH gateway of the relay (internal/sshgate) with the one HTTP       *)
(* handler that reaches into it, HandleDeleteMachine.                      *)
(*                                                                         *)
(* Machines (their CLIs) keep a reverse tunnel open: an SSH connection     *)
(* that authenticates with the machine's key and then asks for             *)
(* tcpip-forward.  Each connection is served by goroutines of its own; the *)
(* Registry they share is guarded by a mutex, but a connection that is     *)
(* being replaced or unenrolled is closed after the mutex is released, so  *)
(* those are two steps here.  Between any two steps everything else may    *)
(* happen: links die, peers vanish without a word, requests wait in a      *)
(* connection's buffer, the relay restarts.                                *)
(*                                                                         *)
(* A machine stands for its row, its id and its key: ids are fresh UUIDs   *)
(* and fingerprints are UNIQUE in the schema.  last_seen_at, which only    *)
(* the machine list displays, and the payload of a request are left out.   *)
(***************************************************************************)
EXTENDS Naturals, Sequences

CONSTANTS
    Machines,   \* machine ids ever enrolled
    Conns,      \* connections ever accepted by the gateway
    Deleters,   \* DELETE /api/machines/{id} requests in flight at once
    ReqBuf,     \* bound: requests a connection has waiting for its handler
    None        \* "no connection", "no machine"

ASSUME NoneAssumption == None \notin Conns \cup Machines
ASSUME ReqBufAssumption == ReqBuf \in Nat

VARIABLES
    row,        \* the machines table: not yet enrolled, enrolled, deleted
    tunnels,    \* Registry.tunnels: the connection that owns a machine's entry
    link,       \* the connection's TCP stream, as the relay sees it
    peer,       \* whether the CLI at the other end is still there
    loop,       \* where handleConn and its request goroutine are
    key,        \* the machine whose key the client proved possession of
    who,        \* Permissions.Extensions["machine-id"]
    reqs,       \* global requests received and not yet handled
    fwd,        \* history: the forward was granted and not cancelled since
    victim,     \* `old` in Registry.register, held across the unlock
    del,        \* HandleDeleteMachine: program counter, `m` and `t`
    unenrolled  \* history: machines whose DELETE was answered with 204

connVars == <<link, peer, loop, key, who, reqs, fwd, victim>>
delVars == <<del, unenrolled>>
vars == <<row, tunnels, connVars, delVars>>

\* What a client may ask for.  "other" is everything the loop answers without
\* touching the registry: keepalives, unknown types, a forward whose payload
\* does not parse.
Requests == {"forward", "cancel", "other"}

DelIdle == [pc |-> "idle", m |-> None, t |-> None]

TypeOK ==
    /\ row \in [Machines -> {"none", "enrolled", "deleted"}]
    /\ tunnels \in [Machines -> Conns \cup {None}]
    /\ link \in [Conns -> {"none", "open", "closed"}]
    /\ peer \in [Conns -> {"live", "gone"}]
    /\ loop \in [Conns -> {"none", "auth", "serving", "closing", "done"}]
    /\ key \in [Conns -> Machines \cup {None}]
    /\ who \in [Conns -> Machines \cup {None}]
    /\ reqs \in [Conns -> Seq(Requests)]
    /\ fwd \in [Conns -> BOOLEAN]
    /\ victim \in [Conns -> Conns \cup {None}]
    /\ del \in [Deleters -> [pc : {"idle", "row", "map", "conn"},
                             m : Machines \cup {None},
                             t : Conns \cup {None}]]
    /\ unenrolled \subseteq Machines

Init ==
    /\ row = [m \in Machines |-> "none"]
    /\ tunnels = [m \in Machines |-> None]
    /\ link = [c \in Conns |-> "none"]
    /\ peer = [c \in Conns |-> "live"]
    /\ loop = [c \in Conns |-> "none"]
    /\ key = [c \in Conns |-> None]
    /\ who = [c \in Conns |-> None]
    /\ reqs = [c \in Conns |-> <<>>]
    /\ fwd = [c \in Conns |-> FALSE]
    /\ victim = [c \in Conns |-> None]
    /\ del = [d \in Deleters |-> DelIdle]
    /\ unenrolled = {}

-----------------------------------------------------------------------------
(* The registry's critical sections.                                        *)

\* The map after Registry.register's critical section.
register(m, c) == [tunnels EXCEPT ![m] = c]

\* Mutant: the ownership check is missing.
unregisterAnyone(m, c) == [tunnels EXCEPT ![m] = None]

\* The map after Registry.unregister: only the owner's entry is removed.
unregister(m, c) ==
    IF tunnels[m] = c THEN [tunnels EXCEPT ![m] = None] ELSE tunnels

-----------------------------------------------------------------------------
(* The store and the network.                                               *)

\* HandleCreateMachine inserts the row; the id is fresh.
Enroll(m) ==
    /\ row[m] = "none"
    /\ row' = [row EXCEPT ![m] = "enrolled"]
    /\ UNCHANGED <<tunnels, connVars, delVars>>

\* The CLI exits, resets or gives up on the connection: the relay sees it end.
PeerCloses(c) ==
    /\ link[c] = "open"
    /\ peer[c] = "live"
    /\ link' = [link EXCEPT ![c] = "closed"]
    /\ peer' = [peer EXCEPT ![c] = "gone"]
    /\ UNCHANGED <<row, tunnels, loop, key, who, reqs, fwd, victim, delVars>>

\* The CLI is gone without a FIN (power loss, suspended laptop, dropped NAT
\* state): the relay still believes in the connection.
PeerVanishes(c) ==
    /\ link[c] = "open"
    /\ peer[c] = "live"
    /\ peer' = [peer EXCEPT ![c] = "gone"]
    /\ UNCHANGED <<row, tunnels, link, loop, key, who, reqs, fwd, victim, delVars>>

\* Mutant: connections are served without a read deadline.
IdleTimeoutNever(c) == FALSE /\ UNCHANGED vars

\* idleConn's read deadline passes.  The CLI's keepalives extend it, so only a
\* vanished peer's connection gets here.
IdleTimeout(c) ==
    /\ link[c] = "open"
    /\ peer[c] = "gone"
    /\ link' = [link EXCEPT ![c] = "closed"]
    /\ UNCHANGED <<row, tunnels, peer, loop, key, who, reqs, fwd, victim, delVars>>

\* The client sends a global request; it waits in the mux's buffer.
SendRequest(c, r) ==
    /\ loop[c] \in {"serving", "closing"}
    /\ link[c] = "open"
    /\ peer[c] = "live"
    /\ Len(reqs[c]) < ReqBuf
    /\ reqs' = [reqs EXCEPT ![c] = Append(@, r)]
    /\ UNCHANGED <<row, tunnels, link, peer, loop, key, who, fwd, victim, delVars>>

-----------------------------------------------------------------------------
(* The gateway: ListenAndServe, handleConn and the connection's goroutines.  *)

\* ListenAndServe accepts and starts handleConn.
Accept(c) ==
    /\ link[c] = "none"
    /\ link' = [link EXCEPT ![c] = "open"]
    /\ loop' = [loop EXCEPT ![c] = "auth"]
    /\ UNCHANGED <<row, tunnels, peer, key, who, reqs, fwd, victim, delVars>>

\* Mutant: the SSH user name is believed without comparing it to the key's row.
PublicKeyCallbackTrustsUser(c, user, k) ==
    /\ loop[c] = "auth"
    /\ who[c] = None
    /\ link[c] = "open"
    /\ peer[c] = "live"
    /\ row[k] = "enrolled"
    /\ key' = [key EXCEPT ![c] = k]
    /\ who' = [who EXCEPT ![c] = user]
    /\ UNCHANGED <<row, tunnels, link, peer, loop, reqs, fwd, victim, delVars>>

\* PublicKeyCallback grants permissions: the key the client signs with maps to
\* a row, and the SSH user it names is that row's id.  A refused attempt leaves
\* no state behind.
PublicKeyCallback(c, user, k) ==
    /\ loop[c] = "auth"
    /\ who[c] = None
    /\ link[c] = "open"
    /\ peer[c] = "live"
    /\ row[k] = "enrolled"
    /\ user = k
    /\ key' = [key EXCEPT ![c] = k]
    /\ who' = [who EXCEPT ![c] = k]
    /\ UNCHANGED <<row, tunnels, link, peer, loop, reqs, fwd, victim, delVars>>

\* ssh.NewServerConn returns; the request goroutine starts.
HandshakeDone(c) ==
    /\ loop[c] = "auth"
    /\ who[c] # None
    /\ link[c] = "open"
    /\ loop' = [loop EXCEPT ![c] = "serving"]
    /\ UNCHANGED <<row, tunnels, link, peer, key, who, reqs, fwd, victim, delVars>>

\* ssh.NewServerConn fails (key refused, link lost, read deadline): nc.Close().
HandshakeFails(c) ==
    /\ loop[c] = "auth"
    /\ link' = [link EXCEPT ![c] = "closed"]
    /\ loop' = [loop EXCEPT ![c] = "done"]
    /\ UNCHANGED <<row, tunnels, peer, key, who, reqs, fwd, victim, delVars>>

\* The request loop takes the next request, also one that arrived before the
\* link died.
Dequeue(c, r) ==
    /\ loop[c] = "serving"
    /\ reqs[c] # <<>>
    /\ Head(reqs[c]) = r
    /\ reqs' = [reqs EXCEPT ![c] = Tail(@)]

\* Mutant: the displaced connection is forgotten.
HandleForwardKeepsOld(c) ==
    /\ Dequeue(c, "forward")
    /\ tunnels' = register(who[c], c)
    /\ fwd' = [fwd EXCEPT ![c] = TRUE]
    /\ UNCHANGED <<row, link, peer, loop, key, who, victim, delVars>>

\* Mutant: what is kept to be closed is the machine, not its old connection.
HandleForwardKeepsId(c) ==
    /\ Dequeue(c, "forward")
    /\ tunnels' = register(who[c], c)
    /\ fwd' = [fwd EXCEPT ![c] = TRUE]
    /\ victim' = [victim EXCEPT ![c] = who[c]]
    /\ loop' = [loop EXCEPT ![c] = "closing"]
    /\ UNCHANGED <<row, link, peer, key, who, delVars>>

\* tcpip-forward: register under the lock; a displaced connection is closed
\* after the unlock, by CloseVictim.
HandleForward(c) ==
    /\ Dequeue(c, "forward")
    /\ tunnels' = register(who[c], c)
    /\ fwd' = [fwd EXCEPT ![c] = TRUE]
    /\ LET old == tunnels[who[c]]
       IN  IF old # None /\ old # c
           THEN /\ victim' = [victim EXCEPT ![c] = old]
                /\ loop' = [loop EXCEPT ![c] = "closing"]
           ELSE UNCHANGED <<victim, loop>>
    /\ UNCHANGED <<row, link, peer, key, who, delVars>>

\* old.conn.Close(), then the reply; back to the loop.
CloseVictim(c) ==
    /\ loop[c] = "closing"
    /\ link' = [link EXCEPT ![victim[c]] = "closed"]
    /\ victim' = [victim EXCEPT ![c] = None]
    /\ loop' = [loop EXCEPT ![c] = "serving"]
    /\ UNCHANGED <<row, tunnels, peer, key, who, reqs, fwd, delVars>>

\* cancel-tcpip-forward.
HandleCancel(c) ==
    /\ Dequeue(c, "cancel")
    /\ tunnels' = unregister(who[c], c)
    /\ fwd' = [fwd EXCEPT ![c] = FALSE]
    /\ UNCHANGED <<row, link, peer, loop, key, who, victim, delVars>>

\* A request that is answered and changes nothing.
HandleOther(c) ==
    /\ Dequeue(c, "other")
    /\ UNCHANGED <<row, tunnels, link, peer, loop, key, who, fwd, victim, delVars>>

\* Mutant: the goroutine ends without the deferred cleanup.
LoopEndsKeepsEntry(c) ==
    /\ loop[c] = "serving"
    /\ link[c] = "closed"
    /\ loop' = [loop EXCEPT ![c] = "done"]
    /\ reqs' = [reqs EXCEPT ![c] = <<>>]
    /\ fwd' = [fwd EXCEPT ![c] = FALSE]
    /\ UNCHANGED <<row, tunnels, link, peer, key, who, victim, delVars>>

\* The mux is dead, `range reqs` ends (requests it had not delivered are lost)
\* and the deferred cleanup unregisters.
LoopEnds(c) ==
    /\ loop[c] = "serving"
    /\ link[c] = "closed"
    /\ tunnels' = unregister(who[c], c)
    /\ loop' = [loop EXCEPT ![c] = "done"]
    /\ reqs' = [reqs EXCEPT ![c] = <<>>]
    /\ fwd' = [fwd EXCEPT ![c] = FALSE]
    /\ UNCHANGED <<row, link, peer, key, who, victim, delVars>>

-----------------------------------------------------------------------------
(* DELETE /api/machines/{id}.                                               *)

\* tenantMachine found the row and its tenant is the caller's; every other
\* request ends here with a 401 or 404 and changes nothing.
DeleteLoads(d, m) ==
    /\ del[d].pc = "idle"
    /\ row[m] = "enrolled"
    /\ del' = [del EXCEPT ![d] = [pc |-> "row", m |-> m, t |-> None]]
    /\ UNCHANGED <<row, tunnels, connVars, unenrolled>>

\* store.DeleteMachine; a row another request deleted meanwhile (ErrNotFound)
\* is not an error here.
DeleteRow(d) ==
    /\ del[d].pc = "row"
    /\ row' = [row EXCEPT ![del[d].m] = "deleted"]
    /\ del' = [del EXCEPT ![d] = [pc |-> "map", m |-> del[d].m, t |-> None]]
    /\ UNCHANGED <<tunnels, connVars, unenrolled>>

\* store.DeleteMachine returns another error and the handler answers 500: the
\* statement did not run, or it ran and its result was lost (the request's
\* context was cancelled, the database connection dropped).
DeleteRowFails(d) ==
    /\ del[d].pc = "row"
    /\ \/ UNCHANGED row
       \/ row' = [row EXCEPT ![del[d].m] = "deleted"]
    /\ del' = [del EXCEPT ![d] = DelIdle]
    /\ UNCHANGED <<tunnels, connVars, unenrolled>>

\* Registry.Close's critical section.
RegistryClose(d) ==
    /\ del[d].pc = "map"
    /\ LET m == del[d].m
           t == tunnels[m]
       IN  /\ tunnels' = [tunnels EXCEPT ![m] = None]
           /\ IF t # None
              THEN /\ del' = [del EXCEPT ![d] = [pc |-> "conn", m |-> m, t |-> t]]
                   /\ UNCHANGED unenrolled
              ELSE /\ del' = [del EXCEPT ![d] = DelIdle]
                   /\ unenrolled' = unenrolled \cup {m}
    /\ UNCHANGED <<row, connVars>>

\* Registry.Close after the unlock: t.conn.Close(), and the 204.
RegistryCloseConn(d) ==
    /\ del[d].pc = "conn"
    /\ link' = [link EXCEPT ![del[d].t] = "closed"]
    /\ unenrolled' = unenrolled \cup {del[d].m}
    /\ del' = [del EXCEPT ![d] = DelIdle]
    /\ UNCHANGED <<row, tunnels, peer, loop, key, who, reqs, fwd, victim>>

-----------------------------------------------------------------------------
\* The relay process ends (a signal, a crash, a listener's error cancelling the
\* others in main) and starts again: every connection and every request is
\* lost with it; the rows are in the database.
Restart ==
    /\ tunnels' = [m \in Machines |-> None]
    /\ link' = [c \in Conns |-> IF link[c] = "open" THEN "closed" ELSE link[c]]
    /\ loop' = [c \in Conns |-> IF loop[c] = "none" THEN "none" ELSE "done"]
    /\ reqs' = [c \in Conns |-> <<>>]
    /\ fwd' = [c \in Conns |-> FALSE]
    /\ victim' = [c \in Conns |-> None]
    /\ del' = [d \in Deleters |-> DelIdle]
    /\ UNCHANGED <<row, peer, key, who, unenrolled>>

\* What the relay does of its own accord once its goroutines are scheduled.
ConnStep(c) ==
    \/ HandshakeDone(c)
    \/ HandshakeFails(c)
    \/ HandleForward(c)
    \/ CloseVictim(c)
    \/ HandleCancel(c)
    \/ HandleOther(c)
    \/ LoopEnds(c)

Environment(c) ==
    \/ Accept(c)
    \/ \E u, k \in Machines : PublicKeyCallback(c, u, k)
    \/ PeerCloses(c)
    \/ PeerVanishes(c)
    \/ IdleTimeout(c)
    \/ \E r \in Requests : SendRequest(c, r)

DeleteStep(d) ==
    \/ \E m \in Machines : DeleteLoads(d, m)
    \/ DeleteRow(d)
    \/ DeleteRowFails(d)
    \/ RegistryClose(d)
    \/ RegistryCloseConn(d)

Next ==
    \/ \E m \in Machines : Enroll(m)
    \/ \E c \in Conns : ConnStep(c) \/ Environment(c)
    \/ \E d \in Deleters : DeleteStep(d)
    \/ Restart

Spec == Init /\ [][Next]_vars

\* Goroutines that can run do run, and a read deadline that is not extended
\* passes.  Nothing is assumed of the peers.
Fairness ==
    /\ \A c \in Conns :
         /\ WF_vars(CloseVictim(c))
         /\ WF_vars(LoopEnds(c))
         /\ WF_vars(IdleTimeout(c))
    /\ \A d \in Deleters : WF_vars(RegistryClose(d) \/ RegistryCloseConn(d))

FairSpec == Spec /\ Fairness

-----------------------------------------------------------------------------
(* Properties.                                                              *)

\* A machine's registry entry is a connection whose client proved possession of
\* that machine's enrolled key, however connections, replacements and cleanups
\* interleave (NewServer's PublicKeyCallback with Registry.register).
AuthenticTunnel ==
    \A m \in Machines : tunnels[m] # None => key[tunnels[m]] = m

\* A registry entry belongs to a connection whose request goroutine is still
\* running, so its deferred cleanup is still to come: no entry outlives its
\* connection, not even one registered by a request that was buffered when the
\* link died (handleConn's deferred unregister).
NoGhostTunnel ==
    \A m \in Machines : tunnels[m] # None => loop[tunnels[m]] \in {"serving", "closing"}

\* Someone holds connection c and is about to close it.
ToBeClosed(c) ==
    \/ \E o \in Conns : loop[o] = "closing" /\ victim[o] = c
    \/ \E d \in Deleters : del[d].pc = "conn" /\ del[d].t = c

\* No CLI is left believing in a tunnel nobody can reach: a connection that was
\* granted its forward owns the machine's entry, or is closed, or is about to
\* be closed by the goroutine that displaced it (register, Registry.Close).
NoStrandedTunnel ==
    \A c \in Conns :
        fwd[c] => \/ tunnels[who[c]] = c
                  \/ link[c] = "closed"
                  \/ ToBeClosed(c)

\* A machine goes offline only through its own connection or its own deletion:
\* the cleanup of a replaced connection never removes the replacement
\* (unregister's ownership check).
OfflineOnlyByOwnEnd ==
    [][\A m \in Machines :
         LET c == tunnels[m]
         IN  c # None /\ tunnels'[m] = None
             => \/ link'[c] = "closed"
                \/ reqs[c] # <<>> /\ Head(reqs[c]) = "cancel" /\ reqs'[c] = Tail(reqs[c])
                \/ row[m] = "deleted"]_vars

\* A connection that is closed, or whose CLI has vanished, leaves the registry
\* for good: the machine does not show as online forever (idleConn's deadline,
\* the end of the request loop, the deferred unregister).
DeadTunnelLeaves ==
    \A c \in Conns :
        (link[c] = "closed" \/ peer[c] = "gone") ~> [](\A m \in Machines : tunnels[m] # c)

\* Where a connection is, in the vocabulary of module Tunnels.
connState ==
    [c \in Conns |->
        IF loop[c] \in {"none", "auth"} THEN "new"
        ELSE IF loop[c] = "done" THEN "gone"
        ELSE IF link[c] = "closed" THEN "closed"
        ELSE IF peer[c] = "gone" THEN "zombie"
        ELSE "up"]

T == INSTANCE Tunnels WITH conn <- connState, of <- who

\* The gateway implements the promise the bridge relies on: every step of its
\* goroutines is a step of module Tunnels or leaves that view unchanged, and
\* its scheduling keeps that module's fairness.
GateImplementsTunnels == T!TunnelsSpec

\* "HandleDeleteMachine unenrolls a machine and closes its tunnel": once the
\* DELETE is answered the machine has no tunnel.  The code does not ensure it.
UnenrolledIsOffline ==
    \A m \in unenrolled : tunnels[m] = None
=============================================================================
