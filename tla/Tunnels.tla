------------------------------- MODULE Tunnels -------------------------------
(***************************************************************************)
(* What the SSH gateway promises the rest of the relay, without its        *)
(* goroutines, buffers and program counters: which machines exist, which   *)
(* connection answers for a machine, and how long a connection can still   *)
(* carry channels.  Module Gate implements this specification (property    *)
(* GateImplementsTunnels there), and module Bridge is built on it.         *)
(***************************************************************************)
EXTENDS Naturals

CONSTANTS
    Machines,   \* machine ids ever enrolled
    Conns,      \* connections ever accepted by the gateway
    None        \* "no connection", "no machine"

ASSUME TunnelsNoneAssumption == None \notin Conns \cup Machines

VARIABLES
    row,        \* the machines table
    tunnels,    \* Registry.tunnels
    conn,       \* how far a connection has come
    of          \* the machine a connection authenticated as

tunnelVars == <<row, tunnels, conn, of>>

\* "new": not admitted yet; "up": both ends are there; "zombie": the CLI has
\* vanished and the relay has not noticed; "closed": the stream is closed, the
\* request loop still drains; "gone": the request loop has cleaned up.
ConnStates == {"new", "up", "zombie", "closed", "gone"}
Admitted == {"up", "zombie", "closed"}

TunnelsInit ==
    /\ row = [m \in Machines |-> "none"]
    /\ tunnels = [m \in Machines |-> None]
    /\ conn = [c \in Conns |-> "new"]
    /\ of = [c \in Conns |-> None]

\* A machine's row is created, or deleted; a deleted id never returns.
RowCreated(m) ==
    /\ row[m] = "none"
    /\ row' = [row EXCEPT ![m] = "enrolled"]
    /\ UNCHANGED <<tunnels, conn, of>>

RowDeleted(m) ==
    /\ row[m] = "enrolled"
    /\ row' = [row EXCEPT ![m] = "deleted"]
    /\ UNCHANGED <<tunnels, conn, of>>

\* A new connection proves to be an enrolled machine's.
Authenticated(c, m) ==
    /\ conn[c] = "new"
    /\ of[c] = None
    /\ row[m] = "enrolled"
    /\ of' = [of EXCEPT ![c] = m]
    /\ UNCHANGED <<row, tunnels, conn>>

\* The SSH handshake of an authenticated connection completes.
Admit(c) ==
    /\ conn[c] = "new"
    /\ of[c] # None
    /\ \E s \in {"up", "zombie"} : conn' = [conn EXCEPT ![c] = s]
    /\ UNCHANGED <<row, tunnels, of>>

\* An admitted connection becomes the one that answers for its machine.
Register(c) ==
    /\ conn[c] \in Admitted
    /\ tunnels' = [tunnels EXCEPT ![of[c]] = c]
    /\ UNCHANGED <<row, conn, of>>

\* A machine loses its tunnel: cancelled by its owner, or unenrolled.
Leave(m) ==
    /\ tunnels[m] # None
    /\ tunnels' = [tunnels EXCEPT ![m] = None]
    /\ UNCHANGED <<row, conn, of>>

\* The CLI vanishes.
Vanish(c) ==
    /\ conn[c] = "up"
    /\ conn' = [conn EXCEPT ![c] = "zombie"]
    /\ UNCHANGED <<row, tunnels, of>>

\* The stream closes, from either end or by the idle timeout.
Close(c) ==
    /\ conn[c] \in {"up", "zombie"}
    /\ conn' = [conn EXCEPT ![c] = "closed"]
    /\ UNCHANGED <<row, tunnels, of>>

\* A connection is over; if it still answers for its machine, no longer.
Retire(c) ==
    /\ conn[c] \in {"new", "closed"}
    /\ conn' = [conn EXCEPT ![c] = "gone"]
    /\ tunnels' = [m \in Machines |-> IF tunnels[m] = c THEN None ELSE tunnels[m]]
    /\ UNCHANGED <<row, of>>

\* The relay restarts: every connection it had accepted is gone.
TunnelsRestart ==
    /\ tunnels' = [m \in Machines |-> None]
    /\ conn' \in [Conns -> {"new", "gone"}]
    /\ \A c \in Conns : conn[c] # "new" => conn'[c] = "gone"
    /\ UNCHANGED <<row, of>>

TunnelStep ==
    \/ \E m \in Machines : RowCreated(m) \/ RowDeleted(m) \/ Leave(m)
    \/ \E c \in Conns, m \in Machines : Authenticated(c, m)
    \/ \E c \in Conns : Admit(c) \/ Register(c) \/ Vanish(c) \/ Close(c) \/ Retire(c)

TunnelsNext == TunnelStep \/ TunnelsRestart

\* A connection whose CLI has vanished is closed, and a closed one retires.
TunnelsFairness ==
    \A c \in Conns :
        /\ WF_tunnelVars(conn[c] = "zombie" /\ Close(c))
        /\ WF_tunnelVars(conn[c] = "closed" /\ Retire(c))

TunnelsSafety == TunnelsInit /\ [][TunnelsNext]_tunnelVars

TunnelsSpec == TunnelsSafety /\ TunnelsFairness
=============================================================================
