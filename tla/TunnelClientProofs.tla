-------------------------- MODULE TunnelClientProofs --------------------------
(***************************************************************************)
(* Proofs about modules TunnelClient and HostKey, for any host keys, any   *)
(* channels and any number of faults: a pinned key keeps working, and no   *)
(* session outlives its tunnel.                                            *)
(***************************************************************************)
EXTENDS TunnelClient, TLAPS

\* A relay that serves has its key on the disk, one that writes its first key has
\* created the file.
KeyIsPersisted ==
    /\ relay = "up" => served \in HostKeys /\ served = keyFile
    /\ relay = "writing" => served \in HostKeys /\ keyFile = Torn

\* A pinned key is the one on the disk.
PinIsOnDisk == pin # None => keyFile = pin

\* Only a tunnel that was granted has its two goroutines and its sessions.
TunnelOwnsGoroutines ==
    pc \notin {"accept", "drain"} => watch = 0 /\ \A c \in Chans : ch[c] = "none"

\* The inductive invariant.
IInv ==
    /\ TypeOK
    /\ KeyIsPersisted
    /\ PinIsOnDisk
    /\ TunnelOwnsGoroutines

-----------------------------------------------------------------------------
\* The invariant is kept when the machine is enrolled: ssh-info has given it the
\* key of a relay that serves.
LEMMA PinInv ==
    ASSUME IInv, Pin
    PROVE  IInv'
<1> USE HostKeyAssumption DEF Pin, hostKeyVars, IInv
<1>1. TypeOK'
  BY DEF TypeOK, HostKeyTypeOK, KeyIsPersisted
<1>2. KeyIsPersisted' /\ PinIsOnDisk'
  BY DEF KeyIsPersisted, PinIsOnDisk
<1>3. TunnelOwnsGoroutines'
  BY DEF TunnelOwnsGoroutines
<1>4. QED
  BY <1>1, <1>2, <1>3

\* A step of the client leaves the relay, its key and the pin alone.
LEMMA ClientKeepsKeys ==
    ASSUME IInv, UNCHANGED env
    PROVE  KeyIsPersisted' /\ PinIsOnDisk' /\ HostKeyTypeOK' /\ (pin \in HostKeys \cup {None})'
  BY DEF env, hostKeyVars, IInv, TypeOK, HostKeyTypeOK, KeyIsPersisted, PinIsOnDisk

\* The invariant is kept by every return of runTunnelOnce, after a failed dial
\* or request and once the sessions are drained.
LEMMA ReturnsInv ==
    ASSUME IInv, DialFails \/ ListenFails \/ Drained
    PROVE  IInv'
<1>1. Returns /\ \A c \in Chans : ch[c] = "none"
  BY DEF DialFails, ListenFails, Drained, IInv, TunnelOwnsGoroutines
<1>2. TypeOK'
  BY <1>1, ClientKeepsKeys DEF Returns, env, IInv, TypeOK
<1>3. TunnelOwnsGoroutines'
  BY <1>1 DEF Returns, TunnelOwnsGoroutines
<1>4. QED
  BY <1>1, <1>2, <1>3, ClientKeepsKeys DEF Returns, IInv

\* The invariant is kept by the other steps of the reconnect loop.
LEMMA LoopInv ==
    ASSUME IInv, Dial \/ Listen \/ AcceptFails \/ Backoff
    PROVE  IInv'
<1>1. UNCHANGED env
  BY DEF Dial, Listen, AcceptFails, Backoff
<1>2. TypeOK'
  BY <1>1, ClientKeepsKeys
     DEF Dial, Listen, AcceptFails, Backoff, env, IInv, TypeOK, TunnelOwnsGoroutines
<1>3. TunnelOwnsGoroutines'
  BY DEF Dial, Listen, AcceptFails, Backoff, IInv, TunnelOwnsGoroutines
<1>4. QED
  BY <1>1, <1>2, <1>3, ClientKeepsKeys DEF IInv

\* The invariant is kept by the keepalive and the context goroutine.
LEMMA GoroutinesInv ==
    ASSUME IInv, Keepalive \/ WatchContext
    PROVE  IInv'
<1> USE DEF Keepalive, KeepaliveTick, KeepaliveReply, KeepaliveLost, WatchContext
<1>1. UNCHANGED <<env, pc, stop, ch>>
  OBVIOUS
<1>2. TypeOK'
  BY <1>1, ClientKeepsKeys DEF env, IInv, TypeOK
<1>3. TunnelOwnsGoroutines'
  BY DEF IInv, TypeOK, TunnelOwnsGoroutines
<1>4. QED
  BY <1>1, <1>2, <1>3, ClientKeepsKeys DEF IInv

\* The invariant is kept by bridgeToSSHD: channels are only accepted by a tunnel
\* that is up.
LEMMA SessionInv ==
    ASSUME IInv, NEW c \in Chans, AcceptChannel(c) \/ Session(c)
    PROVE  IInv'
<1> USE DEF AcceptChannel, Established, Session, ConnectSSHD, ConnectFails, SessionEnds
<1>1. UNCHANGED <<env, pc, stop, link, ka, watch>>
  OBVIOUS
<1>2. TypeOK'
  BY <1>1, ClientKeepsKeys DEF env, IInv, TypeOK
<1>3. TunnelOwnsGoroutines'
  BY DEF IInv, TypeOK, TunnelOwnsGoroutines
<1>4. QED
  BY <1>1, <1>2, <1>3, ClientKeepsKeys DEF IInv

\* The invariant is kept by every step of a relay that starts, dies or is
\* helped by its operator: the file of a pinned key is never rewritten.
LEMMA RelayInv ==
    ASSUME IInv, GatewayStops \/ FirstStartFails \/ GatewayStarts \/ OperatorActs
    PROVE  IInv'
<1> USE HostKeyAssumption, MaxFaultsAssumption
    DEF GatewayStops, RelayStops, FirstStartFails, PersistFails, GatewayStarts, Start,
        LoadHostKey, PersistHostKey, GenerateHostKey, OperatorActs, RemoveHostKey, Broken, IInv
<1>1. UNCHANGED <<pc, stop, ka, watch, ch, pin>>
  OBVIOUS
<1>2. KeyIsPersisted'
  BY DEF KeyIsPersisted
<1>3. PinIsOnDisk'
  BY DEF PinIsOnDisk, KeyIsPersisted, TypeOK
<1>4. HostKeyTypeOK'
  BY DEF HostKeyTypeOK, TypeOK, KeyIsPersisted
<1>5. link' \in {"none", "up", "silent", "closed"} /\ faults' \in 0..MaxFaults
  BY DEF TypeOK
<1>6. TypeOK' /\ TunnelOwnsGoroutines'
  BY <1>1, <1>4, <1>5 DEF TypeOK, TunnelOwnsGoroutines
<1>7. QED
  BY <1>2, <1>3, <1>6

\* The invariant is kept by the network and by a cancelled context.
LEMMA NetworkInv ==
    ASSUME IInv, LinkBreaks \/ LinkGoesSilent \/ Cancel
    PROVE  IInv'
<1> USE MaxFaultsAssumption DEF LinkBreaks, LinkGoesSilent, Cancel, env, hostKeyVars, IInv
<1>1. UNCHANGED <<pc, ka, watch, ch, pin, relay, keyFile, served>>
  OBVIOUS
<1>2. link' \in {"none", "up", "silent", "closed"} /\ faults' \in 0..MaxFaults
  BY DEF TypeOK
<1>3. TypeOK'
  <2>1. stop' \in BOOLEAN
    BY DEF TypeOK
  <2>2. QED
    BY <1>1, <1>2, <2>1 DEF TypeOK, HostKeyTypeOK
<1>4. KeyIsPersisted' /\ PinIsOnDisk' /\ TunnelOwnsGoroutines'
  BY <1>1 DEF KeyIsPersisted, PinIsOnDisk, TunnelOwnsGoroutines
<1>5. QED
  BY <1>3, <1>4

-----------------------------------------------------------------------------
\* Every step of the client, its goroutines, the relay and the network keeps the
\* invariant.
LEMMA StepInv == IInv /\ [Next]_vars => IInv'
<1> SUFFICES ASSUME IInv, [Next]_vars PROVE IInv'
  OBVIOUS
<1>1. CASE Step
  BY <1>1, PinInv, ReturnsInv, LoopInv DEF Step
<1>2. CASE UNCHANGED vars
  BY <1>2 DEF vars, env, hostKeyVars, IInv, TypeOK, HostKeyTypeOK, KeyIsPersisted,
              PinIsOnDisk, TunnelOwnsGoroutines
<1>3. QED
  BY <1>1, <1>2, GoroutinesInv, SessionInv, RelayInv, NetworkInv DEF Next, Stopped

\* The invariant holds before the first start and every step keeps it.
LEMMA TunnelClientInductive == Spec => []IInv
<1>1. Init => IInv
  <2> SUFFICES ASSUME Init PROVE IInv
    OBVIOUS
  <2>1. stop \in BOOLEAN
    BY DEF Init
  <2>2. TypeOK
    BY <2>1, MaxFaultsAssumption DEF Init, HostKeyInit, TypeOK, HostKeyTypeOK
  <2>3. QED
    BY <2>2 DEF Init, HostKeyInit, IInv, KeyIsPersisted, PinIsOnDisk, TunnelOwnsGoroutines
<1>2. QED
  BY <1>1, StepInv, PTL DEF Spec

\* Type correctness, which includes that at most one goroutine waits to close the
\* client however often the tunnel is rebuilt.
THEOREM TunnelClientTypeOK == Spec => []TypeOK
<1>1. IInv => TypeOK
  BY DEF IInv
<1>2. QED
  BY <1>1, TunnelClientInductive, PTL

\* LoadOrCreateHostKey persists first and serves then: whatever dies when, a
\* relay that serves presents the key an enrolled machine has pinned.
THEOREM TunnelClientPinKeepsWorking == Spec => []PinKeepsWorking
<1>1. IInv => PinKeepsWorking
  BY DEF IInv, KeyIsPersisted, PinIsOnDisk, PinKeepsWorking
<1>2. QED
  BY <1>1, TunnelClientInductive, PTL

\* wg.Wait: no bridgeToSSHD of an earlier tunnel runs when the next is dialled.
THEOREM TunnelClientSessionsAreDrained == Spec => []SessionsAreDrained
<1>1. IInv => SessionsAreDrained
  BY DEF IInv, TunnelOwnsGoroutines, SessionsAreDrained
<1>2. QED
  BY <1>1, TunnelClientInductive, PTL
=============================================================================
