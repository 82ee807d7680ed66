----------------------------- MODULE BridgeProofs -----------------------------
(***************************************************************************)
(* Proofs about module Bridge, for any number of machines, connections,    *)
(* sessions and tenants and any cap: the counters are exact, the cap holds *)
(* per machine, and no session ever reaches another tenant's machine.      *)
(***************************************************************************)
EXTENDS Bridge, FiniteSetTheorems, TLAPS

\* An admitted connection has proved to be a machine's, and a registry entry is
\* a connection of the entry's own machine.
EntriesAreOwn ==
    /\ \A c \in Conns : conn[c] \in Admitted => of[c] # None
    /\ \A m \in Machines : tunnels[m] # None => of[tunnels[m]] = m

\* A running handler has an authorized path: its machine is of the user's tenant.
PathsAreAuthorized ==
    \A b \in Sessions :
        pc[b] # "idle" => path[b] \in Paths /\ TenantOf[machineOf(path[b])] = tenant[b]

\* The handler has a channel, or is asking for one.
Reaching == {"opening", "ready", "piping", "wait"}

\* The connection a session dialled is one of the machine its path names, in the
\* canonical spelling.  It stays so when the registry's entry is replaced.
DialledIsNamed ==
    \A b \in Sessions :
        /\ pc[b] \in Reaching => onto[b] # None
        /\ onto[b] # None => /\ pc[b] \in Reaching \cup {"release"}
                             /\ path[b][2] = "canonical"
                             /\ of[onto[b]] = machineOf(path[b])

\* The inductive invariant.
IInv ==
    /\ TypeOK
    /\ EntriesAreOwn
    /\ PathsAreAuthorized
    /\ DialledIsNamed
    /\ CountsAreHolders

-----------------------------------------------------------------------------
\* The sessions that hold a slot for a path are finitely many.
LEMMA HoldersFinite ==
    ASSUME NEW p
    PROVE  IsFiniteSet(Holders(p)) /\ Cardinality(Holders(p)) \in Nat
<1>1. Holders(p) \in SUBSET Sessions
  BY DEF Holders
<1>2. IsFiniteSet(Holders(p))
  BY <1>1, FS_Subset, SessionsAssumption
<1>3. QED
  BY <1>2, FS_CardinalityType

\* A step that keeps everybody's slot and path keeps the counts exact.
LEMMA SameHolders ==
    ASSUME CountsAreHolders, n' = n,
           \A p \in Paths : Holders(p)' = Holders(p)
    PROVE  CountsAreHolders'
  BY DEF CountsAreHolders

\* The invariant is kept by the gateway, in whatever order it registers, replaces
\* and retires the connections the sessions use.
LEMMA TunnelStepInv ==
    ASSUME IInv, TunnelStep, UNCHANGED bridgeVars
    PROVE  IInv'
<1> USE TunnelsNoneAssumption DEF bridgeVars, sessionVars, IInv
<1>1. TypeOK' /\ EntriesAreOwn' /\ (\A c \in Conns : of[c] # None => of'[c] = of[c])
  <2>1. ASSUME NEW m \in Machines, RowCreated(m) \/ RowDeleted(m)
        PROVE  /\ TypeOK' /\ EntriesAreOwn'
               /\ \A c \in Conns : of[c] # None => of'[c] = of[c]
    BY <2>1 DEF RowCreated, RowDeleted, TypeOK, EntriesAreOwn
  <2>2. ASSUME NEW m \in Machines, Leave(m)
        PROVE  /\ TypeOK' /\ EntriesAreOwn'
               /\ \A c \in Conns : of[c] # None => of'[c] = of[c]
    BY <2>2 DEF Leave, TypeOK, EntriesAreOwn
  <2>3. ASSUME NEW c \in Conns, NEW m \in Machines, Authenticated(c, m)
        PROVE  /\ TypeOK' /\ EntriesAreOwn'
               /\ \A d \in Conns : of[d] # None => of'[d] = of[d]
    BY <2>3 DEF Authenticated, TypeOK, EntriesAreOwn
  <2>4. ASSUME NEW c \in Conns, Admit(c) \/ Vanish(c) \/ Close(c)
        PROVE  /\ TypeOK' /\ EntriesAreOwn'
               /\ \A d \in Conns : of[d] # None => of'[d] = of[d]
    BY <2>4 DEF Admit, Vanish, Close, ConnStates, Admitted, TypeOK, EntriesAreOwn
  <2>5. ASSUME NEW c \in Conns, Register(c)
        PROVE  /\ TypeOK' /\ EntriesAreOwn'
               /\ \A d \in Conns : of[d] # None => of'[d] = of[d]
    BY <2>5 DEF Register, TypeOK, EntriesAreOwn
  <2>6. ASSUME NEW c \in Conns, Retire(c)
        PROVE  /\ TypeOK' /\ EntriesAreOwn'
               /\ \A d \in Conns : of[d] # None => of'[d] = of[d]
    BY <2>6 DEF Retire, ConnStates, Admitted, TypeOK, EntriesAreOwn
  <2>7. QED
    BY <2>1, <2>2, <2>3, <2>4, <2>5, <2>6 DEF TunnelStep
<1>2. PathsAreAuthorized'
  BY DEF PathsAreAuthorized
<1>3. DialledIsNamed'
  <2>1. ASSUME NEW b \in Sessions, onto[b] # None PROVE of'[onto[b]] = of[onto[b]]
    <3>1. path[b] \in Paths /\ of[onto[b]] = machineOf(path[b]) /\ onto[b] \in Conns
      BY <2>1 DEF DialledIsNamed, PathsAreAuthorized, Reaching, TypeOK
    <3>2. of[onto[b]] # None
      BY <3>1 DEF Paths, machineOf
    <3>3. QED
      BY <1>1, <3>1, <3>2
  <2>2. QED
    BY <2>1 DEF DialledIsNamed
<1>4. CountsAreHolders'
  BY SameHolders DEF Holders
<1>5. QED
  BY <1>1, <1>2, <1>3, <1>4

\* The invariant is kept by a step of a session that leaves its user, its path,
\* the connection it dialled, the counters and the gateway alone, and that
\* gives no slot back.
LEMMA QuietInv ==
    ASSUME IInv, TypeOK', NEW b \in Sessions,
           UNCHANGED <<tunnelVars, tenant, path, onto, n>>,
           \/ UNCHANGED pc
           \/ /\ pc[b] \in Reaching
              /\ \E s \in Reaching \cup {"release"} : pc' = [pc EXCEPT ![b] = s]
    PROVE  IInv'
<1> USE DEF tunnelVars, IInv
<1>1. EntriesAreOwn'
  BY DEF EntriesAreOwn
<1>2. PathsAreAuthorized' /\ DialledIsNamed'
  BY DEF PathsAreAuthorized, DialledIsNamed, Reaching, TypeOK
<1>3. CountsAreHolders'
  <2>1. \A p \in Paths : Holders(p)' = Holders(p)
    BY DEF Holders, Holding, Reaching, TypeOK
  <2>2. QED
    BY <2>1, SameHolders
<1>4. QED
  BY <1>1, <1>2, <1>3

\* The invariant is kept by a request that passes the tenant check.
LEMMA AuthorizeInv ==
    ASSUME IInv, NEW b \in Sessions, NEW t \in Tenants, NEW p \in Paths, Authorize(b, t, p)
    PROVE  IInv'
<1> USE DEF Authorize, tunnelVars, IInv
<1>1. TypeOK'
  BY DEF TypeOK
<1>2. EntriesAreOwn'
  BY DEF EntriesAreOwn
<1>3. PathsAreAuthorized'
  BY DEF PathsAreAuthorized, TypeOK
<1>4. DialledIsNamed'
  BY DEF DialledIsNamed, Reaching, TypeOK
<1>5. CountsAreHolders'
  <2>1. \A q \in Paths : Holders(q)' = Holders(q)
    BY DEF Holders, Holding, TypeOK
  <2>2. QED
    BY <2>1, SameHolders
<1>6. QED
  BY <1>1, <1>2, <1>3, <1>4, <1>5

\* The end of a handler frees its goroutine and nothing of another session's.
LEMMA ReturnedInv ==
    ASSUME IInv, NEW b \in Sessions, Returned(b), UNCHANGED tunnelVars,
           n' \in [Paths -> 0..maxBridgesPerMachine]
    PROVE  TypeOK' /\ EntriesAreOwn' /\ PathsAreAuthorized' /\ DialledIsNamed'
<1> USE DEF Returned, tunnelVars, IInv
<1>1. TypeOK'
  BY DEF TypeOK
<1>2. EntriesAreOwn'
  BY DEF EntriesAreOwn
<1>3. PathsAreAuthorized' /\ DialledIsNamed'
  BY DEF PathsAreAuthorized, DialledIsNamed, Reaching, TypeOK
<1>4. QED
  BY <1>1, <1>2, <1>3

\* The invariant is kept by acquire: the slot goes to this session alone, and
\* only below the cap.
LEMMA acquireInv ==
    ASSUME IInv, NEW b \in Sessions, acquire(b)
    PROVE  IInv'
<1>0. PICK q \in Paths : q = path[b]
  BY DEF IInv, acquire, PathsAreAuthorized
<1>1. q = path[b] /\ n[q] \in Nat /\ n \in [Paths -> 0..maxBridgesPerMachine]
  BY <1>0, CapAssumption DEF IInv, TypeOK
<1>2. CASE n[q] >= maxBridgesPerMachine
  <2>1. Returned(b) /\ UNCHANGED <<tunnelVars, n>>
    BY <1>1, <1>2 DEF acquire
  <2>2. \A p \in Paths : Holders(p)' = Holders(p)
    BY <2>1 DEF Returned, Holders, Holding, acquire, IInv, TypeOK
  <2>3. CountsAreHolders'
    BY <2>1, <2>2, SameHolders DEF IInv
  <2>4. QED
    BY <1>1, <2>1, <2>3, ReturnedInv DEF IInv
<1>3. CASE ~(n[q] >= maxBridgesPerMachine)
  <2> USE DEF acquire, tunnelVars, IInv
  <2>1. /\ n' = [n EXCEPT ![q] = @ + 1]
        /\ pc' = [pc EXCEPT ![b] = "dial"]
        /\ UNCHANGED <<tunnelVars, tenant, path, ws, onto, chan, copies, ctxDone, active>>
    BY <1>1, <1>3
  <2>2. TypeOK'
    <3>1. n' \in [Paths -> 0..maxBridgesPerMachine]
      BY <1>1, <1>3, <2>1, CapAssumption
    <3>2. QED
      BY <2>1, <3>1 DEF TypeOK, Holding
  <2>3. EntriesAreOwn' /\ PathsAreAuthorized' /\ DialledIsNamed'
    BY <2>1 DEF EntriesAreOwn, PathsAreAuthorized, DialledIsNamed, Reaching, TypeOK
  <2>4. CountsAreHolders'
    <3>1. ASSUME NEW p \in Paths, p # q PROVE n'[p] = Cardinality(Holders(p)')
      <4>1. Holders(p)' = Holders(p)
        BY <1>1, <2>1, <3>1 DEF Holders, TypeOK
      <4>2. QED
        BY <2>1, <3>1, <4>1 DEF CountsAreHolders, TypeOK
    <3>2. n'[q] = Cardinality(Holders(q)')
      <4>1. Holders(q)' = Holders(q) \cup {b} /\ b \notin Holders(q)
        BY <1>1, <2>1 DEF Holders, Holding, TypeOK
      <4>2. Cardinality(Holders(q)') = Cardinality(Holders(q)) + 1
        BY <4>1, HoldersFinite, FS_AddElement
      <4>3. QED
        BY <1>1, <2>1, <4>2 DEF CountsAreHolders
    <3>3. QED
      BY <2>1, <3>1, <3>2 DEF CountsAreHolders
  <2>5. QED
    BY <2>2, <2>3, <2>4
<1>4. QED
  BY <1>2, <1>3

\* The invariant is kept by Registry.Dial: the entry is a connection of the
\* machine that was authorized.
LEMMA DialInv ==
    ASSUME IInv, NEW b \in Sessions, Dial(b)
    PROVE  IInv'
<1> USE TunnelsNoneAssumption DEF IInv, tunnelVars
<1> DEFINE t == IF path[b][2] = "canonical" THEN tunnels[machineOf(path[b])] ELSE None
<1>1. /\ path[b] \in Paths
      /\ t # None => t \in Conns /\ of[t] = machineOf(path[b]) /\ path[b][2] = "canonical"
  BY DEF Dial, PathsAreAuthorized, EntriesAreOwn, TypeOK, Paths, machineOf
<1>2. /\ \/ t = None /\ pc' = [pc EXCEPT ![b] = "release"] /\ UNCHANGED <<onto, chan>>
         \/ /\ t # None
            /\ pc' = [pc EXCEPT ![b] = "opening"]
            /\ onto' = [onto EXCEPT ![b] = t]
            /\ chan' = [chan EXCEPT ![b] = "opening"]
      /\ pc[b] = "dial"
      /\ UNCHANGED <<tunnelVars, tenant, path, ws, copies, ctxDone, active, n>>
  BY DEF Dial
<1> HIDE DEF t
<1>3. TypeOK'
  BY <1>1, <1>2 DEF TypeOK, Holding
<1>4. EntriesAreOwn' /\ PathsAreAuthorized'
  BY <1>2 DEF EntriesAreOwn, PathsAreAuthorized, TypeOK
<1>5. DialledIsNamed'
  BY <1>1, <1>2 DEF DialledIsNamed, Reaching, TypeOK
<1>6. CountsAreHolders'
  <2>1. \A p \in Paths : Holders(p)' = Holders(p)
    BY <1>2 DEF Holders, Holding, TypeOK
  <2>2. QED
    BY <1>2, <2>1, SameHolders
<1>7. QED
  BY <1>3, <1>4, <1>5, <1>6

\* The invariant is kept by the steps of a session that has its channel: none of
\* them touches a counter or moves the session to another connection.
LEMMA ChannelStepInv ==
    ASSUME IInv, NEW b \in Sessions,
           \/ ChannelAnswered(b) \/ ChannelFails(b) \/ Confirm(b) \/ Transfer(b)
           \/ UpEnds(b) \/ DownEnds(b) \/ Tick(b) \/ PipeCloses(b) \/ PipeReturns(b)
           \/ BrowserLeaves(b) \/ ChannelClosed(b)
    PROVE  IInv'
<1> USE QuietInv DEF IInv, tunnelVars
<1>1. CASE ChannelAnswered(b) \/ ChannelFails(b)
  <2>1. TypeOK'
    BY <1>1 DEF ChannelAnswered, ChannelFails, TypeOK, Holding
  <2>2. QED
    BY <1>1, <2>1 DEF ChannelAnswered, ChannelFails, Reaching
<1>2. CASE Confirm(b)
  <2>1. TypeOK'
    BY <1>2 DEF Confirm, TypeOK, Holding
  <2>2. QED
    BY <1>2, <2>1 DEF Confirm, Reaching
<1>3. CASE Transfer(b) \/ UpEnds(b) \/ DownEnds(b)
  <2>1. TypeOK'
    <3>1. CASE Transfer(b)
      BY <3>1 DEF Transfer, TypeOK
    <3>2. CASE UpEnds(b)
      BY <3>2 DEF UpEnds, TypeOK
    <3>3. CASE DownEnds(b)
      BY <3>3 DEF DownEnds, TypeOK
    <3>4. QED
      BY <1>3, <3>1, <3>2, <3>3
  <2>2. QED
    BY <1>3, <2>1 DEF Transfer, UpEnds, DownEnds
<1>4. CASE Tick(b)
  <2>1. TypeOK'
    BY <1>4 DEF Tick, TypeOK
  <2>2. QED
    BY <1>4, <2>1 DEF Tick
<1>5. CASE PipeCloses(b) \/ PipeReturns(b)
  <2>1. TypeOK'
    BY <1>5 DEF PipeCloses, PipeReturns, TypeOK, Holding
  <2>2. QED
    BY <1>5, <2>1 DEF PipeCloses, PipeReturns, Reaching
<1>6. CASE BrowserLeaves(b) \/ ChannelClosed(b)
  <2>1. TypeOK'
    BY <1>6 DEF BrowserLeaves, ChannelClosed, TypeOK
  <2>2. QED
    BY <1>6, <2>1 DEF BrowserLeaves, ChannelClosed
<1>7. QED
  BY <1>1, <1>2, <1>3, <1>4, <1>5, <1>6

\* The invariant is kept by release: the session's own slot is given back, and
\* the counter was not zero.
LEMMA releaseInv ==
    ASSUME IInv, NEW b \in Sessions, release(b)
    PROVE  IInv'
<1> USE DEF IInv
<1>0. PICK q \in Paths : q = path[b]
  BY DEF release, PathsAreAuthorized
<1>1. /\ n[q] \in Nat /\ n \in [Paths -> 0..maxBridgesPerMachine]
      /\ pc[b] = "release" /\ Returned(b) /\ UNCHANGED tunnelVars
      /\ n' = [n EXCEPT ![q] = IF @ > 0 THEN @ - 1 ELSE @]
  BY <1>0, CapAssumption DEF release, TypeOK
<1>2. b \in Holders(q) /\ Holders(q)' = Holders(q) \ {b}
  BY <1>0, <1>1 DEF Holders, Holding, TypeOK, Returned
<1>3. Cardinality(Holders(q)') = n[q] - 1 /\ n[q] > 0
  <2>1. Cardinality(Holders(q)') = Cardinality(Holders(q)) - 1
    BY <1>2, HoldersFinite, FS_RemoveElement
  <2>2. Cardinality(Holders(q)) # 0
    BY <1>2, HoldersFinite, FS_EmptySet
  <2>3. QED
    BY <1>1, <2>1, <2>2, HoldersFinite DEF CountsAreHolders
<1>4. n' = [n EXCEPT ![q] = n[q] - 1] /\ n' \in [Paths -> 0..maxBridgesPerMachine]
  BY <1>1, <1>3, CapAssumption
<1>5. TypeOK' /\ EntriesAreOwn' /\ PathsAreAuthorized' /\ DialledIsNamed'
  BY <1>1, <1>4, ReturnedInv
<1>6. CountsAreHolders'
  <2>1. ASSUME NEW p \in Paths, p # q PROVE Holders(p)' = Holders(p)
    BY <1>0, <1>1, <2>1 DEF Holders, Holding, TypeOK, Returned
  <2>2. ASSUME NEW p \in Paths PROVE n'[p] = Cardinality(Holders(p)')
    <3>1. CASE p = q
      BY <1>1, <1>3, <1>4, <3>1
    <3>2. CASE p # q
      BY <1>1, <1>4, <2>1, <3>2 DEF CountsAreHolders
    <3>3. QED
      BY <3>1, <3>2
  <2>3. QED
    BY <2>2 DEF CountsAreHolders
<1>7. QED
  BY <1>5, <1>6

\* The empty counters are exact when no handler runs.
LEMMA NobodyHolds ==
    ASSUME pc = [b \in Sessions |-> "idle"], n = [p \in Paths |-> 0]
    PROVE  CountsAreHolders
<1>1. \A p \in Paths : Holders(p) = {}
  BY DEF Holders, Holding
<1>2. QED
  BY <1>1, FS_EmptySet DEF CountsAreHolders

\* The invariant is kept by a restart of the relay.
LEMMA RestartInv ==
    ASSUME IInv, Restart
    PROVE  IInv'
<1>1. TypeOK'
  BY CapAssumption DEF Restart, TunnelsRestart, IInv, TypeOK, ConnStates
<1>2. EntriesAreOwn'
  BY DEF Restart, TunnelsRestart, IInv, EntriesAreOwn, Admitted, TypeOK
<1>3. PathsAreAuthorized' /\ DialledIsNamed'
  BY DEF Restart, PathsAreAuthorized, DialledIsNamed, Reaching
<1>4. ASSUME NEW p \in Paths
      PROVE  n'[p] = 0 /\ Cardinality(Holders(p)') = 0
  <2>1. Holders(p)' = {}
    BY DEF Restart, Holders, Holding
  <2>2. QED
    BY <2>1, FS_EmptySet DEF Restart
<1>5. CountsAreHolders'
  BY <1>4 DEF CountsAreHolders
<1>6. QED
  BY <1>1, <1>2, <1>3, <1>5 DEF IInv

-----------------------------------------------------------------------------
\* Every step of the relay, the browsers and the CLIs keeps the invariant.
LEMMA StepInv == IInv /\ [Next]_vars => IInv'
<1> SUFFICES ASSUME IInv, [Next]_vars PROVE IInv'
  OBVIOUS
<1>1. ASSUME NEW b \in Sessions, SessionStep(b) PROVE IInv'
  BY <1>1, AuthorizeInv, acquireInv, DialInv, ChannelStepInv, releaseInv
     DEF SessionStep, HandlerStep
<1>2. CASE UNCHANGED vars
  BY <1>2 DEF vars, tunnelVars, bridgeVars, sessionVars, IInv, TypeOK, EntriesAreOwn,
              PathsAreAuthorized, DialledIsNamed, CountsAreHolders, Holders
<1>3. QED
  BY <1>1, <1>2, TunnelStepInv, RestartInv DEF Next

\* The invariant holds when the relay starts and every step keeps it.
LEMMA BridgeInductive == Spec => []IInv
<1>1. Init => IInv
  <2> SUFFICES ASSUME Init PROVE IInv
    OBVIOUS
  <2> USE DEF Init, TunnelsInit, BridgeInit
  <2>1. TypeOK
    BY CapAssumption DEF TypeOK, ConnStates
  <2>2. EntriesAreOwn
    BY DEF EntriesAreOwn, Admitted
  <2>3. PathsAreAuthorized /\ DialledIsNamed
    BY DEF PathsAreAuthorized, DialledIsNamed, Reaching
  <2>4. CountsAreHolders
    BY NobodyHolds
  <2>5. QED
    BY <2>1, <2>2, <2>3, <2>4 DEF IInv
<1>2. QED
  BY <1>1, StepInv, PTL DEF Spec

\* Type correctness of the handlers, the counters and the gateway's state.
THEOREM BridgeTypeOK == Spec => []TypeOK
<1>1. IInv => TypeOK
  BY DEF IInv
<1>2. QED
  BY <1>1, BridgeInductive, PTL

\* bridgeCounts is exact on every exit path of HandleSSHBridge: offline machines,
\* refused and broken channels, browsers that leave, the idle watchdog.
THEOREM BridgeCountsAreHolders == Spec => []CountsAreHolders
<1>1. IInv => CountsAreHolders
  BY DEF IInv
<1>2. QED
  BY <1>1, BridgeInductive, PTL

\* The cap holds per machine, although bridgeCounts counts per spelling of the id
\* in the path: only sessions of the canonical spelling ever reach a channel.
THEOREM BridgeCapPerMachine == Spec => []CapPerMachine
<1>1. IInv => CapPerMachine
  <2> SUFFICES ASSUME IInv, NEW m \in Machines
               PROVE  Cardinality({b \in Sessions : OpenTo(b, m)}) <= maxBridgesPerMachine
    BY DEF CapPerMachine
  <2> DEFINE q == <<m, "canonical">>
             O == {b \in Sessions : OpenTo(b, m)}
  <2>1. q \in Paths
    BY DEF Paths
  <2>2. ASSUME NEW b \in O PROVE b \in Holders(q)
    <3>1. path[b] \in Paths /\ path[b][2] = "canonical" /\ path[b][1] = m
      BY <2>2 DEF OpenTo, IInv, DialledIsNamed, PathsAreAuthorized, Reaching, machineOf
    <3>2. path[b] = q
      BY <3>1 DEF Paths
    <3>3. QED
      BY <2>2, <3>2 DEF OpenTo, Holders, Holding
  <2>3. Cardinality(O) <= Cardinality(Holders(q)) /\ Cardinality(O) \in Nat
    <3>1. O \in SUBSET Holders(q)
      BY <2>2
    <3>2. QED
      BY <3>1, HoldersFinite, FS_Subset, FS_CardinalityType
  <2>4. Cardinality(Holders(q)) <= maxBridgesPerMachine
    BY <2>1, CapAssumption DEF IInv, TypeOK, CountsAreHolders
  <2>5. QED
    BY <2>1, <2>3, <2>4, HoldersFinite, CapAssumption
<1>2. QED
  BY <1>1, BridgeInductive, PTL

\* A session's connection is always one of a machine of the user's own tenant,
\* from Registry.Dial until the handler has returned.
THEOREM BridgeTenantIsolation == Spec => []TenantIsolation
<1>1. IInv => TenantIsolation
  <2> SUFFICES ASSUME IInv, NEW b \in Sessions, onto[b] # None
               PROVE  of[onto[b]] # None /\ TenantOf[of[onto[b]]] = tenant[b]
    BY DEF TenantIsolation
  <2>1. of[onto[b]] = machineOf(path[b]) /\ pc[b] # "idle"
    BY DEF IInv, DialledIsNamed, Reaching
  <2>2. path[b] \in Paths /\ TenantOf[machineOf(path[b])] = tenant[b]
    BY <2>1 DEF IInv, PathsAreAuthorized
  <2>3. QED
    BY <2>1, <2>2, TunnelsNoneAssumption DEF Paths, machineOf
<1>2. QED
  BY <1>1, BridgeInductive, PTL
=============================================================================
