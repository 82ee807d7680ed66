------------------------------ MODULE GateProofs ------------------------------
(***************************************************************************)
(* Proofs about module Gate, for any number of machines, connections and   *)
(* DELETE requests: type correctness, the three safety invariants of the   *)
(* registry, how a machine goes offline, and that every step of the        *)
(* gateway is one of module Tunnels.                                       *)
(***************************************************************************)
EXTENDS Gate, SequenceTheorems, TLAPS

\* A connection whose request goroutine runs has been authenticated, with the
\* key of the machine it is known as; nothing runs for one not yet accepted.
KnownPeers ==
    \A c \in Conns :
        /\ loop[c] \in {"serving", "closing"} => who[c] \in Machines
        /\ who[c] # None => key[c] = who[c]
        /\ link[c] = "none" => loop[c] = "none"

\* The registry files a connection under the machine it is known as.
FiledUnderSelf ==
    \A m \in Machines : tunnels[m] # None => who[tunnels[m]] = m

\* Whoever is about to close a connection knows which one, and a forward is
\* only remembered while its request goroutine runs.
ClosersKnowTheirTarget ==
    /\ \A c \in Conns :
         /\ loop[c] = "closing" => victim[c] \in Conns
         /\ fwd[c] => loop[c] \in {"serving", "closing"}
    /\ \A d \in Deleters :
         /\ del[d].pc # "idle" => del[d].m \in Machines
         /\ del[d].pc = "conn" => del[d].t \in Conns

\* The inductive invariant.
IInv ==
    /\ TypeOK
    /\ KnownPeers
    /\ FiledUnderSelf
    /\ NoGhostTunnel
    /\ ClosersKnowTheirTarget
    /\ NoStrandedTunnel

-----------------------------------------------------------------------------
\* The invariant is kept by enrolling a machine (HandleCreateMachine).
LEMMA EnrollInv ==
    ASSUME IInv, NEW m \in Machines, Enroll(m)
    PROVE  IInv'
<1> USE NoneAssumption DEF Enroll, connVars, delVars
<1>1. TypeOK'
  BY DEF IInv, TypeOK, Requests, DelIdle, KnownPeers, ClosersKnowTheirTarget
<1>2. KnownPeers' /\ FiledUnderSelf' /\ NoGhostTunnel'
  BY DEF IInv, TypeOK, KnownPeers, FiledUnderSelf, NoGhostTunnel
<1>3. ClosersKnowTheirTarget'
  BY DEF IInv, TypeOK, DelIdle, KnownPeers, ClosersKnowTheirTarget
<1>4. NoStrandedTunnel'
  <2> SUFFICES ASSUME NEW x \in Conns, fwd'[x]
               PROVE  tunnels'[who'[x]] = x \/ link'[x] = "closed" \/ ToBeClosed(x)'
    BY DEF NoStrandedTunnel
  <2>1. ToBeClosed(x) => ToBeClosed(x)' \/ link'[x] = "closed"
    BY DEF IInv, TypeOK, DelIdle, ToBeClosed
  <2>2. QED
    BY <2>1 DEF IInv, TypeOK, KnownPeers, ClosersKnowTheirTarget, NoStrandedTunnel
<1>5. QED
  BY <1>1, <1>2, <1>3, <1>4 DEF IInv

\* The invariant is kept by the CLI ending its connection.
LEMMA PeerClosesInv ==
    ASSUME IInv, NEW c \in Conns, PeerCloses(c)
    PROVE  IInv'
<1> USE NoneAssumption DEF PeerCloses, connVars, delVars
<1>1. TypeOK'
  BY DEF IInv, TypeOK, Requests, DelIdle, KnownPeers, ClosersKnowTheirTarget
<1>2. KnownPeers' /\ FiledUnderSelf' /\ NoGhostTunnel'
  BY DEF IInv, TypeOK, KnownPeers, FiledUnderSelf, NoGhostTunnel
<1>3. ClosersKnowTheirTarget'
  BY DEF IInv, TypeOK, DelIdle, KnownPeers, ClosersKnowTheirTarget
<1>4. NoStrandedTunnel'
  <2> SUFFICES ASSUME NEW x \in Conns, fwd'[x]
               PROVE  tunnels'[who'[x]] = x \/ link'[x] = "closed" \/ ToBeClosed(x)'
    BY DEF NoStrandedTunnel
  <2>1. ToBeClosed(x) => ToBeClosed(x)' \/ link'[x] = "closed"
    BY DEF IInv, TypeOK, DelIdle, ToBeClosed
  <2>2. QED
    BY <2>1 DEF IInv, TypeOK, KnownPeers, ClosersKnowTheirTarget, NoStrandedTunnel
<1>5. QED
  BY <1>1, <1>2, <1>3, <1>4 DEF IInv

\* The invariant is kept by the CLI vanishing.
LEMMA PeerVanishesInv ==
    ASSUME IInv, NEW c \in Conns, PeerVanishes(c)
    PROVE  IInv'
<1> USE NoneAssumption DEF PeerVanishes, connVars, delVars
<1>1. TypeOK'
  BY DEF IInv, TypeOK, Requests, DelIdle, KnownPeers, ClosersKnowTheirTarget
<1>2. KnownPeers' /\ FiledUnderSelf' /\ NoGhostTunnel'
  BY DEF IInv, TypeOK, KnownPeers, FiledUnderSelf, NoGhostTunnel
<1>3. ClosersKnowTheirTarget'
  BY DEF IInv, TypeOK, DelIdle, KnownPeers, ClosersKnowTheirTarget
<1>4. NoStrandedTunnel'
  <2> SUFFICES ASSUME NEW x \in Conns, fwd'[x]
               PROVE  tunnels'[who'[x]] = x \/ link'[x] = "closed" \/ ToBeClosed(x)'
    BY DEF NoStrandedTunnel
  <2>1. ToBeClosed(x) => ToBeClosed(x)' \/ link'[x] = "closed"
    BY DEF IInv, TypeOK, DelIdle, ToBeClosed
  <2>2. QED
    BY <2>1 DEF IInv, TypeOK, KnownPeers, ClosersKnowTheirTarget, NoStrandedTunnel
<1>5. QED
  BY <1>1, <1>2, <1>3, <1>4 DEF IInv

\* The invariant is kept by idleConn's deadline.
LEMMA IdleTimeoutInv ==
    ASSUME IInv, NEW c \in Conns, IdleTimeout(c)
    PROVE  IInv'
<1> USE NoneAssumption DEF IdleTimeout, connVars, delVars
<1>1. TypeOK'
  BY DEF IInv, TypeOK, Requests, DelIdle, KnownPeers, ClosersKnowTheirTarget
<1>2. KnownPeers' /\ FiledUnderSelf' /\ NoGhostTunnel'
  BY DEF IInv, TypeOK, KnownPeers, FiledUnderSelf, NoGhostTunnel
<1>3. ClosersKnowTheirTarget'
  BY DEF IInv, TypeOK, DelIdle, KnownPeers, ClosersKnowTheirTarget
<1>4. NoStrandedTunnel'
  <2> SUFFICES ASSUME NEW x \in Conns, fwd'[x]
               PROVE  tunnels'[who'[x]] = x \/ link'[x] = "closed" \/ ToBeClosed(x)'
    BY DEF NoStrandedTunnel
  <2>1. ToBeClosed(x) => ToBeClosed(x)' \/ link'[x] = "closed"
    BY DEF IInv, TypeOK, DelIdle, ToBeClosed
  <2>2. QED
    BY <2>1 DEF IInv, TypeOK, KnownPeers, ClosersKnowTheirTarget, NoStrandedTunnel
<1>5. QED
  BY <1>1, <1>2, <1>3, <1>4 DEF IInv

\* The invariant is kept by a request arriving.
LEMMA SendRequestInv ==
    ASSUME IInv, NEW c \in Conns, NEW r \in Requests, SendRequest(c, r)
    PROVE  IInv'
<1> USE NoneAssumption DEF SendRequest, connVars, delVars
<1>1. TypeOK'
  BY DEF IInv, TypeOK, Requests, DelIdle, KnownPeers, ClosersKnowTheirTarget
<1>2. KnownPeers' /\ FiledUnderSelf' /\ NoGhostTunnel'
  BY DEF IInv, TypeOK, KnownPeers, FiledUnderSelf, NoGhostTunnel
<1>3. ClosersKnowTheirTarget'
  BY DEF IInv, TypeOK, DelIdle, KnownPeers, ClosersKnowTheirTarget
<1>4. NoStrandedTunnel'
  <2> SUFFICES ASSUME NEW x \in Conns, fwd'[x]
               PROVE  tunnels'[who'[x]] = x \/ link'[x] = "closed" \/ ToBeClosed(x)'
    BY DEF NoStrandedTunnel
  <2>1. ToBeClosed(x) => ToBeClosed(x)' \/ link'[x] = "closed"
    BY DEF IInv, TypeOK, DelIdle, ToBeClosed
  <2>2. QED
    BY <2>1 DEF IInv, TypeOK, KnownPeers, ClosersKnowTheirTarget, NoStrandedTunnel
<1>5. QED
  BY <1>1, <1>2, <1>3, <1>4 DEF IInv

\* The invariant is kept by ListenAndServe accepting.
LEMMA AcceptInv ==
    ASSUME IInv, NEW c \in Conns, Accept(c)
    PROVE  IInv'
<1> USE NoneAssumption DEF Accept, connVars, delVars
<1>1. TypeOK'
  BY DEF IInv, TypeOK, Requests, DelIdle, KnownPeers, ClosersKnowTheirTarget
<1>2. KnownPeers' /\ FiledUnderSelf' /\ NoGhostTunnel'
  BY DEF IInv, TypeOK, KnownPeers, FiledUnderSelf, NoGhostTunnel
<1>3. ClosersKnowTheirTarget'
  BY DEF IInv, TypeOK, DelIdle, KnownPeers, ClosersKnowTheirTarget
<1>4. NoStrandedTunnel'
  <2> SUFFICES ASSUME NEW x \in Conns, fwd'[x]
               PROVE  tunnels'[who'[x]] = x \/ link'[x] = "closed" \/ ToBeClosed(x)'
    BY DEF NoStrandedTunnel
  <2>1. ToBeClosed(x) => ToBeClosed(x)' \/ link'[x] = "closed"
    BY DEF IInv, TypeOK, KnownPeers, ToBeClosed
  <2>2. QED
    BY <2>1 DEF IInv, TypeOK, KnownPeers, ClosersKnowTheirTarget, NoStrandedTunnel
<1>5. QED
  BY <1>1, <1>2, <1>3, <1>4 DEF IInv

\* The invariant is kept by the public key callback.
LEMMA PublicKeyCallbackInv ==
    ASSUME IInv, NEW c \in Conns, NEW u \in Machines, NEW k \in Machines,
           PublicKeyCallback(c, u, k)
    PROVE  IInv'
<1> USE NoneAssumption DEF PublicKeyCallback, connVars, delVars
<1>1. TypeOK'
  BY DEF IInv, TypeOK, Requests, DelIdle, KnownPeers, ClosersKnowTheirTarget
<1>2. KnownPeers' /\ FiledUnderSelf' /\ NoGhostTunnel'
  BY DEF IInv, TypeOK, KnownPeers, FiledUnderSelf, NoGhostTunnel
<1>3. ClosersKnowTheirTarget'
  BY DEF IInv, TypeOK, DelIdle, KnownPeers, ClosersKnowTheirTarget
<1>4. NoStrandedTunnel'
  <2> SUFFICES ASSUME NEW x \in Conns, fwd'[x]
               PROVE  tunnels'[who'[x]] = x \/ link'[x] = "closed" \/ ToBeClosed(x)'
    BY DEF NoStrandedTunnel
  <2>1. ToBeClosed(x) => ToBeClosed(x)' \/ link'[x] = "closed"
    BY DEF IInv, TypeOK, DelIdle, ToBeClosed
  <2>2. QED
    BY <2>1 DEF IInv, TypeOK, KnownPeers, ClosersKnowTheirTarget, NoStrandedTunnel
<1>5. QED
  BY <1>1, <1>2, <1>3, <1>4 DEF IInv

\* The invariant is kept by the end of the handshake.
LEMMA HandshakeDoneInv ==
    ASSUME IInv, NEW c \in Conns, HandshakeDone(c)
    PROVE  IInv'
<1> USE NoneAssumption DEF HandshakeDone, connVars, delVars
<1>1. TypeOK'
  BY DEF IInv, TypeOK, Requests, DelIdle, KnownPeers, ClosersKnowTheirTarget
<1>2. KnownPeers' /\ FiledUnderSelf' /\ NoGhostTunnel'
  BY DEF IInv, TypeOK, KnownPeers, FiledUnderSelf, NoGhostTunnel
<1>3. ClosersKnowTheirTarget'
  BY DEF IInv, TypeOK, DelIdle, KnownPeers, ClosersKnowTheirTarget
<1>4. NoStrandedTunnel'
  <2> SUFFICES ASSUME NEW x \in Conns, fwd'[x]
               PROVE  tunnels'[who'[x]] = x \/ link'[x] = "closed" \/ ToBeClosed(x)'
    BY DEF NoStrandedTunnel
  <2>1. ToBeClosed(x) => ToBeClosed(x)' \/ link'[x] = "closed"
    BY DEF IInv, TypeOK, DelIdle, ToBeClosed
  <2>2. QED
    BY <2>1 DEF IInv, TypeOK, KnownPeers, ClosersKnowTheirTarget, NoStrandedTunnel
<1>5. QED
  BY <1>1, <1>2, <1>3, <1>4 DEF IInv

\* The invariant is kept by a failed handshake.
LEMMA HandshakeFailsInv ==
    ASSUME IInv, NEW c \in Conns, HandshakeFails(c)
    PROVE  IInv'
<1> USE NoneAssumption DEF HandshakeFails, connVars, delVars
<1>1. TypeOK'
  BY DEF IInv, TypeOK, Requests, DelIdle, KnownPeers, ClosersKnowTheirTarget
<1>2. KnownPeers' /\ FiledUnderSelf' /\ NoGhostTunnel'
  BY DEF IInv, TypeOK, KnownPeers, FiledUnderSelf, NoGhostTunnel
<1>3. ClosersKnowTheirTarget'
  BY DEF IInv, TypeOK, DelIdle, KnownPeers, ClosersKnowTheirTarget
<1>4. NoStrandedTunnel'
  <2> SUFFICES ASSUME NEW x \in Conns, fwd'[x]
               PROVE  tunnels'[who'[x]] = x \/ link'[x] = "closed" \/ ToBeClosed(x)'
    BY DEF NoStrandedTunnel
  <2>1. ToBeClosed(x) => ToBeClosed(x)' \/ link'[x] = "closed"
    BY DEF IInv, TypeOK, DelIdle, ToBeClosed
  <2>2. QED
    BY <2>1 DEF IInv, TypeOK, KnownPeers, ClosersKnowTheirTarget, NoStrandedTunnel
<1>5. QED
  BY <1>1, <1>2, <1>3, <1>4 DEF IInv

\* The invariant is kept by tcpip-forward.
LEMMA HandleForwardInv ==
    ASSUME IInv, NEW c \in Conns, HandleForward(c)
    PROVE  IInv'
<1> DEFINE m == who[c]
           old == tunnels[m]
<1>1. /\ m \in Machines
      /\ loop[c] = "serving"
      /\ old \in Conns \cup {None}
  BY DEF IInv, TypeOK, KnownPeers, HandleForward, Dequeue
<1>2. /\ tunnels' = [tunnels EXCEPT ![m] = c]
      /\ fwd' = [fwd EXCEPT ![c] = TRUE]
      /\ UNCHANGED <<row, link, peer, key, who, del, unenrolled>>
      /\ \/ /\ old \in Conns /\ old # c
            /\ victim' = [victim EXCEPT ![c] = old]
            /\ loop' = [loop EXCEPT ![c] = "closing"]
         \/ /\ old = None \/ old = c
            /\ UNCHANGED <<victim, loop>>
  BY <1>1, NoneAssumption DEF HandleForward, register, delVars
<1>3. reqs' \in [Conns -> Seq(Requests)]
  <2>1. reqs[c] \in Seq(Requests) /\ reqs[c] # <<>>
    BY DEF IInv, TypeOK, HandleForward, Dequeue
  <2>2. Tail(reqs[c]) \in Seq(Requests)
    BY <2>1, HeadTailProperties
  <2>3. QED
    BY <2>2 DEF IInv, TypeOK, HandleForward, Dequeue
<1>4. loop'[c] \in {"serving", "closing"} /\ \A x \in Conns \ {c} : loop'[x] = loop[x]
  BY <1>1, <1>2 DEF IInv, TypeOK
<1>5. TypeOK'
  BY <1>1, <1>2, <1>3 DEF IInv, TypeOK
<1>6. KnownPeers'
  BY <1>1, <1>2, <1>4 DEF IInv, TypeOK, KnownPeers
<1>7. FiledUnderSelf' /\ NoGhostTunnel'
  <2> SUFFICES ASSUME NEW y \in Machines, tunnels'[y] # None
               PROVE  /\ who'[tunnels'[y]] = y
                      /\ loop'[tunnels'[y]] \in {"serving", "closing"}
    BY DEF FiledUnderSelf, NoGhostTunnel
  <2>1. CASE y = m
    BY <2>1, <1>1, <1>2, <1>4 DEF IInv, TypeOK
  <2>2. CASE y # m
    <3>1. tunnels'[y] = tunnels[y] /\ tunnels[y] \in Conns
      BY <2>2, <1>2 DEF IInv, TypeOK
    <3>2. who[tunnels[y]] = y /\ loop[tunnels[y]] \in {"serving", "closing"}
      BY <3>1 DEF IInv, FiledUnderSelf, NoGhostTunnel
    <3>3. QED
      BY <3>1, <3>2, <1>2, <1>4
  <2>3. QED
    BY <2>1, <2>2
<1>8. ClosersKnowTheirTarget'
  BY <1>1, <1>2, <1>4 DEF IInv, TypeOK, ClosersKnowTheirTarget
<1>9. NoStrandedTunnel'
  <2> SUFFICES ASSUME NEW x \in Conns, fwd'[x]
               PROVE  tunnels'[who'[x]] = x \/ link'[x] = "closed" \/ ToBeClosed(x)'
    BY DEF NoStrandedTunnel
  <2>1. ToBeClosed(x) => ToBeClosed(x)'
    BY <1>1, <1>2 DEF IInv, TypeOK, ToBeClosed
  <2>2. CASE x = c
    BY <2>2, <1>1, <1>2 DEF IInv, TypeOK
  <2>3. CASE x # c /\ x = old
    <3>1. loop'[c] = "closing" /\ victim'[c] = x
      BY <2>3, <1>1, <1>2, NoneAssumption DEF IInv, TypeOK
    <3>2. QED
      BY <3>1 DEF ToBeClosed
  <2>4. CASE x # c /\ x # old
    <3>1. fwd[x] /\ who[x] \in Machines
      BY <2>4, <1>2 DEF IInv, TypeOK, KnownPeers, ClosersKnowTheirTarget
    <3>2. tunnels[who[x]] = x => tunnels'[who'[x]] = x
      BY <2>4, <3>1, <1>2 DEF IInv, TypeOK
    <3>3. QED
      BY <2>1, <3>1, <3>2, <1>2 DEF IInv, NoStrandedTunnel
  <2>5. QED
    BY <2>2, <2>3, <2>4
<1>10. QED
  BY <1>5, <1>6, <1>7, <1>8, <1>9 DEF IInv

\* The invariant is kept by closing the displaced connection.
LEMMA CloseVictimInv ==
    ASSUME IInv, NEW c \in Conns, CloseVictim(c)
    PROVE  IInv'
<1> USE NoneAssumption DEF CloseVictim, connVars, delVars
<1>1. TypeOK'
  BY DEF IInv, TypeOK, Requests, DelIdle, KnownPeers, ClosersKnowTheirTarget
<1>2. KnownPeers' /\ FiledUnderSelf' /\ NoGhostTunnel'
  BY DEF IInv, TypeOK, KnownPeers, FiledUnderSelf, NoGhostTunnel
<1>3. ClosersKnowTheirTarget'
  BY DEF IInv, TypeOK, DelIdle, KnownPeers, ClosersKnowTheirTarget
<1>4. NoStrandedTunnel'
  <2> SUFFICES ASSUME NEW x \in Conns, fwd'[x]
               PROVE  tunnels'[who'[x]] = x \/ link'[x] = "closed" \/ ToBeClosed(x)'
    BY DEF NoStrandedTunnel
  <2>1. ToBeClosed(x) => ToBeClosed(x)' \/ link'[x] = "closed"
    BY DEF IInv, TypeOK, DelIdle, ToBeClosed
  <2>2. QED
    BY <2>1 DEF IInv, TypeOK, KnownPeers, ClosersKnowTheirTarget, NoStrandedTunnel
<1>5. QED
  BY <1>1, <1>2, <1>3, <1>4 DEF IInv

\* The invariant is kept by cancel-tcpip-forward.
LEMMA HandleCancelInv ==
    ASSUME IInv, NEW c \in Conns, HandleCancel(c)
    PROVE  IInv'
<1> USE NoneAssumption DEF HandleCancel, Dequeue, unregister, connVars, delVars
<1>1. TypeOK'
  BY DEF IInv, TypeOK, Requests, DelIdle, KnownPeers, ClosersKnowTheirTarget
<1>2. KnownPeers' /\ FiledUnderSelf' /\ NoGhostTunnel'
  BY DEF IInv, TypeOK, KnownPeers, FiledUnderSelf, NoGhostTunnel
<1>3. ClosersKnowTheirTarget'
  BY DEF IInv, TypeOK, DelIdle, KnownPeers, ClosersKnowTheirTarget
<1>4. NoStrandedTunnel'
  <2> SUFFICES ASSUME NEW x \in Conns, fwd'[x]
               PROVE  tunnels'[who'[x]] = x \/ link'[x] = "closed" \/ ToBeClosed(x)'
    BY DEF NoStrandedTunnel
  <2>1. ToBeClosed(x) => ToBeClosed(x)' \/ link'[x] = "closed"
    BY DEF IInv, TypeOK, DelIdle, ToBeClosed
  <2>2. QED
    BY <2>1 DEF IInv, TypeOK, KnownPeers, ClosersKnowTheirTarget, NoStrandedTunnel
<1>5. QED
  BY <1>1, <1>2, <1>3, <1>4 DEF IInv

\* The invariant is kept by any other request.
LEMMA HandleOtherInv ==
    ASSUME IInv, NEW c \in Conns, HandleOther(c)
    PROVE  IInv'
<1> USE NoneAssumption DEF HandleOther, Dequeue, connVars, delVars
<1>1. TypeOK'
  BY DEF IInv, TypeOK, Requests, DelIdle, KnownPeers, ClosersKnowTheirTarget
<1>2. KnownPeers' /\ FiledUnderSelf' /\ NoGhostTunnel'
  BY DEF IInv, TypeOK, KnownPeers, FiledUnderSelf, NoGhostTunnel
<1>3. ClosersKnowTheirTarget'
  BY DEF IInv, TypeOK, DelIdle, KnownPeers, ClosersKnowTheirTarget
<1>4. NoStrandedTunnel'
  <2> SUFFICES ASSUME NEW x \in Conns, fwd'[x]
               PROVE  tunnels'[who'[x]] = x \/ link'[x] = "closed" \/ ToBeClosed(x)'
    BY DEF NoStrandedTunnel
  <2>1. ToBeClosed(x) => ToBeClosed(x)' \/ link'[x] = "closed"
    BY DEF IInv, TypeOK, DelIdle, ToBeClosed
  <2>2. QED
    BY <2>1 DEF IInv, TypeOK, KnownPeers, ClosersKnowTheirTarget, NoStrandedTunnel
<1>5. QED
  BY <1>1, <1>2, <1>3, <1>4 DEF IInv

\* The invariant is kept by the deferred cleanup.
LEMMA LoopEndsInv ==
    ASSUME IInv, NEW c \in Conns, LoopEnds(c)
    PROVE  IInv'
<1> USE NoneAssumption DEF LoopEnds, unregister, connVars, delVars
<1>1. TypeOK'
  BY DEF IInv, TypeOK, Requests, DelIdle, KnownPeers, ClosersKnowTheirTarget
<1>2. KnownPeers' /\ FiledUnderSelf' /\ NoGhostTunnel'
  BY DEF IInv, TypeOK, KnownPeers, FiledUnderSelf, NoGhostTunnel
<1>3. ClosersKnowTheirTarget'
  BY DEF IInv, TypeOK, DelIdle, KnownPeers, ClosersKnowTheirTarget
<1>4. NoStrandedTunnel'
  <2> SUFFICES ASSUME NEW x \in Conns, fwd'[x]
               PROVE  tunnels'[who'[x]] = x \/ link'[x] = "closed" \/ ToBeClosed(x)'
    BY DEF NoStrandedTunnel
  <2>1. ToBeClosed(x) => ToBeClosed(x)' \/ link'[x] = "closed"
    BY DEF IInv, TypeOK, DelIdle, ToBeClosed
  <2>2. QED
    BY <2>1 DEF IInv, TypeOK, KnownPeers, ClosersKnowTheirTarget, NoStrandedTunnel
<1>5. QED
  BY <1>1, <1>2, <1>3, <1>4 DEF IInv

\* The invariant is kept by tenantMachine.
LEMMA DeleteLoadsInv ==
    ASSUME IInv, NEW d \in Deleters, NEW m \in Machines, DeleteLoads(d, m)
    PROVE  IInv'
<1> USE NoneAssumption DEF DeleteLoads, connVars, delVars
<1>1. TypeOK'
  BY DEF IInv, TypeOK, Requests, DelIdle, KnownPeers, ClosersKnowTheirTarget
<1>2. KnownPeers' /\ FiledUnderSelf' /\ NoGhostTunnel'
  BY DEF IInv, TypeOK, KnownPeers, FiledUnderSelf, NoGhostTunnel
<1>3. ClosersKnowTheirTarget'
  BY DEF IInv, TypeOK, DelIdle, KnownPeers, ClosersKnowTheirTarget
<1>4. NoStrandedTunnel'
  <2> SUFFICES ASSUME NEW x \in Conns, fwd'[x]
               PROVE  tunnels'[who'[x]] = x \/ link'[x] = "closed" \/ ToBeClosed(x)'
    BY DEF NoStrandedTunnel
  <2>1. ToBeClosed(x) => ToBeClosed(x)' \/ link'[x] = "closed"
    BY DEF IInv, TypeOK, DelIdle, ToBeClosed
  <2>2. QED
    BY <2>1 DEF IInv, TypeOK, KnownPeers, ClosersKnowTheirTarget, NoStrandedTunnel
<1>5. QED
  BY <1>1, <1>2, <1>3, <1>4 DEF IInv

\* The invariant is kept by DeleteMachine.
LEMMA DeleteRowInv ==
    ASSUME IInv, NEW d \in Deleters, DeleteRow(d)
    PROVE  IInv'
<1> USE NoneAssumption DEF DeleteRow, connVars, delVars
<1>1. TypeOK'
  BY DEF IInv, TypeOK, Requests, DelIdle, KnownPeers, ClosersKnowTheirTarget
<1>2. KnownPeers' /\ FiledUnderSelf' /\ NoGhostTunnel'
  BY DEF IInv, TypeOK, KnownPeers, FiledUnderSelf, NoGhostTunnel
<1>3. ClosersKnowTheirTarget'
  BY DEF IInv, TypeOK, DelIdle, KnownPeers, ClosersKnowTheirTarget
<1>4. NoStrandedTunnel'
  <2> SUFFICES ASSUME NEW x \in Conns, fwd'[x]
               PROVE  tunnels'[who'[x]] = x \/ link'[x] = "closed" \/ ToBeClosed(x)'
    BY DEF NoStrandedTunnel
  <2>1. ToBeClosed(x) => ToBeClosed(x)' \/ link'[x] = "closed"
    BY DEF IInv, TypeOK, DelIdle, ToBeClosed
  <2>2. QED
    BY <2>1 DEF IInv, TypeOK, KnownPeers, ClosersKnowTheirTarget, NoStrandedTunnel
<1>5. QED
  BY <1>1, <1>2, <1>3, <1>4 DEF IInv

\* The invariant is kept by a failing DeleteMachine.
LEMMA DeleteRowFailsInv ==
    ASSUME IInv, NEW d \in Deleters, DeleteRowFails(d)
    PROVE  IInv'
<1> USE NoneAssumption DEF DeleteRowFails, connVars, delVars
<1>1. TypeOK'
  BY DEF IInv, TypeOK, Requests, DelIdle, KnownPeers, ClosersKnowTheirTarget
<1>2. KnownPeers' /\ FiledUnderSelf' /\ NoGhostTunnel'
  BY DEF IInv, TypeOK, KnownPeers, FiledUnderSelf, NoGhostTunnel
<1>3. ClosersKnowTheirTarget'
  BY DEF IInv, TypeOK, DelIdle, KnownPeers, ClosersKnowTheirTarget
<1>4. NoStrandedTunnel'
  <2> SUFFICES ASSUME NEW x \in Conns, fwd'[x]
               PROVE  tunnels'[who'[x]] = x \/ link'[x] = "closed" \/ ToBeClosed(x)'
    BY DEF NoStrandedTunnel
  <2>1. ToBeClosed(x) => ToBeClosed(x)' \/ link'[x] = "closed"
    BY DEF IInv, TypeOK, DelIdle, ToBeClosed
  <2>2. QED
    BY <2>1 DEF IInv, TypeOK, KnownPeers, ClosersKnowTheirTarget, NoStrandedTunnel
<1>5. QED
  BY <1>1, <1>2, <1>3, <1>4 DEF IInv

\* The invariant is kept by Registry.Close under the lock.
LEMMA RegistryCloseInv ==
    ASSUME IInv, NEW d \in Deleters, RegistryClose(d)
    PROVE  IInv'
<1> DEFINE m == del[d].m
           t == tunnels[m]
<1>1. m \in Machines /\ t \in Conns \cup {None} /\ del[d].pc = "map"
  BY DEF IInv, TypeOK, ClosersKnowTheirTarget, RegistryClose
<1>2. /\ tunnels' = [tunnels EXCEPT ![m] = None]
      /\ UNCHANGED <<row, link, peer, loop, key, who, reqs, fwd, victim>>
      /\ \/ /\ t \in Conns
            /\ del' = [del EXCEPT ![d] = [pc |-> "conn", m |-> m, t |-> t]]
            /\ unenrolled' = unenrolled
         \/ /\ t = None
            /\ del' = [del EXCEPT ![d] = DelIdle]
            /\ unenrolled' = unenrolled \cup {m}
  BY <1>1 DEF RegistryClose, connVars
<1> DEFINE next == IF t = None THEN DelIdle ELSE [pc |-> "conn", m |-> m, t |-> t]
<1>a. /\ next \in [pc : {"idle", "conn"}, m : Machines \cup {None}, t : Conns \cup {None}]
      /\ next.pc # "idle" => next.m \in Machines
      /\ next.pc = "conn" => next.t \in Conns
  BY <1>1 DEF DelIdle
<1>b. del' = [del EXCEPT ![d] = next] /\ unenrolled' \subseteq Machines
  BY <1>1, <1>2, NoneAssumption DEF IInv, TypeOK
<1> HIDE DEF next
<1>3. TypeOK'
  BY <1>1, <1>2, <1>a, <1>b DEF IInv, TypeOK
<1>4. KnownPeers' /\ FiledUnderSelf' /\ NoGhostTunnel'
  BY <1>1, <1>2 DEF IInv, TypeOK, KnownPeers, FiledUnderSelf, NoGhostTunnel
<1>5. ClosersKnowTheirTarget'
  BY <1>2, <1>a, <1>b DEF IInv, TypeOK, ClosersKnowTheirTarget
<1>6. NoStrandedTunnel'
  <2> SUFFICES ASSUME NEW x \in Conns, fwd'[x]
               PROVE  tunnels'[who'[x]] = x \/ link'[x] = "closed" \/ ToBeClosed(x)'
    BY DEF NoStrandedTunnel
  <2>1. ToBeClosed(x) => ToBeClosed(x)'
    BY <1>1, <1>2 DEF IInv, TypeOK, ToBeClosed
  <2>2. fwd[x] /\ who[x] \in Machines
    BY <1>2 DEF IInv, KnownPeers, ClosersKnowTheirTarget
  <2>3. CASE x = t
    <3>1. del'[d].pc = "conn" /\ del'[d].t = x
      BY <2>3, <1>1, <1>2, NoneAssumption DEF IInv, TypeOK
    <3>2. QED
      BY <3>1 DEF ToBeClosed
  <2>4. CASE x # t
    <3>1. tunnels[who[x]] = x => tunnels'[who'[x]] = x
      BY <2>2, <2>4, <1>1, <1>2 DEF IInv, TypeOK
    <3>2. QED
      BY <2>1, <2>2, <3>1, <1>2 DEF IInv, NoStrandedTunnel
  <2>5. QED
    BY <2>3, <2>4
<1>7. QED
  BY <1>3, <1>4, <1>5, <1>6 DEF IInv

\* The invariant is kept by Registry.Close after the unlock.
LEMMA RegistryCloseConnInv ==
    ASSUME IInv, NEW d \in Deleters, RegistryCloseConn(d)
    PROVE  IInv'
<1> USE NoneAssumption DEF RegistryCloseConn, connVars, delVars
<1>1. TypeOK'
  BY DEF IInv, TypeOK, Requests, DelIdle, KnownPeers, ClosersKnowTheirTarget
<1>2. KnownPeers' /\ FiledUnderSelf' /\ NoGhostTunnel'
  BY DEF IInv, TypeOK, KnownPeers, FiledUnderSelf, NoGhostTunnel
<1>3. ClosersKnowTheirTarget'
  BY DEF IInv, TypeOK, DelIdle, KnownPeers, ClosersKnowTheirTarget
<1>4. NoStrandedTunnel'
  <2> SUFFICES ASSUME NEW x \in Conns, fwd'[x]
               PROVE  tunnels'[who'[x]] = x \/ link'[x] = "closed" \/ ToBeClosed(x)'
    BY DEF NoStrandedTunnel
  <2>1. ToBeClosed(x) => ToBeClosed(x)' \/ link'[x] = "closed"
    BY DEF IInv, TypeOK, DelIdle, ToBeClosed
  <2>2. QED
    BY <2>1 DEF IInv, TypeOK, KnownPeers, ClosersKnowTheirTarget, NoStrandedTunnel
<1>5. QED
  BY <1>1, <1>2, <1>3, <1>4 DEF IInv

\* The invariant is kept by a restart.
LEMMA RestartInv ==
    ASSUME IInv, Restart
    PROVE  IInv'
<1> USE NoneAssumption DEF Restart, connVars, delVars
<1>1. TypeOK'
  BY DEF IInv, TypeOK, Requests, DelIdle, KnownPeers, ClosersKnowTheirTarget
<1>2. KnownPeers' /\ FiledUnderSelf' /\ NoGhostTunnel'
  BY DEF IInv, TypeOK, KnownPeers, FiledUnderSelf, NoGhostTunnel
<1>3. ClosersKnowTheirTarget'
  BY DEF IInv, TypeOK, DelIdle, KnownPeers, ClosersKnowTheirTarget
<1>4. NoStrandedTunnel'
  <2> SUFFICES ASSUME NEW x \in Conns, fwd'[x]
               PROVE  tunnels'[who'[x]] = x \/ link'[x] = "closed" \/ ToBeClosed(x)'
    BY DEF NoStrandedTunnel
  <2>1. ToBeClosed(x) => ToBeClosed(x)' \/ link'[x] = "closed"
    BY DEF IInv, TypeOK, DelIdle, ToBeClosed
  <2>2. QED
    BY <2>1 DEF IInv, TypeOK, KnownPeers, ClosersKnowTheirTarget, NoStrandedTunnel
<1>5. QED
  BY <1>1, <1>2, <1>3, <1>4 DEF IInv

-----------------------------------------------------------------------------
\* The invariant holds initially and every step of the gateway keeps it.
LEMMA GateInductive == Spec => []IInv
<1>1. Init => IInv
  BY NoneAssumption
     DEF Init, IInv, TypeOK, Requests, DelIdle, KnownPeers, FiledUnderSelf, NoGhostTunnel,
         ClosersKnowTheirTarget, NoStrandedTunnel
<1>2. IInv /\ [Next]_vars => IInv'
  <2> SUFFICES ASSUME IInv, [Next]_vars PROVE IInv'
    OBVIOUS
  <2>1. ASSUME NEW m \in Machines, Enroll(m) PROVE IInv'
    BY <2>1, EnrollInv
  <2>2. ASSUME NEW c \in Conns, ConnStep(c) PROVE IInv'
    BY <2>2, HandshakeDoneInv, HandshakeFailsInv, HandleForwardInv, CloseVictimInv,
       HandleCancelInv, HandleOtherInv, LoopEndsInv DEF ConnStep
  <2>3. ASSUME NEW c \in Conns, Environment(c) PROVE IInv'
    BY <2>3, AcceptInv, PublicKeyCallbackInv, PeerClosesInv, PeerVanishesInv,
       IdleTimeoutInv, SendRequestInv DEF Environment
  <2>4. ASSUME NEW d \in Deleters, DeleteStep(d) PROVE IInv'
    BY <2>4, DeleteLoadsInv, DeleteRowInv, DeleteRowFailsInv, RegistryCloseInv,
       RegistryCloseConnInv DEF DeleteStep
  <2>5. ASSUME Restart PROVE IInv'
    BY <2>5, RestartInv
  <2>6. ASSUME UNCHANGED vars PROVE IInv'
    BY <2>6 DEF vars, connVars, delVars, IInv, TypeOK, KnownPeers, FiledUnderSelf,
                NoGhostTunnel, ClosersKnowTheirTarget, NoStrandedTunnel, ToBeClosed
  <2>7. QED
    BY <2>1, <2>2, <2>3, <2>4, <2>5, <2>6 DEF Next
<1>3. QED
  BY <1>1, <1>2, PTL DEF Spec

\* Every variable of the gateway keeps its type; in particular a handler that is
\* about to close a connection, or a DELETE about to, has one to close.
THEOREM GateTypeOK == Spec => []TypeOK
<1>1. IInv => TypeOK
  BY DEF IInv
<1>2. QED
  BY <1>1, GateInductive, PTL

\* A machine's registry entry is always a connection that proved possession of
\* that machine's key (PublicKeyCallback, register).
THEOREM GateAuthenticTunnel == Spec => []AuthenticTunnel
<1>1. IInv => AuthenticTunnel
  BY NoneAssumption DEF IInv, TypeOK, KnownPeers, FiledUnderSelf, AuthenticTunnel
<1>2. QED
  BY <1>1, GateInductive, PTL

\* No registry entry outlives its connection's request goroutine, so every entry
\* has a deferred unregister still to come (handleConn).
THEOREM GateNoGhostTunnel == Spec => []NoGhostTunnel
<1>1. IInv => NoGhostTunnel
  BY DEF IInv
<1>2. QED
  BY <1>1, GateInductive, PTL

\* No connection that was granted its forward is left open, unregistered and
\* with nobody about to close it (register, Registry.Close).
THEOREM GateNoStrandedTunnel == Spec => []NoStrandedTunnel
<1>1. IInv => NoStrandedTunnel
  BY DEF IInv
<1>2. QED
  BY <1>1, GateInductive, PTL

-----------------------------------------------------------------------------
(* How a machine goes offline.                                              *)

\* A DELETE that has reached the registry has deleted the row before.
RowGoesFirst ==
    \A d \in Deleters :
        /\ del[d].pc # "idle" => row[del[d].m] # "none"
        /\ del[d].pc \in {"map", "conn"} => row[del[d].m] = "deleted"

\* The relay deletes a machine's row before its tunnel (HandleDeleteMachine), and
\* a deleted row stays deleted.
LEMMA RowsGoFirst == Spec => []RowGoesFirst
<1>1. Init => RowGoesFirst
  BY DEF Init, RowGoesFirst, DelIdle
<1>2. IInv /\ RowGoesFirst /\ [Next]_vars => RowGoesFirst'
  <2> SUFFICES ASSUME IInv, RowGoesFirst, [Next]_vars PROVE RowGoesFirst'
    OBVIOUS
  <2> USE DEF IInv, TypeOK, RowGoesFirst, connVars, delVars
  <2>1. ASSUME NEW m \in Machines, Enroll(m) PROVE RowGoesFirst'
    BY <2>1 DEF Enroll, ClosersKnowTheirTarget
  <2>2. ASSUME NEW c \in Conns, ConnStep(c) \/ Environment(c) PROVE RowGoesFirst'
    BY <2>2 DEF ConnStep, Environment, HandshakeDone, HandshakeFails, HandleForward,
         CloseVictim, HandleCancel, HandleOther, LoopEnds, Accept, PublicKeyCallback,
         PeerCloses, PeerVanishes, IdleTimeout, SendRequest
  <2>3. ASSUME NEW d \in Deleters, DeleteStep(d) PROVE RowGoesFirst'
    <3>1. CASE \E m \in Machines : DeleteLoads(d, m)
      BY <3>1 DEF DeleteLoads
    <3>2. CASE DeleteRow(d)
      BY <3>2 DEF DeleteRow, ClosersKnowTheirTarget
    <3>3. CASE DeleteRowFails(d)
      BY <3>3 DEF DeleteRowFails, DelIdle, ClosersKnowTheirTarget
    <3>4. CASE RegistryClose(d)
      <4>1. PICK r : /\ del' = [del EXCEPT ![d] = r]
                     /\ r.pc # "idle" => r.m = del[d].m
        BY <3>4 DEF RegistryClose, DelIdle
      <4>2. row[del[d].m] = "deleted" /\ row' = row
        BY <3>4 DEF RegistryClose
      <4>3. QED
        BY <4>1, <4>2
    <3>5. CASE RegistryCloseConn(d)
      BY <3>5 DEF RegistryCloseConn, DelIdle
    <3>6. QED
      BY <2>3, <3>1, <3>2, <3>3, <3>4, <3>5 DEF DeleteStep
  <2>4. ASSUME Restart PROVE RowGoesFirst'
    BY <2>4 DEF Restart, DelIdle
  <2>5. ASSUME UNCHANGED vars PROVE RowGoesFirst'
    BY <2>5 DEF vars
  <2>6. QED
    BY <2>1, <2>2, <2>3, <2>4, <2>5 DEF Next
<1>3. QED
  BY <1>1, <1>2, GateInductive, PTL DEF Spec

\* Machine m goes offline through its own connection, its own cancel or its own
\* deletion.
OwnEnd(m) ==
    tunnels[m] # None /\ tunnels'[m] = None =>
        \/ link'[tunnels[m]] = "closed"
        \/ /\ reqs[tunnels[m]] # <<>> /\ Head(reqs[tunnels[m]]) = "cancel"
           /\ reqs'[tunnels[m]] = Tail(reqs[tunnels[m]])
        \/ row[m] = "deleted"

\* A step that takes a machine's entry out of the registry is that connection's end
\* or its cancel, or follows the machine's deletion.
LEMMA StepOwnEnd ==
    ASSUME IInv, RowGoesFirst, [Next]_vars, NEW m \in Machines
    PROVE  OwnEnd(m)
<1> USE DEF OwnEnd
<1>1. tunnels \in [Machines -> Conns \cup {None}]
  BY DEF IInv, TypeOK
<1>2. CASE UNCHANGED tunnels
  BY <1>2
<1>3. ASSUME NEW c \in Conns, HandleForward(c) PROVE OwnEnd(m)
  BY <1>1, <1>3, NoneAssumption DEF HandleForward, register
<1>4. ASSUME NEW c \in Conns, HandleCancel(c) PROVE OwnEnd(m)
  <2>1. tunnels[m] # None /\ tunnels'[m] = None => tunnels[m] = c
    BY <1>1, <1>4 DEF HandleCancel, unregister
  <2>2. reqs[c] # <<>> /\ Head(reqs[c]) = "cancel" /\ reqs'[c] = Tail(reqs[c])
    BY <1>4 DEF HandleCancel, Dequeue, IInv, TypeOK
  <2>3. QED
    BY <2>1, <2>2
<1>5. ASSUME NEW c \in Conns, LoopEnds(c) PROVE OwnEnd(m)
  BY <1>1, <1>5 DEF LoopEnds, unregister
<1>6. ASSUME NEW d \in Deleters, RegistryClose(d) PROVE OwnEnd(m)
  BY <1>1, <1>6 DEF RegistryClose, RowGoesFirst
<1>7. ASSUME Restart PROVE OwnEnd(m)
  <2>1. tunnels[m] # None => tunnels[m] \in Conns /\ link[tunnels[m]] \in {"open", "closed"}
    BY <1>1 DEF IInv, TypeOK, NoGhostTunnel, KnownPeers
  <2>2. QED
    BY <1>7, <2>1 DEF Restart
<1>8. QED
  BY <1>2, <1>3, <1>4, <1>5, <1>6, <1>7
     DEF Next, ConnStep, Environment, DeleteStep, vars, connVars, delVars, Enroll, HandshakeDone,
         HandshakeFails, CloseVictim, HandleOther, Accept, PublicKeyCallback, PeerCloses,
         PeerVanishes, IdleTimeout, SendRequest, DeleteLoads, DeleteRow, DeleteRowFails,
         RegistryCloseConn

\* A machine goes offline only through its own connection or its own deletion: the
\* cleanup of a replaced connection leaves the replacement alone (unregister's
\* ownership check, and HandleDeleteMachine's order).
THEOREM GateOfflineOnlyByOwnEnd == Spec => OfflineOnlyByOwnEnd
<1>1. IInv /\ RowGoesFirst /\ [Next]_vars => \A m \in Machines : OwnEnd(m)
  BY StepOwnEnd
<1>2. (\A m \in Machines : OwnEnd(m)) =>
      [\A m \in Machines :
         LET c == tunnels[m]
         IN  c # None /\ tunnels'[m] = None
             => \/ link'[c] = "closed"
                \/ reqs[c] # <<>> /\ Head(reqs[c]) = "cancel" /\ reqs'[c] = Tail(reqs[c])
                \/ row[m] = "deleted"]_vars
  BY DEF OwnEnd
<1>3. QED
  BY <1>1, <1>2, GateInductive, RowsGoFirst, PTL DEF Spec, OfflineOnlyByOwnEnd

-----------------------------------------------------------------------------
(* Gate implements Tunnels, step by step.                                   *)

\* Where a connection with loop l, link k and peer p is.
Where(l, k, p) ==
    IF l \in {"none", "auth"} THEN "new"
    ELSE IF l = "done" THEN "gone"
    ELSE IF k = "closed" THEN "closed"
    ELSE IF p = "gone" THEN "zombie"
    ELSE "up"

\* Where says what module Tunnels means by its states.
LEMMA WhereIs ==
    ASSUME NEW l \in {"none", "auth", "serving", "closing", "done"}, NEW k,
           NEW p \in {"live", "gone"}
    PROVE  /\ l \in {"none", "auth"} => Where(l, k, p) = "new"
           /\ l = "done" => Where(l, k, p) = "gone"
           /\ l \in {"serving", "closing"} =>
                 /\ k = "closed" => Where(l, k, p) = "closed"
                 /\ k # "closed" /\ p = "gone" => Where(l, k, p) = "zombie"
                 /\ k # "closed" /\ p = "live" => Where(l, k, p) = "up"
  BY DEF Where

\* Where a connection is before and after a step.
LEMMA ConnStates ==
    ASSUME TypeOK, TypeOK', NEW c \in Conns
    PROVE  /\ connState[c] = Where(loop[c], link[c], peer[c])
           /\ connState'[c] = Where(loop'[c], link'[c], peer'[c])
           /\ loop[c] \in {"none", "auth", "serving", "closing", "done"}
           /\ loop'[c] \in {"none", "auth", "serving", "closing", "done"}
           /\ peer[c] \in {"live", "gone"} /\ peer'[c] \in {"live", "gone"}
<1>1. connState[c] = Where(loop[c], link[c], peer[c])
  BY DEF connState, Where
<1>2. connState'[c] = Where(loop'[c], link'[c], peer'[c])
  BY DEF connState, Where
<1>3. QED
  BY <1>1, <1>2 DEF TypeOK

\* A connection that a step leaves alone is where it was.
LEMMA ConnKept ==
    ASSUME TypeOK, TypeOK', NEW c \in Conns,
           link'[c] = link[c], peer'[c] = peer[c],
           \/ loop'[c] = loop[c]
           \/ loop[c] \in {"none", "auth"} /\ loop'[c] \in {"none", "auth"}
           \/ loop[c] \in {"serving", "closing"} /\ loop'[c] \in {"serving", "closing"}
    PROVE  connState'[c] = connState[c]
  BY ConnStates, WhereIs

\* A step that changes where one connection is, or none.
LEMMA ConnMoves ==
    ASSUME NEW c \in Conns, \A o \in Conns : o # c => connState'[o] = connState[o]
    PROVE  connState' = [connState EXCEPT ![c] = connState'[c]]
<1>1. \A o \in Conns : [connState EXCEPT ![c] = connState'[c]][o] = connState'[o]
  BY DEF connState
<1>2. QED
  BY <1>1 DEF connState

\* A step that moves no connection.
LEMMA ConnsStay ==
    ASSUME \A o \in Conns : connState'[o] = connState[o]
    PROVE  connState' = connState
  BY DEF connState

\* A step of Tunnels, or one that module Tunnels does not see.
ImplStep ==
    T!TunnelsNext \/ UNCHANGED <<row, tunnels, connState, who>>

\* A step that moves at most one connection, the way Tunnels lets it, is a step of
\* Tunnels.
LEMMA ConnGoes ==
    ASSUME NEW c \in Conns, UNCHANGED <<row, tunnels, who>>,
           \A o \in Conns : o # c => connState'[o] = connState[o],
           \/ connState'[c] = connState[c]
           \/ connState[c] = "up" /\ connState'[c] = "zombie"
           \/ connState[c] \in {"up", "zombie"} /\ connState'[c] = "closed"
           \/ connState[c] = "new" /\ who[c] # None /\ connState'[c] \in {"up", "zombie"}
    PROVE  ImplStep
<1>1. connState' = [connState EXCEPT ![c] = connState'[c]]
  BY ConnMoves
<1>2. CASE connState'[c] = connState[c]
  BY <1>2, ConnsStay DEF ImplStep
<1>3. CASE connState[c] = "up" /\ connState'[c] = "zombie"
  <2>1. T!Vanish(c)
    BY <1>1, <1>3 DEF T!Vanish
  <2>2. QED
    BY <2>1 DEF ImplStep, T!TunnelsNext, T!TunnelStep
<1>4. CASE connState[c] \in {"up", "zombie"} /\ connState'[c] = "closed"
  <2>1. T!Close(c)
    BY <1>1, <1>4 DEF T!Close
  <2>2. QED
    BY <2>1 DEF ImplStep, T!TunnelsNext, T!TunnelStep
<1>5. CASE connState[c] = "new" /\ who[c] # None /\ connState'[c] \in {"up", "zombie"}
  <2>1. T!Admit(c)
    BY <1>1, <1>5 DEF T!Admit
  <2>2. QED
    BY <2>1 DEF ImplStep, T!TunnelsNext, T!TunnelStep
<1>6. QED
  BY <1>2, <1>3, <1>4, <1>5

\* The steps of a connection's link, its peer and its handshake, and the closing of
\* a connection from outside, are steps of Tunnels.
LEMMA LinkImpl ==
    ASSUME IInv, TypeOK', NEW c \in Conns, UNCHANGED <<row, tunnels, who>>,
           link' = [link EXCEPT ![c] = "closed"], UNCHANGED peer,
           \A o \in Conns :
              \/ loop'[o] = loop[o]
              \/ loop[o] \in {"serving", "closing"} /\ loop'[o] \in {"serving", "closing"}
    PROVE  ImplStep
<1>1. TypeOK /\ link'[c] = "closed" /\ \A o \in Conns : o # c => link'[o] = link[o]
  BY DEF IInv, TypeOK
<1>2. \A o \in Conns : o # c => connState'[o] = connState[o]
  BY <1>1, ConnKept
<1>3. \/ connState'[c] = connState[c]
      \/ connState[c] \in {"up", "zombie"} /\ connState'[c] = "closed"
  BY <1>1, ConnStates, WhereIs
<1>4. QED
  BY <1>2, <1>3, ConnGoes

\* PeerCloses, PeerVanishes and IdleTimeout are steps of Tunnels.
LEMMA PeerImpl ==
    ASSUME IInv, TypeOK', NEW c \in Conns,
           PeerCloses(c) \/ PeerVanishes(c) \/ IdleTimeout(c)
    PROVE  ImplStep
<1>1. /\ TypeOK /\ link[c] = "open"
      /\ UNCHANGED <<row, tunnels, who>> /\ UNCHANGED loop
      /\ \A o \in Conns : o # c => link'[o] = link[o] /\ peer'[o] = peer[o]
      /\ \/ link'[c] = "closed"
         \/ link'[c] = "open" /\ peer[c] = "live" /\ peer'[c] = "gone"
  BY DEF IInv, TypeOK, PeerCloses, PeerVanishes, IdleTimeout
<1>2. \A o \in Conns : o # c => connState'[o] = connState[o]
  BY <1>1, ConnKept
<1>3. \/ connState'[c] = connState[c]
      \/ connState[c] = "up" /\ connState'[c] = "zombie"
      \/ connState[c] \in {"up", "zombie"} /\ connState'[c] = "closed"
  BY <1>1, ConnStates, WhereIs
<1>4. QED
  BY <1>1, <1>2, <1>3, ConnGoes

\* A step that Tunnels does not see.
LEMMA UnseenImpl ==
    ASSUME IInv, TypeOK', UNCHANGED <<row, tunnels, who, link, peer, loop>>
    PROVE  ImplStep
<1>1. TypeOK
  BY DEF IInv
<1>2. \A o \in Conns : connState'[o] = connState[o]
  BY <1>1, ConnKept
<1>3. QED
  BY <1>2, ConnsStay DEF ImplStep

\* Accepting a connection is not seen, and completing its handshake admits it.
LEMMA AcceptImpl ==
    ASSUME IInv, TypeOK', NEW c \in Conns, Accept(c) \/ HandshakeDone(c)
    PROVE  ImplStep
<1>1. /\ TypeOK /\ UNCHANGED <<row, tunnels, who>> /\ UNCHANGED peer
      /\ \A o \in Conns : o # c => link'[o] = link[o] /\ loop'[o] = loop[o]
      /\ loop[c] \in {"none", "auth"} /\ link'[c] = "open"
      /\ \/ loop'[c] = "auth"
         \/ loop'[c] = "serving" /\ who[c] # None
  BY DEF IInv, TypeOK, KnownPeers, Accept, HandshakeDone
<1>2. \A o \in Conns : o # c => connState'[o] = connState[o]
  BY <1>1, ConnKept
<1>3. \/ connState'[c] = connState[c]
      \/ connState[c] = "new" /\ who[c] # None /\ connState'[c] \in {"up", "zombie"}
  BY <1>1, ConnStates, WhereIs
<1>4. QED
  BY <1>1, <1>2, <1>3, ConnGoes

\* Granting permissions to a key authenticates the connection.
LEMMA PublicKeyCallbackImpl ==
    ASSUME IInv, TypeOK', NEW c \in Conns, NEW u \in Machines, NEW k \in Machines,
           PublicKeyCallback(c, u, k)
    PROVE  ImplStep
<1>1. TypeOK /\ UNCHANGED <<row, tunnels>> /\ UNCHANGED <<link, peer, loop>>
  BY DEF IInv, PublicKeyCallback
<1>2. connState' = connState
  BY <1>1, ConnKept, ConnsStay
<1>3. connState[c] = "new"
  BY <1>1, ConnStates, WhereIs DEF PublicKeyCallback
<1>4. T!Authenticated(c, k)
  BY <1>1, <1>2, <1>3 DEF T!Authenticated, PublicKeyCallback
<1>5. QED
  BY <1>4 DEF ImplStep, T!TunnelsNext, T!TunnelStep

\* A connection whose handshake failed, or whose request loop has ended, retires.
LEMMA RetireImpl ==
    ASSUME IInv, TypeOK', NEW c \in Conns, HandshakeFails(c) \/ LoopEnds(c)
    PROVE  ImplStep
<1>1. /\ TypeOK /\ UNCHANGED <<row, who>> /\ UNCHANGED peer
      /\ \A o \in Conns : o # c => link'[o] = link[o] /\ loop'[o] = loop[o]
      /\ loop'[c] = "done"
      /\ \/ loop[c] = "auth"
         \/ loop[c] = "serving" /\ link[c] = "closed"
  BY DEF IInv, TypeOK, HandshakeFails, LoopEnds
<1>2. \A o \in Conns : o # c => connState'[o] = connState[o]
  BY <1>1, ConnKept
<1>3. connState[c] \in {"new", "closed"} /\ connState'[c] = "gone"
  BY <1>1, ConnStates, WhereIs
<1>4. connState' = [connState EXCEPT ![c] = "gone"]
  BY <1>2, <1>3, ConnMoves
<1>5. tunnels' = [m \in Machines |-> IF tunnels[m] = c THEN None ELSE tunnels[m]]
  <2>1. tunnels \in [Machines -> Conns \cup {None}]
    BY <1>1 DEF TypeOK
  <2>2. CASE HandshakeFails(c)
    <3>1. \A m \in Machines : tunnels[m] # c
      BY <2>2, NoneAssumption DEF HandshakeFails, IInv, NoGhostTunnel
    <3>2. tunnels' = tunnels
      BY <2>2 DEF HandshakeFails
    <3>3. QED
      BY <2>1, <3>1, <3>2
  <2>3. CASE LoopEnds(c)
    <3>1. \A m \in Machines : tunnels[m] = c => m = who[c]
      BY NoneAssumption DEF IInv, FiledUnderSelf
    <3>2. tunnels' = IF tunnels[who[c]] = c THEN [tunnels EXCEPT ![who[c]] = None] ELSE tunnels
      BY <2>3 DEF LoopEnds, unregister
    <3>3. QED
      BY <2>1, <3>1, <3>2
  <2>4. QED
    BY <2>2, <2>3
<1>6. T!Retire(c)
  BY <1>1, <1>3, <1>4, <1>5 DEF T!Retire
<1>7. QED
  BY <1>6 DEF ImplStep, T!TunnelsNext, T!TunnelStep

\* tcpip-forward registers the connection, and its cancellation makes the machine
\* leave, if the entry is still the connection's.
LEMMA ForwardImpl ==
    ASSUME IInv, TypeOK', NEW c \in Conns, HandleForward(c) \/ HandleCancel(c)
    PROVE  ImplStep
<1>1. /\ TypeOK /\ UNCHANGED <<row, who>> /\ UNCHANGED <<link, peer>>
      /\ loop[c] = "serving" /\ loop'[c] \in {"serving", "closing"}
      /\ \A o \in Conns : o # c => loop'[o] = loop[o]
  BY DEF IInv, TypeOK, HandleForward, HandleCancel, Dequeue
<1>2. connState' = connState
  BY <1>1, ConnKept, ConnsStay
<1>3. PICK m \in Machines : m = who[c]
  BY <1>1 DEF IInv, KnownPeers
<1>4. CASE HandleForward(c)
  <2>1. connState[c] \in {"up", "zombie", "closed"}
    BY <1>1, ConnStates, WhereIs
  <2>2. T!Register(c)
    BY <1>1, <1>2, <1>4, <2>1 DEF T!Register, T!Admitted, HandleForward, register
  <2>3. QED
    BY <2>2 DEF ImplStep, T!TunnelsNext, T!TunnelStep
<1>5. CASE HandleCancel(c) /\ tunnels[m] = c
  <2>1. T!Leave(m)
    BY <1>1, <1>2, <1>3, <1>5, NoneAssumption DEF T!Leave, HandleCancel, unregister
  <2>2. QED
    BY <2>1 DEF ImplStep, T!TunnelsNext, T!TunnelStep
<1>6. CASE HandleCancel(c) /\ tunnels[m] # c
  BY <1>1, <1>2, <1>3, <1>6 DEF ImplStep, HandleCancel, unregister
<1>7. QED
  BY <1>4, <1>5, <1>6

\* A displaced connection, or an unenrolled machine's, is closed by whoever took its
\* entry.
LEMMA CloseImpl ==
    ASSUME IInv, TypeOK',
           \/ \E c \in Conns : CloseVictim(c)
           \/ \E d \in Deleters : RegistryCloseConn(d)
    PROVE  ImplStep
<1>1. CASE \E c \in Conns : CloseVictim(c)
  <2>1. PICK c \in Conns : CloseVictim(c)
    BY <1>1
  <2>2. PICK v \in Conns : v = victim[c]
    BY <2>1 DEF CloseVictim, IInv, ClosersKnowTheirTarget
  <2>3. /\ link' = [link EXCEPT ![v] = "closed"]
        /\ UNCHANGED <<row, tunnels, who>> /\ UNCHANGED peer
        /\ \A o \in Conns :
              \/ loop'[o] = loop[o]
              \/ loop[o] \in {"serving", "closing"} /\ loop'[o] \in {"serving", "closing"}
    BY <2>1, <2>2 DEF CloseVictim, IInv, TypeOK
  <2>4. QED
    BY <2>3, LinkImpl
<1>2. CASE \E d \in Deleters : RegistryCloseConn(d)
  <2>1. PICK d \in Deleters : RegistryCloseConn(d)
    BY <1>2
  <2>2. PICK v \in Conns : v = del[d].t
    BY <2>1 DEF RegistryCloseConn, IInv, ClosersKnowTheirTarget
  <2>3. /\ link' = [link EXCEPT ![v] = "closed"]
        /\ UNCHANGED <<row, tunnels, who>> /\ UNCHANGED peer /\ UNCHANGED loop
    BY <2>1, <2>2 DEF RegistryCloseConn
  <2>4. QED
    BY <2>3, LinkImpl
<1>3. QED
  BY <1>1, <1>2

\* A row is created once, deleted once, and its machine's tunnel leaves.
LEMMA RowImpl ==
    ASSUME IInv, TypeOK', RowGoesFirst,
           \/ \E m \in Machines : Enroll(m)
           \/ \E d \in Deleters : DeleteRow(d) \/ DeleteRowFails(d) \/ RegistryClose(d)
    PROVE  ImplStep
<1>1. TypeOK /\ UNCHANGED connVars
  BY DEF IInv, Enroll, DeleteRow, DeleteRowFails, RegistryClose
<1>2. connState' = connState /\ who' = who
  <2>1. UNCHANGED <<link, peer, loop, who>>
    BY <1>1 DEF connVars
  <2>2. QED
    BY <1>1, <2>1, ConnKept, ConnsStay
<1>3. ASSUME NEW m \in Machines, Enroll(m) PROVE ImplStep
  <2>1. T!RowCreated(m)
    BY <1>2, <1>3 DEF T!RowCreated, Enroll
  <2>2. QED
    BY <2>1 DEF ImplStep, T!TunnelsNext, T!TunnelStep
<1>4. ASSUME NEW d \in Deleters, DeleteRow(d) \/ DeleteRowFails(d) PROVE ImplStep
  <2>1. PICK m \in Machines : m = del[d].m
    BY <1>4 DEF IInv, ClosersKnowTheirTarget, DeleteRow, DeleteRowFails
  <2>2. row \in [Machines -> {"none", "enrolled", "deleted"}] /\ row[m] # "none"
    BY <1>1, <1>4, <2>1 DEF TypeOK, RowGoesFirst, DeleteRow, DeleteRowFails
  <2>3. UNCHANGED tunnels /\ (UNCHANGED row \/ row' = [row EXCEPT ![m] = "deleted"])
    BY <1>4, <2>1 DEF DeleteRow, DeleteRowFails
  <2>4. CASE row[m] = "enrolled" /\ row' = [row EXCEPT ![m] = "deleted"]
    <3>1. T!RowDeleted(m)
      BY <1>2, <2>3, <2>4 DEF T!RowDeleted
    <3>2. QED
      BY <3>1 DEF ImplStep, T!TunnelsNext, T!TunnelStep
  <2>5. CASE row[m] = "deleted" \/ UNCHANGED row
    <3>1. row' = row
      BY <2>2, <2>3, <2>5
    <3>2. QED
      BY <1>2, <2>3, <3>1 DEF ImplStep
  <2>6. QED
    BY <2>2, <2>3, <2>4, <2>5
<1>5. ASSUME NEW d \in Deleters, RegistryClose(d) PROVE ImplStep
  <2>1. PICK m \in Machines : m = del[d].m
    BY <1>5 DEF IInv, ClosersKnowTheirTarget, RegistryClose
  <2>2. tunnels' = [tunnels EXCEPT ![m] = None] /\ row' = row
    BY <1>5, <2>1 DEF RegistryClose
  <2>3. CASE tunnels[m] = None
    <3>1. tunnels' = tunnels
      BY <1>1, <2>2, <2>3 DEF TypeOK
    <3>2. QED
      BY <1>2, <2>2, <3>1 DEF ImplStep
  <2>4. CASE tunnels[m] # None
    <3>1. T!Leave(m)
      BY <1>2, <2>2, <2>4 DEF T!Leave
    <3>2. QED
      BY <3>1 DEF ImplStep, T!TunnelsNext, T!TunnelStep
  <2>5. QED
    BY <2>3, <2>4
<1>6. QED
  BY <1>3, <1>4, <1>5

\* A restart of the relay is one of Tunnels.
LEMMA RestartImpl ==
    ASSUME IInv, TypeOK', Restart
    PROVE  ImplStep
<1>1. TypeOK
  BY DEF IInv
<1>2. \A c \in Conns : /\ connState'[c] \in {"new", "gone"}
                       /\ connState[c] # "new" => connState'[c] = "gone"
  <2> SUFFICES ASSUME NEW c \in Conns
               PROVE  /\ connState'[c] \in {"new", "gone"}
                      /\ connState[c] # "new" => connState'[c] = "gone"
    OBVIOUS
  <2>1. loop'[c] = IF loop[c] = "none" THEN "none" ELSE "done"
    BY DEF Restart
  <2>2. QED
    BY <1>1, <2>1, ConnStates, WhereIs
<1>3. connState' \in [Conns -> {"new", "gone"}]
  <2>1. connState' = [c \in Conns |-> connState'[c]]
    BY DEF connState
  <2>2. QED
    BY <1>2, <2>1
<1>4. T!TunnelsRestart
  BY <1>2, <1>3 DEF T!TunnelsRestart, Restart
<1>5. QED
  BY <1>4 DEF ImplStep, T!TunnelsNext

\* Every step of the gateway is a step of Tunnels.
LEMMA StepImpl ==
    ASSUME IInv, RowGoesFirst, TypeOK', [Next]_vars
    PROVE  ImplStep
<1>1. ASSUME NEW c \in Conns, ConnStep(c) PROVE ImplStep
  <2>1. CASE HandleOther(c)
    BY <2>1, UnseenImpl DEF HandleOther
  <2>2. QED
    BY <1>1, <2>1, AcceptImpl, RetireImpl, ForwardImpl, CloseImpl DEF ConnStep
<1>2. ASSUME NEW c \in Conns, Environment(c) PROVE ImplStep
  <2>1. ASSUME NEW r \in Requests, SendRequest(c, r) PROVE ImplStep
    BY <2>1, UnseenImpl DEF SendRequest
  <2>2. QED
    BY <1>2, <2>1, AcceptImpl, PublicKeyCallbackImpl, PeerImpl DEF Environment
<1>3. ASSUME NEW d \in Deleters, DeleteStep(d) PROVE ImplStep
  <2>1. ASSUME NEW m \in Machines, DeleteLoads(d, m) PROVE ImplStep
    BY <2>1, UnseenImpl DEF DeleteLoads, connVars
  <2>2. QED
    BY <1>3, <2>1, RowImpl, CloseImpl DEF DeleteStep
<1>4. CASE UNCHANGED vars
  BY <1>4, UnseenImpl DEF vars, connVars
<1>5. QED
  BY <1>1, <1>2, <1>3, <1>4, RowImpl, RestartImpl DEF Next

\* The gateway's goroutines, buffers and critical sections, however they interleave,
\* do to the registry, the rows and the connections only what module Tunnels
\* promises the rest of the relay: the safety part of GateImplementsTunnels.
THEOREM GateRefinesTunnels == Spec => T!TunnelsSafety
<1>1. Init => T!TunnelsInit
  BY DEF Init, T!TunnelsInit, connState
<1>2. IInv /\ RowGoesFirst /\ IInv' /\ [Next]_vars => [T!TunnelsNext]_(T!tunnelVars)
  <2>1. IInv' => TypeOK'
    BY DEF IInv
  <2>2. IInv /\ RowGoesFirst /\ IInv' /\ [Next]_vars => ImplStep
    BY <2>1, StepImpl
  <2>3. ImplStep => [T!TunnelsNext]_(T!tunnelVars)
    BY DEF ImplStep, T!tunnelVars
  <2>4. QED
    BY <2>2, <2>3
<1>3. QED
  BY <1>1, <1>2, GateInductive, RowsGoFirst, PTL DEF Spec, T!TunnelsSafety
=============================================================================
