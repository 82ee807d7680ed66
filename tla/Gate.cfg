\* Two machines, two connections that may authenticate as either and compete for
\* one machine's entry, one DELETE request.
CONSTANTS
    Machines = {m1, m2}
    Conns = {c1, c2}
    Deleters = {d1}
    ReqBuf = 1
    None = None
SPECIFICATION FairSpec
INVARIANT TypeOK
INVARIANT AuthenticTunnel
INVARIANT NoGhostTunnel
INVARIANT NoStrandedTunnel
PROPERTY OfflineOnlyByOwnEnd
PROPERTY DeadTunnelLeaves
PROPERTY GateImplementsTunnels
