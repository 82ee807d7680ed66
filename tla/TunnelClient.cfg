\* Two channels and three failures: enough for a failure in every phase of a
\* connection and another one while the next is being built.  Two host keys: a
\* restart that generated another one would show.
CONSTANTS
    Chans = {c1, c2}
    MaxFaults = 3
    HostKeys = {k1, k2}
    None = None
    Torn = Torn
SPECIFICATION FairSpec
INVARIANT TypeOK
INVARIANT SessionsAreDrained
INVARIANT PinKeepsWorking
PROPERTY TunnelRecovers
PROPERTY CancelStops
