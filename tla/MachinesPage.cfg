\* Two users who come back from a provider, one with a machine, and the dev user with
\* one; two requests that overtake each other.
CONSTANTS
    u1 = u1
    dev = dev
    m1 = m1
    m2 = m2
    Users = {u1, u2, dev}
    Dev = dev
    Machines = {m1, m2}
    Owner <- OneEach
    Fetches = {r1, r2}
    MaxChanges = 2
    Null = Null
SPECIFICATION PageFairSpec
INVARIANT PageTypeOK
INVARIANT NoForeignList
PROPERTY ListConverges
