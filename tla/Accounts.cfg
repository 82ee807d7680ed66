\* Two requests and two keys, so that a key can be made with another one while
\* either is revoked or the relay restarts.
CONSTANTS
    a1 = a1
    a2 = a2
    p1 = p1
    p2 = p2
    e1 = e1
    Accounts = {a1, a2}
    Providers = {p1, p2}
    ProviderOf <- MCProviderOf
    Emails = {e1}
    EmailOf <- MCEmailOf
    KeyIds = {k1, k2}
    Secrets = {s1, s2}
    Requests = {r1, r2}
    NoEmail = NoEmail
    None = None
SYMMETRY Symmetry
SPECIFICATION Spec
INVARIANT RevokedStaysOut
INVARIANT HandedKeyWorks
INVARIANT KeyNamesItsMaker
