\* Two logins whose codes may be mixed up, a provider chosen twice, two callbacks.
CONSTANTS
    Ids = {s1, s2}
    Providers = {p1}
    Verifiers = {v1, v2}
    Callbacks = {h1, h2}
    devMode = TRUE
    None = None
SPECIFICATION FairSpec
INVARIANT TypeOK
INVARIANT TokenIsOfLogin
INVARIANT HandedOnce
PROPERTY SuccessIsHonest
PROPERTY SessionsExpire
