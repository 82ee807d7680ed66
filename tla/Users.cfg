CONSTANTS
    Identities = {i1, i2}
    Emails = {e1}
    TenantIds = {t1, t2, t3}
    Calls = {k1, k2}
    NoEmail = NoEmail
    None = None
SPECIFICATION FairSpec
INVARIANT TypeOK
INVARIANT TenantsArePersonal
PROPERTY TenantIsForever
PROPERTY UsersImplementDirectory
PROPERTY CallReturns
