CONSTANTS
    owner = owner
    Machines = {m1}
    Tenants = {owner, stranger}
    TenantOf <- MCTenantOf
    Conns = {c1, c2}
    Sessions = {b1, b2}
    maxBridgesPerMachine = 1
    None = None
SPECIFICATION FairSpec
INVARIANT TypeOK
INVARIANT CountsAreHolders
INVARIANT CapPerMachine
INVARIANT TenantIsolation
PROPERTY SlotIsReleased
