\* One host whose user enrolls it again.
CONSTANTS
    Hosts = {h1}
    Keys = {k1, k2}
    Names = {n1}
    Runs = {e1}
    Accounts = {a1, a2}
    Logins = {l1}
    None = None
    Torn = Torn
SPECIFICATION Spec
INVARIANT KeyMatchesConfig
