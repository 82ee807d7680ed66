\* One host whose user runs two enrolls and two logins at once, signed in as either
\* of two accounts, and two names to collide on.
CONSTANTS
    Hosts = {h1}
    Keys = {k1, k2}
    Names = {n1, n2}
    Runs = {e1, e2}
    Accounts = {a1, a2}
    Logins = {l1, l2}
    None = None
    Torn = Torn
SYMMETRY Symmetry
SPECIFICATION Spec
INVARIANT TypeOK
INVARIANT EnrolledIsUsable
INVARIANT ConfigNamesARow
INVARIANT EnrolledAsSignedIn
