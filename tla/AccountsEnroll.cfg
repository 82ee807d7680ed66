\* One key of an account, used to enroll a machine.
CONSTANTS
    a1 = a1
    a2 = a2
    p1 = p1
    p2 = p2
    e1 = e1
    Accounts = {a1, a2}
    Providers = {p1, p2}
    ProviderOf <- MCProviderOf
    Emails = {e1}
    EmailOf <- MCEmailOf
    KeyIds = {k1}
    Secrets = {s1}
    Requests = {r1}
    NoEmail = NoEmail
    None = None
SPECIFICATION Spec
INVARIANT EnrolledUnderOwnAccount
