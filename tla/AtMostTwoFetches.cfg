\* Three concurrent calls for one key; no fetch fails and nothing is dropped.
CONSTANTS
    Calls = {c1, c2, c3}
    Clients = {p1}
    Users = {u1}
    Tenants = {t1}
    MaxRev = 0
    Disturbances = {}
    FetchTimeout = 0
    ClientTimeout = 0
    NoClient = NoClient
    None = None
    Error = Error
    ByContract = ByContract
SPECIFICATION Spec
INVARIANT AtMostTwoFetches
\* Every call is made once and revisions are bounded, so the system stops.
CHECK_DEADLOCK FALSE
