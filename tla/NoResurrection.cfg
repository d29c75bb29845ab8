\* One slow fetch and one removal.
CONSTANTS
    Calls = {c1}
    Clients = {p1}
    Users = {u1}
    Tenants = {t1}
    MaxRev = 1
    Disturbances = {"remove"}
    FetchTimeout = 0
    ClientTimeout = NoClient
    NoClient = NoClient
    None = None
    Error = Error
    ByContract = ByContract
SPECIFICATION Spec
INVARIANT NoResurrection
\* Every call is made once and revisions are bounded, so the system stops.
CHECK_DEADLOCK FALSE
