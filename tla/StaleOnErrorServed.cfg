\* One fetch, which fails, and one role change that is written through meanwhile.
CONSTANTS
    Calls = {c1}
    Clients = {p1}
    Users = {u1}
    Tenants = {t1}
    MaxRev = 1
    Disturbances = {"change", "helios"}
    FetchTimeout = 0
    ClientTimeout = NoClient
    NoClient = NoClient
    None = None
    Error = Error
    ByContract = ByContract
SPECIFICATION Spec
PROPERTY StaleOnErrorServed
\* Every call is made once and revisions are bounded, so the system stops.
CHECK_DEADLOCK FALSE
