\* Three calls of one process for two users in two tenants: shared fetches, late
\* joiners, second fetches and fetches of other keys, while Helios may never
\* answer.
CONSTANTS
    Calls = {c1, c2, c3}
    Clients = {p1}
    Users = {u1, u2}
    Tenants = {t1, t2}
    MaxRev = 0
    Disturbances = {}
    FetchTimeout = 0
    ClientTimeout = NoClient
    NoClient = NoClient
    None = None
    Error = Error
    ByContract = ByContract
SPECIFICATION FairSpec
INVARIANT AnswersOwnKey
PROPERTY EveryCallReturns
\* Every call is made once, so the system stops.
CHECK_DEADLOCK FALSE
