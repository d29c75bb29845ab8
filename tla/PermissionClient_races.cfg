\* Two processes read one key while Helios changes it twice and commands, fetches
\* and contexts fail: every race of a fill with a write-through or a drop.
CONSTANTS
    Calls = {c1, c2}
    Clients = {p1, p2}
    Users = {u1}
    Tenants = {t1}
    MaxRev = 2
    Disturbances = {"change", "remove", "event", "tenant", "redis", "helios", "cancel", "expire"}
    FetchTimeout = 0
    ClientTimeout = NoClient
    NoClient = NoClient
    None = None
    Error = Error
    ByContract = ByContract
SPECIFICATION Spec
SYMMETRY Symmetric
INVARIANTS
    TypeOK
    SettledEntryIsCurrent
    AnswersWithinWindow
    IInv
PROPERTY CacheNeverGoesBack
\* Every call is made once and revisions are bounded, so the system stops.
CHECK_DEADLOCK FALSE
