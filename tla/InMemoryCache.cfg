\* Two callers, a user, and two tenants of which one id ends with the other.
CONSTANTS
    Chars <- MCChars
    Colon = ":"
    Users <- MCUsers
    Tenants <- MCTenants
    KeyPrefix <- MCKeyPrefix
    Callers = {c1, c2}
    Perms = {p, q}
    Addrs = {x1, x2, x3, x4, x5}
    Nil = Nil
SPECIFICATION Spec
SYMMETRY CallerSymmetry
INVARIANTS
    TypeOK
    NoAliasing
PROPERTIES
    RefinesContract
