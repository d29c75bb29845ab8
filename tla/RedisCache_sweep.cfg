\* Two concurrent sweeps over the two keys of one tenant, while every command of
\* every other process runs between their SCANs and DELs.
CONSTANTS
    Users = {u1, u2}
    Tenants = {t1}
    Perms = {p}
    Nil = Nil
    Null = Null
    Garbage = Garbage
    Sweeps = {i1, i2}
    TTLSeconds = 1
    HeliosTTL = 0
    Absent = Absent
SPECIFICATION Spec
SYMMETRY Symmetric
INVARIANTS
    TenantPurged
    IInv
PROPERTIES
    RefinesContract
