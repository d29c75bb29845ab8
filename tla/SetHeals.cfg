\* One key that Helios and the SDK both write.
CONSTANTS
    Users = {u1}
    Tenants = {t1}
    Perms = {p}
    Nil = Nil
    Null = Null
    Garbage = Garbage
    Sweeps = {}
    TTLSeconds = 0
    HeliosTTL = 0
    Absent = Absent
SPECIFICATION Spec
INVARIANT SetHeals
