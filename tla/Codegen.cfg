\* Two services of which any may be declared, names and roles whose identifiers
\* collide, every scope and one misspelt scope, runs of the generator on two days.
CONSTANTS
    Services = {s1, s2}
    RoleNames <- MCRoleNames
    Entries <- MCEntries
    Days = {d1, d2}
    MaxSize = 3
    Error = Error
SYMMETRY Symmetric
SPECIFICATION Spec
INVARIANTS
    TypeOK
    TablesMatchContract
    GrantsAreDeclared
    UniversalIsGranted
PROPERTIES
    
    DiffStable
