\* Every answer with at most two listed permissions, repeated ones included, and
\* every order of the three operations.
CONSTANTS
    Nil = Nil
    Error = Error
    MaxListed = 2
SPECIFICATION Spec
INVARIANTS
    TypeOK
    GrantedOnlyByHelios
    OperationsAgree
    ListedIsAllowed
    ErrorsAreNotVerdicts
\* Each operation is called once.
CHECK_DEADLOCK FALSE
