\* Two instances that share an injected Redis or http.Client or own theirs, and
\* three Close calls: two that race and one that comes after or joins late.
CONSTANTS
    Instances = {i1, i2}
    Closers = {c1, c2, c3}
    Timeouts = {0, 1}
    Injected = Injected
    None = None
SPECIFICATION FairSpec
INVARIANTS
    TypeOK
    NoOrphan
    UsableUntilClosed
    ClosedWhenAllReturned
    IdempotentClose
    TimeoutKept
    IInv
PROPERTY CreateReturns
\* Every instance is created once and every Close call is made once.
CHECK_DEADLOCK FALSE
