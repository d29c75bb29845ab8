\* Three calls, two slots: a leader, a follower or a call that arrives in the
\* window between close and delete, and a second slot.
CONSTANTS
    Calls = {c1, c2, c3}
    Slots = {s1, s2}
    Results = {ok, err}
    None = None
SPECIFICATION FairSpec
INVARIANTS
    TypeOK
    OneFlightPerSlot
    MapHoldsLiveEntries
    OwnKeyResult
    IInv
PROPERTIES
    RefinesSharedFetch
    EveryCallerReleased
    SlotsFreed
\* Every call is made once, so the system stops when all have returned.
CHECK_DEADLOCK FALSE
