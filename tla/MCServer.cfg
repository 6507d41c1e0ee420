CONSTANTS
    Req = {r1, r2}
    Id = {i1}
    Span <- Two
    Kind <- Two
    Asks <- AllButOne
    Booking = {k1}
    Faulty = {r2}
    None = None
    NoRow = NoRow
    Invalid = Invalid
SPECIFICATION ServerFairSpec
INVARIANTS ServerTypeOK LifecycleInv NobodyCutInTime RowsWhole GoneForGood DeletedOnce OwnWriteSeen OrphanOnlyWhenCut
PROPERTIES StopsWhenTold EveryoneAnswered
CHECK_DEADLOCK FALSE
