\* Two requests at a time, one name, two days, one backup kept.
SPECIFICATION Spec
CONSTANTS
    Call = {c1, c2}
    ManualName = {n1}
    Table = {t1, t2}
    RestoredTable = {t1}
    retentionDaily = 1
    MaxRequests = 4
    MaxDay = 2
    MaxFaults = 1
SYMMETRY CallSymmetry
INVARIANTS TypeOK CompletedHasDump DumpIsItsOwn SnapshotHeld RestoredIsTrue
PROPERTIES ProtectedKept RetentionKeepsNewest FailedDayStaysLost
CHECK_DEADLOCK FALSE
