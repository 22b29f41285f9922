\* Two requests at a time, two days, no failing call.
SPECIFICATION Spec
CONSTANTS
    Call = {c1, c2}
    ManualName = {n1}
    Table = {t1}
    RestoredTable = {t1}
    retentionDaily = 1
    MaxRequests = 3
    MaxDay = 2
    MaxFaults = 0
PROPERTIES ProtectedNeverPruned
CHECK_DEADLOCK FALSE
