\* Two rows, two requests at a time, two addresses, a known and a new device.
SPECIFICATION Spec
CONSTANTS
    m1 = m1
    m2 = m2
    i1 = i1
    Call = {c1, c2}
    Scan = {s1, s2}
    Ip = {i1, i2}
    Machine = {m1, m2}
    Nowhere = Nowhere
    Inventory <- SmallInventory
    MaxRequests = 2
    MaxFaults = 1
INVARIANTS TypeOK CancelAcknowledged CompletedIsWhole SeenButOffline
PROPERTIES ScansEnd
CHECK_DEADLOCK FALSE
