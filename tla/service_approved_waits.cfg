\* A request is approved in time.
SPECIFICATION FairSpec
CONSTANTS
    Call = {c1}
    Decider = {d1}
    Editor = {}
    Policy = {p1}
    User = {u1, u2}
    NoUser = NoUser
    NoCall = NoCall
    MaxVersion = 1
    MaxFaults = 0
PROPERTIES ApprovedRunsGoOn
