\* The version changes between the risk check and the worker's read, under a
\* policy that asks for approvals.
SPECIFICATION Spec
CONSTANTS
    Call = {c1}
    Decider = {}
    Editor = {e1}
    Policy = {p1}
    User = {u1, u2}
    NoUser = NoUser
    NoCall = NoCall
    MaxVersion = 2
    MaxFaults = 0
PROPERTIES HighRiskIsApproved
