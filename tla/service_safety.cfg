\* One call, two racing decisions, two racing edits, one policy that changes.
SPECIFICATION Spec
CONSTANTS
    Call = {c1}
    Decider = {d1, d2}
    Editor = {e1, e2}
    Policy = {p1}
    User = {u1, u2}
    NoUser = NoUser
    NoCall = NoCall
    MaxVersion = 3
    MaxFaults = 1
SYMMETRY ActorSymmetry
INVARIANTS TypeOK FourEyes UnapprovedHighRiskExplained ApprovalGates
PROPERTIES LateDecisionLoses NoLostEdit
