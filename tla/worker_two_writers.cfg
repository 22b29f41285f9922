\* The lease of one run ends while it is at work.
SPECIFICATION Spec
CONSTANTS
    Run = {r1, r2}
    Target = {t1}
    Workflow = {w1}
    NoRun = NoRun
    NoTarget = NoTarget
    DefaultTimeout = 1
    Threshold = 1
    Cooldown = 1
    Plans <- LeasePlans
    TotalTimeout = 2
    MaxTime = 2
    MaxFaults = 0
    MaxCrashes = 0
SYMMETRY RunSymmetry
INVARIANTS NoConcurrentWriters
