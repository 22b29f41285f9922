\* Two runs of one workflow on one target: leases of one tick, a timeout of
\* one, a failing call and a crash.
SPECIFICATION Spec
CONSTANTS
    Run = {r1, r2}
    Target = {t1}
    Workflow = {w1}
    NoRun = NoRun
    NoTarget = NoTarget
    DefaultTimeout = 1
    Threshold = 1
    Cooldown = 1
    Plans <- LeasePlans
    TotalTimeout = 1
    MaxTime = 3
    MaxFaults = 1
    MaxCrashes = 1
SYMMETRY RunSymmetry
INVARIANTS TypeOK LeaseHeld LeaseExclusion LockNotLeaked BreakerCountsVerdicts
PROPERTIES NoForeignRelease ImplementsLeases BreakerClosesForAReason
           TerminalIsFinal
