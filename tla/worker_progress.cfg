\* Two runs that compete for a target; two calls may fail.
SPECIFICATION FairSpec
CONSTANTS
    Run = {r1, r2}
    Target = {t1}
    Workflow = {w1}
    NoRun = NoRun
    NoTarget = NoTarget
    DefaultTimeout = 0
    Threshold = 1
    Cooldown = 0
    Plans <- ProgressPlans
    TotalTimeout = 0
    MaxTime = 1
    MaxFaults = 2
    MaxCrashes = 0
PROPERTIES EveryRunEnds TargetComesFree
