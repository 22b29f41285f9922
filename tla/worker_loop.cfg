\* One run through every branch of the step loop, with two failing calls.
SPECIFICATION Spec
CONSTANTS
    Run = {r1}
    Target = {t1}
    Workflow = {w1}
    NoRun = NoRun
    NoTarget = NoTarget
    DefaultTimeout = 1
    Threshold = 1
    Cooldown = 1
    Plans <- LoopPlans
    TotalTimeout = 1
    MaxTime = 3
    MaxFaults = 2
    MaxCrashes = 1
INVARIANTS SuccessIsHonest ConditionsRespected
