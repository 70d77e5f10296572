\* Quiet hosts and a queue that reaches the hard depth.
CONSTANTS
    Evals = {1, 2}
    Workers = {w1, w2}
    NoWorker = NoWorker
    Kinds <- HeavyKinds
    Limits <- TickLimits
    MaxWorkers = 2
    MaxHeavy = 1
    LightBypassLimit = 1
    MaxAttempts = 1
    BoundedBypass = TRUE
    JobObject = TRUE
    MaxCrashes = 0
    MinWorkers = 1
    SoftQueue = 1
    HardQueue = 2
    Hosts <- QuietHosts
    RuntimeEnabled = TRUE
    Feedback = TRUE
    CriticalHoldAll = FALSE
SPECIFICATION RuntimeFairSpec
PROPERTIES DecidedOnceCalm
