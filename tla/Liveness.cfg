\* Three rows and two workers without the runtime, two rows and one worker
\* with it; one crash.
CONSTANTS
    Evals = {1, 2, 3}
    Workers = {w1, w2}
    Alone = w1
    NoWorker = NoWorker
    Kinds <- LivenessKinds
    Limits <- TickLimits
    MaxWorkers = 2
    MaxHeavy = 1
    LightBypassLimit = 1
    MaxAttempts = 2
    BoundedBypass = TRUE
    JobObject = TRUE
    MaxCrashes = 1
    MinWorkers = 1
    SoftQueue = 2
    HardQueue = 3
    Hosts <- AllHosts
    RuntimeEnabled = TRUE
    Feedback = TRUE
    CriticalHoldAll = TRUE
SPECIFICATION LivenessSpec
PROPERTIES QueueDecides RuntimeDecides
