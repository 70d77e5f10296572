\* One synthetic evaluation, one worker id, one crash, no Job Object.
CONSTANTS
    Evals = {1}
    Workers = {w1}
    NoWorker = NoWorker
    Kinds <- SyntheticKinds
    Limits <- FixedLimits
    MaxWorkers = 2
    MaxHeavy = 1
    LightBypassLimit = 1
    MaxAttempts = 2
    BoundedBypass = TRUE
    JobObject = FALSE
    MaxCrashes = 1
SPECIFICATION Spec
INVARIANT AtMostOneExecution
