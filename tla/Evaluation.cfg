\* Two workers; three rows that are scheduled, two that are executed, two
\* under the runtime; one crash.
CONSTANTS
    Evals = {1, 2, 3}
    Workers = {w1, w2}
    NoWorker = NoWorker
    Kinds <- EvaluationKinds
    Limits <- TickLimits
    MaxWorkers = 2
    MaxHeavy = 1
    LightBypassLimit = 1
    MaxAttempts = 2
    BoundedBypass = TRUE
    JobObject = FALSE
    MaxCrashes = 1
    MinWorkers = 1
    SoftQueue = 2
    HardQueue = 3
    Hosts <- CpuHosts
    RuntimeEnabled = TRUE
    Feedback = TRUE
    CriticalHoldAll = FALSE
SPECIFICATION EvaluationSpec
SYMMETRY WorkerSymmetry
INVARIANTS ConcurrencyBound BypassStreakBound TypeOK AttemptBound
    RecordedProcessIsCurrent FencedByWorkerId RuntimeTypeOK
PROPERTIES NoLateResult TerminalIsFinal NoHeavyWhenDegraded AdaptiveBound
    ImplementsLifecycle ImplementsQueue
