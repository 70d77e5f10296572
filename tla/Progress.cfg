\* Ingestion: one worker process at a time, which may crash twice.
CONSTANTS
    Jobs = {j1, j2}
    NoJob = NoJob
    Workers = {w1}
    NoWorker = NoWorker
    Artifacts = {"good", "transient", "poison"}
    MaxAttempts = 3
    MaxCrashes = 2
    Calls = {c1, c2, c3}
    Keys = {k1, k2}
    NoCall = NoCall
    Latencies = {1, 3, 5}
    CalmMs = 1
    RecoveryMs = 2
    WarnMs = 3
    CriticalMs = 5
    MinSamples = 2
    SustainTicks = 1
    CooldownTicks = 1
    WindowTicks = 0
    MaxSamples = 2
    MinDelta = 2
    MaxFaults = 1
    NoMs = NoMs
    Never = Never
SPECIFICATION ProgressSpec
CHECK_DEADLOCK FALSE
INVARIANTS ProgressTypes SucceededIsDurable OneComputationPerKey
PROPERTIES JobsDecided JoinersGoOn CalmRecovers LevelEarned
