\* Two workers, one job.
CONSTANTS
    Jobs = {j1}
    NoJob = NoJob
    Workers = {w1, w2}
    NoWorker = NoWorker
    Artifacts = {"good", "transient", "poison"}
    MaxAttempts = 2
    MaxCrashes = 0
SPECIFICATION Spec
SYMMETRY Symmetry
INVARIANT SucceededIsDurable
