\* Ingestion: two workers on two jobs, every kind of artifact, one crash.
\* Most components come to rest: nothing is left to chunk, ask or evaluate.
CONSTANTS
    Jobs = {j1, j2}
    NoJob = NoJob
    Workers = {w1, w2}
    NoWorker = NoWorker
    Artifacts = {"good", "transient", "poison"}
    MaxAttempts = 2
    MaxCrashes = 1
    RawLines = {"h1", "h2", "fence", "def", "hash", "list", "indent", "words",
                "long", "padded", "spaces"}
    MaxLines = 3
    Budgets = {4, 9}
    ChunkIds = {1, 2, 3}
    IndexJobs = {"j1", "j2"}
    Profiles <- RetrievalProfiles
    MaxK = 2
    Runners = {"r1", "r2"}
    Nobody = "nobody"
    Labels = {"easy_fail", "ambiguous_pass", "hard_pass", "hard_fail",
              "adversarial_pass", "adversarial_fail", "unlabelled"}
    Modes = {"legacy", "always_expensive", "fixed_progressive",
             "resource_aware_adaptive"}
    MaxClaims = 2
    MaxStops = 1
    Organizers = {"org1", "org2"}
    Participants = {"p1", "p2"}
    Stranger = "nobody"
    NoOwner = NoOwner
    BusyDepth = 1
    SaturatedDepth = 2
    CriticalDepth = 2
    MaxAge = 1
    Asked = {"none", "light", "Large_Stdout", "MEMORY_GROW", "child_process",
             "PROCESS_HEAVY", "TIMEOUT", "disk_heavy", "FAILURE", "unheard_of"}
    Children = {"c1", "c2"}
    JobObjectsHere = TRUE
    OutputCap = 1
    MaxProcessCount = 2
    RetainOnFailure = TRUE
    MaxExecutions = 2
    Scripts = {"isolated", "hard_mix", "feedback", "hotpath", "capacity"}
    MaxScenarios = 2
    TableSize = 2
SPECIFICATION ComponentsSpec
SYMMETRY Symmetry
CHECK_DEADLOCK FALSE
INVARIANTS ComponentTypes FencedByWorkerId DecidedAsTruth StagesAccounted
           ChunkingFaithful RetrievalSound SchemaSound AnswersAreAuthorized
           ViewsAreOfTheQueue  HarnessIsolates
PROPERTIES ImplementsLifecycle
