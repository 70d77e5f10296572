------------------------- MODULE ExperimentHarness -------------------------
(***************************************************************************)
(* How the load experiments under scripts/ run their scenarios: the        *)
(* harness process starts an API server, recreates the database before     *)
(* every scenario, enqueues evaluations, starts a pool of workers in       *)
(* another process (in capacity: tasks of its own loop), drives            *)
(* interactive load while a task may go on enqueueing, stops the pool and  *)
(* reports the rows it finds.  Any call may raise; the results are written *)
(* only by a run in which none did.                                        *)
(*                                                                         *)
(* The requests of the load, which change no evaluation, and the figures   *)
(* computed from the rows, other than their counts, are left out.          *)
(***************************************************************************)
EXTENDS Naturals, Sequences, FiniteSets

CONSTANTS
    Scripts,       \* the experiments
    MaxScenarios,  \* bound: scenarios of a plan
    TableSize      \* bound: evaluations of a scenario

ASSUME HarnessAssumption ==
    /\ Scripts \subseteq {"isolated", "hard_mix", "feedback", "hotpath", "capacity"}
    /\ MaxScenarios \in Nat /\ TableSize \in Nat \ {0}

VARIABLES
    script,    \* the experiment being run
    hStep,     \* where the harness is
    scenario,  \* number of the scenario, 0 before the first
    cells,     \* scenarios begun with this server
    load,      \* "none", "pre" (a batch before), "sustained", or "both"
    server,    \* "none", "starting", "up" or "stopped"
    pool,      \* scenarios whose workers exist
    feeder,    \* the enqueueing task: "off", "on", "done" or "failed"
    table,     \* the evaluations of the measured challenge
    emptied,   \* wait_drain saw an empty queue
    reports,   \* what the scenarios returned
    raised,    \* an exception has left a call
    published  \* the results file is written

hVars == <<script, hStep, scenario, cells, load, server, pool, feeder, table,
           emptied, reports, raised, published>>

Slots == 1..TableSize
NoEvaluation == [status |-> "absent", of |-> 0, by |-> 0]
Enqueued(n) == [status |-> "queued", of |-> n, by |-> 0]
EmptyTable == [s \in Slots |-> NoEvaluation]
Having(statuses) == {s \in Slots : table[s].status \in statuses}

\* The calls of one scenario, in the order each experiment makes them.
IsolatedScenario == <<"seeding", "launching", "driving", "stopping",
                      "benching", "measuring">>
HardMixScenario  == <<"seeding", "enqueueing", "launching", "driving",
                      "joining", "draining", "collecting", "stopping">>
FeedbackScenario == <<"seeding", "enqueueing", "launching", "driving",
                      "joining", "draining", "stopping", "collecting">>
HotpathCell      == FeedbackScenario
CapacityScenario == <<"seeding", "enqueueing", "launching", "driving",
                      "joining", "stopping", "collecting">>
Calls == [isolated |-> IsolatedScenario, hard_mix |-> HardMixScenario,
          feedback |-> FeedbackScenario, hotpath |-> HotpathCell,
          capacity |-> CapacityScenario]

\* What the pressure levels and datasets of an experiment may ask for.
LoadsOf == [isolated |-> {"none", "pre"}, hard_mix |-> {"pre", "sustained"},
            feedback |-> {"pre", "sustained"}, hotpath |-> {"pre", "sustained"},
            capacity |-> {"none", "pre", "both"}]

InScenario == \E i \in DOMAIN Calls[script] : Calls[script][i] = hStep
NextCall ==
    LET i == CHOOSE k \in DOMAIN Calls[script] : Calls[script][k] = hStep
    IN  IF i = Len(Calls[script]) THEN "between" ELSE Calls[script][i + 1]

HInit ==
    /\ script \in Scripts
    /\ hStep = "idle" /\ scenario = 0 /\ cells = 0 /\ load = "none"
    /\ server = "none" /\ pool = {} /\ feeder = "off"
    /\ table = EmptyTable /\ emptied = FALSE
    /\ reports = <<>> /\ raised = FALSE /\ published = FALSE

-----------------------------------------------------------------------------
\* The server and the plan.
StartServer ==
    /\ hStep = "idle"
    /\ hStep' = "waiting" /\ server' = "starting" /\ cells' = 0
    /\ UNCHANGED <<script, scenario, load, pool, feeder, table, emptied,
                   reports, raised, published>>

ServerReady ==
    /\ hStep = "waiting"
    /\ hStep' = "between" /\ server' = "up"
    /\ UNCHANGED <<script, scenario, cells, load, pool, feeder, table, emptied,
                   reports, raised, published>>

\* The wait for the server is not inside the try that stops it.
ServerFails ==
    /\ hStep = "waiting"
    /\ hStep' = "ending" /\ raised' = TRUE
    /\ UNCHANGED <<script, scenario, cells, load, server, pool, feeder, table,
                   emptied, reports, published>>

\* Faulty variant: the tables are created only where they are missing
PrepareDatabase_Keeps == UNCHANGED table

\* drop_all and create_all
PrepareDatabase == table' = EmptyTable

BeginScenario ==
    /\ hStep = "between" /\ scenario < MaxScenarios
    /\ hStep' = "seeding" /\ scenario' = scenario + 1 /\ cells' = cells + 1
    /\ load' \in LoadsOf[script]
    /\ PrepareDatabase /\ emptied' = FALSE
    /\ UNCHANGED <<script, server, pool, feeder, reports, raised, published>>

\* The experiments that compare settings start a server for each of them.
NextMode ==
    /\ hStep = "between" /\ script \in {"feedback", "hotpath"}
    /\ cells > 0 /\ scenario < MaxScenarios
    /\ hStep' = "idle" /\ server' = "stopped"
    /\ UNCHANGED <<script, scenario, cells, load, pool, feeder, table, emptied,
                   reports, raised, published>>

\* The plan ends, or a saturated scenario ends it.
FinishPlan ==
    /\ hStep = "between" /\ cells > 0
    /\ hStep' = "writing" /\ server' = "stopped"
    /\ UNCHANGED <<script, scenario, cells, load, pool, feeder, table, emptied,
                   reports, raised, published>>

WriteResults ==
    /\ hStep = "writing"
    /\ hStep' = "ending" /\ published' = TRUE
    /\ UNCHANGED <<script, scenario, cells, load, server, pool, feeder, table,
                   emptied, reports, raised>>

\* The loop cancels its tasks and the daemon processes are terminated.
Exit ==
    /\ hStep = "ending"
    /\ hStep' = "exited" /\ server' = "stopped" /\ pool' = {} /\ feeder' = "off"
    /\ UNCHANGED <<script, scenario, cells, load, table, emptied, reports,
                   raised, published>>

-----------------------------------------------------------------------------
\* The calls of a scenario.
Batch(n) == [s \in Slots |-> IF s <= n THEN Enqueued(scenario) ELSE NoEvaluation]

\* The seeded submissions are evaluated before seed_world returns; the larger
\* datasets of isolated leave queued ones.
SeedWorld ==
    /\ hStep = "seeding"
    /\ hStep' = NextCall
    /\ IF script = "isolated" /\ load = "pre"
       THEN table' = Batch(TableSize) ELSE UNCHANGED table
    /\ UNCHANGED <<script, scenario, cells, load, server, pool, feeder, emptied,
                   reports, raised, published>>

EnqueueBatch ==
    /\ hStep = "enqueueing"
    /\ hStep' = NextCall
    /\ IF load \in {"pre", "both"}
       THEN \E n \in Slots : table' = Batch(n) ELSE UNCHANGED table
    /\ UNCHANGED <<script, scenario, cells, load, server, pool, feeder, emptied,
                   reports, raised, published>>

\* isolated has scenarios without workers
StartWorkers ==
    /\ hStep = "launching"
    /\ hStep' = NextCall
    /\ \/ pool' = pool \cup {scenario}
       \/ script = "isolated" /\ UNCHANGED pool
    /\ feeder' = IF load \in {"sustained", "both"} THEN "on" ELSE "off"
    /\ UNCHANGED <<script, scenario, cells, load, server, table, emptied,
                   reports, raised, published>>

DriveEnds ==
    /\ hStep = "driving"
    /\ hStep' = NextCall
    /\ UNCHANGED <<script, scenario, cells, load, server, pool, feeder, table,
                   emptied, reports, raised, published>>

\* await of the enqueueing task; see Raise for one that failed
JoinFeeder ==
    /\ hStep = "joining" /\ feeder \in {"off", "done"}
    /\ hStep' = NextCall /\ feeder' = "off"
    /\ UNCHANGED <<script, scenario, cells, load, server, pool, table, emptied,
                   reports, raised, published>>

\* wait_drain returns with an empty queue or when its time is up
WaitDrain ==
    /\ hStep = "draining"
    /\ hStep' = NextCall
    /\ \/ Having({"queued", "running"}) = {} /\ emptied' = TRUE
       \/ emptied' = FALSE
    /\ UNCHANGED <<script, scenario, cells, load, server, pool, feeder, table,
                   reports, raised, published>>

\* Faulty variant: the event is set, nothing waits
StopProcess_Asks(n) == UNCHANGED pool

\* Asked to stop, then terminated, then killed: it is gone when this returns.
StopProcess(n) == pool' = pool \ {n}

\* capacity's workers are tasks that end their evaluation first
StopWorkers ==
    /\ hStep = "stopping"
    /\ script = "capacity" => \A s \in Slots : table[s].status # "running"
    /\ hStep' = NextCall
    /\ StopProcess(scenario)
    /\ UNCHANGED <<script, scenario, cells, load, server, feeder, table, emptied,
                   reports, raised, published>>

\* collect_evaluation_quality: the rows of the measured challenge as they are
\* now, and how many of them are decided and undecided.
Quality == [of |-> scenario, rows |-> table,
            completed |-> Cardinality(Having({"succeeded", "failed"})),
            stranded |-> Cardinality(Having({"queued", "running"}))]

Collect ==
    /\ hStep = "collecting"
    /\ hStep' = NextCall
    /\ reports' = Append(reports, Quality)
    /\ UNCHANGED <<script, scenario, cells, load, server, pool, feeder, table,
                   emptied, raised, published>>

\* queue_position_bench replaces the rows by a queue of its own ...
BenchInserts ==
    /\ hStep = "benching"
    /\ hStep' = NextCall
    /\ table' = Batch(TableSize)
    /\ UNCHANGED <<script, scenario, cells, load, server, pool, feeder, emptied,
                   reports, raised, published>>

\* ... and times queue_position of its last row, behind the others.
BenchMeasures ==
    /\ hStep = "measuring"
    /\ hStep' = NextCall
    /\ reports' = Append(reports, Quality)
    /\ UNCHANGED <<script, scenario, cells, load, server, pool, feeder, table,
                   emptied, raised, published>>

\* Any call of a scenario may raise.  The server is stopped on the way out;
\* the workers only where the calls are inside a try that stops them.
Raise ==
    /\ InScenario
    /\ hStep' = "ending" /\ raised' = TRUE /\ server' = "stopped"
    /\ IF \/ script = "isolated" /\ hStep = "driving"
          \/ script = "capacity" /\ hStep \in {"driving", "joining"}
       THEN StopProcess(scenario) /\ feeder' = "off"
       ELSE UNCHANGED <<pool, feeder>>
    /\ UNCHANGED <<script, scenario, cells, load, table, emptied, reports,
                   published>>

-----------------------------------------------------------------------------
\* What goes on meanwhile: the enqueueing task and the pools of workers.
FeederEnqueues ==
    /\ feeder = "on" /\ server = "up"
    /\ \E s \in Slots : /\ table[s] = NoEvaluation
                        /\ table' = [table EXCEPT ![s] = Enqueued(scenario)]
    /\ UNCHANGED <<script, hStep, scenario, cells, load, server, pool, feeder,
                   emptied, reports, raised, published>>

FeederEnds ==
    /\ feeder = "on"
    /\ \/ feeder' = "done"    \* its kinds are used up or its time is
       \/ feeder' = "failed"  \* a request failed
    /\ UNCHANGED <<script, hStep, scenario, cells, load, server, pool, table,
                   emptied, reports, raised, published>>

WorkerClaims(n) ==
    /\ \E s \in Slots :
         /\ table[s].status = "queued"
         /\ table' = [table EXCEPT ![s].status = "running", ![s].by = n]
    /\ UNCHANGED <<script, hStep, scenario, cells, load, server, pool, feeder,
                   emptied, reports, raised, published>>

WorkerDecides(n) ==
    /\ \E s \in Slots, d \in {"succeeded", "failed"} :
         /\ table[s].status = "running" /\ table[s].by = n
         /\ table' = [table EXCEPT ![s].status = d]
    /\ UNCHANGED <<script, hStep, scenario, cells, load, server, pool, feeder,
                   emptied, reports, raised, published>>

HarnessStep ==
    \/ StartServer \/ ServerReady \/ ServerFails \/ BeginScenario \/ NextMode
    \/ FinishPlan \/ WriteResults \/ Exit \/ SeedWorld \/ EnqueueBatch
    \/ StartWorkers \/ DriveEnds \/ JoinFeeder \/ WaitDrain \/ StopWorkers
    \/ Collect \/ BenchInserts \/ BenchMeasures \/ Raise

HNext ==
    \/ HarnessStep
    \/ FeederEnqueues \/ FeederEnds
    \/ \E n \in pool : WorkerClaims(n) \/ WorkerDecides(n)

HSpec == HInit /\ [][HNext]_hVars

-----------------------------------------------------------------------------
\* A scenario meets only its own evaluations, run by its own workers.
MeasuresItsOwn ==
    InScenario =>
        /\ pool \subseteq {scenario}
        /\ \A s \in Slots : table[s].of \in {0, scenario}
                            /\ table[s].by \in {0, scenario}

\* Once a scenario has returned, its report is about it and says what the
\* database still says, unless the report was read before the workers were
\* stopped and the queue never emptied; a benched queue had no taker.
ReportsAreFinal ==
    hStep = "between" /\ cells > 0 =>
        /\ Len(reports) = scenario
        /\ reports[scenario].of = scenario
        /\ script # "hard_mix" \/ emptied => reports[scenario].rows = table
        /\ emptied => reports[scenario].stranded = 0
        /\ script = "isolated" =>
             \A s \in Slots : reports[scenario].rows[s] = Enqueued(scenario)

\* Results are written by a run in which nothing failed, that has a report for
\* every scenario, and that leaves no process or task behind.
PublishedIsComplete ==
    published =>
        /\ ~raised /\ server = "stopped" /\ pool = {} /\ feeder = "off"
        /\ [i \in DOMAIN reports |-> reports[i].of] = [i \in 1..scenario |-> i]

\* The scenarios of the load experiments do not contaminate one another: what
\* run_scenario and run_cell measure is their own, what they report is final
\* (hard_mix after a drain that timed out excepted), and what run writes is
\* complete.
HarnessIsolates == MeasuresItsOwn /\ ReportsAreFinal /\ PublishedIsComplete
-----------------------------------------------------------------------------
(* The inductive invariant behind it. *)

RowStatuses == {"absent", "queued", "running", "succeeded", "failed"}
Rows     == [status : RowStatuses, of : Nat, by : Nat]
Reports  == [of : Nat, rows : [Slots -> Rows], completed : Nat, stranded : Nat]

HTypeOK ==
    /\ script \in Scripts
    /\ InScenario \/ hStep \in {"idle", "waiting", "between", "writing",
                                "ending", "exited"}
    /\ scenario \in Nat /\ cells \in Nat
    /\ load \in {"none", "pre", "sustained", "both"}
    /\ server \in {"none", "starting", "up", "stopped"}
    /\ pool \subseteq Nat /\ feeder \in {"off", "on", "done", "failed"}
    /\ table \in [Slots -> Rows] /\ reports \in Seq(Reports)
    /\ emptied \in BOOLEAN /\ raised \in BOOLEAN /\ published \in BOOLEAN

\* The rows are of the last scenario, and only its workers exist.
OwnInv ==
    /\ pool \subseteq {scenario}
    /\ \A s \in Slots : /\ table[s].of \in {0, scenario}
                        /\ table[s].by \in {0, scenario}

\* Workers exist from their launch until they are stopped, and the enqueueing
\* task until it is joined, unless a call raises between.
QuietInv ==
    /\ hStep \notin {"driving", "joining", "draining", "collecting",
                     "stopping", "ending"} => pool = {}
    /\ script # "hard_mix" /\ hStep = "collecting" => pool = {}
    /\ hStep \notin {"driving", "joining", "ending"} => feeder = "off"
    /\ script = "isolated" => load \in {"none", "pre"} /\ feeder = "off"

\* An empty queue stays empty: nothing enqueues after wait_drain.
DrainedInv ==
    emptied =>
        /\ Having({"queued", "running"}) = {}
        /\ script \in {"hard_mix", "feedback", "hotpath"}
        /\ hStep \notin {"seeding", "enqueueing", "launching", "driving",
                         "joining", "draining"}

\* Report i is about scenario i; the present one has reported when it is over.
Reported == \/ hStep \in {"idle", "waiting", "between", "writing"}
            \/ hStep = "stopping" /\ script = "hard_mix"
            \/ published
ReportInv ==
    /\ \A i \in DOMAIN reports : reports[i].of = i
    /\ Reported => Len(reports) = scenario
    /\ InScenario /\ ~Reported => Len(reports) + 1 = scenario
    /\ InScenario => cells > 0

\* What has been measured is still there to be seen.
SettledInv ==
    /\ hStep = "waiting" => cells = 0
    /\ InScenario \/ (hStep = "between" /\ cells > 0) => scenario > 0
    /\ hStep = "measuring" => table = [s \in Slots |-> Enqueued(scenario)]
    /\ hStep = "stopping" /\ script = "hard_mix" /\ emptied =>
          /\ reports[scenario].rows = table
          /\ reports[scenario].stranded = 0

\* A run that raised goes no further; one that writes has stopped everything.
EndInv ==
    /\ hStep \in {"waiting", "ending"} => server # "up"
    /\ raised => hStep \in {"ending", "exited"} /\ ~published
    /\ published => hStep \in {"ending", "exited"}
    /\ hStep = "writing" \/ published =>
          server = "stopped" /\ pool = {} /\ feeder = "off"
    /\ hStep \in {"ending", "exited"} => raised \/ published

HInv == /\ HTypeOK /\ OwnInv /\ QuietInv /\ DrainedInv /\ ReportInv
        /\ SettledInv /\ EndInv /\ HarnessIsolates
=============================================================================
