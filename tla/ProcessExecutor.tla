--------------------------- MODULE ProcessExecutor ---------------------------
(***************************************************************************)
(* ProcessExecutor.run: one program of the trusted corpus in a process of  *)
(* its own, with a workspace, a Job Object where the host has one, two     *)
(* reader threads, a polling loop and a clean-up in a finally clause.  The *)
(* program forks, writes and exits while the executor takes its steps.     *)
(*                                                                         *)
(* EvaluationQueue knows only that an execution starts, may outlive its    *)
(* worker, and ends; here one execution is opened up.                      *)
(*                                                                         *)
(* Abstracted: stdout and stderr are one stream, counted in units up to    *)
(* one beyond the cap; memory and disk are below or above their limit.     *)
(* A deadline may pass at any time.                                        *)
(***************************************************************************)
EXTENDS Naturals, FiniteSets

CONSTANTS
    Asked,             \* what metadata.execution_workload may say
    Children,          \* processes a program may fork
    JobObjectsHere,    \* job_objects_available()
    OutputCap,         \* max_stdout_bytes
    MaxProcessCount,   \* max_process_count
    RetainOnFailure,   \* workspace_retain_on_failure
    MaxExecutions      \* evaluation max_attempts

ASSUME ExecutorAssumption ==
    /\ "root" \notin Children
    /\ JobObjectsHere \in BOOLEAN /\ RetainOnFailure \in BOOLEAN
    /\ OutputCap \in Nat /\ MaxProcessCount \in Nat \ {0}
    /\ MaxExecutions \in Nat \ {0}

-----------------------------------------------------------------------------
(* The corpus: what a program does that the executor can notice. *)

Program(forks, writes, ends, grows) ==
    [forks |-> forks,     \* how many children it starts
     writes |-> writes,   \* units of output
     ends |-> ends,       \* how it may exit
     grows |-> grows]     \* the limits it may run into

\* Exit code, and the limit named in the output.
Exits(rc, mark) == [rc |-> rc, mark |-> mark]
Fine  == {Exits("zero", "none")}
Fails == {Exits("nonzero", "none")}

Light         == Program(0, 1, Fine, {})
CpuHeavy      == Program(0, 1, Fine, {"cpu_limit"})
MemoryHeavy   == Program(0, 1, Fine \cup Fails, {"memory_limit"})
MemoryGrow    == Program(0, 1, Fine \cup {Exits("nonzero", "memory_limit")},
                         {"memory_limit"})
Sleep         == Program(0, 1, Fine, {})
LargeOutput   == Program(0, OutputCap + 1, Fine, {})
ChildProcess  == Program(1, 1, Fine, {})
ProcessHeavy  == Program(2, 1, Fine, {})
TimeoutLoop   == Program(0, 0, {}, {})
ManyFiles     == Program(0, 1, Fine, {"workspace_limit"})
DiskHeavy     == Program(0, 1, Fine, {"workspace_limit"})
Failure       == Program(0, 1, Fails, {})
BoundaryProbe == Program(0, 1, Fine, {})

Handlers ==
    [LIGHT |-> Light, CPU_HEAVY |-> CpuHeavy, MEMORY_HEAVY |-> MemoryHeavy,
     MEMORY_GROW |-> MemoryGrow, SLEEP |-> Sleep, LARGE_OUTPUT |-> LargeOutput,
     CHILD_PROCESS |-> ChildProcess, PROCESS_HEAVY |-> ProcessHeavy,
     TIMEOUT |-> TimeoutLoop, MANY_FILES |-> ManyFiles,
     DISK_HEAVY |-> DiskHeavy, FAILURE |-> Failure,
     BOUNDARY_PROBE |-> BoundaryProbe]

CorpusAliases ==
    [light_success |-> "LIGHT", cpu_heavy_success |-> "CPU_HEAVY",
     sleep_timeout |-> "TIMEOUT", large_stdout |-> "LARGE_OUTPUT",
     large_stderr |-> "LARGE_OUTPUT", child_process |-> "CHILD_PROCESS",
     process_heavy |-> "PROCESS_HEAVY", nonzero_exit |-> "FAILURE",
     many_files |-> "MANY_FILES", disk_heavy |-> "DISK_HEAVY",
     boundary_probe |-> "BOUNDARY_PROBE", memory_heavy |-> "MEMORY_HEAVY",
     memory_grow |-> "MEMORY_GROW", sleep_ok |-> "SLEEP"]

ByClass == [light |-> "LIGHT", medium |-> "SLEEP", heavy |-> "CPU_HEAVY"]

\* lower() and upper() of spellings that are neither a name nor an alias.
Spelling(lower, upper) == [lower |-> lower, upper |-> upper]
Spellings ==
    [light |-> Spelling("light", "LIGHT"),
     Large_Stdout |-> Spelling("large_stdout", "LARGE_STDOUT")]

\* resolve_workload; "unknown" is its ValueError.
ResolveWorkload(raw, class) ==
    LET folded == IF raw \in DOMAIN Spellings THEN Spellings[raw]
                  ELSE Spelling(raw, raw)
    IN  IF raw \in DOMAIN Handlers THEN raw
        ELSE IF raw \in DOMAIN CorpusAliases THEN CorpusAliases[raw]
        ELSE IF folded.lower \in DOMAIN CorpusAliases
             THEN CorpusAliases[folded.lower]
        ELSE IF folded.upper \in DOMAIN Handlers THEN folded.upper
        ELSE IF raw = "none" THEN ByClass[class]
        ELSE "unknown"

-----------------------------------------------------------------------------
VARIABLES
    xpc,        \* where run is
    program,    \* the program being run, by name
    attempt,    \* attempt_count of the evaluation
    alive,      \* processes of the tree that exist
    forked,     \* children started so far
    inJob,      \* processes assigned to the Job Object
    jobHandle,  \* "none", "open" or "closed"
    wrote,      \* units written to the pipe
    read,       \* units the reader thread has seen
    said,       \* the limit reported in the output
    exitCode,   \* of the root process, or "none"
    targets,    \* processes listed by _terminate_tree
    leaked,     \* leaked_pids_after_cleanup
    workspace,  \* the working directory exists
    status,     \* ExecutionResult.status
    drained     \* the reader threads had ended when the exit was classified

procVars == <<alive, forked, inJob, wrote, said, exitCode>>
xVars    == <<xpc, program, attempt, procVars, jobHandle, read, targets,
              leaked, workspace, status, drained>>

Procs     == {"root"} \cup Children
Truncated == read > OutputCap
Behaviour == Handlers[program]

XInit ==
    /\ xpc = "idle" /\ program = "LIGHT" /\ attempt = 0
    /\ alive = {} /\ forked = {} /\ inJob = {} /\ jobHandle = "none"
    /\ wrote = 0 /\ read = 0 /\ said = "none" /\ exitCode = "none"
    /\ targets = {} /\ leaked = {} /\ workspace = FALSE
    /\ status = "none" /\ drained = FALSE

-----------------------------------------------------------------------------
(* The program. *)

\* A child of a job's member is a member; ActiveProcessLimit refuses it.
Fork(c) ==
    /\ "root" \in alive /\ c \in Children \ forked
    /\ Cardinality(forked) < Behaviour.forks
    /\ "root" \in inJob => Cardinality(inJob \cap alive) < MaxProcessCount
    /\ forked' = forked \cup {c}
    /\ alive' = alive \cup {c}
    /\ inJob' = IF "root" \in inJob THEN inJob \cup {c} ELSE inJob
    /\ UNCHANGED <<xpc, program, attempt, jobHandle, wrote, read, said,
                   exitCode, targets, leaked, workspace, status, drained>>

\* _process_heavy: CreateProcess fails and the program says so and exits.
ForkRefused ==
    /\ "root" \in alive \cap inJob /\ jobHandle = "open"
    /\ Cardinality(forked) < Behaviour.forks
    /\ Cardinality(inJob \cap alive) >= MaxProcessCount
    /\ said' = IF program = "PROCESS_HEAVY" THEN "process_limit" ELSE "none"
    /\ exitCode' = "nonzero"
    /\ alive' = alive \ {"root"}
    /\ UNCHANGED <<xpc, program, attempt, forked, inJob, jobHandle, wrote,
                   read, targets, leaked, workspace, status, drained>>

\* Any living process of the tree holds the pipe and may write to it.
WriteOutput ==
    /\ alive # {}
    /\ wrote < Behaviour.writes
    /\ wrote' = wrote + 1
    /\ UNCHANGED <<xpc, program, attempt, alive, forked, inJob, said, exitCode,
                   jobHandle, read, targets, leaked, workspace, status, drained>>

RootExits ==
    /\ "root" \in alive
    /\ Cardinality(forked) = Behaviour.forks
    /\ \E end \in Behaviour.ends : exitCode' = end.rc /\ said' = end.mark
    /\ alive' = alive \ {"root"}
    /\ UNCHANGED <<xpc, program, attempt, forked, inJob, jobHandle, wrote,
                   read, targets, leaked, workspace, status, drained>>

ChildExits(c) ==
    /\ c \in alive \cap Children
    /\ alive' = alive \ {c}
    /\ UNCHANGED <<xpc, program, attempt, forked, inJob, wrote, said, exitCode,
                   jobHandle, read, targets, leaked, workspace, status, drained>>

\* PerJobUserTimeLimit: the job's members end with an NTSTATUS.
JobTimeUp ==
    /\ "root" \in alive \cap inJob /\ jobHandle = "open"
    /\ "cpu_limit" \in Behaviour.grows
    /\ alive' = alive \ inJob
    /\ exitCode' = "status"
    /\ UNCHANGED <<xpc, program, attempt, forked, inJob, wrote, said, jobHandle,
                   read, targets, leaked, workspace, status, drained>>

\* _StreamCap._run.
ReaderReads ==
    /\ read < wrote
    /\ read' = read + 1
    /\ UNCHANGED <<xpc, program, attempt, procVars, jobHandle, targets, leaked,
                   workspace, status, drained>>

-----------------------------------------------------------------------------
(* The executor. *)

\* run_synthetic_execution, mkdtemp and create_job, which may fail.
Prepare(name) ==
    /\ xpc = "idle" /\ attempt < MaxExecutions
    /\ name # "unknown"
    /\ attempt > 0 => name = program
    /\ program' = name /\ attempt' = attempt + 1
    /\ workspace' = TRUE
    /\ jobHandle' \in IF JobObjectsHere THEN {"open", "none"} ELSE {"none"}
    /\ xpc' = "prepared"
    /\ UNCHANGED <<procVars, read, targets, leaked, status, drained>>

\* The ValueError is caught by the worker, which marks the evaluation failed.
RefuseWorkload ==
    /\ xpc = "idle" /\ attempt = 0
    /\ attempt' = 1
    /\ status' = "refused"
    /\ xpc' = "returned"
    /\ UNCHANGED <<program, procVars, jobHandle, read, targets, leaked,
                   workspace, drained>>

\* Popen raises: the result says "error".
PopenFails ==
    /\ xpc = "prepared"
    /\ jobHandle' = IF jobHandle = "open" THEN "closed" ELSE jobHandle
    /\ workspace' = FALSE
    /\ status' = "error"
    /\ xpc' = "returned"
    /\ UNCHANGED <<program, attempt, procVars, read, targets, leaked, drained>>

Popen ==
    /\ xpc = "prepared"
    /\ alive' = {"root"}
    /\ xpc' = "started"
    /\ UNCHANGED <<program, attempt, forked, inJob, wrote, said, exitCode,
                   jobHandle, read, targets, leaked, workspace, status, drained>>

\* job.assign; what the root has forked before stays outside.  Assigning fails
\* once the root is gone, or for the host's reasons.
Assign ==
    /\ xpc = "started"
    /\ \/ /\ jobHandle = "open" /\ "root" \in alive
          /\ inJob' = inJob \cup {"root"} /\ UNCHANGED jobHandle
       \/ /\ jobHandle' = IF jobHandle = "open" THEN "closed" ELSE jobHandle
          /\ UNCHANGED inJob
    /\ xpc' = "polling"
    /\ UNCHANGED <<program, attempt, alive, forked, wrote, said, exitCode,
                   read, targets, leaked, workspace, status, drained>>

\* The loop is left with a verdict.
Verdict(s) ==
    /\ status' = s
    /\ xpc' = "deciding"
    /\ UNCHANGED <<program, attempt, procVars, jobHandle, read, targets, leaked,
                   workspace, drained>>

PollDeadline == xpc = "polling" /\ Verdict("timeout")

PollOutput == xpc = "polling" /\ Truncated /\ Verdict("output_limit")

\* The tree as psutil sees it from the root: orphans are not in it.
Tree == IF "root" \in alive THEN alive ELSE {}

PollProcesses ==
    /\ xpc = "polling" /\ ~Truncated /\ "root" \in alive
    /\ Cardinality(Tree) >= MaxProcessCount
    /\ Verdict("process_limit")

\* max_rss_mb and max_workspace_bytes.
PollUsage(limit) ==
    /\ xpc = "polling" /\ ~Truncated /\ "root" \in alive
    /\ limit \in Behaviour.grows
    /\ Verdict(limit)

\* An exit code beyond 1000 is the job's.
ClassifyResourceExit == IF exitCode = "status" THEN "cpu_limit" ELSE "none"

\* poll() returns the exit code: join both readers for a second, classify.
\* The join times out when some process still holds the pipe.
PollExit ==
    /\ xpc = "polling" /\ ~Truncated /\ exitCode # "none"
    /\ read = wrote \/ alive # {}
    /\ status' = IF ClassifyResourceExit # "none" THEN ClassifyResourceExit
                 ELSE IF exitCode = "zero" THEN "succeeded" ELSE "failed"
    /\ drained' = (alive = {})
    /\ xpc' = "deciding"
    /\ UNCHANGED <<program, attempt, procVars, jobHandle, read, targets, leaked,
                   workspace>>

\* The finally clause: children(recursive=True).
ListTree ==
    /\ xpc = "deciding"
    /\ targets' = Tree \cup {"root"}
    /\ xpc' = "listed"
    /\ UNCHANGED <<program, attempt, procVars, jobHandle, read, leaked,
                   workspace, status, drained>>

\* terminate, taskkill, kill; S resists and is reported.
KillTargets(S) ==
    /\ xpc = "listed"
    /\ S \subseteq targets \cap alive
    /\ alive' = alive \ (targets \ S)
    /\ exitCode' = IF "root" \in S \/ exitCode # "none" THEN exitCode
                   ELSE "nonzero"
    /\ leaked' = S
    /\ xpc' = "killed"
    /\ UNCHANGED <<program, attempt, forked, inJob, wrote, said, jobHandle,
                   read, targets, workspace, status, drained>>

\* Faulty variant: the handle of the job is left open.
CloseJob_KeepsHandle ==
    /\ xpc = "killed"
    /\ jobHandle' = IF leaked # {} /\ jobHandle = "open" THEN "closed"
                    ELSE jobHandle
    /\ alive' = IF jobHandle' = "closed" THEN alive \ inJob ELSE alive
    /\ xpc' = "closed"
    /\ UNCHANGED <<program, attempt, forked, inJob, wrote, said, exitCode,
                   read, targets, leaked, workspace, status, drained>>

\* job.close(): KILL_ON_JOB_CLOSE ends every member.
CloseJob ==
    /\ xpc = "killed"
    /\ jobHandle' = IF jobHandle = "open" THEN "closed" ELSE jobHandle
    /\ alive' = IF jobHandle = "open" THEN alive \ inJob ELSE alive
    /\ xpc' = "closed"
    /\ UNCHANGED <<program, attempt, forked, inJob, wrote, said, exitCode,
                   read, targets, leaked, workspace, status, drained>>

\* _cleanup_workspace: five tries, which a survivor can defeat.
CleanWorkspace ==
    /\ xpc = "closed"
    /\ workspace' \in IF RetainOnFailure /\ status # "succeeded" THEN {TRUE}
                      ELSE IF alive = {} THEN {FALSE} ELSE BOOLEAN
    /\ xpc' = "cleaned"
    /\ UNCHANGED <<program, attempt, procVars, jobHandle, read, targets, leaked,
                   status, drained>>

\* Limits the program has reported in its output, then the result.
Report ==
    /\ xpc = "cleaned"
    /\ status' = IF status \in {"succeeded", "failed"} /\ said # "none"
                 THEN said ELSE status
    /\ xpc' = "returned"
    /\ UNCHANGED <<program, attempt, procVars, jobHandle, read, targets, leaked,
                   workspace, drained>>

-----------------------------------------------------------------------------
(* The contract. *)

StatusToOutcome ==
    [succeeded |-> "SUCCESS", failed |-> "NONZERO_EXIT", timeout |-> "TIMEOUT",
     output_limit |-> "OUTPUT_LIMIT", process_limit |-> "PROCESS_LIMIT",
     memory_limit |-> "MEMORY_LIMIT", cpu_limit |-> "CPU_LIMIT",
     workspace_limit |-> "WORKSPACE_LIMIT", error |-> "START_FAILURE"]

\* outcome_from_result.
Outcome ==
    IF status = "succeeded" /\ leaked # {} THEN "CLEANUP_ERROR"
    ELSE StatusToOutcome[status]

\* disposition: succeeded, failed or requeue.
Disposition ==
    IF status = "refused" THEN "failed"
    ELSE IF Outcome = "SUCCESS" THEN "succeeded"
    ELSE IF Outcome = "START_FAILURE" /\ attempt < MaxExecutions THEN "requeue"
    ELSE "failed"

\* A start failure is tried again with a process and a workspace of its own.
Retry ==
    /\ xpc = "returned" /\ Disposition = "requeue"
    /\ xpc' = "idle" /\ status' = "none" /\ jobHandle' = "none"
    /\ UNCHANGED <<program, attempt, procVars, read, targets, leaked,
                   workspace, drained>>

ExecutorStep ==
    \/ \E raw \in Asked, class \in DOMAIN ByClass :
          LET name == ResolveWorkload(raw, class)
          IN  Prepare(name) \/ (name = "unknown" /\ RefuseWorkload)
    \/ PopenFails \/ Popen \/ Assign
    \/ PollDeadline \/ PollOutput \/ PollProcesses \/ PollExit
    \/ \E limit \in {"memory_limit", "workspace_limit"} : PollUsage(limit)
    \/ ListTree \/ \E S \in SUBSET Procs : KillTargets(S)
    \/ CloseJob \/ CleanWorkspace \/ Report \/ Retry

ProgramStep ==
    \/ \E c \in Children : Fork(c) \/ ChildExits(c)
    \/ ForkRefused \/ WriteOutput \/ RootExits \/ JobTimeUp \/ ReaderReads

XNext == ExecutorStep \/ ProgramStep

XSpec == XInit /\ [][XNext]_xVars

-----------------------------------------------------------------------------
(* Properties. *)

XTypeOK ==
    /\ xpc \in {"idle", "prepared", "started", "polling", "deciding", "listed",
                "killed", "closed", "cleaned", "returned"}
    /\ program \in DOMAIN Handlers /\ attempt \in 0..MaxExecutions
    /\ alive \subseteq Procs /\ forked \subseteq Children /\ inJob \subseteq Procs
    /\ targets \subseteq Procs /\ leaked \subseteq targets
    /\ jobHandle \in {"none", "open", "closed"}
    /\ wrote \in 0..(OutputCap + 1) /\ read \in 0..wrote
    /\ said \in {"none", "process_limit", "memory_limit"}
    /\ exitCode \in {"none", "zero", "nonzero", "status"}
    /\ workspace \in BOOLEAN /\ drained \in BOOLEAN
    /\ status \in {"none", "succeeded", "failed", "timeout", "output_limit",
                   "process_limit", "memory_limit", "cpu_limit", "workspace_limit",
                   "error", "refused"}

\* Every process of the execution was assigned to the job.
Contained == {"root"} \cup forked \subseteq inJob

\* Where the job has every process, nothing survives the clean-up: however the
\* program forked, exited and resisted, no process is left once the job is
\* closed, and a success leaves no workspace either.
ContainedIsClean ==
    xpc \in {"closed", "cleaned", "returned"} /\ Contained =>
        /\ alive = {}
        /\ xpc = "returned" /\ Disposition = "succeeded" => ~workspace

\* In any case a member of the job ends with it, and a process that the
\* clean-up has listed ends or is reported.
ListedAreReported ==
    xpc \in {"closed", "cleaned", "returned"} =>
        /\ alive \cap inJob = {}
        /\ alive \cap targets \subseteq leaked

\* A score is given only to a program that exited with 0, reported no limit
\* and left no process that was reported as leaked; if all its processes had
\* ended when its exit was classified, its output was within the cap.
ScoreIsEarned ==
    xpc = "returned" /\ Disposition = "succeeded" =>
        /\ exitCode = "zero" /\ said = "none" /\ leaked = {}
        /\ drained => ~Truncated

\* What the clean-up and the verdict achieve against programs that fork,
\* write and exit while run takes its steps.
ExecutionAccounted == ContainedIsClean /\ ListedAreReported /\ ScoreIsEarned

\* What the documents say: "no uncontrolled descendants after cleanup", and an
\* exit with 0 that leaves processes or a workspace behind is a CLEANUP_ERROR.
\* What escaped the job and the listing is neither removed nor reported.
SuccessIsClean ==
    xpc = "returned" /\ Disposition = "succeeded" => alive = {} /\ ~workspace

-----------------------------------------------------------------------------
(* The inductive invariant behind ExecutionAccounted. *)

JobClosed == {"closed", "cleaned", "returned"}
LoopLeft  == {"deciding", "listed", "killed"} \cup JobClosed

\* Before its Popen, and after one that failed, an execution has no process.
FreshInv ==
    xpc \in {"idle", "prepared"} \/ status \in {"error", "refused"} =>
        /\ alive = {} /\ forked = {} /\ inJob = {} /\ targets = {}
        /\ leaked = {} /\ exitCode = "none" /\ said = "none" /\ ~drained

\* Every process is the root or a child that was forked, the job's members
\* only live under an open handle, and what was listed and lives on is leaked.
TreeInv ==
    /\ alive \cup inJob \cup targets \subseteq {"root"} \cup forked
    /\ xpc = "started" => inJob = {}
    /\ xpc = "listed" => "root" \in targets
    /\ leaked # {} => xpc \in {"killed"} \cup JobClosed
    /\ inJob # {} /\ xpc \notin JobClosed => jobHandle = "open"
    /\ xpc \in {"killed"} \cup JobClosed => targets \cap alive \subseteq leaked
    /\ xpc \in JobClosed => alive \cap inJob = {}

\* The root speaks once, at its exit, and the verdict rests on what it said.
VerdictInv ==
    /\ exitCode # "none" \/ said # "none" => "root" \notin alive
    /\ status = "none" <=> xpc \notin LoopLeft
    /\ status \in {"error", "refused"} => xpc = "returned"
    /\ status = "succeeded" => exitCode = "zero"
    /\ drained => xpc \in LoopLeft /\ alive = {} /\ read = wrote /\ ~Truncated

\* The workspace after _cleanup_workspace, and what Report makes of the status.
WorkspaceInv ==
    /\ xpc \in {"cleaned", "returned"} /\ status = "succeeded" /\ Contained
         => ~workspace
    /\ xpc = "returned" /\ status = "succeeded" => said = "none"

ExecutorInv == XTypeOK /\ FreshInv /\ TreeInv /\ VerdictInv /\ WorkspaceInv
=============================================================================
