------------------------- MODULE InteractiveFeedback -------------------------
(***************************************************************************)
(* The loop that slows evaluations down when participants wait: the API    *)
(* process measures interactive requests in a rolling window, a background *)
(* task publishes the window's p95 in the scheduler row, and the worker's  *)
(* InteractiveFeedbackController turns the published hint into a level.    *)
(*                                                                         *)
(* Every await of persist_now is a point where requests go on, so the      *)
(* snapshot, the write and the bookkeeping after it are separate from the  *)
(* requests.  Time passes in ticks; ages stop counting where they no       *)
(* longer matter.                                                          *)
(*                                                                         *)
(* Abstracted: the pool-wait window only adds reasons to publish, a free   *)
(* choice here.  publish_mode is "async", the default.                     *)
(***************************************************************************)
EXTENDS Naturals, Sequences, FiniteSets

CONSTANTS
    Latencies,      \* wall times a request may take
    CalmMs,         \* a wall time requests do not exceed once traffic is calm
    RecoveryMs, WarnMs, CriticalMs,  \* thresholds of the controller
    MinSamples,     \* interactive_min_samples
    SustainTicks,   \* sustain_seconds
    CooldownTicks,  \* cooldown_seconds
    WindowTicks,    \* window_seconds
    MaxSamples,     \* max_samples of the window
    MinDelta,       \* publish_min_delta_ms
    NoMs,           \* p95_ms is None
    Never,          \* _last_published is empty
    MaxFaults       \* bound: failed writes, kills and restarts

ASSUME FeedbackAssumption ==
    /\ Latencies \subseteq Nat
    /\ {CalmMs, RecoveryMs, WarnMs, CriticalMs, MinSamples, SustainTicks,
        CooldownTicks, WindowTicks, MinDelta, MaxFaults} \subseteq Nat
    /\ MaxSamples \in Nat \ {0}
    /\ NoMs \notin Latencies /\ Never \notin Latencies /\ NoMs # Never
    /\ 0 < RecoveryMs /\ RecoveryMs <= WarnMs /\ WarnMs <= CriticalMs

Levels == {"healthy", "warn", "critical"}
NoSnap == [p95 |-> NoMs, count |-> 0, valid |-> FALSE]

VARIABLES
    window,      \* samples of the API process, oldest first
    dirty,       \* _dirty
    published,   \* p95 of _last_published
    writing,     \* the snapshot persist_now is writing
    serving,     \* the API process: "up", "stopping", "flushing", "down"
    hint,        \* interactive_p95_ms and interactive_sample_count of the row
    level,       \* the controller's level
    candidate,   \* _candidate, or "none"
    candAge,     \* time since _candidate_since
    changeAge,   \* time since _last_change_at
    faults,      \* failures so far
    steady       \* history: what every usable hint has asked for, since when

publisherVars == <<window, dirty, published, writing, serving>>
workerSide    == <<level, candidate, candAge, changeAge>>
fbVars        == <<publisherVars, hint, workerSide, faults, steady>>

\* Time since the last change counts up to a cooldown and a sustain.
LongAgo == CooldownTicks + SustainTicks

Aged(n, cap) == IF n < cap THEN n + 1 ELSE n

FbInit ==
    /\ window = <<>> /\ dirty = FALSE /\ published = Never
    /\ writing = NoSnap /\ serving = "up"
    /\ hint = [p95 |-> NoMs, count |-> 0]
    /\ level = "healthy" /\ candidate = "none"
    /\ candAge = 0 /\ changeAge = LongAgo
    /\ faults = 0
    /\ steady = [want |-> "healthy", age |-> 0]

-----------------------------------------------------------------------------
(* The rolling window. *)

Values(w) == {w[i].ms : i \in DOMAIN w}

\* percentile(values, 0.95): the value of rank ceil(0.95 n), counted from 1.
Percentile(w) ==
    CHOOSE v \in Values(w) :
        LET k == (Len(w) * 95 + 99) \div 100
        IN  /\ Cardinality({i \in DOMAIN w : w[i].ms <= v}) >= k
            /\ Cardinality({i \in DOMAIN w : w[i].ms < v}) < k

\* _trim, by age: the oldest samples are popped up to the first fresh one.
TrimOld(w) ==
    LET fresh == {i \in DOMAIN w : w[i].age <= WindowTicks}
    IN  IF fresh = {} THEN <<>>
        ELSE SubSeq(w, CHOOSE i \in fresh : \A j \in fresh : i <= j, Len(w))

\* Faulty variant: one sample more than max_samples is kept.
TrimLong_OneMore(w) == IF Len(w) > MaxSamples + 1
                       THEN SubSeq(w, Len(w) - MaxSamples, Len(w)) ELSE w

\* _trim, by number.
TrimLong(w) == IF Len(w) > MaxSamples
               THEN SubSeq(w, Len(w) - MaxSamples + 1, Len(w)) ELSE w

\* snapshot, as far as persist_now uses it.
Snapshot == [p95 |-> IF window = <<>> THEN NoMs ELSE Percentile(window),
             count |-> Len(window), valid |-> TRUE]

-----------------------------------------------------------------------------
(* The API process. *)

\* A tracked request ends: record_wall.
RecordWall(ms) ==
    /\ serving = "up"
    /\ window' = TrimLong(Append(window, [ms |-> ms, age |-> 0]))
    /\ dirty' = TRUE
    /\ UNCHANGED <<published, writing, serving, hint, workerSide, faults,
                   steady>>

Apart(a, b) == IF a > b THEN a - b ELSE b - a

\* material_change, without the pool-wait window.
MaterialChange(snap) ==
    \/ published = Never
    \/ snap.p95 # NoMs /\ published = NoMs
    \/ /\ published \notin {Never, NoMs} /\ snap.p95 # NoMs
       /\ Apart(snap.p95, published) >= MinDelta

\* persist_now up to its first await.
PersistBegin(poolMoved) ==
    /\ ~writing.valid
    /\ dirty \/ published = Never
    /\ poolMoved => window # <<>>
    /\ IF MaterialChange(Snapshot) \/ poolMoved
       THEN writing' = Snapshot /\ UNCHANGED dirty
       ELSE dirty' = FALSE /\ UNCHANGED writing
    /\ UNCHANGED <<window, published, hint, workerSide, faults, steady>>

\* run_publisher after one interval.
PublisherWakes(poolMoved) ==
    serving = "up" /\ PersistBegin(poolMoved) /\ UNCHANGED serving

\* The process ends, and the publisher with it.
ProcessEnds ==
    /\ serving' = "down" /\ writing' = NoSnap
    /\ window' = <<>> /\ dirty' = FALSE /\ published' = Never

\* persist_interactive_hint commits and persist_now does its bookkeeping.
PersistCommit ==
    /\ writing.valid
    /\ hint' = [p95 |-> writing.p95, count |-> writing.count]
    /\ IF serving = "flushing" THEN ProcessEnds
       ELSE /\ published' = writing.p95
            /\ dirty' = FALSE
            /\ writing' = NoSnap
            /\ UNCHANGED <<window, serving>>
    /\ UNCHANGED <<workerSide, faults, steady>>

\* The write raises: the last successful hint remains, _dirty stays set.
PersistFail ==
    /\ writing.valid /\ faults < MaxFaults
    /\ faults' = faults + 1
    /\ IF serving = "flushing" THEN ProcessEnds
       ELSE writing' = NoSnap /\ UNCHANGED <<window, dirty, published, serving>>
    /\ UNCHANGED <<hint, workerSide, steady>>

\* stop_background sets the event; the requests have ended before.
StopBackground ==
    /\ serving = "up" /\ faults < MaxFaults
    /\ faults' = faults + 1
    /\ serving' = "stopping"
    /\ UNCHANGED <<window, dirty, published, writing, hint, workerSide, steady>>

\* wait_for gives the task two seconds and cancels it in its write: before the
\* commit, or in the commit, which the database has carried out.
CancelPublisher(committed) ==
    /\ serving = "stopping" /\ writing.valid
    /\ writing' = NoSnap
    /\ hint' = IF committed THEN [p95 |-> writing.p95, count |-> writing.count]
               ELSE hint
    /\ UNCHANGED <<window, dirty, published, serving, workerSide, faults,
                   steady>>

\* The task has ended: "Final flush if dirty", then the process ends.
FinalFlush(poolMoved) ==
    /\ serving = "stopping" /\ ~writing.valid
    /\ poolMoved => window # <<>>
    /\ IF dirty /\ (MaterialChange(Snapshot) \/ poolMoved)
       THEN /\ PersistBegin(poolMoved)
            /\ serving' = "flushing"
       ELSE ProcessEnds /\ UNCHANGED <<hint, workerSide, faults, steady>>

\* The process is killed.
KillApi ==
    /\ serving # "down" /\ faults < MaxFaults
    /\ faults' = faults + 1
    /\ ProcessEnds
    /\ UNCHANGED <<hint, workerSide, steady>>

\* lifespan of a new process: an empty publisher.
StartApi ==
    /\ serving = "down"
    /\ serving' = "up"
    /\ UNCHANGED <<window, dirty, published, writing, hint, workerSide, faults,
                   steady>>

-----------------------------------------------------------------------------
(* The worker process. *)

\* Faulty variant: a level is held before recovery is looked at.
Desired_Sticky(p95) ==
    IF p95 >= CriticalMs THEN "critical"
    ELSE IF level = "warn" THEN "warn"
    ELSE IF level # "healthy" /\ p95 <= RecoveryMs THEN "healthy"
    ELSE IF p95 >= WarnMs THEN "warn" ELSE "healthy"

\* _desired_level.
Desired(p95) ==
    IF level # "healthy" /\ p95 <= RecoveryMs THEN "healthy"
    ELSE IF p95 >= CriticalMs THEN "critical"
    ELSE IF level = "warn" THEN "warn"
    ELSE IF p95 >= WarnMs THEN "warn" ELSE "healthy"

\* update returns early: too few samples, or no p95.
Usable == hint.count >= MinSamples /\ hint.p95 # NoMs

\* Faulty variant: the candidate is weighed during the cooldown.
Decide_EagerCandidate(want) ==
    IF want = level
    THEN candidate' = "none" /\ candAge' = 0 /\ UNCHANGED <<level, changeAge>>
    ELSE IF candidate # want
    THEN candidate' = want /\ candAge' = 0 /\ UNCHANGED <<level, changeAge>>
    ELSE IF changeAge < CooldownTicks \/ candAge < SustainTicks
    THEN UNCHANGED workerSide
    ELSE level' = want /\ candidate' = "none" /\ candAge' = 0 /\ changeAge' = 0

\* The part of update behind the early returns: cooldown, candidate, sustain.
Decide(want) ==
    IF want = level
    THEN candidate' = "none" /\ candAge' = 0 /\ UNCHANGED <<level, changeAge>>
    ELSE IF changeAge < CooldownTicks THEN UNCHANGED workerSide
    ELSE IF candidate # want
    THEN candidate' = want /\ candAge' = 0 /\ UNCHANGED <<level, changeAge>>
    ELSE IF candAge < SustainTicks THEN UNCHANGED workerSide
    ELSE level' = want /\ candidate' = "none" /\ candAge' = 0 /\ changeAge' = 0

\* One runtime tick of the worker: read_runtime_state, then update.
Update ==
    /\ Usable
    /\ Decide(Desired(hint.p95))
    /\ steady' = IF Desired(hint.p95) = steady.want THEN steady
                 ELSE [want |-> Desired(hint.p95), age |-> 0]
    /\ UNCHANGED <<publisherVars, hint, faults>>

\* A new worker process starts from HEALTHY.
RestartWorker ==
    /\ faults < MaxFaults
    /\ faults' = faults + 1
    /\ level' = "healthy" /\ candidate' = "none" /\ candAge' = 0
    /\ changeAge' = LongAgo
    /\ steady' = [want |-> "healthy", age |-> 0]
    /\ UNCHANGED <<publisherVars, hint>>

-----------------------------------------------------------------------------
(* The environment. *)

TimePasses ==
    /\ window' = TrimOld([i \in DOMAIN window |->
                            [window[i] EXCEPT !.age = @ + 1]])
    /\ candAge' = IF candidate = "none" THEN 0 ELSE Aged(candAge, SustainTicks)
    /\ changeAge' = Aged(changeAge, LongAgo)
    /\ steady' = [steady EXCEPT !.age = Aged(@, SustainTicks)]
    /\ UNCHANGED <<dirty, published, writing, serving, hint, level, candidate,
                   faults>>

FbNext ==
    \/ \E ms \in Latencies : RecordWall(ms)
    \/ \E moved \in BOOLEAN : PublisherWakes(moved) \/ FinalFlush(moved)
    \/ PersistCommit \/ PersistFail
    \/ StopBackground \/ KillApi \/ StartApi
    \/ \E committed \in BOOLEAN : CancelPublisher(committed)
    \/ Update \/ RestartWorker
    \/ TimePasses

(* Fairness: the publisher's loop, the commit of a row, the restart of a   *)
(* stopped service and the worker's ticks go on; time passes.  Requests    *)
(* keep coming in numbers: when traffic is calm the publisher wakes up     *)
(* again and again with enough samples, and the worker reads hints that    *)
(* rest on enough of them.                                                 *)

Calm == \A v \in Values(window) : v <= CalmMs

PublishCalm ==
    Calm /\ Len(window) >= MinSamples /\ PublisherWakes(FALSE)

RequestsInNumbers(ms) == Len(window) + 1 >= MinSamples /\ RecordWall(ms)

FbFairness ==
    /\ SF_fbVars(PublishCalm)
    /\ WF_fbVars(PersistCommit)
    /\ WF_fbVars(FinalFlush(FALSE)) /\ WF_fbVars(StartApi)
    /\ SF_fbVars(Update) /\ WF_fbVars(TimePasses)
    /\ \A ms \in {m \in Latencies : m <= CalmMs} :
          WF_fbVars(RecordWall(ms)) /\ SF_fbVars(RequestsInNumbers(ms))

FbSpec == FbInit /\ [][FbNext]_fbVars

-----------------------------------------------------------------------------
(* Properties. *)

FbTypeOK ==
    /\ window \in Seq([ms : Latencies, age : 0..WindowTicks])
    /\ Len(window) <= MaxSamples
    /\ dirty \in BOOLEAN
    /\ published \in Latencies \cup {Never, NoMs}
    /\ writing \in [p95 : Latencies \cup {NoMs}, count : 0..MaxSamples,
                    valid : BOOLEAN]
    /\ serving \in {"up", "stopping", "flushing", "down"}
    /\ hint \in [p95 : Latencies \cup {NoMs}, count : 0..MaxSamples]
    /\ level \in Levels /\ candidate \in Levels \cup {"none"}
    /\ candAge \in 0..SustainTicks /\ changeAge \in 0..LongAgo
    /\ faults \in 0..MaxFaults
    /\ steady \in [want : Levels, age : 0..SustainTicks]

\* The level moves only to what every usable hint has asked for over
\* sustain_seconds, and two moves are a cooldown and a sustain apart.
LevelEarned ==
    [][level' # level /\ faults' = faults
         => /\ steady.want = level' /\ steady.age >= SustainTicks
            /\ changeAge >= LongAgo]_fbVars

\* When interactive requests are and stay fast, by more than
\* publish_min_delta_ms below the recovery threshold, and keep coming, the
\* worker's level comes back to HEALTHY, although writes fail and either
\* process is restarted.  The condition on Usable is needed: material_change
\* does not look at sample_count, so a hint published on too few samples stays
\* in the row as long as the p95 stays the same.
CalmTrafficRecovers ==
    <>[]Calm /\ []<>Usable => []<>(level = "healthy")
-----------------------------------------------------------------------------
(* The inductive invariant behind LevelEarned. *)

\* A candidate is what every usable hint has asked for since it became one, and
\* it became one after a cooldown.
EarnedInv ==
    /\ candAge \in 0..SustainTicks /\ changeAge \in 0..LongAgo
    /\ steady \in [want : Levels, age : 0..SustainTicks]
    /\ level \in Levels /\ faults \in Nat
    /\ candidate # "none" =>
         /\ candidate = steady.want
         /\ candAge <= steady.age
         /\ CooldownTicks + candAge <= changeAge

(* The inductive invariant behind FbTypeOK: _trim stops at the first fresh *)
(* sample, so that no old one is left needs the samples to be in order. *)

InOrder(w) == \A i, j \in DOMAIN w : i <= j => w[j].age <= w[i].age

FbInv == FbTypeOK /\ InOrder(window)
=============================================================================
