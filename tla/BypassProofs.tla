---------------------------- MODULE BypassProofs ----------------------------
(***************************************************************************)
(* Machine-checked proof of the bypass bound of BypassHistory, for every   *)
(* set of evaluations, workers and limits.                                 *)
(***************************************************************************)
EXTENDS BypassHistory, EvaluationQueueProofs

-----------------------------------------------------------------------------
(* What a step does to the scheduler row and to the selected heads. *)

\* The claim of w marks the row e behind its head.
Pass(w, e) ==
    /\ pc[w] = "bypass"
    /\ e \in Queued /\ row[e].cls = "light"
    /\ blockedHeavy' = head[w]
    /\ lightBypass' = BypassCount(w) + 1
    /\ Claim(w, e)

\* Worker w keeps its head, finds it blocked with passes left, selects the
\* first row of the queue, or has no head selected.
HeadStep(w) ==
    \/ pc'[w] \notin {"decide", "bypass"}
    \/ pc'[w] = pc[w] /\ head'[w] = head[w]
    \/ /\ pc[w] = "decide" /\ pc'[w] = "bypass" /\ head'[w] = head[w]
       /\ row[head[w]].cls = "heavy" /\ BypassCount(w) < LightBypassLimit
    \/ /\ pc'[w] = "decide"
       /\ head'[w] \in Queued /\ \A f \in Queued : head'[w] <= f

\* No claim commits: the scheduler row and the QUEUED rows stay as they are.
Quiet ==
    /\ blockedHeavy' = blockedHeavy /\ lightBypass' = lightBypass
    /\ \A e \in Queued : row'[e] = row[e]
    /\ \A w \in Workers :
          /\ pc[w] \in {"decide", "bypass"} => pc'[w] # "exec"
          /\ HeadStep(w)

\* A step of one worker that neither claims nor selects leaves all heads alone.
LEMMA KeepsHeads ==
    ASSUME NEW w \in Workers, NEW p, IInv,
           pc' = [pc EXCEPT ![w] = p], p \notin {"decide", "bypass"},
           p # "exec",
           head' = head \/ head' = [head EXCEPT ![w] = 0]
    PROVE  \A v \in Workers : /\ pc[v] \in {"decide", "bypass"} => pc'[v] # "exec"
                              /\ HeadStep(v)
  BY DEF IInv, TypeOK, HeadStep

\* A claim that gives up has assigned nothing.
LEMMA GiveUpQuiet ==
    ASSUME NEW w \in Workers, IInv, GiveUp(w)
    PROVE  Quiet
<1>1. /\ pc' = [pc EXCEPT ![w] = "idle"] /\ head' = [head EXCEPT ![w] = 0]
      /\ row' = row /\ blockedHeavy' = blockedHeavy /\ lightBypass' = lightBypass
  BY DEF GiveUp
<1> QED
  BY <1>1, KeepsHeads DEF Quiet

\* Taking the lock and reading the head commit nothing.
LEMMA ReadsQuiet ==
    ASSUME NEW w \in Workers, IInv,
           ClaimLock(w) \/ ClaimSelect(w) \/ ClaimBlocked(w)
    PROVE  Quiet
<1>1. CASE GiveUp(w)
  BY <1>1, GiveUpQuiet
<1>2. CASE ~GiveUp(w) /\ ClaimLock(w)
  <2>1. /\ pc' = [pc EXCEPT ![w] = "select"] /\ head' = head
        /\ row' = row /\ blockedHeavy' = blockedHeavy
        /\ lightBypass' = lightBypass
    BY <1>2 DEF ClaimLock, claimVars
  <2> QED
    BY <2>1, KeepsHeads DEF Quiet
<1>3. CASE ~GiveUp(w) /\ ClaimSelect(w)
  <2>1. PICK e \in Queued : /\ \A f \in Queued : e <= f
                            /\ head' = [head EXCEPT ![w] = e]
                            /\ pc' = [pc EXCEPT ![w] = "decide"]
                            /\ UNCHANGED <<dbVars, lim, jobVars, live, crashes>>
    BY <1>3 DEF ClaimSelect
  <2>2. row' = row /\ blockedHeavy' = blockedHeavy /\ lightBypass' = lightBypass
    BY <2>1 DEF dbVars
  <2>3. \A v \in Workers : /\ pc[v] \in {"decide", "bypass"} => pc'[v] # "exec"
                           /\ HeadStep(v)
    BY <2>1 DEF IInv, TypeOK, HeadStep
  <2> QED
    BY <2>2, <2>3 DEF Quiet
<1>4. CASE ~GiveUp(w) /\ ClaimBlocked(w)
  <2>1. /\ pc[w] = "decide" /\ row[head[w]].cls = "heavy"
        /\ BypassCount(w) < LightBypassLimit
        /\ pc' = [pc EXCEPT ![w] = "bypass"] /\ head' = head
        /\ row' = row /\ blockedHeavy' = blockedHeavy
        /\ lightBypass' = lightBypass
    BY <1>4 DEF ClaimBlocked, HeadBlocked, dbVars, claimVars
  <2>2. \A v \in Workers : /\ pc[v] \in {"decide", "bypass"} => pc'[v] # "exec"
                           /\ HeadStep(v)
    BY <2>1 DEF IInv, TypeOK, HeadStep
  <2> QED
    BY <2>1, <2>2 DEF Quiet
<1> QED
  BY <1>1, <1>2, <1>3, <1>4

\* Nothing a worker does outside a claim touches the scheduler row or a row
\* that waits in the queue.
LEMMA WorkQuiet ==
    ASSUME NEW w \in Workers, IInv,
           \/ Poll(w) \/ ExecuteStep(w) \/ PersistStarted(w)
           \/ ResultStep(w) \/ Crash(w) \/ RecoverStep(w)
    PROVE  Quiet
<1>1. CASE Poll(w)
  <2>1. /\ pc' = [pc EXCEPT ![w] = "claim"] /\ head' = head
        /\ row' = row /\ blockedHeavy' = blockedHeavy
        /\ lightBypass' = lightBypass
    BY <1>1 DEF Poll, dbVars
  <2> QED
    BY <2>1, KeepsHeads DEF Quiet
<1>2. CASE ExecuteStep(w)
  <2>1. /\ \/ pc' = [pc EXCEPT ![w] = "spawned"]
           \/ pc' = [pc EXCEPT ![w] = "ended"]
        /\ head' = head /\ row' = row /\ blockedHeavy' = blockedHeavy
        /\ lightBypass' = lightBypass
    BY <1>2 DEF ExecuteStep, Spawn, StartFailure, ExecutorReturns, dbVars,
       claimVars
  <2> QED
    BY <2>1, KeepsHeads DEF Quiet
<1>3. CASE PersistStarted(w)
  <2>1. /\ pc' = pc /\ head' = head /\ blockedHeavy' = blockedHeavy
        /\ lightBypass' = lightBypass
    BY <1>3 DEF PersistStarted, claimVars
  <2>2. \A e \in Queued : row'[e] = row[e]
    BY <1>3, PersistStartedRow DEF Queued, With
  <2> QED
    BY <2>1, <2>2 DEF Quiet, HeadStep
<1>4. CASE ResultStep(w)
  <2>1. /\ pc' = [pc EXCEPT ![w] = "idle"] /\ head' = head
        /\ blockedHeavy' = blockedHeavy /\ lightBypass' = lightBypass
    BY <1>4 DEF ResultStep, MarkSucceeded, MarkFailed, ReleaseForRetry,
       DeferEscalation, Write, BackToIdle, claimVars
  <2>2. \A e \in Queued : row'[e] = row[e]
    <3>1. CASE Owns(w)
      BY <1>4, <3>1, ResultWrite DEF Queued, With
    <3>2. CASE ~Owns(w)
      BY <1>4, <3>2 DEF ResultStep, MarkSucceeded, MarkFailed,
         ReleaseForRetry, DeferEscalation, Write
    <3> QED
      BY <3>1, <3>2
  <2> QED
    BY <2>1, <2>2, KeepsHeads DEF Quiet
<1>5. CASE Crash(w)
  <2>1. /\ pc' = [pc EXCEPT ![w] = "idle"] /\ head' = [head EXCEPT ![w] = 0]
        /\ row' = row /\ blockedHeavy' = blockedHeavy
        /\ lightBypass' = lightBypass
    BY <1>5 DEF Crash, BackToIdle
  <2> QED
    BY <2>1, KeepsHeads DEF Quiet
<1>6. CASE RecoverStep(w)
  <2>1. PICK S, Stuck : Recover(w, S, Stuck)
    BY <1>6 DEF RecoverStep
  <2>2. /\ pc' = pc /\ head' = head /\ blockedHeavy' = blockedHeavy
        /\ lightBypass' = lightBypass
    BY <2>1 DEF Recover, claimVars
  <2>3. \A e \in Queued : row'[e] = row[e]
    BY <2>1, RecoverRows DEF Queued, Running, With
  <2> QED
    BY <2>2, <2>3 DEF Quiet, HeadStep
<1> QED
  BY <1>1, <1>2, <1>3, <1>4, <1>5, <1>6

\* Every step claims a head, passes one, or is quiet.
LEMMA SchedulerStep ==
    ASSUME IInv, [Next]_vars
    PROVE  \/ \E w \in Workers : ClaimHead(w)
           \/ \E w \in Workers : \E e \in Evals : Pass(w, e)
           \/ Quiet
<1>1. CASE UNCHANGED vars
  BY <1>1 DEF vars, dbVars, claimVars, Quiet, HeadStep
<1>2. ASSUME NEW e \in Evals, NEW k \in Kinds, Submit(e, k) PROVE Quiet
  <2>1. /\ pc' = pc /\ head' = head /\ blockedHeavy' = blockedHeavy
        /\ lightBypass' = lightBypass
    BY <1>2 DEF Submit, claimVars
  <2>2. \A f \in Queued : row'[f] = row[f]
    BY <1>2, SubmitRow DEF Queued, With
  <2> QED
    BY <2>1, <2>2 DEF Quiet, HeadStep
<1>3. ASSUME NEW p \in live, ProcessExits(p) PROVE Quiet
  BY <1>3 DEF ProcessExits, dbVars, claimVars, Quiet, HeadStep
<1>4. ASSUME NEW w \in Workers, ClaimBypass(w)
      PROVE  Quiet \/ \E e \in Evals : Pass(w, e)
  <2>1. CASE GiveUp(w)
    BY <2>1, GiveUpQuiet
  <2>2. CASE ~GiveUp(w)
    BY <1>4, <2>2 DEF ClaimBypass, IsSuccessor, Pass
  <2> QED
    BY <2>1, <2>2
<1>5. ASSUME NEW w \in Workers, ClaimStep(w)
      PROVE  Quiet \/ ClaimHead(w) \/ \E e \in Evals : Pass(w, e)
  BY <1>4, <1>5, ReadsQuiet DEF ClaimStep
<1>6. CASE Next
  BY <1>2, <1>3, <1>5, <1>6, WorkQuiet DEF Next
<1> QED
  BY <1>1, <1>6

-----------------------------------------------------------------------------
(* The three kinds of step keep the invariant. *)

\* A quiet step counts nothing.
LEMMA QuietStreak ==
    ASSUME StreakInv, Quiet, HistNext
    PROVE  streak' = streak
<1>1. ~HeadClaimed /\ \A h \in Evals : ~Passed(h)
  BY DEF Quiet, HeadClaimed, Passed
<1> QED
  BY <1>1 DEF HistNext, StreakInv

\* A quiet step keeps the invariant: rows with passes on record stay queued,
\* and a newly selected head is the first of the queue.
LEMMA QuietKeepsInv ==
    ASSUME IInv, BypassInv, Quiet, streak' = streak
    PROVE  BypassInv'
<1> USE EvalsAssumption, BoundsAssumption
<1>1. \A e \in Queued : e \in Queued' /\ row'[e] = row[e] /\ e \in Evals
  BY DEF Quiet, Queued, With
<1>2. MarkInv' /\ StreakInv' /\ BypassStreakBound'
  BY <1>1 DEF BypassInv, MarkInv, StreakInv, BypassStreakBound, Quiet
<1>3. HeadInv'
  <2> SUFFICES ASSUME NEW w \in Workers, pc'[w] \in {"decide", "bypass"}
               PROVE  /\ blockedHeavy # 0 => head'[w] <= blockedHeavy
                      /\ \A h \in Evals : streak[h] > 0 => head'[w] <= h
                      /\ pc'[w] = "bypass" =>
                           /\ row'[head'[w]].cls = "heavy"
                           /\ BypassCount(w)' < LightBypassLimit
    BY DEF HeadInv, Quiet
  <2>1. CASE head'[w] \in Queued /\ (\A f \in Queued : head'[w] <= f)
             /\ pc'[w] = "decide"
    BY <2>1 DEF BypassInv, MarkInv, StreakInv
  <2>2. CASE /\ pc[w] \in {"decide", "bypass"} /\ head'[w] = head[w]
             /\ pc'[w] = "bypass" =>
                  /\ row[head[w]].cls = "heavy"
                  /\ BypassCount(w) < LightBypassLimit
    <3>1. head[w] \in Queued
      BY <2>2 DEF IInv, ClaimInv
    <3>2. BypassCount(w)' = BypassCount(w)
      BY <2>2 DEF BypassCount, Quiet
    <3> QED
      BY <1>1, <2>2, <3>1, <3>2 DEF BypassInv, HeadInv
  <2> QED
    BY <2>1, <2>2 DEF Quiet, HeadStep, BypassInv, HeadInv
<1> QED
  BY <1>2, <1>3 DEF BypassInv

\* The claim of a head starts all counts afresh.
LEMMA ClaimHeadKeepsInv ==
    ASSUME NEW w \in Workers, IInv, BypassInv, HistNext, ClaimHead(w)
    PROVE  BypassInv'
<1> USE EvalsAssumption, BoundsAssumption
<1>1. /\ pc[w] = "decide" /\ pc' = [pc EXCEPT ![w] = "exec"]
      /\ blockedHeavy' = 0 /\ lightBypass' = 0
  BY DEF ClaimHead, Claim
<1>2. HeadClaimed
  BY <1>1 DEF HeadClaimed, IInv, TypeOK
<1>3. streak' = [h \in Evals |-> 0]
  BY <1>2 DEF HistNext
<1>4. \A v \in Workers : pc'[v] \notin {"decide", "bypass"}
  BY <1>1 DEF IInv, TypeOK, LockInv, Locking
<1> QED
  BY <1>1, <1>3, <1>4
  DEF BypassInv, MarkInv, StreakInv, HeadInv, BypassStreakBound

\* A pass is counted for the head it passes and for no other, and only while
\* the counter of the scheduler row covers the passes on record.
LEMMA PassKeepsInv ==
    ASSUME NEW w \in Workers, NEW e \in Evals, IInv, BypassInv, HistNext,
           Pass(w, e)
    PROVE  BypassInv'
<1> USE EvalsAssumption, BoundsAssumption
<1> DEFINE h == head[w]
<1>1. /\ pc[w] = "bypass" /\ pc' = [pc EXCEPT ![w] = "exec"]
      /\ blockedHeavy' = h /\ lightBypass' = BypassCount(w) + 1
      /\ e \in Queued /\ row[e].cls = "light"
  BY DEF Pass, Claim
<1>2. h \in Queued /\ h \in Evals /\ row[h].cls = "heavy" /\ h # 0 /\ h \in Nat
  BY <1>1 DEF IInv, ClaimInv, BypassInv, HeadInv, Queued, With
<1>3. \A f \in Evals : f # e => row'[f] = row[f]
  BY <1>1, ClaimRow DEF Pass
<1>4. \A f \in Queued : row[f].cls = "heavy" => f \in Queued' /\ row'[f].cls = "heavy"
  BY <1>1, <1>3 DEF Queued, With
<1>5. \A v \in Workers : pc'[v] \notin {"decide", "bypass"}
  BY <1>1 DEF IInv, TypeOK, LockInv, Locking
<1>6. ~HeadClaimed /\ \A g \in Evals : Passed(g) <=> g = h
  BY <1>1 DEF IInv, TypeOK, LockInv, Locking, HeadClaimed, Passed
<1>7. /\ streak' \in [Evals -> Nat]
      /\ streak'[h] = streak[h] + 1
      /\ \A g \in Evals : g # h => streak'[g] = streak[g]
  <2> DEFINE c(g) == IF g = h THEN streak[g] + 1 ELSE streak[g]
  <2>0. streak \in [Evals -> Nat]
    BY DEF BypassInv, StreakInv
  <2>1. \A g \in Evals : streak[g] \in Nat /\ c(g) \in Nat
    BY <2>0
  <2>2. streak' = [g \in Evals |-> IF HeadClaimed THEN 0
                                  ELSE IF Passed(g) THEN streak[g] + 1
                                  ELSE streak[g]]
    BY DEF HistNext
  <2>3. \A g \in Evals : streak'[g] = c(g)
    BY <1>6, <2>2
  <2>4. streak' = [g \in Evals |-> c(g)]
    BY <2>2, <2>3
  <2> QED
    BY <1>2, <2>1, <2>4
<1>8. BypassCount(w) \in Nat /\ BypassCount(w) < LightBypassLimit
  BY <1>1 DEF BypassCount, IInv, TypeOK, BypassInv, HeadInv
<1>9. streak[h] \in Nat /\ streak[h] <= BypassCount(w)
  <2>1. CASE streak[h] > 0
    <3>1. blockedHeavy # 0 /\ blockedHeavy <= h
      BY <1>2, <2>1 DEF BypassInv, StreakInv
    <3>2. h <= blockedHeavy
      BY <1>1, <3>1 DEF BypassInv, HeadInv
    <3>3. blockedHeavy \in Nat
      BY DEF IInv, TypeOK
    <3>4. blockedHeavy = h
      BY <1>2, <3>1, <3>2, <3>3
    <3> QED
      BY <1>2, <3>4 DEF BypassCount, BypassInv, StreakInv
  <2> QED
    BY <1>2, <1>8, <2>1 DEF BypassInv, StreakInv
<1>10. MarkInv'
  BY <1>1, <1>2, <1>4 DEF MarkInv
<1>11. StreakInv'
  <2>1. ASSUME NEW g \in Evals, streak'[g] > 0
        PROVE  g \in Queued' /\ row'[g].cls = "heavy" /\ h <= g
    <3>1. CASE g = h
      BY <1>2, <1>4, <3>1
    <3>2. CASE g # h
      BY <1>1, <1>4, <1>7, <2>1, <3>2 DEF BypassInv, StreakInv, HeadInv
    <3> QED
      BY <3>1, <3>2
  <2>2. streak'[h] <= lightBypass'
    BY <1>1, <1>7, <1>8, <1>9
  <2> QED
    BY <1>1, <1>2, <1>7, <2>1, <2>2 DEF StreakInv
<1>12. HeadInv'
  BY <1>5 DEF HeadInv
<1>13. BypassStreakBound'
  BY <1>7, <1>8, <1>9 DEF BypassInv, BypassStreakBound
<1> QED
  BY <1>10, <1>11, <1>12, <1>13 DEF BypassInv

-----------------------------------------------------------------------------
(* The theorem. *)

\* The history variable observes: a behaviour with it is one of the queue.
THEOREM HistoryObserves == HistSpec => Spec
<1>1. HistInit => Init
  BY DEF HistInit
<1>2. [HistNext]_histVars => [Next]_vars
  BY DEF HistNext, histVars
<1> QED
  BY <1>1, <1>2, PTL DEF HistSpec, Spec

\* However claims of several workers interleave with submissions, deferrals,
\* retries, recoveries and crashes, the scheduler row bounds how often a HEAVY
\* head is passed before a head is claimed.
THEOREM BypassBounded == HistSpec => []BypassStreakBound
<1>1. HistInit => BypassInv
  BY BoundsAssumption, EvalsAssumption
  DEF HistInit, Init, BypassInv, MarkInv, StreakInv, HeadInv,
      BypassStreakBound
<1>2. ASSUME IInv, BypassInv, [HistNext]_histVars
      PROVE  BypassInv'
  <2>1. CASE UNCHANGED histVars
    <3>1. Quiet /\ streak' = streak
      BY <2>1 DEF histVars, vars, dbVars, claimVars, Quiet, HeadStep
    <3> QED
      BY <1>2, <3>1, QuietKeepsInv
  <2>2. CASE HistNext
    <3>1. Next
      BY <2>2 DEF HistNext
    <3>2. CASE Quiet
      BY <1>2, <2>2, <3>2, QuietStreak, QuietKeepsInv DEF BypassInv
    <3> QED
      BY <1>2, <2>2, <3>1, <3>2, SchedulerStep, ClaimHeadKeepsInv,
         PassKeepsInv
  <2> QED
    BY <1>2, <2>1, <2>2
<1>3. BypassInv => BypassStreakBound
  BY DEF BypassInv
<1> QED
  BY <1>1, <1>2, <1>3, HistoryObserves, InductiveInvariant, PTL DEF HistSpec
=============================================================================
