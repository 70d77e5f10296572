---------------------------- MODULE ProgressProofs ----------------------------
(***************************************************************************)
(* Machine-checked proofs about the components MCProgress composes: the    *)
(* request coalescer, for any number of calls and keys, and the latency    *)
(* feedback, for all thresholds, times and latencies.                      *)
(***************************************************************************)
EXTENDS MCProgress, SequenceTheorems, FiniteSetTheorems, TLAPS

(***************************************************************************)
(* RequestCoalescer                                                        *)
(***************************************************************************)

\* OneComputationPerKey is not inductive alone: that only the call that is
\* registered releases a key needs that a computing call has one.
Registered ==
    /\ \A c \in Calls : call[c] = "computing" =>
          keyOf[c] \in Keys /\ inflight[keyOf[c]] = c
    /\ \A k \in Keys : inflight[k] # NoCall =>
          call[inflight[k]] = "computing" /\ keyOf[inflight[k]] = k

\* Registration, call by call, gives the property, key by key.
LEMMA RegisteredIsOne ==
    ASSUME CoTypeOK, Registered
    PROVE  OneComputationPerKey
  BY CoalescerAssumption DEF Registered, CoTypeOK, OneComputationPerKey

\* Nothing is registered at first.
LEMMA CoInitInv == CoInit => CoTypeOK /\ Registered
  BY CoalescerAssumption DEF CoInit, CoTypeOK, Registered, CallStates, Futures

\* Every step of a call keeps the types and the registration.
LEMMA CoNextInv ==
    ASSUME CoTypeOK, Registered, [CoNext]_coVars
    PROVE  CoTypeOK' /\ Registered'
<1> USE CoalescerAssumption DEF CallStates, Futures
<1>1. ASSUME NEW c \in Calls, NEW k \in Keys, Lead(c, k)
      PROVE  CoTypeOK' /\ Registered'
  <2>1. CoTypeOK'
    BY <1>1 DEF CoTypeOK, Lead
  <2>2. Registered'
    BY <1>1 DEF CoTypeOK, Registered, Lead
  <2> QED
    BY <2>1, <2>2
<1>2. ASSUME NEW c \in Calls, NEW k \in Keys, Join(c, k)
      PROVE  CoTypeOK' /\ Registered'
  <2>1. CoTypeOK'
    BY <1>2 DEF CoTypeOK, Join
  <2>2. Registered'
    BY <1>2 DEF CoTypeOK, Registered, Join
  <2> QED
    BY <2>1, <2>2
<1>3. ASSUME NEW c \in Calls,
             ComputeReturns(c) \/ ComputeRaises(c) \/ LeaderCancelled(c)
      PROVE  CoTypeOK' /\ Registered'
  <2>1. PICK o \in {"returned", "raised", "cancelled"},
             f \in {"result", "exception", "pending"} : Finish(c, o, f)
    BY <1>3 DEF ComputeReturns, ComputeRaises, LeaderCancelled
  <2>2. keyOf[c] \in Keys /\ inflight[keyOf[c]] = c
    BY <2>1 DEF Registered, Finish
  <2>3. CoTypeOK'
    BY <2>1, <2>2 DEF CoTypeOK, Finish
  <2>4. Registered'
    BY <2>1, <2>2 DEF CoTypeOK, Registered, Finish
  <2> QED
    BY <2>3, <2>4
<1>4. ASSUME NEW c \in Calls, Released(c) \/ JoinerCancelled(c)
      PROVE  CoTypeOK' /\ Registered'
  <2>1. PICK o \in {"returned", "raised", "cancelled"} :
             /\ call[c] = "waiting" /\ call' = [call EXCEPT ![c] = o]
             /\ UNCHANGED <<keyOf, inflight, joined, future>>
    BY <1>4 DEF Released, JoinerCancelled
  <2>2. CoTypeOK'
    BY <2>1 DEF CoTypeOK
  <2>3. Registered'
    BY <2>1 DEF CoTypeOK, Registered
  <2> QED
    BY <2>2, <2>3
<1>5. CASE UNCHANGED coVars
  BY <1>5 DEF coVars, CoTypeOK, Registered
<1> QED
  BY <1>1, <1>2, <1>3, <1>4, <1>5 DEF CoNext

\* However calls with one key fail, are cancelled or join late, at most one
\* of them computes, and the future registered for a key is that of a call
\* that computes.
THEOREM OneComputation == CoSpec => []OneComputationPerKey
<1>1. CoInit => CoTypeOK /\ Registered
  BY CoInitInv
<1>2. CoTypeOK /\ Registered /\ [CoNext]_coVars => (CoTypeOK /\ Registered)'
  BY CoNextInv
<1>3. CoTypeOK /\ Registered => OneComputationPerKey
  BY RegisteredIsOne
<1> QED
  BY <1>1, <1>2, <1>3, PTL DEF CoSpec

(***************************************************************************)
(* InteractiveFeedback                                                     *)
(***************************************************************************)

\* _desired_level returns a level.
LEMMA DesiredType ==
    ASSUME EarnedInv, NEW p
    PROVE  Desired(p) \in Levels
  BY DEF Desired, Levels

\* Steps of the API process and of the publisher do not touch the worker.
LEMMA PublisherSteps ==
    ASSUME EarnedInv, FbNext, ~Update, ~RestartWorker, ~TimePasses
    PROVE  /\ UNCHANGED <<level, candidate, candAge, changeAge, steady>>
           /\ faults' \in Nat
<1>1. faults \in Nat
  BY DEF EarnedInv
<1>2. CASE \E ms \in Latencies : RecordWall(ms)
  BY <1>1, <1>2 DEF RecordWall, workerSide
<1>3. CASE \E moved \in BOOLEAN : PublisherWakes(moved) \/ FinalFlush(moved)
  BY <1>1, <1>3 DEF PublisherWakes, FinalFlush, PersistBegin, workerSide
<1>4. CASE PersistCommit \/ PersistFail \/ StopBackground
           \/ \E committed \in BOOLEAN : CancelPublisher(committed)
  BY <1>1, <1>4 DEF PersistCommit, PersistFail, StopBackground,
     CancelPublisher, workerSide
<1>5. CASE KillApi \/ StartApi
  BY <1>1, <1>5 DEF KillApi, StartApi, workerSide
<1> QED
  BY <1>2, <1>3, <1>4, <1>5 DEF FbNext

\* What one tick of the worker does to its level and its candidate.
LEMMA UpdateStep ==
    ASSUME EarnedInv, Update
    PROVE  /\ EarnedInv'
           /\ level' # level => /\ steady.want = level'
                                /\ steady.age >= SustainTicks
                                /\ changeAge >= LongAgo
<1> DEFINE want == Desired(hint.p95)
<1>1. want \in Levels /\ want # "none"
  BY DesiredType DEF Levels
<1>2. /\ SustainTicks \in Nat /\ CooldownTicks \in Nat
  BY FeedbackAssumption
<1>3. /\ Decide(want) /\ faults' = faults
      /\ steady' = IF want = steady.want THEN steady
                   ELSE [want |-> want, age |-> 0]
  BY DEF Update
<1>4. /\ steady.age \in 0..SustainTicks /\ steady.want \in Levels
      /\ candAge \in 0..SustainTicks /\ changeAge \in 0..LongAgo
  BY DEF EarnedInv
<1>5. /\ steady' \in [want : Levels, age : 0..SustainTicks]
      /\ steady'.want = want /\ steady'.age \in Nat
      /\ steady.want = want => steady' = steady
  BY <1>1, <1>2, <1>3, <1>4 DEF EarnedInv
<1> HIDE DEF want
<1>6. CASE want = level
  BY <1>1, <1>2, <1>3, <1>4, <1>5, <1>6 DEF Decide, EarnedInv
<1>7. CASE want # level /\ changeAge < CooldownTicks
  <2>1. candidate = "none" /\ UNCHANGED workerSide
    BY <1>2, <1>3, <1>4, <1>7 DEF Decide, EarnedInv
  <2> QED
    BY <1>3, <1>5, <2>1 DEF EarnedInv, workerSide
<1>8. CASE want # level /\ ~(changeAge < CooldownTicks) /\ candidate # want
  <2>1. candidate' = want /\ candAge' = 0 /\ UNCHANGED <<level, changeAge>>
    BY <1>3, <1>8 DEF Decide
  <2> QED
    BY <1>2, <1>3, <1>4, <1>5, <1>8, <2>1 DEF EarnedInv, LongAgo
<1>9. CASE want # level /\ ~(changeAge < CooldownTicks) /\ candidate = want
  <2>1. /\ steady.want = want /\ steady' = steady /\ candAge <= steady.age
        /\ CooldownTicks + candAge <= changeAge
    BY <1>1, <1>5, <1>9 DEF EarnedInv
  <2>2. CASE candAge < SustainTicks
    <3>1. UNCHANGED workerSide
      BY <1>3, <1>9, <2>2 DEF Decide
    <3> QED
      BY <1>3, <2>1, <3>1 DEF EarnedInv, workerSide
  <2>3. CASE ~(candAge < SustainTicks)
    <3>1. level' = want /\ candidate' = "none" /\ candAge' = 0 /\ changeAge' = 0
      BY <1>3, <1>9, <2>3 DEF Decide
    <3> QED
      BY <1>1, <1>2, <1>3, <1>4, <1>5, <2>1, <2>3, <3>1 DEF EarnedInv, LongAgo
  <2> QED
    BY <2>2, <2>3
<1> QED
  BY <1>6, <1>7, <1>8, <1>9

\* Time ages the candidate, the hints and the last change together.
LEMMA TimeStep ==
    ASSUME EarnedInv, TimePasses
    PROVE  EarnedInv'
<1>1. SustainTicks \in Nat /\ CooldownTicks \in Nat
  BY FeedbackAssumption
<1>2. /\ level' = level /\ faults' = faults /\ candidate' = candidate
      /\ candAge' = IF candidate = "none" THEN 0 ELSE Aged(candAge, SustainTicks)
      /\ changeAge' = Aged(changeAge, LongAgo)
  BY DEF TimePasses
<1>3. /\ steady' \in [want : Levels, age : 0..SustainTicks]
      /\ steady'.want = steady.want
      /\ steady'.age = Aged(steady.age, SustainTicks)
      /\ steady.age \in 0..SustainTicks
  BY <1>1 DEF EarnedInv, TimePasses, Aged
<1> QED
  BY <1>1, <1>2, <1>3 DEF EarnedInv, Aged, LongAgo

\* The invariant is inductive.
LEMMA EarnedNext ==
    ASSUME EarnedInv, [FbNext]_fbVars
    PROVE  EarnedInv'
<1>1. CASE UNCHANGED fbVars
  BY <1>1 DEF EarnedInv, fbVars, workerSide
<1>2. CASE Update
  BY <1>2, UpdateStep
<1>3. CASE TimePasses
  BY <1>3, TimeStep
<1>4. CASE RestartWorker
  <2>1. SustainTicks \in Nat /\ CooldownTicks \in Nat
    BY FeedbackAssumption
  <2> QED
    BY <1>4, <2>1 DEF RestartWorker, EarnedInv, Levels, LongAgo
<1>5. CASE FbNext /\ ~Update /\ ~TimePasses /\ ~RestartWorker
  <2>1. /\ UNCHANGED <<level, candidate, candAge, changeAge, steady>>
        /\ faults' \in Nat
    BY <1>5, PublisherSteps
  <2> QED
    BY <2>1 DEF EarnedInv
<1> QED
  BY <1>1, <1>2, <1>3, <1>4, <1>5

\* The controller changes its level only to what every usable hint has asked
\* for over sustain_seconds, and a cooldown and a sustain after the last
\* change, however hints are published, lost, stale or too small, and whatever
\* is restarted.
THEOREM LevelIsEarned == FbSpec => LevelEarned
<1>1. FbInit => EarnedInv
  <2>1. SustainTicks \in Nat /\ CooldownTicks \in Nat
    BY FeedbackAssumption
  <2> QED
    BY <2>1 DEF FbInit, EarnedInv, Levels, LongAgo
<1>2. EarnedInv /\ [FbNext]_fbVars => EarnedInv'
  BY EarnedNext
<1>3. EarnedInv /\ [FbNext]_fbVars =>
        [level' # level /\ faults' = faults
           => /\ steady.want = level' /\ steady.age >= SustainTicks
              /\ changeAge >= LongAgo]_fbVars
  <2> SUFFICES ASSUME EarnedInv, FbNext, level' # level, faults' = faults
               PROVE  /\ steady.want = level' /\ steady.age >= SustainTicks
                      /\ changeAge >= LongAgo
    BY DEF fbVars
  <2>1. ~RestartWorker
    BY DEF RestartWorker, EarnedInv
  <2>2. ~TimePasses
    BY DEF TimePasses
  <2>3. Update
    BY <2>1, <2>2, PublisherSteps
  <2> QED
    BY <2>3, UpdateStep
<1> QED
  BY <1>1, <1>2, <1>3, PTL DEF FbSpec, LevelEarned

-----------------------------------------------------------------------------
(* Least and greatest members. *)

\* Every set of natural numbers that has a member has a least one.
LEMMA LeastExists ==
    ASSUME NEW T \in SUBSET Nat, T # {}
    PROVE  \E x \in T : \A y \in T : x <= y
<1> DEFINE R == OpToRel(<, Nat)
<1>1. \E x \in T : \A y \in T : ~(<<y, x>> \in R)
  BY NatLessThanWellFounded, WFMin
<1>2. \A x, y \in Nat : y < x => <<y, x>> \in R
  BY DEF OpToRel
<1> HIDE DEF R
<1>3. PICK x \in T : \A y \in T : ~(<<y, x>> \in R)
  BY <1>1
<1>4. \A y \in T : ~(y < x)
  BY <1>2, <1>3
<1>5. \A y \in T : y \in Nat /\ x \in Nat
  OBVIOUS
<1>6. \A y \in T : x <= y
  BY <1>4, <1>5
<1> QED
  BY <1>6

\* A finite one has a greatest one: the member with the fewest above it.
LEMMA GreatestExists ==
    ASSUME NEW T \in SUBSET Nat, T # {}, IsFiniteSet(T)
    PROVE  \E x \in T : \A y \in T : y <= x
<1> DEFINE Above(x) == {y \in T : y > x}
           N == {Cardinality(Above(x)) : x \in T}
<1>1. \A x \in T : IsFiniteSet(Above(x)) /\ Cardinality(Above(x)) \in Nat
  <2> TAKE x \in T
  <2>1. Above(x) \in SUBSET T
    OBVIOUS
  <2>2. IsFiniteSet(Above(x))
    BY <2>1, FS_Subset
  <2> QED
    BY <2>2, FS_CardinalityType
<1>2. N \in SUBSET Nat /\ N # {}
  BY <1>1
<1>3. PICK n \in N : \A m \in N : n <= m
  BY <1>2, LeastExists
<1>4. PICK x \in T : n = Cardinality(Above(x))
  BY <1>3
<1>5. ASSUME NEW y \in T, y > x
      PROVE  FALSE
  <2>0. \A z \in T : z \in Nat
    OBVIOUS
  <2>1. Above(y) \in SUBSET Above(x) /\ y \in Above(x) /\ y \notin Above(y)
    <3>1. x \in Nat /\ y \in Nat /\ ~(y > y)
      BY <2>0
    <3>2. \A z \in T : z > y => z > x
      BY <1>5, <2>0
    <3> QED
      BY <1>5, <3>1, <3>2
  <2>2. Cardinality(Above(y)) \in N
    BY DEF N
  <2>3. Cardinality(Above(x)) <= Cardinality(Above(y))
    BY <1>3, <1>4, <2>2
  <2>4. Cardinality(Above(y)) <= Cardinality(Above(x))
    BY <1>1, <2>1, FS_Subset
  <2>5. Cardinality(Above(y)) = Cardinality(Above(x))
    <3>1. Cardinality(Above(y)) \in Nat /\ Cardinality(Above(x)) \in Nat
      BY <1>1
    <3> HIDE DEF Above
    <3> QED
      BY <2>3, <2>4, <3>1
  <2> QED
    BY <1>1, <2>1, <2>5, FS_Subset
<1>6. \A y \in T : y <= x
  <2>1. \A y \in T : y \in Nat
    OBVIOUS
  <2> QED
    BY <1>5, <2>1
<1> QED
  BY <1>6

-----------------------------------------------------------------------------
(* The rolling window. *)

Samples == [ms : Latencies, age : Nat]

\* What is kept of each sample.
LEMMA SampleTypes ==
    ASSUME NEW w \in Seq(Samples)
    PROVE  /\ DOMAIN w = 1..Len(w) /\ Len(w) \in Nat
           /\ \A i \in DOMAIN w : w[i].ms \in Latencies /\ w[i].age \in Nat
<1>1. DOMAIN w = 1..Len(w) /\ Len(w) \in Nat
  BY LenProperties
<1>2. \A i \in 1..Len(w) : w[i] \in Samples
  BY ElementOfSeq
<1> QED
  BY <1>1, <1>2 DEF Samples

\* The samples that satisfy a condition are finitely many.
LEMMA Counted ==
    ASSUME NEW w \in Seq(Samples), NEW S \in SUBSET DOMAIN w
    PROVE  /\ IsFiniteSet(S) /\ Cardinality(S) \in 0..Len(w)
           /\ Cardinality(DOMAIN w) = Len(w)
<1>1. DOMAIN w = 1..Len(w) /\ Len(w) \in Nat
  BY LenProperties
<1>2. IsFiniteSet(DOMAIN w) /\ Cardinality(DOMAIN w) = Len(w)
  <2>1. /\ IsFiniteSet(1..Len(w))
        /\ Cardinality(1..Len(w)) = IF 1 > Len(w) THEN 0 ELSE Len(w) - 1 + 1
    BY <1>1, FS_Interval
  <2> QED
    BY <1>1, <2>1
<1>3. IsFiniteSet(S) /\ Cardinality(S) <= Cardinality(DOMAIN w)
  BY <1>2, FS_Subset
<1>4. Cardinality(S) \in Nat
  BY <1>3, FS_CardinalityType
<1> QED
  BY <1>1, <1>2, <1>3, <1>4

\* The wall times of some of the samples: a finite set of numbers.
LEMMA TimesFinite ==
    ASSUME NEW w \in Seq(Samples), NEW S \in SUBSET DOMAIN w, S # {}
    PROVE  \E i \in S : \A j \in S : w[j].ms <= w[i].ms
<1> DEFINE T == {w[i].ms : i \in S}
<1>1. \A i \in DOMAIN w : w[i].ms \in Latencies
  BY SampleTypes
<1>2. T \in SUBSET Nat /\ T # {}
  BY <1>1, FeedbackAssumption
<1>3. IsFiniteSet(T)
  <2>1. IsFiniteSet(S)
    BY Counted
  <2>2. [i \in S |-> w[i].ms] \in Surjection(S, T)
    BY DEF Surjection
  <2> QED
    BY <2>1, <2>2, FS_Surjection
<1>4. PICK x \in T : \A y \in T : y <= x
  BY <1>2, <1>3, GreatestExists
<1> QED
  BY <1>4

\* percentile of a window that is not empty is one of its wall times: the
\* rank is one of the samples', so the CHOOSE of Percentile has a witness.
LEMMA PercentileIsMeasured ==
    ASSUME NEW w \in Seq(Samples), w # <<>>
    PROVE  Percentile(w) \in Values(w) /\ Percentile(w) \in Latencies
<1> DEFINE k == (Len(w) * 95 + 99) \div 100
           UpTo(v) == {i \in DOMAIN w : w[i].ms <= v}
           Below(v) == {i \in DOMAIN w : w[i].ms < v}
           T == {v \in Values(w) : Cardinality(UpTo(v)) >= k}
<1>1. Len(w) \in Nat /\ Len(w) # 0 /\ DOMAIN w = 1..Len(w)
  BY LenProperties, EmptySeq
<1>2. k \in 1..Len(w)
  BY <1>1
<1>3. \A i \in DOMAIN w : w[i].ms \in Latencies /\ w[i].ms \in Nat
  BY SampleTypes, FeedbackAssumption
<1>4. Values(w) \subseteq Latencies /\ Values(w) \subseteq Nat
  BY <1>3 DEF Values
<1> HIDE DEF k
<1>5. T # {}
  <2>1. PICK i \in DOMAIN w : \A j \in DOMAIN w : w[j].ms <= w[i].ms
    <3>1. DOMAIN w \in SUBSET DOMAIN w /\ DOMAIN w # {}
      BY <1>1
    <3> QED
      BY <3>1, TimesFinite
  <2>2. UpTo(w[i].ms) = DOMAIN w
    BY <2>1
  <2>3. Cardinality(UpTo(w[i].ms)) = Len(w)
    BY <2>2, Counted
  <2>4. w[i].ms \in Values(w)
    BY DEF Values
  <2> QED
    BY <1>1, <1>2, <2>3, <2>4
<1>6. T \in SUBSET Nat
  BY <1>4
<1>7. PICK v \in T : \A u \in T : v <= u
  BY <1>5, <1>6, LeastExists
<1>8. Cardinality(Below(v)) < k
  <2> SUFFICES ASSUME ~(Cardinality(Below(v)) < k)
               PROVE  FALSE
    OBVIOUS
  <2>1. Below(v) \in SUBSET DOMAIN w
    OBVIOUS
  <2>2. Cardinality(Below(v)) \in Nat /\ Cardinality(Below(v)) >= k
    BY <1>1, <1>2, <2>1, Counted
  <2>3. Below(v) # {}
    <3>1. Cardinality(Below(v)) # 0
      BY <1>2, <2>2
    <3> QED
      BY <3>1, FS_EmptySet
  <2>4. PICK i \in Below(v) : \A j \in Below(v) : w[j].ms <= w[i].ms
    BY <2>1, <2>3, TimesFinite
  <2>5. UpTo(w[i].ms) = Below(v)
    <3>1. v \in Nat /\ w[i].ms \in Nat /\ w[i].ms < v
      BY <1>3, <1>6, <1>7, <2>4
    <3>2. \A j \in DOMAIN w : w[j].ms <= w[i].ms <=> w[j].ms < v
      BY <1>3, <2>4, <3>1
    <3> QED
      BY <3>2
  <2>6. w[i].ms \in Values(w)
    BY <2>1 DEF Values
  <2>7. w[i].ms \in T
    BY <2>2, <2>5, <2>6
  <2>8. v \in Nat /\ w[i].ms \in Nat /\ w[i].ms < v
    BY <1>3, <1>6, <1>7, <2>4
  <2> QED
    BY <1>7, <2>7, <2>8
<1>9. \E x \in Values(w) : /\ Cardinality({i \in DOMAIN w : w[i].ms <= x}) >= k
                           /\ Cardinality({i \in DOMAIN w : w[i].ms < x}) < k
  BY <1>7, <1>8
<1>10. Percentile(w) \in Values(w)
  BY <1>9 DEF Percentile, k
<1> QED
  BY <1>4, <1>10

FreshSamples == [ms : Latencies, age : 0..WindowTicks]

\* A window whose oldest samples are dropped is still one.
LEMMA DropOldest ==
    ASSUME NEW S, NEW w \in Seq(S), NEW m \in 1..Len(w), InOrder(w)
    PROVE  /\ SubSeq(w, m, Len(w)) \in Seq(S)
           /\ Len(SubSeq(w, m, Len(w))) = Len(w) - m + 1
           /\ \A i \in 1..(Len(w) - m + 1) :
                 SubSeq(w, m, Len(w))[i] = w[m + i - 1]
           /\ InOrder(SubSeq(w, m, Len(w)))
<1> DEFINE t == SubSeq(w, m, Len(w))
<1>1. Len(w) \in Nat /\ DOMAIN w = 1..Len(w)
  BY LenProperties
<1>2. m \in 1..(Len(w) + 1) /\ Len(w) \in (m - 1)..Len(w) /\ m <= Len(w)
  BY <1>1
<1>3. /\ t \in Seq(S) /\ Len(t) = Len(w) - m + 1
      /\ \A i \in 1..(Len(w) - m + 1) : t[i] = w[m + i - 1]
  BY <1>1, <1>2, SubSeqProperties
<1>4. DOMAIN t = 1..(Len(w) - m + 1)
  BY <1>3, LenProperties
<1> HIDE DEF t
<1>5. InOrder(t)
  <2> SUFFICES ASSUME NEW i \in DOMAIN t, NEW j \in DOMAIN t, i <= j
               PROVE  t[j].age <= t[i].age
    BY DEF InOrder
  <2>1. /\ m + i - 1 \in DOMAIN w /\ m + j - 1 \in DOMAIN w
        /\ m + i - 1 <= m + j - 1
    BY <1>1, <1>2, <1>4
  <2>2. w[m + j - 1].age <= w[m + i - 1].age
    BY <2>1 DEF InOrder
  <2>3. t[i] = w[m + i - 1] /\ t[j] = w[m + j - 1]
    BY <1>3, <1>4
  <2> QED
    BY <2>2, <2>3
<1> QED
  BY <1>3, <1>5 DEF t

\* record: the new sample is the youngest, and max_samples are kept.
LEMMA RecordKeeps ==
    ASSUME NEW w \in Seq(FreshSamples), Len(w) <= MaxSamples, InOrder(w),
           NEW ms \in Latencies
    PROVE  LET t == TrimLong(Append(w, [ms |-> ms, age |-> 0]))
           IN  t \in Seq(FreshSamples) /\ Len(t) <= MaxSamples /\ InOrder(t)
<1> DEFINE e == [ms |-> ms, age |-> 0]
           a == Append(w, e)
           t == TrimLong(a)
<1>1. /\ MaxSamples \in Nat /\ MaxSamples # 0 /\ WindowTicks \in Nat
  BY FeedbackAssumption
<1>2. e \in FreshSamples /\ e.age = 0
  BY <1>1 DEF FreshSamples
<1> HIDE DEF e
<1>3. /\ a \in Seq(FreshSamples) /\ Len(a) = Len(w) + 1
      /\ \A i \in 1..Len(w) : a[i] = w[i]
      /\ a[Len(w) + 1] = e
  BY <1>2, AppendProperties
<1>4. /\ Len(w) \in Nat /\ DOMAIN w = 1..Len(w) /\ DOMAIN a = 1..(Len(w) + 1)
  BY <1>3, LenProperties
<1>5. \A i \in 1..Len(w) : w[i] \in FreshSamples /\ w[i].age \in Nat
  <2>1. \A i \in 1..Len(w) : w[i] \in FreshSamples
    BY ElementOfSeq
  <2> QED
    BY <1>1, <2>1 DEF FreshSamples
<1>6. InOrder(a)
  <2> SUFFICES ASSUME NEW i \in DOMAIN a, NEW j \in DOMAIN a, i <= j
               PROVE  a[j].age <= a[i].age
    BY DEF InOrder
  <2>1. CASE j = Len(w) + 1
    <3>1. a[i].age \in Nat
      BY <1>2, <1>3, <1>4, <1>5
    <3>2. a[j].age = 0
      BY <1>2, <1>3, <2>1
    <3> QED
      BY <3>1, <3>2
  <2>2. CASE j # Len(w) + 1
    <3>1. i \in DOMAIN w /\ j \in DOMAIN w
      BY <1>4, <2>2
    <3>2. w[j].age <= w[i].age
      BY <3>1 DEF InOrder
    <3> QED
      BY <1>3, <1>4, <3>1, <3>2
  <2> QED
    BY <2>1, <2>2
<1> HIDE DEF a
<1>7. CASE Len(a) > MaxSamples
  <2>1. Len(a) = MaxSamples + 1 /\ Len(a) - MaxSamples + 1 = 2
    BY <1>1, <1>3, <1>4, <1>7
  <2>2. t = SubSeq(a, 2, Len(a))
    BY <1>7, <2>1 DEF TrimLong
  <2>3. 2 \in 1..Len(a)
    BY <1>1, <2>1
  <2>4. t \in Seq(FreshSamples) /\ Len(t) = Len(a) - 2 + 1 /\ InOrder(t)
    BY <1>3, <1>6, <2>2, <2>3, DropOldest
  <2> QED
    BY <1>1, <2>1, <2>4 DEF a, e
<1>8. CASE ~(Len(a) > MaxSamples)
  <2>1. t = a
    BY <1>8 DEF TrimLong
  <2>2. Len(a) <= MaxSamples
    BY <1>1, <1>3, <1>4, <1>8
  <2> QED
    BY <1>3, <1>6, <2>1, <2>2 DEF a, e
<1> QED
  BY <1>7, <1>8

\* _trim after a tick: the samples being in order, those that are left are
\* within the window.
LEMMA TickKeeps ==
    ASSUME NEW w \in Seq(FreshSamples), Len(w) <= MaxSamples, InOrder(w)
    PROVE  LET t == TrimOld([i \in DOMAIN w |-> [w[i] EXCEPT !.age = @ + 1]])
           IN  t \in Seq(FreshSamples) /\ Len(t) <= MaxSamples /\ InOrder(t)
<1> DEFINE a == [i \in DOMAIN w |-> [w[i] EXCEPT !.age = @ + 1]]
           fresh == {i \in DOMAIN a : a[i].age <= WindowTicks}
           t == TrimOld(a)
<1>1. MaxSamples \in Nat /\ WindowTicks \in Nat
  BY FeedbackAssumption
<1>2. Len(w) \in Nat /\ DOMAIN w = 1..Len(w)
  BY LenProperties
<1>3. \A i \in 1..Len(w) : /\ w[i] \in FreshSamples /\ w[i].age \in Nat
                           /\ w[i].ms \in Latencies
  <2>1. \A i \in 1..Len(w) : w[i] \in FreshSamples
    BY ElementOfSeq
  <2> QED
    BY <1>1, <2>1 DEF FreshSamples
<1>4. DOMAIN a = 1..Len(w)
  BY <1>2
<1>5. \A i \in 1..Len(w) : a[i] \in Samples /\ a[i].age = w[i].age + 1
  BY <1>2, <1>3 DEF Samples, FreshSamples
<1> HIDE DEF a
<1>6. a \in Seq(Samples) /\ Len(a) = Len(w)
  <2>1. a = [i \in 1..Len(w) |-> a[i]]
    BY <1>4 DEF a
  <2> QED
    BY <1>2, <1>4, <1>5, <2>1
<1>7. InOrder(a)
  BY <1>2, <1>3, <1>4, <1>5 DEF InOrder
<1>8. CASE fresh = {}
  <2>1. t = <<>>
    BY <1>8 DEF TrimOld
  <2> QED
    BY <1>1, <2>1 DEF InOrder, a
<1>9. CASE fresh # {}
  <2>1. fresh \in SUBSET Nat
    BY <1>4
  <2>2. \E i \in fresh : \A j \in fresh : i <= j
    BY <1>9, <2>1, LeastExists
  <2> DEFINE m == CHOOSE i \in fresh : \A j \in fresh : i <= j
  <2>3. m \in fresh
    BY <2>2
  <2>4. t = SubSeq(a, m, Len(a))
    BY <1>9 DEF TrimOld
  <2> HIDE DEF m, t
  <2>5. m \in 1..Len(a) /\ a[m].age <= WindowTicks
    BY <1>4, <1>6, <2>3
  <2>6. /\ t \in Seq(Samples) /\ Len(t) = Len(a) - m + 1 /\ InOrder(t)
        /\ \A i \in 1..(Len(a) - m + 1) : t[i] = a[m + i - 1]
    BY <1>6, <1>7, <2>4, <2>5, DropOldest
  <2>7. Len(t) <= MaxSamples /\ Len(t) \in Nat
    BY <1>1, <1>2, <1>6, <2>5, <2>6
  <2>8. \A i \in 1..Len(t) : t[i] \in FreshSamples
    <3> TAKE i \in 1..Len(t)
    <3>1. /\ m + i - 1 \in DOMAIN a /\ m \in DOMAIN a /\ m <= m + i - 1
          /\ m + i - 1 \in 1..Len(w) /\ m \in 1..Len(w)
          /\ i \in 1..(Len(a) - m + 1)
      BY <1>2, <1>4, <1>6, <2>5, <2>6, <2>7
    <3>2. a[m + i - 1].age <= a[m].age
      BY <1>7, <3>1 DEF InOrder
    <3>3. /\ a[m + i - 1] \in Samples /\ a[m + i - 1].age \in Nat
          /\ a[m].age \in Nat
      <4>1. /\ a[m + i - 1] \in Samples /\ a[m] \in Samples
        BY <1>5, <3>1
      <4> QED
        BY <4>1 DEF Samples
    <3>4. a[m + i - 1].age \in 0..WindowTicks
      BY <1>1, <2>5, <3>2, <3>3
    <3>5. a[m + i - 1] \in FreshSamples
      BY <3>3, <3>4 DEF Samples, FreshSamples
    <3> QED
      BY <2>6, <3>1, <3>5
  <2>9. t \in Seq(FreshSamples)
    <3>1. t = [i \in 1..Len(t) |-> t[i]]
      BY <2>6
    <3> QED
      BY <2>7, <2>8, <3>1
  <2> QED
    BY <2>6, <2>7, <2>9 DEF t, a
<1> QED
  BY <1>8, <1>9

-----------------------------------------------------------------------------
(* The types of the publisher and the controller. *)

Snapshots == [p95 : Latencies \cup {NoMs}, count : 0..MaxSamples,
              valid : BOOLEAN]

LEMMA WindowTypes ==
    ASSUME FbInv
    PROVE  /\ window \in Seq(FreshSamples) /\ window \in Seq(Samples)
           /\ Len(window) <= MaxSamples /\ InOrder(window)
<1>1. window \in Seq(FreshSamples)
  BY DEF FbInv, FbTypeOK, FreshSamples
<1>2. FreshSamples \subseteq Samples
  BY FeedbackAssumption DEF FreshSamples, Samples
<1>3. window \in Seq(Samples)
  BY <1>1, <1>2, SeqMonotonic
<1> QED
  BY <1>1, <1>3 DEF FbInv, FbTypeOK

\* What persist_now takes of the window to write.
LEMMA SnapshotType ==
    ASSUME FbInv
    PROVE  Snapshot \in Snapshots
<1>1. Len(window) \in 0..MaxSamples
  BY WindowTypes, LenProperties, FeedbackAssumption
<1>2. window # <<>> => Percentile(window) \in Latencies
  BY WindowTypes, PercentileIsMeasured
<1> QED
  BY <1>1, <1>2 DEF Snapshot, Snapshots

LEMMA NoSnapType == NoSnap \in Snapshots
  BY FeedbackAssumption DEF NoSnap, Snapshots

\* What FbInv says of the publisher and of the worker, apart.
PublisherInv ==
    /\ window \in Seq(FreshSamples) /\ Len(window) <= MaxSamples
    /\ InOrder(window)
    /\ dirty \in BOOLEAN /\ published \in Latencies \cup {Never, NoMs}
    /\ writing \in Snapshots
    /\ serving \in {"up", "stopping", "flushing", "down"}
    /\ hint \in [p95 : Latencies \cup {NoMs}, count : 0..MaxSamples]

WorkerInv ==
    /\ level \in Levels /\ candidate \in Levels \cup {"none"}
    /\ candAge \in 0..SustainTicks /\ changeAge \in 0..LongAgo
    /\ faults \in 0..MaxFaults
    /\ steady \in [want : Levels, age : 0..SustainTicks]

LEMMA FbInvParts == FbInv <=> PublisherInv /\ WorkerInv
  BY DEF FbInv, FbTypeOK, PublisherInv, WorkerInv, FreshSamples, Snapshots

\* A process that ends leaves an empty publisher.
LEMMA EndKeeps ==
    ASSUME PublisherInv, ProcessEnds, hint' \in
              [p95 : Latencies \cup {NoMs}, count : 0..MaxSamples]
    PROVE  PublisherInv'
<1>1. window' \in Seq(FreshSamples) /\ Len(window') <= MaxSamples
  BY FeedbackAssumption DEF ProcessEnds
<1>2. InOrder(window')
  BY DEF ProcessEnds, InOrder
<1> QED
  BY <1>1, <1>2, NoSnapType DEF ProcessEnds, PublisherInv

\* persist_now up to its first await.
LEMMA BeginKeeps ==
    ASSUME FbInv, NEW moved, PersistBegin(moved),
           serving' \in {"up", "stopping", "flushing", "down"}
    PROVE  PublisherInv'
<1>1. PublisherInv
  BY FbInvParts
<1>2. Snapshot \in Snapshots
  BY SnapshotType
<1>3. UNCHANGED <<window, published, hint>>
  BY DEF PersistBegin
<1>4. writing' \in Snapshots /\ dirty' \in BOOLEAN
  BY <1>1, <1>2 DEF PersistBegin, PublisherInv
<1> QED
  BY <1>1, <1>3, <1>4 DEF PublisherInv

\* Every step of the API process keeps what the publisher holds.
LEMMA PublisherKeeps ==
    ASSUME FbInv, FbNext
    PROVE  PublisherInv'
<1>0. PublisherInv /\ WindowTicks \in Nat
  BY FbInvParts, FeedbackAssumption
<1>1. CASE \E ms \in Latencies : RecordWall(ms)
  <2>1. PICK ms \in Latencies : RecordWall(ms)
    BY <1>1
  <2>2. window' \in Seq(FreshSamples) /\ Len(window') <= MaxSamples
        /\ InOrder(window')
    BY <2>1, WindowTypes, RecordKeeps DEF RecordWall
  <2> QED
    BY <1>0, <2>1, <2>2 DEF RecordWall, PublisherInv
<1>2. CASE \E moved \in BOOLEAN : PublisherWakes(moved)
  BY <1>0, <1>2, BeginKeeps DEF PublisherWakes, PublisherInv
<1>3. CASE PersistCommit
  <2>1. hint' \in [p95 : Latencies \cup {NoMs}, count : 0..MaxSamples]
    BY <1>0, <1>3 DEF PersistCommit, PublisherInv, Snapshots
  <2>2. CASE serving = "flushing"
    BY <1>0, <1>3, <2>1, <2>2, EndKeeps DEF PersistCommit
  <2>3. CASE serving # "flushing"
    <3>1. published' \in Latencies \cup {Never, NoMs}
      BY <1>0, <1>3, <2>3 DEF PersistCommit, PublisherInv, Snapshots
    <3> QED
      BY <1>0, <1>3, <2>1, <2>3, <3>1, NoSnapType DEF PersistCommit, PublisherInv
  <2> QED
    BY <2>2, <2>3
<1>4. CASE PersistFail
  <2>1. hint' = hint
    BY <1>4 DEF PersistFail
  <2>2. CASE serving = "flushing"
    BY <1>0, <1>4, <2>1, <2>2, EndKeeps DEF PersistFail, PublisherInv
  <2>3. CASE serving # "flushing"
    BY <1>0, <1>4, <2>1, <2>3, NoSnapType DEF PersistFail, PublisherInv
  <2> QED
    BY <2>2, <2>3
<1>5. CASE \/ StopBackground \/ StartApi
           \/ \E committed \in BOOLEAN : CancelPublisher(committed)
  <2>1. CASE StopBackground \/ StartApi
    BY <1>0, <2>1 DEF StopBackground, StartApi, PublisherInv
  <2>2. CASE \E committed \in BOOLEAN : CancelPublisher(committed)
    <3>1. PICK committed \in BOOLEAN : CancelPublisher(committed)
      BY <2>2
    <3>2. hint' \in [p95 : Latencies \cup {NoMs}, count : 0..MaxSamples]
      BY <1>0, <3>1 DEF CancelPublisher, PublisherInv, Snapshots
    <3> QED
      BY <1>0, <3>1, <3>2, NoSnapType DEF CancelPublisher, PublisherInv
  <2> QED
    BY <1>5, <2>1, <2>2
<1>6. CASE \E moved \in BOOLEAN : FinalFlush(moved)
  <2>1. PICK moved \in BOOLEAN : FinalFlush(moved)
    BY <1>6
  <2>2. CASE dirty /\ (MaterialChange(Snapshot) \/ moved)
    BY <2>1, <2>2, BeginKeeps DEF FinalFlush
  <2>3. CASE ~(dirty /\ (MaterialChange(Snapshot) \/ moved))
    <3>1. ProcessEnds /\ hint' = hint
      BY <2>1, <2>3 DEF FinalFlush
    <3> QED
      BY <1>0, <3>1, EndKeeps DEF PublisherInv
  <2> QED
    BY <2>2, <2>3
<1>7. CASE KillApi
  BY <1>0, <1>7, EndKeeps DEF KillApi, PublisherInv
<1>8. CASE Update \/ RestartWorker
  BY <1>0, <1>8 DEF Update, RestartWorker, publisherVars, PublisherInv
<1>9. CASE TimePasses
  <2>1. window' \in Seq(FreshSamples) /\ Len(window') <= MaxSamples
        /\ InOrder(window')
    BY <1>9, WindowTypes, TickKeeps DEF TimePasses
  <2> QED
    BY <1>0, <1>9, <2>1 DEF TimePasses, PublisherInv
<1> QED
  BY <1>1, <1>2, <1>3, <1>4, <1>5, <1>6, <1>7, <1>8, <1>9 DEF FbNext

\* Every step keeps the controller's state and the counters in their bounds.
LEMMA WorkerKeeps ==
    ASSUME FbInv, FbNext
    PROVE  WorkerInv'
<1>0. /\ WorkerInv /\ MaxFaults \in Nat /\ SustainTicks \in Nat
      /\ CooldownTicks \in Nat /\ LongAgo \in Nat
  BY FbInvParts, FeedbackAssumption DEF LongAgo
<1>1. CASE Update
  <2>1. Desired(hint.p95) \in Levels
    BY <1>0 DEF Desired, Levels, WorkerInv
  <2>2. steady' \in [want : Levels, age : 0..SustainTicks] /\ faults' = faults
    BY <1>0, <1>1, <2>1 DEF Update, WorkerInv
  <2>3. Decide(Desired(hint.p95))
    BY <1>1 DEF Update
  <2>4. /\ level' \in Levels /\ candidate' \in Levels \cup {"none"}
        /\ candAge' \in 0..SustainTicks /\ changeAge' \in 0..LongAgo
    BY <1>0, <2>1, <2>3 DEF Decide, workerSide, WorkerInv
  <2> QED
    BY <1>0, <2>2, <2>4 DEF WorkerInv
<1>2. CASE RestartWorker
  <2>1. steady' \in [want : Levels, age : 0..SustainTicks]
    BY <1>0, <1>2 DEF RestartWorker, Levels
  <2> QED
    BY <1>0, <1>2, <2>1 DEF RestartWorker, WorkerInv, Levels
<1>3. CASE TimePasses
  <2>1. steady' \in [want : Levels, age : 0..SustainTicks]
    BY <1>0, <1>3 DEF TimePasses, Aged, WorkerInv
  <2>2. candAge' \in 0..SustainTicks /\ changeAge' \in 0..LongAgo
    BY <1>0, <1>3 DEF TimePasses, Aged, WorkerInv
  <2> QED
    BY <1>0, <1>3, <2>1, <2>2 DEF TimePasses, WorkerInv
<1>4. CASE ~Update /\ ~RestartWorker /\ ~TimePasses
  <2>1. /\ UNCHANGED <<level, candidate, candAge, changeAge, steady>>
        /\ faults' \in 0..MaxFaults
    <3>1. CASE \E ms \in Latencies : RecordWall(ms)
      BY <1>0, <3>1 DEF RecordWall, workerSide, WorkerInv
    <3>2. CASE \E moved \in BOOLEAN : PublisherWakes(moved) \/ FinalFlush(moved)
      BY <1>0, <3>2 DEF PublisherWakes, FinalFlush, PersistBegin, workerSide,
         WorkerInv
    <3>3. CASE PersistCommit \/ PersistFail \/ StopBackground
               \/ \E committed \in BOOLEAN : CancelPublisher(committed)
      BY <1>0, <3>3 DEF PersistCommit, PersistFail, StopBackground,
         CancelPublisher, workerSide, WorkerInv
    <3>4. CASE KillApi \/ StartApi
      BY <1>0, <3>4 DEF KillApi, StartApi, workerSide, WorkerInv
    <3> QED
      BY <1>4, <3>1, <3>2, <3>3, <3>4 DEF FbNext
  <2> QED
    BY <1>0, <2>1 DEF WorkerInv
<1> QED
  BY <1>1, <1>2, <1>3, <1>4

LEMMA FbInitInv == FbInit => FbInv
<1> SUFFICES ASSUME FbInit PROVE FbInv
  OBVIOUS
<1>1. /\ MaxFaults \in Nat /\ SustainTicks \in Nat /\ CooldownTicks \in Nat
      /\ LongAgo \in Nat /\ MaxSamples \in Nat
  BY FeedbackAssumption DEF LongAgo
<1>2. WorkerInv
  BY <1>1 DEF FbInit, WorkerInv, Levels
<1>3. /\ window \in Seq(FreshSamples) /\ Len(window) <= MaxSamples
      /\ InOrder(window)
  BY <1>1 DEF FbInit, InOrder
<1>4. PublisherInv
  <2>1. hint \in [p95 : Latencies \cup {NoMs}, count : 0..MaxSamples]
    BY <1>1 DEF FbInit
  <2>2. writing \in Snapshots
    BY NoSnapType DEF FbInit
  <2> QED
    BY <1>3, <2>1, <2>2 DEF FbInit, PublisherInv
<1> QED
  BY <1>2, <1>4, FbInvParts

LEMMA FbNextInv ==
    ASSUME FbInv, [FbNext]_fbVars
    PROVE  FbInv'
<1>1. CASE FbNext
  <2>1. PublisherInv' /\ WorkerInv'
    BY <1>1, PublisherKeeps, WorkerKeeps
  <2>2. FbInv' <=> PublisherInv' /\ WorkerInv'
    BY FbInvParts, PTL
  <2> QED
    BY <2>1, <2>2
<1>2. CASE UNCHANGED fbVars
  BY <1>2 DEF fbVars, publisherVars, workerSide, FbInv, FbTypeOK, InOrder
<1> QED
  BY <1>1, <1>2

\* The window never holds more than max_samples nor a sample older than
\* window_seconds, what is published is a measured wall time, and the
\* controller's state stays in its bounds, whatever fails or is restarted.
THEOREM FeedbackTyped == FbSpec => []FbInv
  BY FbInitInv, FbNextInv, PTL DEF FbSpec

(***************************************************************************)
(* The composition                                                         *)
(***************************************************************************)

\* What is inductive of the two components.
ComposedInv == CoTypeOK /\ Registered /\ FbInv

\* A component that is not in focus is left alone by the one that moves, so
\* every state of the composition that MCProgress runs is well typed.
THEOREM ComposedTypes == ProgressSpec => []ProgressTypes
<1>1. ProgressInit => ComposedInv
  BY CoInitInv, FbInitInv DEF ProgressInit, ComposedInv
<1>2. ComposedInv /\ [ProgressNext]_progressVars => ComposedInv'
  <2> SUFFICES ASSUME ComposedInv, [ProgressNext]_progressVars
               PROVE  ComposedInv'
    OBVIOUS
  <2>1. [CoNext]_coVars /\ [FbNext]_fbVars
    BY DEF ProgressNext, progressVars
  <2> QED
    BY <2>1, CoNextInv, FbNextInv DEF ComposedInv
<1>3. ComposedInv => ProgressTypes
  BY DEF ComposedInv, ProgressTypes, FbInv
<1> QED
  BY <1>1, <1>2, <1>3, PTL DEF ProgressSpec

===============================================================================
