-------------------------- MODULE LexicalRetrieval --------------------------
(***************************************************************************)
(* retrieve, in its three versions, over the chunks of ingestion jobs, and *)
(* the metrics that judge a ranked list.                                   *)
(*                                                                         *)
(* Of a chunk only what the SQL asks of it is kept, for one query: whether *)
(* the English and the simple text search match it, the rank they give,    *)
(* and whether the query is a substring of its content or heading path.    *)
(* Ranks and boosts are in units of 0.05.  A SELECT may return any rows    *)
(* its ORDER BY and LIMIT allow.                                           *)
(***************************************************************************)
EXTENDS Naturals, Sequences, FiniteSets

CONSTANTS
    ChunkIds,   \* ids of chunks, natural numbers
    IndexJobs,  \* ingestion jobs
    Profiles,   \* what a chunk may be like for the query
    MaxK        \* largest top_k

ASSUME RetrievalAssumption ==
    /\ ChunkIds \subseteq Nat /\ IsFiniteSet(ChunkIds) /\ MaxK \in Nat \ {0}
    /\ Profiles \subseteq [english : BOOLEAN, rank : Nat, simple : BOOLEAN,
                           heading : BOOLEAN, content : BOOLEAN, code : BOOLEAN]

Profile(english, rank, simple, heading, content, code) ==
    [english |-> english, rank |-> rank, simple |-> simple,
     heading |-> heading, content |-> content, code |-> code]

VARIABLES
    indexed,   \* document_chunks: the profile and job of each chunk
    jobStatus, \* ingestion_jobs.status
    query,     \* the version and filter of the last queries
    answers    \* what retrieve has returned for each top_k asked

lexVars == <<indexed, jobStatus, query, answers>>

Unindexed == [job |-> "none"]
NoAnswers == <<>>
NotAsked  == [version |-> "none"]

LexInit ==
    /\ indexed = [c \in ChunkIds |-> Unindexed]
    /\ jobStatus = [j \in IndexJobs |-> "running"]
    /\ query = NotAsked /\ answers = NoAnswers

\* replace_for_job: a chunk of a job appears.
IndexChunk(c, j, p) ==
    /\ indexed[c] = Unindexed
    /\ \A b \in ChunkIds : b < c => indexed[b] # Unindexed
    /\ query = NotAsked
    /\ indexed' = [indexed EXCEPT ![c] = [job |-> j, is |-> p]]
    /\ UNCHANGED <<jobStatus, query, answers>>

\* A job succeeds; later queries are asked of another database.
JobSucceeds(j) ==
    /\ jobStatus[j] = "running"
    /\ \A c \in ChunkIds : indexed[c] # Unindexed
    /\ jobStatus' = [jobStatus EXCEPT ![j] = "succeeded"]
    /\ query' = NotAsked /\ answers' = NoAnswers
    /\ UNCHANGED indexed

-----------------------------------------------------------------------------
(* The three SELECTs. *)

Substring(p) == p.heading \/ p.content

\* WHERE: the text search, or for STRUCT also a substring.
Matches(version, p) ==
    CASE version = "fts"    -> p.english
      [] version = "simple" -> p.simple
      [] version = "struct" -> p.english \/ Substring(p)

Boost(flag, units) == IF flag THEN units ELSE 0

\* Faulty variant: code is boosted for its text-search rank.
Score_CodeByRank(version, p) ==
    IF version = "struct"
    THEN p.rank + Boost(p.heading, 3) + Boost(p.content, 2)
         + Boost(p.code, p.rank)
    ELSE p.rank

\* score: ts_rank_cd, for STRUCT with at most 0.30 on top.
Score(version, p) ==
    IF version = "struct"
    THEN p.rank + Boost(p.heading, 3) + Boost(p.content, 2)
         + Boost(p.code /\ p.content, 1)
    ELSE p.rank

\* _filter_clauses and j.status = 'succeeded'.
InScope(c, filter) ==
    /\ indexed[c] # Unindexed
    /\ jobStatus[indexed[c].job] = "succeeded"
    /\ filter = "none" \/ indexed[c].job = filter

Candidates(version, filter) ==
    {c \in ChunkIds : InScope(c, filter) /\ Matches(version, indexed[c].is)}

\* Faulty variant: chunks of equal score come in any order.
Before_ScoreOnly(version, a, b) ==
    Score(version, indexed[a].is) >= Score(version, indexed[b].is)

\* ORDER BY score DESC, c.id ASC.
Before(version, a, b) ==
    LET x == Score(version, indexed[a].is)
        y == Score(version, indexed[b].is)
    IN  x > y \/ (x = y /\ a <= b)

\* What ORDER BY and LIMIT allow of the candidates S.
Allowed(version, S, k) ==
    LET n == IF Cardinality(S) < k THEN Cardinality(S) ELSE k
    IN  {s \in [1..n -> S] :
           /\ \A i, j \in 1..n : i < j => s[i] # s[j] /\ Before(version, s[i], s[j])
           /\ \A c \in S \ {s[i] : i \in 1..n} : \A i \in 1..n :
                Before(version, s[i], c)}

\* retrieve.
Retrieve(version, filter, k) ==
    /\ query \in {NotAsked, [version |-> version, filter |-> filter]}
    /\ k \notin DOMAIN answers
    /\ \A c \in ChunkIds : indexed[c] # Unindexed
    /\ query' = [version |-> version, filter |-> filter]
    /\ \E s \in Allowed(version, Candidates(version, filter), k) :
          answers' = [m \in DOMAIN answers \cup {k} |->
                        IF m = k THEN s ELSE answers[m]]
    /\ UNCHANGED <<indexed, jobStatus>>

Versions == {"fts", "simple", "struct"}
Filters  == IndexJobs \cup {"none"}

LexNext ==
    \/ \E c \in ChunkIds, j \in IndexJobs, p \in Profiles : IndexChunk(c, j, p)
    \/ \E j \in IndexJobs : JobSucceeds(j)
    \/ \E version \in Versions, filter \in Filters, k \in 1..MaxK :
          Retrieve(version, filter, k)

LexSpec == LexInit /\ [][LexNext]_lexVars

-----------------------------------------------------------------------------
(* metrics.py.  Ratios are kept as numerators over |R|, k and the rank. *)

Top(s, k) == SubSeq(s, 1, IF Len(s) < k THEN Len(s) ELSE k)

\* recall_at_k counts a set, precision_at_k a list.
RecallHits(s, R, k) == Cardinality({Top(s, k)[i] : i \in DOMAIN Top(s, k)} \cap R)

PrecisionHits(s, R, k) == Cardinality({i \in DOMAIN Top(s, k) : s[i] \in R})

\* Faulty variant: ranks count from 0.
FirstRelevant_FromZero(s, R) ==
    LET hits == {i \in DOMAIN s : s[i] \in R}
    IN  IF hits = {} THEN 0 ELSE (CHOOSE i \in hits : \A j \in hits : i <= j) - 1

\* first_relevant_rank, 0 for None; reciprocal_rank is one over it.
FirstRelevant(s, R) ==
    LET hits == {i \in DOMAIN s : s[i] \in R}
    IN  IF hits = {} THEN 0 ELSE CHOOSE i \in hits : \A j \in hits : i <= j

\* evaluate_query: the metrics of one ranked list.
EvaluateQuery(s, R) ==
    [recall |-> [k \in 1..MaxK |-> RecallHits(s, R, k)],
     precision |-> [k \in 1..MaxK |-> PrecisionHits(s, R, k)],
     rank |-> FirstRelevant(s, R),
     zeroHit |-> FirstRelevant(s, R) = 0,
     retrieved |-> Cardinality({s[i] : i \in DOMAIN s} \cap R)]

-----------------------------------------------------------------------------
(* Properties. *)

Answered == DOMAIN answers

\* The order is deterministic: asked again for more, retrieve returns the
\* same list, continued, although scores tie.
LongerAnswersContinue ==
    \A k, m \in Answered :
        k < m => Top(answers[m], k) = Top(answers[k], k)

\* The structural boosts stay bounded: a chunk that full-text search ranks
\* more than 0.30 higher than another is never overtaken by it in STRUCT, and
\* what full-text search finds is found.
BoostsAreBounded ==
    query # NotAsked /\ query.version = "struct" =>
        \A k \in Answered : \A a, b \in Candidates("fts", query.filter) :
            LET at(c) == {i \in DOMAIN answers[k] : answers[k][i] = c}
            IN  /\ indexed[a].is.rank > indexed[b].is.rank + 6 /\ at(b) # {}
                   => at(a) # {} /\ \A i \in at(a), j \in at(b) : i < j
                /\ Len(answers[k]) < k => at(a) # {}

\* The metrics agree on every list retrieve returns, for every judgement:
\* recall and precision count the same hits, recall grows with k up to what
\* was retrieved, and the first relevant rank is where it becomes positive.
MetricsAgree ==
    \A m \in Answered : \A R \in SUBSET ChunkIds \ {{}} :
        LET q == EvaluateQuery(answers[m], R)
        IN  /\ q.recall = q.precision
            /\ \A k \in 2..MaxK : q.recall[k - 1] <= q.recall[k]
            /\ q.recall[m] = q.retrieved
            /\ q.zeroHit <=> q.retrieved = 0
            /\ ~q.zeroHit => q.rank \in 1..m /\ q.recall[q.rank] = 1

\* retrieve answers one query consistently, STRUCT stays near full-text
\* search, and the metrics the versions are compared by agree on its answers.
RetrievalSound == LongerAnswersContinue /\ BoostsAreBounded /\ MetricsAgree

-----------------------------------------------------------------------------
(* The inductive invariant behind it: the answers kept are those the SELECT *)
(* of the present query allows on the present rows. *)

LexInv ==
    /\ indexed \in [ChunkIds -> {Unindexed} \cup [job : IndexJobs, is : Profiles]]
    /\ query = NotAsked => answers = NoAnswers
    /\ query = NotAsked \/ query \in [version : Versions, filter : Filters]
    /\ DOMAIN answers \subseteq 1..MaxK
    /\ \A k \in DOMAIN answers :
          answers[k] \in Allowed(query.version,
                                 Candidates(query.version, query.filter), k)
=============================================================================
