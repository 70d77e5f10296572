-------------------------- MODULE SubmissionProofs --------------------------
(***************************************************************************)
(* Proofs about SubmissionLifecycle, for any number of requests, keys and  *)
(* fingerprints.                                                           *)
(***************************************************************************)
EXTENDS SubmissionLifecycle, TLAPS

\* The initial state satisfies both invariants.
LEMMA InitInv == Init => IInv /\ GateInv
<1> SUFFICES ASSUME Init PROVE IInv /\ GateInv
  OBVIOUS
<1> USE RequestsAssumption DEF Init
<1>1. TypeOK
  BY DEF TypeOK, Submission, Request, NoSubmission, NoRequest, PCs
<1>2. Submissions = {} /\ Referenced = {} /\ Sharers = {}
  BY DEF Submissions, Referenced, Sharers, NoSubmission
<1>3. ReferencedExists /\ FileInv /\ ScanInv
  BY <1>2 DEF ReferencedExists, FileInv, ScanInv
<1>4. OwnerInv /\ PreviousInv
  BY DEF OwnerInv, PreviousInv, NoSubmission, Update
<1>5. KeyInv
  BY <1>2 DEF KeyInv, NoRequest
<1>6. GateInv
  BY <1>2 DEF GateInv
<1> QED
  BY <1>1, <1>3, <1>4, <1>5, <1>6 DEF IInv

\* What a replayed request is answered with.
LEMMA ReplayType ==
    ASSUME TypeOK, NEW k, NEW p, Holders(k) # {}
    PROVE  ReplayOrConflict(k, p) \in Requests \cup {None}
  BY DEF ReplayOrConflict, Holders, Submissions

\* What the writers of a submission row and of a request change, field by
\* field.
LEMMA ReplacedEffect ==
    ASSUME TypeOK, NEW r \in Requests, req[r].target \in Requests, Replaced(r)
    PROVE  /\ sub' \in [Requests -> Submission]
           /\ \A s \in Requests :
                /\ s # req[r].target => sub'[s] = sub[s]
                /\ sub'[s].status = sub[s].status /\ sub'[s].key = sub[s].key
                /\ sub'[s].payload = sub[s].payload
           /\ sub'[req[r].target].artifact = r
<1> DEFINE t == req[r].target
           new == [sub[t] EXCEPT !.artifact = r]
<1>1. sub[t] \in Submission /\ sub' = [sub EXCEPT ![t] = new]
  BY DEF TypeOK, Replaced
<1>2. /\ new \in Submission /\ new.artifact = r /\ new.key = sub[t].key
      /\ new.status = sub[t].status /\ new.payload = sub[t].payload
  BY <1>1 DEF Submission
<1> HIDE DEF new
<1> QED
  BY <1>1, <1>2 DEF TypeOK

\* submit and cancel change the status of a row and nothing else of it.
LEMMA StatusEffect ==
    ASSUME TypeOK, NEW r \in Requests, Submit(r) \/ Cancel(r)
    PROVE  /\ sub' \in [Requests -> Submission]
           /\ \A s \in Requests :
                /\ sub'[s].artifact = sub[s].artifact
                /\ sub'[s].key = sub[s].key /\ sub'[s].payload = sub[s].payload
           /\ Submissions' = Submissions
<1>1. ASSUME NEW c \in {"submitted", "cancelled"}, sub[r].status = "created",
             sub' = [sub EXCEPT ![r] = [@ EXCEPT !.status = c]]
      PROVE  /\ sub' \in [Requests -> Submission]
             /\ \A s \in Requests :
                  /\ sub'[s].artifact = sub[s].artifact
                  /\ sub'[s].key = sub[s].key /\ sub'[s].payload = sub[s].payload
                  /\ sub'[s].status = "none" <=> sub[s].status = "none"
  <2> DEFINE new == [sub[r] EXCEPT !.status = c]
  <2>1. sub[r] \in Submission /\ sub' = [sub EXCEPT ![r] = new]
    BY <1>1 DEF TypeOK
  <2>2. /\ new \in Submission /\ new.artifact = sub[r].artifact
        /\ new.key = sub[r].key /\ new.payload = sub[r].payload
        /\ new.status = c
    BY <2>1 DEF Submission
  <2> HIDE DEF new
  <2> QED
    BY <1>1, <2>1, <2>2 DEF TypeOK
<1> QED
  BY <1>1 DEF Submit, Cancel, TransitionIfCreated, Submissions

\* create adds one row.
LEMMA InsertedEffect ==
    ASSUME TypeOK, NEW r \in Requests, Inserted(r), r \notin Submissions
    PROVE  /\ sub' \in [Requests -> Submission]
           /\ \A s \in Requests : s # r => sub'[s] = sub[s]
           /\ sub'[r].artifact = IF pc[r] = "stored" THEN r ELSE None
           /\ sub'[r].key = req[r].key /\ sub'[r].payload = req[r].payload
           /\ Submissions' = Submissions \cup {r}
<1>1. NewSubmission(r) \in Submission
  BY DEF TypeOK, NewSubmission, Submission, Request
<1>2. sub' = [sub EXCEPT ![r] = NewSubmission(r)]
  BY DEF Inserted
<1>3. /\ sub' \in [Requests -> Submission] /\ sub'[r] = NewSubmission(r)
      /\ \A s \in Requests : s # r => sub'[s] = sub[s]
  BY <1>1, <1>2 DEF TypeOK
<1>4. sub'[r].status = "created"
  BY <1>3 DEF NewSubmission
<1> QED
  BY <1>3, <1>4 DEF NewSubmission, Submissions

\* find_by_idempotency records the key and the fingerprint.
LEMMA FindEffect ==
    ASSUME TypeOK, NEW r \in Requests, NEW k \in Keys \cup {None},
           NEW p \in Payloads \cup {None}, FindByIdempotency(r, k, p)
    PROVE  /\ req' \in [Requests -> Request]
           /\ \A q \in Requests : q # r => req'[q] = req[q]
           /\ req'[r].key = k /\ req'[r].payload = p
           /\ req'[r].target = req[r].target /\ req'[r].prev = req[r].prev
<1> DEFINE new == [req[r] EXCEPT !.key = k, !.payload = p]
<1>1. req[r] \in Request /\ req' = [req EXCEPT ![r] = new]
  BY DEF TypeOK, FindByIdempotency
<1>2. /\ new \in Request /\ new.key = k /\ new.payload = p
      /\ new.target = req[r].target /\ new.prev = req[r].prev
  BY <1>1 DEF Request
<1> HIDE DEF new
<1> QED
  BY <1>1, <1>2 DEF TypeOK

\* A committed create knows the id of its row.
LEMMA TargetEffect ==
    ASSUME TypeOK, NEW r \in Requests, InsertCommit(r)
    PROVE  /\ req' \in [Requests -> Request]
           /\ \A q \in Requests : q # r => req'[q] = req[q]
           /\ req'[r].key = req[r].key /\ req'[r].payload = req[r].payload
           /\ req'[r].target = r
<1> DEFINE new == [req[r] EXCEPT !.target = r]
<1>1. req[r] \in Request /\ req' = [req EXCEPT ![r] = new]
  BY DEF TypeOK, InsertCommit
<1>2. /\ new \in Request /\ new.key = req[r].key
      /\ new.payload = req[r].payload /\ new.target = r
  BY <1>1 DEF Request
<1> HIDE DEF new
<1> QED
  BY <1>1, <1>2 DEF TypeOK

\* An update keeps the row's id and artifact key as it read them.
LEMMA ReadEffect ==
    ASSUME TypeOK, NEW r \in Requests, NEW s \in Requests,
           ReadCreated(r, s), sub[s].status = "created"
    PROVE  /\ req' \in [Requests -> Request]
           /\ \A q \in Requests : q # r => req'[q] = req[q]
           /\ req'[r].key = req[r].key /\ req'[r].payload = req[r].payload
           /\ req'[r].target = s /\ req'[r].prev = sub[s].artifact
<1> DEFINE new == [req[r] EXCEPT !.target = s, !.prev = sub[s].artifact]
<1>1. req[r] \in Request /\ req' = [req EXCEPT ![r] = new]
      /\ sub[s].artifact \in Requests \cup {None}
  BY DEF TypeOK, ReadCreated, Submission
<1>2. /\ new \in Request /\ new.key = req[r].key
      /\ new.payload = req[r].payload /\ new.target = s
      /\ new.prev = sub[s].artifact
  BY <1>1 DEF Request
<1> HIDE DEF new
<1> QED
  BY <1>1, <1>2 DEF TypeOK

\* Every step preserves the types.
LEMMA TypeNext ==
    ASSUME TypeOK, KeyInv, PreviousInv, [Next]_vars
    PROVE  TypeOK'
<1> USE RequestsAssumption
    DEF TypeOK, vars, dbVars, fileVars, scanVars, reqVars, history, Goto, PCs
<1>1. CASE UNCHANGED vars
  BY <1>1
<1>2. CASE OrganizerStep
  BY <1>2 DEF OrganizerStep, PublishHackathon, CloseChallenge, PublishRead,
              PublishCommit
<1>3. CASE FileStep
  BY <1>3 DEF FileStep, ScanList, ScanClock, ScanFiles, Age, ScanDelete,
              CleanupIncoming, Referenced
<1>4. ASSUME NEW r \in Requests, CreateStep(r) PROVE TypeOK'
  <2>1. ASSUME NEW k \in Keys \cup {None}, NEW p \in Payloads \cup {None},
               FindByIdempotency(r, k, p)
        PROVE  TypeOK'
    <3>1. req' \in [Requests -> Request]
      BY <2>1, FindEffect
    <3>2. answer' \in [Requests -> Requests \cup {None}]
      BY <2>1, ReplayType DEF FindByIdempotency
    <3> QED
      BY <2>1, <3>1, <3>2 DEF FindByIdempotency
  <2>2. CASE LockOpenChallenge(r)
    BY <2>2 DEF LockOpenChallenge
  <2>3. CASE PutArtifact(r)
    BY <2>3 DEF PutArtifact
  <2>4. ASSUME pc[r] \in {"locked", "stored"}, Inserted(r)
        PROVE  sub' \in [Requests -> Submission]
    BY <2>4, InsertedEffect DEF KeyInv, Before
  <2>5. CASE InsertCommit(r)
    <3>1. req' \in [Requests -> Request]
      BY <2>5, TargetEffect
    <3> QED
      BY <2>4, <2>5, <3>1 DEF InsertCommit, Inserted
  <2>6. CASE InsertDuplicate(r)
    BY <2>6 DEF InsertDuplicate
  <2>7. CASE InsertUnacknowledged(r)
    BY <2>4, <2>7 DEF InsertUnacknowledged, Inserted
  <2> QED
    BY <1>4, <2>1, <2>2, <2>3, <2>5, <2>6, <2>7 DEF CreateStep
<1>5. ASSUME NEW r \in Requests, UpdateStep(r) PROVE TypeOK'
  <2>1. CASE StreamToIncoming(r)
    BY <2>1 DEF StreamToIncoming
  <2>2. ASSUME NEW s \in Requests, ReadCreated(r, s) PROVE TypeOK'
    <3>1. req' \in [Requests -> Request]
      BY <2>2, ReadEffect DEF ReadCreated
    <3> QED
      BY <2>2, <3>1 DEF ReadCreated, Abort
  <2>3. CASE PublishBlob(r)
    BY <2>3 DEF PublishBlob
  <2>4. ASSUME pc[r] = "moved", Replaced(r) PROVE sub' \in [Requests -> Submission]
    <3>1. req[r].target \in Requests
      BY <2>4 DEF PreviousInv, Update, Submissions
    <3> QED
      BY <2>4, <3>1, ReplacedEffect
  <2>5. CASE UpdateCommit(r)
    BY <2>4, <2>5 DEF UpdateCommit
  <2>6. CASE UpdateUnacknowledged(r)
    BY <2>4, <2>6 DEF UpdateUnacknowledged
  <2>7. CASE DropPrevious(r)
    BY <2>7 DEF DropPrevious
  <2> QED
    BY <1>5, <2>1, <2>2, <2>3, <2>5, <2>6, <2>7 DEF UpdateStep
<1>6. ASSUME NEW r \in Requests,
             CommitFails(r) \/ Compensate(r) \/ Enqueue(r) \/ Stop(r)
                \/ Submit(r) \/ Cancel(r)
      PROVE  TypeOK'
  <2>1. CASE CommitFails(r) \/ Stop(r)
    BY <2>1 DEF CommitFails, Stop
  <2>2. CASE Compensate(r)
    <3>1. answer' \in [Requests -> Requests \cup {None}]
      BY <2>2, ReplayType DEF Compensate, KeyInv
    <3> QED
      BY <2>2, <3>1 DEF Compensate
  <2>3. CASE Enqueue(r)
    BY <2>3 DEF Enqueue, KeyInv
  <2>4. CASE Submit(r) \/ Cancel(r)
    <3>1. sub' \in [Requests -> Submission]
      BY <2>4, StatusEffect
    <3> QED
      BY <2>4, <3>1 DEF Submit, Cancel
  <2> QED
    BY <1>6, <2>1, <2>2, <2>3, <2>4
<1> QED
  BY <1>1, <1>2, <1>3, <1>4, <1>5, <1>6 DEF Next

\* The ids that rows and requests hold.
LEMMA FieldTypes ==
    ASSUME TypeOK
    PROVE  \A s \in Requests : /\ sub[s].artifact \in Requests \cup {None}
                               /\ req[s].prev \in Requests \cup {None}
                               /\ req[s].target \in Requests \cup {None}
  BY DEF TypeOK, Submission, Request

\* OwnerInv and PreviousInv look at the rows' artifacts, at whether a request
\* has committed and at what the updates under way have read.
LEMMA OwnerFrame ==
    ASSUME TypeOK, OwnerInv, NEW r \in Requests,
           \A s \in Requests : sub'[s].artifact = sub[s].artifact,
           Submissions \subseteq Submissions', lost' = lost,
           \A q \in Requests : q # r => pc'[q] = pc[q],
           pc[r] \in After => pc'[r] \in {pc[r], "done", "committed"}
    PROVE  OwnerInv'
<1> SUFFICES ASSUME NEW s \in Requests, sub'[s].artifact # None
             PROVE  /\ s \in Submissions'
                    /\ pc'[sub'[s].artifact] \in After
                    /\ pc'[sub'[s].artifact] = "failed" => sub'[s].artifact \in lost'
                    /\ \A t \in Requests : sub'[t].artifact = sub'[s].artifact => t = s
  BY DEF OwnerInv, After
<1>1. PICK b \in Requests : b = sub[s].artifact
  BY FieldTypes
<1>2. /\ s \in Submissions /\ pc[b] \in After
      /\ pc[b] = "failed" => b \in lost
      /\ \A t \in Requests : sub[t].artifact = b => t = s
  BY <1>1 DEF OwnerInv
<1>3. pc'[b] \in After /\ (pc'[b] = "failed" => pc[b] = "failed")
  BY <1>2 DEF After
<1> QED
  BY <1>1, <1>2, <1>3

\* The same for the updates under way.
LEMMA PreviousFrame ==
    ASSUME TypeOK, PreviousInv, NEW r \in Requests,
           \A s \in Requests : sub'[s].artifact = sub[s].artifact,
           Submissions \subseteq Submissions',
           \A q \in Requests : q # r => pc'[q] = pc[q],
           pc[r] \in After => pc'[r] \in After,
           pc'[r] \in Update => pc[r] \in Update,
           pc'[r] = "replaced" => pc[r] = "replaced",
           \A q \in Requests : pc[q] \in Update =>
               req'[q].target = req[q].target /\ req'[q].prev = req[q].prev
    PROVE  PreviousInv'
<1> SUFFICES ASSUME NEW q \in Requests, pc'[q] \in Update
             PROVE  /\ req'[q].target \in Submissions'
                    /\ req'[q].prev # None =>
                         /\ pc'[req'[q].prev] \in After
                         /\ \A s \in Requests : sub'[s].artifact = req'[q].prev =>
                               s = req'[q].target /\ pc'[q] # "replaced"
  BY DEF PreviousInv, Update, After
<1>1. pc[q] \in Update /\ (pc'[q] = "replaced" => pc[q] = "replaced")
  OBVIOUS
<1>2. req'[q].target = req[q].target /\ req'[q].prev = req[q].prev
  BY <1>1
<1>3. req[q].target \in Submissions
  BY <1>1 DEF PreviousInv
<1>4. ASSUME req[q].prev # None
      PROVE  /\ pc'[req[q].prev] \in After
             /\ \A s \in Requests : sub[s].artifact = req[q].prev =>
                   s = req[q].target /\ pc[q] # "replaced"
  <2>1. PICK b \in Requests : b = req[q].prev
    BY <1>4, FieldTypes
  <2>2. /\ pc[b] \in After
        /\ \A s \in Requests : sub[s].artifact = b =>
              s = req[q].target /\ pc[q] # "replaced"
    BY <1>1, <1>4, <2>1 DEF PreviousInv
  <2> QED
    BY <2>1, <2>2
<1> QED
  BY <1>1, <1>2, <1>3, <1>4

\* ScanInv survives a commit whose artifact is young.
LEMMA ScanFrame ==
    ASSUME ScanInv, scanVars' = scanVars, old' = old,
           \A b \in Referenced' : b \in Referenced \/ b \notin old
    PROVE  ScanInv'
  BY DEF ScanInv, scanVars

\* The steps that write neither a submission row nor a request's parameters.
LEMMA PlainInv ==
    ASSUME IInv, TypeOK', NEW r \in Requests,
           \/ LockOpenChallenge(r) \/ PutArtifact(r) \/ InsertDuplicate(r)
           \/ StreamToIncoming(r) \/ PublishBlob(r) \/ CommitFails(r)
           \/ Stop(r) \/ Age(r) \/ CleanupIncoming(r)
    PROVE  IInv'
<1> USE RequestsAssumption DEF IInv, TypeOK
<1>0. /\ sub' = sub /\ req' = req /\ answer' = answer /\ lost' = lost
      /\ scanVars' = scanVars
      /\ Submissions' = Submissions /\ Referenced' = Referenced
  BY DEF LockOpenChallenge, PutArtifact, InsertDuplicate, StreamToIncoming,
         PublishBlob, CommitFails, Stop, Age, CleanupIncoming, dbVars, fileVars,
         reqVars, history, Submissions, Referenced
<1>1. FileInv'
  BY DEF LockOpenChallenge, PutArtifact, InsertDuplicate, StreamToIncoming,
         PublishBlob, CommitFails, Stop, Age, CleanupIncoming, dbVars, fileVars,
         reqVars, history, Goto, FileInv, Before, WithinGrace
<1>2. /\ \A q \in Requests : q # r => pc'[q] = pc[q]
      /\ pc[r] \in After => pc'[r] \in {pc[r], "done"}
      /\ pc'[r] \in Update => pc[r] \in Update
      /\ pc'[r] = "replaced" => pc[r] = "replaced"
  BY DEF LockOpenChallenge, PutArtifact, InsertDuplicate, StreamToIncoming,
         PublishBlob, CommitFails, Stop, Age, CleanupIncoming, dbVars, fileVars,
         reqVars, history, Goto, After, Update
<1>3. OwnerInv'
  BY <1>0, <1>2, OwnerFrame
<1>4. PreviousInv'
  BY <1>0, <1>2, PreviousFrame DEF After
<1>5. ScanInv'
  BY <1>0 DEF LockOpenChallenge, PutArtifact, InsertDuplicate, StreamToIncoming,
         PublishBlob, CommitFails, Stop, Age, CleanupIncoming, dbVars, fileVars,
         scanVars, reqVars, ScanInv, WithinGrace
<1>7. ReferencedExists'
  BY <1>0 DEF LockOpenChallenge, PutArtifact, InsertDuplicate, StreamToIncoming,
         PublishBlob, CommitFails, Stop, Age, CleanupIncoming, dbVars, fileVars,
         reqVars, ReferencedExists
<1>6. KeyInv'
  BY <1>0 DEF LockOpenChallenge, PutArtifact, InsertDuplicate, StreamToIncoming,
         PublishBlob, CommitFails, Stop, Age, CleanupIncoming, dbVars, fileVars,
         reqVars, history, Goto, KeyInv, Before, Update, Holders, Violates
<1> QED
  BY <1>1, <1>3, <1>4, <1>5, <1>6, <1>7

\* The scan dooms only what was past the grace by its clock and not listed,
\* which no row names: what the listing missed is young by the clock.
LEMMA ScanSteps ==
    ASSUME ScanInv, Referenced' = Referenced,
           ScanList \/ ScanClock \/ ScanFiles \/ \E b \in Requests : ScanDelete(b)
    PROVE  ScanInv' /\ \A b \in blobs : b \in blobs' \/ b \notin Referenced
<1>1. CASE ScanList
  BY <1>1 DEF ScanList, ScanInv
<1>2. CASE ScanClock
  BY <1>2 DEF ScanClock, ScanInv
<1>3. CASE ScanFiles
  BY <1>3 DEF ScanFiles, ScanInv
<1>4. ASSUME NEW b \in Requests, ScanDelete(b)
      PROVE  ScanInv' /\ \A c \in blobs : c \in blobs' \/ c \notin Referenced
  BY <1>4 DEF ScanDelete, ScanInv
<1> QED
  BY <1>1, <1>2, <1>3, <1>4

\* reconcile_orphans deletes only what no row names.
LEMMA ScanInvs ==
    ASSUME IInv, TypeOK',
           ScanList \/ ScanClock \/ ScanFiles \/ \E b \in Requests : ScanDelete(b)
    PROVE  IInv'
<1> USE RequestsAssumption DEF IInv, TypeOK
<1>0. /\ sub' = sub /\ req' = req /\ answer' = answer /\ lost' = lost
      /\ pc' = pc /\ old' = old /\ incoming' = incoming
      /\ Submissions' = Submissions /\ Referenced' = Referenced
      /\ blobs' \subseteq blobs
      /\ \A r \in Requests : r \in blobs /\ r \notin blobs' => r \in old
  BY DEF ScanList, ScanClock, ScanFiles, ScanDelete, dbVars, reqVars, history,
         Submissions, Referenced, ScanInv
<1>1. FileInv'
  BY <1>0 DEF FileInv, Before
<1>2. OwnerInv'
  BY <1>0 DEF OwnerInv
<1>3. PreviousInv'
  BY <1>0 DEF PreviousInv
<1>4. ScanInv' /\ \A b \in blobs : b \in blobs' \/ b \notin Referenced
  BY <1>0, ScanSteps
<1>5. ReferencedExists'
  BY <1>0, <1>4 DEF ReferencedExists
<1>6. KeyInv'
  BY <1>0 DEF KeyInv, Holders
<1> QED
  BY <1>1, <1>2, <1>3, <1>4, <1>5, <1>6

\* The look-up of the idempotency key, and the replay it may answer with.
LEMMA FindInv ==
    ASSUME IInv, TypeOK', NEW r \in Requests, NEW k \in Keys \cup {None},
           NEW p \in Payloads \cup {None}, FindByIdempotency(r, k, p)
    PROVE  IInv'
<1> USE RequestsAssumption DEF IInv, TypeOK
<1>1. /\ sub' = sub /\ lost' = lost /\ scanVars' = scanVars /\ old' = old
      /\ blobs' = blobs /\ incoming' = incoming
      /\ Submissions' = Submissions /\ Referenced' = Referenced
      /\ pc[r] = "idle" /\ pc' = [pc EXCEPT ![r] = pc'[r]]
      /\ pc'[r] \in {"found", "done"}
      /\ \A q \in Requests : q # r => answer'[q] = answer[q]
  BY DEF FindByIdempotency, dbVars, fileVars, history, Goto, Submissions,
         Referenced
<1>2. /\ \A q \in Requests : q # r => req'[q] = req[q]
      /\ req'[r].key = k /\ req'[r].payload = p
  BY FindEffect
<1>3. k # None /\ answer'[r] # None =>
         /\ answer'[r] \in Submissions
         /\ sub[answer'[r]].key = k /\ sub[answer'[r]].payload = p
  BY DEF FindByIdempotency, ReplayOrConflict, Holders, Submissions, KeyInv
<1>4. FileInv'
  BY <1>1 DEF FileInv, Before
<1>5. OwnerInv'
  BY <1>1, OwnerFrame DEF After
<1>6. PreviousInv'
  BY <1>1, <1>2, PreviousFrame DEF Update, After
<1>7. ScanInv' /\ ReferencedExists'
  BY <1>1, ScanFrame DEF ReferencedExists
<1>8. KeyInv'
  BY <1>1, <1>2, <1>3 DEF KeyInv, Before, Update, Holders
<1> QED
  BY <1>4, <1>5, <1>6, <1>7, <1>8

\* A blob that no request has committed yet is no row's and no update's.
LEMMA Unowned ==
    ASSUME TypeOK, OwnerInv, PreviousInv, NEW r \in Requests, pc[r] \notin After
    PROVE  /\ \A s \in Requests : sub[s].artifact # r
           /\ \A q \in Requests : pc[q] \in Update => req[q].prev # r
           /\ r \notin Referenced
  BY RequestsAssumption DEF OwnerInv, PreviousInv, Referenced, Submissions

\* The INSERT of create, acknowledged or not.
LEMMA InsertInv ==
    ASSUME IInv, TypeOK', NEW r \in Requests,
           InsertCommit(r) \/ InsertUnacknowledged(r)
    PROVE  IInv'
<1> USE RequestsAssumption DEF IInv
<1>1. /\ pc[r] \in {"locked", "stored"} /\ Inserted(r) /\ ~Violates(r)
      /\ scanVars' = scanVars /\ old' = old /\ blobs' = blobs /\ incoming' = incoming
      /\ \A q \in Requests : q # r => pc'[q] = pc[q] /\ answer'[q] = answer[q]
      /\ pc'[r] \in {"committed", "done", "failed"}
      /\ pc'[r] = "failed" => lost' = lost \cup {r}
      /\ pc'[r] # "failed" => lost' = lost
      /\ answer'[r] \in {r, answer[r]}
  BY DEF InsertCommit, InsertUnacknowledged, fileVars, Goto, TypeOK
<1>2. pc[r] \notin After /\ pc[r] \in Before /\ r \notin Submissions
  BY <1>1 DEF After, Before, Update, KeyInv
<1>3. /\ \A s \in Requests : s # r => sub'[s] = sub[s]
      /\ sub'[r].artifact = IF pc[r] = "stored" THEN r ELSE None
      /\ sub'[r].key = req[r].key /\ sub'[r].payload = req[r].payload
      /\ Submissions' = Submissions \cup {r}
  BY <1>1, <1>2, InsertedEffect
<1>4. /\ \A q \in Requests : q # r => req'[q] = req[q]
      /\ req'[r].key = req[r].key /\ req'[r].payload = req[r].payload
      /\ pc'[r] # "failed" => req'[r].target = r
  BY <1>1, TargetEffect DEF InsertUnacknowledged, Goto, TypeOK
<1>5. /\ \A s \in Requests : sub[s].artifact # r
      /\ \A q \in Requests : pc[q] \in Update => req[q].prev # r
  BY <1>2, Unowned
<1>6. FileInv'
  BY <1>1 DEF FileInv, Before
<1>7. OwnerInv'
  <2> SUFFICES ASSUME NEW s \in Requests, sub'[s].artifact # None
               PROVE  /\ s \in Submissions'
                      /\ pc'[sub'[s].artifact] \in After
                      /\ pc'[sub'[s].artifact] = "failed" => sub'[s].artifact \in lost'
                      /\ \A t \in Requests : sub'[t].artifact = sub'[s].artifact => t = s
    BY DEF OwnerInv, After
  <2>1. CASE s = r
    BY <1>1, <1>3, <1>5, <2>1 DEF After
  <2>2. CASE s # r
    <3>1. PICK b \in Requests : b = sub[s].artifact
      BY <1>3, <2>2, FieldTypes
    <3>2. /\ s \in Submissions /\ pc[b] \in After
          /\ pc[b] = "failed" => b \in lost
          /\ \A t \in Requests : sub[t].artifact = b => t = s
      BY <3>1 DEF OwnerInv
    <3>3. b # r /\ pc'[b] = pc[b]
      BY <1>1, <1>2, <3>2
    <3> QED
      BY <1>1, <1>3, <2>2, <3>1, <3>2, <3>3
  <2> QED
    BY <2>1, <2>2
<1>8. PreviousInv'
  <2> SUFFICES ASSUME NEW q \in Requests, pc'[q] \in Update
               PROVE  /\ req'[q].target \in Submissions'
                      /\ req'[q].prev # None =>
                           /\ pc'[req'[q].prev] \in After
                           /\ \A s \in Requests : sub'[s].artifact = req'[q].prev =>
                                 s = req'[q].target /\ pc'[q] # "replaced"
    BY DEF PreviousInv, Update, After
  <2>1. q # r /\ pc'[q] = pc[q] /\ req'[q] = req[q] /\ req[q].target \in Submissions
    BY <1>1, <1>4 DEF Update, PreviousInv
  <2>2. ASSUME req[q].prev # None
        PROVE  /\ pc'[req[q].prev] \in After
               /\ \A s \in Requests : sub'[s].artifact = req[q].prev =>
                     s = req[q].target /\ pc[q] # "replaced"
    <3>1. PICK b \in Requests : b = req[q].prev
      BY <2>2, FieldTypes
    <3>2. /\ pc[b] \in After
          /\ \A s \in Requests : sub[s].artifact = b =>
                s = req[q].target /\ pc[q] # "replaced"
      BY <2>1, <2>2, <3>1 DEF PreviousInv
    <3> QED
      BY <1>1, <1>2, <1>3, <3>1, <3>2
  <2> QED
    BY <1>3, <2>1, <2>2
<1>9. ScanInv' /\ ReferencedExists'
  <2>1. ASSUME NEW b \in Referenced'
        PROVE  b \in Referenced \/ (b = r /\ pc[r] = "stored")
    <3>1. PICK s \in Submissions' : b \in Requests /\ sub'[s].artifact = b
      BY DEF Referenced
    <3> QED
      BY <1>3, <3>1 DEF Referenced, Submissions
  <2>2. r \notin old /\ (pc[r] = "stored" => r \in blobs)
    BY <1>2 DEF FileInv
  <2> QED
    BY <1>1, <2>1, <2>2, ScanFrame DEF ReferencedExists
<1>10. KeyInv'
  <2>1. \A s, t \in Submissions' : sub'[s].key # None /\ sub'[s].key = sub'[t].key
                                      => s = t
    BY <1>1, <1>3 DEF KeyInv, Violates, Holders, Submissions
  <2>2. ASSUME NEW q \in Requests
        PROVE  /\ pc'[q] \in Update \cup {"idle", "staged"} => req'[q].key = None
               /\ pc'[q] \in Before \ {"read", "moved"} => q \notin Submissions'
               /\ pc'[q] = "idle" => answer'[q] = None
               /\ pc'[q] = "committed" => req'[q].target \in Requests
    BY <1>1, <1>3, <1>4 DEF KeyInv, Update, Before
  <2>3. ASSUME NEW q \in Requests, pc'[q] = "duplicate"
        PROVE  Holders(req[q].key)' # {} /\ req'[q].key # None
    BY <1>1, <1>2, <1>3, <1>4, <2>3 DEF KeyInv, Holders, Submissions
  <2>4. ASSUME NEW q \in Requests, pc'[q] = "committed", req'[q].key # None
        PROVE  /\ req'[q].target = q /\ q \in Submissions'
               /\ sub'[q].key = req'[q].key /\ sub'[q].payload = req'[q].payload
    BY <1>1, <1>2, <1>3, <1>4, <2>4 DEF KeyInv
  <2>5. ASSUME NEW q \in Requests, answer'[q] # None, req'[q].key # None
        PROVE  /\ answer'[q] \in Submissions'
               /\ sub'[answer'[q]].key = req'[q].key
               /\ sub'[answer'[q]].payload = req'[q].payload
    BY <1>1, <1>2, <1>3, <1>4, <2>5 DEF KeyInv, Submissions
  <2> QED
    BY <2>1, <2>2, <2>3, <2>4, <2>5 DEF KeyInv, Before, Update
<1> QED
  BY <1>6, <1>7, <1>8, <1>9, <1>10

\* The read that starts an update or an attach.
LEMMA ReadInv ==
    ASSUME IInv, TypeOK', NEW r \in Requests, NEW s \in Requests, ReadCreated(r, s)
    PROVE  IInv'
<1> USE RequestsAssumption DEF IInv
<1>1. /\ pc[r] \in {"idle", "staged"} /\ s \in Submissions
      /\ sub' = sub /\ answer' = answer /\ lost' = lost
      /\ scanVars' = scanVars /\ old' = old /\ blobs' = blobs
      /\ \A q \in Requests : q # r => pc'[q] = pc[q]
      /\ pc'[r] = IF sub[s].status = "created" THEN "read" ELSE "done"
      /\ incoming' \subseteq incoming
      /\ Submissions' = Submissions /\ Referenced' = Referenced
  BY DEF ReadCreated, Abort, dbVars, history, Goto, TypeOK, Submissions,
         Referenced
<1>2. /\ \A q \in Requests : q # r => req'[q] = req[q]
      /\ req'[r].key = req[r].key /\ req'[r].payload = req[r].payload
      /\ pc'[r] = "read" =>
            req'[r].target = s /\ req'[r].prev = sub[s].artifact
  BY <1>1, ReadEffect DEF ReadCreated, TypeOK
<1>3. FileInv'
  BY <1>1 DEF FileInv, Before
<1>4. OwnerInv'
  BY <1>1, OwnerFrame DEF After
<1>5. PreviousInv'
  <2> SUFFICES ASSUME NEW q \in Requests, pc'[q] \in Update
               PROVE  /\ req'[q].target \in Submissions
                      /\ req'[q].prev # None =>
                           /\ pc'[req'[q].prev] \in After
                           /\ \A t \in Requests : sub[t].artifact = req'[q].prev =>
                                 t = req'[q].target /\ pc'[q] # "replaced"
    BY <1>1 DEF PreviousInv, Update, After
  <2>1. CASE q = r
    <3>1. /\ req'[q].target = s /\ req'[q].prev = sub[s].artifact
          /\ pc'[q] = "read"
      BY <1>1, <1>2, <2>1 DEF Update
    <3>2. ASSUME sub[s].artifact # None
          PROVE  /\ pc'[sub[s].artifact] \in After
                 /\ \A t \in Requests : sub[t].artifact = sub[s].artifact => t = s
      <4>1. PICK b \in Requests : b = sub[s].artifact
        BY <3>2, FieldTypes
      <4>2. pc[b] \in After /\ \A t \in Requests : sub[t].artifact = b => t = s
        BY <3>2, <4>1 DEF OwnerInv
      <4> QED
        BY <1>1, <4>1, <4>2 DEF After
    <3> QED
      BY <1>1, <3>1, <3>2
  <2>2. CASE q # r
    <3>1. pc'[q] = pc[q] /\ req'[q] = req[q] /\ req[q].target \in Submissions
      BY <1>1, <1>2, <2>2 DEF PreviousInv
    <3>2. ASSUME req[q].prev # None
          PROVE  /\ pc'[req[q].prev] \in After
                 /\ \A t \in Requests : sub[t].artifact = req[q].prev =>
                       t = req[q].target /\ pc[q] # "replaced"
      <4>1. PICK b \in Requests : b = req[q].prev
        BY <3>2, FieldTypes
      <4>2. /\ pc[b] \in After
            /\ \A t \in Requests : sub[t].artifact = b =>
                  t = req[q].target /\ pc[q] # "replaced"
        BY <3>1, <3>2, <4>1 DEF PreviousInv
      <4> QED
        BY <1>1, <4>1, <4>2 DEF After
    <3> QED
      BY <3>1, <3>2
  <2> QED
    BY <2>1, <2>2
<1>6. ScanInv' /\ ReferencedExists'
  BY <1>1, ScanFrame DEF ReferencedExists
<1>7. KeyInv'
  BY <1>1, <1>2 DEF KeyInv, Before, Update, Holders
<1> QED
  BY <1>3, <1>4, <1>5, <1>6, <1>7

\* The UPDATE of an update or an attach, acknowledged or not.
LEMMA ReplaceInv ==
    ASSUME IInv, TypeOK', NEW r \in Requests,
           UpdateCommit(r) \/ UpdateUnacknowledged(r)
    PROVE  IInv'
<1> USE RequestsAssumption DEF IInv
<1> DEFINE t == req[r].target
<1>1. /\ pc[r] = "moved" /\ Replaced(r)
      /\ req' = req /\ answer' = answer
      /\ scanVars' = scanVars /\ old' = old /\ blobs' = blobs /\ incoming' = incoming
      /\ \A q \in Requests : q # r => pc'[q] = pc[q]
      /\ pc'[r] \in {"replaced", "failed"}
      /\ pc'[r] = "failed" => lost' = lost \cup {r}
      /\ pc'[r] # "failed" => lost' = lost
  BY DEF UpdateCommit, UpdateUnacknowledged, fileVars, history, Goto, TypeOK
<1>2. pc[r] \notin After /\ t \in Submissions /\ t \in Requests
  BY <1>1 DEF After, Update, PreviousInv, Submissions
<1>3. /\ \A s \in Requests :
            /\ s # t => sub'[s] = sub[s]
            /\ sub'[s].status = sub[s].status /\ sub'[s].key = sub[s].key
            /\ sub'[s].payload = sub[s].payload
      /\ sub'[t].artifact = r
  BY <1>1, <1>2, ReplacedEffect
<1>4. Submissions' = Submissions
  BY <1>3 DEF Submissions
<1>5. /\ \A s \in Requests : sub[s].artifact # r
      /\ \A q \in Requests : pc[q] \in Update => req[q].prev # r
  BY <1>2, Unowned
<1> HIDE DEF t
<1>6. FileInv'
  BY <1>1 DEF FileInv, Before
<1>7. OwnerInv'
  <2> SUFFICES ASSUME NEW s \in Requests, sub'[s].artifact # None
               PROVE  /\ s \in Submissions'
                      /\ pc'[sub'[s].artifact] \in After
                      /\ pc'[sub'[s].artifact] = "failed" => sub'[s].artifact \in lost'
                      /\ \A u \in Requests : sub'[u].artifact = sub'[s].artifact => u = s
    BY DEF OwnerInv, After
  <2>1. CASE s = t
    BY <1>1, <1>2, <1>3, <1>4, <1>5, <2>1 DEF After
  <2>2. CASE s # t
    <3>1. PICK b \in Requests : b = sub[s].artifact
      BY <1>3, <2>2, FieldTypes
    <3>2. /\ s \in Submissions /\ pc[b] \in After
          /\ pc[b] = "failed" => b \in lost
          /\ \A u \in Requests : sub[u].artifact = b => u = s
      BY <1>3, <2>2, <3>1 DEF OwnerInv
    <3>3. b # r /\ pc'[b] = pc[b]
      BY <1>1, <1>2, <3>2
    <3> QED
      BY <1>1, <1>3, <1>4, <2>2, <3>1, <3>2, <3>3
  <2> QED
    BY <2>1, <2>2
<1>8. PreviousInv'
  <2> SUFFICES ASSUME NEW q \in Requests, pc'[q] \in Update
               PROVE  /\ req[q].target \in Submissions
                      /\ req[q].prev # None =>
                           /\ pc'[req[q].prev] \in After
                           /\ \A s \in Requests : sub'[s].artifact = req[q].prev =>
                                 s = req[q].target /\ pc'[q] # "replaced"
    BY <1>1, <1>4 DEF PreviousInv, Update, After
  <2>1. pc[q] \in Update /\ (q # r => pc'[q] = pc[q])
    BY <1>1 DEF Update
  <2>2. req[q].target \in Submissions
    BY <2>1 DEF PreviousInv
  <2>3. ASSUME req[q].prev # None
        PROVE  /\ pc'[req[q].prev] \in After
               /\ \A s \in Requests : sub'[s].artifact = req[q].prev =>
                     s = req[q].target /\ pc'[q] # "replaced"
    <3>1. PICK b \in Requests : b = req[q].prev
      BY <2>3, FieldTypes
    <3>2. /\ pc[b] \in After
          /\ \A s \in Requests : sub[s].artifact = b =>
                s = req[q].target /\ pc[q] # "replaced"
      BY <2>1, <2>3, <3>1 DEF PreviousInv
    <3>3. b # r /\ pc'[b] \in After
      BY <1>1, <1>2, <3>2
    <3>4. ASSUME NEW s \in Requests, sub'[s].artifact = b
          PROVE  s = req[q].target /\ pc'[q] # "replaced"
      <4>1. s # t /\ sub[s].artifact = b
        BY <1>3, <3>3, <3>4
      <4>2. q # r
        BY <3>2, <4>1 DEF t
      <4> QED
        BY <2>1, <3>2, <4>1, <4>2
    <3> QED
      BY <3>1, <3>3, <3>4
  <2> QED
    BY <2>2, <2>3
<1>9. ScanInv' /\ ReferencedExists'
  <2>1. ASSUME NEW b \in Referenced' PROVE b \in Referenced \/ b = r
    <3>1. PICK s \in Submissions : b \in Requests /\ sub'[s].artifact = b
      BY <1>4 DEF Referenced
    <3> QED
      BY <1>3, <3>1 DEF Referenced, Submissions
  <2>2. r \notin old /\ r \in blobs
    BY <1>1 DEF FileInv, Before
  <2> QED
    BY <1>1, <2>1, <2>2, ScanFrame DEF ReferencedExists
<1>10. KeyInv'
  BY <1>1, <1>3, <1>4 DEF KeyInv, Before, Update, Holders, Submissions
<1> QED
  BY <1>6, <1>7, <1>8, <1>9, <1>10

\* The delete of the artifact that an update has replaced.
LEMMA DropInv ==
    ASSUME IInv, TypeOK', NEW r \in Requests, DropPrevious(r)
    PROVE  IInv'
<1> USE RequestsAssumption DEF IInv
<1>1. /\ pc[r] = "replaced" /\ pc'[r] = "committed"
      /\ \A q \in Requests : q # r => pc'[q] = pc[q]
      /\ sub' = sub /\ req' = req /\ answer' = answer /\ lost' = lost
      /\ scanVars' = scanVars /\ old' = old /\ incoming' = incoming
      /\ blobs' \in {blobs, blobs \ {req[r].prev}}
      /\ Submissions' = Submissions /\ Referenced' = Referenced
  BY DEF DropPrevious, Previous, dbVars, history, Goto, TypeOK, Submissions,
         Referenced
<1>2. ASSUME NEW b \in Requests, b = req[r].prev
      PROVE  pc[b] \in After /\ b \notin Referenced
  BY <1>1, <1>2 DEF PreviousInv, Update, Referenced, Submissions
<1>3. FileInv'
  BY <1>1, <1>2 DEF FileInv, Before, After
<1>4. OwnerInv'
  BY <1>1, OwnerFrame
<1>5. PreviousInv'
  BY <1>1, PreviousFrame DEF Update, After
<1>6. ScanInv' /\ ReferencedExists'
  <2>1. Referenced \subseteq Requests
    BY DEF Referenced
  <2> QED
    BY <1>1, <1>2, <2>1, ScanFrame DEF ReferencedExists
<1>7. req[r].target \in Requests /\ req[r].key = None
  BY <1>1 DEF PreviousInv, KeyInv, Update, Submissions
<1>8. KeyInv'
  BY <1>1, <1>7 DEF KeyInv, Before, Update, Holders
<1> QED
  BY <1>3, <1>4, <1>5, <1>6, <1>8

\* Rollback, compensate_delete and the second look-up of the key.
LEMMA CompensateInv ==
    ASSUME IInv, TypeOK', NEW r \in Requests, Compensate(r)
    PROVE  IInv'
<1> USE RequestsAssumption DEF IInv
<1>1. /\ pc[r] \in {"duplicate", "failed"} /\ pc'[r] = "done"
      /\ \A q \in Requests : q # r => pc'[q] = pc[q] /\ answer'[q] = answer[q]
      /\ sub' = sub /\ req' = req /\ lost' = lost
      /\ scanVars' = scanVars /\ old' = old /\ incoming' = incoming
      /\ blobs' \in {blobs, blobs \ {r}}
      /\ answer'[r] = IF pc[r] = "duplicate"
                      THEN ReplayOrConflict(req[r].key, req[r].payload) ELSE None
      /\ Submissions' = Submissions /\ Referenced' = Referenced
  BY DEF Compensate, dbVars, history, Goto, TypeOK, Submissions, Referenced
<1>2. r \in Referenced => r \in lost
  BY <1>1 DEF OwnerInv, Referenced, Submissions, After
<1>3. answer'[r] # None /\ req[r].key # None =>
         /\ answer'[r] \in Submissions
         /\ sub[answer'[r]].key = req[r].key
         /\ sub[answer'[r]].payload = req[r].payload
  BY <1>1 DEF ReplayOrConflict, Holders, KeyInv
<1>4. FileInv'
  BY <1>1 DEF FileInv, Before
<1>5. OwnerInv'
  BY <1>1, OwnerFrame
<1>6. PreviousInv'
  BY <1>1, PreviousFrame DEF Update, After
<1>7. ScanInv' /\ ReferencedExists'
  BY <1>1, <1>2, ScanFrame DEF ReferencedExists
<1>8. KeyInv'
  BY <1>1, <1>3 DEF KeyInv, Before, Update, Holders
<1> QED
  BY <1>4, <1>5, <1>6, <1>7, <1>8

\* The enqueue that ends a request.
LEMMA EnqueueInv ==
    ASSUME IInv, TypeOK', NEW r \in Requests, Enqueue(r)
    PROVE  IInv'
<1> USE RequestsAssumption DEF IInv
<1>1. /\ pc[r] = "committed" /\ pc'[r] = "done" /\ answer'[r] = req[r].target
      /\ \A q \in Requests : q # r => pc'[q] = pc[q] /\ answer'[q] = answer[q]
      /\ sub' = sub /\ req' = req /\ lost' = lost
      /\ scanVars' = scanVars /\ old' = old /\ incoming' = incoming /\ blobs' = blobs
      /\ Submissions' = Submissions /\ Referenced' = Referenced
  BY DEF Enqueue, fileVars, history, Goto, TypeOK, Submissions, Referenced
<1>2. FileInv' /\ ScanInv' /\ ReferencedExists'
  BY <1>1, ScanFrame DEF FileInv, Before, ReferencedExists
<1>3. OwnerInv'
  BY <1>1, OwnerFrame
<1>4. PreviousInv'
  BY <1>1, PreviousFrame DEF Update, After
<1>5. KeyInv'
  BY <1>1 DEF KeyInv, Before, Update, Holders
<1> QED
  BY <1>2, <1>3, <1>4, <1>5

\* submit and cancel.
LEMMA StatusInv ==
    ASSUME IInv, TypeOK', NEW r \in Requests, Submit(r) \/ Cancel(r)
    PROVE  IInv'
<1> USE RequestsAssumption DEF IInv
<1>1. /\ pc' = pc /\ req' = req /\ answer' = answer /\ lost' = lost
      /\ scanVars' = scanVars /\ old' = old /\ incoming' = incoming /\ blobs' = blobs
  BY DEF Submit, Cancel, fileVars, reqVars, history
<1>2. /\ \A s \in Requests :
            /\ sub'[s].artifact = sub[s].artifact
            /\ sub'[s].key = sub[s].key /\ sub'[s].payload = sub[s].payload
      /\ Submissions' = Submissions
  BY StatusEffect
<1>3. \A s \in Submissions : s \in Requests
  BY DEF Submissions
<1>4. Referenced' = Referenced
  BY <1>2, <1>3 DEF Referenced
<1>5. FileInv' /\ ScanInv' /\ ReferencedExists'
  BY <1>1, <1>4, ScanFrame DEF FileInv, ReferencedExists
<1>6. OwnerInv'
  BY <1>1, <1>2, OwnerFrame
<1>7. PreviousInv'
  BY <1>1, <1>2, PreviousFrame
<1>8. KeyInv'
  BY <1>1, <1>2, <1>3 DEF KeyInv, Holders
<1> QED
  BY <1>5, <1>6, <1>7, <1>8

\* The organizer's steps, and none at all.
LEMMA OtherInv ==
    ASSUME IInv, TypeOK', OrganizerStep \/ UNCHANGED vars
    PROVE  IInv'
<1>1. /\ sub' = sub /\ pc' = pc /\ req' = req /\ answer' = answer /\ lost' = lost
      /\ scanVars' = scanVars /\ old' = old /\ incoming' = incoming /\ blobs' = blobs
      /\ Submissions' = Submissions /\ Referenced' = Referenced
  BY DEF OrganizerStep, PublishHackathon, CloseChallenge, PublishRead,
         PublishCommit, vars, dbVars, fileVars, reqVars, history, Submissions,
         Referenced
<1>2. FileInv' /\ ScanInv' /\ ReferencedExists'
  BY <1>1, ScanFrame DEF IInv, FileInv, ReferencedExists
<1>3. OwnerInv' /\ PreviousInv'
  BY <1>1 DEF IInv, OwnerInv, PreviousInv
<1>4. KeyInv'
  BY <1>1 DEF IInv, KeyInv, Holders
<1> QED
  BY <1>2, <1>3, <1>4 DEF IInv

\* Every step preserves the inductive invariant.
LEMMA NextInv ==
    ASSUME IInv, [Next]_vars
    PROVE  IInv'
<1>1. TypeOK'
  BY TypeNext DEF IInv
<1>2. CASE OrganizerStep \/ UNCHANGED vars
  BY <1>1, <1>2, OtherInv
<1>3. CASE FileStep
  BY <1>1, <1>3, ScanInvs, PlainInv DEF FileStep
<1>4. ASSUME NEW r \in Requests, CreateStep(r) PROVE IInv'
  <2>1. CASE \E k \in Keys, p \in Payloads : FindByIdempotency(r, k, p)
    BY <1>1, <2>1, FindInv
  <2>2. CASE FindByIdempotency(r, None, None)
    BY <1>1, <2>2, FindInv
  <2>3. CASE LockOpenChallenge(r) \/ PutArtifact(r) \/ InsertDuplicate(r)
    BY <1>1, <2>3, PlainInv
  <2>4. CASE InsertCommit(r) \/ InsertUnacknowledged(r)
    BY <1>1, <2>4, InsertInv
  <2> QED
    BY <1>4, <2>1, <2>2, <2>3, <2>4 DEF CreateStep
<1>5. ASSUME NEW r \in Requests, UpdateStep(r) PROVE IInv'
  <2>1. CASE StreamToIncoming(r) \/ PublishBlob(r)
    BY <1>1, <2>1, PlainInv
  <2>2. CASE \E s \in Requests : ReadCreated(r, s)
    BY <1>1, <2>2, ReadInv
  <2>3. CASE UpdateCommit(r) \/ UpdateUnacknowledged(r)
    BY <1>1, <2>3, ReplaceInv
  <2>4. CASE DropPrevious(r)
    BY <1>1, <2>4, DropInv
  <2> QED
    BY <1>5, <2>1, <2>2, <2>3, <2>4 DEF UpdateStep
<1>6. ASSUME NEW r \in Requests,
             CommitFails(r) \/ Compensate(r) \/ Enqueue(r) \/ Stop(r)
                \/ Submit(r) \/ Cancel(r)
      PROVE  IInv'
  BY <1>1, <1>6, PlainInv, CompensateInv, EnqueueInv, StatusInv
<1> QED
  BY <1>2, <1>3, <1>4, <1>5, <1>6 DEF Next

\* The inductive invariant holds in every reachable state.
THEOREM InductiveInvariant == Spec => []IInv
<1>1. Init => IInv
  BY InitInv
<1>2. IInv /\ [Next]_vars => IInv'
  BY NextInv
<1> QED
  BY <1>1, <1>2, PTL DEF Spec

\* Types: rows, requests, answers and jobs hold ids that a request has made.
THEOREM SubmissionTypeCorrect == Spec => []TypeOK
<1>1. IInv => TypeOK
  BY DEF IInv
<1> QED
  BY <1>1, InductiveInvariant, PTL

\* A committed artifact_key names an existing blob: for any number of
\* concurrent requests, no replacement, no other request's compensation and no
\* scan, whatever commits between its listing, its clock and its walk, deletes
\* a blob that a row names.  Excepted is the one delete that the code does
\* wrong: a request whose commit went through unacknowledged deletes its own.
THEOREM ReferencedBlobsExist == Spec => []ReferencedExists
<1>1. IInv => ReferencedExists
  BY DEF IInv
<1> QED
  BY <1>1, InductiveInvariant, PTL

\* Requests that race with one idempotency key are answered with one
\* submission, and only if their fingerprints agree.
THEOREM IdempotentAnswers == Spec => []SameKeySameAnswer
<1>1. IInv => SameKeySameAnswer
  <2> SUFFICES ASSUME IInv, NEW r \in Requests, NEW s \in Requests,
                      req[r].key # None, req[r].key = req[s].key,
                      answer[r] # None, answer[s] # None
               PROVE  answer[r] = answer[s] /\ req[r].payload = req[s].payload
    BY DEF SameKeySameAnswer
  <2>1. /\ answer[r] \in Submissions /\ answer[s] \in Submissions
        /\ sub[answer[r]].key = req[r].key /\ sub[answer[s]].key = req[s].key
        /\ sub[answer[r]].payload = req[r].payload
        /\ sub[answer[s]].payload = req[s].payload
    BY DEF IInv, KeyInv
  <2>2. answer[r] = answer[s]
    BY <2>1 DEF IInv, KeyInv
  <2> QED
    BY <2>1, <2>2
<1> QED
  BY <1>1, InductiveInvariant, PTL

\* The close of a challenge is final for acceptance if it is published by one
\* request only; two publish requests that read the draft together can reopen
\* it.
THEOREM ClosedOnce ==
    ASSUME \A p, q \in Publishers : p = q
    PROVE  Spec => []NoAcceptanceAfterClose
<1>1. Init => GateInv
  BY InitInv
<1>2. IInv /\ GateInv /\ [Next]_vars => GateInv'
  <2> SUFFICES ASSUME IInv, GateInv, [Next]_vars PROVE GateInv'
    OBVIOUS
  <2> USE DEF GateInv
  <2>1. TypeOK /\ \A r \in Sharers : r \in Requests
    BY DEF IInv, Sharers
  <2>2. CASE OrganizerStep
    BY <2>1, <2>2 DEF OrganizerStep, PublishHackathon, CloseChallenge,
       PublishRead, PublishCommit, dbVars, reqVars, history, TypeOK, Sharers
  <2>3. CASE FileStep \/ UNCHANGED vars
    BY <2>3 DEF FileStep, ScanList, ScanClock, ScanFiles, Age,
       ScanDelete, CleanupIncoming, vars,
       dbVars, reqVars, history, Sharers
  <2>4. ASSUME NEW r \in Requests, CreateStep(r) PROVE GateInv'
    <3>1. ASSUME NEW k, NEW p, FindByIdempotency(r, k, p) PROVE GateInv'
      <4>1. /\ challenge' = challenge /\ pub' = pub /\ late' = late
            /\ everClosed' = everClosed /\ Sharers' \subseteq Sharers
        BY <2>1, <3>1 DEF FindByIdempotency, Goto, dbVars, history, TypeOK, Sharers
      <4> QED
        BY <4>1
    <3>2. CASE LockOpenChallenge(r) \/ PutArtifact(r) \/ InsertDuplicate(r)
      BY <2>1, <3>2 DEF LockOpenChallenge, PutArtifact, InsertDuplicate, Goto,
         dbVars, history, TypeOK, Sharers
    <3>3. CASE InsertCommit(r) \/ InsertUnacknowledged(r)
      <4>1. r \in Sharers /\ challenge = "published" /\ ~everClosed
        BY <2>1, <3>3 DEF InsertCommit, InsertUnacknowledged, Sharers
      <4>2. /\ challenge' = challenge /\ pub' = pub /\ late' = late
            /\ everClosed' = everClosed
        BY <3>3, <4>1 DEF InsertCommit, InsertUnacknowledged, Inserted
      <4> QED
        BY <4>1, <4>2
    <3> QED
      BY <2>4, <3>1, <3>2, <3>3 DEF CreateStep
  <2>5. ASSUME NEW r \in Requests, UpdateStep(r) PROVE GateInv'
    <3>1. /\ challenge' = challenge /\ pub' = pub /\ late' = late
          /\ everClosed' = everClosed
      BY <2>5 DEF UpdateStep, StreamToIncoming, ReadCreated, PublishBlob,
         UpdateCommit, UpdateUnacknowledged, DropPrevious, dbVars, history
    <3>2. CASE \E s \in Requests : ReadCreated(r, s)
      <4>1. Sharers' \subseteq Sharers
        BY <2>1, <3>2 DEF ReadCreated, Goto, TypeOK, Sharers
      <4> QED
        BY <3>1, <4>1
    <3>3. CASE ~\E s \in Requests : ReadCreated(r, s)
      <4>1. Sharers' \subseteq Sharers
        BY <2>1, <2>5, <3>3 DEF UpdateStep, StreamToIncoming, PublishBlob,
           UpdateCommit, UpdateUnacknowledged, DropPrevious, Goto, TypeOK, Sharers
      <4> QED
        BY <3>1, <4>1
    <3> QED
      BY <3>2, <3>3
  <2>6. ASSUME NEW r \in Requests,
               CommitFails(r) \/ Compensate(r) \/ Enqueue(r) \/ Stop(r)
                  \/ Submit(r) \/ Cancel(r)
        PROVE  GateInv'
    BY <2>1, <2>6 DEF CommitFails, Compensate, Enqueue, Stop, Submit, Cancel,
       Goto, dbVars, reqVars, history, TypeOK, Sharers
  <2> QED
    BY <2>2, <2>3, <2>4, <2>5, <2>6 DEF Next
<1>3. GateInv => NoAcceptanceAfterClose
  BY DEF GateInv, NoAcceptanceAfterClose
<1> QED
  BY <1>1, <1>2, <1>3, InductiveInvariant, PTL DEF Spec

-----------------------------------------------------------------------------
\* A step that leaves the rows' artifacts, the jobs and the answers alone keeps
\* EnqueuedInv, unless it moves a request to where it must know its row.
LEMMA EnqueuedFrame ==
    ASSUME TypeOK, EnqueuedInv, NEW r \in Requests,
           \A s \in Requests : sub'[s].artifact = sub[s].artifact,
           jobs' = jobs, answer' = answer,
           \A q \in Requests : q # r => pc'[q] = pc[q] /\ req'[q] = req[q],
           pc[r] = "done" => pc'[r] = "done",
           pc'[r] \in {"replaced", "committed"} =>
              pc[r] \in {"replaced", "committed"} /\ req'[r].target = req[r].target
    PROVE  EnqueuedInv'
<1> SUFFICES ASSUME NEW q \in Requests
             PROVE  /\ answer'[q] # None => pc'[q] = "done"
                    /\ \A s \in Requests : sub'[s].artifact = q =>
                         /\ pc'[q] \in {"replaced", "committed"}
                              => req'[q].target = s
                         /\ answer'[q] # None => <<s, q>> \in jobs'
  BY DEF EnqueuedInv
<1>1. CASE q = r
  BY <1>1 DEF EnqueuedInv
<1>2. CASE q # r
  BY <1>2 DEF EnqueuedInv
<1> QED
  BY <1>1, <1>2

\* The steps of creates keep EnqueuedInv.
LEMMA EnqueuedCreate ==
    ASSUME IInv, EnqueuedInv, NEW r \in Requests, CreateStep(r)
    PROVE  EnqueuedInv'
<1> USE RequestsAssumption
<1>1. TypeOK /\ OwnerInv /\ PreviousInv /\ KeyInv
  BY DEF IInv
<1>2. ASSUME NEW k \in Keys \cup {None}, NEW p \in Payloads \cup {None},
             FindByIdempotency(r, k, p)
      PROVE  EnqueuedInv'
  <2>1. /\ pc[r] = "idle" /\ pc' = [pc EXCEPT ![r] = pc'[r]]
        /\ pc'[r] \in {"done", "found"} /\ sub' = sub /\ jobs' = jobs
    BY <1>1, <1>2 DEF FindByIdempotency, Goto, dbVars, TypeOK
  <2>2. \A s \in Requests : sub[s].artifact # r
    BY <1>1, <2>1, Unowned DEF After
  <2>3. \A q \in Requests : q # r => req'[q] = req[q]
    BY <1>1, <1>2, FindEffect
  <2>4. /\ \A q \in Requests : q # r => answer'[q] = answer[q]
        /\ answer'[r] # None => pc'[r] = "done"
    BY <1>1, <1>2, <2>1 DEF FindByIdempotency, Goto, TypeOK, KeyInv
  <2> QED
    BY <1>1, <2>1, <2>2, <2>3, <2>4 DEF EnqueuedInv, TypeOK
<1>3. CASE LockOpenChallenge(r) \/ PutArtifact(r) \/ InsertDuplicate(r)
  BY <1>1, <1>3, EnqueuedFrame DEF LockOpenChallenge, PutArtifact,
     InsertDuplicate, Goto, dbVars, TypeOK
<1>4. CASE InsertCommit(r) \/ InsertUnacknowledged(r)
  <2>1. pc[r] \in {"locked", "stored"} /\ r \notin Submissions /\ Inserted(r)
        /\ jobs' = jobs
    BY <1>1, <1>4 DEF InsertCommit, InsertUnacknowledged, KeyInv, Before
  <2>2. \A s \in Requests : sub[s].artifact # r
    BY <1>1, <2>1, Unowned DEF After
  <2>3. /\ \A s \in Requests : s # r => sub'[s] = sub[s]
        /\ sub'[r].artifact = IF pc[r] = "stored" THEN r ELSE None
    BY <1>1, <2>1, InsertedEffect
  <2>4. answer[r] = None
    BY <2>1 DEF EnqueuedInv
  <2>5. /\ \A q \in Requests : q # r => /\ req'[q] = req[q] /\ pc'[q] = pc[q]
                                        /\ answer'[q] = answer[q]
        /\ pc'[r] = "committed" => req'[r].target = r
        /\ pc'[r] \in {"committed", "done", "failed"}
        /\ answer'[r] # None => pc'[r] = "done" /\ pc[r] = "locked"
    <3>1. CASE InsertCommit(r)
      BY <1>1, <2>4, <3>1, TargetEffect DEF InsertCommit, Goto, TypeOK
    <3>2. CASE InsertUnacknowledged(r)
      BY <1>1, <2>4, <3>2 DEF InsertUnacknowledged, Goto, TypeOK
    <3> QED
      BY <1>4, <3>1, <3>2
  <2>6. ASSUME NEW q \in Requests, NEW s \in Requests, sub'[s].artifact = q
        PROVE  q # r => sub[s].artifact = q
    BY <2>3, <2>6
  <2>7. ASSUME NEW s \in Requests, sub'[s].artifact = r
        PROVE  s = r /\ pc[r] = "stored"
    BY <2>2, <2>3, <2>7
  <2> QED
    BY <2>1, <2>5, <2>6, <2>7 DEF EnqueuedInv
<1> QED
  BY <1>2, <1>3, <1>4 DEF CreateStep

\* The steps of updates keep EnqueuedInv.
LEMMA EnqueuedUpdate ==
    ASSUME IInv, EnqueuedInv, NEW r \in Requests, UpdateStep(r)
    PROVE  EnqueuedInv'
<1> USE RequestsAssumption
<1>1. TypeOK /\ OwnerInv /\ PreviousInv
  BY DEF IInv
<1>2. CASE StreamToIncoming(r) \/ PublishBlob(r) \/ DropPrevious(r)
  BY <1>1, <1>2, EnqueuedFrame DEF StreamToIncoming, PublishBlob, DropPrevious,
     Goto, dbVars, TypeOK
<1>3. ASSUME NEW s \in Requests, ReadCreated(r, s) PROVE EnqueuedInv'
  <2>1. /\ pc[r] \in {"idle", "staged"} /\ pc' = [pc EXCEPT ![r] = pc'[r]]
        /\ pc'[r] \in {"read", "done"} /\ answer' = answer
        /\ sub' = sub /\ jobs' = jobs
    BY <1>1, <1>3 DEF ReadCreated, Goto, dbVars, TypeOK
  <2>2. \A q \in Requests : q # r => req'[q] = req[q]
    BY <1>1, <1>3 DEF ReadCreated, TypeOK
  <2> QED
    BY <1>1, <2>1, <2>2, EnqueuedFrame DEF TypeOK
<1>4. CASE UpdateCommit(r) \/ UpdateUnacknowledged(r)
  <2>1. /\ pc[r] = "moved" /\ Replaced(r) /\ req' = req /\ jobs' = jobs
        /\ answer' = answer /\ pc' = [pc EXCEPT ![r] = pc'[r]]
        /\ pc'[r] \in {"replaced", "failed"}
    BY <1>1, <1>4 DEF UpdateCommit, UpdateUnacknowledged, Goto, TypeOK
  <2>2. req[r].target \in Requests
    BY <1>1, <2>1 DEF PreviousInv, Update, Submissions
  <2>3. /\ \A s \in Requests : s # req[r].target => sub'[s] = sub[s]
        /\ sub'[req[r].target].artifact = r
    BY <1>1, <2>1, <2>2, ReplacedEffect
  <2>4. /\ \A s \in Requests : sub[s].artifact # r
        /\ answer[r] = None
    BY <1>1, <2>1, Unowned DEF After, EnqueuedInv
  <2>5. ASSUME NEW q \in Requests, NEW s \in Requests, sub'[s].artifact = q
        PROVE  /\ q # r => sub[s].artifact = q
               /\ q = r => s = req[r].target
    BY <2>3, <2>4, <2>5
  <2> QED
    BY <1>1, <2>1, <2>4, <2>5 DEF EnqueuedInv, TypeOK
<1> QED
  BY <1>2, <1>3, <1>4 DEF UpdateStep

\* The other steps of a request keep EnqueuedInv.
LEMMA EnqueuedBoth ==
    ASSUME IInv, EnqueuedInv, NEW r \in Requests,
           CommitFails(r) \/ Compensate(r) \/ Enqueue(r) \/ Stop(r)
              \/ Submit(r) \/ Cancel(r)
    PROVE  EnqueuedInv'
<1> USE RequestsAssumption
<1>1. TypeOK /\ OwnerInv /\ PreviousInv
  BY DEF IInv
<1>2. CASE CommitFails(r) \/ Stop(r)
  BY <1>1, <1>2, EnqueuedFrame DEF CommitFails, Stop, Goto, dbVars, TypeOK
<1>3. CASE Submit(r) \/ Cancel(r)
  <2>1. /\ pc' = pc /\ req' = req /\ answer' = answer /\ jobs' = jobs
    BY <1>3 DEF Submit, Cancel, reqVars
  <2>2. \A s \in Requests : sub'[s].artifact = sub[s].artifact
    BY <1>1, <1>3, StatusEffect
  <2> QED
    BY <2>1, <2>2 DEF EnqueuedInv
<1>4. CASE Compensate(r)
  <2>1. /\ pc[r] \in {"duplicate", "failed"} /\ req' = req /\ sub' = sub
        /\ jobs' = jobs /\ pc' = [pc EXCEPT ![r] = "done"]
        /\ \A q \in Requests : q # r => answer'[q] = answer[q]
        /\ pc[r] = "failed" => answer'[r] = None
    BY <1>1, <1>4 DEF Compensate, Goto, dbVars, TypeOK
  <2>2. pc[r] = "duplicate" => \A s \in Requests : sub[s].artifact # r
    BY <1>1, Unowned DEF After
  <2> QED
    BY <1>1, <2>1, <2>2 DEF EnqueuedInv, TypeOK
<1>5. CASE Enqueue(r)
  <2>1. /\ pc[r] = "committed" /\ req' = req /\ sub' = sub
        /\ jobs' = jobs \cup {<<req[r].target, r>>}
        /\ pc' = [pc EXCEPT ![r] = "done"]
        /\ \A q \in Requests : q # r => answer'[q] = answer[q]
    BY <1>1, <1>5 DEF Enqueue, Goto, TypeOK
  <2> QED
    BY <1>1, <2>1 DEF EnqueuedInv, TypeOK
<1> QED
  BY <1>2, <1>3, <1>4, <1>5

\* The request that brings an artifact is answered only when a job names the
\* artifact, wherever requests stop, fail or race, for any number of them.  It
\* is not said of a retry, which may be answered with the submission of a
\* request that stopped before its job.
THEOREM AnsweredAreEnqueued == Spec => []AnsweredIsEnqueued
<1>1. Init => EnqueuedInv
  BY RequestsAssumption DEF Init, EnqueuedInv, NoSubmission
<1>2. IInv /\ EnqueuedInv /\ [Next]_vars => EnqueuedInv'
  <2> SUFFICES ASSUME IInv, EnqueuedInv, [Next]_vars PROVE EnqueuedInv'
    OBVIOUS
  <2>1. CASE OrganizerStep \/ FileStep \/ UNCHANGED vars
    <3>1. UNCHANGED <<sub, jobs, pc, req, answer>>
      BY <2>1 DEF OrganizerStep, PublishHackathon, CloseChallenge, PublishRead,
         PublishCommit, FileStep, ScanList, ScanClock, ScanFiles, Age,
       ScanDelete, CleanupIncoming,
         vars, dbVars, reqVars
    <3> QED
      BY <3>1 DEF EnqueuedInv
  <2> QED
    BY <2>1, EnqueuedCreate, EnqueuedUpdate, EnqueuedBoth DEF Next
<1>3. EnqueuedInv => AnsweredIsEnqueued
  BY DEF EnqueuedInv, AnsweredIsEnqueued
<1> QED
  BY <1>1, <1>2, <1>3, InductiveInvariant, PTL DEF Spec

=============================================================================
