------------------------- MODULE SubmissionLifecycle -------------------------
(***************************************************************************)
(* Submissions of one participant to one challenge: the API requests that  *)
(* publish and close the challenge and create, update, submit and cancel   *)
(* submissions, the artifact blobs and staged uploads those requests       *)
(* leave in the file system, the ingestion jobs they enqueue, and the      *)
(* scan that deletes orphaned blobs.                                       *)
(*                                                                         *)
(* Requests run concurrently, one statement, commit or file operation at a *)
(* time.  A request creates at most one submission and one blob, and both  *)
(* are named by it: every submission id and artifact key is a new uuid.    *)
(* A request may stop at any point (the process dies, or the client's      *)
(* cancellation passes every "except Exception").                          *)
(*                                                                         *)
(* Abstracted: metadata to the fingerprint of the create request, and the  *)
(* other checks of a request (actor, sizes, checksums) to requests that    *)
(* end without effect.  Ingestion is enabled, as by default.               *)
(***************************************************************************)
EXTENDS Naturals, FiniteSets

CONSTANTS
    Requests,    \* create, update and upload requests
    None,        \* no submission, no blob, no key
    Keys,        \* idempotency keys
    Payloads,    \* fingerprints of create requests
    Publishers   \* requests to publish the challenge

ASSUME RequestsAssumption == None \notin Requests \cup Keys

VARIABLES
    hackathon,   \* its status
    challenge,   \* its status
    sub,         \* the submissions table
    evals,       \* submissions with an evaluation row
    jobs,        \* ingestion jobs: submission and artifact key
    blobs,       \* artifact keys whose blob exists
    incoming,    \* staged uploads
    old,         \* files past the grace of the scan
    pc,          \* where a request is
    req,         \* its parameters and what it has read
    answer,      \* the submission its response names
    pub,         \* where a publish request is
    scan,        \* where the orphan scan is
    refs,        \* the keys that were listed for it
    aged,        \* files past the grace by its clock
    doomed,      \* what it has yet to delete
    everClosed,  \* history: a close has committed
    late,        \* history: submissions accepted after that
    lost         \* history: requests whose commit was not acknowledged

dbVars   == <<hackathon, challenge, sub, evals, jobs>>
scanVars == <<scan, refs, aged, doomed>>
fileVars == <<blobs, incoming, old, scanVars>>
reqVars  == <<pc, req, answer>>
history  == <<everClosed, late, lost>>
vars     == <<dbVars, fileVars, reqVars, pub, history>>

Submission == [status : {"none", "created", "submitted", "cancelled"},
               artifact : Requests \cup {None},
               key : Keys \cup {None}, payload : Payloads \cup {None}]
Request    == [target : Requests \cup {None}, prev : Requests \cup {None},
               key : Keys \cup {None}, payload : Payloads \cup {None}]
PCs == {"idle", "found", "locked", "stored", "duplicate", "failed",
        "staged", "read", "moved", "replaced", "committed", "done"}

NoSubmission == [status |-> "none", artifact |-> None,
                 key |-> None, payload |-> None]
NoRequest    == [target |-> None, prev |-> None, key |-> None, payload |-> None]

Init ==
    /\ hackathon = "draft"
    /\ challenge = "draft"
    /\ sub = [r \in Requests |-> NoSubmission]
    /\ evals = {}
    /\ jobs = {}
    /\ blobs = {}
    /\ incoming = {}
    /\ old = {}
    /\ pc = [r \in Requests |-> "idle"]
    /\ req = [r \in Requests |-> NoRequest]
    /\ answer = [r \in Requests |-> None]
    /\ pub = [p \in Publishers |-> "idle"]
    /\ scan = "idle"
    /\ refs = {}
    /\ aged = {}
    /\ doomed = {}
    /\ everClosed = FALSE
    /\ late = {}
    /\ lost = {}

Submissions == {s \in Requests : sub[s].status # "none"}
Referenced  == {b \in Requests : \E s \in Submissions : sub[s].artifact = b}

Goto(r, p) == pc' = [pc EXCEPT ![r] = p]

-----------------------------------------------------------------------------
(* The challenge. *)

\* Acceptance holds the challenge row FOR SHARE until its commit or rollback;
\* the UPDATEs of publish and close wait for that.
Sharers == {r \in Requests : pc[r] \in {"locked", "stored"}}

PublishHackathon ==
    /\ hackathon = "draft"
    /\ hackathon' = "published"
    /\ UNCHANGED <<challenge, sub, evals, jobs, fileVars, reqVars, pub, history>>

\* publish_challenge reads the status without a lock ...
PublishRead(p) ==
    /\ pub[p] = "idle"
    /\ pub' = [pub EXCEPT ![p] = IF challenge = "draft" THEN "read" ELSE "done"]
    /\ UNCHANGED <<dbVars, fileVars, reqVars, history>>

\* ... and saves PUBLISHED whatever the status has become.
PublishCommit(p) ==
    /\ pub[p] = "read"
    /\ Sharers = {}
    /\ challenge' = "published"
    /\ pub' = [pub EXCEPT ![p] = "done"]
    /\ UNCHANGED <<hackathon, sub, evals, jobs, fileVars, reqVars, history>>

\* Faulty variant: close does not wait for admitted requests.
CloseChallenge_NoLock ==
    /\ challenge = "published"
    /\ challenge' = "closed"
    /\ everClosed' = TRUE
    /\ UNCHANGED <<hackathon, sub, evals, jobs, fileVars, reqVars, pub, late, lost>>

\* close_challenge, FOR UPDATE through the commit.
CloseChallenge ==
    /\ challenge = "published"
    /\ Sharers = {}
    /\ challenge' = "closed"
    /\ everClosed' = TRUE
    /\ UNCHANGED <<hackathon, sub, evals, jobs, fileVars, reqVars, pub, late, lost>>

-----------------------------------------------------------------------------
(* SubmissionService.create. *)

Holders(k) == {s \in Submissions : sub[s].key = k}

\* The submission that a request with the key of an existing one is answered
\* with; None stands for the 409 when the fingerprint differs.
ReplayOrConflict(k, p) ==
    LET s == CHOOSE h \in Holders(k) : TRUE
    IN  IF sub[s].payload = p THEN s ELSE None

\* find_by_idempotency; a request without a key has no fingerprint.
FindByIdempotency(r, k, p) ==
    /\ pc[r] = "idle"
    /\ req' = [req EXCEPT ![r] = [@ EXCEPT !.key = k, !.payload = p]]
    /\ IF k # None /\ Holders(k) # {}
       THEN /\ answer' = [answer EXCEPT ![r] = ReplayOrConflict(k, p)]
            /\ Goto(r, "done")
       ELSE /\ Goto(r, "found")
            /\ UNCHANGED answer
    /\ UNCHANGED <<dbVars, fileVars, pub, history>>

\* _lock_open_challenge.
LockOpenChallenge(r) ==
    /\ pc[r] = "found"
    /\ Goto(r, IF challenge = "published" /\ hackathon = "published"
               THEN "locked" ELSE "done")
    /\ UNCHANGED <<dbVars, fileVars, req, answer, pub, history>>

PutArtifact(r) ==
    /\ pc[r] = "locked"
    /\ blobs' = blobs \cup {r}
    /\ Goto(r, "stored")
    /\ UNCHANGED <<dbVars, incoming, old, scanVars, req, answer, pub, history>>

\* The row that request r inserts; "stored" means that it brought an artifact.
NewSubmission(r) ==
    [status |-> "created", artifact |-> IF pc[r] = "stored" THEN r ELSE None,
     key |-> req[r].key, payload |-> req[r].payload]

Inserted(r) ==
    /\ sub' = [sub EXCEPT ![r] = NewSubmission(r)]
    /\ late' = IF everClosed THEN late \cup {r} ELSE late

\* Faulty variant: no unique index on the participant's idempotency keys.
Violates_NoIndex(r) == FALSE

\* The INSERT violates uq_submissions_participant_idempotency.
Violates(r) == req[r].key # None /\ Holders(req[r].key) # {}

\* Faulty variant: the job is enqueued before the id of the row is known.
InsertCommit_NoTarget(r) ==
    /\ pc[r] \in {"locked", "stored"}
    /\ ~Violates(r)
    /\ Inserted(r)
    /\ IF pc[r] = "stored"
       THEN Goto(r, "committed") /\ UNCHANGED answer
       ELSE Goto(r, "done") /\ answer' = [answer EXCEPT ![r] = r]
    /\ UNCHANGED <<hackathon, challenge, evals, jobs, fileVars, req, pub,
                   everClosed, lost>>

\* Faulty variant: the response is sent before the job is enqueued.
InsertCommit_AnswersFirst(r) ==
    /\ pc[r] \in {"locked", "stored"}
    /\ ~Violates(r)
    /\ Inserted(r)
    /\ req' = [req EXCEPT ![r] = [@ EXCEPT !.target = r]]
    /\ Goto(r, IF pc[r] = "stored" THEN "committed" ELSE "done")
    /\ answer' = [answer EXCEPT ![r] = r]
    /\ UNCHANGED <<hackathon, challenge, evals, jobs, fileVars, pub,
                   everClosed, lost>>

\* INSERT and COMMIT.  The session's commit releases the share lock.
InsertCommit(r) ==
    /\ pc[r] \in {"locked", "stored"}
    /\ ~Violates(r)
    /\ Inserted(r)
    /\ req' = [req EXCEPT ![r] = [@ EXCEPT !.target = r]]
    /\ IF pc[r] = "stored"
       THEN Goto(r, "committed") /\ UNCHANGED answer
       ELSE Goto(r, "done") /\ answer' = [answer EXCEPT ![r] = r]
    /\ UNCHANGED <<hackathon, challenge, evals, jobs, fileVars, pub,
                   everClosed, lost>>

InsertDuplicate(r) ==
    /\ pc[r] \in {"locked", "stored"}
    /\ Violates(r)
    /\ Goto(r, "duplicate")
    /\ UNCHANGED <<dbVars, fileVars, req, answer, pub, history>>

\* The commit raises although the server has committed.
InsertUnacknowledged(r) ==
    /\ pc[r] \in {"locked", "stored"}
    /\ ~Violates(r)
    /\ Inserted(r)
    /\ lost' = lost \cup {r}
    /\ Goto(r, "failed")
    /\ UNCHANGED <<hackathon, challenge, evals, jobs, fileVars, req, answer,
                   pub, everClosed>>

-----------------------------------------------------------------------------
(* update_created, and attach_incoming after stream_to_incoming. *)

StreamToIncoming(r) ==
    /\ pc[r] = "idle"
    /\ incoming' = incoming \cup {r}
    /\ Goto(r, "staged")
    /\ UNCHANGED <<dbVars, blobs, old, scanVars, req, answer, pub, history>>

\* IncomingUpload.abort.
Abort(r) == incoming' = incoming \ {r}

\* The row is read without a lock; a request that may not go on aborts its
\* staged upload.
ReadCreated(r, s) ==
    /\ pc[r] \in {"idle", "staged"}
    /\ s \in Submissions
    /\ IF sub[s].status = "created"
       THEN /\ req' = [req EXCEPT ![r] = [@ EXCEPT !.target = s,
                                                !.prev = sub[s].artifact]]
            /\ Goto(r, "read")
            /\ UNCHANGED incoming
       ELSE /\ Abort(r)
            /\ Goto(r, "done")
            /\ UNCHANGED req
    /\ UNCHANGED <<dbVars, blobs, old, scanVars, answer, pub, history>>

\* put, or put_from_path, which moves the staged file and its mtime.
PublishBlob(r) ==
    /\ pc[r] = "read"
    /\ blobs' = blobs \cup {r}
    /\ incoming' = incoming \ {r}
    /\ Goto(r, "moved")
    /\ UNCHANGED <<dbVars, old, scanVars, req, answer, pub, history>>

Replaced(r) == sub' = [sub EXCEPT ![req[r].target] = [@ EXCEPT !.artifact = r]]

\* The UPDATE names the row by its id only.
UpdateCommit(r) ==
    /\ pc[r] = "moved"
    /\ Replaced(r)
    /\ Goto(r, "replaced")
    /\ UNCHANGED <<hackathon, challenge, evals, jobs, fileVars, req, answer,
                   pub, history>>

UpdateUnacknowledged(r) ==
    /\ pc[r] = "moved"
    /\ Replaced(r)
    /\ lost' = lost \cup {r}
    /\ Goto(r, "failed")
    /\ UNCHANGED <<hackathon, challenge, evals, jobs, fileVars, req, answer,
                   pub, everClosed, late>>

\* previous_artifact_key, as read before the commit.
Previous(r) == req[r].prev

\* compensate_delete never raises: the blob may stay.
DropPrevious(r) ==
    /\ pc[r] = "replaced"
    /\ blobs' \in {blobs, blobs \ {Previous(r)}}
    /\ Goto(r, "committed")
    /\ UNCHANGED <<dbVars, incoming, old, scanVars, req, answer, pub, history>>

-----------------------------------------------------------------------------
(* Both. *)

\* A commit that fails, before anything is committed.
CommitFails(r) ==
    /\ pc[r] \in {"locked", "stored", "moved"}
    /\ Goto(r, "failed")
    /\ UNCHANGED <<dbVars, fileVars, req, answer, pub, history>>

\* rollback and compensate_delete; after an IntegrityError the key is looked
\* up again.
Compensate(r) ==
    /\ pc[r] \in {"duplicate", "failed"}
    /\ blobs' \in {blobs, blobs \ {r}}
    /\ answer' = [answer EXCEPT ![r] =
                    IF pc[r] = "duplicate"
                    THEN ReplayOrConflict(req[r].key, req[r].payload) ELSE None]
    /\ Goto(r, "done")
    /\ UNCHANGED <<dbVars, incoming, old, scanVars, req, pub, history>>

\* The job is enqueued in a transaction of its own.
Enqueue(r) ==
    /\ pc[r] = "committed"
    /\ jobs' = jobs \cup {<<req[r].target, r>>}
    /\ answer' = [answer EXCEPT ![r] = req[r].target]
    /\ Goto(r, "done")
    /\ UNCHANGED <<hackathon, challenge, sub, evals, fileVars, req, pub, history>>

\* The request stops; its transaction is rolled back.
Stop(r) ==
    /\ pc[r] \notin {"idle", "done"}
    /\ Goto(r, "done")
    /\ UNCHANGED <<dbVars, fileVars, req, answer, pub, history>>

TransitionIfCreated(s, to) ==
    /\ sub[s].status = "created"
    /\ sub' = [sub EXCEPT ![s] = [@ EXCEPT !.status = to]]

\* The transition and create_queued, in one transaction.
Submit(s) ==
    /\ TransitionIfCreated(s, "submitted")
    /\ evals' = evals \cup {s}
    /\ UNCHANGED <<hackathon, challenge, jobs, fileVars, reqVars, pub, history>>

Cancel(s) ==
    /\ TransitionIfCreated(s, "cancelled")
    /\ UNCHANGED <<hackathon, challenge, evals, jobs, fileVars, reqVars, pub,
                   history>>

-----------------------------------------------------------------------------
(* Clean-up. *)

\* grace_seconds cover a request from its file to its commit, and the time
\* from the listing of the keys to the clock of the scan besides: no file
\* whose request was under way at the listing is past the grace by that
\* clock.  (A file settled by then may as well have aged before.)
WithinGrace(r) == scan = "listed" \/ pc[r] \in {"stored", "staged", "read", "moved"}

Age(r) ==
    /\ r \in (blobs \cup incoming) \ old
    /\ ~WithinGrace(r)
    /\ old' = old \cup {r}
    /\ UNCHANGED <<dbVars, blobs, incoming, scanVars, reqVars, pub, history>>

\* The caller of reconcile_orphans lists the referenced keys ...
ScanList ==
    /\ scan = "idle" /\ doomed = {}
    /\ scan' = "listed"
    /\ refs' = Referenced
    /\ UNCHANGED <<dbVars, blobs, incoming, old, aged, doomed, reqVars, pub,
                   history>>

\* ... reconcile_orphans reads its clock once ...
ScanClock ==
    /\ scan = "listed"
    /\ scan' = "clocked"
    /\ aged' = old
    /\ UNCHANGED <<dbVars, blobs, incoming, old, refs, doomed, reqVars, pub,
                   history>>

\* Faulty variant: an age is taken by the clock at the time of the walk.
ScanFiles_Now ==
    /\ scan = "clocked"
    /\ scan' = "idle"
    /\ doomed' = (blobs \cap old) \ refs
    /\ refs' = {} /\ aged' = {}
    /\ UNCHANGED <<dbVars, blobs, incoming, old, reqVars, pub, history>>

\* ... and lists the files, however long after that.  A file's mtime never
\* changes: what is past the grace was so by the clock.
ScanFiles ==
    /\ scan = "clocked"
    /\ scan' = "idle"
    /\ doomed' = (blobs \cap aged) \ refs
    /\ refs' = {} /\ aged' = {}
    /\ UNCHANGED <<dbVars, blobs, incoming, old, reqVars, pub, history>>

\* storage.delete, which may fail.  The next scan starts after the last.
ScanDelete(b) ==
    /\ b \in doomed
    /\ doomed' = doomed \ {b}
    /\ blobs' \in {blobs, blobs \ {b}}
    /\ UNCHANGED <<dbVars, incoming, old, scan, refs, aged, reqVars, pub,
                   history>>

\* cleanup_incoming, by the scan or by an upload; a file it cannot remove
\* stays.
CleanupIncoming(r) ==
    /\ r \in incoming \cap old
    /\ incoming' = incoming \ {r}
    /\ UNCHANGED <<dbVars, blobs, old, scanVars, reqVars, pub, history>>

-----------------------------------------------------------------------------
CreateStep(r) ==
    \/ \E k \in Keys, p \in Payloads : FindByIdempotency(r, k, p)
    \/ FindByIdempotency(r, None, None)
    \/ LockOpenChallenge(r) \/ PutArtifact(r)
    \/ InsertCommit(r) \/ InsertDuplicate(r) \/ InsertUnacknowledged(r)

UpdateStep(r) ==
    \/ StreamToIncoming(r)
    \/ \E s \in Requests : ReadCreated(r, s)
    \/ PublishBlob(r) \/ UpdateCommit(r) \/ UpdateUnacknowledged(r)
    \/ DropPrevious(r)

OrganizerStep ==
    \/ PublishHackathon \/ CloseChallenge
    \/ \E p \in Publishers : PublishRead(p) \/ PublishCommit(p)

FileStep ==
    \/ ScanList \/ ScanClock \/ ScanFiles
    \/ \E r \in Requests : Age(r) \/ ScanDelete(r) \/ CleanupIncoming(r)

Next ==
    \/ OrganizerStep
    \/ FileStep
    \/ \E r \in Requests :
         \/ CreateStep(r) \/ UpdateStep(r)
         \/ CommitFails(r) \/ Compensate(r) \/ Enqueue(r) \/ Stop(r)
         \/ Submit(r) \/ Cancel(r)

Spec == Init /\ [][Next]_vars

-----------------------------------------------------------------------------
(* Properties. *)

\* Types; in particular a row's artifact and a response's submission are ids
\* that a request has made.
TypeOK ==
    /\ hackathon \in {"draft", "published"}
    /\ challenge \in {"draft", "published", "closed"}
    /\ sub \in [Requests -> Submission]
    /\ evals \subseteq Requests
    /\ jobs \subseteq Requests \X Requests
    /\ blobs \subseteq Requests
    /\ incoming \subseteq Requests
    /\ old \subseteq Requests
    /\ scan \in {"idle", "listed", "clocked"}
    /\ refs \subseteq Requests
    /\ aged \subseteq Requests
    /\ doomed \subseteq Requests
    /\ pc \in [Requests -> PCs]
    /\ req \in [Requests -> Request]
    /\ answer \in [Requests -> Requests \cup {None}]
    /\ pub \in [Publishers -> {"idle", "read", "done"}]
    /\ everClosed \in BOOLEAN
    /\ late \subseteq Requests
    /\ lost \subseteq Requests

\* A committed artifact_key names an existing blob, through concurrent
\* replacements, failing commits, compensation and orphan scans that list
\* the keys, read the clock and walk the files while requests commit.  Only
\* the request whose commit went through without its acknowledgement can take
\* its own blob away; NothingAnsweredIsLost is about that.
ReferencedExists == Referenced \subseteq blobs \cup lost

\* No submission is accepted once a close has committed.
NoAcceptanceAfterClose == late = {}

\* Requests with the same idempotency key are answered with the same
\* submission, and only if their fingerprints agree, however they race.
SameKeySameAnswer ==
    \A r, s \in Requests :
        /\ req[r].key # None /\ req[r].key = req[s].key
        /\ answer[r] # None /\ answer[s] # None
        => answer[r] = answer[s] /\ req[r].payload = req[s].payload

\* A client that was told of its artifact can rely on its ingestion: once
\* the request that brought an artifact is answered, a submission naming the
\* artifact has a job for it.  A retry with the same key may still be answered
\* with a submission whose first request stopped before the job was enqueued.
AnsweredIsEnqueued ==
    \A s, b \in Requests :
        sub[s].artifact = b /\ answer[b] # None => <<s, b>> \in jobs

-----------------------------------------------------------------------------
(* What the documents say, and the code does not do. *)

\* "Referenced missing blobs are integrity failures and must not be
\* introduced", and a committed artifact is never silently dropped from
\* ingestion: when a client is told of a submission, by whichever request,
\* its artifact is stored, or at least a job will find that it is not.
NothingAnsweredIsLost ==
    \A r, s, b \in Requests :
        answer[r] = s /\ sub[s].artifact = b /\ pc[b] = "done" =>
            b \in blobs \/ <<s, b>> \in jobs

\* An upload is accepted for CREATED submissions only: a submission that was
\* submitted or cancelled keeps its artifact.
ArtifactSettled ==
    [][\A s \in Requests :
          sub[s].status \in {"submitted", "cancelled"} =>
              sub'[s].artifact = sub[s].artifact]_vars

-----------------------------------------------------------------------------
(* The inductive invariant behind ReferencedExists and SameKeySameAnswer. *)

Before == {"idle", "found", "locked", "stored", "staged", "read", "moved"}
After  == {"failed", "replaced", "committed", "done"}
Update == {"read", "moved", "replaced"}

\* A file is young until its request has committed.
FileInv ==
    \A r \in Requests :
        /\ pc[r] \in Before => r \notin old
        /\ pc[r] \in {"idle", "found", "locked"} => r \notin blobs \cup incoming
        /\ pc[r] \in {"stored", "moved"} => r \in blobs

\* At most one row names an artifact, and only once its request has committed.
OwnerInv ==
    \A s \in Requests : sub[s].artifact # None =>
        /\ s \in Submissions
        /\ pc[sub[s].artifact] \in After
        /\ pc[sub[s].artifact] = "failed" => sub[s].artifact \in lost
        /\ \A t \in Requests : sub[t].artifact = sub[s].artifact => t = s

\* The key an update read is still the row's, or no row's any more.
PreviousInv ==
    \A r \in Requests : pc[r] \in Update =>
        /\ req[r].target \in Submissions
        /\ req[r].prev # None =>
             /\ pc[req[r].prev] \in After
             /\ \A s \in Requests : sub[s].artifact = req[r].prev =>
                   s = req[r].target /\ pc[r] # "replaced"

\* A file that a row names and the listing missed is young by the clock.
ScanInv ==
    /\ scan = "listed" => (Referenced \ refs) \cap old = {}
    /\ scan = "clocked" => aged \subseteq old /\ (aged \ refs) \cap Referenced = {}
    /\ doomed \subseteq old /\ doomed \cap Referenced = {}

\* A key has one holder; a keyed request is on its own row or was answered
\* with its key's.
KeyInv ==
    /\ \A s, t \in Submissions : sub[s].key # None /\ sub[s].key = sub[t].key
                                    => s = t
    /\ \A r \in Requests :
         /\ pc[r] \in Update \cup {"idle", "staged"} => req[r].key = None
         /\ pc[r] \in Before \ {"read", "moved"} => r \notin Submissions
         /\ pc[r] = "duplicate" => Holders(req[r].key) # {}
                                   /\ req[r].key # None
         /\ pc[r] = "committed" /\ req[r].key # None =>
              /\ req[r].target = r /\ r \in Submissions
              /\ sub[r].key = req[r].key /\ sub[r].payload = req[r].payload
         /\ answer[r] # None /\ req[r].key # None =>
              /\ answer[r] \in Submissions
              /\ sub[answer[r]].key = req[r].key
              /\ sub[answer[r]].payload = req[r].payload
         /\ pc[r] = "idle" => answer[r] = None
         /\ pc[r] = "committed" => req[r].target \in Requests

IInv == /\ TypeOK /\ ReferencedExists /\ FileInv /\ OwnerInv /\ PreviousInv
        /\ ScanInv /\ KeyInv

\* What makes the gate of a challenge work when it is published only once.
GateInv ==
    /\ late = {}
    /\ Sharers # {} => challenge = "published"
    /\ everClosed => challenge = "closed"
    /\ challenge # "draft" => \A p \in Publishers : pub[p] = "done"

\* What is behind AnsweredIsEnqueued: a request is answered last, and knows the
\* row that names its artifact until then.
EnqueuedInv ==
    \A r \in Requests :
        /\ answer[r] # None => pc[r] = "done"
        /\ \A s \in Requests : sub[s].artifact = r =>
             /\ pc[r] \in {"replaced", "committed"} => req[r].target = s
             /\ answer[r] # None => <<s, r>> \in jobs
=============================================================================
