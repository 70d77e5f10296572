-------------------------- MODULE SchemaMigrations --------------------------
(***************************************************************************)
(* The database schema: the thirteen Alembic revisions with their upgrades *)
(* and downgrades, the ORM models that create_all builds tables from, and  *)
(* the rows that a migration has to carry along: one submission, one       *)
(* evaluation, and the singleton of the scheduler.                         *)
(*                                                                         *)
(* A schema is a set of tables, foreign keys, indexes, check constraints   *)
(* and the columns that some revision adds later.  The other columns come  *)
(* and go with their table.  One alembic command is one transaction.       *)
(***************************************************************************)
EXTENDS Naturals, Sequences

VARIABLES
    rev,       \* alembic_version, 0 when there is none
    schema,    \* what the database consists of
    rows,      \* the rows a migration may meet
    created,   \* history: create_all has run on "nothing" or "something"
    failed     \* history: the last command was rolled back

schemaVars == <<rev, schema, rows, created, failed>>

Item(kind, on, name, allows) ==
    [kind |-> kind, on |-> on, name |-> name, allows |-> allows]
T(t)     == Item("table", t, t, {})
F(t, to) == Item("reference", t, to, {})
I(t, i)  == Item("index", t, i, {})
K(t, k)  == Item("check", t, k, {})
C(t, c)  == Item("column", t, c, {})

FourModes == {"legacy", "always_expensive", "fixed_progressive",
              "resource_aware_adaptive"}
FiveModes == FourModes \cup {"synthetic_execution"}
ModeCheck(S) == Item("check", "evaluations", "evaluation_mode", S)

-----------------------------------------------------------------------------
(* The models, one definition per table. *)

UserModel == {T("users"), K("users", "role")}
HackathonModel ==
    {T("hackathons"), K("hackathons", "status"), F("hackathons", "users"),
     I("hackathons", "organizer_id")}
ChallengeModel ==
    {T("challenges"), K("challenges", "status"), F("challenges", "hackathons"),
     I("challenges", "hackathon_id")}
SpecificationModel ==
    {T("challenge_specifications"), F("challenge_specifications", "challenges")}
CriterionModel ==
    {T("evaluation_criteria"), K("evaluation_criteria", "weight"),
     F("evaluation_criteria", "challenges"),
     I("evaluation_criteria", "challenge_id")}
\* Faulty variant: the model does not know of revision 0002's constraint.
SubmissionModel_NoFingerprintCheck ==
    {T("submissions"), K("submissions", "status"),
     F("submissions", "challenges"), F("submissions", "users"),
     I("submissions", "participant_created"),
     I("submissions", "challenge_created"),
     I("submissions", "participant_idempotency"),
     C("submissions", "request_fingerprint")}
SubmissionModel ==
    {T("submissions"), K("submissions", "status"),
     F("submissions", "challenges"), F("submissions", "users"),
     I("submissions", "participant_created"),
     I("submissions", "challenge_created"),
     I("submissions", "participant_idempotency"),
     C("submissions", "request_fingerprint"),
     K("submissions", "idempotency_fingerprint")}
EvaluationModel ==
    {T("evaluations"), F("evaluations", "submissions"),
     I("evaluations", "submission_id"), I("evaluations", "status_created"),
     I("evaluations", "running_started"), ModeCheck(FiveModes)}
    \cup {K("evaluations", k) : k \in {"status", "attempt_count", "score",
                                       "workload_class", "current_stage"}}
    \cup {C("evaluations", c) : c \in {"workload_class", "current_stage",
                                       "evaluation_mode", "deadline_at"}}
SchedulerStateModel ==
    {T("evaluation_scheduler_state"),
     K("evaluation_scheduler_state", "singleton"),
     K("evaluation_scheduler_state", "bypass_count"),
     F("evaluation_scheduler_state", "evaluations")}
    \cup {C("evaluation_scheduler_state", c) :
            c \in {"pressure_state", "adaptive_max_workers",
                   "interactive_p95_ms", "interactive_sample_count",
                   "pool_wait_p95_ms"}}
IngestionJobModel ==
    {T("ingestion_jobs"), K("ingestion_jobs", "status"),
     K("ingestion_jobs", "attempts"), F("ingestion_jobs", "submissions"),
     I("ingestion_jobs", "claim"), I("ingestion_jobs", "submission_id")}
DocumentChunkModel ==
    {T("document_chunks"), F("document_chunks", "ingestion_jobs"),
     F("document_chunks", "submissions")}
    \cup {K("document_chunks", k) : k \in {"ordinal", "chars", "lines"}}
    \cup {I("document_chunks", i) : i \in {"job_ordinal", "artifact_key", "job",
                                           "versions"}}

Models == UserModel \cup HackathonModel \cup ChallengeModel
          \cup SpecificationModel \cup CriterionModel \cup SubmissionModel
          \cup EvaluationModel \cup SchedulerStateModel
          \cup IngestionJobModel \cup DocumentChunkModel

-----------------------------------------------------------------------------
(* The revisions. *)

Op(do, it) == [do |-> do, it |-> it]
Adds(s)  == [i \in DOMAIN s |-> Op("add", s[i])]
Drops(s) == [i \in DOMAIN s |-> Op("drop", s[i])]
DropsIfExists(s) == [i \in DOMAIN s |-> Op("drop if exists", s[i])]
Fill     == <<Op("fill", T("submissions"))>>
Insert   == <<Op("insert", T("evaluation_scheduler_state"))>>

UpgradeInitial == Adds(<<
    T("users"), K("users", "role"),
    T("hackathons"), K("hackathons", "status"), F("hackathons", "users"),
    I("hackathons", "organizer_id"),
    T("challenges"), K("challenges", "status"), F("challenges", "hackathons"),
    I("challenges", "hackathon_id"),
    T("challenge_specifications"), F("challenge_specifications", "challenges"),
    T("evaluation_criteria"), K("evaluation_criteria", "weight"),
    F("evaluation_criteria", "challenges"),
    I("evaluation_criteria", "challenge_id"),
    T("submissions"), K("submissions", "status"),
    F("submissions", "challenges"), F("submissions", "users"),
    I("submissions", "participant_created"),
    I("submissions", "challenge_created"),
    I("submissions", "participant_idempotency")>>)
DowngradeInitial == Drops(<<
    I("submissions", "participant_idempotency"),
    I("submissions", "challenge_created"),
    I("submissions", "participant_created"), T("submissions"),
    I("evaluation_criteria", "challenge_id"), T("evaluation_criteria"),
    T("challenge_specifications"),
    I("challenges", "hackathon_id"), T("challenges"),
    I("hackathons", "organizer_id"), T("hackathons"), T("users")>>)

\* Faulty variant: existing rows get no fingerprint.
UpgradeConcurrency_NoFill ==
    Adds(<<C("submissions", "request_fingerprint"),
           K("submissions", "idempotency_fingerprint")>>)

UpgradeConcurrency ==
    Adds(<<C("submissions", "request_fingerprint")>>) \o Fill
    \o Adds(<<K("submissions", "idempotency_fingerprint")>>)
DowngradeConcurrency ==
    Drops(<<K("submissions", "idempotency_fingerprint"),
            C("submissions", "request_fingerprint")>>)

UpgradePipeline == Adds(<<
    T("evaluations"), K("evaluations", "status"),
    K("evaluations", "attempt_count"), K("evaluations", "score"),
    F("evaluations", "submissions"), I("evaluations", "submission_id"),
    I("evaluations", "status_created"), I("evaluations", "running_started")>>)
DowngradePipeline == Drops(<<
    I("evaluations", "running_started"), I("evaluations", "status_created"),
    T("evaluations")>>)

UpgradeWorkloadClass == Adds(<<C("evaluations", "workload_class"),
                               K("evaluations", "workload_class")>>)
DowngradeWorkloadClass == Drops(<<K("evaluations", "workload_class"),
                                  C("evaluations", "workload_class")>>)

UpgradeBypass ==
    Adds(<<T("evaluation_scheduler_state"),
           K("evaluation_scheduler_state", "singleton"),
           K("evaluation_scheduler_state", "bypass_count"),
           F("evaluation_scheduler_state", "evaluations")>>) \o Insert
DowngradeBypass == Drops(<<T("evaluation_scheduler_state")>>)

UpgradeRuntime ==
    Adds(<<C("evaluation_scheduler_state", "pressure_state"),
           C("evaluation_scheduler_state", "adaptive_max_workers")>>)
DowngradeRuntime ==
    Drops(<<C("evaluation_scheduler_state", "adaptive_max_workers"),
            C("evaluation_scheduler_state", "pressure_state")>>)

UpgradeAdaptive ==
    Adds(<<C("evaluations", "current_stage"), C("evaluations", "evaluation_mode"),
           C("evaluations", "deadline_at"), K("evaluations", "current_stage"),
           ModeCheck(FourModes)>>)
DowngradeAdaptive ==
    Drops(<<ModeCheck(FourModes), K("evaluations", "current_stage"),
            C("evaluations", "deadline_at"), C("evaluations", "evaluation_mode"),
            C("evaluations", "current_stage")>>)

UpgradeFeedback ==
    Adds(<<C("evaluation_scheduler_state", "interactive_p95_ms"),
           C("evaluation_scheduler_state", "interactive_sample_count")>>)
DowngradeFeedback ==
    Drops(<<C("evaluation_scheduler_state", "interactive_sample_count"),
            C("evaluation_scheduler_state", "interactive_p95_ms")>>)

UpgradePoolWait == Adds(<<C("evaluation_scheduler_state", "pool_wait_p95_ms")>>)
DowngradePoolWait == Drops(<<C("evaluation_scheduler_state", "pool_wait_p95_ms")>>)

UpgradeSynthetic == Drops(<<ModeCheck(FourModes)>>) \o Adds(<<ModeCheck(FiveModes)>>)

\* Faulty variant: the wider constraint is left in place.
DowngradeSynthetic_KeepsFive == <<>>

DowngradeSynthetic == Drops(<<ModeCheck(FiveModes)>>) \o Adds(<<ModeCheck(FourModes)>>)

UpgradeIngestion == Adds(<<
    T("ingestion_jobs"), F("ingestion_jobs", "submissions"),
    K("ingestion_jobs", "status"), K("ingestion_jobs", "attempts"),
    I("ingestion_jobs", "claim"), I("ingestion_jobs", "submission_id")>>)
DowngradeIngestion == Drops(<<
    I("ingestion_jobs", "submission_id"), I("ingestion_jobs", "claim"),
    T("ingestion_jobs")>>)

UpgradeChunks == Adds(<<
    T("document_chunks"), F("document_chunks", "ingestion_jobs"),
    F("document_chunks", "submissions"), K("document_chunks", "ordinal"),
    K("document_chunks", "chars"), K("document_chunks", "lines"),
    I("document_chunks", "job_ordinal"), I("document_chunks", "artifact_key"),
    I("document_chunks", "job"), I("document_chunks", "versions")>>)
DowngradeChunks == Drops(<<
    I("document_chunks", "versions"), I("document_chunks", "job"),
    I("document_chunks", "artifact_key"), T("document_chunks")>>)

UpgradeLexical == Adds(<<
    C("document_chunks", "search_tsv"), I("document_chunks", "search_tsv"),
    C("document_chunks", "search_tsv_simple"),
    I("document_chunks", "search_tsv_simple")>>)
DowngradeLexical == DropsIfExists(<<
    I("document_chunks", "search_tsv_simple"),
    C("document_chunks", "search_tsv_simple"),
    I("document_chunks", "search_tsv"), C("document_chunks", "search_tsv")>>)

Newest == 13
Up == <<UpgradeInitial, UpgradeConcurrency, UpgradePipeline,
        UpgradeWorkloadClass, UpgradeBypass, UpgradeRuntime, UpgradeAdaptive,
        UpgradeFeedback, UpgradePoolWait, UpgradeSynthetic, UpgradeIngestion,
        UpgradeChunks, UpgradeLexical>>
Down == <<DowngradeInitial, DowngradeConcurrency, DowngradePipeline,
          DowngradeWorkloadClass, DowngradeBypass, DowngradeRuntime,
          DowngradeAdaptive, DowngradeFeedback, DowngradePoolWait,
          DowngradeSynthetic, DowngradeIngestion, DowngradeChunks,
          DowngradeLexical>>

-----------------------------------------------------------------------------
(* What PostgreSQL does with a statement. *)

NoRows == [sub |-> "none", patched |-> FALSE, fingerprint |-> "none",
           mode |-> "none", scheduler |-> FALSE]

Same(a, b) == a.kind = b.kind /\ a.on = b.on /\ a.name = b.name

\* The existing rows satisfy a new check constraint.
Holds(it, r) ==
    /\ it.name = "idempotency_fingerprint" =>
          ((r.sub = "keyed") <=> (r.fingerprint # "none"))
    /\ it.name = "evaluation_mode" => r.mode \in it.allows \cup {"none"}

Accepts(op, db) ==
    LET it == op.it
    IN  CASE op.do = "add" ->
               /\ ~\E x \in db.schema : Same(x, it)
               /\ it.kind # "table" => T(it.on) \in db.schema
               /\ it.kind = "reference" => T(it.name) \in db.schema
               /\ it.kind = "check" => Holds(it, db.rows)
          [] op.do = "drop" ->
               /\ \E x \in db.schema : Same(x, it)
               /\ it.kind = "table" =>
                     ~\E x \in db.schema : x.kind = "reference" /\ x.name = it.on
          [] op.do = "drop if exists" ->
               it.kind = "column" => T(it.on) \in db.schema
          [] OTHER -> it \in db.schema

\* Dropping a table takes everything on it along, and its rows.
Dropped(it, x) == Same(x, it) \/ (it.kind = "table" /\ x.on = it.on)

RowsAfter(op, r) ==
    CASE op.do = "fill" /\ r.sub = "keyed" ->
           [r EXCEPT !.fingerprint = IF r.patched THEN "current" ELSE "request"]
      [] op.do = "insert" -> [r EXCEPT !.scheduler = TRUE]
      [] op.do = "add" /\ op.it = C("evaluations", "evaluation_mode")
         /\ r.mode # "none" -> [r EXCEPT !.mode = "legacy"]
      [] op.do = "drop" /\ op.it = C("evaluations", "evaluation_mode")
         /\ r.mode # "none" -> [r EXCEPT !.mode = "unset"]
      [] op.do = "drop" /\ op.it = C("submissions", "request_fingerprint") ->
           [r EXCEPT !.fingerprint = "none"]
      [] op.do = "drop" /\ op.it = T("evaluation_scheduler_state") ->
           [r EXCEPT !.scheduler = FALSE]
      [] op.do = "drop" /\ op.it = T("evaluations") -> [r EXCEPT !.mode = "none"]
      [] op.do = "drop" /\ op.it = T("submissions") -> NoRows
      [] OTHER -> r

Statement(db, op) ==
    IF ~db.ok \/ ~Accepts(op, db) THEN [db EXCEPT !.ok = FALSE]
    ELSE [ok |-> TRUE,
          schema |-> CASE op.do = "add" -> db.schema \cup {op.it}
                       [] op.do \in {"drop", "drop if exists"} ->
                            {x \in db.schema : ~Dropped(op.it, x)}
                       [] OTHER -> db.schema,
          rows |-> RowsAfter(op, db.rows)]

\* The statements of one revision, then those of the next.
Execute(db, ops) ==
    LET after[i \in 0..Len(ops)] ==
            IF i = 0 THEN db ELSE Statement(after[i - 1], ops[i])
    IN  after[Len(ops)]

Upgraded(db, from, to) ==
    LET at[n \in from..to] == IF n = from THEN db ELSE Execute(at[n - 1], Up[n])
    IN  at[to]
Downgraded(db, from, to) ==
    LET at[n \in to..from] ==
            IF n = from THEN db ELSE Execute(at[n + 1], Down[n + 1])
    IN  at[to]

Empty == [ok |-> TRUE, schema |-> {}, rows |-> NoRows]

\* The schema of a revision: its upgrades on an empty database.
SchemaAt == [n \in 0..Newest |-> Upgraded(Empty, 0, n).schema]

-----------------------------------------------------------------------------
SchemaInit ==
    /\ rev = 0 /\ schema = {} /\ rows = NoRows
    /\ created = "no" /\ failed = "no"

\* run_migrations in one transaction.
Alembic(command, target, db) ==
    /\ IF db.ok THEN rev' = target /\ schema' = db.schema /\ rows' = db.rows
                     /\ failed' = "no"
       ELSE failed' = command /\ UNCHANGED <<rev, schema, rows>>
    /\ UNCHANGED created

Database == [ok |-> TRUE, schema |-> schema, rows |-> rows]

Upgrade(n) ==
    rev < n /\ Alembic("upgrade", n, Upgraded(Database, rev, n))

Downgrade(n) ==
    n < rev /\ Alembic("downgrade", n, Downgraded(Database, rev, n))

\* run_dev and the tests: create_all adds the tables that are missing.
CreateAll ==
    /\ \E x \in Models : x.kind = "table" /\ x \notin schema
    /\ schema' = schema \cup {x \in Models : T(x.on) \notin schema}
    /\ created' = IF schema = {} THEN "nothing" ELSE "something"
    /\ UNCHANGED <<rev, rows, failed>>

\* ensure_lexical_search_schema.
EnsureLexical ==
    /\ T("document_chunks") \in schema
    /\ schema' = schema \cup {UpgradeLexical[i].it : i \in DOMAIN UpgradeLexical}
    /\ schema' # schema
    /\ UNCHANGED <<rev, rows, failed>>
    /\ created' = IF created = "no" THEN "something" ELSE created

\* The application that goes with the schema writes its rows.
WriteSubmission(kind) ==
    /\ T("submissions") \in schema /\ rows.sub = "none"
    /\ rows' = [rows EXCEPT
                  !.sub = kind,
                  !.fingerprint =
                    IF kind = "keyed"
                       /\ C("submissions", "request_fingerprint") \in schema
                    THEN "request" ELSE "none"]
    /\ UNCHANGED <<rev, schema, created, failed>>

PatchSubmission ==
    /\ rows.sub # "none" /\ ~rows.patched
    /\ rows' = [rows EXCEPT !.patched = TRUE]
    /\ UNCHANGED <<rev, schema, created, failed>>

WriteEvaluation(m) ==
    /\ T("evaluations") \in schema
    /\ rows.sub # "none" /\ rows.mode = "none"
    /\ IF C("evaluations", "evaluation_mode") \in schema
       THEN \A x \in schema :
               Same(x, ModeCheck({})) => m \in x.allows
       ELSE m = "unset"
    /\ rows' = [rows EXCEPT !.mode = m]
    /\ UNCHANGED <<rev, schema, created, failed>>

SchemaNext ==
    \/ \E n \in 0..Newest : Upgrade(n) \/ Downgrade(n)
    \/ CreateAll \/ EnsureLexical
    \/ \E kind \in {"plain", "keyed"} : WriteSubmission(kind)
    \/ PatchSubmission
    \/ \E m \in {"unset", "legacy", "synthetic_execution"} : WriteEvaluation(m)

-----------------------------------------------------------------------------
(* Properties. *)

\* Whatever sequence of upgrades and downgrades led to a revision, the database
\* is the one its upgrades build from nothing, the singleton that the scheduler
\* locks included: every downgrade undoes its upgrade.
SchemaFollowsRevision ==
    created = "no" =>
        /\ schema = SchemaAt[rev]
        /\ rows.scheduler <=> T("evaluation_scheduler_state") \in schema

\* A migration meets rows that older versions wrote, and still applies: an
\* upgrade is refused only on a database that create_all has touched, a
\* downgrade only where revision 0010's narrower constraint would exclude an
\* evaluation that was executed synthetically.
MigrationsApply ==
    /\ failed = "upgrade" => created # "no"
    /\ failed = "downgrade" =>
          created # "no" \/ rows.mode = "synthetic_execution"

\* A database that create_all has built from nothing and that has been given
\* its search columns is what the migrations build: no revision is missing
\* from the models and no model from the revisions.
ModelsMatchHead ==
    created = "nothing" /\ rev = 0
    /\ C("document_chunks", "search_tsv") \in schema => schema = SchemaAt[Newest]

\* Migrations apply to the rows there are, undo each other, and end where
\* create_all begins.
SchemaSound == SchemaFollowsRevision /\ MigrationsApply /\ ModelsMatchHead
=============================================================================
