--------------------------- MODULE ParticipantApi ---------------------------
(***************************************************************************)
(* What the HTTP API shows to whom: one hackathon with one challenge, at   *)
(* most one submission and evaluation per participant, and one request at  *)
(* a time that reads them in several statements while organizers,          *)
(* participants and workers go on.  The session reads committed rows, and  *)
(* keeps the row of an evaluation once it has been read.                   *)
(*                                                                         *)
(* A handler that writes is one action here; SubmissionLifecycle takes     *)
(* those apart.  A write that is refused changes nothing and is left out.  *)
(* An age is the health it would give alone: 0 normal, 1 busy, 2           *)
(* saturated, 3 critical; MaxAge bounds it.                                *)
(***************************************************************************)
EXTENDS Naturals, FiniteSets, Sequences

CONSTANTS
    Organizers, Participants,
    Stranger,                               \* an id that names no user
    NoOwner,                                \* no user
    BusyDepth, SaturatedDepth, CriticalDepth,
    MaxAge

ASSUME ApiAssumption ==
    /\ IsFiniteSet(Participants)
    /\ Organizers \cap Participants = {}
    /\ {Stranger, NoOwner} \cap (Organizers \cup Participants) = {}
    /\ BusyDepth \in Nat \ {0} /\ SaturatedDepth \in Nat /\ CriticalDepth \in Nat
    /\ MaxAge \in 0..3
    /\ BusyDepth <= SaturatedDepth /\ SaturatedDepth <= CriticalDepth

VARIABLES
    hack,     \* status of the hackathon, or "none"
    owner,    \* organizer_id
    chal,     \* status of the challenge, or "none"
    ready,    \* is_publishable of the challenge
    entry,    \* status of a participant's submission
    eval,     \* status of its evaluation; "inserted" is not yet committed
    order,    \* participants by created_at of their evaluations
    age,      \* of an evaluation
    asked,    \* the request in progress
    told,     \* the reply to it
    seen      \* history: least and most depth and age during a backlog request,
              \* and who was undecided when an evaluation was read

worldVars == <<hack, owner, chal, ready, entry, eval, order, age>>
apiVars   == <<worldVars, asked, told, seen>>

Users  == Organizers \cup Participants
Views  == {"hackathons", "challenges", "challenge", "submission",
           "user_submissions", "challenge_submissions", "evaluation",
           "backlog", "queue"}

\* Whose submission a request names.
About(op) == IF op \in {"submission", "user_submissions", "evaluation"}
             THEN Participants ELSE {NoOwner}

Idle   == [who |-> NoOwner, op |-> "none", about |-> NoOwner, at |-> 0,
           hack |-> "none", chal |-> "none", status |-> "none", depth |-> 0]
Unseen == [least |-> 0, most |-> 0, young |-> 0, old |-> 0, undecided |-> {}]
Silent == [to |-> NoOwner, code |-> 0, op |-> "none", hack |-> "none",
           chal |-> "none", subs |-> {}, status |-> "none",
           ahead |-> {}, health |-> 0, depth |-> 0]

\* A request with what its statements have read, its reply, and the history.
Requests == [who : Users \cup {NoOwner}, op : Views \cup {"none"},
             about : Participants \cup {NoOwner}, at : 0..3,
             hack : {"none", "draft", "published"},
             chal : {"none", "draft", "published", "closed"},
             status : {"none", "queued", "running", "succeeded", "failed"},
             depth : Nat]
Replies  == [to : Users \cup {Stranger, NoOwner},
             code : {0, 200, 401, 403, 404}, op : Views \cup {"none"},
             hack : {"none", "draft", "published"},
             chal : {"none", "draft", "published", "closed"},
             subs : SUBSET Participants,
             status : {"none", "queued", "running", "succeeded", "failed"},
             ahead : SUBSET Participants, health : 0..3, depth : Nat]
Sights   == [least : Nat, most : Nat, young : 0..MaxAge, old : 0..MaxAge,
             undecided : SUBSET Participants]

ApiInit ==
    /\ hack = "none" /\ owner = NoOwner /\ chal = "none" /\ ready = FALSE
    /\ entry = [p \in Participants |-> "none"]
    /\ eval = [p \in Participants |-> "none"]
    /\ order = <<>> /\ age = [p \in Participants |-> 0]
    /\ asked = Idle /\ told = Silent /\ seen = Unseen

Queued == {p \in Participants : eval[p] = "queued"}
Older(p) ==
    {order[i] : i \in {j \in DOMAIN order :
                         \E k \in DOMAIN order : order[k] = p /\ j < k}}
Open(p) == eval[p] \in {"inserted", "queued", "running"}
Least(m, n) == IF m <= n THEN m ELSE n
Most(m, n) == IF m <= n THEN n ELSE m

\* The oldest of the rows Q, 0 for none.
OldestOf(Q, ages) == CHOOSE n \in 0..MaxAge :
                        /\ n = 0 \/ \E p \in Q : ages[p] = n
                        /\ \A p \in Q : ages[p] <= n
OldestAge == OldestOf(Queued, age)
Backlog == {"backlog", "queue"}

-----------------------------------------------------------------------------
(* The writers.  A reply is looked at before anything else happens. *)

World == told = Silent /\ UNCHANGED <<asked, told>>

\* What a request in progress could see of the queue.
Watch ==
    seen' = IF asked.op \notin Backlog THEN seen
            ELSE [seen EXCEPT !.least = Least(@, Cardinality(Queued')),
                              !.most  = Most(@, Cardinality(Queued')),
                              !.young = Least(@, OldestAge'),
                              !.old   = Most(@, OldestAge')]

\* create_hackathon: require_organizer.
ApiCreateHackathon(u) ==
    /\ World /\ hack = "none" /\ u \in Organizers
    /\ hack' = "draft" /\ owner' = u
    /\ UNCHANGED <<chal, ready, entry, eval, order, age, seen>>

ApiPublishHackathon(u) ==
    /\ World /\ hack = "draft" /\ owner = u
    /\ hack' = "published"
    /\ UNCHANGED <<owner, chal, ready, entry, eval, order, age, seen>>

\* create_challenge; criteria may be empty.
ApiCreateChallenge(u, criteria) ==
    /\ World /\ hack # "none" /\ owner = u /\ chal = "none"
    /\ chal' = "draft" /\ ready' = criteria
    /\ UNCHANGED <<hack, owner, entry, eval, order, age, seen>>

ApiPublishChallenge(u) ==
    /\ World /\ owner = u /\ chal = "draft" /\ ready
    /\ chal' = "published"
    /\ UNCHANGED <<hack, owner, ready, entry, eval, order, age, seen>>

ApiCloseChallenge(u) ==
    /\ World /\ owner = u /\ chal = "published"
    /\ chal' = "closed"
    /\ UNCHANGED <<hack, owner, ready, entry, eval, order, age, seen>>

ApiCreateSubmission(p) ==
    /\ World /\ hack = "published" /\ chal = "published" /\ entry[p] = "none"
    /\ entry' = [entry EXCEPT ![p] = "created"]
    /\ UNCHANGED <<hack, owner, chal, ready, eval, order, age, seen>>

\* submit: create_queued takes created_at from the clock ...
ApiSubmit(p) ==
    /\ World /\ entry[p] = "created" /\ eval[p] = "none"
    /\ eval' = [eval EXCEPT ![p] = "inserted"]
    /\ order' = Append(order, p)
    /\ UNCHANGED <<hack, owner, chal, ready, entry, age, seen>>

\* ... and others see the row when the transaction has committed.
ApiSubmitCommit(p) ==
    /\ World /\ eval[p] = "inserted"
    /\ eval' = [eval EXCEPT ![p] = "queued"]
    /\ entry' = [entry EXCEPT ![p] = "submitted"]
    /\ UNCHANGED <<hack, owner, chal, ready, order, age>>
    /\ Watch

\* transition_if_created.
ApiCancel(p) ==
    /\ World /\ entry[p] = "created" /\ eval[p] = "none"
    /\ entry' = [entry EXCEPT ![p] = "cancelled"]
    /\ UNCHANGED <<hack, owner, chal, ready, eval, order, age, seen>>

\* The workers: claim, requeue, mark_succeeded and mark_failed.
WorkerMoves(p) ==
    /\ World
    /\ eval[p] \in {"queued", "running"}
    /\ eval' \in {[eval EXCEPT ![p] = s] :
                    s \in IF eval[p] = "queued" THEN {"running"}
                          ELSE {"queued", "succeeded", "failed"}}
    /\ UNCHANGED <<hack, owner, chal, ready, entry, order, age>>
    /\ Watch

\* Time passes; what is older is at least as old.
GrowOlder(p) ==
    /\ World /\ Open(p) /\ age[p] < MaxAge
    /\ \A q \in Older(p) : age[q] > age[p] \/ ~Open(q)
    /\ age' = [age EXCEPT ![p] = @ + 1]
    /\ UNCHANGED <<hack, owner, chal, ready, entry, eval, order>>
    /\ Watch

-----------------------------------------------------------------------------
(* The requests. *)

Organizer(u) == u \in Organizers

Say(r) ==
    /\ told' = r
    /\ asked' = Idle
    /\ UNCHANGED <<worldVars, seen>>

Reply(code) == [Silent EXCEPT !.to = asked.who, !.op = asked.op, !.code = code]

\* get_current_user, then the handler; only the organizer's queue requires the
\* role up front.
Ask(u, op, p) ==
    /\ asked = Idle /\ told = Silent
    /\ IF u = Stranger
       THEN /\ told' = [Silent EXCEPT !.to = u, !.op = op, !.code = 401]
            /\ UNCHANGED asked
       ELSE IF op \in {"queue", "challenge_submissions"} /\ ~Organizer(u)
       THEN /\ told' = [Silent EXCEPT !.to = u, !.op = op, !.code = 403]
            /\ UNCHANGED asked
       ELSE /\ asked' = [Idle EXCEPT !.who = u, !.op = op, !.about = p,
                                     !.at = 1]
            /\ UNCHANGED told
    /\ seen' = IF op \notin Backlog THEN Unseen
               ELSE LET d == Cardinality(Queued)
                    IN  [Unseen EXCEPT !.least = d, !.most = d,
                                       !.young = OldestAge, !.old = OldestAge]
    /\ UNCHANGED worldVars

\* The client has the reply.
Deliver ==
    /\ told # Silent
    /\ told' = Silent
    /\ seen' = Unseen
    /\ UNCHANGED <<worldVars, asked>>

Next1(r) ==
    /\ asked' = [r EXCEPT !.at = @ + 1]
    /\ UNCHANGED <<worldVars, told, seen>>

At(op, n) == asked.op = op /\ asked.at = n

\* Faulty variant: a participant is shown drafts as well.
ShownHackathon_Always(u) == hack

\* list_visible, get_hackathon: "none" stands for nothing, and for 404.
ShownHackathon(u) == IF hack = "published" \/ Organizer(u) THEN hack ELSE "none"

ListHackathons ==
    /\ At("hackathons", 1)
    /\ Say([Reply(200) EXCEPT !.hack = ShownHackathon(asked.who)])

\* list_for_hackathon.
ListChallengesHackathon ==
    /\ At("challenges", 1)
    /\ IF ShownHackathon(asked.who) = "none" THEN Say(Reply(404))
       ELSE Next1([asked EXCEPT !.hack = hack])

ListChallenges ==
    /\ At("challenges", 2)
    /\ Say([Reply(200) EXCEPT
              !.hack = asked.hack,
              !.chal = IF chal = "published" \/ Organizer(asked.who)
                       THEN chal ELSE "none"])

\* get_challenge.
GetChallengeRow ==
    /\ At("challenge", 1)
    /\ IF chal = "none" THEN Say(Reply(404))
       ELSE Next1([asked EXCEPT !.chal = chal])

GetChallenge ==
    /\ At("challenge", 2)
    /\ IF (hack = "published" /\ asked.chal = "published") \/ Organizer(asked.who)
       THEN Say([Reply(200) EXCEPT !.hack = hack, !.chal = asked.chal])
       ELSE Say(Reply(404))

\* Faulty variant: the role alone is enough.
Authorized_AnyOrganizer(u, p) == u = p \/ Organizer(u)

\* _authorize_view, and SubmissionService.get.
Authorized(u, p) == u = p \/ (Organizer(u) /\ owner = u)

GetSubmission ==
    /\ At("submission", 1)
    /\ IF entry[asked.about] = "none" THEN Say(Reply(404))
       ELSE IF ~Authorized(asked.who, asked.about) THEN Say(Reply(403))
       ELSE Say([Reply(200) EXCEPT !.subs = {asked.about}])

\* list_for_user: any organizer may.
ListUserSubmissions ==
    /\ At("user_submissions", 1)
    /\ IF asked.who # asked.about /\ ~Organizer(asked.who) THEN Say(Reply(403))
       ELSE Say([Reply(200) EXCEPT
                   !.subs = {asked.about} \cap
                            {p \in Participants : entry[p] # "none"}])

\* list_submissions.
ListChallengeSubmissions ==
    /\ At("challenge_submissions", 1)
    /\ IF chal = "none" THEN Say(Reply(404))
       ELSE IF owner # asked.who THEN Say(Reply(403))
       ELSE Say([Reply(200) EXCEPT
                   !.subs = {p \in Participants : entry[p] # "none"}])

\* get_participant_view: the submission and the right to see it ...
ViewSubmission ==
    /\ At("evaluation", 1)
    /\ IF entry[asked.about] = "none" THEN Say(Reply(404))
       ELSE IF ~Authorized(asked.who, asked.about) THEN Say(Reply(403))
       ELSE Next1(asked)

\* ... get_by_submission; an uncommitted row is not seen ...
ViewEvaluation ==
    /\ At("evaluation", 2)
    /\ IF eval[asked.about] \in {"none", "inserted"} THEN Say(Reply(404))
       ELSE /\ asked' = [asked EXCEPT !.status = eval[asked.about], !.at = 3]
            /\ seen' = [seen EXCEPT !.undecided =
                           {q \in Older(asked.about) : Open(q)}]
            /\ UNCHANGED <<worldVars, told>>

\* Faulty variant: the count is by status only.
QueuePosition_AllQueued(p) == Queued \ {p}

\* queue_position: whom it counts.
QueuePosition(p) == Queued \cap Older(p)

\* ... and, for a row that was queued when it was read, the jobs ahead.
ViewReply ==
    /\ At("evaluation", 3)
    /\ Say([Reply(200) EXCEPT
              !.subs = {asked.about}, !.status = asked.status,
              !.ahead = IF asked.status = "queued"
                        THEN QueuePosition(asked.about) ELSE {}])

\* queue_snapshot: the counts by status ...
BacklogCounts ==
    /\ asked.op \in Backlog /\ asked.at = 1
    /\ Next1([asked EXCEPT !.depth = Cardinality(Queued)])

\* Faulty variant: each threshold looks at one of the two only.
Health_AgeOnly(depth, oldest) == oldest

\* get_backlog_status.
Health(depth, oldest) ==
    IF depth >= CriticalDepth \/ oldest >= 3 THEN 3
    ELSE IF depth >= SaturatedDepth \/ oldest >= 2 THEN 2
    ELSE IF depth >= BusyDepth \/ oldest >= 1 THEN 1
    ELSE 0

\* ... and, statements later, the oldest queued row.
BacklogReply ==
    /\ asked.op \in Backlog /\ asked.at = 2
    /\ Say([Reply(200) EXCEPT !.depth = asked.depth,
                              !.health = Health(asked.depth, OldestAge)])

WorldStep ==
    \/ \E u \in Organizers :
          \/ ApiCreateHackathon(u) \/ ApiPublishHackathon(u)
          \/ \E criteria \in BOOLEAN : ApiCreateChallenge(u, criteria)
          \/ ApiPublishChallenge(u) \/ ApiCloseChallenge(u)
    \/ \E p \in Participants :
          \/ ApiCreateSubmission(p) \/ ApiSubmit(p) \/ ApiSubmitCommit(p)
          \/ ApiCancel(p) \/ WorkerMoves(p) \/ GrowOlder(p)

RequestStep ==
    \/ \E u \in Users \cup {Stranger}, op \in Views :
          \E p \in About(op) : Ask(u, op, p)
    \/ ListHackathons \/ ListChallengesHackathon \/ ListChallenges
    \/ GetChallengeRow \/ GetChallenge
    \/ GetSubmission \/ ListUserSubmissions \/ ListChallengeSubmissions
    \/ ViewSubmission \/ ViewEvaluation \/ ViewReply
    \/ BacklogCounts \/ BacklogReply
    \/ Deliver

ApiNext == WorldStep \/ RequestStep

ApiSpec == ApiInit /\ [][ApiNext]_apiVars

-----------------------------------------------------------------------------
(* Properties. *)

ApiTypeOK ==
    /\ hack \in {"none", "draft", "published"}
    /\ owner \in Organizers \cup {NoOwner}
    /\ chal \in {"none", "draft", "published", "closed"} /\ ready \in BOOLEAN
    /\ entry \in [Participants -> {"none", "created", "submitted", "cancelled"}]
    /\ eval \in [Participants -> {"none", "inserted", "queued", "running",
                                  "succeeded", "failed"}]
    /\ order \in Seq(Participants) /\ age \in [Participants -> 0..MaxAge]
    /\ asked \in Requests /\ told \in Replies /\ seen \in Sights

\* Whoever has not created a hackathon and is no organizer is never shown a
\* hackathon or challenge that was not published, although the two rows are
\* read by separate statements; and a draft looks to him like nothing.
DraftsStayHidden ==
    told.to \notin Organizers =>
        /\ told.hack \in {"none", "published"}
        /\ told.chal \in {"none", "published"}
        /\ told.chal = "published" => hack = "published" /\ chal # "draft"

\* A submission and its evaluation are shown to the participant and to the
\* organizer of its hackathon; another organizer sees no more than the list
\* of a user's submissions.
SubmissionsPrivate ==
    \A p \in told.subs :
        \/ told.to = p
        \/ told.to \in Organizers /\ (told.to = owner \/ told.op = "user_submissions")

\* The jobs said to be ahead were accepted earlier and undecided already when
\* the row was read, whatever has been claimed, requeued, submitted or
\* committed before they were counted; and a row that has left the queue by
\* then is still shown as it was read.
AheadIsAhead ==
    /\ told.ahead \subseteq seen.undecided
    /\ told.ahead # {} => told.status = "queued"

\* The health is no better than the calmest, and no worse than the most
\* crowded, queue there was while the request read it in two statements,
\* depth and age taken each for itself.
HealthIsBracketed ==
    told.code = 200 /\ told.op \in Backlog =>
        /\ Health(seen.least, seen.young) <= told.health
        /\ told.health <= Health(seen.most, seen.old)
        /\ seen.least >= BusyDepth => told.health > 0

\* No answer shows a caller what is not his to see.
AnswersAreAuthorized == DraftsStayHidden /\ SubmissionsPrivate

\* The queue position and the health of an answer, put together from several
\* statements, are those of a queue there was.
ViewsAreOfTheQueue == AheadIsAhead /\ HealthIsBracketed

-----------------------------------------------------------------------------
(* The inductive invariant behind them. *)

\* A reply ends its request; a request was made by a known user, about a
\* submission its route names, with the role its route requires.
RequestInv ==
    /\ told = Silent \/ asked = Idle
    /\ asked.op # "none" => /\ asked.who \in Users
                            /\ asked.about \in About(asked.op)
    /\ asked.op \in {"queue", "challenge_submissions"} => Organizer(asked.who)

\* What a request has read and checked is still so: nothing is unpublished
\* and no hackathon changes hands.
ReadInv ==
    /\ asked.hack = "published" => hack = "published"
    /\ asked.chal = "published" => chal \in {"published", "closed"}
    /\ asked.op = "challenges" /\ asked.at = 2 =>
          asked.hack = "published" \/ Organizer(asked.who)
    /\ asked.op = "evaluation" /\ asked.at \in {2, 3} =>
          Authorized(asked.who, asked.about)

\* Whoever is undecided before a row that has been read was so already then.
AheadInv ==
    asked.op = "evaluation" /\ asked.at = 3 =>
        /\ eval[asked.about] \notin {"none", "inserted"}
        /\ \A q \in Older(asked.about) : Open(q) => q \in seen.undecided

\* Only created rows have an order; only an existing hackathon has an owner.
WorldInv ==
    /\ \A j \in DOMAIN order : eval[order[j]] # "none"
    /\ owner \in Organizers => hack # "none"

\* The queue, and the depth that was read, lie within what was to be seen.
BacklogInv ==
    asked.op \in Backlog =>
        /\ seen.least <= Cardinality(Queued) /\ Cardinality(Queued) <= seen.most
        /\ seen.young <= OldestAge /\ OldestAge <= seen.old
        /\ asked.at = 2 => seen.least <= asked.depth /\ asked.depth <= seen.most

ApiInv == /\ ApiTypeOK /\ RequestInv /\ ReadInv /\ AheadInv /\ WorldInv
          /\ BacklogInv /\ AnswersAreAuthorized /\ ViewsAreOfTheQueue
=============================================================================
