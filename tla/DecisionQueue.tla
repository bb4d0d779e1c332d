----------------------------- MODULE DecisionQueue -----------------------------
(***************************************************************************)
(* The reducers of a session that deal with questions, research, decisions *)
(* and the planning handoff.  A reducer maps a snapshot of the session to  *)
(* an event; an event carries the whole queue and research projections as  *)
(* computed from that snapshot, and patches the issues and decisions of    *)
(* whatever session it is applied to.  Text, scores and titles are left    *)
(* out, and so is the order inside a queue list and the priority of        *)
(* questions: a refill may choose any candidate.                           *)
(***************************************************************************)
EXTENDS Naturals, FiniteSets

CONSTANTS
    Seeds,          \* questions an ambiguity analysis may generate
    ResearchOnly,   \* those that are researched and never asked
    Least,          \* the lowest intensity at which a business critic asks each seed, or 0
    Bottlenecks,    \* those about the first bottlenecks of planning
    MaxFollowUps,   \* bound on the follow-up questions of a session
    Objectives,     \* what a user may plan research about
    Results,        \* texts a research result may have
    Poor,           \* those whose sources are insufficient
    MaxVersion,     \* bound on synthesis versions
    Previews,       \* spec update previews, by source and required decision
    Materials,      \* the title and sections of a preview
    Turns,          \* what the runtime may be asked, by purpose and context
    RepeatLimits,   \* follow-ups of one line of questions, of the critic's and of others
    BatchLimit,     \* questions a batch may activate (five in the source)
    Answers,        \* texts an answer may have
    Branches,       \* into how many branches each of them is split (three at most in the source)
    None

\* balanced, strong, investor_grade
Intensities == 0 .. 2

FollowUps == {<<"follow", n>> : n \in 1 .. MaxFollowUps}
Issues    == Seeds \cup FollowUps

\* Research tasks, named by what their id is made of.
BaseTask == <<"detail", None>>
Tasks ==
    ({"detail"} \X ((Issues \X Answers) \cup {None})) \cup ({"initial"} \X ResearchOnly)
    \cup ({"follow_up"} \X FollowUps) \cup ({"plan"} \X Objectives)

\* A review card goes by its task, a decision by its preview, and the card of a
\* runtime artifact by its turn.  A card is listed in next or blocked, as its route or
\* artifact says; no reducer asks which, so it is in review.
Items  == Issues \cup Tasks \cup Previews \cup Turns
Places == {"active", "next", "review", "deferred", "none"}
Jobs   == Tasks \X Results \X (1 .. MaxVersion)
Outcomes == {"none", "settled", "deferred", "insufficient"}

\* What the projections of a session hold.
Origins ==
    {None} \cup ({"answer"} \X (Issues \X Answers) \X Nat \X Nat) \cup ({"research"} \X Jobs \X Nat)
IssueRecords ==
    [status : {"absent", "gone", "open", "answered", "deferred", "resolved"},
     count : Nat, origin : Origins, critic : Intensities]
Queues == [Items -> [at : Places, shows : Outcomes]]
Research ==
    [tasks : SUBSET Tasks, detailOf : Issues \cup {None}, results : SUBSET (Tasks \X Results),
     evidence : SUBSET Jobs, outcome : [Tasks -> Outcomes]]
DecisionRecords ==
    [status : {"none", "active", "approved", "rejected", "deferred", "risk_accepted"},
     material : Materials \cup {None}]
Artifacts ==
    [Turns -> [status : {"none", "preview_ready", "manual_handoff", "blocked"}, by : Nat \cup {None}]]
Stages   == {"new", "started", "intake", "drafted"}
Modes    == {"business", "personal"}
Handoffs == {"none", "ready", "blocked"}
SessionRecords ==
    [stage : Stages, mode : Modes \cup {None}, intensity : Intensities \cup {None},
     issues : [Issues -> IssueRecords], queue : Queues, research : Research,
     decisions : [Previews -> DecisionRecords], version : (Previews \X (Materials \cup {None})) \cup {None},
     handoff : Handoffs, artifacts : Artifacts]

\* Only a business has a critic, and a question repeats as far as the limit of its critic.
Sessions ==
    {s \in SessionRecords :
        /\ s.mode # "business" => s.intensity = None
        /\ \A i \in Issues : s.issues[i].count <= RepeatLimits[s.issues[i].critic > 0]}

\* A question is nothing else that is queued, and None is a value of its own.
ASSUME DecisionQueueAssumption ==
    /\ ResearchOnly \subseteq Seeds /\ Bottlenecks \subseteq Seeds
    /\ Least \in [Seeds -> Intensities]
    /\ Poor \subseteq Results
    /\ RepeatLimits \in [BOOLEAN -> Nat] /\ Branches \in [Answers -> Nat]
    /\ {MaxFollowUps, MaxVersion, BatchLimit} \subseteq Nat
    /\ Seeds \cap FollowUps = {} /\ Issues \cap (Tasks \cup Previews \cup Turns) = {}
    /\ None \notin Items \cup Materials \cup Stages \cup Modes \cup Handoffs
    /\ None \notin Issues \X Answers
    /\ None \notin Intensities \cup Queues \cup Research \cup Artifacts \cup SessionRecords
    /\ None \notin (Previews \X DecisionRecords) \cup (Previews \X (Materials \cup {None}))
    /\ \A S \in SUBSET Issues : None \notin [S -> IssueRecords]

Issue(count, origin, critic) ==
    [status |-> "open", count |-> count, origin |-> origin, critic |-> critic]
Absent  == [Issue(0, None, 0) EXCEPT !.status = "absent"]
Nowhere == [at |-> "none", shows |-> "none"]

\* Runtime artifacts: status, and the effect task that made it.
NoArtifact == [status |-> "none", by |-> None]

\* The critic of an issue is the lowest intensity that asks it, 0 for any other.
EmptySession ==
    [stage |-> "new", mode |-> None, intensity |-> None,
     issues |-> [i \in Issues |-> Absent],
     queue |-> [x \in Items |-> Nowhere],
     research |-> [tasks |-> {}, detailOf |-> None, results |-> {}, evidence |-> {},
                   outcome |-> [t \in Tasks |-> "none"]],
     decisions |-> [p \in Previews |-> [status |-> "none", material |-> None]],
     version |-> None, handoff |-> "none", artifacts |-> [t \in Turns |-> NoArtifact]]

-----------------------------------------------------------------------------
(* Queue helpers *)

Listed(q, x) == q[x].at # "none"
Without(q, x) == [q EXCEPT ![x] = Nowhere]
Put(q, x, place) == [q EXCEPT ![x] = [at |-> place, shows |-> "none"]]

Existing(issues) == {i \in Issues : issues[i].status \notin {"absent", "gone"}}
Askable(issues)  == {i \in Issues \ ResearchOnly : issues[i].status = "open"}

\* Mutant of Refilled: nothing is promoted.
NotRefilled(q, issues) == {q}

\* The queue, with a question promoted from next, or else an unlisted one, when no
\* open question is active (the default batch holds one).
Refilled(q, issues) ==
    LET waiting  == {i \in Askable(issues) : q[i].at = "next"}
        unlisted == {i \in Askable(issues) : ~Listed(q, i)}
        chosen   == IF waiting # {} THEN waiting ELSE unlisted
    IN IF chosen = {} \/ \E i \in Askable(issues) : q[i].at = "active"
       THEN {q} ELSE {Put(q, i, "active") : i \in chosen}

Closed(issues, i, status) ==
    IF i \in Existing(issues) THEN [issues EXCEPT ![i].status = status] ELSE issues

\* appendUniqueOpenIssues
Appended(issues, new) ==
    [i \in Issues |-> IF i \in DOMAIN new /\ i \notin Existing(issues) THEN new[i] ELSE issues[i]]

\* Follow-up ids are hashes of their origin: one already used in this session, or
\* the next unused one.
Used(issues) == {issues[i].origin : i \in FollowUps} \ {None}
Fresh(issues, origins) == {o \in origins : o \notin Used(issues)}
NameOf(issues, origins, rank, o) ==
    IF o \in Used(issues) THEN CHOOSE i \in FollowUps : issues[i].origin = o
    ELSE <<"follow", Cardinality(Used(issues))
                       + Cardinality({x \in Fresh(issues, origins) : rank[x] <= rank[o]})>>

\* New questions by id, from a rank and a repeat count per origin; "now" are the
\* issues of the session that names them.
Named(now, rank, count, critic) ==
    LET ids == {NameOf(now, DOMAIN rank, rank, o) : o \in DOMAIN rank}
        origin(i) == CHOOSE o \in DOMAIN rank : NameOf(now, DOMAIN rank, rank, o) = i
    IN [i \in ids |-> Issue(count[origin(i)], origin(i), critic)]

NamesLeft(now, origins) ==
    Cardinality(Used(now)) + Cardinality(Fresh(now, origins)) <= MaxFollowUps

-----------------------------------------------------------------------------
(* Events and how a session replays them *)

\* What an event leaves out, the session keeps.
Event == [stage |-> None, mode |-> None, intensity |-> None,
          closes |-> None, as |-> "open", opens |-> <<>>, list |-> None,
          queue |-> None, research |-> None, decides |-> None, version |-> None,
          handoff |-> None, artifacts |-> None]

Either(new, old) == IF new = None THEN old ELSE new

\* A whole list of issues takes the place of the session's.
Replaced(issues, list) ==
    [i \in Issues |-> IF i \in DOMAIN list THEN list[i]
                     ELSE IF i \in Existing(issues) THEN [issues[i] EXCEPT !.status = "gone"]
                     ELSE issues[i]]

\* Leaving business takes the intensity along.
Apply(s, e) ==
    LET kept == IF e.list # None THEN Replaced(s.issues, e.list)
                ELSE IF e.closes = None THEN s.issues ELSE Closed(s.issues, e.closes, e.as)
    IN [stage |-> Either(e.stage, s.stage), mode |-> Either(e.mode, s.mode),
        intensity |-> IF e.mode = "personal" THEN None ELSE Either(e.intensity, s.intensity),
        issues |-> Appended(kept, e.opens),
        queue |-> Either(e.queue, s.queue), research |-> Either(e.research, s.research),
        decisions |-> IF e.decides = None THEN s.decisions
                      ELSE [s.decisions EXCEPT ![e.decides[1]] = e.decides[2]],
        version |-> Either(e.version, s.version), handoff |-> Either(e.handoff, s.handoff),
        artifacts |-> Either(e.artifacts, s.artifacts)]

-----------------------------------------------------------------------------
(* The reducers.  Each is the set of events a command may make of snapshot s. *)

\* A task is added, or its card starts again.
WithTask(research, t) ==
    [research EXCEPT !.tasks = @ \cup {t}, !.outcome[t] = "none"]

UpTo(level) == IF level = None THEN {} ELSE 1 .. level

StartProject(s, mode, level) ==
    IF s.stage # "new" \/ (mode = "personal" /\ level # None) THEN {}
    ELSE {[Event EXCEPT !.stage = "started", !.mode = mode, !.intensity = level]}

CaptureIntake(s) ==
    {[Event EXCEPT !.stage = IF s.stage = "started" THEN "intake" ELSE None]}

DraftInitialSpec(s) ==
    IF s.stage # "intake" THEN {} ELSE {[Event EXCEPT !.stage = "drafted"]}

\* The event carries the queue along, with the labels of the mode.
ChangeProjectPurposeMode(s, mode) ==
    IF mode = s.mode THEN {} ELSE {[Event EXCEPT !.mode = mode, !.queue = s.queue]}

\* The issues an intensity keeps: closed ones, those asked now and those it asks.
Retained(s, level) ==
    {i \in Existing(s.issues) :
        s.issues[i].status # "open" \/ s.queue[i].at = "active" \/ s.issues[i].critic <= level}

\* The critic's questions above the new intensity leave the issues and the queue;
\* those it asks are added once the session was analyzed, and wait in next.  What it
\* adds comes from fixed lists, which hold no question that is researched only.
ChangeBusinessCriticIntensity(s, level) ==
    LET kept  == Retained(s, level)
        new   == IF Existing(s.issues) = {} THEN {}
                 ELSE {i \in Seeds \ (kept \cup ResearchOnly) : Least[i] \in UpTo(level)}
        list  == [i \in kept \cup new |-> IF i \in kept THEN s.issues[i] ELSE Issue(0, None, Least[i])]
        left(x)  == x \in Issues /\ s.queue[x].at = "next" /\ s.issues[x].critic > level
        waits(x) == /\ x \in Askable(Replaced(s.issues, list)) /\ list[x].critic \in UpTo(level)
                    /\ ~Listed(s.queue, x)
    IN IF s.mode # "business" \/ level = s.intensity THEN {}
       ELSE {[Event EXCEPT
                !.intensity = level, !.list = list,
                !.queue = [x \in Items |-> IF left(x) THEN Nowhere
                                          ELSE IF waits(x) THEN [Nowhere EXCEPT !.at = "next"]
                                          ELSE s.queue[x]]]}

\* A critic wants questions of its own, up to its intensity.
Pressed(s, chosen) ==
    s.mode = "business" =>
        s.intensity # None /\ \A level \in UpTo(s.intensity) : \E i \in chosen : Least[i] = level

\* An id is a hash of mode, intensity and place in the list: a dropped question may come
\* back under its id, with its research planned anew.  Here any mode and intensity may
\* bring it back, in the source only those it was dropped with.
AnalyzeAmbiguity(s, chosen) ==
    IF \/ s.stage # "drafted" \/ chosen = {} \/ ~Pressed(s, chosen)
       \/ \E i \in Issues : s.issues[i].status = "open"
    THEN {}
    ELSE LET initial == {<<"initial", i>> : i \in chosen \cap ResearchOnly} IN
         {[Event EXCEPT
             !.list = [i \in chosen |-> Issue(0, None, IF s.mode = "business" THEN Least[i] ELSE 0)],
             !.research = IF initial = {} THEN None
                          ELSE [s.research EXCEPT
                                  !.tasks = @ \cup initial,
                                  !.outcome = [t \in Tasks |-> IF t \in initial THEN "none" ELSE @[t]]]]}

\* Once a bottleneck is settled, a batch has to challenge a core assumption.
Unchallenged(s, batch) ==
    /\ UpTo(s.intensity) # {}
    /\ \E i \in Bottlenecks : s.issues[i].status = "answered"
    /\ \E i \in Issues : s.issues[i].status = "open" /\ s.issues[i].critic = 1
    /\ \A i \in batch : s.issues[i].critic # 1

ActivateQuestionBatch(s, batch) ==
    IF \/ ~batch \subseteq Askable(s.issues)
       \/ Cardinality(batch) \notin 1 .. BatchLimit
       \/ \E x \in Items : s.queue[x].at = "active"
       \/ Unchallenged(s, batch)
    THEN {}
    ELSE {[Event EXCEPT !.queue =
             [x \in Items |->
                 [Nowhere EXCEPT
                    !.at = IF x \in batch THEN "active"
                           ELSE IF x \in Askable(s.issues) /\ s.issues[x].critic \in UpTo(s.intensity)
                           THEN "next" ELSE "none"]]]}

DeferQueueItem(s, x) ==
    IF s.queue[x].at \in {"none", "deferred"} THEN {}
    ELSE {[Event EXCEPT !.closes = x, !.as = "deferred", !.queue = q] :
             q \in Refilled([s.queue EXCEPT ![x].at = "deferred"],
                            IF x \in Issues THEN Closed(s.issues, x, "deferred") ELSE s.issues)}

DismissQueueItem(s, x) ==
    IF ~Listed(s.queue, x) \/ (x \in Issues /\ s.issues[x].critic > 0) THEN {}
    ELSE {[Event EXCEPT !.closes = x, !.as = "resolved", !.queue = q] :
             q \in Refilled(Without(s.queue, x),
                            IF x \in Issues THEN Closed(s.issues, x, "resolved") ELSE s.issues)}

\* The task an answer plans: one for the session until it has a result, then one for
\* each question and text.
TaskOfAnswer(s, i, a) ==
    IF \E r \in Results : <<BaseTask, r>> \in s.research.results THEN <<"detail", <<i, a>>>> ELSE BaseTask

\* Mutant of Repeats: the limit is passed by one.
RepeatsAndOne(base, n, critic) == {k \in 1 .. n : base + k <= RepeatLimits[critic > 0] + 1}

\* Repeat counts 1, 2, ... above a base, as far as the limit allows.
Repeats(base, n, critic) == {k \in 1 .. n : base + k <= RepeatLimits[critic > 0]}

\* What the ids of an answer's follow-ups are made of: question and text, repeat count, branch.
AnswerOrigins(s, i, a, ks) == {<<"answer", <<i, a>>, s.issues[i].count + k, k>> : k \in ks}

AnswerFollowUps(s, now, i, a) ==
    LET critic == s.issues[i].critic
        ks == IF s.issues[i].status = "open" THEN Repeats(s.issues[i].count, Branches[a], critic) ELSE {}
        origins == AnswerOrigins(s, i, a, ks)
    IN Named(now, [o \in origins |-> o[4]], [o \in origins |-> o[3]], critic)

\* An answer of text a: the question leaves the queue, its research is planned,
\* follow-ups open and a question is promoted.  Two events, committed together.
SubmitAnswer(s, now, i, a) ==
    IF s.queue[i].at # "active" \/ ~NamesLeft(now, AnswerOrigins(s, i, a, 1 .. Branches[a]))
    THEN {}
    ELSE LET t   == TaskOfAnswer(s, i, a)
             new == AnswerFollowUps(s, now, i, a)
             planned == WithTask(s.research, t)
         IN {[Event EXCEPT
                !.closes = i, !.as = "answered", !.opens = new, !.queue = q,
                !.research = IF t = BaseTask THEN [planned EXCEPT !.detailOf = i] ELSE planned] :
                q \in Refilled(Put(Without(s.queue, i), t, "review"),
                               Appended(Closed(s.issues, i, "answered"), new))}

PlanResearch(s, t) == {[Event EXCEPT !.research = WithTask(s.research, t)]}

ImportResearchResult(s, t, r) ==
    IF t \notin s.research.tasks THEN {}
    ELSE {[Event EXCEPT !.research = [s.research EXCEPT !.results = @ \cup {<<t, r>>}]]}

\* A user's SynthesizeEvidence asks the executor for this version.
RequestSynthesis(s, t, r) ==
    IF <<t, r>> \in s.research.results /\ t \in s.research.tasks THEN {Event} ELSE {}

\* The question a task is about.
SourceOf(s, t) ==
    IF t = BaseTask THEN s.research.detailOf ELSE IF t[1] = "detail" THEN t[2][1] ELSE t[2]

\* The critic of the question a task is about.
CriticOf(s, t) ==
    IF SourceOf(s, t) \in Existing(s.issues) THEN s.issues[SourceOf(s, t)].critic ELSE 0

\* Research follow-ups of task t that the session has.
FollowUpsOf(s, t) ==
    {i \in FollowUps \cap Existing(s.issues) :
        s.issues[i].origin[1] = "research" /\ s.issues[i].origin[2][1] = t}

\* Mutant of RepeatBase: follow-ups of earlier results of the task are not counted.
RepeatBaseOfSource(s, t) ==
    LET source == SourceOf(s, t) IN
    IF source \in Existing(s.issues) THEN s.issues[source].count ELSE 0

RepeatBase(s, t) ==
    LET source == SourceOf(s, t) IN
    Cardinality(FollowUpsOf(s, t))
    + (IF source \in Existing(s.issues) THEN s.issues[source].count ELSE 0)

FollowUpTasks(ids) == {<<"follow_up", i>> : i \in ids}

\* The executor's SynthesizeEvidence of job j = <<task, result, version>>: the card
\* is replaced, the additional questions of the matrix become follow-ups with a
\* task and a review item each, and a question is promoted.
SynthesizeEvidence(s, now, j, questions) ==
    LET t      == j[1]
        base   == RepeatBase(s, t)
        rank   == [o \in {<<"research", j, k>> : k \in Repeats(base, questions, CriticOf(s, t))} |-> o[3]]
        named  == Named(now, rank, [o \in DOMAIN rank |-> base + o[3]],
                        CriticOf(s, t))
        new    == [i \in DOMAIN named \ Existing(s.issues) |-> named[i]]
        tasks  == FollowUpTasks(DOMAIN new)
        carded == Put(s.queue, t, "review")
        shown  == [x \in Items |-> IF x \in DOMAIN new /\ ~Listed(carded, x)
                                   THEN [Nowhere EXCEPT !.at = "next"] ELSE carded[x]]
    IN IF <<t, j[2]>> \notin s.research.results \/ t \notin s.research.tasks
       THEN {}
       ELSE {[Event EXCEPT
                !.opens = new,
                !.queue = [x \in Items |-> IF x \in tasks THEN [Nowhere EXCEPT !.at = "review"] ELSE q[x]],
                !.research = [s.research EXCEPT
                    !.tasks = @ \cup tasks, !.evidence = @ \cup {j},
                    !.outcome = [u \in Tasks |-> IF u \in tasks \cup {t} THEN "none" ELSE @[u]]]] :
                q \in Refilled(shown, Appended(s.issues, new))}

\* A card is settled once; a card without evidence can only be put aside.
ResolveResearchQueueCard(s, t, outcome) ==
    IF \/ t \notin s.research.tasks \/ s.research.outcome[t] # "none"
       \/ outcome = "settled" /\ \A j \in s.research.evidence : j[1] # t
    THEN {}
    ELSE {[Event EXCEPT
             !.research = [s.research EXCEPT !.outcome[t] = outcome],
             !.queue = CASE outcome = "settled" -> Without(s.queue, t)
                         [] outcome = "deferred" -> [s.queue EXCEPT ![t] = [at |-> "deferred", shows |-> outcome]]
                         [] outcome = "insufficient" -> [s.queue EXCEPT ![t] = [at |-> "review", shows |-> outcome]]]}

\* Mutant of ToReview: only cards listed in the queue are reviewed.
ToReviewListed(s) == {t \in s.research.tasks : Listed(s.queue, t)}

\* The cards a handoff asks for, taken to be of high impact, whether listed or not.
ToReview(s) == s.research.tasks

\* The outcome a listed card shows counts before the card's own.
ReviewedAs(s, t) == IF s.queue[t].shows # "none" THEN s.queue[t].shows ELSE s.research.outcome[t]

\* The gate may be closed for other reasons, and by cards put aside that are fatal.
CreatePlanningHandoff(s, verdict) ==
    IF verdict = "ready" /\ \E t \in ToReview(s) : ReviewedAs(s, t) = "none" THEN {}
    ELSE {[Event EXCEPT !.handoff = verdict]}

\* Mutant of Undecided: an approved decision may be previewed again.
UndecidedOrApproved(s, p) == s.decisions[p].status \in {"active", "deferred", "approved"}

Undecided(s, p) == s.decisions[p].status \in {"active", "deferred"}

CreateSpecUpdatePreview(s, p, material) ==
    IF s.stage # "drafted" \/ (s.decisions[p].status # "none" /\ ~Undecided(s, p)) THEN {}
    ELSE {[Event EXCEPT !.decides = <<p, [status |-> "active", material |-> material]>>,
                        !.queue = Put(s.queue, p, "next")]}

ResolveDecision(s, p, outcome) ==
    IF ~Undecided(s, p) THEN {}
    ELSE {[Event EXCEPT
             !.decides = <<p, [s.decisions[p] EXCEPT !.status = outcome]>>,
             !.queue = IF outcome = "deferred" THEN Put(s.queue, p, "deferred") ELSE Without(s.queue, p)]}

CreateSpecVersion(s, p) ==
    IF s.decisions[p].status # "approved" THEN {}
    ELSE {[Event EXCEPT !.version = <<p, s.decisions[p].material>>]}

-----------------------------------------------------------------------------
(* Runtime previews *)

\* The artifact takes the place of the one before it, and so does its card.
WithArtifact(s, t, artifact) ==
    [Event EXCEPT !.artifacts = [s.artifacts EXCEPT ![t] = artifact],
                  !.queue = Put(s.queue, t, "review")]

\* A user's own handoff, or what effect task k made of the turn.
CreateRuntimePreview(s, t, status, k) ==
    {WithArtifact(s, t, [status |-> status, by |-> k])}

\* A blocked artifact stays blocked; any other is only marked as converted.
ConvertRuntimeArtifact(s, t, block) ==
    LET a == s.artifacts[t] IN
    IF a.status = "none" THEN {}
    ELSE IF block \/ a.status = "blocked"
    THEN {WithArtifact(s, t, [a EXCEPT !.status = "blocked"])} ELSE {Event}

=============================================================================
