------------------------------ MODULE SessionProofs ------------------------------
(***************************************************************************)
(* Safety theorems about ProductSession.  Every command and every executor *)
(* computes an event from a snapshot of the session; the proofs say of     *)
(* each reducer what its events do to the snapshot they were computed      *)
(* from, and of a commit what it keeps when the session has moved on.      *)
(***************************************************************************)
EXTENDS ProductSession, FiniteSetTheorems, TLAPS

InitialTasks == {"initial"} \X ResearchOnly

-----------------------------------------------------------------------------
(* The invariant *)

\* Follow-ups of task t that a critic asks.
Pressing(s, t) == {i \in FollowUpsOf(s, t) : s.issues[i].critic > 0}

\* The limits on a task's follow-ups: of FollowUpsAreBounded, for any session.
Bounded(s) ==
    \A t \in Tasks : /\ Cardinality(Pressing(s, t)) <= RepeatLimits[TRUE]
                     /\ \E critic \in BOOLEAN : Cardinality(FollowUpsOf(s, t)) <= RepeatLimits[critic]

\* A question that is researched only, from its analysis on: open, or dropped.
Unclosed(s, i) == <<"initial", i>> \in s.research.tasks => s.issues[i].status \in {"open", "gone"}

\* What holds of a session unless a commit overwrote another: only tasks have
\* outcomes, a listed card that no analysis planned shows an outcome it has, a question
\* that is researched only is never listed or closed, what is to be asked is open, and
\* research has not asked more than its limits.
Consistent(s) ==
    /\ \A t \in Tasks : /\ s.research.outcome[t] # "none" => t \in s.research.tasks
                        /\ t \notin InitialTasks /\ s.queue[t].shows # "none" => s.research.outcome[t] # "none"
    /\ \A i \in ResearchOnly : s.queue[i].at = "none" /\ Unclosed(s, i)
    /\ \A i \in Issues : s.queue[i].at \in {"active", "next"} => s.issues[i].status = "open"
    /\ Bounded(s)

\* A task was planned with an effect among those that are waited for, but for the
\* first ones, which have none.
Planned(waiting, t) == t \in InitialTasks \/ waiting[t] # "none"

\* A snapshot that some step may still commit from.
Snapshot(waiting, s) == s \in Sessions /\ \A t \in s.research.tasks : Planned(waiting, t)

\* Only commands under the lock move the mode and the decisions.
LockInv ==
    user # None => /\ Snapshot(waits, user)
                   /\ user.mode = session.mode /\ user.decisions = session.decisions

WaitsInv ==
    /\ waits \in [Tasks -> {"none", "queued", "cancelled"}]
    /\ \A t \in InitialTasks : waits[t] = "none"

JobsInv ==
    /\ jobs \in [Jobs -> {"none", "queued", "running", "succeeded", "failed"}]
    /\ tries \in [Jobs -> 0 .. MaxAttempts]
    /\ \A j \in Jobs : /\ jobs[j] = "none" => tries[j] = 0
                       /\ jobs[j] = "queued" => tries[j] < MaxAttempts
                       /\ jobs[j] # "none" => Planned(waits, j[1])
                       /\ jobs[j] = "succeeded" => waits[j[1]] # "queued"

\* Where an executor may be.
Positions ==
    {"idle", "picked", "read", "committed", "turn", "asked", "unavailable", "answered", "handed"}

\* What an executor at work holds, with the effects there are.
Working(waiting, queued, asked, x) ==
    /\ x.pc \in Positions
    /\ x.pc \in {"picked", "read", "committed"} =>
          x.job \in Jobs /\ x.attempt \in 1 .. MaxAttempts /\ queued[x.job] # "none"
    /\ x.pc \in {"turn", "asked", "unavailable", "answered", "handed"} =>
          x.job \in Turns /\ x.attempt \in DOMAIN asked[x.job]
    /\ IF x.pc \in {"read", "asked", "unavailable"} THEN Snapshot(waiting, x.snap) ELSE x.snap = None

TurnStatuses == {"queued", "running", "succeeded", "failed", "blocked"}

ExecRecords ==
    [pc : Positions, job : Jobs \cup Turns \cup {None}, attempt : Nat, snap : Sessions \cup {None}]

ExecInv ==
    /\ exec \in [Executors -> ExecRecords] /\ turns \in [Turns -> Seq(TurnStatuses)]
    /\ \A e \in Executors : Working(waits, jobs, turns, exec[e])

\* An approval is final, and so is the material it was given to.
DecisionsInv ==
    /\ approvedAs \in [Previews -> Materials \cup {None}]
    /\ \A p \in Previews : session.decisions[p].status = "approved" =>
          session.decisions[p].material = approvedAs[p]
    /\ session.version # None =>
          /\ session.decisions[session.version[1]].status = "approved"
          /\ session.version[2] = approvedAs[session.version[1]]

IInv ==
    /\ Snapshot(waits, session) /\ LockInv /\ WaitsInv /\ JobsInv /\ ExecInv /\ DecisionsInv
    /\ load \in Workloads /\ overwritten \in BOOLEAN /\ (~overwritten => Consistent(session))

-----------------------------------------------------------------------------
(* What an event is, and what it makes of a session *)

IssueLists == UNION {[S -> IssueRecords] : S \in SUBSET Issues}
WithinLimits(list) == \A i \in DOMAIN list : list[i].count <= RepeatLimits[list[i].critic > 0]

Events ==
    [stage : Stages \cup {None}, mode : Modes \cup {None}, intensity : Intensities \cup {None},
     closes : Items \cup {None}, as : {"open", "answered", "deferred", "resolved"},
     opens : {l \in IssueLists : WithinLimits(l)},
     list : {l \in IssueLists : WithinLimits(l)} \cup {None},
     queue : Queues \cup {None}, research : Research \cup {None},
     decides : (Previews \X DecisionRecords) \cup {None},
     version : (Previews \X (Materials \cup {None})) \cup {None},
     handoff : Handoffs \cup {None}, artifacts : Artifacts \cup {None}]

\* None is no value of another kind.
LEMMA NoneApart ==
    /\ None \notin Items /\ None \notin Issues /\ None \notin Tasks /\ None \notin Previews /\ None \notin Turns
    /\ None \notin Stages /\ None \notin Modes /\ None \notin Handoffs /\ None \notin Intensities
    /\ None \notin Queues /\ None \notin Research /\ None \notin Artifacts /\ None \notin Sessions
    /\ None \notin Materials /\ None \notin Previews \X DecisionRecords
    /\ None \notin Previews \X (Materials \cup {None})
BY DecisionQueueAssumption DEF Items, Sessions

LEMMA NothingOpens == <<>> \in {l \in IssueLists : WithinLimits(l)} /\ DOMAIN <<>> = {}
<1>1. <<>> \in [{} -> IssueRecords] /\ DOMAIN <<>> = {} OBVIOUS
<1> QED BY <1>1 DEF IssueLists, WithinLimits

LEMMA EventTyped == Event \in Events
BY NothingOpens, DecisionQueueAssumption DEF Event, Events

\* One field of an event at a time.
LEMMA EventWith ==
    ASSUME NEW e \in Events
    PROVE  /\ \A v \in Stages : [e EXCEPT !.stage = v] \in Events
           /\ \A v \in Modes : [e EXCEPT !.mode = v] \in Events
           /\ \A v \in Intensities \cup {None} : [e EXCEPT !.intensity = v] \in Events
           /\ \A v \in Items : [e EXCEPT !.closes = v] \in Events
           /\ \A v \in {"answered", "deferred", "resolved"} : [e EXCEPT !.as = v] \in Events
           /\ \A v \in IssueLists : WithinLimits(v) => [e EXCEPT !.opens = v] \in Events
           /\ \A v \in IssueLists : WithinLimits(v) => [e EXCEPT !.list = v] \in Events
           /\ \A v \in Queues : [e EXCEPT !.queue = v] \in Events
           /\ \A v \in Research \cup {None} : [e EXCEPT !.research = v] \in Events
           /\ \A v \in Previews \X DecisionRecords : [e EXCEPT !.decides = v] \in Events
           /\ \A v \in Previews \X (Materials \cup {None}) : [e EXCEPT !.version = v] \in Events
           /\ \A v \in Handoffs : [e EXCEPT !.handoff = v] \in Events
           /\ \A v \in Artifacts : [e EXCEPT !.artifacts = v] \in Events
<1>1. \A v \in Stages : [e EXCEPT !.stage = v] \in Events BY DEF Events
<1>2. \A v \in Modes : [e EXCEPT !.mode = v] \in Events BY DEF Events
<1>3. \A v \in Intensities \cup {None} : [e EXCEPT !.intensity = v] \in Events BY DEF Events
<1>4. \A v \in Items : [e EXCEPT !.closes = v] \in Events BY DEF Events
<1>5. \A v \in {"answered", "deferred", "resolved"} : [e EXCEPT !.as = v] \in Events BY DEF Events
<1>6. \A v \in IssueLists : WithinLimits(v) => [e EXCEPT !.opens = v] \in Events BY DEF Events
<1>7. \A v \in IssueLists : WithinLimits(v) => [e EXCEPT !.list = v] \in Events BY DEF Events
<1>8. \A v \in Queues : [e EXCEPT !.queue = v] \in Events BY DEF Events
<1>9. \A v \in Research \cup {None} : [e EXCEPT !.research = v] \in Events BY DEF Events
<1>10. \A v \in Previews \X DecisionRecords : [e EXCEPT !.decides = v] \in Events BY DEF Events
<1>11. \A v \in Previews \X (Materials \cup {None}) : [e EXCEPT !.version = v] \in Events BY DEF Events
<1>12. \A v \in Handoffs : [e EXCEPT !.handoff = v] \in Events BY DEF Events
<1>13. \A v \in Artifacts : [e EXCEPT !.artifacts = v] \in Events BY DEF Events
<1> QED BY <1>1, <1>2, <1>3, <1>4, <1>5, <1>6, <1>7, <1>8, <1>9, <1>10, <1>11, <1>12, <1>13

LEMMA ListMembers ==
    ASSUME NEW l \in IssueLists
    PROVE  l \in [DOMAIN l -> IssueRecords] /\ DOMAIN l \subseteq Issues /\ l # None
<1>1. PICK S \in SUBSET Issues : l \in [S -> IssueRecords] BY DEF IssueLists
<1> QED BY <1>1, DecisionQueueAssumption

LEMMA ListTyped ==
    ASSUME NEW S \in SUBSET Issues, NEW l \in [S -> IssueRecords]
    PROVE  l \in IssueLists
BY DEF IssueLists

\* The fields of a session.
LEMMA SessionFields ==
    ASSUME NEW s \in Sessions
    PROVE  /\ s.stage \in Stages /\ s.mode \in Modes \cup {None} /\ s.intensity \in Intensities \cup {None}
           /\ s.mode # "business" => s.intensity = None
           /\ s.issues \in [Issues -> IssueRecords]
           /\ \A i \in Issues : s.issues[i].count <= RepeatLimits[s.issues[i].critic > 0]
           /\ s.queue \in Queues /\ s.research \in Research /\ s.handoff \in Handoffs
           /\ s.decisions \in [Previews -> DecisionRecords] /\ s.artifacts \in Artifacts
           /\ s.version \in (Previews \X (Materials \cup {None})) \cup {None}
BY DEF Sessions, SessionRecords

LEMMA IssueFields ==
    ASSUME NEW i \in IssueRecords
    PROVE  i.status \in {"absent", "gone", "open", "answered", "deferred", "resolved"}
           /\ i.count \in Nat /\ i.origin \in Origins /\ i.critic \in 0 .. 2
BY DEF IssueRecords, Intensities

\* Issues within their limits.
IssuesOK(issues) ==
    issues \in [Issues -> IssueRecords] /\ WithinLimits(issues)

LEMMA ReplacedTyped ==
    ASSUME NEW issues, IssuesOK(issues), NEW list \in IssueLists, WithinLimits(list)
    PROVE  IssuesOK(Replaced(issues, list))
<1>1. \A i \in Issues : issues[i] \in IssueRecords BY DEF IssuesOK
<1>2. \A i \in DOMAIN list : list[i] \in IssueRecords BY ListMembers
<1>3. ASSUME NEW i \in Issues
      PROVE  /\ Replaced(issues, list)[i] \in IssueRecords
             /\ \/ i \in DOMAIN list /\ Replaced(issues, list)[i] = list[i]
                \/ /\ Replaced(issues, list)[i].count = issues[i].count
                   /\ Replaced(issues, list)[i].critic = issues[i].critic
  <2>1. issues[i] \in IssueRecords BY <1>1
  <2>2. CASE i \in DOMAIN list BY <1>2, <2>2 DEF Replaced
  <2>3. CASE i \notin DOMAIN list
    <3> DEFINE gone == [issues[i] EXCEPT !.status = "gone"]
    <3>1. Replaced(issues, list)[i] = issues[i] \/ Replaced(issues, list)[i] = gone
      BY <2>3 DEF Replaced
    <3>2. gone \in IssueRecords /\ gone.count = issues[i].count /\ gone.critic = issues[i].critic
      BY <2>1 DEF IssueRecords
    <3> HIDE DEF gone
    <3> QED BY <2>1, <3>1, <3>2
  <2> QED BY <2>2, <2>3
<1>4. Replaced(issues, list) = [i \in Issues |-> Replaced(issues, list)[i]] BY DEF Replaced
<1>5. ASSUME NEW i \in Issues
      PROVE  Replaced(issues, list)[i].count <= RepeatLimits[Replaced(issues, list)[i].critic > 0]
  <2>1. issues[i].count <= RepeatLimits[issues[i].critic > 0] BY DEF IssuesOK, WithinLimits
  <2>2. i \in DOMAIN list => list[i].count <= RepeatLimits[list[i].critic > 0] BY DEF WithinLimits
  <2> QED BY <1>3, <2>1, <2>2, Zenon
<1> QED BY <1>3, <1>4, <1>5 DEF IssuesOK, WithinLimits

LEMMA ClosedTyped ==
    ASSUME NEW issues, IssuesOK(issues), NEW x,
           NEW st \in {"open", "answered", "deferred", "resolved"}
    PROVE  IssuesOK(Closed(issues, x, st))
<1>1. \A i \in Issues : issues[i] \in IssueRecords BY DEF IssuesOK
<1>2. CASE x \in Existing(issues)
  <2>1. x \in Issues /\ issues[x] \in IssueRecords BY <1>1, <1>2 DEF Existing
  <2>2. Closed(issues, x, st) = [issues EXCEPT ![x] = [issues[x] EXCEPT !.status = st]]
    BY <1>2 DEF Closed
  <2> DEFINE new == [issues[x] EXCEPT !.status = st]
  <2>3. new \in IssueRecords /\ new.count = issues[x].count /\ new.critic = issues[x].critic
    BY <2>1 DEF IssueRecords
  <2> HIDE DEF new
  <2> QED BY <1>1, <2>1, <2>2, <2>3 DEF IssuesOK, WithinLimits, new
<1>3. CASE x \notin Existing(issues) BY <1>3 DEF Closed
<1> QED BY <1>2, <1>3

LEMMA AppendedTyped ==
    ASSUME NEW issues, IssuesOK(issues), NEW new \in IssueLists, WithinLimits(new)
    PROVE  IssuesOK(Appended(issues, new))
<1>1. \A i \in DOMAIN new : new[i] \in IssueRecords BY ListMembers
<1> QED BY <1>1 DEF IssuesOK, WithinLimits, Appended

LEMMA EventFields ==
    ASSUME NEW e \in Events
    PROVE  /\ e.stage \in Stages \cup {None} /\ e.mode \in Modes \cup {None}
           /\ e.intensity \in Intensities \cup {None} /\ e.closes \in Items \cup {None}
           /\ e.as \in {"open", "answered", "deferred", "resolved"}
           /\ e.opens \in IssueLists /\ WithinLimits(e.opens)
           /\ e.list # None => e.list \in IssueLists /\ WithinLimits(e.list)
           /\ e.queue \in Queues \cup {None} /\ e.research \in Research \cup {None}
           /\ e.decides # None => e.decides[1] \in Previews /\ e.decides[2] \in DecisionRecords
           /\ e.version \in (Previews \X (Materials \cup {None})) \cup {None}
           /\ e.handoff \in Handoffs \cup {None} /\ e.artifacts \in Artifacts \cup {None}
BY DEF Events

\* An event is made for its session: only a business gets an intensity.
Fits(e, s) == e.intensity = None \/ e.mode = "business" \/ (e.mode = None /\ s.mode = "business")

LEMMA ApplyTyped ==
    ASSUME NEW s \in Sessions, NEW e \in Events, Fits(e, s)
    PROVE  Apply(s, e) \in Sessions
<1> DEFINE out == Apply(s, e)
<1>1. /\ out.stage \in Stages /\ out.mode \in Modes \cup {None}
      /\ out.queue \in Queues /\ out.research \in Research /\ out.handoff \in Handoffs
      /\ out.version \in (Previews \X (Materials \cup {None})) \cup {None} /\ out.artifacts \in Artifacts
  BY SessionFields, EventFields DEF Apply, Either
<1>2. out.intensity \in Intensities \cup {None} /\ (out.mode # "business" => out.intensity = None)
  BY SessionFields, EventFields, NoneApart DEF Apply, Either, Fits, Modes
<1>3. out.decisions \in [Previews -> DecisionRecords]
  <2>1. s.decisions \in [Previews -> DecisionRecords] BY SessionFields
  <2>2. e.decides # None => e.decides[1] \in Previews /\ e.decides[2] \in DecisionRecords BY EventFields
  <2> QED BY <2>1, <2>2 DEF Apply
<1>4. IssuesOK(out.issues)
  <2> DEFINE kept == IF e.list # None THEN Replaced(s.issues, e.list)
                     ELSE IF e.closes = None THEN s.issues ELSE Closed(s.issues, e.closes, e.as)
  <2>1. IssuesOK(s.issues)  BY SessionFields DEF IssuesOK, WithinLimits
  <2>2. IssuesOK(kept) BY <2>1, EventFields, ReplacedTyped, ClosedTyped
  <2>3. out.issues = Appended(kept, e.opens) BY DEF Apply
  <2> HIDE DEF kept, out
  <2> QED BY <2>2, <2>3, AppendedTyped, EventFields
<1>5. out = [stage |-> out.stage, mode |-> out.mode, intensity |-> out.intensity, issues |-> out.issues,
             queue |-> out.queue, research |-> out.research, decisions |-> out.decisions,
             version |-> out.version, handoff |-> out.handoff, artifacts |-> out.artifacts]
  BY DEF Apply
<1> HIDE DEF out
<1>6. out \in SessionRecords BY <1>1, <1>2, <1>3, <1>4, <1>5 DEF SessionRecords, IssuesOK
<1> QED BY <1>2, <1>4, <1>6 DEF Sessions, IssuesOK, WithinLimits, out

-----------------------------------------------------------------------------
(* The number of follow-ups *)

LEMMA ImageIsFinite ==
    ASSUME NEW S, IsFiniteSet(S), NEW f, f = [x \in S |-> f[x]]
    PROVE  IsFiniteSet({f[x] : x \in S}) /\ Cardinality({f[x] : x \in S}) <= Cardinality(S)
<1>1. f \in Surjection(S, {f[x] : x \in S}) BY DEF Surjection
<1> QED BY <1>1, FS_Surjection

LEMMA FollowUpsAreFinite == IsFiniteSet(FollowUps)
<1> DEFINE f == [n \in 1 .. MaxFollowUps |-> <<"follow", n>>]
<1>1. IsFiniteSet(1 .. MaxFollowUps) BY DecisionQueueAssumption, FS_Interval
<1>2. FollowUps = {f[n] : n \in 1 .. MaxFollowUps} BY DEF FollowUps
<1>3. f = [n \in 1 .. MaxFollowUps |-> f[n]] OBVIOUS
<1> HIDE DEF f
<1> QED BY <1>1, <1>2, <1>3, ImageIsFinite

LEMMA FollowUpSets ==
    ASSUME NEW s, NEW t
    PROVE  /\ IsFiniteSet(FollowUpsOf(s, t)) /\ Cardinality(FollowUpsOf(s, t)) \in Nat
           /\ IsFiniteSet(Pressing(s, t)) /\ Cardinality(Pressing(s, t)) \in Nat
           /\ Pressing(s, t) \subseteq FollowUpsOf(s, t)
<1>1. FollowUpsOf(s, t) \in SUBSET FollowUps /\ Pressing(s, t) \in SUBSET FollowUpsOf(s, t)
  BY DEF FollowUpsOf, Pressing
<1>2. IsFiniteSet(FollowUpsOf(s, t)) BY <1>1, FollowUpsAreFinite, FS_Subset
<1>3. IsFiniteSet(Pressing(s, t)) BY <1>1, <1>2, FS_Subset
<1> QED BY <1>1, <1>2, <1>3, FS_CardinalityType

LEMMA LimitsAreNumbers == RepeatLimits[TRUE] \in Nat /\ RepeatLimits[FALSE] \in Nat
BY DecisionQueueAssumption

\* A task whose follow-ups are among those it had is within its limits.
LEMMA FewerFollowUps ==
    ASSUME NEW s, NEW new, NEW t \in Tasks, Bounded(s),
           FollowUpsOf(new, t) \subseteq FollowUpsOf(s, t), Pressing(new, t) \subseteq Pressing(s, t)
    PROVE  /\ Cardinality(Pressing(new, t)) <= RepeatLimits[TRUE]
           /\ \E critic \in BOOLEAN : Cardinality(FollowUpsOf(new, t)) <= RepeatLimits[critic]
<1>1. /\ Cardinality(Pressing(new, t)) <= Cardinality(Pressing(s, t))
      /\ Cardinality(FollowUpsOf(new, t)) <= Cardinality(FollowUpsOf(s, t))
  BY FollowUpSets, FS_Subset
<1>2. Cardinality(Pressing(s, t)) <= RepeatLimits[TRUE] BY DEF Bounded
<1>3. PICK critic \in BOOLEAN : Cardinality(FollowUpsOf(s, t)) <= RepeatLimits[critic] BY DEF Bounded
<1>4. RepeatLimits[critic] \in Nat BY LimitsAreNumbers
<1>5. /\ Cardinality(Pressing(s, t)) \in Nat /\ Cardinality(FollowUpsOf(s, t)) \in Nat
      /\ Cardinality(Pressing(new, t)) \in Nat /\ Cardinality(FollowUpsOf(new, t)) \in Nat
  BY FollowUpSets
<1>6. \A x, y, z \in Nat : x <= y /\ y <= z => x <= z OBVIOUS
<1> QED BY <1>1, <1>2, <1>3, <1>4, <1>5, <1>6, LimitsAreNumbers, Zenon

\* Nor does a step that adds follow-ups of no research pass a limit.
LEMMA KeptBounded ==
    ASSUME NEW s, NEW new, Bounded(s),
           \A i \in FollowUps \cap Existing(new.issues) :
              \/ /\ i \in Existing(s.issues) /\ new.issues[i].origin = s.issues[i].origin
                 /\ new.issues[i].critic = s.issues[i].critic
              \/ new.issues[i].origin[1] # "research"
    PROVE  Bounded(new)
<1>1. ASSUME NEW t \in Tasks
      PROVE  /\ Cardinality(Pressing(new, t)) <= RepeatLimits[TRUE]
             /\ \E critic \in BOOLEAN : Cardinality(FollowUpsOf(new, t)) <= RepeatLimits[critic]
  <2>1. FollowUpsOf(new, t) \subseteq FollowUpsOf(s, t) BY DEF FollowUpsOf
  <2>2. Pressing(new, t) \subseteq Pressing(s, t) BY <2>1 DEF Pressing, FollowUpsOf
  <2> QED BY <2>1, <2>2, FewerFollowUps
<1> QED BY <1>1 DEF Bounded

-----------------------------------------------------------------------------
(* What a step makes of a session unless it overwrites another *)

OffersIn(q, issues) == \E i \in Askable(issues) : q[i].at = "active"
WaitsIn(q, issues) == \E i \in Askable(issues) : q[i].at \in {"next", "none"}

Closes(s, new) ==
    \E i \in Issues : s.issues[i].status = "open" /\ new.issues[i].status \in {"answered", "deferred", "resolved"}

\* An outcome is taken back for evidence that is new, or for a question asked anew.
Reopens(s, new, t) ==
    \/ \E j \in new.research.evidence \ s.research.evidence : j[1] = t
    \/ /\ t[1] = "initial"
       /\ s.issues[t[2]].status = "gone" /\ new.issues[t[2]].status = "open"

Reviewed(s, t) == s.research.outcome[t] # "none" \/ (t[1] = "initial" /\ s.queue[t].shows # "none")

Follows(s, new) ==
    /\ Consistent(new)
    /\ Closes(s, new) \/ Offers(s) => Offers(new) \/ ~Waiting(new)
    /\ \A t \in Tasks : s.research.outcome[t] # "none" /\ new.research.outcome[t] = "none" => Reopens(s, new, t)
    /\ new.handoff = "ready" /\ s.handoff # "ready" => \A t \in s.research.tasks : Reviewed(s, t)

\* What a reducer says with an event that plans some tasks.
Sound(s, e, planned) ==
    /\ e \in Events /\ Fits(e, s) /\ planned \subseteq Tasks \ InitialTasks
    /\ e.research # None => e.research.tasks \subseteq s.research.tasks \cup planned \cup InitialTasks
    /\ Consistent(s) /\ planned \cap s.research.tasks = {} => Follows(s, Apply(s, e))

LEMMA ResearchFields ==
    ASSUME NEW r \in Research
    PROVE  /\ r.tasks \subseteq Tasks /\ r.detailOf \in Issues \cup {None} /\ r.results \subseteq Tasks \X Results
           /\ r.evidence \subseteq Jobs /\ r.outcome \in [Tasks -> Outcomes]
           /\ r = [tasks |-> r.tasks, detailOf |-> r.detailOf, results |-> r.results,
                   evidence |-> r.evidence, outcome |-> r.outcome]
BY DEF Research

LEMMA Kinds ==
    /\ Issues \subseteq Items /\ Tasks \subseteq Items /\ Previews \subseteq Items /\ Turns \subseteq Items
    /\ \A i \in Issues : i \notin Tasks /\ i \notin Previews /\ i \notin Turns
    /\ ResearchOnly \subseteq Issues /\ InitialTasks \subseteq Tasks
    /\ \A t \in InitialTasks : t[1] = "initial" /\ t[2] \in ResearchOnly /\ t = <<"initial", t[2]>>
BY DecisionQueueAssumption DEF Items, Issues, InitialTasks, Tasks

\* A step that leaves the questions and their places as they were, takes no outcome
\* back and adds no first task.
LEMMA QuietFollows ==
    ASSUME NEW s \in Sessions, NEW new \in Sessions, Consistent(s),
           new.issues = s.issues, s.research.tasks \subseteq new.research.tasks,
           new.research.tasks \cap InitialTasks \subseteq s.research.tasks,
           \A i \in Issues : new.queue[i] = s.queue[i],
           \A t \in Tasks :
              /\ \/ new.research.outcome[t] = s.research.outcome[t]
                 \/ t \in new.research.tasks /\ new.research.outcome[t] # "none"
              /\ \/ new.queue[t].shows \in {"none", s.queue[t].shows}
                 \/ new.research.outcome[t] # "none",
           new.handoff = "ready" /\ s.handoff # "ready" => \A t \in s.research.tasks : Reviewed(s, t)
    PROVE  Follows(s, new)
<1>1. Consistent(new)
  <2>1. ASSUME NEW t \in Tasks
        PROVE  /\ new.research.outcome[t] # "none" => t \in new.research.tasks
               /\ t \notin InitialTasks /\ new.queue[t].shows # "none" => new.research.outcome[t] # "none"
    BY DEF Consistent
  <2>2. ASSUME NEW i \in ResearchOnly
        PROVE  new.queue[i].at = "none" /\ Unclosed(new, i)
    <3>1. <<"initial", i>> \in InitialTasks BY DEF InitialTasks
    <3> QED BY <3>1, Kinds DEF Consistent, Unclosed
  <2>3. ASSUME NEW i \in Issues, new.queue[i].at \in {"active", "next"} PROVE new.issues[i].status = "open"
    BY <2>3 DEF Consistent
  <2>4. Bounded(new) BY KeptBounded DEF Consistent
  <2> QED BY <2>1, <2>2, <2>3, <2>4 DEF Consistent
<1>2. Offers(new) <=> Offers(s) BY DEF Offers, Askable
<1>3. ~Closes(s, new) BY DEF Closes
<1> QED BY <1>1, <1>2, <1>3 DEF Follows

LEMMA PutTyped ==
    ASSUME NEW q \in Queues, NEW x, NEW place \in Places
    PROVE  /\ Put(q, x, place) \in Queues /\ Without(q, x) \in Queues
           /\ \A y \in Items : y # x => Put(q, x, place)[y] = q[y] /\ Without(q, x)[y] = q[y]
           /\ x \in Items => /\ Put(q, x, place)[x] = [at |-> place, shows |-> "none"]
                             /\ Without(q, x)[x] = [at |-> "none", shows |-> "none"]
BY DEF Put, Without, Queues, Nowhere, Places, Outcomes

LEMMA RefilledQueue ==
    ASSUME NEW q \in Queues, NEW issues, NEW new \in Refilled(q, issues)
    PROVE  /\ new \in Queues
           /\ OffersIn(new, issues) \/ ~WaitsIn(new, issues)
           /\ \A x \in Items : \/ new[x] = q[x]
                               \/ x \in Askable(issues) /\ new[x] = [at |-> "active", shows |-> "none"]
<1>1. CASE new = q /\ OffersIn(q, issues) BY <1>1
<1>2. CASE new = q /\ ~WaitsIn(q, issues) BY <1>2
<1>3. CASE \E i \in Askable(issues) : new = Put(q, i, "active")
  <2>1. PICK i \in Askable(issues) : new = Put(q, i, "active") BY <1>3
  <2>2. i \in Items BY Kinds DEF Askable
  <2>3. "active" \in Places BY DEF Places
  <2>4. /\ new \in Queues /\ new[i] = [at |-> "active", shows |-> "none"]
        /\ \A y \in Items : y # i => new[y] = q[y]
    BY <2>1, <2>2, <2>3, PutTyped
  <2>5. OffersIn(new, issues) BY <2>4 DEF OffersIn
  <2> QED BY <2>4, <2>5
<1> QED BY <1>1, <1>2, <1>3 DEF Refilled, OffersIn, WaitsIn, Listed

-----------------------------------------------------------------------------
(* Reducers that leave questions, tasks and outcomes alone *)

LEMMA QuietSound ==
    ASSUME NEW s \in Sessions, NEW e \in Events, Fits(e, s),
           e.list = None, e.closes = None, e.opens = <<>>,
           e.research # None => /\ e.research.tasks = s.research.tasks
                                /\ e.research.outcome = s.research.outcome,
           e.queue # None => /\ \A i \in Issues : e.queue[i] = s.queue[i]
                             /\ \A t \in Tasks : e.queue[t].shows \in {"none", s.queue[t].shows},
           e.handoff = "ready" => \A t \in s.research.tasks : ReviewedAs(s, t) # "none"
    PROVE  Sound(s, e, {})
<1> DEFINE new == Apply(s, e)
<1>1. new \in Sessions BY ApplyTyped
<1>2. /\ new.research.tasks = s.research.tasks /\ new.research.outcome = s.research.outcome
      /\ \A i \in Issues : new.queue[i] = s.queue[i]
      /\ \A t \in Tasks : new.queue[t].shows \in {"none", s.queue[t].shows}
      /\ new.handoff = IF e.handoff = None THEN s.handoff ELSE e.handoff
  BY DEF Apply, Either
<1>3. new.issues = s.issues
  <2>1. new.issues = Appended(s.issues, <<>>) BY DEF Apply
  <2>2. s.issues \in [Issues -> IssueRecords] BY SessionFields
  <2> QED BY <2>1, <2>2, NothingOpens DEF Appended
<1> HIDE DEF new
<1>4. ASSUME Consistent(s) PROVE Follows(s, new)
  <2>1. ASSUME new.handoff = "ready", s.handoff # "ready", NEW t \in s.research.tasks
        PROVE  Reviewed(s, t)
    <3>1. t \in Tasks BY SessionFields, ResearchFields
    <3>2. ReviewedAs(s, t) # "none" BY <1>2, <2>1
    <3>3. t \in InitialTasks => t[1] = "initial" BY Kinds
    <3> QED BY <1>4, <3>1, <3>2, <3>3 DEF ReviewedAs, Consistent, Reviewed
  <2> QED BY <1>1, <1>2, <1>3, <1>4, <2>1, QuietFollows
<1>5. e.research # None => e.research.tasks \subseteq s.research.tasks OBVIOUS
<1> QED BY <1>4, <1>5 DEF Sound, new

\* An event that touches neither decisions nor the version.
Plain(e) == e.decides = None /\ e.version = None

LEMMA StartSound ==
    ASSUME NEW s \in Sessions, NEW mode \in Modes, NEW level \in Intensities \cup {None},
           NEW e \in StartProject(s, mode, level)
    PROVE  Sound(s, e, {}) /\ Plain(e)
<1>1. e = [Event EXCEPT !.stage = "started", !.mode = mode, !.intensity = level]
      /\ (mode = "personal" => level = None)
  BY DEF StartProject
<1>2. e \in Events
  <2> DEFINE e1 == [Event EXCEPT !.stage = "started"]
             e2 == [e1 EXCEPT !.mode = mode]
  <2>1. e1 \in Events BY EventTyped, EventWith DEF Stages
  <2>2. e2 \in Events BY <2>1, EventWith
  <2>3. [e2 EXCEPT !.intensity = level] \in Events BY <2>2, EventWith
  <2> QED BY <1>1, <2>3
<1>3. Fits(e, s) BY <1>1 DEF Fits, Event, Modes
<1>4. /\ e.list = None /\ e.closes = None /\ e.opens = <<>> /\ e.research = None /\ e.queue = None
      /\ e.handoff = None /\ Plain(e)
  BY <1>1 DEF Event, Plain
<1> QED BY <1>2, <1>3, <1>4, QuietSound, NoneApart DEF Handoffs

LEMMA IntakeSound ==
    ASSUME NEW s \in Sessions, NEW e \in CaptureIntake(s)
    PROVE  Sound(s, e, {}) /\ Plain(e)
<1>1. e = [Event EXCEPT !.stage = IF s.stage = "started" THEN "intake" ELSE None] BY DEF CaptureIntake
<1>2. e \in Events BY <1>1, EventTyped DEF Events, Stages
<1>3. Fits(e, s) BY <1>1 DEF Fits, Event
<1>4. /\ e.list = None /\ e.closes = None /\ e.opens = <<>> /\ e.research = None /\ e.queue = None
      /\ e.handoff = None /\ Plain(e)
  BY <1>1 DEF Event, Plain
<1> QED BY <1>2, <1>3, <1>4, QuietSound, NoneApart DEF Handoffs

LEMMA DraftSound ==
    ASSUME NEW s \in Sessions, NEW e \in DraftInitialSpec(s)
    PROVE  Sound(s, e, {}) /\ Plain(e)
<1>1. e = [Event EXCEPT !.stage = "drafted"] BY DEF DraftInitialSpec
<1>2. e \in Events BY <1>1, EventTyped DEF Events, Stages
<1>3. Fits(e, s) BY <1>1 DEF Fits, Event
<1>4. /\ e.list = None /\ e.closes = None /\ e.opens = <<>> /\ e.research = None /\ e.queue = None
      /\ e.handoff = None /\ Plain(e)
  BY <1>1 DEF Event, Plain
<1> QED BY <1>2, <1>3, <1>4, QuietSound, NoneApart DEF Handoffs

LEMMA ModeSound ==
    ASSUME NEW s \in Sessions, NEW mode \in Modes, NEW e \in ChangeProjectPurposeMode(s, mode)
    PROVE  Sound(s, e, {}) /\ Plain(e)
<1>1. e = [Event EXCEPT !.mode = mode, !.queue = s.queue] BY DEF ChangeProjectPurposeMode
<1>2. e \in Events
  <2> DEFINE e1 == [Event EXCEPT !.mode = mode]
  <2>1. e1 \in Events BY EventTyped, EventWith
  <2>2. [e1 EXCEPT !.queue = s.queue] \in Events BY <2>1, EventWith, SessionFields
  <2> QED BY <1>1, <2>2
<1>3. Fits(e, s) BY <1>1 DEF Fits, Event
<1>4. /\ e.list = None /\ e.closes = None /\ e.opens = <<>> /\ e.research = None /\ e.queue = s.queue
      /\ e.handoff = None /\ Plain(e)
  BY <1>1 DEF Event, Plain
<1> QED BY <1>2, <1>3, <1>4, QuietSound, NoneApart DEF Handoffs

LEMMA ImportSound ==
    ASSUME NEW s \in Sessions, NEW t \in Tasks, NEW r \in Results, NEW e \in ImportResearchResult(s, t, r)
    PROVE  Sound(s, e, {}) /\ Plain(e) /\ t \in s.research.tasks
<1> DEFINE research == [s.research EXCEPT !.results = @ \cup {<<t, r>>}]
<1>1. e = [Event EXCEPT !.research = research] /\ t \in s.research.tasks
  BY DEF ImportResearchResult
<1>2. /\ research \in Research /\ research.tasks = s.research.tasks
      /\ research.outcome = s.research.outcome
  BY SessionFields DEF Research
<1> HIDE DEF research
<1>3. e \in Events BY <1>1, <1>2, EventTyped DEF Events
<1>4. Fits(e, s) BY <1>1 DEF Fits, Event
<1>5. /\ e.list = None /\ e.closes = None /\ e.opens = <<>> /\ e.research = research /\ e.queue = None
      /\ e.handoff = None /\ Plain(e)
  BY <1>1 DEF Event, Plain
<1> QED BY <1>1, <1>2, <1>3, <1>4, <1>5, QuietSound, NoneApart DEF Handoffs

LEMMA EventSound ==
    ASSUME NEW s \in Sessions
    PROVE  Sound(s, Event, {}) /\ Plain(Event)
<1>1. Fits(Event, s) BY DEF Fits, Event
<1>2. /\ Event.list = None /\ Event.closes = None /\ Event.opens = <<>> /\ Event.research = None
      /\ Event.queue = None /\ Event.handoff = None /\ Plain(Event)
  BY DEF Event, Plain
<1> QED BY <1>1, <1>2, EventTyped, QuietSound, NoneApart DEF Handoffs

LEMMA HandoffSound ==
    ASSUME NEW s \in Sessions, NEW verdict \in {"ready", "blocked"}, NEW e \in CreatePlanningHandoff(s, verdict)
    PROVE  Sound(s, e, {}) /\ Plain(e)
<1>1. /\ e = [Event EXCEPT !.handoff = verdict]
      /\ verdict = "ready" => \A t \in s.research.tasks : ReviewedAs(s, t) # "none"
  BY DEF CreatePlanningHandoff, ToReview
<1>2. e \in Events BY <1>1, EventTyped DEF Events, Handoffs
<1>3. Fits(e, s) BY <1>1 DEF Fits, Event
<1>4. /\ e.list = None /\ e.closes = None /\ e.opens = <<>> /\ e.research = None /\ e.queue = None
      /\ e.handoff = verdict /\ Plain(e)
  BY <1>1 DEF Event, Plain
<1> QED BY <1>1, <1>2, <1>3, <1>4, QuietSound

\* A card or a decision that moves in the queue leaves the questions alone.
LEMMA PutIsQuiet ==
    ASSUME NEW q \in Queues, NEW x, x \notin Issues, NEW place \in Places, NEW new \in {Put(q, x, place), Without(q, x)}
    PROVE  /\ new \in Queues
           /\ \A i \in Issues : new[i] = q[i]
           /\ \A t \in Tasks : new[t].shows \in {"none", q[t].shows}
<1>1. /\ new \in Queues
      /\ \A y \in Items : y # x => new[y] = q[y]
      /\ x \in Items => new[x].shows = "none"
  <2> DEFINE put == Put(q, x, place)
             out == Without(q, x)
  <2>1. /\ put \in Queues /\ out \in Queues
        /\ \A y \in Items : y # x => put[y] = q[y] /\ out[y] = q[y]
        /\ x \in Items => put[x].shows = "none" /\ out[x].shows = "none"
    BY DEF Put, Without, Queues, Nowhere, Places, Outcomes
  <2>2. new = put \/ new = out OBVIOUS
  <2> HIDE DEF put, out
  <2> QED BY <2>1, <2>2
<1> QED BY <1>1, Kinds

LEMMA PreviewSound ==
    ASSUME NEW s \in Sessions, NEW p \in Previews, NEW material \in Materials,
           NEW e \in CreateSpecUpdatePreview(s, p, material)
    PROVE  /\ Sound(s, e, {}) /\ e.version = None
           /\ e.decides = <<p, [status |-> "active", material |-> material]>>
           /\ s.decisions[p].status # "approved"
<1> DEFINE q == Put(s.queue, p, "next")
           d == <<p, [status |-> "active", material |-> material]>>
<1>1. e = [Event EXCEPT !.decides = d, !.queue = q] /\ s.decisions[p].status # "approved"
  BY DEF CreateSpecUpdatePreview, Undecided
<1>2. /\ q \in Queues /\ \A i \in Issues : q[i] = s.queue[i]
      /\ \A t \in Tasks : q[t].shows \in {"none", s.queue[t].shows}
  <2>1. "next" \in Places /\ p \notin Issues /\ s.queue \in Queues BY Kinds, SessionFields DEF Places
  <2> QED BY <2>1, PutIsQuiet
<1>3. d \in Previews \X DecisionRecords BY DEF DecisionRecords
<1> HIDE DEF q, d
<1>4. e \in Events
  <2> DEFINE e1 == [Event EXCEPT !.decides = d]
  <2>1. e1 \in Events BY <1>3, EventTyped, EventWith
  <2>2. [e1 EXCEPT !.queue = q] \in Events BY <1>2, <2>1, EventWith
  <2> QED BY <1>1, <2>2
<1>5. /\ e.list = None /\ e.closes = None /\ e.opens = <<>> /\ e.research = None /\ e.queue = q
      /\ e.handoff = None /\ Fits(e, s) /\ e.decides = d /\ e.version = None
  BY <1>1 DEF Event, Fits
<1> QED BY <1>1, <1>2, <1>4, <1>5, QuietSound, NoneApart DEF Handoffs, d

LEMMA DecideSound ==
    ASSUME NEW s \in Sessions, NEW p \in Previews, NEW outcome \in {"approved", "rejected", "deferred", "risk_accepted"},
           NEW e \in ResolveDecision(s, p, outcome)
    PROVE  /\ Sound(s, e, {}) /\ e.version = None
           /\ e.decides = <<p, [s.decisions[p] EXCEPT !.status = outcome]>>
           /\ s.decisions[p].status # "approved"
<1> DEFINE q == IF outcome = "deferred" THEN Put(s.queue, p, "deferred") ELSE Without(s.queue, p)
           d == <<p, [s.decisions[p] EXCEPT !.status = outcome]>>
<1>1. e = [Event EXCEPT !.decides = d, !.queue = q] /\ s.decisions[p].status # "approved"
  BY DEF ResolveDecision, Undecided
<1>2. /\ q \in Queues /\ \A i \in Issues : q[i] = s.queue[i]
      /\ \A t \in Tasks : q[t].shows \in {"none", s.queue[t].shows}
  <2>1. "deferred" \in Places /\ p \notin Issues /\ s.queue \in Queues BY Kinds, SessionFields DEF Places
  <2> QED BY <2>1, PutIsQuiet
<1>3. d \in Previews \X DecisionRecords
  <2>1. s.decisions[p] \in DecisionRecords BY SessionFields
  <2> QED BY <2>1 DEF DecisionRecords
<1> HIDE DEF q, d
<1>4. e \in Events
  <2> DEFINE e1 == [Event EXCEPT !.decides = d]
  <2>1. e1 \in Events BY <1>3, EventTyped, EventWith
  <2>2. [e1 EXCEPT !.queue = q] \in Events BY <1>2, <2>1, EventWith
  <2> QED BY <1>1, <2>2
<1>5. /\ e.list = None /\ e.closes = None /\ e.opens = <<>> /\ e.research = None /\ e.queue = q
      /\ e.handoff = None /\ Fits(e, s) /\ e.decides = d /\ e.version = None
  BY <1>1 DEF Event, Fits
<1> QED BY <1>1, <1>2, <1>4, <1>5, QuietSound, NoneApart DEF Handoffs, d

LEMMA VersionSound ==
    ASSUME NEW s \in Sessions, NEW p \in Previews, NEW e \in CreateSpecVersion(s, p)
    PROVE  /\ Sound(s, e, {}) /\ e.decides = None
           /\ e.version = <<p, s.decisions[p].material>> /\ s.decisions[p].status = "approved"
<1> DEFINE v == <<p, s.decisions[p].material>>
<1>1. e = [Event EXCEPT !.version = v] /\ s.decisions[p].status = "approved" BY DEF CreateSpecVersion
<1>2. v \in Previews \X (Materials \cup {None})
  <2>1. s.decisions[p] \in DecisionRecords BY SessionFields
  <2> QED BY <2>1 DEF DecisionRecords
<1> HIDE DEF v
<1>3. e \in Events BY <1>1, <1>2, EventTyped, EventWith
<1>4. /\ e.list = None /\ e.closes = None /\ e.opens = <<>> /\ e.research = None /\ e.queue = None
      /\ e.handoff = None /\ Fits(e, s) /\ e.decides = None /\ e.version = v
  BY <1>1 DEF Event, Fits
<1> QED BY <1>1, <1>3, <1>4, QuietSound, NoneApart DEF Handoffs, v

LEMMA ArtifactSound ==
    ASSUME NEW s \in Sessions, NEW t \in Turns,
           NEW made \in [status : {"preview_ready", "manual_handoff", "blocked"}, by : Nat \cup {None}],
           NEW e, e = WithArtifact(s, t, made)
    PROVE  Sound(s, e, {}) /\ Plain(e) /\ e.mode = None /\ e.intensity = None
<1> DEFINE q == Put(s.queue, t, "review")
           a == [s.artifacts EXCEPT ![t] = made]
<1>1. e = [Event EXCEPT !.artifacts = a, !.queue = q] BY DEF WithArtifact
<1>2. /\ q \in Queues /\ \A i \in Issues : q[i] = s.queue[i]
      /\ \A u \in Tasks : q[u].shows \in {"none", s.queue[u].shows}
  <2>1. "review" \in Places /\ t \notin Issues /\ s.queue \in Queues BY Kinds, SessionFields DEF Places
  <2> QED BY <2>1, PutIsQuiet
<1>3. a \in Artifacts BY SessionFields DEF Artifacts
<1> HIDE DEF q, a
<1>4. e \in Events
  <2> DEFINE e1 == [Event EXCEPT !.artifacts = a]
  <2>1. e1 \in Events BY <1>3, EventTyped, EventWith
  <2>2. [e1 EXCEPT !.queue = q] \in Events BY <1>2, <2>1, EventWith
  <2> QED BY <1>1, <2>2
<1>5. /\ e.list = None /\ e.closes = None /\ e.opens = <<>> /\ e.research = None /\ e.queue = q
      /\ e.handoff = None /\ Fits(e, s) /\ Plain(e) /\ e.mode = None /\ e.intensity = None
  BY <1>1 DEF Event, Fits, Plain
<1> QED BY <1>2, <1>4, <1>5, QuietSound, NoneApart DEF Handoffs

LEMMA RuntimeSound ==
    ASSUME NEW s \in Sessions, NEW t \in Turns, NEW k \in Nat \cup {None},
           NEW status \in {"preview_ready", "manual_handoff", "blocked"},
           NEW e \in CreateRuntimePreview(s, t, status, k)
    PROVE  Sound(s, e, {}) /\ Plain(e) /\ e.mode = None /\ e.intensity = None
<1> DEFINE made == [status |-> status, by |-> k]
<1>1. e = WithArtifact(s, t, made) BY DEF CreateRuntimePreview
<1>2. made \in [status : {"preview_ready", "manual_handoff", "blocked"}, by : Nat \cup {None}] OBVIOUS
<1> HIDE DEF made
<1> QED BY <1>1, <1>2, ArtifactSound

LEMMA ConvertSound ==
    ASSUME NEW s \in Sessions, NEW t \in Turns, NEW block \in BOOLEAN,
           NEW e \in ConvertRuntimeArtifact(s, t, block)
    PROVE  Sound(s, e, {}) /\ Plain(e)
<1> DEFINE made == [s.artifacts[t] EXCEPT !.status = "blocked"]
<1>1. made \in [status : {"preview_ready", "manual_handoff", "blocked"}, by : Nat \cup {None}]
  BY SessionFields DEF Artifacts
<1>2. e = WithArtifact(s, t, made) \/ e = Event BY DEF ConvertRuntimeArtifact
<1> HIDE DEF made
<1> QED BY <1>1, <1>2, ArtifactSound, EventSound

-----------------------------------------------------------------------------
(* Reducers of research *)

LEMMA WithTaskTyped ==
    ASSUME NEW r \in Research, NEW t \in Tasks
    PROVE  /\ WithTask(r, t) \in Research /\ WithTask(r, t).tasks = r.tasks \cup {t}
           /\ WithTask(r, t).evidence = r.evidence
           /\ WithTask(r, t).outcome = [r.outcome EXCEPT ![t] = "none"]
<1> DEFINE w == WithTask(r, t)
<1>1. /\ w.tasks = r.tasks \cup {t} /\ w.evidence = r.evidence /\ w.results = r.results
      /\ w.detailOf = r.detailOf /\ w.outcome = [r.outcome EXCEPT ![t] = "none"]
      /\ w = [tasks |-> w.tasks, detailOf |-> w.detailOf, results |-> w.results,
              evidence |-> w.evidence, outcome |-> w.outcome]
  <2>1. r = [tasks |-> r.tasks, detailOf |-> r.detailOf, results |-> r.results,
             evidence |-> r.evidence, outcome |-> r.outcome]
    BY ResearchFields
  <2>2. w = [[r EXCEPT !.tasks = r.tasks \cup {t}] EXCEPT !.outcome = [r.outcome EXCEPT ![t] = "none"]]
    BY <2>1 DEF WithTask
  <2> HIDE DEF w
  <2>3. w \in [tasks : {r.tasks \cup {t}}, detailOf : {r.detailOf}, results : {r.results},
               evidence : {r.evidence}, outcome : {[r.outcome EXCEPT ![t] = "none"]}]
    BY <2>1, <2>2
  <2> QED BY <2>3
<1>2. w.tasks \subseteq Tasks /\ w.outcome \in [Tasks -> Outcomes]
  BY <1>1, ResearchFields DEF Outcomes
<1> HIDE DEF w
<1>3. w \in Research BY <1>1, <1>2, ResearchFields DEF Research
<1> QED BY <1>1, <1>3 DEF w

LEMMA PlanSound ==
    ASSUME NEW s \in Sessions, NEW t \in Tasks \ InitialTasks, NEW e \in PlanResearch(s, t)
    PROVE  Sound(s, e, {t}) /\ Plain(e)
<1> DEFINE r == WithTask(s.research, t)
           new == Apply(s, e)
<1>1. e = [Event EXCEPT !.research = r] BY DEF PlanResearch
<1>2. /\ r \in Research /\ r.tasks = s.research.tasks \cup {t}
      /\ r.outcome = [s.research.outcome EXCEPT ![t] = "none"]
  BY SessionFields, WithTaskTyped
<1> HIDE DEF r
<1>3. e \in Events BY <1>1, <1>2, EventTyped, EventWith
<1>4. /\ e.list = None /\ e.closes = None /\ e.opens = <<>> /\ e.research = r /\ e.queue = None
      /\ e.handoff = None /\ Fits(e, s) /\ Plain(e)
  BY <1>1 DEF Event, Fits, Plain
<1>5. new \in Sessions BY <1>3, <1>4, ApplyTyped
<1>6. ASSUME Consistent(s), t \notin s.research.tasks PROVE Follows(s, new)
  <2>1. new.research = r /\ new.queue = s.queue /\ new.handoff = s.handoff
    BY <1>2, <1>4, NoneApart DEF Apply, Either
  <2>2. new.issues = s.issues
    <3>1. new.issues = Appended(s.issues, <<>>) BY <1>4 DEF Apply
    <3>2. s.issues \in [Issues -> IssueRecords] BY SessionFields
    <3> QED BY <3>1, <3>2, NothingOpens DEF Appended
  <2>3. s.research.outcome[t] = "none" BY <1>6 DEF Consistent
  <2>4. r.outcome = s.research.outcome
    <3>1. s.research.outcome \in [Tasks -> Outcomes] BY SessionFields, ResearchFields
    <3> QED BY <1>2, <2>3, <3>1
  <2> HIDE DEF new
  <2> QED BY <1>2, <1>5, <1>6, <2>1, <2>2, <2>4, QuietFollows
<1> QED BY <1>2, <1>3, <1>4, <1>6 DEF Sound

LEMMA ResolveCardSound ==
    ASSUME NEW s \in Sessions, NEW t \in Tasks, NEW outcome \in Outcomes \ {"none"},
           NEW e \in ResolveResearchQueueCard(s, t, outcome)
    PROVE  Sound(s, e, {}) /\ Plain(e)
<1> DEFINE r == [s.research EXCEPT !.outcome[t] = outcome]
           q == CASE outcome = "settled" -> Without(s.queue, t)
                  [] outcome = "deferred" -> [s.queue EXCEPT ![t] = [at |-> "deferred", shows |-> outcome]]
                  [] outcome = "insufficient" -> [s.queue EXCEPT ![t] = [at |-> "review", shows |-> outcome]]
           new == Apply(s, e)
<1>1. e = [Event EXCEPT !.research = r, !.queue = q] /\ t \in s.research.tasks
  BY DEF ResolveResearchQueueCard
<1>2. /\ r \in Research /\ r.tasks = s.research.tasks
      /\ r.outcome = [s.research.outcome EXCEPT ![t] = outcome]
  BY SessionFields, ResearchFields DEF Research
<1>3. /\ q \in Queues /\ \A x \in Items : x # t => q[x] = s.queue[x]
  <2>1. s.queue \in Queues BY SessionFields
  <2>2. CASE outcome = "settled" BY <2>1, <2>2 DEF Without, Queues, Nowhere, Places, Outcomes
  <2>3. CASE outcome = "deferred" BY <2>1, <2>3 DEF Queues, Places, Outcomes
  <2>4. CASE outcome = "insufficient" BY <2>1, <2>4 DEF Queues, Places, Outcomes
  <2> QED BY <2>2, <2>3, <2>4 DEF Outcomes
<1> HIDE DEF r, q
<1>4. e \in Events
  <2> DEFINE e1 == [Event EXCEPT !.research = r]
  <2>1. e1 \in Events BY <1>2, EventTyped, EventWith
  <2>2. [e1 EXCEPT !.queue = q] \in Events BY <1>3, <2>1, EventWith
  <2> QED BY <1>1, <2>2
<1>5. /\ e.list = None /\ e.closes = None /\ e.opens = <<>> /\ e.research = r /\ e.queue = q
      /\ e.handoff = None /\ Fits(e, s) /\ Plain(e)
  BY <1>1 DEF Event, Fits, Plain
<1>6. new \in Sessions BY <1>4, <1>5, ApplyTyped
<1>7. ASSUME Consistent(s) PROVE Follows(s, new)
  <2>1. new.research = r /\ new.queue = q /\ new.handoff = s.handoff
    BY <1>2, <1>3, <1>5, NoneApart DEF Apply, Either
  <2>2. new.issues = s.issues
    <3>1. new.issues = Appended(s.issues, <<>>) BY <1>5 DEF Apply
    <3>2. s.issues \in [Issues -> IssueRecords] BY SessionFields
    <3> QED BY <3>1, <3>2, NothingOpens DEF Appended
  <2>3. \A i \in Issues : q[i] = s.queue[i] BY <1>3, Kinds
  <2>4. ASSUME NEW u \in Tasks
        PROVE  /\ r.outcome[u] = s.research.outcome[u] \/ (u \in r.tasks /\ r.outcome[u] # "none")
               /\ q[u].shows \in {"none", s.queue[u].shows} \/ r.outcome[u] # "none"
    <3>1. s.research.outcome \in [Tasks -> Outcomes] BY SessionFields, ResearchFields
    <3>2. u # t => q[u] = s.queue[u] BY <1>3, Kinds
    <3> QED BY <1>1, <1>2, <3>1, <3>2
  <2> HIDE DEF new
  <2>5. new.research.tasks = s.research.tasks BY <1>2, <2>1
  <2>6. \A i \in Issues : new.queue[i] = s.queue[i] BY <2>1, <2>3
  <2>7. \A u \in Tasks :
           /\ \/ new.research.outcome[u] = s.research.outcome[u]
              \/ u \in new.research.tasks /\ new.research.outcome[u] # "none"
           /\ new.queue[u].shows \in {"none", s.queue[u].shows} \/ new.research.outcome[u] # "none"
    BY <2>1, <2>4
  <2> QED BY <1>6, <1>7, <2>1, <2>2, <2>5, <2>6, <2>7, QuietFollows
<1> QED BY <1>2, <1>4, <1>5, <1>7 DEF Sound

-----------------------------------------------------------------------------
(* Reducers of the queue *)

LEMMA SameIssues ==
    ASSUME NEW s \in Sessions, NEW e, e.list = None, e.closes = None, e.opens = <<>>
    PROVE  Apply(s, e).issues = s.issues
<1>1. Apply(s, e).issues = Appended(s.issues, <<>>) BY DEF Apply
<1>2. s.issues \in [Issues -> IssueRecords] BY SessionFields
<1> QED BY <1>1, <1>2, NothingOpens DEF Appended

LEMMA ActivateSound ==
    ASSUME NEW s \in Sessions, NEW batch \in SUBSET Issues, NEW e \in ActivateQuestionBatch(s, batch)
    PROVE  Sound(s, e, {}) /\ Plain(e)
<1> DEFINE place(x) == IF x \in batch THEN "active"
                       ELSE IF x \in Askable(s.issues) /\ s.issues[x].critic \in UpTo(s.intensity)
                       THEN "next" ELSE "none"
           q == [x \in Items |-> [Nowhere EXCEPT !.at = place(x)]]
           new == Apply(s, e)
<1>1. /\ e = [Event EXCEPT !.queue = q] /\ batch \subseteq Askable(s.issues)
      /\ \A x \in Items : s.queue[x].at # "active"
  BY DEF ActivateQuestionBatch
<1>2. \A x \in Items : place(x) \in {"active", "next", "none"} OBVIOUS
<1>3. \A i \in Items : place(i) \in {"active", "next"} => i \in Askable(s.issues) BY <1>1
<1> HIDE DEF place
<1>4. /\ q \in Queues /\ \A x \in Items : q[x].at = place(x) /\ q[x].shows = "none"
  BY <1>2 DEF Queues, Places, Outcomes, Nowhere
<1> HIDE DEF q
<1>5. e \in Events BY <1>1, <1>4, EventTyped, EventWith
<1>6. /\ e.list = None /\ e.closes = None /\ e.opens = <<>> /\ e.research = None /\ e.queue = q
      /\ e.handoff = None /\ Fits(e, s) /\ Plain(e)
  BY <1>1 DEF Event, Fits, Plain
<1>7. new \in Sessions BY <1>5, <1>6, ApplyTyped
<1>8. ASSUME Consistent(s) PROVE Follows(s, new)
  <2>1. /\ new.research = s.research /\ new.queue = q /\ new.handoff = s.handoff
        /\ new.issues = s.issues
    BY <1>4, <1>6, NoneApart, SameIssues DEF Apply, Either
  <2> HIDE DEF new
  <2>2. \A i \in Issues : q[i].at \in {"active", "next"} => i \in Askable(s.issues) BY <1>3, <1>4, Kinds
  <2>3. Consistent(new)
    <3>1. ASSUME NEW t \in Tasks
          PROVE  /\ new.research.outcome[t] # "none" => t \in new.research.tasks
                 /\ t \notin InitialTasks /\ new.queue[t].shows # "none" => new.research.outcome[t] # "none"
      BY <1>4, <1>8, <2>1, Kinds DEF Consistent
    <3>2. ASSUME NEW i \in ResearchOnly
          PROVE  new.queue[i].at = "none" /\ Unclosed(new, i)
      BY <1>2, <1>4, <1>8, <2>1, <2>2, Kinds DEF Consistent, Askable, Unclosed
    <3>3. ASSUME NEW i \in Issues, new.queue[i].at \in {"active", "next"} PROVE new.issues[i].status = "open"
      BY <2>1, <2>2, <3>3 DEF Askable
    <3>4. Bounded(new) BY <1>8, <2>1, KeptBounded DEF Consistent
    <3> QED BY <3>1, <3>2, <3>3, <3>4 DEF Consistent
  <2>4. ~Closes(s, new) BY <2>1 DEF Closes
  <2>5. ~Offers(s) BY <1>1, Kinds DEF Offers, Askable
  <2> QED BY <2>1, <2>3, <2>4, <2>5 DEF Follows
<1> QED BY <1>5, <1>6, <1>8 DEF Sound

\* A step that ends with a refill of the queue.
LEMMA RefillFollows ==
    ASSUME NEW s \in Sessions, NEW new \in Sessions, NEW base \in Queues,
           NEW q \in Refilled(base, new.issues), \A i \in Issues : new.queue[i] = q[i],
           new.handoff = s.handoff, Bounded(new),
           \A t \in Tasks :
              /\ new.research.outcome[t] # "none" => t \in new.research.tasks
              /\ t \notin InitialTasks /\ new.queue[t].shows # "none" => new.research.outcome[t] # "none"
              /\ s.research.outcome[t] # "none" /\ new.research.outcome[t] = "none" => Reopens(s, new, t),
           \A i \in ResearchOnly : base[i].at = "none" /\ Unclosed(new, i),
           \A i \in Issues : base[i].at \in {"active", "next"} => new.issues[i].status = "open"
    PROVE  Follows(s, new)
<1>1. /\ OffersIn(q, new.issues) \/ ~WaitsIn(q, new.issues)
      /\ \A x \in Items : q[x] = base[x] \/ (/\ x \in Askable(new.issues)
                                            /\ q[x] = [at |-> "active", shows |-> "none"])
  BY RefilledQueue
<1>2. ASSUME NEW i \in ResearchOnly PROVE new.queue[i].at = "none"
  <2>1. i \in Issues /\ i \in Items /\ i \notin Askable(new.issues) BY Kinds DEF Askable
  <2> QED BY <1>1, <2>1
<1>3. ASSUME NEW i \in Issues, new.queue[i].at \in {"active", "next"} PROVE new.issues[i].status = "open"
  BY <1>1, <1>3, Kinds DEF Askable
<1>4. Consistent(new) BY <1>2, <1>3 DEF Consistent
<1>5. Offers(new) \/ ~Waiting(new)
  BY <1>1 DEF OffersIn, WaitsIn, Offers, Waiting, Askable
<1> QED BY <1>4, <1>5 DEF Follows

LEMMA ClosedIssue ==
    ASSUME NEW issues \in [Issues -> IssueRecords], NEW x,
           NEW st \in {"open", "answered", "deferred", "resolved"}, NEW i \in Issues
    PROVE  /\ i # x => Closed(issues, x, st)[i] = issues[i]
           /\ Closed(issues, x, st)[i].critic = issues[i].critic
           /\ Closed(issues, x, st)[i].origin = issues[i].origin
           /\ i \in Existing(Closed(issues, x, st)) => i \in Existing(issues)
           /\ x \notin Issues => Closed(issues, x, st) = issues
<1>1. issues[i] \in IssueRecords OBVIOUS
<1> QED BY <1>1 DEF Closed, Existing, IssueRecords

\* A question, or a card, leaves what is asked, is closed and gives way to another.
LEMMA ClosingSound ==
    ASSUME NEW s \in Sessions, NEW x \in Items, s.queue[x].at # "none",
           NEW st \in {"deferred", "resolved"}, NEW base \in Queues,
           base[x].at \in {"none", "deferred"}, base[x].shows \in {"none", s.queue[x].shows},
           \A y \in Items : y # x => base[y] = s.queue[y],
           NEW q \in Refilled(base, IF x \in Issues THEN Closed(s.issues, x, st) ELSE s.issues),
           NEW e, e = [Event EXCEPT !.closes = x, !.as = st, !.queue = q]
    PROVE  Sound(s, e, {}) /\ Plain(e)
<1> DEFINE new == Apply(s, e)
           closed == Closed(s.issues, x, st)
<1>1. q \in Queues BY RefilledQueue
<1>2. e \in Events
  <2> DEFINE e1 == [Event EXCEPT !.closes = x]
             e2 == [e1 EXCEPT !.as = st]
  <2>1. e1 \in Events BY EventTyped, EventWith
  <2>2. e2 \in Events BY <2>1, EventWith
  <2>3. [e2 EXCEPT !.queue = q] \in Events BY <1>1, <2>2, EventWith
  <2> QED BY <2>3
<1>3. /\ e.list = None /\ e.closes = x /\ e.as = st /\ e.opens = <<>> /\ e.research = None /\ e.queue = q
      /\ e.handoff = None /\ Fits(e, s) /\ Plain(e)
  BY DEF Event, Fits, Plain
<1>4. new \in Sessions BY <1>2, <1>3, ApplyTyped
<1>5. s.issues \in [Issues -> IssueRecords] BY SessionFields
<1>6. closed = IF x \in Issues THEN Closed(s.issues, x, st) ELSE s.issues
  BY <1>5 DEF Closed, Existing
<1>7. \A i \in Issues : (i # x => closed[i] = s.issues[i]) /\ closed[i].critic = s.issues[i].critic
  BY <1>5, ClosedIssue
<1>8. new.issues = closed
  <2>1. new.issues = Appended(closed, <<>>) BY <1>3, NoneApart DEF Apply
  <2>2. DOMAIN closed = Issues /\ closed = [i \in Issues |-> closed[i]] BY <1>5 DEF Closed
  <2> HIDE DEF closed, new
  <2> QED BY <2>1, <2>2, NothingOpens DEF Appended
<1> HIDE DEF closed
<1>9. ASSUME Consistent(s) PROVE Follows(s, new)
  <2>1. new.research = s.research /\ new.queue = q /\ new.handoff = s.handoff
    BY <1>1, <1>3, NoneApart DEF Apply, Either
  <2> HIDE DEF new
  <2>2. ASSUME NEW t \in Tasks
        PROVE  /\ new.research.outcome[t] # "none" => t \in new.research.tasks
               /\ t \notin InitialTasks /\ new.queue[t].shows # "none" => new.research.outcome[t] # "none"
    <3>1. \/ q[t] = base[t]
          \/ q[t] = [at |-> "active", shows |-> "none"]
      BY <1>6, RefilledQueue, Kinds
    <3>2. base[t].shows \in {"none", s.queue[t].shows} BY Kinds
    <3>3. q[t].shows \in {"none", s.queue[t].shows} BY <3>1, <3>2
    <3> QED BY <1>9, <2>1, <3>3 DEF Consistent
  <2>3. ASSUME NEW i \in ResearchOnly PROVE base[i].at = "none" /\ Unclosed(new, i)
    <3>1. s.queue[i].at = "none" /\ i \in Issues /\ i # x /\ i \in Items BY <1>9, Kinds DEF Consistent
    <3> QED BY <1>7, <1>8, <1>9, <2>1, <3>1 DEF Consistent, Unclosed
  <2>4. ASSUME NEW i \in Issues, base[i].at \in {"active", "next"} PROVE new.issues[i].status = "open"
    <3>1. i # x /\ s.queue[i].at \in {"active", "next"} BY <2>4, Kinds
    <3> QED BY <1>7, <1>8, <1>9, <3>1 DEF Consistent
  <2>5. q \in Refilled(base, new.issues) BY <1>6, <1>8
  <2>6. Bounded(new)
    <3>1. \A i \in Existing(new.issues) :
             /\ i \in Existing(s.issues) /\ new.issues[i].origin = s.issues[i].origin
             /\ new.issues[i].critic = s.issues[i].critic
      BY <1>5, <1>8, ClosedIssue DEF Existing, closed
    <3> QED BY <1>9, <3>1, KeptBounded DEF Consistent
  <2> QED BY <1>4, <2>1, <2>2, <2>3, <2>4, <2>5, <2>6, RefillFollows
<1> QED BY <1>2, <1>3, <1>9 DEF Sound

LEMMA DeferSound ==
    ASSUME NEW s \in Sessions, NEW x \in Items, NEW e \in DeferQueueItem(s, x)
    PROVE  Sound(s, e, {}) /\ Plain(e)
<1> DEFINE base == [s.queue EXCEPT ![x].at = "deferred"]
<1>1. s.queue[x].at # "none"
      /\ \E q \in Refilled(base, IF x \in Issues THEN Closed(s.issues, x, "deferred") ELSE s.issues) :
            e = [Event EXCEPT !.closes = x, !.as = "deferred", !.queue = q]
  BY DEF DeferQueueItem
<1>2. /\ base \in Queues /\ base[x].at = "deferred" /\ base[x].shows = s.queue[x].shows
      /\ \A y \in Items : y # x => base[y] = s.queue[y]
  BY SessionFields DEF Queues, Places
<1> HIDE DEF base
<1>3. PICK q \in Refilled(base, IF x \in Issues THEN Closed(s.issues, x, "deferred") ELSE s.issues) :
            e = [Event EXCEPT !.closes = x, !.as = "deferred", !.queue = q]
  BY <1>1
<1> QED BY <1>1, <1>2, <1>3, ClosingSound

LEMMA DismissSound ==
    ASSUME NEW s \in Sessions, NEW x \in Items, NEW e \in DismissQueueItem(s, x)
    PROVE  Sound(s, e, {}) /\ Plain(e)
<1> DEFINE base == Without(s.queue, x)
<1>1. s.queue[x].at # "none"
      /\ \E q \in Refilled(base, IF x \in Issues THEN Closed(s.issues, x, "resolved") ELSE s.issues) :
            e = [Event EXCEPT !.closes = x, !.as = "resolved", !.queue = q]
  BY DEF DismissQueueItem, Listed
<1>2. /\ base \in Queues /\ base[x].at = "none" /\ base[x].shows = "none"
      /\ \A y \in Items : y # x => base[y] = s.queue[y]
  BY SessionFields DEF Queues, Places, Without, Nowhere, Outcomes
<1> HIDE DEF base
<1>3. PICK q \in Refilled(base, IF x \in Issues THEN Closed(s.issues, x, "resolved") ELSE s.issues) :
            e = [Event EXCEPT !.closes = x, !.as = "resolved", !.queue = q]
  BY <1>1
<1> QED BY <1>1, <1>2, <1>3, ClosingSound

-----------------------------------------------------------------------------
(* Reducers of the list of questions *)

LEMMA NewIssue ==
    ASSUME NEW critic \in Intensities
    PROVE  /\ Issue(0, None, critic) \in IssueRecords /\ Issue(0, None, critic).status = "open"
           /\ Issue(0, None, critic).critic = critic
           /\ Issue(0, None, critic).count <= RepeatLimits[Issue(0, None, critic).critic > 0]
<1>1. Issue(0, None, critic) = [status |-> "open", count |-> 0, origin |-> None, critic |-> critic]
  BY DEF Issue
<1>2. RepeatLimits[critic > 0] \in Nat
  <2>1. RepeatLimits[TRUE] \in Nat /\ RepeatLimits[FALSE] \in Nat BY DecisionQueueAssumption
  <2>2. CASE critic > 0 BY <2>1, <2>2
  <2>3. CASE ~(critic > 0)
    <3>1. (critic > 0) = FALSE BY <2>3
    <3> QED BY <2>1, <3>1, Zenon
  <2> QED BY <2>2, <2>3
<1>3. [status |-> "open", count |-> 0, origin |-> None, critic |-> critic] \in IssueRecords
  BY DEF IssueRecords, Origins
<1> QED BY <1>1, <1>2, <1>3

LEMMA ReplacedIssues ==
    ASSUME NEW issues \in [Issues -> IssueRecords], NEW list, NEW i \in Issues
    PROVE  /\ i \in DOMAIN list => Replaced(issues, list)[i] = list[i]
           /\ i \notin DOMAIN list => /\ Replaced(issues, list)[i].status \in {issues[i].status, "gone"}
                                      /\ Replaced(issues, list)[i].critic = issues[i].critic
                                      /\ issues[i].status = "open" => Replaced(issues, list)[i].status = "gone"
<1>1. issues[i] \in IssueRecords OBVIOUS
<1> QED BY <1>1 DEF Replaced, Existing, IssueRecords

\* The issues after an event that replaces the list.
LEMMA ListedIssues ==
    ASSUME NEW s \in Sessions, NEW e, NEW list, list # None, e.list = list, e.opens = <<>>
    PROVE  Apply(s, e).issues = Replaced(s.issues, list)
<1>1. Apply(s, e).issues = Appended(Replaced(s.issues, list), <<>>) BY DEF Apply
<1>2. /\ DOMAIN Replaced(s.issues, list) = Issues
      /\ Replaced(s.issues, list) = [i \in Issues |-> Replaced(s.issues, list)[i]]
  BY DEF Replaced
<1> QED BY <1>1, <1>2, NothingOpens DEF Appended

\* A list that takes over the follow-ups it has from the session.
LEMMA ListBounded ==
    ASSUME NEW s \in Sessions, NEW new, NEW list, Bounded(s), new.issues = Replaced(s.issues, list),
           \A i \in FollowUps \cap DOMAIN list : i \in Existing(s.issues) /\ list[i] = s.issues[i]
    PROVE  Bounded(new)
<1>1. \A i \in FollowUps : i \in Issues BY DEF Issues
<1>2. s.issues \in [Issues -> IssueRecords] BY SessionFields
<1>3. ASSUME NEW i \in FollowUps \cap Existing(new.issues)
      PROVE  i \in Existing(s.issues) /\ new.issues[i] = s.issues[i]
  <2>1. CASE i \in DOMAIN list BY <1>1, <1>2, <2>1, ReplacedIssues
  <2>2. CASE i \notin DOMAIN list
    <3>1. s.issues[i] \in IssueRecords BY <1>1, <1>2
    <3>2. i \in Issues /\ new.issues[i].status \notin {"absent", "gone"} BY <1>3 DEF Existing
    <3>3. i \notin Existing(s.issues)
             \/ new.issues[i] = [s.issues[i] EXCEPT !.status = "gone"]
      BY <2>2, <3>2 DEF Replaced
    <3>4. i \in Existing(s.issues) => new.issues[i].status = "gone"
      BY <3>1, <3>3 DEF IssueRecords
    <3>5. i \notin Existing(s.issues) => new.issues[i] = s.issues[i] BY <2>2, <3>2 DEF Replaced
    <3>6. i \notin Existing(s.issues) => s.issues[i].status \in {"absent", "gone"} BY <3>2 DEF Existing
    <3> QED BY <3>2, <3>4, <3>5, <3>6
  <2> QED BY <2>1, <2>2
<1> QED BY <1>3, KeptBounded

LEMMA AnalyzeSound ==
    ASSUME NEW s \in Sessions, NEW chosen \in SUBSET Seeds, NEW e \in AnalyzeAmbiguity(s, chosen)
    PROVE  Sound(s, e, {}) /\ Plain(e)
<1> DEFINE initial == {<<"initial", i>> : i \in chosen \cap ResearchOnly}
           critic(i) == IF s.mode = "business" THEN Least[i] ELSE 0
           list == [i \in chosen |-> Issue(0, None, critic(i))]
           r == [s.research EXCEPT !.tasks = @ \cup initial,
                                   !.outcome = [t \in Tasks |-> IF t \in initial THEN "none" ELSE @[t]]]
           field == IF initial = {} THEN None ELSE r
           new == Apply(s, e)
<1>1. /\ e = [Event EXCEPT !.list = list, !.research = field]
      /\ \A i \in Issues : s.issues[i].status # "open"
  BY DEF AnalyzeAmbiguity
<1>2. initial \subseteq InitialTasks /\ initial \subseteq Tasks BY DEF InitialTasks, Tasks
<1>3. /\ r \in Research /\ r.tasks = s.research.tasks \cup initial
      /\ r.outcome = [t \in Tasks |-> IF t \in initial THEN "none" ELSE s.research.outcome[t]]
  <2> DEFINE out == [t \in Tasks |-> IF t \in initial THEN "none" ELSE s.research.outcome[t]]
  <2>1. s.research \in Research BY SessionFields
  <2>2. out \in [Tasks -> Outcomes] BY <2>1, ResearchFields DEF Outcomes
  <2>3. r = [[s.research EXCEPT !.tasks = s.research.tasks \cup initial] EXCEPT !.outcome = out]
    BY <2>1, ResearchFields
  <2> HIDE DEF initial, out, r
  <2> QED BY <1>2, <2>1, <2>2, <2>3 DEF Research, out
<1>4. \A i \in chosen : critic(i) \in Intensities
  BY DecisionQueueAssumption DEF Intensities
<1> HIDE DEF critic
<1>5. list \in IssueLists /\ WithinLimits(list) /\ DOMAIN list = chosen
      /\ \A i \in chosen : list[i].status = "open" /\ list[i].critic = critic(i)
  <2>1. \A i \in chosen : /\ list[i] \in IssueRecords /\ list[i].status = "open" /\ list[i].critic = critic(i)
                          /\ list[i].count <= RepeatLimits[list[i].critic > 0]
    BY <1>4, NewIssue
  <2>2. chosen \in SUBSET Issues BY DEF Issues
  <2>3. DOMAIN list = chosen /\ list = [i \in chosen |-> list[i]] OBVIOUS
  <2> HIDE DEF list
  <2>4. list \in [chosen -> IssueRecords] BY <2>1, <2>3
  <2> QED BY <2>1, <2>2, <2>3, <2>4, ListTyped DEF WithinLimits
<1>6. list # None BY <1>5, ListMembers
<1> HIDE DEF list, r
<1>7. e \in Events
  <2> DEFINE e1 == [Event EXCEPT !.list = list]
  <2>1. e1 \in Events BY <1>5, EventTyped, EventWith
  <2>2. field \in Research \cup {None} BY <1>3
  <2> HIDE DEF field
  <2>3. [e1 EXCEPT !.research = field] \in Events BY <2>1, <2>2, EventWith
  <2> QED BY <1>1, <2>3
<1>8. /\ e.list = list /\ e.closes = None /\ e.opens = <<>> /\ e.research = field /\ e.queue = None
      /\ e.handoff = None /\ Fits(e, s) /\ Plain(e)
  BY <1>1 DEF Event, Fits, Plain
<1>9. new \in Sessions BY <1>7, <1>8, ApplyTyped
<1>10. ASSUME Consistent(s) PROVE Follows(s, new)
  <2>1. new.queue = s.queue /\ new.handoff = s.handoff /\ new.issues = Replaced(s.issues, list)
    BY <1>6, <1>8, ListedIssues DEF Apply, Either
  <2>2. new.research.tasks = s.research.tasks \cup initial
        /\ \A t \in Tasks : new.research.outcome[t] = IF t \in initial THEN "none" ELSE s.research.outcome[t]
    <3>1. new.research = IF initial = {} THEN s.research ELSE r
      BY <1>3, <1>8, NoneApart DEF Apply, Either
    <3> QED BY <1>3, <3>1
  <2>3. ASSUME NEW i \in Issues
        PROVE  IF i \in chosen THEN new.issues[i].status = "open"
               ELSE new.issues[i].status \in {s.issues[i].status, "gone"}
    <3>1. s.issues \in [Issues -> IssueRecords] BY SessionFields
    <3> QED BY <1>5, <2>1, <3>1, ReplacedIssues
  <2>4. ASSUME NEW i \in Issues PROVE s.queue[i].at \notin {"active", "next"}
    BY <1>1, <1>10 DEF Consistent
  <2>5. ASSUME NEW t \in Tasks, s.research.outcome[t] # "none", new.research.outcome[t] = "none"
        PROVE  t \in InitialTasks /\ Reopens(s, new, t)
    <3>1. t \in initial /\ t \in s.research.tasks BY <1>10, <2>2, <2>5 DEF Consistent
    <3>2. PICK i \in chosen \cap ResearchOnly : t = <<"initial", i>> BY <3>1
    <3>3. i \in Issues /\ s.issues[i].status = "gone" BY <1>1, <1>10, <3>1, <3>2, Kinds DEF Consistent, Unclosed
    <3>4. new.issues[i].status = "open" BY <2>3, <3>2, <3>3
    <3> QED BY <1>2, <3>1, <3>2, <3>3, <3>4 DEF Reopens
  <2>6. Consistent(new)
    <3>1. ASSUME NEW t \in Tasks
          PROVE  /\ new.research.outcome[t] # "none" => t \in new.research.tasks
                 /\ t \notin InitialTasks /\ new.queue[t].shows # "none" => new.research.outcome[t] # "none"
      BY <1>2, <1>10, <2>1, <2>2 DEF Consistent
    <3>2. ASSUME NEW i \in ResearchOnly PROVE new.queue[i].at = "none" /\ Unclosed(new, i)
      <4>1. i \in Issues /\ s.queue[i].at = "none" /\ Unclosed(s, i) BY <1>10, Kinds DEF Consistent
      <4>2. <<"initial", i>> \in initial => i \in chosen OBVIOUS
      <4> QED BY <2>1, <2>2, <2>3, <4>1, <4>2 DEF Unclosed
    <3>3. Bounded(new)
      <4>1. FollowUps \cap DOMAIN list = {} BY <1>5, DecisionQueueAssumption
      <4> QED BY <1>10, <2>1, <4>1, ListBounded DEF Consistent
    <3>4. ASSUME NEW i \in Issues, new.queue[i].at \in {"active", "next"} PROVE new.issues[i].status = "open"
      BY <2>1, <2>4, <3>4
    <3> QED BY <3>1, <3>2, <3>3, <3>4 DEF Consistent
  <2>7. ~Closes(s, new) /\ ~Offers(s) BY <1>1 DEF Closes, Offers, Askable
  <2> QED BY <2>1, <2>5, <2>6, <2>7 DEF Follows
<1>11. e.research # None => e.research.tasks \subseteq s.research.tasks \cup InitialTasks
  BY <1>2, <1>3, <1>8
<1> QED BY <1>7, <1>8, <1>10, <1>11 DEF Sound

LEMMA IntensitySound ==
    ASSUME NEW s \in Sessions, NEW level \in Intensities, NEW e \in ChangeBusinessCriticIntensity(s, level)
    PROVE  Sound(s, e, {}) /\ Plain(e)
<1> DEFINE kept == Retained(s, level)
           added == IF Existing(s.issues) = {} THEN {} ELSE {i \in Seeds \ (kept \cup ResearchOnly) : Least[i] \in UpTo(level)}
           list == [i \in kept \cup added |-> IF i \in kept THEN s.issues[i] ELSE Issue(0, None, Least[i])]
           left(x) == x \in Issues /\ s.queue[x].at = "next" /\ s.issues[x].critic > level
           waiting(x) == /\ x \in Askable(Replaced(s.issues, list)) /\ list[x].critic \in UpTo(level)
                         /\ ~Listed(s.queue, x)
           q == [x \in Items |-> IF left(x) THEN Nowhere
                                 ELSE IF waiting(x) THEN [Nowhere EXCEPT !.at = "next"] ELSE s.queue[x]]
           new == Apply(s, e)
<1>1. e = [Event EXCEPT !.intensity = level, !.list = list, !.queue = q] /\ s.mode = "business"
  BY DEF ChangeBusinessCriticIntensity
<1>2. s.issues \in [Issues -> IssueRecords] /\ s.queue \in Queues BY SessionFields
<1>3. /\ kept \subseteq Issues /\ added \subseteq Seeds /\ kept \subseteq Existing(s.issues)
      /\ \A i \in added : i \notin kept /\ i \notin ResearchOnly /\ Least[i] \in Intensities
  BY DecisionQueueAssumption DEF Retained, Existing
<1>4. \A i \in Issues : s.issues[i].status = "open" /\ (s.queue[i].at = "active" \/ s.issues[i].critic <= level)
         => i \in kept
  BY DEF Retained, Existing
<1> HIDE DEF kept, added
<1>5. /\ DOMAIN list = kept \cup added /\ list \in IssueLists /\ WithinLimits(list)
      /\ \A i \in kept : list[i] = s.issues[i]
      /\ \A i \in added : list[i].status = "open" /\ list[i].critic = Least[i]
  <2>1. ASSUME NEW i \in kept
        PROVE  list[i] = s.issues[i] /\ list[i] \in IssueRecords /\ list[i].count <= RepeatLimits[list[i].critic > 0]
    BY <1>2, <1>3, SessionFields
  <2>2. ASSUME NEW i \in added
        PROVE  /\ list[i] \in IssueRecords /\ list[i].status = "open" /\ list[i].critic = Least[i]
               /\ list[i].count <= RepeatLimits[list[i].critic > 0]
    <3>1. list[i] = Issue(0, None, Least[i]) BY <1>3
    <3> HIDE DEF list
    <3> QED BY <1>3, <3>1, NewIssue
  <2>3. DOMAIN list = kept \cup added /\ list = [i \in kept \cup added |-> list[i]] OBVIOUS
  <2>4. kept \cup added \in SUBSET Issues BY <1>3 DEF Issues
  <2> HIDE DEF list
  <2>5. list \in [kept \cup added -> IssueRecords] BY <2>1, <2>2, <2>3
  <2> QED BY <2>1, <2>2, <2>3, <2>4, <2>5, ListTyped DEF WithinLimits
<1>6. list # None BY <1>5, ListMembers
<1>7. \A x \in Items : left(x) => x \in Issues /\ s.queue[x].at = "next" /\ s.issues[x].critic > level OBVIOUS
<1>8. \A x \in Items : waiting(x) => x \in Askable(Replaced(s.issues, list)) /\ s.queue[x].at = "none"
  BY DEF Listed
<1>9. \A x \in Issues : s.queue[x].at = "next" /\ s.issues[x].critic > level => left(x) OBVIOUS
<1> HIDE DEF list, left, waiting
<1>10. q \in Queues BY <1>2 DEF Queues, Nowhere, Places, Outcomes
<1>11. \A x \in Items : /\ left(x) => q[x] = [at |-> "none", shows |-> "none"]
                        /\ ~left(x) /\ waiting(x) => q[x] = [at |-> "next", shows |-> "none"]
                        /\ ~left(x) /\ ~waiting(x) => q[x] = s.queue[x]
  BY DEF Nowhere
<1> HIDE DEF q
<1>12. e \in Events
  <2> DEFINE e1 == [Event EXCEPT !.intensity = level]
             e2 == [e1 EXCEPT !.list = list]
  <2>1. e1 \in Events BY EventTyped, EventWith
  <2>2. e2 \in Events BY <1>5, <2>1, EventWith
  <2>3. [e2 EXCEPT !.queue = q] \in Events BY <1>10, <2>2, EventWith
  <2> QED BY <1>1, <2>3
<1>13. /\ e.list = list /\ e.opens = <<>> /\ e.research = None /\ e.queue = q
       /\ e.handoff = None /\ Fits(e, s) /\ Plain(e)
  BY <1>1 DEF Event, Fits, Plain
<1>14. new \in Sessions BY <1>12, <1>13, ApplyTyped
<1>15. ASSUME Consistent(s) PROVE Follows(s, new)
  <2>1. /\ new.queue = q /\ new.handoff = s.handoff /\ new.research = s.research
        /\ new.issues = Replaced(s.issues, list)
    BY <1>6, <1>10, <1>13, ListedIssues, NoneApart DEF Apply, Either
  <2> HIDE DEF new
  <2>2. ASSUME NEW i \in kept PROVE new.issues[i] = s.issues[i]
    BY <1>2, <1>3, <1>5, <2>1, ReplacedIssues
  <2>3. ASSUME NEW t \in Tasks
        PROVE  /\ new.research.outcome[t] # "none" => t \in new.research.tasks
               /\ t \notin InitialTasks /\ new.queue[t].shows # "none" => new.research.outcome[t] # "none"
    BY <1>11, <1>15, <2>1, Kinds DEF Consistent
  <2>4. ASSUME NEW i \in ResearchOnly PROVE new.queue[i].at = "none" /\ Unclosed(new, i)
    <3>1. i \in Issues /\ i \in Items /\ s.queue[i].at = "none" /\ Unclosed(s, i) BY <1>15, Kinds DEF Consistent
    <3>2. ~left(i) /\ ~waiting(i) BY <1>7, <1>8, <3>1 DEF Askable
    <3>3. i \notin kept => new.issues[i].status \in {s.issues[i].status, "gone"}
      BY <1>2, <1>3, <1>5, <2>1, <3>1, ReplacedIssues
    <3>4. Unclosed(new, i) BY <2>1, <2>2, <3>1, <3>3 DEF Unclosed
    <3> QED BY <1>11, <2>1, <3>1, <3>2, <3>4
  <2>5. ASSUME NEW i \in Issues, new.queue[i].at \in {"active", "next"} PROVE new.issues[i].status = "open"
    <3>1. i \in Items /\ ~left(i) BY <1>11, <2>1, <2>5, Kinds
    <3>2. CASE waiting(i) BY <1>8, <2>1, <3>1, <3>2 DEF Askable
    <3>3. CASE ~waiting(i)
      <4>1. s.queue[i].at \in {"active", "next"} BY <1>11, <2>1, <2>5, <3>1, <3>3
      <4>2. s.issues[i].status = "open" BY <1>15, <4>1 DEF Consistent
      <4>3. s.queue[i].at = "next" => ~(s.issues[i].critic > level) BY <1>9, <3>1
      <4>4. s.issues[i].critic \in 0 .. 2 BY <1>2, IssueFields
      <4>5. i \in kept BY <1>4, <4>1, <4>2, <4>3, <4>4 DEF Intensities
      <4> QED BY <2>2, <4>2, <4>5
    <3> QED BY <3>2, <3>3
  <2>6. Consistent(new)
    <3>1. \A i \in FollowUps \cap DOMAIN list : i \in kept BY <1>3, <1>5, DecisionQueueAssumption
    <3>2. Bounded(new) BY <1>3, <1>5, <1>15, <2>1, <3>1, ListBounded DEF Consistent
    <3> QED BY <2>3, <2>4, <2>5, <3>2 DEF Consistent
  <2>7. ~Closes(s, new)
    <3> SUFFICES ASSUME NEW i \in Issues, s.issues[i].status = "open"
                 PROVE  new.issues[i].status \notin {"answered", "deferred", "resolved"}
      BY DEF Closes
    <3>1. i \in added => new.issues[i].status = "open"
      BY <1>2, <1>5, <2>1, ReplacedIssues
    <3>2. i \notin kept \cup added => new.issues[i].status = "gone"
      BY <1>2, <1>5, <2>1, ReplacedIssues
    <3> QED BY <2>2, <3>1, <3>2
  <2>8. Offers(s) => Offers(new)
    <3> SUFFICES ASSUME NEW i \in Askable(s.issues), s.queue[i].at = "active" PROVE Offers(new)
      BY DEF Offers
    <3>1. i \in Items /\ i \in Issues /\ i \notin ResearchOnly /\ s.issues[i].status = "open"
      BY Kinds DEF Askable
    <3>2. ~left(i) /\ ~waiting(i) BY <1>7, <1>8, <3>1
    <3>3. new.issues[i].status = "open" BY <1>4, <2>2, <3>1
    <3> QED BY <1>11, <2>1, <3>1, <3>2, <3>3 DEF Offers, Askable
  <2> QED BY <2>1, <2>6, <2>7, <2>8 DEF Follows
<1> QED BY <1>12, <1>13, <1>15 DEF Sound

-----------------------------------------------------------------------------
(* The names of follow-up questions *)

LEMMA UsedIsFinite ==
    ASSUME NEW now \in [Issues -> IssueRecords]
    PROVE  IsFiniteSet(Used(now)) /\ Cardinality(Used(now)) \in Nat
<1> DEFINE f == [i \in FollowUps |-> now[i].origin]
           T == {f[i] : i \in FollowUps}
<1>1. f = [i \in FollowUps |-> f[i]] OBVIOUS
<1>2. Used(now) \in SUBSET T BY DEF Used
<1> HIDE DEF f
<1>3. IsFiniteSet(T) BY <1>1, FollowUpsAreFinite, ImageIsFinite
<1> HIDE DEF T
<1>4. IsFiniteSet(Used(now)) BY <1>2, <1>3, FS_Subset
<1> QED BY <1>4, FS_CardinalityType

\* A new question gets an id of its own, as long as there are some left.
LEMMA NamesAreFollowUps ==
    ASSUME NEW now \in [Issues -> IssueRecords], NEW S, NEW origins, S \subseteq origins,
           IsFiniteSet(origins), NamesLeft(now, origins), NEW rank \in [S -> Nat], NEW o \in S
    PROVE  NameOf(now, S, rank, o) \in FollowUps
<1>1. CASE o \in Used(now)
  <2>1. \E i \in FollowUps : now[i].origin = o BY <1>1 DEF Used
  <2> QED BY <1>1, <2>1 DEF NameOf
<1>2. CASE o \notin Used(now)
  <2> DEFINE below == {x \in Fresh(now, S) : rank[x] <= rank[o]}
             n == Cardinality(Used(now)) + Cardinality(below)
  <2>1. o \in below /\ below \in SUBSET Fresh(now, origins) BY <1>2 DEF Fresh
  <2>2. Fresh(now, origins) \in SUBSET origins BY DEF Fresh
  <2> HIDE DEF below
  <2>3. IsFiniteSet(Fresh(now, origins)) BY <2>2, FS_Subset
  <2>4. IsFiniteSet(below) /\ Cardinality(below) <= Cardinality(Fresh(now, origins))
    BY <2>1, <2>3, FS_Subset
  <2>5. Cardinality(below) \in Nat /\ Cardinality(below) # 0 BY <2>1, <2>4, FS_CardinalityType, FS_EmptySet
  <2>6. Cardinality(Fresh(now, origins)) \in Nat BY <2>3, FS_CardinalityType
  <2>7. Cardinality(Used(now)) + Cardinality(Fresh(now, origins)) <= MaxFollowUps BY DEF NamesLeft
  <2>8. Cardinality(Used(now)) \in Nat /\ MaxFollowUps \in Nat BY UsedIsFinite, DecisionQueueAssumption
  <2>9. n \in 1 .. MaxFollowUps BY <2>4, <2>5, <2>6, <2>7, <2>8
  <2>10. NameOf(now, S, rank, o) = <<"follow", n>> BY <1>2 DEF NameOf, below
  <2> QED BY <2>9, <2>10 DEF FollowUps
<1> QED BY <1>1, <1>2

LEMMA NamedTyped ==
    ASSUME NEW now \in [Issues -> IssueRecords], NEW S, NEW origins, S \subseteq origins,
           S \subseteq Origins, IsFiniteSet(origins), NamesLeft(now, origins),
           NEW rank \in [S -> Nat], NEW count \in [S -> Nat], NEW critic \in Intensities,
           \A o \in S : count[o] <= RepeatLimits[critic > 0]
    PROVE  LET named == Named(now, rank, count, critic) IN
           /\ DOMAIN named \subseteq FollowUps
           /\ \A i \in DOMAIN named : /\ named[i] \in IssueRecords /\ named[i].status = "open"
                                      /\ named[i].count <= RepeatLimits[named[i].critic > 0]
                                      /\ named[i].origin \in S /\ named[i].critic = critic
           /\ IsFiniteSet(DOMAIN named) /\ Cardinality(DOMAIN named) <= Cardinality(S)
<1> DEFINE ids == {NameOf(now, S, rank, o) : o \in S}
           origin(i) == CHOOSE o \in S : NameOf(now, S, rank, o) = i
           named == Named(now, rank, count, critic)
<1>1. named = [i \in ids |-> Issue(count[origin(i)], origin(i), critic)] BY DEF Named
<1>2. ids \subseteq FollowUps BY NamesAreFollowUps
<1>3. IsFiniteSet(ids) /\ Cardinality(ids) <= Cardinality(S)
  <2> DEFINE f == [o \in S |-> NameOf(now, S, rank, o)]
  <2>1. IsFiniteSet(S) BY FS_Subset
  <2>2. ids = {f[o] : o \in S} /\ f = [o \in S |-> f[o]] OBVIOUS
  <2> HIDE DEF f, ids
  <2> QED BY <2>1, <2>2, ImageIsFinite
<1>4. \A i \in ids : origin(i) \in S OBVIOUS
<1> HIDE DEF ids, origin, named
<1>5. ASSUME NEW i \in ids
      PROVE  /\ named[i] \in IssueRecords /\ named[i].status = "open"
             /\ named[i].count <= RepeatLimits[named[i].critic > 0]
             /\ named[i].origin \in S /\ named[i].critic = critic
  <2>1. named[i] = [status |-> "open", count |-> count[origin(i)], origin |-> origin(i), critic |-> critic]
    BY <1>1 DEF Issue
  <2>2. origin(i) \in S /\ origin(i) \in Origins /\ count[origin(i)] \in Nat /\ count[origin(i)] <= RepeatLimits[critic > 0]
    BY <1>4
  <2> QED BY <2>1, <2>2 DEF IssueRecords
<1>6. DOMAIN named = ids BY <1>1
<1> QED BY <1>2, <1>5, <1>6, <1>3 DEF named

-----------------------------------------------------------------------------
(* Answers and evidence *)

LEMMA AnswerTask ==
    ASSUME NEW s, NEW i \in Issues, NEW a \in Answers
    PROVE  TaskOfAnswer(s, i, a) \in Tasks \ InitialTasks
BY DEF TaskOfAnswer, BaseTask, Tasks, InitialTasks

LEMMA AnswerNames ==
    ASSUME NEW s \in Sessions, NEW now \in [Issues -> IssueRecords], NEW i \in Issues, NEW a \in Answers,
           NamesLeft(now, AnswerOrigins(s, i, a, 1 .. Branches[a]))
    PROVE  LET new == AnswerFollowUps(s, now, i, a) IN
           /\ DOMAIN new \subseteq FollowUps /\ new \in IssueLists /\ WithinLimits(new)
           /\ \A x \in DOMAIN new : new[x].status = "open" /\ new[x].origin[1] = "answer"
<1> DEFINE base == s.issues[i].count
           critic == s.issues[i].critic
           branches == Branches[a]
           ks == IF s.issues[i].status = "open" THEN Repeats(base, branches, critic) ELSE {}
           S == AnswerOrigins(s, i, a, ks)
           rank == [o \in S |-> o[4]]
           count == [o \in S |-> o[3]]
           f == [k \in 1 .. branches |-> <<"answer", <<i, a>>, base + k, k>>]
           origins == {f[k] : k \in 1 .. branches}
           new == AnswerFollowUps(s, now, i, a)
<1>1. s.issues[i] \in IssueRecords BY SessionFields
<1>2. base \in Nat /\ branches \in Nat /\ critic \in Intensities
  BY <1>1, IssueFields, DecisionQueueAssumption DEF Intensities
<1>3. NamesLeft(now, origins)
  <2>1. origins = AnswerOrigins(s, i, a, 1 .. branches) BY DEF AnswerOrigins
  <2> QED BY <2>1
<1>4. IsFiniteSet(origins)
  <2>1. f = [k \in 1 .. branches |-> f[k]] OBVIOUS
  <2> HIDE DEF f, branches
  <2>2. 1 \in Int /\ branches \in Int BY <1>2
  <2>3. IsFiniteSet(1 .. branches) BY <2>2, FS_Interval
  <2> QED BY <2>1, <2>3, ImageIsFinite
<1>5. ks \subseteq 1 .. branches /\ \A k \in ks : base + k <= RepeatLimits[critic > 0]
  BY DEF Repeats
<1>6. new = Named(now, rank, count, critic) BY DEF AnswerFollowUps
<1>7. S = {<<"answer", <<i, a>>, base + k, k>> : k \in ks} BY DEF AnswerOrigins
<1> HIDE DEF ks, base, branches, critic, new, S
<1>8. \A k \in ks : k \in 1 .. branches /\ k \in Nat /\ base + k \in Nat BY <1>2, <1>5
<1>9. \A o \in S : /\ o[1] = "answer" /\ o[3] \in Nat /\ o[4] \in Nat /\ o[3] <= RepeatLimits[critic > 0]
                   /\ o \in origins /\ o \in Origins
  BY <1>5, <1>7, <1>8 DEF Origins
<1>10. rank \in [S -> Nat] /\ count \in [S -> Nat] /\ \A o \in S : count[o] <= RepeatLimits[critic > 0]
  BY <1>9
<1>11. S \subseteq origins /\ S \subseteq Origins BY <1>9
<1> HIDE DEF rank, count, origins, f
<1> DEFINE named == Named(now, rank, count, critic)
<1>12. /\ DOMAIN named \subseteq FollowUps
       /\ \A x \in DOMAIN named : /\ named[x] \in IssueRecords /\ named[x].status = "open"
                                  /\ named[x].count <= RepeatLimits[named[x].critic > 0]
                                  /\ named[x].origin \in S /\ named[x].critic = critic
       /\ IsFiniteSet(DOMAIN named) /\ Cardinality(DOMAIN named) <= Cardinality(S)
  BY <1>2, <1>3, <1>4, <1>10, <1>11, NamedTyped
<1>13. \A x \in DOMAIN named : named[x].origin[1] = "answer" BY <1>12, <1>9
<1>14. new = [x \in DOMAIN new |-> new[x]] BY <1>6 DEF Named
<1>15. DOMAIN new \in SUBSET Issues BY <1>6, <1>12 DEF Issues
<1>16. new \in [DOMAIN new -> IssueRecords] BY <1>6, <1>12, <1>14
<1>17. new \in IssueLists BY <1>15, <1>16, ListTyped
<1> QED BY <1>6, <1>12, <1>17, <1>9 DEF WithinLimits, new

LEMMA AppendedIssue ==
    ASSUME NEW issues, NEW new, NEW i \in Issues
    PROVE  /\ i \notin DOMAIN new \/ i \in Existing(issues) => Appended(issues, new)[i] = issues[i]
           /\ i \in DOMAIN new /\ i \notin Existing(issues) => Appended(issues, new)[i] = new[i]
BY DEF Appended

LEMMA AnswerSound ==
    ASSUME NEW s \in Sessions, NEW now \in [Issues -> IssueRecords], NEW i \in Issues, NEW a \in Answers,
           NEW e \in SubmitAnswer(s, now, i, a)
    PROVE  Sound(s, e, {TaskOfAnswer(s, i, a)}) /\ Plain(e)
<1> DEFINE t == TaskOfAnswer(s, i, a)
           opens == AnswerFollowUps(s, now, i, a)
           planned == WithTask(s.research, t)
           r == IF t = BaseTask THEN [planned EXCEPT !.detailOf = i] ELSE planned
           base == Put(Without(s.queue, i), t, "review")
           closed == Closed(s.issues, i, "answered")
           new == Apply(s, e)
<1>1. /\ s.queue[i].at = "active"
      /\ NamesLeft(now, AnswerOrigins(s, i, a, 1 .. Branches[a]))
      /\ \E q \in Refilled(base, Appended(closed, opens)) :
            e = [Event EXCEPT !.closes = i, !.as = "answered", !.opens = opens, !.queue = q, !.research = r]
  BY DEF SubmitAnswer
<1>2. PICK q \in Refilled(base, Appended(closed, opens)) :
            e = [Event EXCEPT !.closes = i, !.as = "answered", !.opens = opens, !.queue = q, !.research = r]
  BY <1>1
<1>3. t \in Tasks /\ t \notin InitialTasks /\ t \in Items /\ t \notin Issues BY AnswerTask, Kinds
<1>4. /\ DOMAIN opens \subseteq FollowUps /\ opens \in IssueLists /\ WithinLimits(opens)
      /\ \A x \in DOMAIN opens : opens[x].status = "open" /\ opens[x].origin[1] = "answer"
  BY <1>1, AnswerNames
<1>5. /\ r \in Research /\ r.tasks = s.research.tasks \cup {t}
      /\ r.outcome = [s.research.outcome EXCEPT ![t] = "none"]
  <2>1. /\ planned \in Research /\ planned.tasks = s.research.tasks \cup {t}
        /\ planned.outcome = [s.research.outcome EXCEPT ![t] = "none"]
    BY <1>3, SessionFields, WithTaskTyped
  <2> HIDE DEF planned
  <2>2. /\ [planned EXCEPT !.detailOf = i] \in Research
        /\ [planned EXCEPT !.detailOf = i].tasks = planned.tasks
        /\ [planned EXCEPT !.detailOf = i].outcome = planned.outcome
    BY <2>1 DEF Research
  <2> QED BY <2>1, <2>2
<1>6. /\ base \in Queues /\ base[i].at = "none" /\ base[t].shows = "none" /\ i \in Items
      /\ \A y \in Items : y # i /\ y # t => base[y] = s.queue[y]
  <2>1. s.queue \in Queues /\ i \in Items /\ i # t BY <1>3, SessionFields, Kinds
  <2> QED BY <1>3, <2>1 DEF Put, Without, Queues, Nowhere, Places, Outcomes
<1>7. s.issues \in [Issues -> IssueRecords] BY SessionFields
<1>8. \A x \in Issues : /\ x # i => closed[x] = s.issues[x]
                        /\ closed[x].critic = s.issues[x].critic /\ closed[x].origin = s.issues[x].origin
                        /\ x \in Existing(closed) => x \in Existing(s.issues)
  <2> SUFFICES ASSUME NEW x \in Issues
               PROVE  /\ x # i => closed[x] = s.issues[x]
                      /\ closed[x].critic = s.issues[x].critic /\ closed[x].origin = s.issues[x].origin
                      /\ x \in Existing(closed) => x \in Existing(s.issues)
    OBVIOUS
  <2>1. s.issues[x] \in IssueRecords BY <1>7
  <2> QED BY <1>7, <2>1 DEF Closed, Existing, IssueRecords
<1> HIDE DEF t, opens, r, base
<1>9. q \in Queues BY <1>2, <1>6, RefilledQueue
<1>10. e \in Events
  <2> DEFINE e1 == [Event EXCEPT !.closes = i]
             e2 == [e1 EXCEPT !.as = "answered"]
             e3 == [e2 EXCEPT !.opens = opens]
             e4 == [e3 EXCEPT !.queue = q]
  <2>1. e1 \in Events BY <1>6, EventTyped, EventWith
  <2>2. e2 \in Events BY <2>1, EventWith
  <2>3. e3 \in Events BY <1>4, <2>2, EventWith
  <2>4. e4 \in Events BY <1>9, <2>3, EventWith
  <2>5. [e4 EXCEPT !.research = r] \in Events BY <1>5, <2>4, EventWith
  <2> QED BY <1>2, <2>5
<1>11. /\ e.list = None /\ e.closes = i /\ e.as = "answered" /\ e.opens = opens /\ e.research = r /\ e.queue = q
       /\ e.handoff = None /\ Fits(e, s) /\ Plain(e)
  BY <1>2 DEF Event, Fits, Plain
<1>12. new \in Sessions BY <1>10, <1>11, ApplyTyped
<1>13. /\ new.issues = Appended(closed, opens) /\ new.queue = q /\ new.research = r
       /\ new.handoff = s.handoff
  BY <1>5, <1>9, <1>11, NoneApart DEF Apply, Either
<1> HIDE DEF new, closed
<1>14. ASSUME Consistent(s), t \notin s.research.tasks PROVE Follows(s, new)
  <2>1. ASSUME NEW u \in Tasks PROVE new.research.outcome[u] = s.research.outcome[u]
    <3>1. s.research.outcome \in [Tasks -> Outcomes] BY SessionFields, ResearchFields
    <3>2. s.research.outcome[t] = "none" BY <1>3, <1>14 DEF Consistent
    <3> QED BY <1>5, <1>13, <3>1, <3>2
  <2>2. ASSUME NEW u \in Tasks
        PROVE  /\ new.research.outcome[u] # "none" => u \in new.research.tasks
               /\ u \notin InitialTasks /\ new.queue[u].shows # "none" => new.research.outcome[u] # "none"
    <3>1. q[u] = base[u] \/ q[u].shows = "none"
      <4>1. q[u] = base[u] \/ q[u] = [at |-> "active", shows |-> "none"]
        BY <1>2, <1>6, RefilledQueue, Kinds
      <4> QED BY <4>1
    <3>2. base[u].shows \in {"none", s.queue[u].shows} BY <1>6, Kinds
    <3> QED BY <1>5, <1>13, <1>14, <2>1, <3>1, <3>2 DEF Consistent
  <2>3. ASSUME NEW x \in ResearchOnly PROVE base[x].at = "none" /\ Unclosed(new, x)
    <3>1. x \in Issues /\ x \in Items /\ x # t /\ x # i /\ s.queue[x].at = "none" /\ Unclosed(s, x)
      BY <1>1, <1>3, <1>14, Kinds DEF Consistent
    <3>2. x \notin DOMAIN opens BY <1>4, DecisionQueueAssumption
    <3>3. new.issues[x] = s.issues[x] BY <1>8, <1>13, <3>1, <3>2, AppendedIssue
    <3>4. <<"initial", x>> \in new.research.tasks => <<"initial", x>> \in s.research.tasks
      BY <1>3, <1>5, <1>13 DEF InitialTasks
    <3> QED BY <1>6, <3>1, <3>3, <3>4 DEF Unclosed
  <2>4. ASSUME NEW x \in Issues, base[x].at \in {"active", "next"} PROVE new.issues[x].status = "open"
    <3>1. x \in Items /\ x # t /\ x # i BY <1>3, <1>6, <2>4, Kinds
    <3>2. s.issues[x].status = "open" BY <1>6, <1>14, <2>4, <3>1 DEF Consistent
    <3>3. closed[x] = s.issues[x] BY <1>8, <3>1
    <3>4. x \in Existing(closed) BY <3>2, <3>3 DEF Existing
    <3> QED BY <1>13, <3>2, <3>3, <3>4, AppendedIssue
  <2>5. q \in Refilled(base, new.issues) /\ \A x \in Issues : new.queue[x] = q[x] BY <1>2, <1>13
  <2>6. Bounded(new)
    <3>1. ASSUME NEW x \in FollowUps \cap Existing(new.issues)
          PROVE  \/ /\ x \in Existing(s.issues) /\ new.issues[x].origin = s.issues[x].origin
                    /\ new.issues[x].critic = s.issues[x].critic
                 \/ new.issues[x].origin[1] # "research"
      <4>1. x \in Issues /\ new.issues[x].status \notin {"absent", "gone"} BY <3>1 DEF Existing
      <4>2. CASE x \in DOMAIN opens /\ x \notin Existing(closed)
        BY <1>4, <1>13, <4>1, <4>2, AppendedIssue
      <4>3. CASE ~(x \in DOMAIN opens /\ x \notin Existing(closed))
        <5>1. new.issues[x] = closed[x] BY <1>13, <4>1, <4>3, AppendedIssue
        <5>2. x \in Existing(closed) BY <4>1, <5>1 DEF Existing
        <5> QED BY <1>8, <4>1, <5>1, <5>2
      <4> QED BY <4>2, <4>3
    <3> QED BY <1>14, <3>1, KeptBounded DEF Consistent
  <2> QED BY <1>6, <1>12, <1>13, <2>1, <2>2, <2>3, <2>4, <2>5, <2>6, RefillFollows
<1> QED BY <1>3, <1>5, <1>10, <1>11, <1>14 DEF Sound, t, new

LEMMA BaseTyped ==
    ASSUME NEW s \in Sessions, NEW t
    PROVE  /\ RepeatBase(s, t) \in Nat /\ CriticOf(s, t) \in Intensities
           /\ Cardinality(FollowUpsOf(s, t)) <= RepeatBase(s, t)
<1>1. ASSUME SourceOf(s, t) \in Existing(s.issues)
      PROVE  s.issues[SourceOf(s, t)].count \in Nat /\ s.issues[SourceOf(s, t)].critic \in Intensities
  <2>1. SourceOf(s, t) \in Issues BY <1>1 DEF Existing
  <2>2. s.issues[SourceOf(s, t)] \in IssueRecords BY <2>1, SessionFields
  <2> QED BY <2>2 DEF IssueRecords
<1>2. Cardinality(FollowUpsOf(s, t)) \in Nat BY FollowUpSets
<1> QED BY <1>1, <1>2 DEF RepeatBase, CriticOf, Intensities

\* The origins of the questions an evidence may add.
Added(s, j, n) == {<<"research", j, k>> : k \in Repeats(RepeatBase(s, j[1]), n, CriticOf(s, j[1]))}

EvidenceNames(s, now, j, n) ==
    LET rank == [o \in Added(s, j, n) |-> o[3]]
    IN Named(now, rank, [o \in DOMAIN rank |-> RepeatBase(s, j[1]) + o[3]], CriticOf(s, j[1]))

LEMMA EvidenceNamesTyped ==
    ASSUME NEW s \in Sessions, NEW now \in [Issues -> IssueRecords], NEW j \in Jobs, NEW n \in Nat,
           NamesLeft(now, Added(s, j, n))
    PROVE  /\ DOMAIN EvidenceNames(s, now, j, n) \subseteq FollowUps
           /\ \A i \in DOMAIN EvidenceNames(s, now, j, n) :
                 /\ EvidenceNames(s, now, j, n)[i] \in IssueRecords
                 /\ EvidenceNames(s, now, j, n)[i].status = "open"
                 /\ EvidenceNames(s, now, j, n)[i].count
                       <= RepeatLimits[EvidenceNames(s, now, j, n)[i].critic > 0]
                 /\ EvidenceNames(s, now, j, n)[i].critic = CriticOf(s, j[1])
                 /\ EvidenceNames(s, now, j, n)[i].origin[2] = j
           /\ IsFiniteSet(DOMAIN EvidenceNames(s, now, j, n))
           /\ Cardinality(DOMAIN EvidenceNames(s, now, j, n))
                 <= Cardinality(Repeats(RepeatBase(s, j[1]), n, CriticOf(s, j[1])))
<1> DEFINE base == RepeatBase(s, j[1])
           critic == CriticOf(s, j[1])
           ks == Repeats(base, n, critic)
           S == Added(s, j, n)
           rank == [o \in S |-> o[3]]
           count == [o \in S |-> base + o[3]]
           f == [k \in ks |-> <<"research", j, k>>]
<1>1. base \in Nat /\ critic \in Intensities BY BaseTyped
<1>2. S = {<<"research", j, k>> : k \in ks} BY DEF Added
<1>3. EvidenceNames(s, now, j, n) = Named(now, rank, count, critic) BY DEF EvidenceNames
<1> HIDE DEF base, critic, S
<1>4. \A o \in S : o[2] = j BY <1>2
<1>5. ks \in SUBSET (1 .. n) /\ \A k \in ks : base + k <= RepeatLimits[critic > 0] BY DEF Repeats
<1> HIDE DEF ks
<1>6. IsFiniteSet(S) /\ Cardinality(S) \in Nat /\ Cardinality(S) <= Cardinality(ks)
      /\ Cardinality(ks) \in Nat
  <2>1. IsFiniteSet(1 .. n) BY FS_Interval
  <2>2. IsFiniteSet(ks) BY <1>5, <2>1, FS_Subset
  <2>3. S = {f[k] : k \in ks} /\ f = [k \in ks |-> f[k]] BY <1>2
  <2> HIDE DEF f
  <2> QED BY <2>2, <2>3, ImageIsFinite, FS_CardinalityType
<1>7. S \subseteq Origins
  <2>1. ks \subseteq Nat BY <1>5
  <2> QED BY <1>2, <2>1 DEF Origins
<1>8. rank \in [S -> Nat] /\ count \in [S -> Nat] /\ \A o \in S : count[o] <= RepeatLimits[critic > 0]
  <2>1. \A k \in ks : k \in Nat /\ base + k \in Nat BY <1>1, <1>5
  <2> QED BY <1>2, <1>5, <2>1
<1>9. NamesLeft(now, S) BY DEF S
<1> HIDE DEF rank, count
<1> DEFINE named == Named(now, rank, count, critic)
<1>10. /\ DOMAIN named \subseteq FollowUps
       /\ \A i \in DOMAIN named : /\ named[i] \in IssueRecords /\ named[i].status = "open"
                                  /\ named[i].count <= RepeatLimits[named[i].critic > 0]
                                  /\ named[i].origin \in S /\ named[i].critic = critic
       /\ IsFiniteSet(DOMAIN named) /\ Cardinality(DOMAIN named) <= Cardinality(S)
  BY <1>1, <1>6, <1>7, <1>8, <1>9, NamedTyped
<1>11. EvidenceNames(s, now, j, n) = named BY <1>3
<1> HIDE DEF named
<1>12. Cardinality(DOMAIN named) <= Cardinality(ks)
  <2>1. Cardinality(DOMAIN named) \in Nat BY <1>10, FS_CardinalityType
  <2> QED BY <1>6, <1>10, <2>1
<1>13. \A i \in DOMAIN named : named[i].origin[2] = j BY <1>4, <1>10
<1> QED BY <1>10, <1>11, <1>12, <1>13 DEF ks, base, critic

\* As many repeats as the limit leaves.
LEMMA FewRepeats ==
    ASSUME NEW base \in Nat, NEW n \in Nat, NEW critic \in Intensities
    PROVE  /\ IsFiniteSet(Repeats(base, n, critic)) /\ Cardinality(Repeats(base, n, critic)) \in Nat
           /\ \/ Repeats(base, n, critic) = {}
              \/ \E pressed \in BOOLEAN : /\ pressed = (critic > 0)
                                          /\ base + Cardinality(Repeats(base, n, critic)) <= RepeatLimits[pressed]
<1> DEFINE ks == Repeats(base, n, critic)
<1>1. PICK pressed \in BOOLEAN : pressed = (critic > 0)
  <2>1. CASE critic > 0
    <3>1. TRUE = (critic > 0) BY <2>1
    <3> QED BY <3>1, Zenon
  <2>2. CASE ~(critic > 0)
    <3>1. FALSE = (critic > 0) BY <2>2
    <3> QED BY <3>1, Zenon
  <2> QED BY <2>1, <2>2
<1>2. RepeatLimits[pressed] \in Nat BY DecisionQueueAssumption
<1> DEFINE limit == RepeatLimits[pressed]
<1>3. ks = {k \in 1 .. n : base + k <= limit} BY <1>1 DEF Repeats
<1> HIDE DEF ks, limit
<1>4. limit \in Nat BY <1>2 DEF limit
<1>5. IsFiniteSet(ks) /\ Cardinality(ks) \in Nat
  <2>1. IsFiniteSet(1 .. n) BY FS_Interval
  <2> QED BY <1>3, <2>1, FS_Subset, FS_CardinalityType
<1>6. ASSUME ks # {} PROVE base + Cardinality(ks) <= limit
  <2>1. limit - base \in Nat /\ limit - base >= 1 BY <1>3, <1>4, <1>6
  <2>2. ks \subseteq 1 .. (limit - base) BY <1>3, <1>4
  <2>3. IsFiniteSet(1 .. (limit - base)) /\ Cardinality(1 .. (limit - base)) = limit - base
    BY <2>1, FS_Interval
  <2>4. Cardinality(ks) <= limit - base BY <2>2, <2>3, FS_Subset
  <2> QED BY <1>4, <1>5, <2>1, <2>4
<1> QED BY <1>1, <1>5, <1>6 DEF ks, limit

\* Follow-ups of one evidence, at most as many as the limit of its critic leaves.
LEMMA EvidenceBounded ==
    ASSUME NEW s \in Sessions, NEW new, NEW t \in Tasks, NEW opens, NEW n \in Nat, Bounded(s),
           new.issues = Appended(s.issues, opens), DOMAIN opens \subseteq FollowUps,
           \A i \in DOMAIN opens : opens[i].origin[2][1] = t /\ opens[i].critic = CriticOf(s, t),
           IsFiniteSet(DOMAIN opens),
           Cardinality(DOMAIN opens) <= Cardinality(Repeats(RepeatBase(s, t), n, CriticOf(s, t)))
    PROVE  Bounded(new)
<1> DEFINE base == RepeatBase(s, t)
           critic == CriticOf(s, t)
           ks == Repeats(base, n, critic)
           asked(u) == FollowUpsOf(s, u)
<1>1. base \in Nat /\ critic \in Intensities /\ Cardinality(asked(t)) <= base BY BaseTyped
<1>2. s.issues \in [Issues -> IssueRecords] BY SessionFields
<1>3. ASSUME NEW i \in FollowUps \cap Existing(new.issues)
      PROVE  \/ i \in Existing(s.issues) /\ new.issues[i] = s.issues[i]
             \/ i \in DOMAIN opens /\ new.issues[i] = opens[i]
  <2>1. i \in Issues /\ new.issues[i].status \notin {"absent", "gone"} BY DEF Existing
  <2> QED BY <2>1 DEF Appended, Existing
<1>4. ASSUME NEW u \in Tasks
      PROVE  /\ FollowUpsOf(new, u) \subseteq asked(u) \cup DOMAIN opens
             /\ u # t \/ DOMAIN opens = {} => /\ FollowUpsOf(new, u) \subseteq asked(u)
                                             /\ Pressing(new, u) \subseteq Pressing(s, u)
             /\ critic = 0 => Pressing(new, u) \subseteq Pressing(s, u)
  <2>1. ASSUME NEW i \in FollowUpsOf(new, u)
        PROVE  \/ i \in asked(u) /\ new.issues[i] = s.issues[i]
               \/ i \in DOMAIN opens /\ u = t /\ new.issues[i].critic = critic
    <3>1. /\ i \in FollowUps \cap Existing(new.issues)
          /\ new.issues[i].origin[1] = "research" /\ new.issues[i].origin[2][1] = u
      BY DEF FollowUpsOf
    <3>2. CASE i \in Existing(s.issues) /\ new.issues[i] = s.issues[i] BY <3>1, <3>2 DEF FollowUpsOf
    <3>3. CASE i \in DOMAIN opens /\ new.issues[i] = opens[i] BY <3>1, <3>3
    <3> QED BY <1>3, <3>1, <3>2, <3>3
  <2>2. ~(0 > 0) OBVIOUS
  <2> HIDE DEF asked, critic
  <2>3. \A i \in asked(u) : new.issues[i] = s.issues[i] /\ new.issues[i].critic > 0 => i \in Pressing(s, u)
    BY DEF Pressing, asked
  <2>4. \A i \in Pressing(new, u) : i \in FollowUpsOf(new, u) /\ new.issues[i].critic > 0 BY DEF Pressing
  <2>5. FollowUpsOf(new, u) \subseteq asked(u) \cup DOMAIN opens BY <2>1
  <2>6. ASSUME u # t \/ DOMAIN opens = {}
        PROVE  FollowUpsOf(new, u) \subseteq asked(u) /\ Pressing(new, u) \subseteq Pressing(s, u)
    BY <2>1, <2>3, <2>4, <2>6
  <2>7. ASSUME critic = 0 PROVE Pressing(new, u) \subseteq Pressing(s, u)
    <3>1. ASSUME NEW i \in Pressing(new, u) PROVE i \in Pressing(s, u)
      <4>1. i \in FollowUpsOf(new, u) /\ new.issues[i].critic > 0 BY <2>4
      <4>2. new.issues[i].critic # critic BY <2>2, <2>7, <4>1
      <4> QED BY <2>1, <2>3, <4>1, <4>2
    <3> QED BY <3>1
  <2> QED BY <2>5, <2>6, <2>7
<1>5. ASSUME DOMAIN opens # {}
      PROVE  \E pressed \in BOOLEAN : /\ pressed = (critic > 0)
                                     /\ Cardinality(FollowUpsOf(new, t)) <= RepeatLimits[pressed]
  <2>1. Cardinality(ks) \in Nat /\ IsFiniteSet(ks) BY <1>1, FewRepeats
  <2>2. Cardinality(DOMAIN opens) \in Nat /\ Cardinality(DOMAIN opens) # 0
    BY <1>5, FS_CardinalityType, FS_EmptySet
  <2>3. ks # {} BY <2>1, <2>2, FS_EmptySet
  <2>4. PICK pressed \in BOOLEAN : pressed = (critic > 0) /\ base + Cardinality(ks) <= RepeatLimits[pressed]
    BY <1>1, <2>3, FewRepeats
  <2>5. RepeatLimits[pressed] \in Nat BY DecisionQueueAssumption
  <2>6. IsFiniteSet(asked(t)) /\ Cardinality(asked(t)) \in Nat /\ Cardinality(FollowUpsOf(new, t)) \in Nat
    BY FollowUpSets
  <2>7. IsFiniteSet(asked(t) \cup DOMAIN opens)
        /\ Cardinality(asked(t) \cup DOMAIN opens) <= Cardinality(asked(t)) + Cardinality(DOMAIN opens)
    <3>1. asked(t) \cap DOMAIN opens \in SUBSET asked(t) OBVIOUS
    <3>2. IsFiniteSet(asked(t) \cap DOMAIN opens) BY <2>6, <3>1, FS_Subset
    <3>3. Cardinality(asked(t) \cap DOMAIN opens) \in Nat BY <3>2, FS_CardinalityType
    <3>4. /\ IsFiniteSet(asked(t) \cup DOMAIN opens)
          /\ Cardinality(asked(t) \cup DOMAIN opens)
                = Cardinality(asked(t)) + Cardinality(DOMAIN opens) - Cardinality(asked(t) \cap DOMAIN opens)
      BY <2>6, FS_Union
    <3> HIDE DEF asked
    <3> QED BY <2>2, <2>6, <3>3, <3>4
  <2>8. Cardinality(FollowUpsOf(new, t)) <= Cardinality(asked(t) \cup DOMAIN opens)
    BY <1>4, <2>7, FS_Subset
  <2>9. Cardinality(asked(t) \cup DOMAIN opens) \in Nat BY <2>7, FS_CardinalityType
  <2> HIDE DEF asked, base, ks, critic
  <2>10. Cardinality(DOMAIN opens) <= Cardinality(ks) BY DEF ks, base, critic
  <2>11. Cardinality(FollowUpsOf(new, t)) <= base + Cardinality(ks)
    BY <1>1, <2>1, <2>2, <2>6, <2>7, <2>8, <2>9, <2>10
  <2>12. base + Cardinality(ks) \in Nat BY <1>1, <2>1
  <2>13. \A x, y, z \in Nat : x <= y /\ y <= z => x <= z OBVIOUS
  <2>14. Cardinality(FollowUpsOf(new, t)) <= RepeatLimits[pressed] BY <2>4, <2>5, <2>6, <2>11, <2>12, <2>13, Zenon
  <2> QED BY <2>4, <2>14, Zenon
<1>6. ASSUME NEW u \in Tasks
      PROVE  /\ Cardinality(Pressing(new, u)) <= RepeatLimits[TRUE]
             /\ \E pressed \in BOOLEAN : Cardinality(FollowUpsOf(new, u)) <= RepeatLimits[pressed]
  <2>1. CASE u # t \/ DOMAIN opens = {} BY <1>4, <2>1, FewerFollowUps
  <2>2. CASE u = t /\ DOMAIN opens # {}
    <3>1. PICK pressed \in BOOLEAN : /\ pressed = (critic > 0)
                                     /\ Cardinality(FollowUpsOf(new, t)) <= RepeatLimits[pressed]
      BY <1>5, <2>2
    <3>2. Cardinality(Pressing(new, t)) <= Cardinality(FollowUpsOf(new, t))
      BY FollowUpSets, FS_Subset
    <3>3. Cardinality(Pressing(new, t)) \in Nat /\ Cardinality(FollowUpsOf(new, t)) \in Nat BY FollowUpSets
    <3>4. \A x, y, z \in Nat : x <= y /\ y <= z => x <= z OBVIOUS
    <3>5. CASE pressed = TRUE
      <4>1. Cardinality(FollowUpsOf(new, t)) <= RepeatLimits[TRUE] BY <3>1, <3>5, Zenon
      <4> QED BY <2>2, <3>1, <3>2, <3>3, <3>4, <4>1, LimitsAreNumbers, Zenon
    <3>6. CASE pressed = FALSE
      <4>1. ~(critic > 0) BY <3>1, <3>6, Zenon
      <4>2. critic = 0 BY <1>1, <4>1 DEF Intensities
      <4>3. Pressing(new, t) \subseteq Pressing(s, t) BY <1>4, <4>2
      <4>4. Cardinality(Pressing(new, t)) <= Cardinality(Pressing(s, t)) BY <4>3, FollowUpSets, FS_Subset
      <4>5. Cardinality(Pressing(s, t)) <= RepeatLimits[TRUE] /\ Cardinality(Pressing(s, t)) \in Nat
        BY FollowUpSets DEF Bounded
      <4>6. Cardinality(Pressing(new, t)) <= RepeatLimits[TRUE] BY <3>3, <3>4, <4>4, <4>5, LimitsAreNumbers, Zenon
      <4> QED BY <2>2, <3>1, <4>6, Zenon
    <3> QED BY <3>5, <3>6
  <2> QED BY <2>1, <2>2
<1> QED BY <1>6 DEF Bounded

LEMMA SynthesisSound ==
    ASSUME NEW s \in Sessions, NEW now \in [Issues -> IssueRecords], NEW j \in Jobs, NEW n \in Nat,
           NamesLeft(now, Added(s, j, n)), j \notin s.research.evidence,
           NEW e \in SynthesizeEvidence(s, now, j, n)
    PROVE  Sound(s, e, FollowUpTasks(DOMAIN e.opens)) /\ Plain(e) /\ e.mode = None /\ e.intensity = None
<1> DEFINE t == j[1]
           named == EvidenceNames(s, now, j, n)
           opens == [i \in DOMAIN named \ Existing(s.issues) |-> named[i]]
           tasks == FollowUpTasks(DOMAIN opens)
           carded == Put(s.queue, t, "review")
           base == [x \in Items |-> IF x \in DOMAIN opens /\ ~Listed(carded, x)
                                    THEN [Nowhere EXCEPT !.at = "next"] ELSE carded[x]]
           outcome == [u \in Tasks |-> IF u \in tasks \cup {t} THEN "none" ELSE s.research.outcome[u]]
           r == [s.research EXCEPT !.tasks = @ \cup tasks, !.evidence = @ \cup {j},
                    !.outcome = [u \in Tasks |-> IF u \in tasks \cup {t} THEN "none" ELSE @[u]]]
           shown(q) == [x \in Items |-> IF x \in tasks THEN [Nowhere EXCEPT !.at = "review"] ELSE q[x]]
           new == Apply(s, e)
<1>1. /\ t \in s.research.tasks
      /\ \E q \in Refilled(base, Appended(s.issues, opens)) :
            e = [Event EXCEPT !.opens = opens, !.queue = shown(q), !.research = r]
  BY DEF SynthesizeEvidence, EvidenceNames, Added
<1>2. PICK q \in Refilled(base, Appended(s.issues, opens)) :
            e = [Event EXCEPT !.opens = opens, !.queue = shown(q), !.research = r]
  BY <1>1
<1>3. t \in Tasks /\ t \in Items /\ t \notin Issues BY Kinds DEF Jobs
<1>4. /\ DOMAIN opens \subseteq FollowUps \ Existing(s.issues) /\ opens \in IssueLists /\ WithinLimits(opens)
      /\ \A x \in DOMAIN opens : /\ opens[x].status = "open"
                                 /\ opens[x].origin[2] = j /\ opens[x].critic = CriticOf(s, t)
      /\ IsFiniteSet(DOMAIN opens)
      /\ Cardinality(DOMAIN opens) <= Cardinality(Repeats(RepeatBase(s, t), n, CriticOf(s, t)))
  <2>1. /\ DOMAIN named \subseteq FollowUps
        /\ \A i \in DOMAIN named : /\ named[i] \in IssueRecords /\ named[i].status = "open"
                                   /\ named[i].count <= RepeatLimits[named[i].critic > 0]
                                   /\ named[i].origin[2] = j /\ named[i].critic = CriticOf(s, t)
        /\ IsFiniteSet(DOMAIN named)
        /\ Cardinality(DOMAIN named) <= Cardinality(Repeats(RepeatBase(s, t), n, CriticOf(s, t)))
    BY EvidenceNamesTyped
  <2> HIDE DEF named
  <2>2. DOMAIN opens \in SUBSET Issues /\ DOMAIN opens \subseteq DOMAIN named BY <2>1 DEF Issues
  <2>3. \A i \in DOMAIN opens : opens[i] = named[i] OBVIOUS
  <2>4. opens = [i \in DOMAIN opens |-> opens[i]] /\ DOMAIN opens \cap Existing(s.issues) = {} OBVIOUS
  <2> HIDE DEF opens
  <2>5. opens \in [DOMAIN opens -> IssueRecords] BY <2>1, <2>2, <2>3, <2>4
  <2>6. IsFiniteSet(DOMAIN opens) /\ Cardinality(DOMAIN opens) <= Cardinality(DOMAIN named)
    BY <2>1, <2>2, FS_Subset
  <2>7. Cardinality(DOMAIN opens) <= Cardinality(Repeats(RepeatBase(s, t), n, CriticOf(s, t)))
    <3>1. Cardinality(Repeats(RepeatBase(s, t), n, CriticOf(s, t))) \in Nat BY BaseTyped, FewRepeats
    <3>2. Cardinality(DOMAIN opens) \in Nat /\ Cardinality(DOMAIN named) \in Nat
      BY <2>1, <2>6, FS_CardinalityType
    <3> QED BY <2>1, <2>6, <3>1, <3>2
  <2> QED BY <2>1, <2>2, <2>3, <2>4, <2>5, <2>6, <2>7, ListTyped DEF WithinLimits
<1> HIDE DEF named, opens
<1>5. tasks \subseteq Tasks /\ tasks \cap InitialTasks = {} /\ \A u \in tasks : u \notin Issues
  BY <1>4, Kinds DEF FollowUpTasks, Tasks, InitialTasks
<1> HIDE DEF tasks
<1>6. /\ base \in Queues
      /\ \A x \in Items : \/ x \in DOMAIN opens /\ base[x] = [at |-> "next", shows |-> "none"]
                          \/ x = t /\ base[x].at = "review" /\ base[x].shows = "none"
                          \/ x # t /\ base[x] = s.queue[x]
  <2>1. s.queue \in Queues BY SessionFields
  <2>2. \A x \in Items : carded[x] = IF x = t THEN [at |-> "review", shows |-> "none"] ELSE s.queue[x]
    BY <2>1 DEF Put, Queues
  <2>3. \A x \in Items : carded[x] \in [at : Places, shows : Outcomes]
    BY <2>1, <2>2 DEF Queues, Places, Outcomes
  <2> HIDE DEF carded
  <2> QED BY <2>2, <2>3 DEF Queues, Nowhere, Places, Outcomes
<1>7. /\ r \in Research /\ r.tasks = s.research.tasks \cup tasks
      /\ r.evidence = s.research.evidence \cup {j} /\ r.outcome = outcome
  <2>1. s.research \in Research BY SessionFields
  <2>2. outcome \in [Tasks -> Outcomes] BY <2>1, ResearchFields DEF Outcomes
  <2>3. r = [[[s.research EXCEPT !.tasks = s.research.tasks \cup tasks]
                EXCEPT !.evidence = s.research.evidence \cup {j}] EXCEPT !.outcome = outcome]
    BY <2>1, ResearchFields
  <2> HIDE DEF outcome, r
  <2> QED BY <1>5, <2>1, <2>2, <2>3 DEF Research
<1>8. s.issues \in [Issues -> IssueRecords] BY SessionFields
<1> HIDE DEF r, base, t
<1>9. q \in Queues BY <1>2, <1>6, RefilledQueue
<1>10. /\ shown(q) \in Queues /\ \A x \in Items : x \notin tasks => shown(q)[x] = q[x]
       /\ \A u \in tasks : u \in Items => shown(q)[u].shows = "none"
  BY <1>9 DEF Queues, Nowhere, Places, Outcomes
<1> HIDE DEF shown
<1>11. e \in Events
  <2> DEFINE e1 == [Event EXCEPT !.opens = opens]
             e2 == [e1 EXCEPT !.queue = shown(q)]
  <2>1. e1 \in Events BY <1>4, EventTyped, EventWith
  <2>2. e2 \in Events BY <1>10, <2>1, EventWith
  <2>3. [e2 EXCEPT !.research = r] \in Events BY <1>7, <2>2, EventWith
  <2> QED BY <1>2, <2>3
<1>12. /\ e.list = None /\ e.closes = None /\ e.opens = opens /\ e.research = r /\ e.queue = shown(q)
       /\ e.handoff = None /\ Fits(e, s) /\ Plain(e) /\ e.mode = None /\ e.intensity = None
  BY <1>2 DEF Event, Fits, Plain
<1>13. new \in Sessions BY <1>11, <1>12, ApplyTyped
<1>14. /\ new.issues = Appended(s.issues, opens) /\ new.queue = shown(q) /\ new.research = r
       /\ new.handoff = s.handoff
  BY <1>7, <1>10, <1>12, NoneApart DEF Apply, Either
<1> HIDE DEF new
<1>15. ASSUME Consistent(s), tasks \cap s.research.tasks = {} PROVE Follows(s, new)
  <2>1. ASSUME NEW u \in Tasks
        PROVE  /\ u \in tasks \/ u = t => new.research.outcome[u] = "none"
               /\ u \notin tasks /\ u # t => new.research.outcome[u] = s.research.outcome[u]
               /\ u \in tasks => s.research.outcome[u] = "none"
    BY <1>7, <1>14, <1>15 DEF Consistent
  <2>2. ASSUME NEW u \in Tasks
        PROVE  /\ new.research.outcome[u] # "none" => u \in new.research.tasks
               /\ u \notin InitialTasks /\ new.queue[u].shows # "none" => new.research.outcome[u] # "none"
               /\ s.research.outcome[u] # "none" /\ new.research.outcome[u] = "none" => Reopens(s, new, u)
    <3>1. u \in Items /\ u \notin DOMAIN opens BY <1>4, Kinds DEF Issues
    <3>2. q[u] = base[u] \/ q[u].shows = "none"
      <4>1. q[u] = base[u] \/ q[u] = [at |-> "active", shows |-> "none"]
        BY <1>2, <1>6, <3>1, RefilledQueue
      <4> QED BY <4>1
    <3>3. base[u].shows = "none" \/ (u # t /\ base[u].shows = s.queue[u].shows) BY <1>6, <3>1
    <3>4. new.queue[u].shows # "none" => u # t /\ u \notin tasks /\ s.queue[u].shows # "none"
      BY <1>10, <1>14, <3>1, <3>2, <3>3
    <3>5. CASE u = t
      <4>1. j \in new.research.evidence \ s.research.evidence /\ j[1] = u BY <1>7, <1>14, <3>5 DEF t
      <4> QED BY <2>1, <3>4, <3>5, <4>1 DEF Reopens
    <3>6. CASE u # t BY <1>7, <1>14, <1>15, <2>1, <3>4, <3>6 DEF Consistent
    <3> QED BY <3>5, <3>6
  <2>3. ASSUME NEW x \in ResearchOnly PROVE base[x].at = "none" /\ Unclosed(new, x)
    <3>1. x \in Issues /\ x \in Items /\ x # t /\ s.queue[x].at = "none" /\ Unclosed(s, x)
      BY <1>3, <1>15, Kinds DEF Consistent
    <3>2. x \notin DOMAIN opens BY <1>4, DecisionQueueAssumption
    <3>3. new.issues[x] = s.issues[x] BY <1>14, <3>1, <3>2, AppendedIssue
    <3>4. <<"initial", x>> \in new.research.tasks => <<"initial", x>> \in s.research.tasks
      BY <1>5, <1>7, <1>14 DEF InitialTasks
    <3> QED BY <1>6, <3>1, <3>2, <3>3, <3>4 DEF Unclosed
  <2>4. ASSUME NEW x \in Issues, base[x].at \in {"active", "next"} PROVE new.issues[x].status = "open"
    <3>1. x \in Items /\ x # t BY <1>3, Kinds
    <3>2. CASE x \in DOMAIN opens BY <1>4, <1>14, <3>2, AppendedIssue
    <3>3. CASE x \notin DOMAIN opens
      <4>1. s.issues[x].status = "open" BY <1>6, <1>15, <2>4, <3>1, <3>3 DEF Consistent
      <4> QED BY <1>14, <3>3, <4>1, AppendedIssue
    <3> QED BY <3>2, <3>3
  <2>5. q \in Refilled(base, new.issues) BY <1>2, <1>14
  <2>6. \A x \in Issues : new.queue[x] = q[x] BY <1>5, <1>10, <1>14, Kinds
  <2>7. Bounded(new)
    <3>1. \A x \in DOMAIN opens : opens[x].origin[2][1] = t /\ opens[x].critic = CriticOf(s, t)
      BY <1>4 DEF t
    <3> QED BY <1>3, <1>4, <1>14, <1>15, <3>1, EvidenceBounded DEF Consistent
  <2> QED BY <1>6, <1>13, <1>14, <2>2, <2>3, <2>4, <2>5, <2>6, <2>7, RefillFollows
<1> QED BY <1>5, <1>7, <1>11, <1>12, <1>15 DEF Sound, tasks, new

-----------------------------------------------------------------------------
(* What a commit keeps *)

\* Effects are never forgotten.
Remembers ==
    /\ \A t \in Tasks : waits[t] # "none" => waits'[t] # "none"
    /\ \A j \in Jobs : jobs[j] # "none" => jobs'[j] # "none"
    /\ \A t \in Turns : DOMAIN turns[t] \subseteq DOMAIN turns'[t]

LEMMA StillPlanned ==
    ASSUME Remembers, NEW t \in Tasks, Planned(waits, t)
    PROVE  Planned(waits', t)
BY DEF Planned, Remembers

LEMMA StillSnapshot ==
    ASSUME Remembers, NEW s, Snapshot(waits, s)
    PROVE  Snapshot(waits', s)
<1>1. s \in Sessions /\ s.research.tasks \subseteq Tasks BY SessionFields, ResearchFields DEF Snapshot
<1> QED BY <1>1, StillPlanned DEF Snapshot

LEMMA StillWorking ==
    ASSUME Remembers, NEW x, Working(waits, jobs, turns, x)
    PROVE  Working(waits', jobs', turns', x)
<1>1. x.pc \in {"read", "asked", "unavailable"} => Snapshot(waits', x.snap)
  BY StillSnapshot DEF Working
<1> QED BY <1>1 DEF Working, Remembers

LEMMA ExecKept ==
    ASSUME ExecInv, Remembers, UNCHANGED exec, turns' \in [Turns -> Seq(TurnStatuses)]
    PROVE  ExecInv'
BY StillWorking DEF ExecInv

LEMMA ExecMoves ==
    ASSUME ExecInv, Remembers, turns' \in [Turns -> Seq(TurnStatuses)], NEW e \in Executors,
           NEW x \in ExecRecords, Working(waits', jobs', turns', x), exec' = [exec EXCEPT ![e] = x]
    PROVE  ExecInv'
<1>1. ASSUME NEW d \in Executors PROVE Working(waits', jobs', turns', exec'[d])
  <2>1. CASE d = e BY <2>1 DEF ExecInv
  <2>2. CASE d # e
    <3>1. exec'[d] = exec[d] /\ Working(waits, jobs, turns, exec[d]) BY <2>2 DEF ExecInv
    <3> QED BY <3>1, StillWorking
  <2> QED BY <2>1, <2>2
<1>2. exec' \in [Executors -> ExecRecords] BY DEF ExecInv
<1> QED BY <1>1, <1>2 DEF ExecInv

-----------------------------------------------------------------------------
(* Commits *)

\* All but the decisions and the executors, which some steps change besides.
CoreInv ==
    Snapshot(waits, session) /\ LockInv /\ WaitsInv /\ load \in Workloads /\ overwritten \in BOOLEAN

\* What a commit does to the session: nothing that is not sound, unless it overwrites.
SoundStep == ~overwritten' => Follows(session, session')

LEMMA Remembered ==
    ASSUME WaitsInv, JobsInv, NEW tasks, NEW queued, NEW s, NEW e, Persist(s, e, tasks, queued),
           \A t \in Turns : DOMAIN turns[t] \subseteq DOMAIN turns'[t]
    PROVE  Remembers
BY DEF Remembers, Persist, WaitsInv, JobsInv

\* A commit from a snapshot s of an event that fits the session.
LEMMA Committed ==
    ASSUME IInv, NEW s, Snapshot(waits, s), NEW e, NEW tasks, NEW queued \in SUBSET Jobs,
           Sound(s, e, tasks), Fits(e, session), ~Conflict(tasks, queued),
           Persist(s, e, tasks, queued), Remembers, UNCHANGED tries,
           \A j \in queued : j[1] \in s.research.tasks
    PROVE  Snapshot(waits', session') /\ WaitsInv' /\ JobsInv' /\ overwritten' \in BOOLEAN /\ SoundStep
<1>1. /\ e \in Events /\ tasks \subseteq Tasks /\ tasks \cap InitialTasks = {}
      /\ e.research # None => e.research.tasks \subseteq s.research.tasks \cup tasks \cup InitialTasks
      /\ Consistent(s) /\ tasks \cap s.research.tasks = {} => Follows(s, Apply(s, e))
  BY DEF Sound
<1>2. /\ session' = Apply(session, e)
      /\ waits' = [t \in Tasks |-> IF t \in tasks THEN "queued" ELSE waits[t]]
      /\ jobs' = [j \in Jobs |-> IF j \in queued THEN "queued" ELSE jobs[j]]
      /\ overwritten' = (overwritten \/ s # session)
  BY DEF Persist
<1>3. /\ \A t \in tasks : waits[t] = "none"
      /\ \A j \in queued : jobs[j] = "none"
  BY DEF Conflict
<1>4. s \in Sessions /\ session \in Sessions /\ s.research \in Research
      /\ s.research.tasks \subseteq Tasks /\ session.research.tasks \subseteq Tasks
  BY SessionFields, ResearchFields DEF Snapshot, IInv
<1>5. \A t \in s.research.tasks : t \in InitialTasks \/ waits[t] # "none"
  BY DEF Snapshot, Planned
<1>6. tasks \cap s.research.tasks = {} BY <1>1, <1>3, <1>5
<1>7. Snapshot(waits', session')
  <2>1. session' \in Sessions BY <1>1, <1>2, <1>4, ApplyTyped
  <2>2. session'.research = IF e.research = None THEN session.research ELSE e.research
    BY <1>2 DEF Apply, Either
  <2>3. ASSUME NEW t \in session.research.tasks PROVE Planned(waits', t)
    <3>1. t \in Tasks /\ Planned(waits, t) BY <1>4 DEF IInv, Snapshot
    <3> QED BY <3>1, StillPlanned
  <2>4. ASSUME NEW t \in s.research.tasks PROVE Planned(waits', t)
    <3>1. t \in Tasks /\ Planned(waits, t) BY <1>4 DEF Snapshot
    <3> QED BY <3>1, StillPlanned
  <2>5. ASSUME NEW t \in tasks \cup InitialTasks PROVE Planned(waits', t)
    BY <1>1, <1>2, Kinds DEF Planned
  <2> QED BY <1>1, <2>1, <2>2, <2>3, <2>4, <2>5 DEF Snapshot
<1>8. WaitsInv'
  <2>1. waits \in [Tasks -> {"none", "queued", "cancelled"}] /\ \A t \in InitialTasks : waits[t] = "none"
    BY DEF IInv, WaitsInv
  <2>2. waits' \in [Tasks -> {"none", "queued", "cancelled"}] BY <1>2, <2>1
  <2>3. \A t \in InitialTasks : waits'[t] = "none" BY <1>1, <1>2, <2>1, Kinds
  <2> QED BY <2>2, <2>3 DEF WaitsInv
<1>9. JobsInv'
  <2>1. /\ jobs \in [Jobs -> {"none", "queued", "running", "succeeded", "failed"}]
        /\ tries \in [Jobs -> 0 .. MaxAttempts]
        /\ \A j \in Jobs : /\ jobs[j] = "none" => tries[j] = 0
                           /\ jobs[j] = "queued" => tries[j] < MaxAttempts
                           /\ jobs[j] # "none" => Planned(waits, j[1])
                           /\ jobs[j] = "succeeded" => waits[j[1]] # "queued"
    BY DEF IInv, JobsInv
  <2>2. jobs' \in [Jobs -> {"none", "queued", "running", "succeeded", "failed"}] BY <1>2, <2>1
  <2>3. ASSUME NEW j \in Jobs
        PROVE  /\ jobs'[j] = "none" => tries[j] = 0
               /\ jobs'[j] = "queued" => tries[j] < MaxAttempts
    BY <1>2, <1>3, <2>1, SessionAssumption
  <2>4. ASSUME NEW j \in Jobs, jobs'[j] # "none" PROVE Planned(waits', j[1])
    <3>1. j[1] \in Tasks BY DEF Jobs
    <3>2. jobs[j] # "none" \/ j \in queued BY <1>2, <2>4
    <3>3. Planned(waits, j[1]) BY <2>1, <3>2 DEF Snapshot
    <3> QED BY <3>1, <3>3, StillPlanned
  <2>5. ASSUME NEW j \in Jobs, jobs'[j] = "succeeded" PROVE waits'[j[1]] # "queued"
    <3>1. j[1] \in Tasks /\ jobs[j] = "succeeded" BY <1>2, <2>5 DEF Jobs
    <3>2. waits[j[1]] # "queued" /\ Planned(waits, j[1]) BY <2>1, <3>1
    <3>3. j[1] \notin tasks BY <1>1, <1>3, <3>2 DEF Planned
    <3> QED BY <1>2, <3>1, <3>2, <3>3
  <2> QED BY <2>1, <2>2, <2>3, <2>4, <2>5 DEF JobsInv
<1>10. SoundStep
  BY <1>1, <1>2, <1>6 DEF SoundStep, IInv
<1> QED BY <1>2, <1>7, <1>8, <1>9, <1>10 DEF IInv

\* A command is committed under the lock.
LEMMA CommandCommitted ==
    ASSUME IInv, user # None, NEW e, NEW tasks, NEW queued \in SUBSET Jobs,
           Sound(user, e, tasks), Commits(e, tasks, queued),
           \A j \in queued : j[1] \in user.research.tasks
    PROVE  CoreInv' /\ JobsInv' /\ ExecInv' /\ SoundStep
<1>1. Snapshot(waits, user) /\ user.mode = session.mode BY DEF IInv, LockInv
<1>2. Fits(e, session) BY <1>1 DEF Sound, Fits
<1>3. ~Conflict(tasks, queued) /\ Persist(user, e, tasks, queued) BY DEF Commits
<1>4. UNCHANGED <<load, tries, turns, exec>> /\ user' = None BY DEF Commits
<1>5. Remembers BY <1>3, <1>4, Remembered DEF IInv
<1>6. Snapshot(waits', session') /\ WaitsInv' /\ JobsInv' /\ overwritten' \in BOOLEAN /\ SoundStep
  BY <1>1, <1>2, <1>3, <1>4, <1>5, Committed
<1>7. ExecInv' BY <1>4, <1>5, ExecKept DEF IInv, ExecInv
<1> QED BY <1>4, <1>6, <1>7 DEF CoreInv, LockInv, IInv

\* Most commands leave the decisions alone.
LEMMA PlainCommand ==
    ASSUME IInv, user # None, NEW e, NEW tasks, NEW queued \in SUBSET Jobs,
           Sound(user, e, tasks), Plain(e), Commits(e, tasks, queued),
           \A j \in queued : j[1] \in user.research.tasks, UNCHANGED approvedAs
    PROVE  IInv' /\ SoundStep
<1>1. CoreInv' /\ JobsInv' /\ ExecInv' /\ SoundStep BY CommandCommitted
<1>2. session'.decisions = session.decisions /\ session'.version = session.version
  BY DEF Commits, Persist, Apply, Either, Plain
<1>3. DecisionsInv' BY <1>2 DEF DecisionsInv, IInv
<1>4. ~overwritten' => Consistent(session') BY <1>1 DEF SoundStep, Follows
<1> QED BY <1>1, <1>3, <1>4 DEF IInv, CoreInv

-----------------------------------------------------------------------------
(* The commands *)

LEMMA Loads ==
    ASSUME IInv
    PROVE  /\ load.seeds \subseteq Seeds /\ load.answers \subseteq Answers /\ load.results \subseteq Results
           /\ load.versions \subseteq 1 .. MaxVersion /\ load.executors \subseteq Executors
BY SessionAssumption DEF IInv

LEMMA SessionCommands ==
    ASSUME IInv, Start \/ Intake \/ Draft \/ ChangeMode \/ ChangeIntensity \/ Analyze
    PROVE  IInv' /\ SoundStep
<1>0. user # None /\ user \in Sessions
  <2>1. user # None BY DEF Start, Intake, Draft, ChangeMode, ChangeIntensity, Analyze, Asked
  <2> QED BY <2>1 DEF IInv, LockInv, Snapshot
<1>1. CASE Start
  <2>1. PICK mode \in Modes, level \in Intensities \cup {None} :
            \E e \in StartProject(user, mode, level) : Commits(e, {}, {})
    BY <1>1 DEF Start, Modes
  <2>2. PICK e \in StartProject(user, mode, level) : Commits(e, {}, {}) BY <2>1
  <2>3. Sound(user, e, {}) /\ Plain(e) BY <1>0, StartSound
  <2> QED BY <1>0, <1>1, <2>2, <2>3, PlainCommand DEF Start
<1>2. CASE Intake
  <2>1. PICK e \in CaptureIntake(user) : Commits(e, {}, {}) BY <1>2 DEF Intake
  <2>2. Sound(user, e, {}) /\ Plain(e) BY <1>0, IntakeSound
  <2> QED BY <1>0, <1>2, <2>1, <2>2, PlainCommand DEF Intake
<1>3. CASE Draft
  <2>1. PICK e \in DraftInitialSpec(user) : Commits(e, {}, {}) BY <1>3 DEF Draft
  <2>2. Sound(user, e, {}) /\ Plain(e) BY <1>0, DraftSound
  <2> QED BY <1>0, <1>3, <2>1, <2>2, PlainCommand DEF Draft
<1>4. CASE ChangeMode
  <2>1. PICK mode \in Modes : \E e \in ChangeProjectPurposeMode(user, mode) : Commits(e, {}, {})
    BY <1>4 DEF ChangeMode, Modes
  <2>2. PICK e \in ChangeProjectPurposeMode(user, mode) : Commits(e, {}, {}) BY <2>1
  <2>3. Sound(user, e, {}) /\ Plain(e) BY <1>0, ModeSound
  <2> QED BY <1>0, <1>4, <2>2, <2>3, PlainCommand DEF ChangeMode
<1>5. CASE ChangeIntensity
  <2>1. PICK level \in Intensities : \E e \in ChangeBusinessCriticIntensity(user, level) : Commits(e, {}, {})
    BY <1>5 DEF ChangeIntensity
  <2>2. PICK e \in ChangeBusinessCriticIntensity(user, level) : Commits(e, {}, {}) BY <2>1
  <2>3. Sound(user, e, {}) /\ Plain(e) BY <1>0, IntensitySound
  <2> QED BY <1>0, <1>5, <2>2, <2>3, PlainCommand DEF ChangeIntensity
<1>6. CASE Analyze
  <2>1. PICK chosen \in SUBSET load.seeds : \E e \in AnalyzeAmbiguity(user, chosen) : Commits(e, {}, {})
    BY <1>6 DEF Analyze
  <2>2. PICK e \in AnalyzeAmbiguity(user, chosen) : Commits(e, {}, {}) BY <2>1
  <2>3. chosen \in SUBSET Seeds BY Loads
  <2>4. Sound(user, e, {}) /\ Plain(e) BY <1>0, <2>3, AnalyzeSound
  <2> QED BY <1>0, <1>6, <2>2, <2>4, PlainCommand DEF Analyze
<1> QED BY <1>1, <1>2, <1>3, <1>4, <1>5, <1>6

LEMMA QueueCommands ==
    ASSUME IInv, Activate \/ Defer \/ Dismiss \/ Answer
    PROVE  IInv' /\ SoundStep
<1>0. user # None /\ user \in Sessions
  <2>1. user # None BY DEF Activate, Defer, Dismiss, Answer, Asked
  <2> QED BY <2>1 DEF IInv, LockInv, Snapshot
<1>1. CASE Activate
  <2>1. PICK batch \in SUBSET Issues : \E e \in ActivateQuestionBatch(user, batch) : Commits(e, {}, {})
    BY <1>1 DEF Activate
  <2>2. PICK e \in ActivateQuestionBatch(user, batch) : Commits(e, {}, {}) BY <2>1
  <2>3. Sound(user, e, {}) /\ Plain(e) BY <1>0, ActivateSound
  <2> QED BY <1>0, <1>1, <2>2, <2>3, PlainCommand DEF Activate
<1>2. CASE Defer
  <2>1. PICK x \in Items : \E e \in DeferQueueItem(user, x) : Commits(e, {}, {}) BY <1>2 DEF Defer
  <2>2. PICK e \in DeferQueueItem(user, x) : Commits(e, {}, {}) BY <2>1
  <2>3. Sound(user, e, {}) /\ Plain(e) BY <1>0, DeferSound
  <2> QED BY <1>0, <1>2, <2>2, <2>3, PlainCommand DEF Defer
<1>3. CASE Dismiss
  <2>1. PICK x \in Items : \E e \in DismissQueueItem(user, x) : Commits(e, {}, {}) BY <1>3 DEF Dismiss
  <2>2. PICK e \in DismissQueueItem(user, x) : Commits(e, {}, {}) BY <2>1
  <2>3. Sound(user, e, {}) /\ Plain(e) BY <1>0, DismissSound
  <2> QED BY <1>0, <1>3, <2>2, <2>3, PlainCommand DEF Dismiss
<1>4. CASE Answer
  <2>1. PICK i \in Issues, a \in load.answers :
            \E e \in SubmitAnswer(user, session.issues, i, a) : Commits(e, {TaskOfAnswer(user, i, a)}, {})
    BY <1>4 DEF Answer
  <2>2. PICK e \in SubmitAnswer(user, session.issues, i, a) : Commits(e, {TaskOfAnswer(user, i, a)}, {})
    BY <2>1
  <2>3. session.issues \in [Issues -> IssueRecords] BY SessionFields DEF IInv, Snapshot
  <2>4. a \in Answers BY Loads
  <2>5. Sound(user, e, {TaskOfAnswer(user, i, a)}) /\ Plain(e) BY <1>0, <2>3, <2>4, AnswerSound
  <2> QED BY <1>0, <1>4, <2>2, <2>5, PlainCommand DEF Answer
<1> QED BY <1>1, <1>2, <1>3, <1>4

LEMMA ResearchCommands ==
    ASSUME IInv, Plan \/ Import \/ Request \/ ResolveCard \/ Handoff \/ HandOffPrompt \/ Convert
    PROVE  IInv' /\ SoundStep
<1>0. user # None /\ user \in Sessions
  <2>1. user # None BY DEF Plan, Import, Request, ResolveCard, Handoff, HandOffPrompt, Convert, Asked
  <2> QED BY <2>1 DEF IInv, LockInv, Snapshot
<1>1. CASE Plan
  <2>1. PICK o \in Objectives : \E e \in PlanResearch(user, <<"plan", o>>) : Commits(e, {<<"plan", o>>}, {})
    BY <1>1 DEF Plan
  <2>2. PICK e \in PlanResearch(user, <<"plan", o>>) : Commits(e, {<<"plan", o>>}, {}) BY <2>1
  <2>3. <<"plan", o>> \in Tasks \ InitialTasks BY DEF Tasks, InitialTasks
  <2>4. Sound(user, e, {<<"plan", o>>}) /\ Plain(e) BY <1>0, <2>3, PlanSound
  <2> QED BY <1>0, <1>1, <2>2, <2>4, PlainCommand DEF Plan
<1>2. CASE Import
  <2>1. PICK t \in Tasks, r \in load.results, v \in load.versions :
            \E e \in ImportResearchResult(user, t, r) : Commits(e, {}, {<<t, r, v>>})
    BY <1>2 DEF Import
  <2>2. PICK e \in ImportResearchResult(user, t, r) : Commits(e, {}, {<<t, r, v>>}) BY <2>1
  <2>3. r \in Results /\ {<<t, r, v>>} \in SUBSET Jobs BY Loads DEF Jobs
  <2>4. Sound(user, e, {}) /\ Plain(e) /\ t \in user.research.tasks BY <1>0, <2>3, ImportSound
  <2>5. \A j \in {<<t, r, v>>} : j[1] \in user.research.tasks BY <2>4
  <2> QED BY <1>0, <1>2, <2>2, <2>3, <2>4, <2>5, PlainCommand DEF Import
<1>3. CASE Request
  <2>1. PICK t \in Tasks, r \in load.results, v \in load.versions :
            \E e \in RequestSynthesis(user, t, r) : Commits(e, {}, {<<t, r, v>>})
    BY <1>3 DEF Request
  <2>2. PICK e \in RequestSynthesis(user, t, r) : Commits(e, {}, {<<t, r, v>>}) BY <2>1
  <2>3. {<<t, r, v>>} \in SUBSET Jobs BY Loads DEF Jobs
  <2>4. e = Event /\ t \in user.research.tasks BY DEF RequestSynthesis
  <2>5. Sound(user, e, {}) /\ Plain(e) BY <1>0, <2>4, EventSound
  <2>6. \A j \in {<<t, r, v>>} : j[1] \in user.research.tasks BY <2>4
  <2> QED BY <1>0, <1>3, <2>2, <2>3, <2>5, <2>6, PlainCommand DEF Request
<1>4. CASE ResolveCard
  <2>1. PICK t \in Tasks, outcome \in Outcomes \ {"none"} :
            \E e \in ResolveResearchQueueCard(user, t, outcome) : Commits(e, {}, {})
    BY <1>4 DEF ResolveCard
  <2>2. PICK e \in ResolveResearchQueueCard(user, t, outcome) : Commits(e, {}, {}) BY <2>1
  <2>3. Sound(user, e, {}) /\ Plain(e) BY <1>0, ResolveCardSound
  <2> QED BY <1>0, <1>4, <2>2, <2>3, PlainCommand DEF ResolveCard
<1>5. CASE Handoff
  <2>1. PICK verdict \in {"ready", "blocked"} : \E e \in CreatePlanningHandoff(user, verdict) : Commits(e, {}, {})
    BY <1>5 DEF Handoff
  <2>2. PICK e \in CreatePlanningHandoff(user, verdict) : Commits(e, {}, {}) BY <2>1
  <2>3. Sound(user, e, {}) /\ Plain(e) BY <1>0, HandoffSound
  <2> QED BY <1>0, <1>5, <2>2, <2>3, PlainCommand DEF Handoff
<1>6. CASE HandOffPrompt
  <2>1. PICK t \in Turns, status \in {"manual_handoff", "blocked"} :
            \E e \in CreateRuntimePreview(user, t, status, None) : Commits(e, {}, {})
    BY <1>6 DEF HandOffPrompt
  <2>2. PICK e \in CreateRuntimePreview(user, t, status, None) : Commits(e, {}, {}) BY <2>1
  <2>3. Sound(user, e, {}) /\ Plain(e) BY <1>0, RuntimeSound
  <2> QED BY <1>0, <1>6, <2>2, <2>3, PlainCommand DEF HandOffPrompt
<1>7. CASE Convert
  <2>1. PICK t \in Turns, block \in BOOLEAN :
            \E e \in ConvertRuntimeArtifact(user, t, block) : Commits(e, {}, {})
    BY <1>7 DEF Convert
  <2>2. PICK e \in ConvertRuntimeArtifact(user, t, block) : Commits(e, {}, {}) BY <2>1
  <2>3. Sound(user, e, {}) /\ Plain(e) BY <1>0, ConvertSound
  <2> QED BY <1>0, <1>7, <2>2, <2>3, PlainCommand DEF Convert
<1> QED BY <1>1, <1>2, <1>3, <1>4, <1>5, <1>6, <1>7

\* An undecided preview is not the one a version was made of.
LEMMA DecisionCommands ==
    ASSUME IInv, Preview \/ Decide \/ NewVersion
    PROVE  IInv' /\ SoundStep
<1>0. /\ user # None /\ user \in Sessions /\ user.decisions = session.decisions
      /\ session.decisions \in [Previews -> DecisionRecords]
  <2>1. user # None BY DEF Preview, Decide, NewVersion, Asked
  <2> QED BY <2>1, SessionFields DEF IInv, LockInv, Snapshot
<1>1. /\ \A p \in Previews : session.decisions[p] \in DecisionRecords
      /\ session.version # None => session.version[1] \in Previews
  BY <1>0, SessionFields DEF IInv, Snapshot
<1> SUFFICES CoreInv' /\ JobsInv' /\ ExecInv' /\ SoundStep /\ DecisionsInv'
  BY DEF IInv, CoreInv, SoundStep, Follows
<1>2. CASE Preview
  <2>1. PICK p \in Previews, m \in Materials : \E e \in CreateSpecUpdatePreview(user, p, m) : Commits(e, {}, {})
    BY <1>2 DEF Preview
  <2>2. PICK e \in CreateSpecUpdatePreview(user, p, m) : Commits(e, {}, {}) BY <2>1
  <2>3. /\ Sound(user, e, {}) /\ e.version = None
        /\ e.decides = <<p, [status |-> "active", material |-> m]>>
        /\ user.decisions[p].status # "approved"
    BY <1>0, PreviewSound
  <2>4. CoreInv' /\ JobsInv' /\ ExecInv' /\ SoundStep BY <1>0, <2>2, <2>3, CommandCommitted
  <2> DEFINE shown == [status |-> "active", material |-> m]
  <2>5. /\ session'.decisions = [session.decisions EXCEPT ![p] = shown]
        /\ session'.version = session.version /\ approvedAs' = approvedAs
    <3>1. shown \in DecisionRecords BY DEF DecisionRecords
    <3>2. e.decides = <<p, shown>> BY <2>3
    <3> HIDE DEF shown
    <3>3. e.decides # None /\ e.decides[1] = p /\ e.decides[2] = shown BY <3>1, <3>2, NoneApart
    <3> QED BY <1>2, <2>2, <2>3, <3>3 DEF Commits, Persist, Apply, Either, Preview
  <2>6. DecisionsInv' BY <1>0, <1>1, <2>3, <2>5 DEF DecisionsInv, IInv
  <2> QED BY <2>4, <2>6
<1>3. CASE Decide
  <2>1. PICK p \in Previews, outcome \in {"approved", "rejected", "deferred", "risk_accepted"} :
            /\ \E e \in ResolveDecision(user, p, outcome) : Commits(e, {}, {})
            /\ approvedAs' = IF outcome = "approved"
                             THEN [approvedAs EXCEPT ![p] = user.decisions[p].material] ELSE approvedAs
    BY <1>3 DEF Decide
  <2>2. PICK e \in ResolveDecision(user, p, outcome) : Commits(e, {}, {}) BY <2>1
  <2>3. /\ Sound(user, e, {}) /\ e.version = None
        /\ e.decides = <<p, [user.decisions[p] EXCEPT !.status = outcome]>>
        /\ user.decisions[p].status # "approved"
    BY <1>0, DecideSound
  <2>4. CoreInv' /\ JobsInv' /\ ExecInv' /\ SoundStep BY <1>0, <2>2, <2>3, CommandCommitted
  <2> DEFINE decided == [session.decisions[p] EXCEPT !.status = outcome]
  <2>5. /\ session'.decisions = [session.decisions EXCEPT ![p] = decided]
        /\ session'.version = session.version
    <3>1. decided \in DecisionRecords BY <1>1 DEF DecisionRecords
    <3>2. e.decides = <<p, decided>> BY <1>0, <2>3
    <3> HIDE DEF decided
    <3>3. e.decides # None /\ e.decides[1] = p /\ e.decides[2] = decided BY <3>1, <3>2, NoneApart
    <3> QED BY <2>2, <2>3, <3>3 DEF Commits, Persist, Apply, Either
  <2>6. /\ decided.status = outcome /\ decided.material = session.decisions[p].material
        /\ session.decisions[p].material \in Materials \cup {None}
    BY <1>1 DEF DecisionRecords
  <2> HIDE DEF decided
  <2>7. /\ approvedAs' \in [Previews -> Materials \cup {None}]
        /\ \A x \in Previews : approvedAs'[x] = IF x = p /\ outcome = "approved"
                                                THEN session.decisions[p].material ELSE approvedAs[x]
    BY <1>0, <2>1, <2>6 DEF DecisionsInv, IInv
  <2>8. \A x \in Previews : session'.decisions[x] = IF x = p THEN decided ELSE session.decisions[x]
    BY <1>0, <2>5
  <2>9. session.version # None => session.version[1] # p
    BY <1>0, <2>3 DEF DecisionsInv, IInv
  <2>10. DecisionsInv' BY <1>1, <2>5, <2>6, <2>7, <2>8, <2>9 DEF DecisionsInv, IInv
  <2> QED BY <2>4, <2>10
<1>4. CASE NewVersion
  <2>1. PICK p \in Previews : \E e \in CreateSpecVersion(user, p) : Commits(e, {}, {}) BY <1>4 DEF NewVersion
  <2>2. PICK e \in CreateSpecVersion(user, p) : Commits(e, {}, {}) BY <2>1
  <2>3. /\ Sound(user, e, {}) /\ e.decides = None
        /\ e.version = <<p, user.decisions[p].material>> /\ user.decisions[p].status = "approved"
    BY <1>0, VersionSound
  <2>4. CoreInv' /\ JobsInv' /\ ExecInv' /\ SoundStep BY <1>0, <2>2, <2>3, CommandCommitted
  <2>5. e.version # None
    BY <1>0, <1>1, <2>3, NoneApart DEF DecisionRecords
  <2>6. /\ session'.decisions = session.decisions /\ approvedAs' = approvedAs
        /\ session'.version = <<p, session.decisions[p].material>>
    BY <1>0, <1>4, <2>2, <2>3, <2>5 DEF Commits, Persist, Apply, Either, NewVersion
  <2>7. DecisionsInv' BY <1>0, <2>3, <2>6 DEF DecisionsInv, IInv
  <2> QED BY <2>4, <2>7
<1> QED BY <1>2, <1>3, <1>4

\* The session stays as it was.
LEMMA SameSession ==
    ASSUME IInv, session' = session, overwritten' = overwritten, approvedAs' = approvedAs
    PROVE  DecisionsInv' /\ SoundStep
<1>1. session \in Sessions /\ session.research.outcome \in [Tasks -> Outcomes]
  BY SessionFields, ResearchFields DEF IInv, Snapshot
<1>2. ASSUME Consistent(session) PROVE Follows(session, session)
  <2>1. ~Closes(session, session) BY <1>1, SessionFields DEF Closes
  <2> QED BY <1>1, <1>2, <2>1 DEF Follows
<1>3. SoundStep BY <1>2 DEF SoundStep, IInv
<1> QED BY <1>3 DEF IInv, DecisionsInv

\* The lock is taken, or given up without a commit.
LEMMA LockSteps ==
    ASSUME IInv, TakeLock \/ RefuseAnswer \/ Reject
    PROVE  IInv' /\ SoundStep
<1>1. UNCHANGED <<load, session, waits, jobs, tries, turns, exec, overwritten, approvedAs>>
  BY DEF TakeLock, RefuseAnswer, Reject, observed
<1>2. user' = None \/ user' = session BY DEF TakeLock, RefuseAnswer, Reject
<1>3. DecisionsInv' /\ SoundStep BY <1>1, SameSession
<1>4. Snapshot(waits', session') BY <1>1 DEF IInv
<1>5. LockInv' BY <1>1, <1>2, <1>4 DEF LockInv
<1>6. WaitsInv' /\ JobsInv' /\ ExecInv' BY <1>1 DEF IInv, WaitsInv, JobsInv, ExecInv
<1> QED BY <1>1, <1>3, <1>4, <1>5, <1>6 DEF IInv

LEMMA RuntimeIsAsked ==
    ASSUME IInv, AskRuntime
    PROVE  IInv' /\ SoundStep
<1>1. /\ user # None /\ Persist(user, Event, {}, {}) /\ user' = None
      /\ UNCHANGED <<load, tries, exec, refused, again, approvedAs>>
  BY DEF AskRuntime, Asked
<1>2. PICK t \in Turns : turns' = [turns EXCEPT ![t] = Append(@, "queued")] BY DEF AskRuntime
<1>3. Snapshot(waits, user) /\ user.mode = session.mode /\ user \in Sessions BY <1>1 DEF IInv, LockInv, Snapshot
<1>4. Sound(user, Event, {}) /\ Plain(Event) BY <1>3, EventSound
<1>5. Fits(Event, session) /\ ~Conflict({}, {}) BY DEF Fits, Event, Conflict
<1>6. /\ turns' \in [Turns -> Seq(TurnStatuses)]
      /\ \A u \in Turns : DOMAIN turns[u] \subseteq DOMAIN turns'[u]
  <2>1. turns \in [Turns -> Seq(TurnStatuses)] BY DEF IInv, ExecInv
  <2>2. "queued" \in TurnStatuses BY DEF TurnStatuses
  <2>3. Append(turns[t], "queued") \in Seq(TurnStatuses) BY <2>1, <2>2
  <2>4. DOMAIN turns[t] \subseteq DOMAIN Append(turns[t], "queued") BY <2>1
  <2>5. \A u \in Turns : turns'[u] = IF u = t THEN Append(turns[t], "queued") ELSE turns[u]
    BY <1>2, <2>1
  <2> QED BY <1>2, <2>1, <2>3, <2>4, <2>5
<1>7. Remembers BY <1>1, <1>6, Remembered DEF IInv
<1>8. Snapshot(waits', session') /\ WaitsInv' /\ JobsInv' /\ overwritten' \in BOOLEAN /\ SoundStep
  BY <1>1, <1>3, <1>4, <1>5, <1>7, Committed
<1>9. ExecInv' BY <1>1, <1>6, <1>7, ExecKept DEF IInv
<1>10. DecisionsInv'
  <2>1. session'.decisions = session.decisions /\ session'.version = session.version
    BY <1>1, <1>4 DEF Persist, Apply, Either, Plain
  <2> QED BY <1>1, <2>1 DEF DecisionsInv, IInv
<1> QED BY <1>1, <1>8, <1>9, <1>10 DEF IInv, LockInv, SoundStep, Follows

-----------------------------------------------------------------------------
(* The executors *)

\* An executor's commit leaves the mode and the decisions to whoever holds the lock.
LEMMA ExecutorCommitted ==
    ASSUME IInv, NEW s, Snapshot(waits, s), NEW e, NEW tasks,
           Sound(s, e, tasks), Plain(e), e.mode = None, e.intensity = None,
           ~Conflict(tasks, {}), Persist(s, e, tasks, {}),
           UNCHANGED <<load, tries, turns, user, approvedAs>>
    PROVE  CoreInv' /\ JobsInv' /\ DecisionsInv' /\ SoundStep /\ Remembers
<1>1. Remembers BY Remembered DEF IInv
<1>2. Fits(e, session) BY DEF Fits
<1>3. Snapshot(waits', session') /\ WaitsInv' /\ JobsInv' /\ overwritten' \in BOOLEAN /\ SoundStep
  BY <1>1, <1>2, Committed
<1>4. /\ session'.decisions = session.decisions /\ session'.version = session.version
      /\ session'.mode = session.mode
  BY DEF Persist, Apply, Either, Plain
<1>5. LockInv' BY <1>1, <1>4, StillSnapshot DEF IInv, LockInv
<1>6. DecisionsInv' BY <1>4 DEF IInv, DecisionsInv
<1> QED BY <1>1, <1>3, <1>5, <1>6 DEF CoreInv, IInv

\* An executor that leaves the session alone.
LEMMA QuietStep ==
    ASSUME IInv, UNCHANGED <<load, session, user, overwritten, approvedAs>>,
           Remembers, WaitsInv', JobsInv', ExecInv'
    PROVE  IInv' /\ SoundStep
<1>1. DecisionsInv' /\ SoundStep BY SameSession
<1>2. Snapshot(waits', session') /\ LockInv' BY StillSnapshot DEF IInv, LockInv
<1> QED BY <1>1, <1>2 DEF IInv

LEMMA ExecFields ==
    ASSUME IInv, NEW e \in Executors
    PROVE  exec[e] \in ExecRecords /\ Working(waits, jobs, turns, exec[e])
BY DEF IInv, ExecInv

LEMMA IdleWorks ==
    /\ Idle \in ExecRecords
    /\ \A waiting, queued, asked : Working(waiting, queued, asked, Idle)
BY DEF Idle, ExecRecords, Working, Positions

LEMMA PickedUp ==
    ASSUME NEW at, NEW work, NEW number
    PROVE  [Idle EXCEPT !.pc = at, !.job = work, !.attempt = number]
               = [pc |-> at, job |-> work, attempt |-> number, snap |-> None]
<1>1. [Idle EXCEPT !.pc = at] = [pc |-> at, job |-> None, attempt |-> 0, snap |-> None] BY DEF Idle
<1>2. [[pc |-> at, job |-> None, attempt |-> 0, snap |-> None] EXCEPT !.job = work]
          = [pc |-> at, job |-> work, attempt |-> 0, snap |-> None]
  OBVIOUS
<1>3. [[pc |-> at, job |-> work, attempt |-> 0, snap |-> None] EXCEPT !.attempt = number]
          = [pc |-> at, job |-> work, attempt |-> number, snap |-> None]
  OBVIOUS
<1> QED BY <1>1, <1>2, <1>3, Zenon

\* The research effects of a step stay what they may be.
LEMMA JobBecomes ==
    ASSUME JobsInv, NEW j \in Jobs, jobs[j] # "none",
           NEW status \in {"queued", "running", "succeeded", "failed"}, NEW n \in 0 .. MaxAttempts,
           status = "queued" => n < MaxAttempts, status = "succeeded" => waits'[j[1]] # "queued",
           jobs' = [jobs EXCEPT ![j] = status], tries' = [tries EXCEPT ![j] = n],
           \A t \in Tasks : /\ waits[t] # "none" => waits'[t] # "none"
                            /\ waits'[t] = "queued" => waits[t] = "queued"
    PROVE  JobsInv' /\ \A k \in Jobs : jobs[k] # "none" => jobs'[k] # "none"
<1>1. /\ jobs \in [Jobs -> {"none", "queued", "running", "succeeded", "failed"}]
      /\ tries \in [Jobs -> 0 .. MaxAttempts]
  BY DEF JobsInv
<1>2. ASSUME NEW k \in Jobs
      PROVE  /\ jobs'[k] = "none" => tries'[k] = 0
             /\ jobs'[k] = "queued" => tries'[k] < MaxAttempts
             /\ jobs'[k] # "none" => Planned(waits', k[1])
             /\ jobs'[k] = "succeeded" => waits'[k[1]] # "queued"
             /\ jobs[k] # "none" => jobs'[k] # "none"
  <2>1. k[1] \in Tasks BY DEF Jobs
  <2>2. Planned(waits, k[1]) => Planned(waits', k[1]) BY <2>1 DEF Planned
  <2>3. CASE k = j
    <3>1. jobs'[k] = status /\ tries'[k] = n BY <1>1, <2>3
    <3> QED BY <2>2, <2>3, <3>1 DEF JobsInv
  <2>4. CASE k # j
    <3>1. jobs'[k] = jobs[k] /\ tries'[k] = tries[k] BY <1>1, <2>4
    <3> QED BY <2>1, <2>2, <3>1 DEF JobsInv
  <2> QED BY <2>3, <2>4
<1>3. /\ jobs' \in [Jobs -> {"none", "queued", "running", "succeeded", "failed"}]
      /\ tries' \in [Jobs -> 0 .. MaxAttempts]
  BY <1>1
<1> QED BY <1>2, <1>3 DEF JobsInv

\* Once there is evidence of a task, it waits no longer.
LEMMA WaitEnds ==
    ASSUME WaitsInv, NEW t \in Tasks, waits' = EndWait(t)
    PROVE  /\ WaitsInv' /\ waits'[t] # "queued"
           /\ \A u \in Tasks : /\ waits[u] # "none" => waits'[u] # "none"
                               /\ waits'[u] = "queued" => waits[u] = "queued"
<1>1. \A u \in Tasks : waits'[u] = IF u = t /\ waits[t] = "queued" THEN "cancelled" ELSE waits[u]
  BY DEF WaitsInv, EndWait
<1>2. waits' \in [Tasks -> {"none", "queued", "cancelled"}] BY DEF WaitsInv, EndWait
<1> QED BY <1>1, <1>2, Kinds DEF WaitsInv

LEMMA ResearchSteps ==
    ASSUME IInv, NEW e \in Executors, Pick(e) \/ Begin(e) \/ Finish(e) \/ Fail(e)
    PROVE  IInv' /\ SoundStep
<1> DEFINE j == exec[e].job
<1>1. UNCHANGED <<load, session, turns, user, overwritten, approvedAs>>
  BY DEF Pick, Begin, Finish, Fail, observed
<1>2. exec[e] \in ExecRecords /\ Working(waits, jobs, turns, exec[e]) BY ExecFields
<1>3. turns' \in [Turns -> Seq(TurnStatuses)] /\ \A t \in Turns : DOMAIN turns[t] \subseteq DOMAIN turns'[t]
  BY <1>1 DEF IInv, ExecInv
<1>4. /\ jobs \in [Jobs -> {"none", "queued", "running", "succeeded", "failed"}]
      /\ tries \in [Jobs -> 0 .. MaxAttempts]
  BY DEF IInv, JobsInv
<1>5. CASE Pick(e)
  <2>1. PICK k \in Jobs : /\ jobs[k] = "queued"
                          /\ exec' = [exec EXCEPT ![e] = [Idle EXCEPT !.pc = "picked", !.job = k,
                                                                     !.attempt = tries[k] + 1]]
    BY <1>5 DEF Pick
  <2> DEFINE x == [Idle EXCEPT !.pc = "picked", !.job = k, !.attempt = tries[k] + 1]
  <2>2. UNCHANGED <<waits, jobs, tries>> BY <1>5 DEF Pick
  <2>3. tries[k] \in Nat /\ tries[k] < MaxAttempts BY <1>4, <2>1 DEF IInv, JobsInv
  <2>4. tries[k] + 1 \in 1 .. MaxAttempts BY <2>3, SessionAssumption
  <2>5. Working(waits', jobs', turns', x) BY <2>1, <2>2, <2>4 DEF Working, Idle, Positions
  <2>6. x \in ExecRecords
    <3>1. x = [pc |-> "picked", job |-> k, attempt |-> tries[k] + 1, snap |-> None] BY PickedUp
    <3>2. tries[k] + 1 \in Nat BY <2>3
    <3> HIDE DEF x
    <3> QED BY <3>1, <3>2 DEF ExecRecords, Positions
  <2>7. Remembers BY <1>3, <2>2 DEF Remembers
  <2> HIDE DEF x
  <2>8. ExecInv' BY <1>3, <2>1, <2>5, <2>6, <2>7, ExecMoves DEF IInv, x
  <2>9. WaitsInv' /\ JobsInv' BY <2>2 DEF IInv, WaitsInv, JobsInv
  <2> QED BY <1>1, <2>7, <2>8, <2>9, QuietStep
<1>6. CASE Begin(e)
  <2>1. /\ exec[e].pc = "picked" /\ UNCHANGED waits
        /\ jobs' = [jobs EXCEPT ![j] = "running"] /\ tries' = [tries EXCEPT ![j] = exec[e].attempt]
        /\ exec' = [exec EXCEPT ![e].pc = "read", ![e].snap = session]
    BY <1>6 DEF Begin
  <2>2. j \in Jobs /\ exec[e].attempt \in 1 .. MaxAttempts /\ jobs[j] # "none" BY <1>2, <2>1 DEF Working
  <2>3. exec[e].attempt \in 0 .. MaxAttempts BY <2>2
  <2> HIDE DEF j
  <2>4. JobsInv' /\ \A k \in Jobs : jobs[k] # "none" => jobs'[k] # "none"
    BY <2>1, <2>2, <2>3, JobBecomes DEF IInv
  <2>5. Remembers BY <1>3, <2>1, <2>4 DEF Remembers
  <2>6. WaitsInv' BY <2>1 DEF IInv, WaitsInv
  <2> DEFINE x == [exec[e] EXCEPT !.pc = "read", !.snap = session]
  <2>7. exec' = [exec EXCEPT ![e] = x] BY <2>1
  <2>8. session \in Sessions /\ Snapshot(waits', session) BY <2>5, StillSnapshot DEF IInv, Snapshot
  <2>9. x \in ExecRecords BY <1>2, <2>8 DEF ExecRecords, Positions
  <2>10. /\ x.pc = "read" /\ x.snap = session /\ x.job = j /\ x.attempt = exec[e].attempt
    BY <1>2 DEF ExecRecords, j
  <2> HIDE DEF x
  <2>11. Working(waits', jobs', turns', x) BY <2>2, <2>4, <2>8, <2>10 DEF Working, Positions
  <2>12. ExecInv' BY <1>3, <2>5, <2>7, <2>9, <2>11, ExecMoves DEF IInv
  <2> QED BY <1>1, <2>4, <2>5, <2>6, <2>12, QuietStep
<1>7. CASE Finish(e) \/ Fail(e)
  <2>1. exec[e].pc \in {"read", "committed"} BY <1>7 DEF Finish, Fail, Refused
  <2>2. j \in Jobs /\ exec[e].attempt \in 1 .. MaxAttempts /\ jobs[j] # "none" BY <1>2, <2>1 DEF Working
  <2>3. j[1] \in Tasks BY <2>2 DEF Jobs
  <2>4. exec' = [exec EXCEPT ![e] = Idle] BY <1>7 DEF Finish, Fail
  <2>5. waits' = EndWait(j[1]) \/ (UNCHANGED waits /\ ~Finish(e)) BY <1>7 DEF Finish, Fail
  <2> HIDE DEF j
  <2>6. /\ WaitsInv'
        /\ \A u \in Tasks : /\ waits[u] # "none" => waits'[u] # "none"
                            /\ waits'[u] = "queued" => waits[u] = "queued"
        /\ Finish(e) => waits'[j[1]] # "queued"
    <3>1. CASE waits' = EndWait(j[1]) BY <2>3, <3>1, WaitEnds DEF IInv
    <3>2. CASE UNCHANGED waits /\ ~Finish(e) BY <3>2 DEF IInv, WaitsInv
    <3> QED BY <2>5, <3>1, <3>2
  <2>7. PICK status \in {"queued", "succeeded", "failed"}, n \in 0 .. MaxAttempts :
           /\ jobs' = [jobs EXCEPT ![j] = status] /\ tries' = [tries EXCEPT ![j] = n]
           /\ status = "queued" => n < MaxAttempts
           /\ status = "succeeded" => Finish(e)
    <3>1. MaxAttempts \in 0 .. MaxAttempts /\ exec[e].attempt \in 0 .. MaxAttempts
      BY <2>2, SessionAssumption
    <3>2. CASE Finish(e) BY <3>1, <3>2 DEF Finish, j
    <3>3. CASE Fail(e) BY <3>1, <3>3 DEF Fail, j
    <3> QED BY <1>7, <3>2, <3>3
  <2>8. JobsInv' /\ \A k \in Jobs : jobs[k] # "none" => jobs'[k] # "none"
    BY <2>2, <2>6, <2>7, JobBecomes DEF IInv
  <2>9. Remembers BY <1>3, <2>6, <2>8 DEF Remembers
  <2>10. ExecInv' BY <1>3, <2>4, <2>9, IdleWorks, ExecMoves DEF IInv
  <2> QED BY <1>1, <2>6, <2>8, <2>9, <2>10, QuietStep
<1> QED BY <1>5, <1>6, <1>7

\* The evidence of an executor's snapshot.
LEMMA SynthesisStep ==
    ASSUME IInv, NEW e \in Executors, Synthesize(e)
    PROVE  IInv' /\ SoundStep
<1> DEFINE j == exec[e].job
           snap == exec[e].snap
<1>1. exec[e] \in ExecRecords /\ Working(waits, jobs, turns, exec[e]) BY ExecFields
<1>2. /\ exec[e].pc = "read" /\ j \notin snap.research.evidence
      /\ exec' = [exec EXCEPT ![e].pc = "committed", ![e].snap = None]
      /\ UNCHANGED <<load, tries, turns, user, again, refused, approvedAs>>
  BY DEF Synthesize
<1>3. j \in Jobs /\ exec[e].attempt \in 1 .. MaxAttempts /\ jobs[j] # "none" /\ Snapshot(waits, snap)
  BY <1>1, <1>2 DEF Working
<1>4. PICK ev \in Syntheses(e) : /\ ~Conflict(FollowUpTasks(DOMAIN ev.opens), {})
                                 /\ Persist(snap, ev, FollowUpTasks(DOMAIN ev.opens), {})
  BY DEF Synthesize
<1>5. PICK n \in 0 .. MaxQuestions : /\ NamesLeft(session.issues, Added(snap, j, n))
                                     /\ ev \in SynthesizeEvidence(snap, session.issues, j, n)
  BY DEF Syntheses, Added
<1>6. snap \in Sessions /\ session.issues \in [Issues -> IssueRecords]
  BY <1>3, SessionFields DEF IInv, Snapshot
<1> HIDE DEF j, snap
<1>7. Sound(snap, ev, FollowUpTasks(DOMAIN ev.opens)) /\ Plain(ev) /\ ev.mode = None /\ ev.intensity = None
  BY <1>2, <1>3, <1>5, <1>6, SynthesisSound, SessionAssumption
<1>8. CoreInv' /\ JobsInv' /\ DecisionsInv' /\ SoundStep /\ Remembers
  BY <1>2, <1>3, <1>4, <1>7, ExecutorCommitted
<1> DEFINE x == [exec[e] EXCEPT !.pc = "committed", !.snap = None]
<1>9. exec' = [exec EXCEPT ![e] = x] BY <1>2
<1>10. x \in ExecRecords BY <1>1 DEF ExecRecords, Positions
<1>11. x.pc = "committed" /\ x.snap = None /\ x.job = j /\ x.attempt = exec[e].attempt
  BY <1>1 DEF ExecRecords, j
<1> HIDE DEF x
<1>12. Working(waits', jobs', turns', x)
  BY <1>3, <1>8, <1>11 DEF Working, Positions, Remembers
<1>13. turns' \in [Turns -> Seq(TurnStatuses)] BY <1>2 DEF IInv, ExecInv
<1>14. ExecInv' BY <1>8, <1>9, <1>10, <1>12, <1>13, ExecMoves DEF IInv
<1> QED BY <1>8, <1>14 DEF IInv, CoreInv, SoundStep, Follows

\* A runtime effect changes its status.
LEMMA TurnMoves ==
    ASSUME IInv, NEW t \in Turns, NEW k \in DOMAIN turns[t], NEW status \in TurnStatuses,
           turns' = [turns EXCEPT ![t][k] = status]
    PROVE  /\ turns' \in [Turns -> Seq(TurnStatuses)]
           /\ \A u \in Turns : DOMAIN turns[u] \subseteq DOMAIN turns'[u]
<1>1. turns \in [Turns -> Seq(TurnStatuses)] BY DEF IInv, ExecInv
<1> DEFINE new == [turns[t] EXCEPT ![k] = status]
<1>2. new \in Seq(TurnStatuses) /\ DOMAIN new = DOMAIN turns[t] BY <1>1
<1>3. turns' = [turns EXCEPT ![t] = new] OBVIOUS
<1> HIDE DEF new
<1>4. \A u \in Turns : turns'[u] = IF u = t THEN new ELSE turns[u] BY <1>1, <1>3
<1> QED BY <1>1, <1>2, <1>3, <1>4

LEMMA TurnSteps ==
    ASSUME IInv, NEW e \in Executors, PickTurn(e) \/ AskTurn(e) \/ Unavailable(e) \/ FinishTurn(e) \/ FailTurn(e)
    PROVE  IInv' /\ SoundStep
<1> DEFINE t == exec[e].job
           k == exec[e].attempt
<1>1. UNCHANGED <<load, session, waits, jobs, tries, user, overwritten, approvedAs>>
  BY DEF PickTurn, AskTurn, Unavailable, FinishTurn, FailTurn, observed
<1>2. exec[e] \in ExecRecords /\ Working(waits, jobs, turns, exec[e]) BY ExecFields
<1>3. turns \in [Turns -> Seq(TurnStatuses)] BY DEF IInv, ExecInv
<1>4. CASE PickTurn(e)
  <2>1. PICK u \in Turns : \E n \in DOMAIN turns[u] :
           exec' = [exec EXCEPT ![e] = [Idle EXCEPT !.pc = "turn", !.job = u, !.attempt = n]]
    BY <1>4 DEF PickTurn
  <2>2. PICK n \in DOMAIN turns[u] :
           exec' = [exec EXCEPT ![e] = [Idle EXCEPT !.pc = "turn", !.job = u, !.attempt = n]]
    BY <2>1
  <2> DEFINE x == [pc |-> "turn", job |-> u, attempt |-> n, snap |-> None]
  <2>3. exec' = [exec EXCEPT ![e] = x] BY <2>2, PickedUp
  <2>4. n \in Nat BY <1>3
  <2>5. UNCHANGED turns BY <1>4 DEF PickTurn
  <2>6. x \in ExecRecords BY <2>4 DEF ExecRecords, Positions
  <2>7. Working(waits', jobs', turns', x) BY <2>5 DEF Working, Positions
  <2>8. Remembers BY <1>1, <2>5 DEF Remembers
  <2> HIDE DEF x
  <2>9. ExecInv' BY <1>3, <2>3, <2>5, <2>6, <2>7, <2>8, ExecMoves DEF IInv
  <2>10. WaitsInv' /\ JobsInv' BY <1>1 DEF IInv, WaitsInv, JobsInv
  <2> QED BY <1>1, <2>8, <2>9, <2>10, QuietStep
<1>5. CASE AskTurn(e) \/ Unavailable(e) \/ FinishTurn(e) \/ FailTurn(e)
  <2>1. exec[e].pc \in {"turn", "asked", "unavailable", "answered", "handed"}
    BY <1>5 DEF AskTurn, Unavailable, FinishTurn, FailTurn
  <2>2. t \in Turns /\ k \in DOMAIN turns[t] BY <1>2, <2>1 DEF Working
  <2>3. UNCHANGED turns \/ \E status \in TurnStatuses : turns' = [turns EXCEPT ![t][k] = status]
    BY <1>5 DEF AskTurn, Unavailable, FinishTurn, FailTurn, TurnBecomes, TurnStatuses
  <2>4. exec' = [exec EXCEPT ![e] = Idle] \/ \E pc \in {"asked", "unavailable"} :
           exec' = [exec EXCEPT ![e].pc = pc, ![e].snap = session]
    BY <1>5 DEF AskTurn, Unavailable, FinishTurn, FailTurn
  <2> HIDE DEF t, k
  <2>5. /\ turns' \in [Turns -> Seq(TurnStatuses)]
        /\ \A u \in Turns : DOMAIN turns[u] \subseteq DOMAIN turns'[u]
    BY <1>3, <2>2, <2>3, TurnMoves
  <2>6. Remembers BY <1>1, <2>5 DEF Remembers
  <2>7. WaitsInv' /\ JobsInv' BY <1>1 DEF IInv, WaitsInv, JobsInv
  <2>8. CASE exec' = [exec EXCEPT ![e] = Idle]
    <3>1. ExecInv' BY <2>5, <2>6, <2>8, IdleWorks, ExecMoves DEF IInv
    <3> QED BY <1>1, <2>6, <2>7, <3>1, QuietStep
  <2>9. CASE \E pc \in {"asked", "unavailable"} : exec' = [exec EXCEPT ![e].pc = pc, ![e].snap = session]
    <3>1. PICK pc \in {"asked", "unavailable"} : exec' = [exec EXCEPT ![e].pc = pc, ![e].snap = session]
      BY <2>9
    <3> DEFINE x == [exec[e] EXCEPT !.pc = pc, !.snap = session]
    <3>2. exec' = [exec EXCEPT ![e] = x] BY <3>1
    <3>3. session \in Sessions /\ Snapshot(waits', session) BY <2>6, StillSnapshot DEF IInv, Snapshot
    <3>4. x \in ExecRecords BY <1>2, <3>3 DEF ExecRecords, Positions
    <3>5. x.pc = pc /\ x.snap = session /\ x.job = t /\ x.attempt = k BY <1>2 DEF ExecRecords, t, k
    <3> HIDE DEF x
    <3>6. Working(waits', jobs', turns', x) BY <2>2, <2>5, <3>3, <3>5 DEF Working, Positions
    <3>7. ExecInv' BY <2>5, <2>6, <3>2, <3>4, <3>6, ExecMoves DEF IInv
    <3> QED BY <1>1, <2>6, <2>7, <3>7, QuietStep
  <2> QED BY <2>4, <2>8, <2>9
<1> QED BY <1>4, <1>5

LEMMA TurnCommitted ==
    ASSUME IInv, NEW e \in Executors, CommitTurn(e)
    PROVE  IInv' /\ SoundStep
<1> DEFINE t == exec[e].job
           k == exec[e].attempt
           snap == exec[e].snap
<1>1. exec[e] \in ExecRecords /\ Working(waits, jobs, turns, exec[e]) BY ExecFields
<1>2. /\ exec[e].pc \in {"asked", "unavailable"}
      /\ UNCHANGED <<load, tries, turns, user, again, refused, approvedAs>>
      /\ \E pc \in {"answered", "handed"} : exec' = [exec EXCEPT ![e].pc = pc, ![e].snap = None]
      /\ \E status \in {"preview_ready", "blocked", "manual_handoff"} :
            \E ev \in CreateRuntimePreview(snap, t, status, k) : Persist(snap, ev, {}, {})
  BY DEF CommitTurn
<1>3. t \in Turns /\ k \in DOMAIN turns[t] /\ Snapshot(waits, snap) BY <1>1, <1>2 DEF Working
<1>4. snap \in Sessions /\ k \in Nat BY <1>1, <1>3 DEF Snapshot, ExecRecords
<1> HIDE DEF t, k, snap
<1>5. PICK status \in {"preview_ready", "blocked", "manual_handoff"} :
         \E ev \in CreateRuntimePreview(snap, t, status, k) : Persist(snap, ev, {}, {})
  BY <1>2
<1>6. PICK ev \in CreateRuntimePreview(snap, t, status, k) : Persist(snap, ev, {}, {}) BY <1>5
<1>7. Sound(snap, ev, {}) /\ Plain(ev) /\ ev.mode = None /\ ev.intensity = None
  BY <1>3, <1>4, RuntimeSound
<1>8. ~Conflict({}, {}) BY DEF Conflict
<1>9. CoreInv' /\ JobsInv' /\ DecisionsInv' /\ SoundStep /\ Remembers
  BY <1>2, <1>3, <1>6, <1>7, <1>8, ExecutorCommitted
<1>10. PICK pc \in {"answered", "handed"} : exec' = [exec EXCEPT ![e].pc = pc, ![e].snap = None] BY <1>2
<1> DEFINE x == [exec[e] EXCEPT !.pc = pc, !.snap = None]
<1>11. exec' = [exec EXCEPT ![e] = x] BY <1>10
<1>12. x \in ExecRecords BY <1>1 DEF ExecRecords, Positions
<1>13. x.pc = pc /\ x.snap = None /\ x.job = t /\ x.attempt = k BY <1>1 DEF ExecRecords, t, k
<1> HIDE DEF x
<1>14. Working(waits', jobs', turns', x) BY <1>2, <1>3, <1>13 DEF Working, Positions
<1>15. turns' \in [Turns -> Seq(TurnStatuses)] BY <1>2 DEF IInv, ExecInv
<1>16. ExecInv' BY <1>9, <1>11, <1>12, <1>14, <1>15, ExecMoves DEF IInv
<1> QED BY <1>9, <1>16 DEF IInv, CoreInv, SoundStep, Follows

-----------------------------------------------------------------------------
(* The specification *)

LEMMA EmptyTyped == EmptySession \in Sessions
<1>1. Absent \in IssueRecords /\ Absent.count = 0 /\ Absent.critic = 0
  BY DEF Absent, Issue, IssueRecords, Origins, Intensities
<1>2. [i \in Issues |-> Absent] \in [Issues -> IssueRecords] BY <1>1
<1>3. [x \in Items |-> Nowhere] \in Queues BY DEF Queues, Nowhere, Places, Outcomes
<1>4. EmptySession.research \in Research BY DEF EmptySession, Research, Outcomes
<1>5. [p \in Previews |-> [status |-> "none", material |-> None]] \in [Previews -> DecisionRecords]
  BY DEF DecisionRecords
<1>6. [t \in Turns |-> NoArtifact] \in Artifacts BY DEF NoArtifact, Artifacts
<1>7. EmptySession \in SessionRecords
  BY <1>2, <1>3, <1>4, <1>5, <1>6 DEF EmptySession, SessionRecords, Stages, Handoffs
<1>8. RepeatLimits[FALSE] \in Nat BY DecisionQueueAssumption
<1>9. \A i \in Issues : EmptySession.issues[i].count <= RepeatLimits[EmptySession.issues[i].critic > 0]
  <2>1. ASSUME NEW i \in Issues PROVE EmptySession.issues[i].count <= RepeatLimits[EmptySession.issues[i].critic > 0]
    <3>1. EmptySession.issues[i] = Absent BY DEF EmptySession
    <3>2. (Absent.critic > 0) = FALSE BY <1>1
    <3>3. RepeatLimits[EmptySession.issues[i].critic > 0] = RepeatLimits[FALSE] BY <3>1, <3>2, Zenon
    <3>4. EmptySession.issues[i].count = 0 BY <1>1, <3>1, Zenon
    <3>5. \A n \in Nat : 0 <= n OBVIOUS
    <3>6. 0 <= RepeatLimits[FALSE] BY <1>8, <3>5, Zenon
    <3> QED BY <3>3, <3>4, <3>6, Zenon
  <2> QED BY <2>1
<1> QED BY <1>7, <1>9 DEF Sessions, EmptySession

LEMMA DraftedTyped ==
    ASSUME NEW mode \in Modes, NEW level \in Intensities \cup {None}, mode # "business" => level = None
    PROVE  Drafted(mode, level) \in Sessions
<1>1. EmptySession \in SessionRecords /\ EmptySession \in Sessions BY EmptyTyped DEF Sessions
<1>2. Drafted(mode, level) \in SessionRecords BY <1>1 DEF Drafted, SessionRecords, Stages
<1>3. Drafted(mode, level).issues = EmptySession.issues /\ Drafted(mode, level).mode = mode
      /\ Drafted(mode, level).intensity = level
  BY DEF Drafted, EmptySession
<1> QED BY <1>1, <1>2, <1>3 DEF Sessions

LEMMA InitInv == Init => IInv
<1> SUFFICES ASSUME Init PROVE IInv
  OBVIOUS
<1>1. /\ load \in Workloads /\ session = load.from
      /\ \/ load.from \in {EmptySession, Drafted("personal", None)}
         \/ \E level \in Intensities \cup {None} : load.from = Drafted("business", level)
  BY SessionAssumption DEF Init
<1>2. session \in Sessions BY <1>1, EmptyTyped, DraftedTyped DEF Modes
<1>3. /\ session.issues = [i \in Issues |-> Absent] /\ session.queue = [x \in Items |-> Nowhere]
      /\ session.research.tasks = {} /\ session.research.outcome = [t \in Tasks |-> "none"]
      /\ session.decisions = [p \in Previews |-> [status |-> "none", material |-> None]]
      /\ session.version = None
  <2>1. \A mode, level :
           /\ Drafted(mode, level).issues = EmptySession.issues /\ Drafted(mode, level).queue = EmptySession.queue
           /\ Drafted(mode, level).research = EmptySession.research
           /\ Drafted(mode, level).decisions = EmptySession.decisions
           /\ Drafted(mode, level).version = EmptySession.version
    BY DEF Drafted, EmptySession
  <2>2. /\ session.issues = EmptySession.issues /\ session.queue = EmptySession.queue
        /\ session.research = EmptySession.research /\ session.decisions = EmptySession.decisions
        /\ session.version = EmptySession.version
    BY <1>1, <2>1
  <2> QED BY <2>2 DEF EmptySession
<1>4. Snapshot(waits, session) BY <1>2, <1>3 DEF Snapshot
<1>5. Consistent(session)
  <2>1. \A i \in Issues : session.issues[i].status = "absent" BY <1>3 DEF Absent, Issue
  <2>2. Bounded(session)
    <3>1. \A t \in Tasks : FollowUpsOf(session, t) = {} /\ Pressing(session, t) = {}
      BY <2>1 DEF FollowUpsOf, Pressing, Existing
    <3>2. Cardinality({}) = 0 BY FS_EmptySet
    <3>3. \A n \in Nat : 0 <= n OBVIOUS
    <3>4. 0 <= RepeatLimits[TRUE] BY <3>3, LimitsAreNumbers, Zenon
    <3> QED BY <3>1, <3>2, <3>4, Zenon DEF Bounded
  <2> QED BY <1>3, <2>2, Kinds DEF Consistent, Nowhere, Absent, Issue, Unclosed
<1>6. LockInv BY DEF Init, LockInv
<1>7. WaitsInv BY Kinds DEF Init, WaitsInv
<1>8. JobsInv
  <2>1. 0 \in 0 .. MaxAttempts BY SessionAssumption
  <2> QED BY <2>1 DEF Init, JobsInv
<1>9. ExecInv BY IdleWorks DEF Init, ExecInv
<1>10. DecisionsInv BY <1>3 DEF Init, DecisionsInv
<1> QED BY <1>1, <1>4, <1>5, <1>6, <1>7, <1>8, <1>9, <1>10 DEF IInv, Init

LEMMA StepInv == IInv /\ [Next]_vars => IInv' /\ SoundStep
<1> SUFFICES ASSUME IInv, [Next]_vars PROVE IInv' /\ SoundStep
  OBVIOUS
<1>1. CASE TakeLock BY <1>1, LockSteps
<1>2. CASE Command
  <2>1. \/ Start \/ Intake \/ Draft \/ ChangeMode \/ ChangeIntensity \/ Analyze
        \/ Activate \/ Defer \/ Dismiss \/ Answer
        \/ Plan \/ Import \/ Request \/ ResolveCard \/ Handoff \/ HandOffPrompt \/ Convert
        \/ Preview \/ Decide \/ NewVersion
        \/ AskRuntime \/ RefuseAnswer \/ Reject
    BY <1>2 DEF Command
  <2> QED BY <2>1, SessionCommands, QueueCommands, ResearchCommands, DecisionCommands, RuntimeIsAsked, LockSteps
<1>3. ASSUME NEW e \in load.executors, Executor(e) \/ Runtime(e) PROVE IInv' /\ SoundStep
  <2>1. e \in Executors BY Loads
  <2>2. \/ Pick(e) \/ Begin(e) \/ Finish(e) \/ Fail(e) \/ Synthesize(e)
        \/ PickTurn(e) \/ AskTurn(e) \/ Unavailable(e) \/ FinishTurn(e) \/ FailTurn(e) \/ CommitTurn(e)
    BY <1>3 DEF Executor, Runtime
  <2> QED BY <2>1, <2>2, ResearchSteps, SynthesisStep, TurnSteps, TurnCommitted
<1>4. CASE UNCHANGED vars
  <2>1. UNCHANGED <<load, session, waits, jobs, tries, turns, user, exec, overwritten, approvedAs>>
    BY <1>4 DEF vars, observed
  <2>2. Remembers BY <2>1 DEF Remembers
  <2>3. WaitsInv' /\ JobsInv' /\ ExecInv' BY <2>1 DEF IInv, WaitsInv, JobsInv, ExecInv
  <2> QED BY <2>1, <2>2, <2>3, QuietStep
<1> QED BY <1>1, <1>2, <1>3, <1>4 DEF Next

LEMMA Invariance == Spec => []IInv
BY InitInv, StepInv, PTL DEF Spec

\* The invariant's consequences about one state and one step.
LEMMA InvTypes == IInv => TypeOK
<1> SUFFICES ASSUME IInv PROVE TypeOK
  OBVIOUS
<1>1. session \in Sessions /\ user \in Sessions \cup {None} BY DEF IInv, LockInv, Snapshot
<1>2. ASSUME NEW e \in Executors PROVE exec[e].snap \in Sessions \cup {None}
  <2>1. exec[e] \in ExecRecords BY ExecFields
  <2> QED BY <2>1 DEF ExecRecords
<1> QED BY <1>1, <1>2 DEF TypeOK, IInv, WaitsInv, JobsInv

\* Whatever a session, its commands and its executors have done: the log replays to a
\* session of the right kind, in which no question was repeated beyond the limit of
\* the critic that asks it and only a business has an intensity; no snapshot that may
\* still be committed is of another kind, and an effect is tried at most MaxAttempts
\* times.
THEOREM SessionsAreWellTyped == Spec => []TypeOK
BY Invariance, InvTypes, PTL

\* Delivered evidence ends the wait of its task (NoWaitAfterSuccess): commits and
\* attempts that come later, from whatever snapshot, never plan that task again.
THEOREM DeliveryEndsTheWait == Spec => []NoWaitAfterSuccess
<1>1. IInv => NoWaitAfterSuccess BY DEF IInv, JobsInv, NoWaitAfterSuccess
<1> QED BY <1>1, Invariance, PTL

\* A spec version holds what was approved (VersionIsApproved), however many previews,
\* decisions and executors' commits came before and after the approval.
THEOREM VersionsHoldApprovals == Spec => []VersionIsApproved
<1>1. IInv => VersionIsApproved BY DEF IInv, DecisionsInv, VersionIsApproved
<1> QED BY <1>1, Invariance, PTL

\* Research cannot keep asking (FollowUpsAreBounded), however often its source was
\* dropped, analyzed again or asked at another intensity.
THEOREM ResearchAsksWithinLimits == Spec => []FollowUpsAreBounded
<1>1. IInv => FollowUpsAreBounded
  BY DEF IInv, Consistent, Bounded, Pressing, FollowUpsAreBounded
<1> QED BY <1>1, Invariance, PTL

\* As long as no commit overwrote another, open questions are offered and go on being
\* offered, and nothing closed is offered (QuestionsKeepComing).
THEOREM OfferedQuestionsGoOn == Spec => QuestionsKeepComing
<1>1. IInv /\ [Next]_vars /\ ~overwritten' =>
        /\ \A i \in Issues :
              session'.queue[i].at \in {"active", "next"} => session'.issues[i].status = "open"
        /\ Closing \/ Offers(session) => Offers(session') \/ ~Waiting(session')
  <2> SUFFICES ASSUME IInv, [Next]_vars, ~overwritten'
               PROVE  /\ \A i \in Issues :
                            session'.queue[i].at \in {"active", "next"} => session'.issues[i].status = "open"
                      /\ Closing \/ Offers(session) => Offers(session') \/ ~Waiting(session')
    OBVIOUS
  <2>1. Follows(session, session') BY StepInv DEF SoundStep
  <2>2. Closing => Closes(session, session') BY DEF Closing, Closes
  <2> QED BY <2>1, <2>2 DEF Follows, Consistent
<1> QED BY <1>1, Invariance, PTL DEF Spec, QuestionsKeepComing

\* A settled review card stays settled until evidence comes that was not there before,
\* or an analysis asks its question anew that was dropped with its intensity
\* (SettledUntilNewEvidence).
THEOREM SettledCardsStay == Spec => SettledUntilNewEvidence
<1>1. IInv /\ [Next]_vars =>
        \A t \in Tasks :
          /\ ~overwritten'
          /\ session.research.outcome[t] # "none" /\ session'.research.outcome[t] = "none"
          => \/ \E j \in session'.research.evidence \ session.research.evidence : j[1] = t
             \/ /\ t[1] = "initial"
                /\ session.issues[t[2]].status = "gone" /\ session'.issues[t[2]].status = "open"
  BY StepInv DEF SoundStep, Follows, Reopens
<1> QED BY <1>1, Invariance, PTL DEF Spec, SettledUntilNewEvidence

\* A handoff is ready only when every research card of the session has an outcome, or
\* shows one it had before an analysis planned it again (ReadyMeansReviewed).
THEOREM HandoffsAreReviewed == Spec => ReadyMeansReviewed
<1>1. IInv /\ [Next]_vars =>
        (~overwritten' /\ session'.handoff = "ready" /\ session.handoff # "ready"
         => \A t \in session.research.tasks :
               session.research.outcome[t] # "none" \/ (t[1] = "initial" /\ session.queue[t].shows # "none"))
  BY StepInv DEF SoundStep, Follows, Reviewed
<1> QED BY <1>1, Invariance, PTL DEF Spec, ReadyMeansReviewed
=============================================================================
