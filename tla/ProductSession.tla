----------------------------- MODULE ProductSession -----------------------------
(***************************************************************************)
(* One session of the sidecar: its event log, the commands of its users,   *)
(* the effect tasks, and the executors of research evidence and of runtime *)
(* previews.                                                               *)
(*                                                                         *)
(* A command holds the session's lock from reading the log to committing   *)
(* its events with their effect tasks.  An executor commits a command of   *)
(* its own, SynthesizeEvidence or CreateRuntimePreview, without that lock, *)
(* and no commit compares the log with the one its events were computed    *)
(* from.                                                                   *)
(***************************************************************************)
EXTENDS DecisionQueue, Sequences

CONSTANTS
    Executors,      \* effects under way at once
    MaxAsked,       \* bound on the effect tasks of a turn
    MaxAttempts,    \* of an effect task (three in the source)
    MaxResults,     \* bound on imported results
    MaxQuestions,   \* bound on the additional questions of an evidence matrix
    Workloads       \* what the users of a session do, for each kind of session

\* A session that was drafted, of a business or a personal project.
Drafted(mode, level) == [EmptySession EXCEPT !.stage = "drafted", !.mode = mode, !.intensity = level]

\* A workload: the session it starts from, the commands sent, the questions analyses generate,
\* the answers given, the results imported, those whose memory file may fail to be written,
\* the synthesis versions asked for, the executors that run.
ASSUME SessionAssumption ==
    /\ \A w \in Workloads :
          /\ DOMAIN w = {"from", "commands", "seeds", "answers", "results", "unwritable", "versions", "executors"}
          /\ \/ w.from \in {EmptySession, Drafted("personal", None)}
             \/ \E level \in Intensities \cup {None} : w.from = Drafted("business", level)
          /\ w.seeds \subseteq Seeds /\ w.answers \subseteq Answers /\ w.executors \subseteq Executors
          /\ w.results \subseteq Results /\ w.unwritable \subseteq w.results
          /\ w.versions \subseteq 1 .. MaxVersion
    /\ {MaxAttempts, MaxResults, MaxQuestions, MaxAsked} \subseteq Nat /\ MaxAttempts >= 1

VARIABLES
    load,       \* the workload of this session
    session,    \* what the log replays to
    waits,      \* per task, its effect research:<task>
    jobs,       \* per result and version, its effect research-result:<result>:v<version>
    tries,      \* attempts of each job
    turns,      \* per turn, its effects codex:<turn> and then codex:<turn>:retry:<event>
    user,       \* the snapshot of the command that holds the lock, or None
    exec,       \* the executors
    overwritten,\* observation: something was committed from a snapshot that was not the latest
    again,      \* observation: questions answered although they were answered already
    refused,    \* observation: questions whose answer was refused as a duplicate
    approvedAs  \* observation: the material of each preview when it was approved

observed == <<overwritten, again, refused, approvedAs>>
vars == <<load, session, waits, jobs, tries, turns, user, exec, observed>>

Idle == [pc |-> "idle", job |-> None, attempt |-> 0, snap |-> None]

Init ==
    /\ load \in Workloads
    /\ session = load.from
    /\ waits = [t \in Tasks |-> "none"]
    /\ jobs = [j \in Jobs |-> "none"]
    /\ tries = [j \in Jobs |-> 0]
    /\ turns = [t \in Turns |-> <<>>]
    /\ user = None
    /\ exec = [e \in Executors |-> Idle]
    /\ overwritten = FALSE /\ again = {} /\ refused = {}
    /\ approvedAs = [p \in Previews |-> None]

-----------------------------------------------------------------------------
(* Commits *)

\* Mutant of Conflict: only an effect that still waits is a duplicate.
ConflictIfQueued(tasks, queued) ==
    (\E t \in tasks : waits[t] = "queued") \/ (\E j \in queued : jobs[j] \in {"queued", "running"})

\* An effect of the same key exists, in whatever status.
Conflict(tasks, queued) ==
    (\E t \in tasks : waits[t] # "none") \/ (\E j \in queued : jobs[j] # "none")

\* The transaction: events computed from snap are appended to the log as it is now,
\* with the effect tasks they plan.
Persist(snap, e, tasks, queued) ==
    /\ session' = Apply(session, e)
    /\ waits' = [t \in Tasks |-> IF t \in tasks THEN "queued" ELSE waits[t]]
    /\ jobs' = [j \in Jobs |-> IF j \in queued THEN "queued" ELSE jobs[j]]
    /\ overwritten' = (overwritten \/ snap # session)

\* runCommand under the lock, and the lock given up.
Commits(e, tasks, queued) ==
    /\ ~Conflict(tasks, queued)
    /\ Persist(user, e, tasks, queued)
    /\ user' = None
    /\ UNCHANGED <<load, tries, turns, exec, refused>>

\* A command reads the log.
TakeLock ==
    /\ user = None
    /\ user' = session
    /\ UNCHANGED <<load, session, waits, jobs, tries, turns, exec, observed>>

\* Every other command needs a session that was started.
Asked(command) ==
    /\ user # None /\ command \in load.commands
    /\ user.stage # "new" \/ command = "start"

Start ==
    /\ Asked("start")
    /\ \E mode \in {"business", "personal"}, level \in Intensities \cup {None} :
          \E e \in StartProject(user, mode, level) : Commits(e, {}, {})
    /\ UNCHANGED <<again, approvedAs>>

Intake ==
    /\ Asked("intake")
    /\ \E e \in CaptureIntake(user) : Commits(e, {}, {})
    /\ UNCHANGED <<again, approvedAs>>

Draft ==
    /\ Asked("draft")
    /\ \E e \in DraftInitialSpec(user) : Commits(e, {}, {})
    /\ UNCHANGED <<again, approvedAs>>

ChangeMode ==
    /\ Asked("mode")
    /\ \E mode \in {"business", "personal"} :
          \E e \in ChangeProjectPurposeMode(user, mode) : Commits(e, {}, {})
    /\ UNCHANGED <<again, approvedAs>>

ChangeIntensity ==
    /\ Asked("intensity")
    /\ \E level \in Intensities :
          \E e \in ChangeBusinessCriticIntensity(user, level) : Commits(e, {}, {})
    /\ UNCHANGED <<again, approvedAs>>

\* Only some sessions are analyzed a second time.
Analyze ==
    /\ Asked("analyze")
    /\ Existing(session.issues) = {} \/ "reanalyze" \in load.commands
    /\ \E chosen \in SUBSET load.seeds : \E e \in AnalyzeAmbiguity(user, chosen) : Commits(e, {}, {})
    /\ again' = {} /\ UNCHANGED approvedAs

Activate ==
    /\ Asked("activate")
    /\ \E batch \in SUBSET Issues : \E e \in ActivateQuestionBatch(user, batch) : Commits(e, {}, {})
    /\ UNCHANGED <<again, approvedAs>>

Defer ==
    /\ Asked("defer")
    /\ \E x \in Items : \E e \in DeferQueueItem(user, x) : Commits(e, {}, {})
    /\ UNCHANGED <<again, approvedAs>>

Dismiss ==
    /\ Asked("dismiss")
    /\ \E x \in Items : \E e \in DismissQueueItem(user, x) : Commits(e, {}, {})
    /\ UNCHANGED <<again, approvedAs>>

Answer ==
    /\ Asked("answer")
    /\ \E i \in Issues, a \in load.answers :
          /\ \E e \in SubmitAnswer(user, session.issues, i, a) : Commits(e, {TaskOfAnswer(user, i, a)}, {})
          /\ again' = IF session.issues[i].status = "answered" THEN again \cup {i} ELSE again
    /\ UNCHANGED approvedAs

\* An answer that plans a task whose effect exists: IDEMPOTENCY_CONFLICT.
RefuseAnswer ==
    /\ Asked("answer")
    /\ \E i \in Issues, a \in load.answers :
          /\ user.queue[i].at = "active"
          /\ Conflict({TaskOfAnswer(user, i, a)}, {})
          /\ refused' = refused \cup {i}
    /\ user' = None
    /\ UNCHANGED <<load, session, waits, jobs, tries, turns, exec, overwritten, again, approvedAs>>

Plan ==
    /\ Asked("plan")
    /\ \E o \in Objectives : \E e \in PlanResearch(user, <<"plan", o>>) : Commits(e, {<<"plan", o>>}, {})
    /\ UNCHANGED <<again, approvedAs>>

Import ==
    /\ Asked("import")
    /\ \E t \in Tasks, r \in load.results, v \in load.versions :
          /\ Cardinality(session.research.results \cup {<<t, r>>}) <= MaxResults
          /\ \E e \in ImportResearchResult(user, t, r) : Commits(e, {}, {<<t, r, v>>})
    /\ UNCHANGED <<again, approvedAs>>

Request ==
    /\ Asked("request")
    /\ \E t \in Tasks, r \in load.results, v \in load.versions :
          \E e \in RequestSynthesis(user, t, r) : Commits(e, {}, {<<t, r, v>>})
    /\ UNCHANGED <<again, approvedAs>>

ResolveCard ==
    /\ Asked("resolve")
    /\ \E t \in Tasks, outcome \in Outcomes \ {"none"} :
          \E e \in ResolveResearchQueueCard(user, t, outcome) : Commits(e, {}, {})
    /\ UNCHANGED <<again, approvedAs>>

Handoff ==
    /\ Asked("handoff")
    /\ \E verdict \in {"ready", "blocked"} :
          \E e \in CreatePlanningHandoff(user, verdict) : Commits(e, {}, {})
    /\ UNCHANGED <<again, approvedAs>>

Preview ==
    /\ Asked("preview")
    /\ \E p \in Previews, m \in Materials :
          \E e \in CreateSpecUpdatePreview(user, p, m) : Commits(e, {}, {})
    /\ UNCHANGED <<again, approvedAs>>

Decide ==
    /\ Asked("decide")
    /\ \E p \in Previews, outcome \in {"approved", "rejected", "deferred", "risk_accepted"} :
          /\ \E e \in ResolveDecision(user, p, outcome) : Commits(e, {}, {})
          /\ approvedAs' = IF outcome = "approved"
                           THEN [approvedAs EXCEPT ![p] = user.decisions[p].material] ELSE approvedAs
    /\ UNCHANGED again

NewVersion ==
    /\ Asked("version")
    /\ \E p \in Previews : \E e \in CreateSpecVersion(user, p) : Commits(e, {}, {})
    /\ UNCHANGED <<again, approvedAs>>

\* A user's own handoff of a turn, or the artifact of a turn that may not be done.
HandOffPrompt ==
    /\ Asked("prompt")
    /\ \E t \in Turns, status \in {"manual_handoff", "blocked"} :
          \E e \in CreateRuntimePreview(user, t, status, None) : Commits(e, {}, {})
    /\ UNCHANGED <<again, approvedAs>>

Convert ==
    /\ Asked("convert")
    /\ \E t \in Turns, block \in BOOLEAN :
          \E e \in ConvertRuntimeArtifact(user, t, block) : Commits(e, {}, {})
    /\ UNCHANGED <<again, approvedAs>>

Pending(t) == 1 \in DOMAIN turns[t] /\ turns[t][1] \in {"queued", "running"}

\* A turn is asked again once its first effect is settled; the effects of later
\* requests are not looked at.
AskRuntime ==
    /\ Asked("ask")
    /\ \E t \in Turns :
          /\ Len(turns[t]) < MaxAsked
          /\ ~Pending(t)
          /\ turns' = [turns EXCEPT ![t] = Append(@, "queued")]
    /\ Persist(user, Event, {}, {})
    /\ user' = None
    /\ UNCHANGED <<load, tries, exec, refused, again, approvedAs>>

\* Any other refusal, and commands that fail validation.
Reject ==
    /\ user # None
    /\ user' = None
    /\ UNCHANGED <<load, session, waits, jobs, tries, turns, exec, observed>>

-----------------------------------------------------------------------------
(* The executor of research evidence *)

\* A job is picked from a listing of queued effects.
Pick(e) ==
    /\ exec[e].pc = "idle"
    /\ \E j \in Jobs :
          /\ jobs[j] = "queued"
          /\ exec' = [exec EXCEPT ![e] = [Idle EXCEPT !.pc = "picked", !.job = j, !.attempt = tries[j] + 1]]
    /\ UNCHANGED <<load, session, waits, jobs, tries, turns, user, observed>>

\* It is marked running, whatever it is by now, and the log is read.
Begin(e) ==
    /\ exec[e].pc = "picked"
    /\ jobs' = [jobs EXCEPT ![exec[e].job] = "running"]
    /\ tries' = [tries EXCEPT ![exec[e].job] = exec[e].attempt]
    /\ exec' = [exec EXCEPT ![e].pc = "read", ![e].snap = session]
    /\ UNCHANGED <<load, session, waits, turns, user, observed>>

\* The events its command may make, with up to MaxQuestions additional questions.
Syntheses(e) ==
    LET j == exec[e].job
        snap == exec[e].snap
    IN UNION {SynthesizeEvidence(snap, session.issues, j, n) : n \in
                  {m \in 0 .. MaxQuestions :
                      NamesLeft(session.issues, {<<"research", j, k>> : k \in Repeats(RepeatBase(snap, j[1]), m, CriticOf(snap, j[1]))})}}

\* The command is committed from that snapshot, without the lock.
Synthesize(e) ==
    LET j == exec[e].job
        snap == exec[e].snap
    IN /\ exec[e].pc = "read"
       /\ j \notin snap.research.evidence
       /\ \E ev \in Syntheses(e) :
             /\ ~Conflict(FollowUpTasks(DOMAIN ev.opens), {})
             /\ Persist(snap, ev, FollowUpTasks(DOMAIN ev.opens), {})
       /\ exec' = [exec EXCEPT ![e].pc = "committed", ![e].snap = None]
       /\ UNCHANGED <<load, tries, turns, user, again, refused, approvedAs>>

\* Whether the evidence of an executor's job is there: in the snapshot, when it was
\* there before, or in the log as it is now.
Found(e) ==
    LET seen == IF exec[e].pc = "read" THEN exec[e].snap ELSE session IN
    exec[e].job \in seen.research.evidence

\* Mutant of EndWait: the task is left waiting.
LeaveWait(t) == waits

\* The evidence of a task ends the wait for its result.
EndWait(t) == [waits EXCEPT ![t] = IF @ = "queued" THEN "cancelled" ELSE @]

Finish(e) ==
    LET j == exec[e].job IN
    /\ exec[e].pc \in {"read", "committed"} /\ Found(e)
    /\ waits' = EndWait(j[1])
    /\ jobs' = [jobs EXCEPT ![j] = IF j[2] \in Poor THEN "failed" ELSE "succeeded"]
    /\ tries' = [tries EXCEPT ![j] = IF j[2] \in Poor THEN MaxAttempts ELSE exec[e].attempt]
    /\ exec' = [exec EXCEPT ![e] = Idle]
    /\ UNCHANGED <<load, session, turns, user, observed>>

\* The command is rejected, for its research or as a duplicate.
Refused(e) ==
    /\ exec[e].pc = "read" /\ ~Found(e)
    /\ \/ SynthesizeEvidence(exec[e].snap, session.issues, exec[e].job, 0) = {}
       \/ \E ev \in Syntheses(e) : Conflict(FollowUpTasks(DOMAIN ev.opens), {})

\* Another attempt: the command was rejected, its evidence was overwritten, or the
\* research memory of the evidence cannot be written.
Fail(e) ==
    LET j == exec[e].job IN
    /\ \/ Refused(e) /\ UNCHANGED waits
       \/ exec[e].pc = "committed" /\ ~Found(e) /\ UNCHANGED waits
       \/ /\ exec[e].pc \in {"read", "committed"} /\ Found(e)
          /\ j[2] \in load.unwritable \ Poor
          /\ waits' = EndWait(j[1])
    /\ jobs' = [jobs EXCEPT ![j] = IF exec[e].attempt < MaxAttempts THEN "queued" ELSE "failed"]
    /\ tries' = [tries EXCEPT ![j] = exec[e].attempt]
    /\ exec' = [exec EXCEPT ![e] = Idle]
    /\ UNCHANGED <<load, session, turns, user, observed>>

-----------------------------------------------------------------------------
(* The executor of runtime previews: job is a turn, attempt the number of its effect *)

PickTurn(e) ==
    /\ exec[e].pc = "idle"
    /\ \E t \in Turns : \E k \in DOMAIN turns[t] :
          /\ turns[t][k] = "queued"
          /\ exec' = [exec EXCEPT ![e] = [Idle EXCEPT !.pc = "turn", !.job = t, !.attempt = k]]
    /\ UNCHANGED <<load, session, waits, jobs, tries, turns, user, observed>>

TurnBecomes(e, status) == turns' = [turns EXCEPT ![exec[e].job][exec[e].attempt] = status]

\* The log is read, and the runtime is asked.
AskTurn(e) ==
    /\ exec[e].pc = "turn"
    /\ TurnBecomes(e, "running")
    /\ exec' = [exec EXCEPT ![e].pc = "asked", ![e].snap = session]
    /\ UNCHANGED <<load, session, waits, jobs, tries, user, observed>>

\* The runtime is not there: the log is read again, for a manual handoff.
Unavailable(e) ==
    /\ exec[e].pc = "asked"
    /\ exec' = [exec EXCEPT ![e].pc = "unavailable", ![e].snap = session]
    /\ UNCHANGED <<load, session, waits, jobs, tries, turns, user, observed>>

CommitTurn(e) ==
    /\ \/ exec[e].pc = "asked" /\ exec' = [exec EXCEPT ![e].pc = "answered", ![e].snap = None]
       \/ exec[e].pc = "unavailable" /\ exec' = [exec EXCEPT ![e].pc = "handed", ![e].snap = None]
    /\ \E status \in IF exec[e].pc = "asked" THEN {"preview_ready", "blocked"} ELSE {"manual_handoff"} :
          \E ev \in CreateRuntimePreview(exec[e].snap, exec[e].job, status, exec[e].attempt) :
             Persist(exec[e].snap, ev, {}, {})
    /\ UNCHANGED <<load, tries, turns, user, again, refused, approvedAs>>

\* The artifact of this effect is looked for in the log as it is now.
Made(e) == session.artifacts[exec[e].job].by = exec[e].attempt

FinishTurn(e) ==
    /\ exec[e].pc \in {"answered", "handed"}
    /\ IF Made(e)
       THEN TurnBecomes(e, IF session.artifacts[exec[e].job].status = "blocked" /\ exec[e].pc = "answered"
                           THEN "blocked" ELSE "succeeded")
       \* Without its artifact an answer has failed; a handoff throws, and stays running.
       ELSE IF exec[e].pc = "answered" THEN TurnBecomes(e, "failed") ELSE UNCHANGED turns
    /\ exec' = [exec EXCEPT ![e] = Idle]
    /\ UNCHANGED <<load, session, waits, jobs, tries, user, observed>>

\* The answer of the runtime does not fit what it was asked, or it has failed.
FailTurn(e) ==
    /\ exec[e].pc = "asked"
    /\ TurnBecomes(e, "failed")
    /\ exec' = [exec EXCEPT ![e] = Idle]
    /\ UNCHANGED <<load, session, waits, jobs, tries, user, observed>>

Runtime(e) == PickTurn(e) \/ AskTurn(e) \/ Unavailable(e) \/ CommitTurn(e) \/ FinishTurn(e) \/ FailTurn(e)

Executor(e) == Pick(e) \/ Begin(e) \/ Synthesize(e) \/ Finish(e) \/ Fail(e)

Command ==
    \/ Start \/ Intake \/ Draft \/ ChangeMode \/ ChangeIntensity
    \/ Analyze \/ Activate \/ Defer \/ Dismiss \/ Answer \/ RefuseAnswer
    \/ Plan \/ Import \/ Request \/ ResolveCard \/ Handoff
    \/ Preview \/ Decide \/ NewVersion
    \/ HandOffPrompt \/ Convert \/ AskRuntime \/ Reject

Next == TakeLock \/ Command \/ \E e \in load.executors : Executor(e) \/ Runtime(e)

Spec == Init /\ [][Next]_vars

-----------------------------------------------------------------------------
(* Properties *)

TypeOK ==
    /\ session \in Sessions /\ user \in Sessions \cup {None}
    /\ \A e \in Executors : exec[e].snap \in Sessions \cup {None}
    /\ waits \in [Tasks -> {"none", "queued", "cancelled"}]
    /\ jobs \in [Jobs -> {"none", "queued", "running", "succeeded", "failed"}]
    /\ tries \in [Jobs -> 0 .. MaxAttempts]

Offers(s)  == \E i \in Askable(s.issues) : s.queue[i].at = "active"
Waiting(s) == \E i \in Askable(s.issues) : s.queue[i].at \in {"next", "none"}
Closing == \E i \in Issues : session.issues[i].status = "open"
                           /\ session'.issues[i].status \in {"answered", "deferred", "resolved"}

\* As long as no commit overwrote another, the queue offers open questions and keeps
\* offering them: what is active or next has not been closed or dropped with the
\* intensity that asked it, and neither the end of a question nor any command after an
\* offer leaves open questions behind with none active
\* (queueProjectionWithRefilledActiveQuestions at the end of each command).
QuestionsKeepComing ==
    [][~overwritten' =>
        /\ \A i \in Issues :
              session'.queue[i].at \in {"active", "next"} => session'.issues[i].status = "open"
        /\ Closing \/ Offers(session) => Offers(session') \/ ~Waiting(session')]_vars

\* Research cannot keep asking: over all its results and synthesis versions, a task has
\* no more follow-ups than a repeat limit allows, and no more of a critic than the
\* critic's, also when its source question was dropped or analyzed again in between
\* and is counted from zero (docs/product_EN.md:53, repeated questions converge).
FollowUpsAreBounded ==
    ~overwritten => \A t \in Tasks :
        LET asked == FollowUpsOf(session, t)
            pressing == {i \in asked : session.issues[i].critic > 0}
        IN /\ Cardinality(pressing) <= RepeatLimits[TRUE]
           /\ \E critic \in BOOLEAN : Cardinality(asked) <= RepeatLimits[critic]

\* No task waits for a result whose evidence a job has delivered, whatever was
\* overwritten.
NoWaitAfterSuccess ==
    \A j \in Jobs : jobs[j] = "succeeded" => waits[j[1]] # "queued"

\* A settled card comes back for review only with new evidence about its task, or when
\* an analysis asks a question anew that is researched only and was dropped with its
\* intensity: no repeated plan, answer or analysis starts another card again (the conflict
\* with the effects of tasks already planned; initial research has no such effect).
SettledUntilNewEvidence ==
    [][\A t \in Tasks :
          /\ ~overwritten'
          /\ session.research.outcome[t] # "none" /\ session'.research.outcome[t] = "none"
          => \/ \E j \in session'.research.evidence \ session.research.evidence : j[1] = t
             \/ /\ t[1] = "initial"
                /\ session.issues[t[2]].status = "gone" /\ session'.issues[t[2]].status = "open"]_vars

\* A session is handed off as ready only with an outcome on every review card, also
\* on those the queue does not list: batches and dismissals take items off it.  A card
\* started again by an analysis may still show its earlier outcome in the queue.
ReadyMeansReviewed ==
    [][~overwritten' /\ session'.handoff = "ready" /\ session.handoff # "ready"
       => \A t \in session.research.tasks :
             session.research.outcome[t] # "none" \/ (t[1] = "initial" /\ session.queue[t].shows # "none")]_vars

\* A spec version holds the material that was approved, whatever was previewed
\* before or after the approval.
VersionIsApproved ==
    session.version # None => session.version[2] = approvedAs[session.version[1]]

\* "The answered card cannot be submitted a second time."
\* (apps/sidecar/src/server.test.ts:8137)
AnsweredOnce == again = {}

\* "The same action was already handled." (decision-queue-shell-model.ts:177): an
\* answer refused as a duplicate was recorded before.
ConflictMeansHandled ==
    \A i \in refused : session.issues[i].status = "answered"
=============================================================================
