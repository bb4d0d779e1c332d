--------------------------- MODULE AutoImplementation ---------------------------
(***************************************************************************)
(* The auto implementation runs of one session: workspace creation with    *)
(* its GitHub issues, the delivery stages, local Codex worker jobs with    *)
(* the ledger they report into, and the pull request mutations.            *)
(*                                                                         *)
(* All runs of a session live in one projection.  Every request reads the  *)
(* whole projection, changes the copy and saves the copy, unguarded.       *)
(* Reads and writes of the database do not let another request in between; *)
(* the waits that do are the preparation of a workspace, a Codex worker,   *)
(* the gh command line, the session queue, and the files written before    *)
(* each save.  A request suspended in one of them is a handler.            *)
(***************************************************************************)
EXTENDS Naturals, Sequences, FiniteSets

CONSTANTS
    RunIds,         \* a run's id is made of the session and the request's key
    Folders,        \* workspace folders
    ReviewStages,   \* number of review stages (four in the source)
    Keys,           \* idempotency keys
    UserSteps,      \* ledger steps that no worker job planned
    Handlers,       \* requests that may be under way at once
    Workloads,      \* what the clients of a session may ask for: see Workload
    None

\* initial_pr, the reviews, final_verify_pr_update and merge_main, in order.
InitialPr   == 1
FinalVerify == ReviewStages + 2
MergeMain   == ReviewStages + 3
Stages      == InitialPr .. MergeMain

StageStatuses == {"pending", "ready", "running", "paused", "completed", "blocked"}
RunStatuses   == {"pending", "running", "paused", "blocked", "completed"}
JobMissing    == {"nothing", "authority", "execution", "ledger_import", "ledger_step"}
Mutations     == {"open_pr", "update_pr_body", "merge_pr"}

\* What the clients ask for, fixed when the session starts: which requests, on how
\* many runs and keys, which stage actions, which ledger steps the user records with
\* own commands and what those make of them; "serial" when each request is sent
\* after the last one was answered, as the web shell does.  Records, crashes and
\* the last stage that is worked on are bounds.
Workload ==
    [ops : SUBSET {"issues", "complete", "job", "advance", "worker", "mutate", "refusal"},
     runs : SUBSET RunIds, keys : SUBSET Keys,
     actions : SUBSET {"tick", "start", "pause", "block"},
     own : SUBSET ((RunIds \X Stages) \cup UserSteps),
     outcomes : SUBSET {"open", "completed", "verified"},
     records : Nat, crashes : Nat, last : Stages, serial : BOOLEAN]

ASSUME AutoAssumption ==
    /\ ReviewStages \in Nat
    /\ Workloads \subseteq Workload
    /\ None \notin RunIds
    /\ IsFiniteSet(Handlers)

PlannedStep(r, stage) == <<r, stage>>
Steps == (RunIds \X Stages) \cup UserSteps
Docs  == (RunIds \X Stages \X Keys) \cup {"user"}

Jobs      == [stage : Stages, key : Keys, status : {"planned", "blocked", "completed"},
              missing : JobMissing]
PrRecords == [action : Mutations, key : Keys, status : {"blocked", "dry_run_ready", "applied"},
              url : BOOLEAN]

Runs == [id : RunIds, folder : Folders, connected : BOOLEAN, issues : BOOLEAN,
         current : Stages, status : RunStatuses,
         plan : [Stages -> [status : StageStatuses, step : Steps \cup {None}]],
         jobs : Seq(Jobs), prs : Seq(PrRecords),
         acts : SUBSET (Stages \X {"tick", "start", "pause", "block", "complete"} \X Keys)]

NewRun(r, folder, connected, issues) ==
    [id |-> r, folder |-> folder, connected |-> connected, issues |-> issues,
     current |-> InitialPr, status |-> "pending",
     plan |-> [i \in Stages |->
                 [status |-> IF i = InitialPr THEN "ready" ELSE "pending", step |-> None]],
     jobs |-> <<>>, prs |-> <<>>, acts |-> {}]

VARIABLES
    load,       \* the workload of the session, which never changes
    proj,       \* the stored projection: the runs, in order of creation
    ledger,     \* the step ledger, as far as stages and workers read it
    handler,    \* what each request under way waits for, and its copy
    queue,      \* the session queue: handlers in order of arrival
    crashes,
    effects,    \* observation: what gh has done
    recorded,   \* observation: the applied mutations that were ever stored
    repeated    \* observation: mutations asked of gh although recorded before

vars == <<load, proj, ledger, handler, queue, crashes, effects, recorded, repeated>>

Idle == [phase |-> "idle"]
IsIdle(h) == handler[h].phase = "idle"
IdOf(runs)   == {runs[i].id : i \in DOMAIN runs}
RunOf(runs, r) == runs[CHOOSE i \in DOMAIN runs : runs[i].id = r]

\* Mutant of With: the changed run is added beside the old one.
WithAdded(runs, run) == Append(runs, run)

With(runs, run) == [i \in DOMAIN runs |-> IF runs[i].id = run.id THEN run ELSE runs[i]]

\* The contract wants the updated run to be the last one of the projection.
Valid(runs, run) == runs # <<>> /\ runs[Len(runs)].id = run.id

-----------------------------------------------------------------------------
(* Saving: the workspace files first, then the whole projection. *)

\* A request that has its new projection; an invalid one ends it here.
Continue(h, runs, run) ==
    handler' = [handler EXCEPT ![h] =
        IF Valid(runs, run) THEN [phase |-> "syncing", out |-> With(runs, run)] ELSE Idle]

\* Mutant of Leave: a request gives the queue back only when it saves.
LeaveAfterSave(h) ==
    queue' = IF handler[h].phase = "syncing" /\ queue # <<>> /\ Head(queue) = h
             THEN Tail(queue) ELSE queue

\* Whoever holds the session queue, its first request, gives it back when it ends.
Leave(h) == queue' = IF queue # <<>> /\ Head(queue) = h THEN Tail(queue) ELSE queue
LeaveIfEnded(h) == IF handler'[h] = Idle THEN Leave(h) ELSE UNCHANGED queue

Applied(run) == {<<run.id, run.prs[i].action>> : i \in {j \in DOMAIN run.prs :
                    run.prs[j].status = "applied" /\ run.prs[j].action # "update_pr_body"}}
RecordedIn(runs) ==
    (UNION {Applied(runs[i]) : i \in DOMAIN runs})
    \cup {<<runs[i].folder, "issues">> : i \in {j \in DOMAIN runs : runs[j].issues}}

Save(h) ==
    /\ handler[h].phase = "syncing"
    /\ proj' = handler[h].out
    /\ recorded' = recorded \cup RecordedIn(handler[h].out)
    /\ handler' = [handler EXCEPT ![h] = Idle]
    /\ Leave(h)
    /\ UNCHANGED <<ledger, crashes, effects, repeated>>

\* The workspace files could not be written: nothing is saved.
SyncFails(h) ==
    /\ handler[h].phase = "syncing"
    /\ handler' = [handler EXCEPT ![h] = Idle]
    /\ Leave(h)
    /\ UNCHANGED <<proj, ledger, crashes, effects, recorded, repeated>>

-----------------------------------------------------------------------------
(* Creating a run *)

\* Mutant of CanCreateIssues: issues of an earlier run are not looked for.
CanAlwaysCreateIssues(runs, folder) == folder \in Folders

CanCreateIssues(runs, folder) ==
    ~\E i \in DOMAIN runs : runs[i].folder = folder /\ runs[i].issues

CreateRun(h, r, folder, approved) ==
    /\ IsIdle(h)
    /\ r \notin IdOf(proj)
    /\ approved => CanCreateIssues(proj, folder)
    /\ handler' = [handler EXCEPT ![h] =
          [phase |-> "preparing", run |-> r, folder |-> folder, approved |-> approved,
           snap |-> proj]]
    /\ UNCHANGED <<proj, ledger, queue, crashes, effects, recorded, repeated>>

\* gh is asked for an effect: done or not, it is noted if it was recorded before.
Asks(effect, done) ==
    /\ effects' = IF done THEN effects \cup {effect} ELSE effects
    /\ repeated' = IF effect \in recorded THEN repeated \cup {effect} ELSE repeated

\* Issues are created only when approved and the remote is connected.
PrepareWorkspace(h, connected) ==
    LET p == handler[h]
        issues == p.approved /\ connected
        run == NewRun(p.run, p.folder, connected, issues)
    IN /\ p.phase = "preparing"
       /\ Continue(h, Append(p.snap, run), run)
       /\ IF issues THEN Asks(<<p.folder, "issues">>, TRUE) ELSE UNCHANGED <<effects, repeated>>
       /\ UNCHANGED <<proj, ledger, queue, crashes, recorded>>

\* It fails, before or after some issues were created.
PrepareFails(h) ==
    /\ handler[h].phase = "preparing"
    /\ handler' = [handler EXCEPT ![h] = Idle]
    /\ \/ UNCHANGED <<effects, repeated>>
       \/ handler[h].approved /\ \E done \in BOOLEAN : Asks(<<handler[h].folder, "issues">>, done)
    /\ UNCHANGED <<proj, ledger, queue, crashes, recorded>>

-----------------------------------------------------------------------------
(* Stages *)

\* Mutant of CompletedStep: a step the ledger has merely heard of.
RecordedStep(step, stage) ==
    /\ step \in DOMAIN ledger.rows
    /\ stage = MergeMain => ledger.rows[step].verified

CompletedStep(step, stage) ==
    /\ step \in DOMAIN ledger.rows
    /\ ledger.rows[step].done
    /\ stage = MergeMain => ledger.rows[step].verified

Merged(run) == \E i \in DOMAIN run.prs :
                  run.prs[i].action = "merge_pr" /\ run.prs[i].status = "applied"

StageStatusFor(action, status) ==
    CASE action = "start"    -> "running"
      [] action = "pause"    -> "paused"
      [] action = "block"    -> "blocked"
      [] action = "complete" -> "completed"
      [] action = "tick"     -> status

RunStatusFor(action, stage, status) ==
    IF action = "complete" /\ stage = MergeMain THEN "completed"
    ELSE IF action = "complete" THEN "running" ELSE StageStatusFor(action, status)

\* Time is left out: the tick that must be due before a stage completes may be due.
\* A stage that is completed keeps its ledger evidence; no other stage has any.
ConsistentStage(entry) == (entry.status = "completed") <=> (entry.step # None)

\* Mutant of StageMayBe: the merge is unchecked.
StageMayBeWithoutMerge(run, action, step) ==
    /\ run.status = "completed" => action = "tick"
    /\ action = "complete" =>
          /\ \A i \in Stages \ {run.current} : run.plan[i].step # step
          /\ CompletedStep(step, run.current)

\* What recordAutoImplementationStageProjection asks of the run it read.
StageMayBe(run, action, step) ==
    /\ run.status = "completed" => action = "tick"
    /\ action = "complete" =>
          /\ \A i \in Stages \ {run.current} : run.plan[i].step # step
          /\ run.current = MergeMain => Merged(run)
          /\ CompletedStep(step, run.current)

StageRecorded(run, action, key, step) ==
    LET s == run.current
        entry == [status |-> StageStatusFor(action, run.plan[s].status),
                  step |-> IF action = "complete" THEN step ELSE run.plan[s].step]
        next == action = "complete" /\ s < MergeMain
    IN [run EXCEPT
          !.current = IF next THEN s + 1 ELSE s,
          !.status = RunStatusFor(action, s, run.status),
          !.plan = [i \in Stages |->
                      IF i = s THEN entry
                      ELSE IF next /\ i = s + 1 THEN [run.plan[i] EXCEPT !.status = "ready"]
                      ELSE run.plan[i]],
          !.acts = @ \cup {<<s, action, key>>}]

\* The body of the stage endpoint, also reached from the worker's advance.
RecordsStage(h, r, action, key, step) ==
    LET run == RunOf(proj, r)
        updated == StageRecorded(run, action, key, step)
    IN /\ <<run.current, action, key>> \notin run.acts
       /\ StageMayBe(run, action, step)
       /\ \A i \in Stages : ConsistentStage(updated.plan[i])
       /\ Valid(proj, run)
       /\ Continue(h, proj, updated)
       /\ UNCHANGED <<proj, ledger, queue, crashes, effects, recorded, repeated>>

RecordStage(h, r, action, key, step) ==
    /\ IsIdle(h) /\ r \in IdOf(proj)
    /\ action # "complete" => step = None
    /\ RecordsStage(h, r, action, key, step)

-----------------------------------------------------------------------------
(* Worker jobs *)

WithJob(run, j, job) == [run EXCEPT !.jobs[j] = job,
                                    !.status = IF job.status = "blocked" THEN "blocked" ELSE "running"]

CanImport(job)   == job.status = "planned" \/ job.missing \in {"ledger_step", "ledger_import", "execution"}
CanRun(job)      == job.status = "planned" \/ job.missing = "execution"
CanComplete(job) == job.status = "planned" \/ job.missing = "ledger_step"

CurrentJobs(run) == {j \in DOMAIN run.jobs : run.jobs[j].stage = run.current}

\* Mutant of CanPlan: any blocked job may be planned again.
CanPlanOverBlocked(run) ==
    /\ run.status # "completed"
    /\ \A j \in CurrentJobs(run) : run.jobs[j].status = "blocked"

CanPlan(run) ==
    /\ run.status # "completed"
    /\ \A j \in CurrentJobs(run) :
          (\A k \in CurrentJobs(run) : k <= j)
             => run.jobs[j].status = "blocked" /\ ~CanImport(run.jobs[j])

Authority(ready) == IF ready THEN "nothing" ELSE "authority"
Blocked(job, missing) == [job EXCEPT !.status = "blocked", !.missing = missing]
Done(job) == [job EXCEPT !.status = "completed", !.missing = "nothing"]

CreateWorkerJob(h, r, key, ready) ==
    LET run == RunOf(proj, r)
        job == [stage |-> run.current, key |-> key,
                status |-> IF ready THEN "planned" ELSE "blocked", missing |-> Authority(ready)]
    IN /\ IsIdle(h) /\ r \in IdOf(proj)
       /\ \A j \in DOMAIN run.jobs : ~(run.jobs[j].stage = run.current /\ run.jobs[j].key = key)
       /\ CanPlan(run)
       /\ Valid(proj, run)
       /\ Continue(h, proj,
             [run EXCEPT !.jobs = Append(@, job),
                         !.status = IF ready THEN "running" ELSE "blocked"])
       /\ UNCHANGED <<proj, ledger, queue, crashes, effects, recorded, repeated>>

\* The ledger has completed the step the job planned, under the documents it planned.
LedgerMatchesPlan(r, job) ==
    LET step == PlannedStep(r, job.stage) IN
    /\ CompletedStep(step, job.stage)
    /\ ledger.tracker = r
    /\ ledger.rows[step].doc = <<r, job.stage, job.key>>

OnCurrentJob(r, j) ==
    /\ r \in IdOf(proj)
    /\ j \in DOMAIN RunOf(proj, r).jobs
    /\ RunOf(proj, r).jobs[j].status # "completed"
    /\ RunOf(proj, r).jobs[j].stage = RunOf(proj, r).current

CompleteWorkerJob(h, r, j) ==
    LET run == RunOf(proj, r)
        job == run.jobs[j]
    IN /\ IsIdle(h) /\ OnCurrentJob(r, j) /\ CanComplete(job)
       /\ Valid(proj, run)
       /\ Continue(h, proj, WithJob(run, j,
             IF LedgerMatchesPlan(r, job) THEN Done(job) ELSE Blocked(job, "ledger_step")))
       /\ UNCHANGED <<proj, ledger, queue, crashes, effects, recorded, repeated>>

\* A completed job advances its stage through the stage endpoint.
AdvanceWorkerStage(h, r, j, key) ==
    /\ IsIdle(h) /\ r \in IdOf(proj)
    /\ LET run == RunOf(proj, r) IN
          /\ j \in DOMAIN run.jobs
          /\ run.jobs[j].status = "completed" /\ run.jobs[j].stage = run.current
          /\ LedgerMatchesPlan(r, run.jobs[j])
          /\ RecordsStage(h, r, "complete", key, PlannedStep(r, run.current))

-----------------------------------------------------------------------------
(* The session queue: ledger commands, ledger imports and worker runs *)

\* A RecordImplementationStepLedger command is accepted under the tracker of the
\* ledger and the document of the step, and leaves the step completed or not.
Accepts(tracker, step, doc) ==
    /\ ledger.tracker \in {None, tracker}
    /\ step \in DOMAIN ledger.rows => ledger.rows[step].doc = doc

LedgerWith(tracker, step, doc, done, verified) ==
    [tracker |-> tracker,
     rows |-> [s \in DOMAIN ledger.rows \cup {step} |->
                 IF s = step THEN [doc |-> doc, done |-> done, verified |-> verified]
                 ELSE ledger.rows[s]],
     ever |-> IF done THEN ledger.ever \cup {step} ELSE ledger.ever]

\* One ledger command of the user's own.
RecordLedgerStep(tracker, step, doc, done, verified) ==
    /\ queue = <<>>
    /\ Accepts(tracker, step, doc)
    /\ ledger' = LedgerWith(tracker, step, doc, done, verified)
    /\ UNCHANGED <<proj, handler, queue, crashes, effects, recorded, repeated>>

Enqueue(h, op, r, j) ==
    /\ IsIdle(h)
    /\ r \in IdOf(proj) /\ j \in DOMAIN RunOf(proj, r).jobs
    /\ handler' = [handler EXCEPT ![h] = [phase |-> "queued", op |-> op, run |-> r, job |-> j]]
    /\ queue' = Append(queue, h)
    /\ UNCHANGED <<proj, ledger, crashes, effects, recorded, repeated>>

HasTurn(h, op) == handler[h].phase = "queued" /\ handler[h].op = op /\ queue[1] = h

\* importAutoImplementationWorkerLedgerProjectionWithinSessionLock: the commands of
\* the worker's output are run one after the other; the job is completed when they
\* complete its step, and blocked otherwise.  "reported" is what the output holds:
\* commands for other documents, none that completes, or the whole path.
ImportsLedger(h, r, j, reported, verified) ==
    LET run == RunOf(proj, r)
        job == run.jobs[j]
        step == PlannedStep(r, job.stage)
        doc == <<r, job.stage, job.key>>
        accepted == reported # "other" /\ Accepts(r, step, doc)
        done == accepted /\ reported = "complete"
        proves == done /\ (job.stage = MergeMain => verified)
    IN /\ ledger' = IF accepted THEN LedgerWith(r, step, doc, done, verified) ELSE ledger
       /\ Continue(h, proj, WithJob(run, j,
             IF proves THEN Done(job) ELSE Blocked(job, "ledger_import")))
       /\ LeaveIfEnded(h)
       /\ UNCHANGED <<proj, crashes, effects, recorded, repeated>>

ImportWorkerLedger(h, reported, verified) ==
    LET r == handler[h].run
        j == handler[h].job
    IN /\ HasTurn(h, "import")
       /\ OnCurrentJob(r, j) /\ CanImport(RunOf(proj, r).jobs[j])
       /\ ImportsLedger(h, r, j, reported, verified)

\* The worker starts with a copy of the projection, or the authority has gone.
RunWorkerJob(h, ready) ==
    LET r == handler[h].run
        j == handler[h].job
        run == RunOf(proj, r)
    IN /\ HasTurn(h, "run")
       /\ OnCurrentJob(r, j) /\ CanRun(run.jobs[j])
       /\ IF ready
          THEN handler' = [handler EXCEPT ![h] =
                  [phase |-> "executing", run |-> r, job |-> j, snap |-> proj]]
          ELSE Continue(h, proj, WithJob(run, j, Blocked(run.jobs[j], "authority")))
       /\ LeaveIfEnded(h)
       /\ UNCHANGED <<proj, ledger, crashes, effects, recorded, repeated>>

\* The request no longer applies when its turn comes.
LeaveQueue(h) ==
    LET r == handler[h].run
        j == handler[h].job
        job == RunOf(proj, r).jobs[j]
    IN /\ HasTurn(h, handler[h].op)
       /\ ~(/\ OnCurrentJob(r, j)
            /\ IF handler[h].op = "run" THEN CanRun(job) ELSE CanImport(job))
       /\ handler' = [handler EXCEPT ![h] = Idle]
       /\ Leave(h)
       /\ UNCHANGED <<proj, ledger, crashes, effects, recorded, repeated>>

\* The worker fails or reports itself blocked, for want of anything it likes to
\* name, several things at once or unknown ones going for an authority, after which
\* the job is not resumed either: the copy taken before is changed.
WorkerFails(h, missing) ==
    /\ handler[h].phase = "executing"
    /\ LET p == handler[h]
           run == RunOf(p.snap, p.run)
       IN Continue(h, p.snap, WithJob(run, p.job, Blocked(run.jobs[p.job], missing)))
    /\ LeaveIfEnded(h)
    /\ UNCHANGED <<proj, ledger, crashes, effects, recorded, repeated>>

\* The worker's output is imported into what is stored by then.
WorkerReports(h, reported, verified) ==
    LET r == handler[h].run
        j == handler[h].job
    IN /\ handler[h].phase = "executing"
       /\ IF /\ r \in IdOf(proj) /\ j \in DOMAIN RunOf(proj, r).jobs
             /\ OnCurrentJob(r, j) /\ CanImport(RunOf(proj, r).jobs[j])
          THEN ImportsLedger(h, r, j, reported, verified)
          ELSE /\ handler' = [handler EXCEPT ![h] = Idle]
               /\ Leave(h)
               /\ UNCHANGED <<proj, ledger, crashes, effects, recorded, repeated>>

-----------------------------------------------------------------------------
(* Pull request mutations *)

HasUrl(run) == \E i \in DOMAIN run.prs : run.prs[i].url
StageDone(run, stage) == run.plan[stage].status = "completed"

\* pullRequestMutationBlockedReason of an approved request; "complete": the
\* approval, the evidence and the url it names are there and current.
MayMutate(run, action, complete) ==
    /\ run.connected /\ complete
    /\ action = "open_pr" => ~HasUrl(run) /\ StageDone(run, InitialPr)
    /\ action = "merge_pr" => ~Merged(run) /\ StageDone(run, FinalVerify)

\* A dry run is held to the same, except what only a mutation would break.
MayDryRun(run, action, complete) ==
    /\ run.connected /\ complete
    /\ action = "merge_pr" => StageDone(run, FinalVerify)

WithRecord(run, record) ==
    [run EXCEPT !.prs = Append(@, record),
                !.status = IF record.status = "blocked" THEN "blocked" ELSE @]

\* A request that gh is not asked for: a dry run, or one that is blocked.
RecordPullRequestRefusal(h, r, action, key, approved, complete, url) ==
    LET run == RunOf(proj, r)
        may == IF approved THEN MayMutate(run, action, complete)
                           ELSE MayDryRun(run, action, complete)
    IN /\ IsIdle(h) /\ r \in IdOf(proj)
       /\ \A i \in DOMAIN run.prs : ~(run.prs[i].action = action /\ run.prs[i].key = key)
       /\ ~(approved /\ may)
       /\ Len(run.prs) < load.records
       /\ complete /\ action # "open_pr" => url
       /\ Valid(proj, run)
       /\ Continue(h, proj, WithRecord(run,
             [action |-> action, key |-> key, url |-> url,
              status |-> IF may THEN "dry_run_ready" ELSE "blocked"]))
       /\ UNCHANGED <<proj, ledger, queue, crashes, effects, recorded, repeated>>

\* An approved request that passes: gh is started with a copy of the projection.
MutatePullRequest(h, r, action, key) ==
    LET run == RunOf(proj, r) IN
    /\ IsIdle(h) /\ r \in IdOf(proj)
    /\ \A i \in DOMAIN run.prs : ~(run.prs[i].action = action /\ run.prs[i].key = key)
    /\ MayMutate(run, action, TRUE)
    /\ Len(run.prs) < load.records
    /\ handler' = [handler EXCEPT ![h] =
          [phase |-> "mutating", run |-> r, action |-> action, key |-> key, snap |-> proj]]
    /\ repeated' = IF <<r, action>> \in recorded THEN repeated \cup {<<r, action>>} ELSE repeated
    /\ UNCHANGED <<proj, ledger, queue, crashes, effects, recorded>>

\* Mutant of MutationApplied: the run is read again, and not compared again.
MutationAppliedFresh(h) ==
    LET p == handler[h]
        record == [action |-> p.action, key |-> p.key, status |-> "applied", url |-> TRUE]
    IN /\ p.phase = "mutating"
       /\ effects' = effects \cup {<<p.run, p.action>>}
       /\ Continue(h, proj, WithRecord(RunOf(proj, p.run), record))
       /\ UNCHANGED <<proj, ledger, queue, crashes, recorded, repeated>>

\* gh answers, and the record goes into the copy.
MutationApplied(h) ==
    LET p == handler[h]
        record == [action |-> p.action, key |-> p.key, status |-> "applied", url |-> TRUE]
    IN /\ p.phase = "mutating"
       /\ effects' = effects \cup {<<p.run, p.action>>}
       /\ Continue(h, p.snap, WithRecord(RunOf(p.snap, p.run), record))
       /\ UNCHANGED <<proj, ledger, queue, crashes, recorded, repeated>>

\* gh fails, with or without an effect: the request ends with its exception.
MutationFails(h) ==
    LET p == handler[h] IN
    /\ p.phase = "mutating"
    /\ effects' \in {effects, effects \cup {<<p.run, p.action>>}}
    /\ handler' = [handler EXCEPT ![h] = Idle]
    /\ UNCHANGED <<proj, ledger, queue, crashes, recorded, repeated>>

-----------------------------------------------------------------------------

Crash ==
    /\ crashes < load.crashes
    /\ crashes' = crashes + 1
    /\ handler' = [h \in Handlers |-> Idle]
    /\ queue' = <<>>
    /\ UNCHANGED <<proj, ledger, effects, recorded, repeated>>

Init ==
    /\ load \in Workloads
    /\ proj = <<>>
    /\ ledger = [tracker |-> None, rows |-> [s \in {} |-> None], ever |-> {}]
    /\ handler = [h \in Handlers |-> Idle]
    /\ queue = <<>>
    /\ crashes = 0
    /\ effects = {} /\ recorded = {} /\ repeated = {}

Reports == {"other", "partial", "complete"}

JobIndexes == 1 .. Cardinality(load.keys) * MergeMain

\* A request of the user.
StageRequest(h, r, k) ==
    \/ \E a \in load.actions : RecordStage(h, r, a, k, None)
    \/ /\ "complete" \in load.ops
       /\ \E s \in DOMAIN ledger.rows : RecordStage(h, r, "complete", k, s)

JobRequest(h, r, k) ==
    \/ \E ready \in BOOLEAN : CreateWorkerJob(h, r, k, ready)
    \/ \E j \in JobIndexes : CompleteWorkerJob(h, r, j)

WorkedOn(r) == r \in IdOf(proj) => RunOf(proj, r).current <= load.last

AdvanceRequest(h, r, k) ==
    \E j \in JobIndexes : AdvanceWorkerStage(h, r, j, k)

WorkerRequest(h, r) ==
    \E j \in JobIndexes, op \in {"import", "run"} : Enqueue(h, op, r, j)

PullRequestRefusal(h, r, k) ==
    \E m \in Mutations, approved, complete, url \in BOOLEAN :
       RecordPullRequestRefusal(h, r, m, k, approved, complete, url)

Request(h) ==
    /\ load.serial => \A g \in Handlers : IsIdle(g)
    /\ \E r \in load.runs :
       \/ \E f \in Folders, b \in BOOLEAN :
             (b => "issues" \in load.ops) /\ CreateRun(h, r, f, b)
       \/ "worker" \in load.ops /\ WorkerRequest(h, r)
       \/ \E k \in load.keys :
             \/ StageRequest(h, r, k)
             \/ "job" \in load.ops /\ WorkedOn(r) /\ JobRequest(h, r, k)
             \/ "advance" \in load.ops /\ AdvanceRequest(h, r, k)
             \/ "refusal" \in load.ops /\ PullRequestRefusal(h, r, k)
             \/ "mutate" \in load.ops /\ \E m \in Mutations : MutatePullRequest(h, r, m, k)

\* Whether the GitHub remote is connected matters to mutations only.
Remotes == IF load.ops \cap {"issues", "mutate", "refusal"} = {} THEN {FALSE} ELSE BOOLEAN

\* What a request under way does when what it waits for has happened.
Answer(h) ==
    \/ Save(h)
    \/ SyncFails(h)
    \/ \E b \in Remotes : PrepareWorkspace(h, b)
    \/ PrepareFails(h)
    \/ \E rep \in Reports, v \in BOOLEAN : ImportWorkerLedger(h, rep, v) \/ WorkerReports(h, rep, v)
    \/ \E b \in BOOLEAN : RunWorkerJob(h, b)
    \/ LeaveQueue(h)
    \/ \E missing \in JobMissing \ {"nothing"} : WorkerFails(h, missing)
    \/ MutationApplied(h)
    \/ MutationFails(h)

LedgerCommand ==
    \E t \in load.runs, s \in load.own, outcome \in load.outcomes :
       \E d \in IF s \in UserSteps THEN {"user"} ELSE {<<s[1], s[2], k>> : k \in load.keys} :
          RecordLedgerStep(t, s, d, outcome # "open", outcome = "verified")

Next ==
    /\ UNCHANGED load
    /\ \/ \E h \in Handlers : Request(h) \/ Answer(h)
       \/ LedgerCommand
       \/ Crash

Spec == Init /\ [][Next]_vars

\* Requests are served as what they wait for happens: files are written, gh and the
\* worker end, and the session queue is first come, first served.
FairSpec == Spec /\ \A h \in Handlers : WF_vars(Answer(h) /\ UNCHANGED load)

-----------------------------------------------------------------------------
(* Properties *)

Copies == {proj} \cup {handler[h].snap : h \in {g \in Handlers :
                         handler[g].phase \in {"preparing", "executing", "mutating"}}}
                 \cup {handler[h].out : h \in {g \in Handlers : handler[g].phase = "syncing"}}

\* Every copy of the projection is one the contract accepts: unique run ids, stages
\* that keep evidence exactly when completed, statuses and keys of their types.
TypeOK ==
    /\ load \in Workloads
    /\ \A runs \in Copies :
          /\ \A i \in DOMAIN runs :
                /\ runs[i].id \in RunIds /\ runs[i].folder \in Folders
                /\ runs[i].current \in Stages /\ runs[i].status \in RunStatuses
                /\ \A s \in Stages :
                      /\ runs[i].plan[s].status \in StageStatuses
                      /\ runs[i].plan[s].step \in Steps \cup {None}
                      /\ ConsistentStage(runs[i].plan[s])
                /\ \A j \in DOMAIN runs[i].jobs : runs[i].jobs[j] \in Jobs
                /\ \A j \in DOMAIN runs[i].prs : runs[i].prs[j] \in PrRecords
          /\ \A i, j \in DOMAIN runs : runs[i].id = runs[j].id => i = j
    /\ ledger.tracker \in RunIds \cup {None}
    /\ DOMAIN ledger.rows \subseteq Steps
    /\ \A s \in DOMAIN ledger.rows : ledger.rows[s].doc \in Docs
    /\ Len(queue) <= Cardinality(Handlers)

\* No run delivers what was not merged: a run whose merge stage is completed holds an
\* applied merge, and gh has really merged, whichever copy was saved over which
\* (assertAutoImplementationMergeMutationEvidence before the stage).
MergeBehindCompletion ==
    \A i \in DOMAIN proj : StageDone(proj[i], MergeMain) =>
        /\ Merged(proj[i])
        /\ <<proj[i].id, "merge_pr">> \in effects

\* What the projection says was done outside has been done, and each of opening and
\* merging at most once per run: a copy changed after gh answered is the one the
\* request was checked against (createAutoImplementationPullRequestMutationProjection).
AppliedOnce ==
    /\ RecordedIn(proj) \subseteq effects
    /\ \A i \in DOMAIN proj, m \in {"open_pr", "merge_pr"} :
          Cardinality({j \in DOMAIN proj[i].prs :
              proj[i].prs[j].action = m /\ proj[i].prs[j].status = "applied"}) <= 1

\* A completed stage or worker job rests on a step the ledger has completed at some
\* time, and no step is spent on two stages of a run, although the ledger and the
\* projection are read and written apart.
CompletedWorkIsInLedger ==
    \A i \in DOMAIN proj :
        /\ \A s, t \in Stages : s # t /\ proj[i].plan[s].step # None
              => proj[i].plan[s].step # proj[i].plan[t].step
        /\ \A s \in Stages : StageDone(proj[i], s) => proj[i].plan[s].step \in ledger.ever
        /\ \A j \in DOMAIN proj[i].jobs : proj[i].jobs[j].status = "completed"
              => PlannedStep(proj[i].id, proj[i].jobs[j].stage) \in ledger.ever

\* A stage has one worker job at a time: of the jobs of a stage, at most one could
\* still be run, imported or completed, or has been (canPlanAutoImplementationWorkerJob).
OneWorkerPerStage ==
    \A i \in DOMAIN proj : \A j, k \in DOMAIN proj[i].jobs :
        LET Live(job) == CanImport(job) \/ job.status = "completed" IN
        proj[i].jobs[j].stage = proj[i].jobs[k].stage
          /\ Live(proj[i].jobs[j]) /\ Live(proj[i].jobs[k]) => j = k

\* Requests sent one after the other never ask gh again for what is recorded: an
\* opened or merged pull request, the issues of a folder (MayMutate,
\* CanCreateIssues read what the last request saved).
AskedOnceInTurn == load.serial => repeated = {}

\* "once those URLs are recorded for a generated workspace, another approved
\* issue-creation request for the same workspace must not invoke the adapter again"
\* (docs/safety-and-permissions_EN.md:52): of requests in any order.
NoMutationAfterRecorded == repeated = {}

\* A request that waits for files, gh, a worker or the session queue is answered.
EveryRequestEnds == \A h \in Handlers : ~IsIdle(h) ~> IsIdle(h)

\* With one request at a time a run is delivered as DeliveryRun says; other
\* workloads are left out of the claim.
Reached(r) == IF load.serial /\ r \in IdOf(proj)
              THEN Cardinality({s \in Stages : StageDone(RunOf(proj, r), s)}) ELSE 0
Counted(runs) == IF load.serial THEN runs ELSE {}

Delivery == INSTANCE DeliveryRun WITH
    Runs    <- RunIds,
    Last    <- MergeMain,
    reached <- [r \in RunIds |-> Reached(r)],
    known   <- Counted({r \in RunIds : r \in IdOf(proj)}),
    opened  <- Counted({r \in RunIds : <<r, "open_pr">> \in RecordedIn(proj)}),
    merged  <- Counted({r \in RunIds : <<r, "merge_pr">> \in RecordedIn(proj)})

DeliversRuns == Delivery!Spec
=============================================================================
