------------------------------- MODULE AutoProofs -------------------------------
(***************************************************************************)
(* Theorems about AutoImplementation: whatever copy of the projection is   *)
(* saved over which, nothing completes or counts without its evidence.     *)
(***************************************************************************)
EXTENDS AutoImplementation, FiniteSetTheorems, TLAPS

-----------------------------------------------------------------------------
(* The inductive invariant.  Copies are made of copies, so it says of each *)
(* that it is good: with respect to what gh has done and to the steps the  *)
(* ledger has completed, both of which only grow.                          *)

Live(job) == CanImport(job) \/ job.status = "completed"

Consistent(run) == \A s \in Stages : ConsistentStage(run.plan[s])

\* Stages are completed up to the current one.
Frontier(run) ==
    /\ \A s \in Stages : s < run.current => StageDone(run, s)
    /\ \A s \in Stages : s > run.current => ~StageDone(run, s)
    /\ run.current # MergeMain => ~StageDone(run, run.current)

MergedFirst(run) == StageDone(run, MergeMain) => Merged(run)

\* An applied mutation, other than of the body, of a run.
IsApplied(run, i) == run.prs[i].status = "applied" /\ run.prs[i].action # "update_pr_body"

\* Only what gh has done is applied, once, and what is applied has its url.
Outside(run, done) ==
    /\ \A i \in DOMAIN run.prs : IsApplied(run, i) => <<run.id, run.prs[i].action>> \in done
    /\ run.issues => <<run.folder, "issues">> \in done
    /\ \A i \in DOMAIN run.prs : run.prs[i].status = "applied" => run.prs[i].url
    /\ \A i, j \in DOMAIN run.prs :
          IsApplied(run, i) /\ IsApplied(run, j) /\ run.prs[i].action = run.prs[j].action => i = j

\* Completed stages and jobs rest on steps of the ledger, each stage on its own.
Rests(run, ever) ==
    /\ \A s, t \in Stages : s # t /\ run.plan[s].step # None => run.plan[s].step # run.plan[t].step
    /\ \A s \in Stages : StageDone(run, s) => run.plan[s].step \in ever
    /\ \A j \in DOMAIN run.jobs :
          run.jobs[j].status = "completed" => PlannedStep(run.id, run.jobs[j].stage) \in ever

\* Of the jobs of a stage only the last may be live.
OneWorker(run) ==
    \A j, k \in DOMAIN run.jobs :
       j < k /\ run.jobs[j].stage = run.jobs[k].stage => ~Live(run.jobs[j])

Sound(run, done, ever) ==
    /\ Consistent(run) /\ Frontier(run) /\ MergedFirst(run)
    /\ Outside(run, done) /\ Rests(run, ever) /\ OneWorker(run)

UniqueIds(runs) == \A i, j \in DOMAIN runs : runs[i].id = runs[j].id => i = j

Good(runs, done, ever) ==
    /\ runs \in Seq(Runs)
    /\ UniqueIds(runs)
    /\ \A i \in DOMAIN runs : Sound(runs[i], done, ever)

\* A request under way has a good copy, and what it was let through for still
\* holds of that copy.
Awaits(p, done, ever) ==
    /\ p.phase \in {"idle", "syncing", "preparing", "queued", "executing", "mutating"}
    /\ p.phase = "idle" => p = Idle
    /\ p.phase = "syncing" => Good(p.out, done, ever)
    /\ p.phase = "preparing" =>
          /\ Good(p.snap, done, ever)
          /\ p.run \in RunIds \ IdOf(p.snap) /\ p.folder \in Folders /\ p.approved \in BOOLEAN
    /\ p.phase = "queued" => p.op \in {"import", "run"}
    /\ p.phase = "executing" =>
          /\ Good(p.snap, done, ever)
          /\ p.run \in IdOf(p.snap)
          /\ p.job \in DOMAIN RunOf(p.snap, p.run).jobs
          /\ CanRun(RunOf(p.snap, p.run).jobs[p.job])
    /\ p.phase = "mutating" =>
          /\ Good(p.snap, done, ever)
          /\ p.run \in IdOf(p.snap) /\ p.action \in Mutations /\ p.key \in Keys
          /\ MayMutate(RunOf(p.snap, p.run), p.action, TRUE)

HandlersInv ==
    /\ DOMAIN handler = Handlers
    /\ \A h \in Handlers : Awaits(handler[h], effects, ledger.ever)

\* Nobody waits twice in the session queue; behind its first request all wait.
QueueInv ==
    /\ queue \in Seq(Handlers)
    /\ \A i, j \in DOMAIN queue : queue[i] = queue[j] => i = j
    /\ \A i \in DOMAIN queue : i # 1 => handler[queue[i]].phase = "queued"
    /\ queue # <<>> => handler[queue[1]].phase \in {"queued", "executing", "syncing"}
    /\ \A h \in Handlers : handler[h].phase = "queued" => \E i \in DOMAIN queue : queue[i] = h
    /\ \A h \in Handlers : handler[h].phase = "executing" => queue # <<>> /\ queue[1] = h

LedgerInv ==
    /\ ledger.tracker \in RunIds \cup {None}
    /\ DOMAIN ledger.rows \subseteq Steps
    /\ \A s \in DOMAIN ledger.rows :
          ledger.rows[s].doc \in Docs /\ (ledger.rows[s].done => s \in ledger.ever)

IInv ==
    /\ load \in Workload /\ load \in Workloads
    /\ Good(proj, effects, ledger.ever)
    /\ HandlersInv
    /\ QueueInv
    /\ LedgerInv

-----------------------------------------------------------------------------
(* Runs of a copy                                                          *)

LEMMA StagesAreNaturals ==
    /\ InitialPr \in Stages /\ FinalVerify \in Stages /\ MergeMain \in Stages
    /\ Stages \subseteq Nat
    /\ MergeMain \in Nat /\ FinalVerify = MergeMain - 1
    /\ \A s \in Stages : s <= MergeMain /\ (s # MergeMain => s + 1 \in Stages)
BY AutoAssumption DEF Stages, InitialPr, FinalVerify, MergeMain

LEMMA RunOfIsRun ==
    ASSUME NEW runs \in Seq(Runs), UniqueIds(runs), NEW r \in IdOf(runs)
    PROVE  \E i \in DOMAIN runs : /\ runs[i].id = r
                                  /\ RunOf(runs, r) = runs[i]
                                  /\ runs[i] \in Runs
<1>1. PICK i \in DOMAIN runs : runs[i].id = r BY DEF IdOf
<1> DEFINE k == CHOOSE j \in DOMAIN runs : runs[j].id = r
<1>2. k \in DOMAIN runs /\ runs[k].id = r BY <1>1
<1>3. RunOf(runs, r) = runs[k] BY DEF RunOf
<1>4. runs[k] \in Runs BY <1>2
<1> QED BY <1>2, <1>3, <1>4

LEMMA GoodRunOf ==
    ASSUME NEW done, NEW ever, NEW runs, Good(runs, done, ever), NEW r \in IdOf(runs)
    PROVE  /\ RunOf(runs, r) \in Runs /\ RunOf(runs, r).id = r
           /\ Sound(RunOf(runs, r), done, ever)
BY RunOfIsRun DEF Good

\* A copy stays good when one of its runs is replaced by a sound one.
LEMMA WithIsGood ==
    ASSUME NEW done, NEW ever, NEW runs, Good(runs, done, ever),
           NEW run \in Runs, Sound(run, done, ever)
    PROVE  Good(With(runs, run), done, ever)
<1>1. runs \in Seq(Runs) /\ UniqueIds(runs) BY DEF Good
<1>2. /\ DOMAIN With(runs, run) = DOMAIN runs
      /\ \A i \in DOMAIN runs : With(runs, run)[i] \in {run, runs[i]}
                               /\ With(runs, run)[i].id = runs[i].id
  BY DEF With
<1>3. With(runs, run) \in Seq(Runs)
  <2>1. With(runs, run) \in [1 .. Len(runs) -> Runs]
    BY <1>1 DEF With
  <2> QED BY <1>1, <2>1
<1>4. UniqueIds(With(runs, run)) BY <1>1, <1>2 DEF UniqueIds
<1> QED BY <1>2, <1>3, <1>4 DEF Good

LEMMA SoundGrows ==
    ASSUME NEW done, NEW ever, NEW done2, NEW ever2, done \subseteq done2, ever \subseteq ever2,
           NEW run, Sound(run, done, ever)
    PROVE  Sound(run, done2, ever2)
BY DEF Sound, Outside, Rests

LEMMA GoodGrows ==
    ASSUME NEW done, NEW ever, NEW done2, NEW ever2, done \subseteq done2, ever \subseteq ever2,
           NEW runs, Good(runs, done, ever)
    PROVE  Good(runs, done2, ever2)
BY SoundGrows DEF Good

LEMMA AwaitsGrows ==
    ASSUME NEW done, NEW ever, NEW done2, NEW ever2, done \subseteq done2, ever \subseteq ever2,
           NEW p, Awaits(p, done, ever)
    PROVE  Awaits(p, done2, ever2)
BY GoodGrows DEF Awaits

-----------------------------------------------------------------------------
(* The changes a request makes to a run keep it sound                      *)

LEMMA NewRunIsSound ==
    ASSUME NEW done, NEW ever, NEW r \in RunIds, NEW f \in Folders, NEW c \in BOOLEAN,
           NEW b \in BOOLEAN, b => <<f, "issues">> \in done
    PROVE  NewRun(r, f, c, b) \in Runs /\ Sound(NewRun(r, f, c, b), done, ever)
<1> DEFINE run == NewRun(r, f, c, b)
<1>1. run \in Runs
  <2>1. run.plan \in [Stages -> [status : StageStatuses, step : Steps \cup {None}]]
    BY DEF NewRun, StageStatuses
  <2>2. <<>> \in Seq(Jobs) /\ <<>> \in Seq(PrRecords) OBVIOUS
  <2> QED BY <2>1, <2>2, StagesAreNaturals DEF NewRun, Runs, RunStatuses
<1>2. /\ \A s \in Stages : run.plan[s].status \in {"ready", "pending"} /\ run.plan[s].step = None
      /\ run.jobs = <<>> /\ run.prs = <<>> /\ run.current = InitialPr
      /\ run.folder = f /\ run.issues = b
  BY DEF NewRun
<1> HIDE DEF run
<1>3. Consistent(run) /\ MergedFirst(run)
  BY <1>2, StagesAreNaturals DEF Consistent, ConsistentStage, MergedFirst, StageDone
<1>6. Rests(run, ever)
  <2>1. \A s \in Stages : ~StageDone(run, s) BY <1>2 DEF StageDone
  <2>2. DOMAIN run.jobs = {} BY <1>2
  <2> QED BY <1>2, <2>1, <2>2 DEF Rests
<1>4. Frontier(run)
  BY <1>2, StagesAreNaturals DEF Frontier, StageDone, Stages, InitialPr
<1>5. Outside(run, done) /\ OneWorker(run)
  BY <1>2 DEF Outside, OneWorker
<1> QED BY <1>1, <1>3, <1>4, <1>5, <1>6 DEF Sound, run

LEMMA StagedRunTyped ==
    ASSUME NEW run \in Runs, NEW current \in Stages, NEW status \in RunStatuses,
           NEW plan \in [Stages -> [status : StageStatuses, step : Steps \cup {None}]],
           NEW acts \in SUBSET (Stages \X {"tick", "start", "pause", "block", "complete"} \X Keys)
    PROVE  [run EXCEPT !.current = current, !.status = status, !.plan = plan, !.acts = acts] \in Runs
BY DEF Runs

\* A stage action that the endpoint accepts.
LEMMA StageRecordedIsSound ==
    ASSUME NEW done, NEW ever, NEW run \in Runs, Sound(run, done, ever),
           NEW action \in {"tick", "start", "pause", "block", "complete"}, NEW key \in Keys,
           NEW step \in Steps \cup {None}, action = "complete" => step \in ever,
           StageMayBe(run, action, step),
           Consistent(StageRecorded(run, action, key, step))
    PROVE  /\ StageRecorded(run, action, key, step) \in Runs
           /\ Sound(StageRecorded(run, action, key, step), done, ever)
<1> DEFINE new == StageRecorded(run, action, key, step)
           s == run.current
           next == action = "complete" /\ s < MergeMain
           entry == [status |-> StageStatusFor(action, run.plan[s].status),
                     step |-> IF action = "complete" THEN step ELSE run.plan[s].step]
<1>1. s \in Stages /\ s \in Nat /\ run.plan \in [Stages -> [status : StageStatuses, step : Steps \cup {None}]]
  BY StagesAreNaturals DEF Runs
<1>2. /\ new.id = run.id /\ new.folder = run.folder /\ new.connected = run.connected
      /\ new.issues = run.issues /\ new.jobs = run.jobs /\ new.prs = run.prs
      /\ new.current = IF next THEN s + 1 ELSE s
      /\ new.status = RunStatusFor(action, s, run.status)
      /\ new.plan = [i \in Stages |->
                      IF i = s THEN entry
                      ELSE IF next /\ i = s + 1 THEN [run.plan[i] EXCEPT !.status = "ready"]
                      ELSE run.plan[i]]
      /\ new.acts = run.acts \cup {<<s, action, key>>}
  BY DEF Runs, StageRecorded
<1>4. entry.status \in StageStatuses /\ entry.step \in Steps \cup {None}
  BY <1>1 DEF StageStatusFor, StageStatuses
<1>5. new.plan \in [Stages -> [status : StageStatuses, step : Steps \cup {None}]]
  BY <1>1, <1>2, <1>4 DEF StageStatuses
<1>6. new.current \in Stages BY <1>1, <1>2, StagesAreNaturals
<1>7. new.status \in RunStatuses
  BY <1>2 DEF RunStatusFor, StageStatusFor, RunStatuses, Runs
<1>8. new.acts \in SUBSET (Stages \X {"tick", "start", "pause", "block", "complete"} \X Keys)
  BY <1>1, <1>2 DEF Runs
<1> HIDE DEF new, entry
<1>9. new \in Runs
  <2>1. new = [run EXCEPT !.current = new.current, !.status = new.status, !.plan = new.plan,
                          !.acts = new.acts]
    BY <1>2 DEF new, StageRecorded, entry
  <2>2. [run EXCEPT !.current = new.current, !.status = new.status, !.plan = new.plan,
                    !.acts = new.acts] \in Runs
    BY ONLY <1>5, <1>6, <1>7, <1>8, run \in Runs, StagedRunTyped
  <2> QED BY ONLY <2>1, <2>2
<1>10. /\ new.plan[s] = entry
       /\ \A i \in Stages \ {s} : /\ new.plan[i].step = run.plan[i].step
                                  /\ new.plan[i].status = IF next /\ i = s + 1 THEN "ready"
                                                          ELSE run.plan[i].status
  BY <1>1, <1>2
<1>11. Sound(run, done, ever) /\ Consistent(run) /\ Consistent(new) BY DEF Sound, new
<1>12. \A i \in Stages \ {s} : StageDone(new, i) <=> StageDone(run, i) /\ ~(next /\ i = s + 1)
  BY <1>10 DEF StageDone
<1>13. StageDone(new, s) <=> action = "complete" \/ StageDone(run, s)
  <2>1. action # "complete" => (StageDone(new, s) <=> StageDone(run, s))
    BY <1>1, <1>10, <1>11 DEF StageDone, entry, Consistent, ConsistentStage
  <2>2. action = "complete" => StageDone(new, s)
    BY <1>10 DEF StageDone, entry, StageStatusFor
  <2> QED BY <2>1, <2>2
<1>14. Frontier(new)
  <2>1. Frontier(run) BY <1>11 DEF Sound
  <2>2. CASE next
    <3>1. new.current = s + 1 /\ s < MergeMain /\ StageDone(new, s) BY <1>2, <1>13, <2>2
    <3>2. s + 1 \in Stages \ {s} BY <1>1, <3>1, StagesAreNaturals
    <3>3. ~StageDone(new, s + 1) BY <1>12, <2>2, <3>2
    <3>4. \A i \in Stages : i < s + 1 => StageDone(new, i)
      BY <1>1, <1>12, <2>1, <3>1, StagesAreNaturals DEF Frontier
    <3>5. \A i \in Stages : i > s + 1 => ~StageDone(new, i)
      BY <1>1, <1>12, <2>1, StagesAreNaturals DEF Frontier
    <3> QED BY <3>1, <3>3, <3>4, <3>5 DEF Frontier
  <2>3. CASE ~next
    <3>1. new.current = s BY <1>2, <2>3
    <3>2. s # MergeMain => action # "complete" BY <1>1, <2>3, StagesAreNaturals
    <3>3. \A i \in Stages \ {s} : StageDone(new, i) <=> StageDone(run, i) BY <1>12, <2>3
    <3>4. s # MergeMain => ~StageDone(new, s) BY <1>13, <2>1, <3>2 DEF Frontier
    <3> QED BY <1>1, <2>1, <3>1, <3>3, <3>4, StagesAreNaturals DEF Frontier
  <2> QED BY <2>2, <2>3
<1>15. MergedFirst(new)
  <2>1. Merged(new) <=> Merged(run) BY <1>2 DEF Merged
  <2>2. action = "complete" /\ s = MergeMain => Merged(run) BY DEF StageMayBe
  <2> QED BY <1>11, <1>12, <1>13, <2>1, <2>2, StagesAreNaturals DEF MergedFirst, Sound
<1>16. Outside(new, done) BY <1>2, <1>11 DEF Outside, IsApplied, Sound
<1>17. OneWorker(new) BY <1>2, <1>11 DEF OneWorker, Sound
<1>18. Rests(new, ever)
  <2>1. entry.step = IF action = "complete" THEN step ELSE run.plan[s].step BY DEF entry
  <2>2. ASSUME NEW a \in Stages, NEW b \in Stages, a # b, new.plan[a].step # None
        PROVE  new.plan[a].step # new.plan[b].step
    BY <1>1, <1>10, <1>11, <2>1, <2>2 DEF Rests, Sound, StageMayBe
  <2>3. ASSUME NEW a \in Stages, StageDone(new, a) PROVE new.plan[a].step \in ever
    BY <1>1, <1>10, <1>11, <1>12, <1>13, <2>1, <2>3 DEF Rests, Sound
  <2> QED BY <1>2, <1>11, <2>2, <2>3 DEF Rests, Sound
<1> QED BY <1>9, <1>11, <1>14, <1>15, <1>16, <1>17, <1>18 DEF Sound, new

\* What is changed leaves the stages and the mutations of the run as they are.
LEMMA SameStagesSound ==
    ASSUME NEW done, NEW ever, NEW run, Sound(run, done, ever), NEW new,
           new.id = run.id, new.folder = run.folder, new.issues = run.issues,
           new.current = run.current, new.plan = run.plan, new.prs = run.prs,
           OneWorker(new),
           \A j \in DOMAIN new.jobs :
              new.jobs[j].status = "completed" => PlannedStep(new.id, new.jobs[j].stage) \in ever
    PROVE  Sound(new, done, ever)
<1>1. \A s \in Stages : StageDone(new, s) <=> StageDone(run, s) BY DEF StageDone
<1>2. Merged(new) <=> Merged(run) BY DEF Merged
<1>3. Consistent(new) BY DEF Sound, Consistent
<1>4. StageDone(new, MergeMain) <=> StageDone(run, MergeMain) BY DEF StageDone
<1>5. StageDone(new, new.current) <=> StageDone(run, run.current) BY DEF StageDone
<1>6. Frontier(new) BY <1>1, <1>5 DEF Sound, Frontier
<1>7. MergedFirst(new) BY <1>2, <1>4 DEF Sound, MergedFirst
<1>8. Outside(new, done) BY DEF Sound, Outside, IsApplied
<1>9. Rests(new, ever) BY <1>1 DEF Sound, Rests
<1> QED BY <1>3, <1>6, <1>7, <1>8, <1>9 DEF Sound

LEMMA JobsChangedTyped ==
    ASSUME NEW run \in Runs, NEW jobs \in Seq(Jobs), NEW status \in RunStatuses
    PROVE  [run EXCEPT !.jobs = jobs, !.status = status] \in Runs
BY DEF Runs

\* A job that was live is run, imported or completed.
LEMMA JobRecordedIsSound ==
    ASSUME NEW done, NEW ever, NEW run \in Runs, Sound(run, done, ever),
           NEW j \in DOMAIN run.jobs, Live(run.jobs[j]),
           NEW job \in Jobs, job.stage = run.jobs[j].stage,
           job.status = "completed" => PlannedStep(run.id, job.stage) \in ever
    PROVE  /\ WithJob(run, j, job) \in Runs
           /\ Sound(WithJob(run, j, job), done, ever)
<1> DEFINE new == WithJob(run, j, job)
           jobs == [run.jobs EXCEPT ![j] = job]
           status == IF job.status = "blocked" THEN "blocked" ELSE "running"
<1>1. run.jobs \in Seq(Jobs) BY DEF Runs
<1>2. jobs \in Seq(Jobs) /\ DOMAIN jobs = DOMAIN run.jobs BY <1>1
<1>3. \A k \in DOMAIN jobs : jobs[k] = IF k = j THEN job ELSE run.jobs[k] BY <1>1
<1>4. status \in RunStatuses BY DEF RunStatuses
<1>5. new = [run EXCEPT !.jobs = jobs, !.status = status]
  BY DEF WithJob, Runs
<1>6. new \in Runs
  <2>1. [run EXCEPT !.jobs = jobs, !.status = status] \in Runs
    BY ONLY <1>2, <1>4, run \in Runs, JobsChangedTyped
  <2> QED BY ONLY <1>5, <2>1
<1>7. /\ new.id = run.id /\ new.folder = run.folder /\ new.issues = run.issues
      /\ new.current = run.current /\ new.plan = run.plan /\ new.prs = run.prs
      /\ new.jobs = jobs
  BY DEF WithJob, Runs
<1> HIDE DEF new, jobs, status
<1>8. OneWorker(new)
  <2> SUFFICES ASSUME NEW a \in DOMAIN jobs, NEW b \in DOMAIN jobs, a < b,
                      jobs[a].stage = jobs[b].stage
               PROVE  ~Live(jobs[a])
    BY <1>7 DEF OneWorker
  <2>1. run.jobs[a].stage = run.jobs[b].stage BY <1>2, <1>3
  <2>2. ~Live(run.jobs[a]) BY <1>2, <2>1 DEF Sound, OneWorker
  <2> QED BY <1>2, <1>3, <2>2
<1>9. \A k \in DOMAIN new.jobs :
         new.jobs[k].status = "completed" => PlannedStep(new.id, new.jobs[k].stage) \in ever
  BY <1>2, <1>3, <1>7 DEF Sound, Rests
<1>10. Sound(new, done, ever) BY <1>7, <1>8, <1>9, SameStagesSound
<1> QED BY <1>6, <1>10 DEF new

\* A job is planned when no job of its stage is live.
LEMMA JobPlannedIsSound ==
    ASSUME NEW done, NEW ever, NEW run \in Runs, Sound(run, done, ever), CanPlan(run),
           NEW job \in Jobs, job.stage = run.current, job.status # "completed",
           NEW status \in RunStatuses
    PROVE  LET new == [run EXCEPT !.jobs = Append(@, job), !.status = status]
           IN  new \in Runs /\ Sound(new, done, ever)
<1> DEFINE jobs == Append(run.jobs, job)
           new == [run EXCEPT !.jobs = jobs, !.status = status]
<1>1. run.jobs \in Seq(Jobs) BY DEF Runs
<1>2. /\ jobs \in Seq(Jobs) /\ DOMAIN jobs = DOMAIN run.jobs \cup {Len(run.jobs) + 1}
      /\ jobs[Len(run.jobs) + 1] = job
      /\ \A k \in DOMAIN run.jobs : jobs[k] = run.jobs[k] /\ k < Len(run.jobs) + 1
  BY <1>1
<1>3. new \in Runs
  BY ONLY <1>2, status \in RunStatuses, run \in Runs, JobsChangedTyped
<1>4. /\ new.id = run.id /\ new.folder = run.folder /\ new.issues = run.issues
      /\ new.current = run.current /\ new.plan = run.plan /\ new.prs = run.prs
      /\ new.jobs = jobs
  BY DEF Runs
<1> HIDE DEF new, jobs
<1>5. ASSUME NEW a \in DOMAIN run.jobs, run.jobs[a].stage = run.current
      PROVE  ~Live(run.jobs[a])
  <2>1. a \in CurrentJobs(run) BY <1>5 DEF CurrentJobs
  <2>2. CASE \A k \in CurrentJobs(run) : k <= a
    BY <2>1, <2>2 DEF CanPlan, Live
  <2>3. CASE \E k \in CurrentJobs(run) : a < k
    BY <1>5, <2>3 DEF Sound, OneWorker, CurrentJobs
  <2> QED BY <1>1, <2>2, <2>3 DEF CurrentJobs
<1>6. OneWorker(new)
  <2> SUFFICES ASSUME NEW a \in DOMAIN jobs, NEW b \in DOMAIN jobs, a < b,
                      jobs[a].stage = jobs[b].stage
               PROVE  ~Live(jobs[a])
    BY <1>4 DEF OneWorker
  <2>1. a \in DOMAIN run.jobs BY <1>1, <1>2
  <2>2. CASE b \in DOMAIN run.jobs BY <1>2, <2>1, <2>2 DEF Sound, OneWorker
  <2>3. CASE b = Len(run.jobs) + 1 BY <1>2, <1>5, <2>1, <2>3
  <2> QED BY <1>2, <2>2, <2>3
<1>7. \A k \in DOMAIN new.jobs :
         new.jobs[k].status = "completed" => PlannedStep(new.id, new.jobs[k].stage) \in ever
  BY <1>2, <1>4 DEF Sound, Rests
<1>8. Sound(new, done, ever) BY <1>4, <1>6, <1>7, SameStagesSound
<1> QED BY <1>3, <1>8 DEF new, jobs

\* A mutation is recorded; one that was applied is done, for the first time.
LEMMA MutationRecordedIsSound ==
    ASSUME NEW done, NEW ever, NEW run \in Runs, Sound(run, done, ever), NEW record \in PrRecords,
           record.status = "applied" =>
              /\ record.url
              /\ record.action # "update_pr_body" =>
                    /\ <<run.id, record.action>> \in done
                    /\ \A i \in DOMAIN run.prs :
                          ~(IsApplied(run, i) /\ run.prs[i].action = record.action)
    PROVE  WithRecord(run, record) \in Runs /\ Sound(WithRecord(run, record), done, ever)
<1> DEFINE prs == Append(run.prs, record)
           status == IF record.status = "blocked" THEN "blocked" ELSE run.status
           new == WithRecord(run, record)
<1>1. run.prs \in Seq(PrRecords) BY DEF Runs
<1>2. /\ prs \in Seq(PrRecords) /\ DOMAIN prs = DOMAIN run.prs \cup {Len(run.prs) + 1}
      /\ prs[Len(run.prs) + 1] = record
      /\ \A k \in DOMAIN run.prs : prs[k] = run.prs[k] /\ k # Len(run.prs) + 1
  BY <1>1
<1>3. /\ new.id = run.id /\ new.folder = run.folder /\ new.issues = run.issues
      /\ new.current = run.current /\ new.plan = run.plan /\ new.jobs = run.jobs
      /\ new.prs = prs
  BY DEF Runs, WithRecord
<1>4. new \in Runs
  <2>1. status \in RunStatuses BY DEF Runs, RunStatuses
  <2>2. new = [run EXCEPT !.prs = prs, !.status = status] BY DEF Runs, WithRecord
  <2>3. [run EXCEPT !.prs = prs, !.status = status] \in Runs BY <1>2, <2>1 DEF Runs
  <2> QED BY ONLY <2>2, <2>3
<1> HIDE DEF new, prs
<1>5. Consistent(new) /\ OneWorker(new) BY <1>3 DEF Sound, Consistent, OneWorker
<1>6. Frontier(new) BY <1>3 DEF Sound, Frontier, StageDone
<1>7. MergedFirst(new)
  <2>1. Merged(run) => Merged(new) BY <1>2, <1>3 DEF Merged
  <2> QED BY <1>3, <2>1 DEF Sound, MergedFirst, StageDone
<1>8. Rests(new, ever) BY <1>3 DEF Sound, Rests, StageDone
<1>9. Outside(new, done)
  <2>1. \A i \in DOMAIN run.prs : IsApplied(new, i) <=> IsApplied(run, i)
    BY <1>2, <1>3 DEF IsApplied
  <2>2. IsApplied(new, Len(run.prs) + 1)
        <=> record.status = "applied" /\ record.action # "update_pr_body"
    BY <1>2, <1>3 DEF IsApplied
  <2>3. \A i \in DOMAIN new.prs : IsApplied(new, i) => <<new.id, new.prs[i].action>> \in done
    BY <1>2, <1>3, <2>1, <2>2 DEF Sound, Outside
  <2>4. \A i \in DOMAIN new.prs : new.prs[i].status = "applied" => new.prs[i].url
    BY <1>2, <1>3 DEF Sound, Outside
  <2>5. \A i, j \in DOMAIN new.prs :
          IsApplied(new, i) /\ IsApplied(new, j) /\ new.prs[i].action = new.prs[j].action => i = j
    BY <1>2, <1>3, <2>1, <2>2 DEF Sound, Outside
  <2>6. new.issues => <<new.folder, "issues">> \in done BY <1>3 DEF Sound, Outside
  <2> QED BY <2>3, <2>4, <2>5, <2>6 DEF Outside
<1> QED BY <1>4, <1>5, <1>6, <1>7, <1>8, <1>9 DEF Sound, new

-----------------------------------------------------------------------------
(* What a step of one request does to the invariant                        *)

LEMMA AppendIsGood ==
    ASSUME NEW done, NEW ever, NEW runs, Good(runs, done, ever),
           NEW run \in Runs, Sound(run, done, ever), run.id \notin IdOf(runs)
    PROVE  Good(Append(runs, run), done, ever)
<1>1. runs \in Seq(Runs) /\ UniqueIds(runs) BY DEF Good
<1>2. /\ Append(runs, run) \in Seq(Runs)
      /\ DOMAIN Append(runs, run) = DOMAIN runs \cup {Len(runs) + 1}
      /\ Append(runs, run)[Len(runs) + 1] = run
      /\ \A i \in DOMAIN runs : Append(runs, run)[i] = runs[i]
  BY <1>1
<1>3. UniqueIds(Append(runs, run)) BY <1>1, <1>2 DEF UniqueIds, IdOf
<1> QED BY <1>2, <1>3 DEF Good

\* The state a request leaves by itself, when the projection stays as it is.
LEMMA RequestChanges ==
    ASSUME IInv, UNCHANGED <<load, proj>>, NEW h \in Handlers, NEW p,
           handler' = [handler EXCEPT ![h] = p], Awaits(p, effects', ledger'.ever),
           effects \subseteq effects', ledger.ever \subseteq ledger'.ever,
           QueueInv', LedgerInv'
    PROVE  IInv'
<1>1. Good(proj', effects', ledger'.ever) BY GoodGrows DEF IInv
<1>2. HandlersInv'
  <2>1. DOMAIN handler' = Handlers BY DEF IInv, HandlersInv
  <2>2. ASSUME NEW g \in Handlers PROVE Awaits(handler'[g], effects', ledger'.ever)
    <3>1. Awaits(handler[g], effects', ledger'.ever) BY AwaitsGrows DEF IInv, HandlersInv
    <3>2. handler'[g] = IF g = h THEN p ELSE handler[g] BY DEF IInv, HandlersInv
    <3> QED BY <3>1, <3>2
  <2> QED BY <2>1, <2>2 DEF HandlersInv
<1> QED BY <1>1, <1>2 DEF IInv

LEMMA LedgerStays ==
    ASSUME IInv, UNCHANGED ledger PROVE LedgerInv' /\ ledger.ever \subseteq ledger'.ever
BY DEF IInv, LedgerInv

LEMMA ContinueAwaits ==
    ASSUME NEW done, NEW ever, NEW h, NEW runs, Good(runs, done, ever),
           NEW run \in Runs, Sound(run, done, ever), Continue(h, runs, run)
    PROVE  \E p : /\ handler' = [handler EXCEPT ![h] = p]
                 /\ p.phase \in {"idle", "syncing"}
                 /\ Awaits(p, done, ever)
<1> DEFINE p == IF Valid(runs, run) THEN [phase |-> "syncing", out |-> With(runs, run)] ELSE Idle
<1>1. handler' = [handler EXCEPT ![h] = p] BY DEF Continue
<1>2. CASE Valid(runs, run)
  <2>1. p.phase = "syncing" /\ p.out = With(runs, run) BY <1>2
  <2>2. Good(p.out, done, ever) BY <2>1, WithIsGood
  <2>3. Awaits(p, done, ever) BY <2>1, <2>2 DEF Awaits
  <2> QED BY <1>1, <2>1, <2>3
<1>3. CASE ~Valid(runs, run)
  <2>1. p.phase = "idle" /\ p = Idle BY <1>3 DEF Idle
  <2>2. Awaits(p, done, ever) BY <2>1 DEF Awaits
  <2> QED BY <1>1, <2>1, <2>2
<1> QED BY <1>2, <1>3

-----------------------------------------------------------------------------
(* The session queue                                                       *)

\* A request that is not in the queue goes on.
LEMMA QueueLeftAlone ==
    ASSUME IInv, NEW h \in Handlers, NEW p, handler' = [handler EXCEPT ![h] = p], UNCHANGED queue,
           handler[h].phase \in {"idle", "preparing", "mutating"},
           p.phase \notin {"queued", "executing"}
    PROVE  QueueInv'
<1>1. \A i \in DOMAIN queue : queue[i] \in Handlers /\ queue[i] # h
  BY DEF IInv, QueueInv
<1>2. \A g \in Handlers : handler'[g] = IF g = h THEN p ELSE handler[g]
  BY DEF IInv, HandlersInv
<1>3. queue # <<>> => 1 \in DOMAIN queue BY DEF IInv, QueueInv
<1> QED BY <1>1, <1>2, <1>3 DEF IInv, QueueInv

LEMMA QueueOfTurn ==
    ASSUME IInv, NEW h \in Handlers,
           handler[h].phase = "executing" \/ (handler[h].phase = "queued" /\ queue[1] = h)
    PROVE  queue # <<>> /\ queue[1] = h /\ 1 \in DOMAIN queue
<1>1. queue # <<>> /\ queue[1] = h BY DEF IInv, QueueInv
<1> QED BY <1>1 DEF IInv, QueueInv

\* The first of the queue goes on.
LEMMA QueueHeld ==
    ASSUME IInv, NEW h \in Handlers, NEW p, handler' = [handler EXCEPT ![h] = p], UNCHANGED queue,
           queue # <<>>, queue[1] = h, p.phase \in {"executing", "syncing"}
    PROVE  QueueInv'
<1>1. \A g \in Handlers : handler'[g] = IF g = h THEN p ELSE handler[g]
  BY DEF IInv, HandlersInv
<1>2. 1 \in DOMAIN queue /\ \A i \in DOMAIN queue : queue[i] \in Handlers
  BY DEF IInv, QueueInv
<1>3. \A i \in DOMAIN queue : i # 1 => queue[i] # h
  BY <1>2 DEF IInv, QueueInv
<1> QED BY <1>1, <1>2, <1>3 DEF IInv, QueueInv

\* A request ends, and leaves the queue if it is the first in it.
LEMMA QueueLeft ==
    ASSUME IInv, NEW h \in Handlers, NEW p, handler' = [handler EXCEPT ![h] = p], Leave(h),
           handler[h].phase = "syncing" \/ (queue # <<>> /\ queue[1] = h),
           p.phase = "idle"
    PROVE  QueueInv'
<1>1. \A g \in Handlers : handler'[g] = IF g = h THEN p ELSE handler[g]
  BY DEF IInv, HandlersInv
<1>2. /\ queue \in Seq(Handlers)
      /\ \A i \in DOMAIN queue : queue[i] \in Handlers
      /\ queue # <<>> => 1 \in DOMAIN queue /\ Head(queue) = queue[1]
  BY DEF IInv, QueueInv
<1>3. CASE queue # <<>> /\ queue[1] = h
  <2>1. queue' = Tail(queue) BY <1>2, <1>3 DEF Leave
  <2>2. /\ queue' \in Seq(Handlers)
        /\ \A i \in DOMAIN queue' : /\ i \in Nat /\ i + 1 \in DOMAIN queue /\ i + 1 # 1
                                   /\ queue'[i] = queue[i + 1]
        /\ \A i \in DOMAIN queue : i # 1 => i - 1 \in DOMAIN queue' /\ queue'[i - 1] = queue[i]
        /\ queue' # <<>> => 1 \in DOMAIN queue'
    BY <1>2, <1>3, <2>1
  <2>3. \A i \in DOMAIN queue' : queue'[i] # h /\ handler'[queue'[i]].phase = "queued"
    <3> SUFFICES ASSUME NEW i \in DOMAIN queue'
                 PROVE  queue'[i] # h /\ handler'[queue'[i]].phase = "queued"
      OBVIOUS
    <3>1. i + 1 \in DOMAIN queue /\ i + 1 # 1 /\ queue'[i] = queue[i + 1] BY <2>2
    <3>2. handler[queue[i + 1]].phase = "queued" BY <3>1 DEF IInv, QueueInv
    <3>3. queue[i + 1] # queue[1] BY <1>2, <1>3, <3>1 DEF IInv, QueueInv
    <3>4. queue[i + 1] \in Handlers BY <1>2, <3>1
    <3> QED BY <1>1, <1>3, <3>1, <3>2, <3>3, <3>4
  <2>4. ASSUME NEW i \in DOMAIN queue', NEW j \in DOMAIN queue', queue'[i] = queue'[j] PROVE i = j
    <3>1. i + 1 = j + 1 BY <2>2, <2>4 DEF IInv, QueueInv
    <3>2. i \in Nat /\ j \in Nat BY <2>2
    <3> QED BY <3>1, <3>2
  <2>5. \A g \in Handlers : handler'[g].phase = "queued" => \E i \in DOMAIN queue' : queue'[i] = g
    <3> SUFFICES ASSUME NEW g \in Handlers, handler'[g].phase = "queued"
                 PROVE  \E i \in DOMAIN queue' : queue'[i] = g
      OBVIOUS
    <3>1. g # h /\ handler[g].phase = "queued" BY <1>1
    <3>2. PICK i \in DOMAIN queue : queue[i] = g BY <3>1 DEF IInv, QueueInv
    <3>3. i # 1 BY <1>3, <3>1, <3>2
    <3> QED BY <2>2, <3>2, <3>3
  <2>6. \A g \in Handlers : handler'[g].phase # "executing"
    BY <1>1, <1>3 DEF IInv, QueueInv
  <2> QED BY <2>2, <2>3, <2>4, <2>5, <2>6 DEF QueueInv
<1>4. CASE ~(queue # <<>> /\ queue[1] = h)
  <2>1. queue' = queue /\ handler[h].phase = "syncing" BY <1>2, <1>4 DEF Leave
  <2>2. \A i \in DOMAIN queue : queue[i] # h
    BY <1>2, <1>4, <2>1 DEF IInv, QueueInv
  <2> QED BY <1>1, <1>2, <2>1, <2>2 DEF IInv, QueueInv
<1> QED BY <1>3, <1>4

\* The first of the queue goes on or ends.
LEMMA QueueOfHolder ==
    ASSUME IInv, NEW h \in Handlers, NEW p, handler' = [handler EXCEPT ![h] = p],
           LeaveIfEnded(h), queue # <<>>, queue[1] = h,
           p.phase = "idle" => p = Idle, p.phase \in {"idle", "executing", "syncing"}
    PROVE  QueueInv'
<1>1. handler'[h] = p BY DEF IInv, HandlersInv
<1>2. CASE p.phase = "idle"
  <2>1. Leave(h) BY <1>1, <1>2 DEF LeaveIfEnded
  <2> QED BY <1>2, <2>1, QueueLeft
<1>3. CASE p.phase # "idle"
  <2>1. p # Idle BY <1>3 DEF Idle
  <2>2. UNCHANGED queue BY <1>1, <2>1 DEF LeaveIfEnded
  <2> QED BY <1>3, <2>2, QueueHeld
<1> QED BY <1>2, <1>3

-----------------------------------------------------------------------------
(* Every action keeps the invariant                                        *)

\* A request makes its change to what is stored, and goes on to save it.
LEMMA LocalChange ==
    ASSUME IInv, UNCHANGED <<load, proj, ledger, queue, effects>>, NEW h \in Handlers,
           IsIdle(h), NEW run \in Runs, Sound(run, effects, ledger.ever), Continue(h, proj, run)
    PROVE  IInv'
<1>1. PICK p : /\ handler' = [handler EXCEPT ![h] = p]
               /\ p.phase \in {"idle", "syncing"}
               /\ Awaits(p, effects, ledger.ever)
  BY ContinueAwaits DEF IInv
<1>2. QueueInv' BY <1>1, QueueLeftAlone DEF IsIdle
<1>3. LedgerInv' BY LedgerStays
<1>4. Awaits(p, effects', ledger'.ever) BY <1>1
<1> QED BY <1>1, <1>2, <1>3, <1>4, RequestChanges

LEMMA ActiveStepKept ==
    ASSUME IInv, UNCHANGED load, NEW h \in Handlers,
           Save(h) \/ SyncFails(h) \/ PrepareFails(h) \/ LeaveQueue(h) \/ MutationFails(h)
    PROVE  IInv'
<1>1. /\ handler' = [handler EXCEPT ![h] = Idle] /\ UNCHANGED ledger
      /\ effects \subseteq effects'
  BY DEF Save, SyncFails, PrepareFails, LeaveQueue, MutationFails, Asks
<1>2. Idle.phase = "idle" /\ \A done, ever : Awaits(Idle, done, ever)
  BY DEF Awaits, Idle
<1>3. LedgerInv' /\ ledger.ever \subseteq ledger'.ever BY <1>1, LedgerStays
<1>4. QueueInv'
  <2>1. CASE Save(h) \/ SyncFails(h) BY <1>1, <1>2, <2>1, QueueLeft DEF Save, SyncFails
  <2>2. CASE PrepareFails(h) \/ MutationFails(h)
    BY <1>1, <1>2, <2>2, QueueLeftAlone DEF PrepareFails, MutationFails
  <2>3. CASE LeaveQueue(h)
    <3>1. handler[h].phase = "queued" /\ queue[1] = h /\ Leave(h)
      BY <2>3 DEF LeaveQueue, HasTurn
    <3> QED BY <1>1, <1>2, <3>1, QueueLeft, QueueOfTurn
  <2> QED BY <2>1, <2>2, <2>3
<1>5. CASE UNCHANGED proj
  BY <1>1, <1>2, <1>3, <1>4, <1>5, RequestChanges
<1>6. CASE Save(h)
  <2>1. Good(handler[h].out, effects, ledger.ever)
    BY <1>6 DEF Save, IInv, HandlersInv, Awaits
  <2>2. Good(proj', effects', ledger'.ever) BY <1>6, <2>1 DEF Save
  <2>3. HandlersInv' BY <1>1, <1>2, <1>6 DEF Save, IInv, HandlersInv
  <2> QED BY <1>3, <1>4, <2>2, <2>3 DEF IInv
<1> QED BY <1>5, <1>6 DEF SyncFails, PrepareFails, LeaveQueue, MutationFails

LEMMA CreateRunKept ==
    ASSUME IInv, UNCHANGED load, NEW h \in Handlers, NEW r \in RunIds, NEW f \in Folders,
           NEW b \in BOOLEAN, CreateRun(h, r, f, b)
    PROVE  IInv'
<1> DEFINE p == [phase |-> "preparing", run |-> r, folder |-> f, approved |-> b, snap |-> proj]
<1>1. p.phase = "preparing" /\ p.run = r /\ p.folder = f /\ p.approved = b /\ p.snap = proj
  OBVIOUS
<1>2. handler' = [handler EXCEPT ![h] = p] /\ handler[h].phase = "idle" BY DEF CreateRun, IsIdle
<1> HIDE DEF p
<1>3. Awaits(p, effects, ledger.ever) BY <1>1 DEF Awaits, IInv, CreateRun
<1>4. QueueInv' BY <1>1, <1>2, QueueLeftAlone DEF CreateRun
<1>5. LedgerInv' BY LedgerStays DEF CreateRun
<1> QED BY <1>2, <1>3, <1>4, <1>5, RequestChanges DEF CreateRun

LEMMA PrepareWorkspaceKept ==
    ASSUME IInv, UNCHANGED load, NEW h \in Handlers, NEW c \in BOOLEAN, PrepareWorkspace(h, c)
    PROVE  IInv'
<1> DEFINE q == handler[h]
           issues == q.approved /\ c
           run == NewRun(q.run, q.folder, c, issues)
<1>1. /\ q.phase = "preparing" /\ Continue(h, Append(q.snap, run), run)
      /\ IF issues THEN Asks(<<q.folder, "issues">>, TRUE) ELSE UNCHANGED <<effects, repeated>>
      /\ UNCHANGED <<proj, ledger, queue>>
  BY DEF PrepareWorkspace
<1>2. /\ Good(q.snap, effects, ledger.ever)
      /\ q.run \in RunIds \ IdOf(q.snap) /\ q.folder \in Folders /\ q.approved \in BOOLEAN
  BY <1>1 DEF IInv, HandlersInv, Awaits
<1>3. effects \subseteq effects' /\ (issues => <<q.folder, "issues">> \in effects')
  BY <1>1 DEF Asks
<1>4. issues \in BOOLEAN BY <1>2
<1> HIDE DEF q, issues
<1>5. run \in Runs /\ Sound(run, effects', ledger.ever) BY <1>2, <1>3, <1>4, NewRunIsSound
<1>6. run.id = q.run BY DEF NewRun
<1> HIDE DEF run
<1>7. Good(q.snap, effects', ledger.ever) BY <1>2, <1>3, GoodGrows
<1>8. Good(Append(q.snap, run), effects', ledger.ever) BY <1>2, <1>5, <1>6, <1>7, AppendIsGood
<1>9. PICK p : /\ handler' = [handler EXCEPT ![h] = p]
               /\ p.phase \in {"idle", "syncing"}
               /\ Awaits(p, effects', ledger.ever)
  BY <1>1, <1>5, <1>8, ContinueAwaits
<1>10. QueueInv' BY <1>1, <1>9, QueueLeftAlone DEF q
<1>11. LedgerInv' BY <1>1, LedgerStays
<1> QED BY <1>1, <1>3, <1>9, <1>10, <1>11, RequestChanges

LEMMA RecordsStageKept ==
    ASSUME IInv, UNCHANGED load, NEW h \in Handlers, IsIdle(h), NEW r \in IdOf(proj),
           NEW action \in {"tick", "start", "pause", "block", "complete"}, NEW key \in Keys,
           NEW step \in Steps \cup {None}, RecordsStage(h, r, action, key, step)
    PROVE  IInv'
<1> DEFINE run == RunOf(proj, r)
           new == StageRecorded(run, action, key, step)
<1>1. /\ StageMayBe(run, action, step) /\ \A i \in Stages : ConsistentStage(new.plan[i])
      /\ Continue(h, proj, new) /\ UNCHANGED <<proj, ledger, queue, effects>>
  BY DEF RecordsStage
<1>2. run \in Runs /\ Sound(run, effects, ledger.ever) BY GoodRunOf DEF IInv
<1>3. action = "complete" => step \in ledger.ever
  BY <1>1 DEF StageMayBe, CompletedStep, IInv, LedgerInv
<1>4. Consistent(new) BY <1>1 DEF Consistent
<1> HIDE DEF run
<1>5. new \in Runs /\ Sound(new, effects, ledger.ever)
  BY <1>1, <1>2, <1>3, <1>4, StageRecordedIsSound
<1> HIDE DEF new
<1> QED BY <1>1, <1>5, LocalChange

LEMMA CreateWorkerJobKept ==
    ASSUME IInv, UNCHANGED load, NEW h \in Handlers, NEW r, NEW key \in Keys,
           NEW ready \in BOOLEAN, CreateWorkerJob(h, r, key, ready)
    PROVE  IInv'
<1> DEFINE run == RunOf(proj, r)
           job == [stage |-> run.current, key |-> key,
                   status |-> IF ready THEN "planned" ELSE "blocked", missing |-> Authority(ready)]
           status == IF ready THEN "running" ELSE "blocked"
           new == [run EXCEPT !.jobs = Append(@, job), !.status = status]
<1>1. IsIdle(h) /\ r \in IdOf(proj) /\ CanPlan(run) /\ Continue(h, proj, new)
      /\ UNCHANGED <<proj, ledger, queue, effects>>
  BY DEF CreateWorkerJob
<1>2. run \in Runs /\ Sound(run, effects, ledger.ever) BY <1>1, GoodRunOf DEF IInv
<1>3. run.current \in Stages BY <1>2 DEF Runs
<1> HIDE DEF run
<1>4. job \in Jobs /\ job.stage = run.current /\ job.status # "completed"
  BY <1>3 DEF Jobs, Authority, JobMissing
<1>5. status \in RunStatuses BY DEF RunStatuses
<1> HIDE DEF job, status
<1>6. new \in Runs /\ Sound(new, effects, ledger.ever)
  BY <1>1, <1>2, <1>4, <1>5, JobPlannedIsSound
<1> HIDE DEF new
<1> QED BY <1>1, <1>6, LocalChange

LEMMA BlockedJobTyped ==
    ASSUME NEW job \in Jobs, NEW missing \in JobMissing
    PROVE  /\ Blocked(job, missing) \in Jobs /\ Blocked(job, missing).stage = job.stage
           /\ Blocked(job, missing).status = "blocked"
           /\ Done(job) \in Jobs /\ Done(job).stage = job.stage
BY DEF Blocked, Done, Jobs, JobMissing

LEMMA CompleteWorkerJobKept ==
    ASSUME IInv, UNCHANGED load, NEW h \in Handlers, NEW r, NEW j, CompleteWorkerJob(h, r, j)
    PROVE  IInv'
<1> DEFINE run == RunOf(proj, r)
           old == run.jobs[j]
           job == IF LedgerMatchesPlan(r, old) THEN Done(old) ELSE Blocked(old, "ledger_step")
<1>1. /\ IsIdle(h) /\ r \in IdOf(proj) /\ j \in DOMAIN run.jobs /\ CanComplete(old)
      /\ Continue(h, proj, WithJob(run, j, job)) /\ UNCHANGED <<proj, ledger, queue, effects>>
  BY DEF CompleteWorkerJob, OnCurrentJob
<1>2. run \in Runs /\ Sound(run, effects, ledger.ever) /\ run.id = r
  BY <1>1, GoodRunOf DEF IInv
<1>3. old \in Jobs BY <1>1, <1>2 DEF Runs
<1>4. Live(old) BY <1>1 DEF CanComplete, Live, CanImport
<1>5. LedgerMatchesPlan(r, old) => PlannedStep(r, old.stage) \in ledger.ever
  BY DEF LedgerMatchesPlan, CompletedStep, IInv, LedgerInv
<1> HIDE DEF run
<1>6. /\ job \in Jobs /\ job.stage = old.stage
      /\ job.status = "completed" => PlannedStep(run.id, job.stage) \in ledger.ever
  BY <1>2, <1>3, <1>5, BlockedJobTyped DEF JobMissing
<1> HIDE DEF job
<1>7. WithJob(run, j, job) \in Runs /\ Sound(WithJob(run, j, job), effects, ledger.ever)
  BY <1>1, <1>2, <1>4, <1>6, JobRecordedIsSound
<1> QED BY <1>1, <1>7, LocalChange

LEMMA EnqueueKept ==
    ASSUME IInv, UNCHANGED load, NEW h \in Handlers, NEW op \in {"import", "run"}, NEW r, NEW j,
           Enqueue(h, op, r, j)
    PROVE  IInv'
<1> DEFINE p == [phase |-> "queued", op |-> op, run |-> r, job |-> j]
<1>1. p.phase = "queued" /\ p.op = op OBVIOUS
<1>2. /\ handler' = [handler EXCEPT ![h] = p] /\ handler[h].phase = "idle"
      /\ queue' = Append(queue, h) /\ UNCHANGED <<proj, ledger, effects>>
  BY DEF Enqueue, IsIdle
<1> HIDE DEF p
<1>3. Awaits(p, effects, ledger.ever) BY <1>1 DEF Awaits
<1>4. LedgerInv' BY <1>2, LedgerStays
<1>5. QueueInv'
  <2>1. queue \in Seq(Handlers) BY DEF IInv, QueueInv
  <2>2. /\ queue' \in Seq(Handlers) /\ queue' # <<>>
        /\ DOMAIN queue' = DOMAIN queue \cup {Len(queue) + 1}
        /\ queue'[Len(queue) + 1] = h
        /\ \A i \in DOMAIN queue : queue'[i] = queue[i] /\ queue[i] \in Handlers
    BY <1>2, <2>1
  <2>3. \A i \in DOMAIN queue : queue[i] # h
    BY <1>2, <2>1 DEF IInv, QueueInv
  <2>4. \A g \in Handlers : handler'[g] = IF g = h THEN p ELSE handler[g]
    BY <1>2 DEF IInv, HandlersInv
  <2>5. \A i, k \in DOMAIN queue' : queue'[i] = queue'[k] => i = k
    BY <2>2, <2>3 DEF IInv, QueueInv
  <2>6. \A i \in DOMAIN queue' : i # 1 => handler'[queue'[i]].phase = "queued"
    BY <1>1, <2>2, <2>3, <2>4 DEF IInv, QueueInv
  <2>7. handler'[queue'[1]].phase \in {"queued", "executing", "syncing"}
    <3>1. CASE queue = <<>>
      <4>1. queue'[1] = h BY <2>2, <3>1
      <4> QED BY <1>1, <2>4, <4>1
    <3>2. CASE queue # <<>>
      <4>1. 1 \in DOMAIN queue BY <2>1, <3>2
      <4> QED BY <2>2, <2>3, <2>4, <3>2, <4>1 DEF IInv, QueueInv
    <3> QED BY <3>1, <3>2
  <2>8. \A g \in Handlers : handler'[g].phase = "queued" => \E i \in DOMAIN queue' : queue'[i] = g
    BY <1>2, <2>2, <2>4 DEF IInv, QueueInv
  <2>9. \A g \in Handlers : handler'[g].phase = "executing" => queue'[1] = g
    <3> SUFFICES ASSUME NEW g \in Handlers, handler'[g].phase = "executing" PROVE queue'[1] = g
      OBVIOUS
    <3>1. handler[g].phase = "executing" BY <1>1, <2>4
    <3>2. queue # <<>> /\ queue[1] = g BY <3>1 DEF IInv, QueueInv
    <3>3. 1 \in DOMAIN queue BY <2>1, <3>2
    <3> QED BY <2>2, <3>2, <3>3
  <2> QED BY <2>2, <2>5, <2>6, <2>7, <2>8, <2>9 DEF QueueInv
<1> QED BY <1>2, <1>3, <1>4, <1>5, RequestChanges

\* Recording a step keeps the ledger, and forgets no completed step.
LEMMA LedgerWithKept ==
    ASSUME LedgerInv, NEW tracker \in RunIds, NEW step \in Steps, NEW doc \in Docs,
           NEW done \in BOOLEAN, NEW verified \in BOOLEAN,
           ledger' = LedgerWith(tracker, step, doc, done, verified)
    PROVE  /\ LedgerInv' /\ ledger.ever \subseteq ledger'.ever
           /\ done => step \in ledger'.ever
<1>1. /\ ledger'.tracker = tracker
      /\ DOMAIN ledger'.rows = DOMAIN ledger.rows \cup {step}
      /\ \A s \in DOMAIN ledger'.rows :
            ledger'.rows[s] = IF s = step THEN [doc |-> doc, done |-> done, verified |-> verified]
                              ELSE ledger.rows[s]
      /\ ledger'.ever = IF done THEN ledger.ever \cup {step} ELSE ledger.ever
  BY DEF LedgerWith
<1> QED BY <1>1 DEF LedgerInv

\* The commands of a worker's output, by the holder of the session queue.
LEMMA ImportsLedgerKept ==
    ASSUME IInv, UNCHANGED load, NEW h \in Handlers, queue # <<>>, queue[1] = h,
           NEW r, NEW j, OnCurrentJob(r, j), CanImport(RunOf(proj, r).jobs[j]),
           NEW reported, NEW verified \in BOOLEAN, ImportsLedger(h, r, j, reported, verified)
    PROVE  IInv'
<1> DEFINE run == RunOf(proj, r)
           old == run.jobs[j]
           step == PlannedStep(r, old.stage)
           doc == <<r, old.stage, old.key>>
           accepted == reported # "other" /\ Accepts(r, step, doc)
           done == accepted /\ reported = "complete"
           proves == done /\ (old.stage = MergeMain => verified)
           job == IF proves THEN Done(old) ELSE Blocked(old, "ledger_import")
<1>1. /\ ledger' = IF accepted THEN LedgerWith(r, step, doc, done, verified) ELSE ledger
      /\ Continue(h, proj, WithJob(run, j, job)) /\ LeaveIfEnded(h)
      /\ UNCHANGED <<proj, effects>>
  BY DEF ImportsLedger
<1>2. r \in IdOf(proj) /\ j \in DOMAIN run.jobs /\ Live(old)
  BY DEF OnCurrentJob, Live
<1>3. run \in Runs /\ Sound(run, effects, ledger.ever) /\ run.id = r
  BY <1>2, GoodRunOf DEF IInv
<1>4. old \in Jobs /\ r \in RunIds BY <1>2, <1>3 DEF Runs
<1> HIDE DEF run
<1>5. step \in Steps /\ doc \in Docs BY <1>4 DEF PlannedStep, Steps, Docs, Jobs
<1>6. /\ LedgerInv' /\ ledger.ever \subseteq ledger'.ever
      /\ proves => step \in ledger'.ever
  <2>1. CASE accepted
    <3>1. ledger' = LedgerWith(r, step, doc, done, verified) BY <1>1, <2>1
    <3>2. done \in BOOLEAN /\ LedgerInv BY DEF IInv
    <3> HIDE DEF step, doc, done
    <3>3. LedgerInv' /\ ledger.ever \subseteq ledger'.ever /\ (done => step \in ledger'.ever)
      BY <1>4, <1>5, <3>1, <3>2, LedgerWithKept
    <3> QED BY <3>3
  <2>2. CASE ~accepted
    BY <1>1, <2>2, LedgerStays
  <2> QED BY <2>1, <2>2
<1> HIDE DEF doc, done, accepted, proves
<1>7. /\ job \in Jobs /\ job.stage = old.stage
      /\ job.status = "completed" => PlannedStep(run.id, job.stage) \in ledger'.ever
  BY <1>3, <1>4, <1>6, BlockedJobTyped DEF JobMissing
<1>8. Sound(run, effects', ledger'.ever) /\ Good(proj, effects', ledger'.ever)
  BY <1>1, <1>3, <1>6, SoundGrows, GoodGrows DEF IInv
<1> HIDE DEF job, step
<1>9. /\ WithJob(run, j, job) \in Runs
      /\ Sound(WithJob(run, j, job), effects', ledger'.ever)
  BY <1>2, <1>3, <1>7, <1>8, JobRecordedIsSound
<1>10. PICK p : /\ handler' = [handler EXCEPT ![h] = p]
                /\ p.phase \in {"idle", "syncing"}
                /\ Awaits(p, effects', ledger'.ever)
  BY <1>1, <1>8, <1>9, ContinueAwaits
<1>11. QueueInv' BY <1>1, <1>10, QueueOfHolder DEF Awaits
<1> QED BY <1>1, <1>6, <1>10, <1>11, RequestChanges

LEMMA ImportWorkerLedgerKept ==
    ASSUME IInv, UNCHANGED load, NEW h \in Handlers, NEW reported, NEW verified \in BOOLEAN,
           ImportWorkerLedger(h, reported, verified)
    PROVE  IInv'
<1>1. handler[h].phase = "queued" /\ queue[1] = h BY DEF ImportWorkerLedger, HasTurn
<1>2. queue # <<>> BY <1>1, QueueOfTurn
<1> QED BY <1>1, <1>2, ImportsLedgerKept DEF ImportWorkerLedger

LEMMA WorkerReportsKept ==
    ASSUME IInv, UNCHANGED load, NEW h \in Handlers, NEW reported, NEW verified \in BOOLEAN,
           WorkerReports(h, reported, verified)
    PROVE  IInv'
<1>1. handler[h].phase = "executing" BY DEF WorkerReports
<1>2. queue # <<>> /\ queue[1] = h BY <1>1, QueueOfTurn
<1>3. CASE /\ OnCurrentJob(handler[h].run, handler[h].job)
           /\ CanImport(RunOf(proj, handler[h].run).jobs[handler[h].job])
           /\ ImportsLedger(h, handler[h].run, handler[h].job, reported, verified)
  BY <1>2, <1>3, ImportsLedgerKept
<1>4. CASE handler' = [handler EXCEPT ![h] = Idle] /\ Leave(h) /\ UNCHANGED <<proj, ledger, effects>>
  <2>1. Idle.phase = "idle" /\ Awaits(Idle, effects, ledger.ever) BY DEF Idle, Awaits
  <2>2. QueueInv' BY <1>2, <1>4, <2>1, QueueLeft
  <2>3. LedgerInv' BY <1>4, LedgerStays
  <2>4. Awaits(Idle, effects', ledger'.ever) BY <1>4, <2>1
  <2> QED BY <1>4, <2>2, <2>3, <2>4, RequestChanges
<1> QED BY <1>3, <1>4 DEF WorkerReports

LEMMA RunWorkerJobKept ==
    ASSUME IInv, UNCHANGED load, NEW h \in Handlers, NEW ready \in BOOLEAN, RunWorkerJob(h, ready)
    PROVE  IInv'
<1> DEFINE r == handler[h].run
           j == handler[h].job
           run == RunOf(proj, r)
           job == Blocked(run.jobs[j], "authority")
<1>1. /\ handler[h].phase = "queued" /\ queue[1] = h
      /\ r \in IdOf(proj) /\ j \in DOMAIN run.jobs /\ CanRun(run.jobs[j])
      /\ LeaveIfEnded(h) /\ UNCHANGED <<proj, ledger, effects>>
      /\ IF ready
         THEN handler' = [handler EXCEPT ![h] =
                 [phase |-> "executing", run |-> r, job |-> j, snap |-> proj]]
         ELSE Continue(h, proj, WithJob(run, j, job))
  BY DEF RunWorkerJob, HasTurn, OnCurrentJob
<1>2. queue # <<>> BY <1>1, QueueOfTurn
<1>3. LedgerInv' BY <1>1, LedgerStays
<1>4. \E p : /\ handler' = [handler EXCEPT ![h] = p]
             /\ p.phase \in {"idle", "syncing", "executing"}
             /\ Awaits(p, effects, ledger.ever)
  <2>1. CASE ready
    <3> DEFINE p == [phase |-> "executing", run |-> r, job |-> j, snap |-> proj]
    <3>1. p.phase = "executing" /\ p.run = r /\ p.job = j /\ p.snap = proj OBVIOUS
    <3>2. handler' = [handler EXCEPT ![h] = p] BY <1>1, <2>1
    <3> HIDE DEF p, r, j
    <3>3. Awaits(p, effects, ledger.ever) BY <1>1, <3>1 DEF Awaits, IInv
    <3> QED BY <3>1, <3>2, <3>3
  <2>2. CASE ~ready
    <3>1. run \in Runs /\ Sound(run, effects, ledger.ever) BY <1>1, GoodRunOf DEF IInv
    <3>2. run.jobs[j] \in Jobs /\ Live(run.jobs[j])
      BY <1>1, <3>1 DEF Runs, Live, CanRun, CanImport
    <3> HIDE DEF run
    <3>3. job \in Jobs /\ job.stage = run.jobs[j].stage /\ job.status = "blocked"
      BY <3>2, BlockedJobTyped DEF JobMissing
    <3> HIDE DEF job
    <3>4. /\ WithJob(run, j, job) \in Runs
          /\ Sound(WithJob(run, j, job), effects, ledger.ever)
      BY <1>1, <3>1, <3>2, <3>3, JobRecordedIsSound
    <3> QED BY <1>1, <2>2, <3>4, ContinueAwaits DEF IInv
  <2> QED BY <2>1, <2>2
<1>5. PICK p : /\ handler' = [handler EXCEPT ![h] = p]
               /\ p.phase \in {"idle", "syncing", "executing"}
               /\ Awaits(p, effects, ledger.ever)
  BY <1>4
<1>6. QueueInv' BY <1>1, <1>2, <1>5, QueueOfHolder DEF Awaits
<1>7. Awaits(p, effects', ledger'.ever) BY <1>1, <1>5
<1> QED BY <1>1, <1>3, <1>5, <1>6, <1>7, RequestChanges

LEMMA WorkerFailsKept ==
    ASSUME IInv, UNCHANGED load, NEW h \in Handlers, NEW missing \in JobMissing,
           WorkerFails(h, missing)
    PROVE  IInv'
<1> DEFINE q == handler[h]
           run == RunOf(q.snap, q.run)
           job == Blocked(run.jobs[q.job], missing)
<1>1. /\ q.phase = "executing" /\ LeaveIfEnded(h) /\ UNCHANGED <<proj, ledger, effects>>
      /\ Continue(h, q.snap, WithJob(run, q.job, job))
  BY DEF WorkerFails
<1>2. queue # <<>> /\ queue[1] = h BY <1>1, QueueOfTurn
<1>3. /\ Good(q.snap, effects, ledger.ever) /\ q.run \in IdOf(q.snap)
      /\ q.job \in DOMAIN run.jobs /\ CanRun(run.jobs[q.job])
  BY <1>1 DEF IInv, HandlersInv, Awaits
<1>4. run \in Runs /\ Sound(run, effects, ledger.ever) BY <1>3, GoodRunOf
<1>5. run.jobs[q.job] \in Jobs /\ Live(run.jobs[q.job])
  BY <1>3, <1>4 DEF Runs, Live, CanRun, CanImport
<1> HIDE DEF q, run
<1>6. job \in Jobs /\ job.stage = run.jobs[q.job].stage /\ job.status = "blocked"
  BY <1>5, BlockedJobTyped
<1> HIDE DEF job
<1>7. /\ WithJob(run, q.job, job) \in Runs
      /\ Sound(WithJob(run, q.job, job), effects, ledger.ever)
  BY <1>3, <1>4, <1>5, <1>6, JobRecordedIsSound
<1>8. PICK p : /\ handler' = [handler EXCEPT ![h] = p]
               /\ p.phase \in {"idle", "syncing"}
               /\ Awaits(p, effects, ledger.ever)
  BY <1>1, <1>3, <1>7, ContinueAwaits
<1>9. QueueInv' BY <1>1, <1>2, <1>8, QueueOfHolder DEF Awaits
<1>10. LedgerInv' BY <1>1, LedgerStays
<1>11. Awaits(p, effects', ledger'.ever) BY <1>1, <1>8
<1> QED BY <1>1, <1>8, <1>9, <1>10, <1>11, RequestChanges

LEMMA RefusalKept ==
    ASSUME IInv, UNCHANGED load, NEW h \in Handlers, NEW r, NEW action \in Mutations,
           NEW key \in Keys, NEW approved, NEW complete, NEW url \in BOOLEAN,
           RecordPullRequestRefusal(h, r, action, key, approved, complete, url)
    PROVE  IInv'
<1> DEFINE run == RunOf(proj, r)
           may == IF approved THEN MayMutate(run, action, complete)
                              ELSE MayDryRun(run, action, complete)
           record == [action |-> action, key |-> key, url |-> url,
                      status |-> IF may THEN "dry_run_ready" ELSE "blocked"]
<1>1. /\ IsIdle(h) /\ r \in IdOf(proj) /\ Continue(h, proj, WithRecord(run, record))
      /\ UNCHANGED <<proj, ledger, queue, effects>>
  BY DEF RecordPullRequestRefusal
<1>2. run \in Runs /\ Sound(run, effects, ledger.ever) BY <1>1, GoodRunOf DEF IInv
<1> HIDE DEF run, may
<1>3. record \in PrRecords /\ record.status # "applied" BY DEF PrRecords
<1> HIDE DEF record
<1>4. WithRecord(run, record) \in Runs /\ Sound(WithRecord(run, record), effects, ledger.ever)
  BY <1>2, <1>3, MutationRecordedIsSound
<1> QED BY <1>1, <1>4, LocalChange

LEMMA MutatePullRequestKept ==
    ASSUME IInv, UNCHANGED load, NEW h \in Handlers, NEW r, NEW action \in Mutations,
           NEW key \in Keys, MutatePullRequest(h, r, action, key)
    PROVE  IInv'
<1> DEFINE p == [phase |-> "mutating", run |-> r, action |-> action, key |-> key, snap |-> proj]
<1>1. /\ p.phase = "mutating" /\ p.run = r /\ p.action = action /\ p.key = key /\ p.snap = proj
  OBVIOUS
<1>2. /\ handler' = [handler EXCEPT ![h] = p] /\ handler[h].phase = "idle"
      /\ r \in IdOf(proj) /\ MayMutate(RunOf(proj, r), action, TRUE)
      /\ UNCHANGED <<proj, ledger, queue, effects>>
  BY DEF MutatePullRequest, IsIdle
<1> HIDE DEF p
<1>3. Awaits(p, effects, ledger.ever) BY <1>1, <1>2 DEF Awaits, IInv
<1>4. QueueInv' BY <1>1, <1>2, QueueLeftAlone
<1>5. LedgerInv' BY <1>2, LedgerStays
<1> QED BY <1>2, <1>3, <1>4, <1>5, RequestChanges

\* What gh was let through for has not been applied in the copy it was read from.
LEMMA MayMutateIsFirst ==
    ASSUME NEW done, NEW ever, NEW run, Sound(run, done, ever), NEW action \in Mutations,
           MayMutate(run, action, TRUE), action # "update_pr_body"
    PROVE  \A i \in DOMAIN run.prs : ~(IsApplied(run, i) /\ run.prs[i].action = action)
<1>1. CASE action = "open_pr"
  BY <1>1 DEF MayMutate, HasUrl, Sound, Outside, IsApplied
<1>2. CASE action = "merge_pr"
  BY <1>2 DEF MayMutate, Merged, IsApplied
<1> QED BY <1>1, <1>2 DEF Mutations

LEMMA MutationAppliedKept ==
    ASSUME IInv, UNCHANGED load, NEW h \in Handlers, MutationApplied(h)
    PROVE  IInv'
<1> DEFINE q == handler[h]
           run == RunOf(q.snap, q.run)
           record == [action |-> q.action, key |-> q.key, status |-> "applied", url |-> TRUE]
<1>1. /\ q.phase = "mutating" /\ effects' = effects \cup {<<q.run, q.action>>}
      /\ Continue(h, q.snap, WithRecord(run, record)) /\ UNCHANGED <<proj, ledger, queue>>
  BY DEF MutationApplied
<1>2. /\ Good(q.snap, effects, ledger.ever) /\ q.run \in IdOf(q.snap)
      /\ q.action \in Mutations /\ q.key \in Keys /\ MayMutate(run, q.action, TRUE)
  BY <1>1 DEF IInv, HandlersInv, Awaits
<1>3. Good(q.snap, effects', ledger.ever) BY <1>1, <1>2, GoodGrows
<1>4. run \in Runs /\ Sound(run, effects', ledger.ever) /\ run.id = q.run
  BY <1>2, <1>3, GoodRunOf
<1>5. q.action # "update_pr_body" =>
         \A i \in DOMAIN run.prs : ~(IsApplied(run, i) /\ run.prs[i].action = q.action)
  BY <1>2, <1>4, MayMutateIsFirst
<1>6. <<run.id, q.action>> \in effects' BY <1>1, <1>4
<1>7. handler[h].phase = "mutating" BY <1>1
<1> HIDE DEF q, run
<1>8. /\ record \in PrRecords /\ record.url /\ record.action = q.action
      /\ record.status = "applied"
  BY <1>2 DEF PrRecords
<1> HIDE DEF record
<1>9. WithRecord(run, record) \in Runs /\ Sound(WithRecord(run, record), effects', ledger.ever)
  BY <1>4, <1>5, <1>6, <1>8, MutationRecordedIsSound
<1>10. PICK p : /\ handler' = [handler EXCEPT ![h] = p]
                /\ p.phase \in {"idle", "syncing"}
                /\ Awaits(p, effects', ledger.ever)
  BY <1>1, <1>3, <1>9, ContinueAwaits
<1>11. QueueInv' BY <1>1, <1>7, <1>10, QueueLeftAlone
<1>12. LedgerInv' BY <1>1, LedgerStays
<1>13. Awaits(p, effects', ledger'.ever) /\ effects \subseteq effects' BY <1>1, <1>10
<1> QED BY <1>1, <1>10, <1>11, <1>12, <1>13, RequestChanges

LEMMA WorkloadTypes ==
    ASSUME load \in Workload
    PROVE  /\ load.runs \subseteq RunIds /\ load.keys \subseteq Keys
           /\ load.actions \subseteq {"tick", "start", "pause", "block"}
           /\ load.own \subseteq Steps
           /\ load.serial \in BOOLEAN
BY DEF Workload, Steps

LEMMA LedgerCommandKept ==
    ASSUME IInv, UNCHANGED load, LedgerCommand
    PROVE  IInv'
<1>1. PICK t \in load.runs, s \in load.own, outcome \in load.outcomes :
         \E d \in IF s \in UserSteps THEN {"user"} ELSE {<<s[1], s[2], k>> : k \in load.keys} :
            RecordLedgerStep(t, s, d, outcome # "open", outcome = "verified")
  BY DEF LedgerCommand
<1>2. PICK d \in IF s \in UserSteps THEN {"user"} ELSE {<<s[1], s[2], k>> : k \in load.keys} :
         RecordLedgerStep(t, s, d, outcome # "open", outcome = "verified")
  BY <1>1
<1>3. t \in RunIds /\ s \in Steps /\ load.keys \subseteq Keys BY WorkloadTypes DEF IInv
<1>4. d \in Docs
  <2>1. CASE s \in UserSteps BY <1>2, <2>1 DEF Docs
  <2>2. CASE s \notin UserSteps
    <3>1. PICK k \in Keys : d = <<s[1], s[2], k>> BY <1>2, <1>3, <2>2
    <3>2. s[1] \in RunIds /\ s[2] \in Stages BY <1>3, <2>2 DEF Steps
    <3> QED BY <3>1, <3>2 DEF Docs
  <2> QED BY <2>1, <2>2
<1>5. /\ ledger' = LedgerWith(t, s, d, outcome # "open", outcome = "verified")
      /\ UNCHANGED <<proj, handler, queue, effects>>
  BY <1>2 DEF RecordLedgerStep
<1>6. LedgerInv' /\ ledger.ever \subseteq ledger'.ever
  <2>1. (outcome # "open") \in BOOLEAN /\ (outcome = "verified") \in BOOLEAN OBVIOUS
  <2>2. LedgerInv BY DEF IInv
  <2> QED BY <1>3, <1>4, <1>5, <2>1, <2>2, LedgerWithKept
<1>7. Good(proj', effects', ledger'.ever) BY <1>5, <1>6, GoodGrows DEF IInv
<1>8. HandlersInv' BY <1>5, <1>6, AwaitsGrows DEF IInv, HandlersInv
<1>9. QueueInv' BY <1>5 DEF IInv, QueueInv
<1> QED BY <1>6, <1>7, <1>8, <1>9 DEF IInv

LEMMA CrashKept ==
    ASSUME IInv, UNCHANGED load, Crash
    PROVE  IInv'
<1>1. /\ handler' = [h \in Handlers |-> Idle] /\ queue' = <<>> /\ UNCHANGED <<proj, ledger, effects>>
  BY DEF Crash
<1>2. HandlersInv' BY <1>1 DEF HandlersInv, Awaits, Idle
<1>3. QueueInv' BY <1>1 DEF QueueInv, Idle
<1>4. LedgerInv' BY <1>1, LedgerStays
<1> QED BY <1>1, <1>2, <1>3, <1>4 DEF IInv

LEMMA RequestKept ==
    ASSUME IInv, UNCHANGED load, NEW h \in Handlers, Request(h)
    PROVE  IInv'
<1>1. PICK r \in load.runs :
       \/ \E f \in Folders, b \in BOOLEAN : CreateRun(h, r, f, b)
       \/ WorkerRequest(h, r)
       \/ \E k \in load.keys : \/ StageRequest(h, r, k) \/ JobRequest(h, r, k)
                               \/ AdvanceRequest(h, r, k) \/ PullRequestRefusal(h, r, k)
                               \/ \E m \in Mutations : MutatePullRequest(h, r, m, k)
  BY DEF Request
<1>2. /\ r \in RunIds /\ load.keys \subseteq Keys
      /\ load.actions \subseteq {"tick", "start", "pause", "block"}
  BY WorkloadTypes DEF IInv
<1>3. ASSUME NEW f \in Folders, NEW b \in BOOLEAN, CreateRun(h, r, f, b) PROVE IInv'
  BY <1>2, <1>3, CreateRunKept
<1>4. CASE WorkerRequest(h, r)
  <2>1. PICK j \in JobIndexes, op \in {"import", "run"} : Enqueue(h, op, r, j)
    BY <1>4 DEF WorkerRequest
  <2> QED BY <2>1, EnqueueKept
<1>5. ASSUME NEW k \in load.keys, StageRequest(h, r, k) PROVE IInv'
  <2>1. PICK a \in {"tick", "start", "pause", "block", "complete"}, s \in Steps \cup {None} :
           RecordStage(h, r, a, k, s)
    BY <1>2, <1>5 DEF StageRequest, IInv, LedgerInv
  <2> QED BY <1>2, <2>1, RecordsStageKept DEF RecordStage
<1>6. ASSUME NEW k \in load.keys, JobRequest(h, r, k) PROVE IInv'
  BY <1>2, <1>6, CreateWorkerJobKept, CompleteWorkerJobKept DEF JobRequest
<1>7. ASSUME NEW k \in load.keys, AdvanceRequest(h, r, k) PROVE IInv'
  <2>1. PICK j \in JobIndexes : AdvanceWorkerStage(h, r, j, k) BY <1>7 DEF AdvanceRequest
  <2>2. /\ IsIdle(h) /\ r \in IdOf(proj)
        /\ RecordsStage(h, r, "complete", k, PlannedStep(r, RunOf(proj, r).current))
    BY <2>1 DEF AdvanceWorkerStage
  <2>3. RunOf(proj, r) \in Runs BY <2>2, GoodRunOf DEF IInv
  <2>4. PlannedStep(r, RunOf(proj, r).current) \in Steps
    BY <1>2, <2>3 DEF Runs, PlannedStep, Steps
  <2> QED BY <1>2, <2>2, <2>4, RecordsStageKept
<1>8. ASSUME NEW k \in load.keys, PullRequestRefusal(h, r, k) PROVE IInv'
  BY <1>2, <1>8, RefusalKept DEF PullRequestRefusal
<1>9. ASSUME NEW k \in load.keys, NEW m \in Mutations, MutatePullRequest(h, r, m, k) PROVE IInv'
  BY <1>2, <1>9, MutatePullRequestKept
<1> QED BY <1>1, <1>3, <1>4, <1>5, <1>6, <1>7, <1>8, <1>9

LEMMA AnswerKept ==
    ASSUME IInv, UNCHANGED load, NEW h \in Handlers, Answer(h)
    PROVE  IInv'
<1>1. ASSUME NEW b \in Remotes, PrepareWorkspace(h, b) PROVE IInv'
  <2>1. b \in BOOLEAN BY DEF Remotes
  <2> QED BY <1>1, <2>1, PrepareWorkspaceKept
<1>2. ASSUME NEW rep \in Reports, NEW v \in BOOLEAN,
             ImportWorkerLedger(h, rep, v) \/ WorkerReports(h, rep, v)
      PROVE  IInv'
  BY <1>2, ImportWorkerLedgerKept, WorkerReportsKept
<1>3. ASSUME NEW b \in BOOLEAN, RunWorkerJob(h, b) PROVE IInv' BY <1>3, RunWorkerJobKept
<1>4. ASSUME NEW missing \in JobMissing \ {"nothing"}, WorkerFails(h, missing) PROVE IInv'
  BY <1>4, WorkerFailsKept
<1>5. CASE MutationApplied(h) BY <1>5, MutationAppliedKept
<1> QED BY <1>1, <1>2, <1>3, <1>4, <1>5, ActiveStepKept DEF Answer

LEMMA InitInvariant == Init => IInv
<1> SUFFICES ASSUME Init PROVE IInv OBVIOUS
<1>1. load \in Workloads /\ load \in Workload BY AutoAssumption DEF Init
<1>2. Good(proj, effects, ledger.ever) BY DEF Init, Good, UniqueIds
<1>3. HandlersInv BY DEF Init, HandlersInv, Awaits, Idle
<1>4. QueueInv BY DEF Init, QueueInv, Idle
<1>5. LedgerInv BY DEF Init, LedgerInv
<1> QED BY <1>1, <1>2, <1>3, <1>4, <1>5 DEF IInv

LEMMA NextInvariant == IInv /\ [Next]_vars => IInv'
<1> SUFFICES ASSUME IInv, [Next]_vars PROVE IInv' OBVIOUS
<1>1. CASE UNCHANGED vars
  BY <1>1 DEF vars, IInv, HandlersInv, QueueInv, LedgerInv
<1>2. CASE Next
  BY <1>2, RequestKept, AnswerKept, LedgerCommandKept, CrashKept DEF Next
<1> QED BY <1>1, <1>2

LEMMA Invariance == Spec => []IInv
BY InitInvariant, NextInvariant, PTL DEF Spec

-----------------------------------------------------------------------------
(* Theorems                                                                *)

\* Without two places for one request, the queue is no longer than there are requests.
LEMMA QueueIsShort ==
    ASSUME QueueInv
    PROVE  Len(queue) <= Cardinality(Handlers)
<1>1. queue \in [1 .. Len(queue) -> Handlers] /\ Len(queue) \in Nat BY DEF QueueInv
<1>2. queue \in Injection(1 .. Len(queue), Handlers) BY <1>1 DEF QueueInv, Injection, IsInjective
<1>3. Cardinality(1 .. Len(queue)) <= Cardinality(Handlers)
  BY <1>2, FS_Injection, AutoAssumption
<1>4. Cardinality(1 .. Len(queue)) = IF 1 > Len(queue) THEN 0 ELSE Len(queue) - 1 + 1
  BY <1>1, FS_Interval
<1> QED BY <1>1, <1>3, <1>4

LEMMA CopiesAreGood ==
    ASSUME IInv, NEW runs \in Copies
    PROVE  Good(runs, effects, ledger.ever)
BY DEF Copies, IInv, HandlersInv, Awaits

\* Every copy of the projection is one the contract accepts.
THEOREM TypeCorrect == Spec => []TypeOK
<1>1. ASSUME IInv PROVE TypeOK
  <2>1. ASSUME NEW runs \in Copies, NEW i \in DOMAIN runs
        PROVE  runs[i] \in Runs /\ Consistent(runs[i])
    BY <1>1, CopiesAreGood DEF Good, Sound
  <2>2. ASSUME NEW runs \in Copies
        PROVE  \A i, j \in DOMAIN runs : runs[i].id = runs[j].id => i = j
    BY <1>1, CopiesAreGood DEF Good, UniqueIds
  <2>3. ASSUME NEW runs \in Copies, NEW i \in DOMAIN runs
        PROVE  /\ runs[i].id \in RunIds /\ runs[i].folder \in Folders
               /\ runs[i].current \in Stages /\ runs[i].status \in RunStatuses
               /\ \A s \in Stages : /\ runs[i].plan[s].status \in StageStatuses
                                   /\ runs[i].plan[s].step \in Steps \cup {None}
                                   /\ ConsistentStage(runs[i].plan[s])
               /\ \A j \in DOMAIN runs[i].jobs : runs[i].jobs[j] \in Jobs
               /\ \A j \in DOMAIN runs[i].prs : runs[i].prs[j] \in PrRecords
    BY <2>1 DEF Runs, Consistent
  <2>4. Len(queue) <= Cardinality(Handlers) BY <1>1, QueueIsShort DEF IInv
  <2> QED BY <1>1, <2>2, <2>3, <2>4 DEF TypeOK, IInv, LedgerInv
<1> QED BY <1>1, Invariance, PTL

\* A run whose last stage is completed was merged, by gh.
THEOREM MergedBeforeCompletion == Spec => []MergeBehindCompletion
<1>1. ASSUME IInv PROVE MergeBehindCompletion
  <2> SUFFICES ASSUME NEW i \in DOMAIN proj, StageDone(proj[i], MergeMain)
               PROVE  Merged(proj[i]) /\ <<proj[i].id, "merge_pr">> \in effects
    BY DEF MergeBehindCompletion
  <2>1. Sound(proj[i], effects, ledger.ever) BY <1>1 DEF IInv, Good
  <2>2. Merged(proj[i]) BY <2>1 DEF Sound, MergedFirst
  <2>3. PICK k \in DOMAIN proj[i].prs : IsApplied(proj[i], k) /\ proj[i].prs[k].action = "merge_pr"
    BY <2>2 DEF Merged, IsApplied
  <2> QED BY <2>1, <2>2, <2>3 DEF Sound, Outside
<1> QED BY <1>1, Invariance, PTL

LEMMA AtMostOne ==
    ASSUME NEW S, \A a, b \in S : a = b
    PROVE  Cardinality(S) <= 1
<1>1. CASE S = {} BY <1>1, FS_EmptySet
<1>2. CASE S # {}
  <2>1. PICK a \in S : S = {a} BY <1>2
  <2> QED BY <2>1, FS_Singleton
<1> QED BY <1>1, <1>2

LEMMA RecordedIsDone ==
    ASSUME NEW done, NEW ever, NEW runs, Good(runs, done, ever)
    PROVE  RecordedIn(runs) \subseteq done
<1>1. ASSUME NEW i \in DOMAIN runs PROVE Applied(runs[i]) \subseteq done
  BY DEF Good, Sound, Outside, Applied, IsApplied
<1>2. ASSUME NEW i \in DOMAIN runs, runs[i].issues PROVE <<runs[i].folder, "issues">> \in done
  BY <1>2 DEF Good, Sound, Outside
<1> SUFFICES ASSUME NEW e \in RecordedIn(runs) PROVE e \in done OBVIOUS
<1>3. CASE \E i \in DOMAIN runs : e \in Applied(runs[i]) BY <1>1, <1>3
<1>4. CASE \E i \in DOMAIN runs : runs[i].issues /\ e = <<runs[i].folder, "issues">> BY <1>2, <1>4
<1> DEFINE A == UNION {Applied(runs[i]) : i \in DOMAIN runs}
<1> DEFINE B == {<<runs[i].folder, "issues">> : i \in {j \in DOMAIN runs : runs[j].issues}}
<1>5. RecordedIn(runs) = A \cup B BY DEF RecordedIn
<1>6. CASE e \in A BY <1>3, <1>6
<1>7. CASE e \in B BY <1>4, <1>7
<1> HIDE DEF A, B
<1> QED BY <1>5, <1>6, <1>7

\* What the projection says was done outside was done, opening and merging once.
THEOREM AppliedOnceOnly == Spec => []AppliedOnce
<1>1. ASSUME IInv PROVE AppliedOnce
  <2>1. RecordedIn(proj) \subseteq effects BY <1>1, RecordedIsDone DEF IInv
  <2>2. ASSUME NEW i \in DOMAIN proj, NEW m \in {"open_pr", "merge_pr"}
        PROVE  Cardinality({j \in DOMAIN proj[i].prs :
                  proj[i].prs[j].action = m /\ proj[i].prs[j].status = "applied"}) <= 1
    <3>1. Outside(proj[i], effects) BY <1>1 DEF IInv, Good, Sound
    <3>2. \A a, b \in {j \in DOMAIN proj[i].prs :
                        proj[i].prs[j].action = m /\ proj[i].prs[j].status = "applied"} : a = b
      BY <3>1 DEF Outside, IsApplied
    <3> QED BY <3>2, AtMostOne
  <2> QED BY <2>1, <2>2 DEF AppliedOnce
<1> QED BY <1>1, Invariance, PTL

\* Completed stages and jobs rest on completed steps, each stage on its own.
THEOREM CompletedWorkRests == Spec => []CompletedWorkIsInLedger
<1>1. ASSUME IInv PROVE CompletedWorkIsInLedger
  BY <1>1 DEF CompletedWorkIsInLedger, IInv, Good, Sound, Rests
<1> QED BY <1>1, Invariance, PTL

\* At most one job of a stage can still be run, imported or completed, or has been.
THEOREM WorkersAreAlone == Spec => []OneWorkerPerStage
<1>1. ASSUME IInv PROVE OneWorkerPerStage
  <2> SUFFICES ASSUME NEW i \in DOMAIN proj, NEW j \in DOMAIN proj[i].jobs,
                      NEW k \in DOMAIN proj[i].jobs, proj[i].jobs[j].stage = proj[i].jobs[k].stage,
                      Live(proj[i].jobs[j]), Live(proj[i].jobs[k])
               PROVE  j = k
    BY DEF OneWorkerPerStage, Live
  <2>1. proj[i] \in Runs /\ OneWorker(proj[i]) BY <1>1 DEF IInv, Good, Sound
  <2>2. j \in Nat /\ k \in Nat BY <2>1 DEF Runs
  <2>3. ~(j < k) /\ ~(k < j) BY <2>1 DEF OneWorker
  <2> QED BY <2>2, <2>3
<1> QED BY <1>1, Invariance, PTL
=============================================================================
