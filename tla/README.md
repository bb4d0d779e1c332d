# Solo Superman: specifications

TLA+ specifications of the Solo Superman "Founder OS", the TLC models that check
them on small instances, and TLAPS proofs of what matters most for instances of any
size. Paths below are relative to the repository root; `command-service.ts` is
`apps/sidecar/src/product-engine/command-service.ts`.

## 1. The system

A local-first application. A web shell talks over HTTP to one sidecar process (Node),
which keeps everything in a SQLite database through a single connection.

| Part | State it keeps | Operations | Hard behaviour | What makes it correct |
| --- | --- | --- | --- | --- |
| Research runs and allowlists (`command-service.ts`, `research-run.ts`, the two repositories) | rows of `research_allowlists` and `research_runs`, each with a version | start, retry, cancel, poll; create, pause, revoke, update | handlers suspended while a provider works, stale rows, polling in a loop, pauses and revocations that sweep many runs | one run per key, no lost update, no late result, verdicts backed by evidence, nothing runs unauthorized |
| Evidence effect (`runResearchEvidenceEffect`) | the effect task of a result, evidence packs, memory files | import, claim, synthesize, record, settle | several writes without one transaction; failure in the middle | the run's verdict and the evidence agree |
| Session commands (`runSessionCommandSerialized`, `runCommand`, `persistReduction`) | per-session promise queue, event log, projections, queued effects | every command of the decision queue | commands outside the queue, event numbers from `max + 1`, replay | the log is a sequence of accepted commands |
| Product engine reducer (`packages/core/src/product-engine/index.ts`) | state replayed from events | one reducer per command | long command sequences | replay equals the state shown |
| Effect executors and Codex previews | `effect_tasks` with attempts and leases | claim, run, settle, requeue | crash while running, two executors, leases that nobody reads | each effect runs once, or is retried |
| Auto implementation | one projection with runs, stages, worker jobs, pull request mutations | create, advance, import ledger, run worker, mutate a pull request | read, wait for a subprocess, save the whole projection | no lost record, no repeated mutation |
| Step ledger (`implementation-step-ledger.ts`) | the records of each step, reviews by id | record | carried reviews beside fresh evidence, ids used twice | a completed step went the whole path, on one commit |
| Execution authority, service page permission, ChatGPT delegation | approvals, action records, grants | approve, preflight, execute | nothing is claimed before the side effect | an approval is used once, within its scope |
| Planning handoff, completeness | drafts, scores | score, hand off | boundaries of the scores | gates are monotone and reproducible |
| Web shell | queries, timers | poll, refresh, submit | answers out of order | the newest state is shown |
| Packaged update, launchers | files, processes | check, swap, restart | crash half-way | one runnable version |

How they interact: the web shell sends requests and polls; a request is served by an
async handler of the command service; the handler reads rows, may wait (for a provider,
a session queue, a subprocess, a file), and writes rows. Commands append events, events
create effect tasks, and an executor runs the effects. Research is where all of it meets:
a poll of the runs imports a result through the session queue, which creates an effect,
which the same handler executes, which changes the run.

`PROJECT.json` lists every part with its status and every hazard with its line.

## 2. What is modelled

### Modules

| Module | Models |
| --- | --- |
| `ResearchRun` | One row of `research_runs`: status graph, contract, the insert that gives way to an equal key, the compare-and-swap update, and the rows the service builds. No variables. |
| `ResearchRuns` | The research tables, the handlers of all requests, crashes. Extends `ResearchRun`. |
| `RunLifecycle` | Abstract: the life of a run as its user sees it. Implemented by `ResearchRuns`. |
| `ImplementationStepLedger` | The step ledger of a session: one command, its evidence rules, the streaks of reviews. |
| `AutoImplementation` | The auto implementation runs of a session: creation with issues, stages, worker jobs, pull request mutations, with the ledger as far as they read it, and what `gh` has done. |
| `DeliveryRun` | Abstract: how a run is delivered. Implemented by `AutoImplementation` when requests come one at a time. |
| `DecisionQueue` | The reducers of a session from its start to the handoff: purpose mode and critic intensity, questions, research, cards, specification, runtime artifacts. A snapshot of the session to an event. No variables. |
| `ProductSession` | The event log of one session, commands under the session's lock, effect tasks, the executors of evidence and of runtime previews beside the lock. Extends `DecisionQueue`. |
| `ServicePagePermission` | The page permissions of a session, of which the newest alone may be in force. |
| `ExecutionAuthority` | The authority records, the requests that act under them, the files they change, crashes. Extends `ServicePagePermission`. |
| `AuthorizedAction` | Abstract: a record is used once and its result says what was done. Implemented by `ExecutionAuthority` one request at a time. |
| `MCResearchRuns`, `MCLedger`, `MCAuto`, `MCSession`, `MCAuthority` | Instances for TLC: payloads, workloads, symmetry. |
| `ResearchRunsProofs`, `ResearchRunsSafety` | Type invariant and safety theorems of `ResearchRuns`, proved. |
| `ExecutionAuthorityProofs`, `ExecutionAuthoritySerial` | Every checked property of `ExecutionAuthority`, proved: under any interleaving, and one request at a time. |
| `LedgerProofs` | The four properties of the step ledger, proved. |
| `AutoProofs`, `AutoSerial` | Every safety property of `AutoImplementation`, proved: whatever copies are saved over each other, and one request at a time with the refinement of `DeliveryRun`. |
| `SessionProofs` | Type invariant and safety theorems of `ProductSession`, proved. |

A *workload* (`AutoImplementation`, `ProductSession`, `ExecutionAuthority`) is what the
clients of a session do: which commands, with which contents, one at a time or not, with
a crash or not. It is chosen in `Init` and never changes, so one run answers several
questions, each on an instance just large enough for it.

### Research runs: state and code

| Variable | Code |
| --- | --- |
| `allowlist` | the row of `research_allowlists` of a project (one allowlist: the runs of two are independent but for the concurrency budget) |
| `runs` | the rows of `research_runs`; an absent row is `NoRow`, version 0 |
| `results` | the imported research results, with the `research_evidence_effect` task of each and the gate of its evidence pack |
| `waiting` | research tasks whose wait effect is still queued (`cancelQueuedResearchTaskWait`) |
| `memory` | results written by `writeResearchMemoryForMatrix` |
| `ops` | one record per request in progress: its phase (`pc`) and what it has read. `seen` is the allowlist it read, `plan` the allowlist it saves, `todo` and `snap` the runs it listed and their rows then, `key`, `prior`, `run`, `result` the run or result it works on |
| `crashes` | restarts so far (a bound, no code) |

One action is the code between two awaits that change or read shared state, with
everything it does: the guards come from the code's early returns, and what the handler
read before an await stays in `ops`. A handler whose write is refused answers with an
error, which is `Replies(h)`; so does one that has finished.

* **Start and retry.** `StartResearchRun` or `RetryResearchRun`, then `FindExistingRun`,
  `CheckRateBudget`, `CreateRun` and `RecordProviderStart`. The key of a retry keeps the
  allowlist version of its prior run and counts the attempt.
* **Cancel.** `CancelResearchRun`, then `StopRun`: a waiting run is cancelled outright, a
  running one is only asked to stop, and nothing ever moves it on from there.
* **Govern.** `PauseResearchAllowlist`, `RevokeResearchAllowlist` or
  `UpdateResearchAllowlist`, then `SaveAllowlist`, `ListRuns` and one of `PauseRun`,
  `StopRun`, `ResumeRun` (followed by `RecordProviderStart`) for each listed run. A pause
  or a revocation of an allowlist that is already so skips the save and repeats the rest.
* **Poll.** `ListResearchRuns` polls every running run, `GetResearchRunStatus` one;
  `PollSucceeds` and `PollFails` are what the provider may answer.
* **Evidence.** `FindExistingResult`, `ImportProviderResult`, `ClaimEvidenceEffect`,
  `SynthesizeEvidence`, then `RecordResearchMemory` and `SettleEvidence`, or
  `SourceQualityInsufficient`, or `EvidenceEffectFails` (from either step).
* **By hand.** `ImportResearchResult` is the user's own result, which may name any run.

Abstractions: texts, sources, timestamps and disclosure logs are left out; a task, its
objective and its text are one value, and every task exists; a result is identified by
its task and its text as in the reducer; the loop over listed runs takes them in any
order, which covers the order of the code. Two retries with the same reason, and two
starts with the same context, have the same key, as in the code. The gate of an evidence
pack is any of the four values that synthesis can give it. A poll before the provider's
result window, and a start the allowlist blocks, change no modelled state and are left
out.

**Interleaving.** `Spec` lets handlers interleave at every await. That is more than the
build that ships can do: its database client (libsql on a local file) answers without giving up the
thread, so a handler really yields only where it waits for a provider's result, the
session queue or a file (the mounted adapters answer a start without waiting).
`SyncSpec` has only those interleavings (`Yielding`). Properties that hold under every
interleaving are checked and proved under `Spec`; the two that need the shipped client
are checked and proved under `SyncSpec` (run `research_sync`).

### The step ledger

`Record(s, p)` is the reducer of `RecordImplementationStepLedger` with the contract's
validation of the projection it makes. The code keeps a list of records; the model keeps
what is read back from it: `newest` record of each step, the last status that was not
blocked (`reached`), the `reviews` of each step, and the `register` of all reviews by id,
from which the contract recomputes every streak. A payload is accepted as its target
status, accepted as `blocked`, or rejected, which changes nothing.

### Auto implementation

`proj` is the projection, a sequence of runs. Every request reads all of it, changes its
copy and saves its copy without comparing. A request suspended in a wait is a `handler`
with its copy: `preparing` a workspace, waiting for the session `queue`, `executing` a
Codex worker, `mutating` with `gh`, or `syncing` the workspace files that are written
before each save. `ledger` holds the steps as far as stages and workers read them;
`RecordLedgerStep` is the user's own command. `effects` is what `gh` really did.
`Valid` is the contract: only the newest run of a projection can be updated.

A crash forgets the handlers. The texts of issues, pull requests and documents, the
baseline commit and the folders on disk are left out.

### The session

A *snapshot* is what the log replays to: stage, purpose mode, critic intensity, issues,
queue, research, decisions, version, handoff, runtime artifacts. A reducer (`AnalyzeAmbiguity`, `SubmitAnswer`, `SynthesizeEvidence`, ...) is the
set of events it may make of a snapshot, empty when the command is rejected; `Apply`
replays an event. As in the code an event carries the *whole* queue and research
projections, but only patches the issues and decisions; an analysis and a change of the
critic's intensity replace the list of issues. An issue keeps the lowest intensity at which
a business critic asks it, 0 for any other question.

`TakeLock` is `runSessionCommandSerialized` with the reading of the log; each command then
commits its events with the effect tasks they plan (`Persist`), in one transaction that
refuses an effect key that exists (`Conflict`). The executor (`Pick`, `Begin`,
`Synthesize`, `Finish`, `Fail`) is `runResearchEvidenceEffect`: it reads the log, and
commits without the lock. So is the executor of runtime previews (`PickTurn`, `AskTurn`,
`CommitTurn`, `FinishTurn`, `FailTurn`), which reads the log a second time when the runtime is
not there (`Unavailable`), for a manual handoff. `turns` holds the effects of a turn: the
first, and the retries `AskRuntime` makes once the first is settled. `overwritten` observes that something was committed from a
snapshot that was no longer the newest.

Order inside a queue list, scores, titles and most texts are left out. The text of an answer is
one of `Answers`, because ids are made of it: the task of an answer (`TaskOfAnswer`) and its
follow-ups (`AnswerOrigins`), of which there are as many as it has `Branches`; a refill may choose any
question it could choose. Which questions an analysis generates is chosen freely from
`Seeds`, with the intensity of each (`Least`) and whether it is about a first bottleneck of
planning (`Bottlenecks`). `ResearchOnly` questions are never asked, but may be a critic's like
any other. An analysis may bring a dropped question back under its old id whatever the mode and
intensity are by then; in the code the id holds both, so it comes back only under those it had.
The repeat limit of an issue goes by its `critic`; an issue the generator marks as an explicit
`balanced_con` without an intensity gets the critic's limit in the code (`index.ts:2206`) and the
wider one here. A workload starts from a session `from`: most start after the
first draft (`Drafted`), with a purpose mode and an intensity. A follow-up question is named
by its origin, as its hash does. `Sessions` is what the log may replay to: `TypeOK` demands it
of the session and of every snapshot, with two rules no field states alone, that only a
business has an intensity and that no question is repeated beyond its limit.

### Execution authority and page permissions

`authority` maps a record id to its payload and result. A request goes through `reading`
(`ReadAuthority`: replay a result, or preflight), for a page `checking`
(`CheckServicePage`), `starting` (the adapter's own checks, which may refuse), the work
itself, and `recording`. A diff is `targets` (all files read and patched in memory), then
`opening` and `writing` for each file: `writeFile` truncates before it writes, so a crash or
an error in between leaves the file `torn`. A command or a page is a single part. No step
compares the record with what was read: two requests may use the same record.

Path checks, command allowlists, sandbox folders and redirects are `Refuse`; the lines of
a diff are abstracted to "the file still holds its base".

## 3. Runs

| Run | Question | Bounds |
| --- | --- | --- |
| `research_runs` | Do the tables stay consistent in every interleaving, and implement `RunLifecycle`? | 2 runs of one task, 2 handlers, 1 retry, 3 allowlist versions, 1 manual import |
| `research_sync` | Does nothing run unauthorized, over budget, or on after a pause or revocation? | as above, 2 connectors, concurrency budgets 1 and 2, 1 crash, no import |
| `research_live` | Is every request answered, does every run leave its provider? | 2 runs, 2 handlers, no retry |
| `research_memory` | Does every settled provider result become memory? It does not. | 1 handler |
| `ledger` | Can a step complete without the whole path, or on evidence of another commit or step? | one step, 9 records; two steps that share review ids, 5 records |
| `auto` | Whatever copy is saved over which, does nothing complete or count without its evidence? In turn, is a run delivered as promised? | 7 workloads, 2 handlers, 2 runs, 2 keys, 3 stages, 1 crash |
| `auto_live` | Is every request answered and the session queue given back? | 2 handlers, one run with every wait |
| `auto_repeated` | Is `gh` never asked to create recorded issues again? It may be. | 2 creations at once |
| `queue` | Do questions keep coming and stop repeating, and is nothing handed off unreviewed? | 20 workloads, 2 answers, 3 seed and 3 follow-up questions, 3 intensities, 3 versions, 2 executors, 2 attempts, 2 effects of a turn |
| `queue_conflict` | Is an answer refused as a duplicate one that was recorded? It is not. | as `queue` |
| `queue_twice` | Is an answered card never answered again? It may be. | as `queue` |
| `authority` | Is only what was reviewed begun, in its permission, once, with a true result? | 10 workloads, 2 records, 2 handlers, 2 files, 2 permissions |

Properties, by the hazard they are for (their comments state each in words):

* Research. `OneRunPerKey`, `RetryChain`: racing starts and retries. `StoredRowsAreValid`: a
  row is validated whenever it is read, so a single bad one fails every listing.
  `WaitingNotStarted`, `SavesAreLegal`: a pause, resume or cancellation that races with a
  start; the version check is the only assertion that can refuse an update.
  `LateResultDropped`, `RunsOnlyAdvance`: a poll that comes back to a run that has changed.
  `EvidenceBehindVerdict`: verdict and evidence agree, whichever result came first.
  `StartsAreAuthorized`, `SweptWhenAnswered` (under `SyncSpec`): what is created or started
  while the allowlist changes. Under `Spec` neither would hold. `ImplementsRunLifecycle`,
  `RequestsAreAnswered`, `RunningRunsEnd`.
* Ledger. `NoStageSkipped`, `CompletedIsFinal`: detours through blocked records.
  `TestedWhatWasReviewed`: carried reviews beside fresh tests. `ReviewProvesOneStep`: an id
  used for two steps.
* Auto implementation. `MergeBehindCompletion`, `AppliedOnce`, `CompletedWorkIsInLedger`,
  `OneWorkerPerStage`: stale copies saved. `AskedOnceInTurn`, `DeliversRuns`: retries and
  order, one request at a time. `EveryRequestEnds`.
* Session. `QuestionsKeepComing`, `SettledUntilNewEvidence`, `ReadyMeansReviewed`,
  `VersionIsApproved`: long sequences of legal commands. `FollowUpsAreBounded`: each result
  counts from its own snapshot; the bound is on the follow-ups a session has, without the
  repeats of their source, because an analysis or a change of intensity may drop the source and
  bring it back counted from zero. `SettledUntilNewEvidence` has one exception, which the code
  has: a question of the critic that is only researched is dropped with its intensity and, when
  an analysis generates it again, its task is planned again under the same id; initial research
  has no effect that a duplicate could meet, so the settled card starts again. The queue item
  still shows the outcome it had, and the handoff believes it, hence the same exception in
  `ReadyMeansReviewed`. `NoWaitAfterSuccess`: two effect tasks of one result. All but
  `VersionIsApproved` and `NoWaitAfterSuccess` say nothing of a session in which a commit
  overwrote another; what can happen there is the finding of `queue_twice`.
* Authority. `ActsAsReviewed`: checks made at creation, at use and in the adapter, each of a
  part. `SettledIsNotRepeated`, `RevokedPageIsLeftAlone`: requests that come after a result or
  a revocation. `BegunIsRecorded`: error paths. `CompletedIsApplied` and
  `UsedOnceAsRecorded` (the refinement of `AuthorizedAction`): one request at a time.

Every property of a passing run has a mutant in `PROJECT.json`: a plausible slip in the
code, under which TLC finds the property violated.

Why the bounds suffice. Every hazard involves at most two actors and two rows, runs, steps
or records: a race for one key, a stale copy and the write that made it so, an old permission
and the newest. Three allowlist versions let an allowlist be created, narrowed and
reactivated. A crash at any point loses only the handlers, so one crash leaves every
half-done state there is. The stages of a delivery differ only at the first and the last:
`ReviewStages = 0` leaves initial, final and merge; the four review stages repeat the final
one. Nine records take a step through its eight statuses with one detour. Repeat limits of two and of one
(sixteen, and six for the critic, in the source) are the least that a follow-up of a
follow-up reaches. Two
files are the least that can be written in part. Bounds are the constants `Max...` and the
workloads, and appear only in guards. Symmetry is used where no liveness is checked.

`research_*` check for deadlock: a user can always poll, govern or start something. The
other instances stop when their bounds are used up, and say so in the `.cfg`.

**Fairness.** `ResearchRuns!FairSpec`: a handler that has begun continues (`WF` of
`Continue(h)`): the event loop runs every ready promise, and a provider call ends or throws.
Polling is strongly fair: while a run may be running the web shell lists the runs on a timer
(`RESEARCH_RUN_BACKGROUND_POLL_INTERVAL_MS`,
`apps/web/src/features/decision-queue/shell/useDecisionQueueShellController.ts:1506-1517`).
With the page closed nothing polls, and `RunningRunsEnd` is then not promised by the code
either. `AutoImplementation!FairSpec`: what a handler waits for happens (`WF` of
`Answer(h)`): files are written or fail, `gh` and the worker have timeouts, and the session
queue, a chain of promises, is first come, first served. No fairness is assumed of users.

### Findings

* `research_memory`: `docs/product_EN.md:62` says that provider-polled results must be saved
  as markdown memory. `runResearchEvidenceEffect` (`command-service.ts:3747-3769`) settles a
  result whose evidence has no usable source as failed and returns before the memory is
  written.
* `auto_repeated`: `docs/safety-and-permissions_EN.md:52` says that once issue URLs are
  recorded for a workspace, another request must not invoke the adapter. Whether they are
  recorded is read before the workspace is prepared (`command-service.ts:7136`) and not
  again, so two creations at once both ask.
* `queue_conflict`: until the planning research of a session has a result, every answer plans
  the task of the same id (`command-service.ts:3581`); the second answer is refused as an
  idempotency conflict and is not recorded, while the shell says "The same action was already
  handled." (`decision-queue-shell-model.ts:177`).
* `queue_twice`: the evidence effect commits a queue computed from the log it read before,
  outside the session's command queue (`command-service.ts:3731`); an answer in between is
  undone in the queue, and its card is active again. Once the planning research has a result, the
  task of an answer is named by its text (`packages/core/src/product-engine/index.ts:3155-3168`,
  `5182`), so a second answer with other words meets no duplicate and is recorded over the first.
  `server.test.ts:8137` says that an answered card cannot be submitted a second time.

Behaviours the models make plain and no statement of the repository contradicts: a crash,
or a rejected import, between a poll's update to `needs_review` and the import leaves the
run in review for good; a run in `cancel_requested` is never moved on; both keep counting
against the concurrency budget. An effect task left running by a crash is never claimed
again. A manual handoff whose artifact was replaced before it is looked for leaves its effect
running, and later requests of its turn are refused an effect. Two requests under way for one authority record both run the action, and the later
outcome replaces the earlier. What `gh` did for a run that is not the newest is recorded
nowhere.

## 4. Theorems

### Research runs

All but the last two are about `ResearchRuns!Spec`, for any finite or infinite sets of runs, handlers, tasks,
connectors and contents, and any bounds, from `BudgetAssumption` (the bounds are
naturals) and `RunIdsAssumption` (`NoRun` is not a run).

* `TypeCorrect`: `Spec => []TypeOK`. The type invariant is not inductive: an update is
  well-typed only if the row it was built from was stored, and a key only if the row it
  was taken from had one. `IInv` adds this: a row is `NoRow` or `Stored`, and a handler is
  `Equipped` with what its phase needs.
* `RunsAdvance`: `Spec => RunsOnlyAdvance`. By `NextIsRunStep`, a step leaves the runs
  alone, inserts one under a key nobody has, saves one over the version its writer read,
  or applies the gate of an evidence pack to one. Each of them advances the run.
* `KeysUnique`: `Spec => []OneRunPerKey`. From the same lemma: only an insert brings a new
  key, and only one that no run holds.
* `WaitingRunsNotStarted`: `Spec => []WaitingNotStarted`. Needs what a handler knows of
  the rows it holds: `SnapshotsPinned`, that a copy with the version of the run is the run.
  It is inductive because runs only advance. So a saved update was built from the row it
  replaces (`UpdateReplacesItsSource`), and one that makes a run waiting or cancelled is
  built from one that was never started.
* `RetriesAreChained`: `Spec => []RetryChain`. The prior run of a retry has ended, and what
  has ended does not change; the budget is carried from the request to the insert by
  `RetriesInBudget`.
* `RowsStayValid` and `OnlyRacesRefuse`: `Spec => []StoredRowsAreValid`, `[]SavesAreLegal`. What
  an update makes of a row depends on the status the row had when it was read, and the loops
  read many rows at once and write them one by one. `HeldInv` says which statuses the rows
  held in each phase had (`Fits`); with `SnapshotsPinned` that is the status of the run whenever
  the version check passes, and `PendingLegal` goes through the updates.
* `VerdictsHaveEvidence` and `LateResultsDropped`. `ReviewInv` follows an answer to its verdict:
  the handler that recorded it is the only one between it and its evidence, so a run it works
  on is in review, no result of that run is gated, and a result it has claimed names that
  run. A result imported by hand, or found in place of the provider's, is
  covered by the same invariant (`ReviewersInv`), because nothing but that handler executes it.
* `RunsLive`: `Spec => ImplementsRunLifecycle`. Each of the ways a step may write a run is a
  step of `RunLifecycle` or none (`StepLives`); that an answer is judged once is where
  `ReviewInv` is needed (`SynthesisLives`), and that nothing but the synthesis judges is
  `JudgedKept`.
* `StartsKeepTheAllowlist` and `AnsweredWhenSwept` are about `SyncSpec`, whose behaviours are
  behaviours of `Spec` (`SyncIsSpec`), so all of the above holds there too. `SyncInv`: a handler that is
  not at a yielding phase is the only such one, and what it has read of the allowlist and
  lists of the runs is what there is (`UpToDate`). Under `Spec` this is false, and so are the
  two properties. A handler about to insert has counted the runs that exist, which are
  finitely many (`ExistingFinite`). A loop that pauses or revokes holds every run it has yet to
  stop, and by `PendingLegal` none of its updates is refused, so it ends with none left
  (`LoopEndsSwept`).

Every safety property of the runs `research_runs` and `research_sync` is proved.

### Execution authority

About `ExecutionAuthority!Spec`, for any sets of records, previews and requests, any
workloads and any number of files and permissions, from `AuthorityAssumption` (there is a
file, no hash is called "base" or "torn", `None` is not a scope, workloads are made of
records, payloads and requests) and `PermissionAssumption`. All seven properties of run
`authority` are proved.

* `ExecutionAuthorityProofs` has one invariant, `IInv`. The properties are not inductive: they
  speak of requests that act, and what makes them true was read steps before, while records
  and permissions could still change. So `Sound` says what a request knows where it is:
  `Equipped` with a record, a file or an outcome; `Informed` that its record exists, was not
  issued blocked, and, if it came late or to a barred page, that this is still so; `Cleared`
  by the preflight and the adapter. `SoundPersists` is why it survives other requests: a
  record never loses its payload or its result, and a permission that is not in force never
  is again (`Keeps`). `RowSound` ties the scope of a record to permissions that exist.
  `TypeCorrect`, `SettledNotRepeated` and `RevokedPageLeftAlone` follow at once;
  `ReviewedOnly` and `BegunRecorded` are inductive relative to it.
* `ExecutionAuthoritySerial` adds what holds one request at a time. `FilesInv` says what
  every file holds at each step of the one diff under way (`Written`), from which
  `CompletedApplied`: a diff can only be written over bases, and while a file is torn or
  a base no diff is recorded as completed, whatever crashes left behind. `CountInv` says which
  parts were begun at each step (`Counted`) and that nobody else gives the record a result
  (`Open`); it needs `BegunRecorded`. With it every step is a step of `AuthorizedAction` or
  none: `UsedOnce`, the refinement.

### The step ledger

About `ImplementationStepLedger!Spec`, for any steps, documents, review ids, commits and
bounds, from `LedgerAssumption`. The command compares a target with the last status that
was not blocked, and with nothing else; which statuses were recorded on the way is nowhere
stored. `PathInv` ties the two together: the visited statuses lie at or before the one
reached, and from `implementing` on there is no gap (`OnPath`). A record that is not
blocked has the status reached or the next (`InOrder`), and a blocked one leaves it alone.
`NoneSkipped` and `CompletedStays` follow. `TestedAsReviewed` does not need the path: every
record that completes a step is examined on one draft, its carried reviews with the
evidence of the command (`CompletedDraft`), and no other record changes that step.

`ReviewsProveOneStep` needs the reviews of the whole ledger. `RegisterInv`: the register holds
one review per id, with the step it was last recorded for (`PutKeepsOnePerId`, the Map keyed
by review id), and the streaks of every recorded step are those the register proves, because
the validation counts them again for every step on every record (`RegisterStep`). A review
that counts for a step is therefore one registered under its name (`CountedIsRegistered`), and
an id is registered under one. `PassIds` takes positions in order with `Nth`; that there is an
n-th position is `NthIsMember`, by the ranks of the positions.

### Auto implementation

About `AutoImplementation!Spec`, for any keys, workloads, finite set of handlers and bounds,
from `AutoAssumption` (a process has finitely many requests under way; workloads are made
of requests). Every safety property of run `auto` is proved, and the refinement.

* `AutoProofs` lets any copy be saved over any other. None of the properties is inductive
  there: they speak of the stored projection, and what is stored next is a copy made long
  before. `IInv` therefore says the same of *every* copy, stored or held: it is `Good` with
  respect to what `gh` has done and to the steps the ledger has ever completed, both of which
  only grow, so that a copy that was good stays good however long its request is suspended.
  What a request will add to its copy is settled before its wait, when it was let through:
  `Awaits` says for each place a request may wait at what it found in its copy. `QueueInv`
  adds that one request at a time holds the session queue. `TypeCorrect`,
  `MergedBeforeCompletion`, `AppliedOnceOnly`, `CompletedWorkRests` and `WorkersAreAlone`
  follow.
* `AutoSerial` adds what holds one request at a time. `TurnInv`: there is one request under
  way, its copy is what is stored, what it is about to save is one step of `DeliveryRun`, and
  what `gh` has done is what is recorded. From it `AskedOnce`, and `DeliveredInOrder`: each step
  of `Spec` is a step of `DeliveryRun` or leaves the run alone.

### The session

About `ProductSession!Spec`, for any questions, tasks, previews, turns, executors, workloads
and bounds, from `DecisionQueueAssumption` (the kinds of what is queued are apart, `None` is
none of them, limits are naturals; nothing is assumed of which questions are the critic's) and `SessionAssumption` (workloads are made of the
constants and start from a session that is new or drafted).

A commit is computed from a snapshot and applied to whatever the session has become. So the
proof is in two halves. The first says of each reducer that its events are `Sound`: applied to
the *snapshot they were computed from* they give a session that `Follows` it, which is
consistent, offers questions if it has to, keeps to the limits of research, takes no outcome
back without new evidence unless it asks a question anew (`Reopens`), and is not ready
unreviewed. There is one lemma per reducer; the hard ones are `AnswerSound`, `IntensitySound`, `AnalyzeSound` and `SynthesisSound`, and the names of follow-ups
(`NamedTyped`), where `Named` picks an origin for each id, need that distinct ids are picked
within the limit of `MaxFollowUps`. The second half is `Committed`: a commit from a snapshot that is
still the session does what the reducer promised, and one from an older snapshot (it sets
`overwritten`) still keeps the types, the effects and the decisions.

`IInv` carries what `Committed` needs of every snapshot that may still be committed:

* every task of a snapshot but the initial ones has an effect (`Planned`), and effects are never forgotten
  (`Remembers`), so a commit that plans a task is refused unless the task is new to its
  snapshot. This is what makes `SettledUntilNewEvidence` hold, and nothing smaller would: the
  reducer itself takes the outcome back of a task planned twice. An initial task can only be
  planned twice by an analysis, and then its question was gone: until then it is open
  (`Unclosed`), and an analysis is refused while a question is open;
* while a user holds the lock nobody else moves the mode or the decisions (`LockInv`), although
  executors commit beside it; `DecisionsInv` follows, and `VersionIsApproved` from that;
* a session nothing was overwritten in is `Consistent`. Its first part, that a card listed in the
  queue shows no outcome its research does not have, that of initial research excepted, is what
  `ReadyMeansReviewed` rests on: the handoff believes the listed card;
* its last part, `Bounded`, is `FollowUpsAreBounded`, and it takes two limits at once. A task's
  critic may go and come back with the intensity while its follow-ups stay, so evidence may
  count those of both kinds against either limit (`EvidenceBounded`): counted with the
  critic's, all of them are within it; counted with the other, those of the critic are no more
  than before. A list that takes the place of the issues may only take follow-ups over or drop
  them (`ListBounded`), and answers open follow-ups of no task (`KeptBounded`);
* an effect that delivered leaves no wait behind (`JobsInv`), whichever executor settles it,
  which is `NoWaitAfterSuccess`.

`SessionsAreWellTyped`, `OfferedQuestionsGoOn`, `ResearchAsksWithinLimits`, `SettledCardsStay`,
`HandoffsAreReviewed`, `DeliveryEndsTheWait` and `VersionsHoldApprovals` state the seven
properties of run `queue`.

### Only model-checked

* Liveness: `RequestsAreAnswered`, `RunningRunsEnd`, `EveryRequestEnds`.
* What a recursive definition computes for every input. There is no `RECURSIVE` operator in
  the project.

## 5. Not modelled

* *Codex runtime previews*: the protocol with the subprocess, whose answers are chosen
  freely.
* *ChatGPT delegation*: commands that append to one projection under the session's lock,
  one after the other, with validation of texts.
* *Completeness scoring, synthesis, ranking, memory lookup, rendering*: functions of texts,
  without state; where their outcome matters it is chosen freely.
* *HTTP server, SSE, web shell*: they carry and mirror projections. The shell's polling timer
  appears as fairness.
* *Packaged update, launchers, migrations, release scripts*: processes, downloads and
  declarations.
* *Contracts* of the modelled projections are part of the modules that depend on them; the
  other contracts validate types and texts.

A large part of the repository is of these kinds: the copy and components of the web shell,
contracts that validate texts, builders of documents and prompts. They have no behaviour
over time to check, and stay outside the models.
