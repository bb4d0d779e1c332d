------------------------------ MODULE ResearchRuns ------------------------------
(***************************************************************************)
(* The read-only research of one project: an allowlist that authorizes it, *)
(* the runs started under the allowlist, the provider results they bring   *)
(* back, and the executor that turns a result into evidence.               *)
(*                                                                         *)
(* A request is served by a handler.  A handler is suspended at every      *)
(* await, so each action below is the code between two awaits, and what    *)
(* the handler read before is in its local state: the allowlist it saw,    *)
(* the rows it listed.  Between two actions of a handler any other handler *)
(* may run, and the process may crash, which loses every handler.          *)
(***************************************************************************)
EXTENDS ResearchRun

CONSTANTS
    Contents,            \* what a provider or a user may report for a task
    Handlers,            \* requests in progress
    MaxRunsPerSession,   \* rateBudgetPolicy.maxRunsPerSession
    MaxRetries,          \* rateBudgetPolicy.maxAutomaticRetriesPerRun
    MaxConcurrentChoices,\* values a policy may give maxConcurrentRunsPerProject
    MaxAllowlistVersion, \* bound: governance updates stop there
    MaxImports,          \* bound: results a user imports by hand
    MaxCrashes           \* bound: restarts of the process

ASSUME BudgetAssumption ==
    /\ MaxRunsPerSession \in Nat /\ MaxRetries \in Nat
    /\ MaxConcurrentChoices \subseteq Nat \ {0}
    /\ MaxAllowlistVersion \in Nat /\ MaxImports \in Nat /\ MaxCrashes \in Nat

VARIABLES
    allowlist,  \* the row of research_allowlists
    runs,       \* the rows of research_runs
    results,    \* the imported results, with the effect task of each
    waiting,    \* tasks whose wait effect is still queued
    memory,     \* results written as research memory markdown
    ops,        \* the handlers
    crashes     \* restarts so far

vars == <<allowlist, runs, results, waiting, memory, ops, crashes>>

-----------------------------------------------------------------------------
(* Data.                                                                   *)

Allowlists == [status : {"none", "active", "paused", "revoked"}, version : Nat,
               connectors : SUBSET Connectors, maxRuns : Nat]

NoAllowlist == [status |-> "none", version |-> 0, connectors |-> {}, maxRuns |-> 0]

\* A result is identified by its task and its text, whoever imports it.
ResultIds == Objectives \X Contents

NoResult == <<>>

ResultGates == Verdicts \cup {"none", "needs_review"}

Results == [effect : {"none", "queued", "running", "succeeded", "failed"},
            attempts : Nat, origin : {"none", "provider", "manual"},
            run : RunIds \cup {NoRun}, gate : ResultGates]

NotImported == [effect |-> "none", attempts |-> 0, origin |-> "none",
                run |-> NoRun, gate |-> "none"]

MaxAttempts == 2    \* attempts of a research effect task

Imported(origin, r) ==
    [NotImported EXCEPT !.effect = "queued", !.origin = origin, !.run = r]

Phases == {"idle",
           "finding", "budgeting", "creating", "starting",
           "saving", "listing", "pausing", "revoking", "resuming", "restarting",
           "cancelling", "polling",
           "importing", "ingesting", "claiming", "synthesizing", "remembering", "settling"}

Ops == [pc : Phases, seen : Allowlists, plan : Allowlists,
        key : Keys \cup {NoKey}, prior : RunIds \cup {NoRun},
        todo : SUBSET RunIds, snap : [RunIds -> Rows],
        run : RunIds \cup {NoRun}, result : ResultIds \cup {NoResult}]

NothingRead == [r \in RunIds |-> NoRow]

IdleOp == [pc |-> "idle", seen |-> NoAllowlist, plan |-> NoAllowlist,
           key |-> NoKey, prior |-> NoRun, todo |-> {}, snap |-> NothingRead,
           run |-> NoRun, result |-> NoResult]

Existing == {r \in RunIds : runs[r].version # 0}
Occupied == {r \in Existing : runs[r].status \notin Terminal}

\* The snapshot a handler keeps of the rows it listed.
Snapshot(rs) == [r \in RunIds |-> IF r \in rs THEN runs[r] ELSE NoRow]

-----------------------------------------------------------------------------
(* Handler bookkeeping.                                                    *)

Idle(h) == ops[h] = IdleOp
At(h, phase) == ops[h].pc = phase
Becomes(h, op) == ops' = [ops EXCEPT ![h] = op]
Replies(h) == Becomes(h, IdleOp)

\* The loop over listed runs is done with r: the snapshot of r is dropped.
Without(op, r) == [op EXCEPT !.todo = @ \ {r}, !.snap[r] = NoRow]

\* The handler goes on with r alone, having read it as row.
Holding(op, phase, r, row) ==
    [op EXCEPT !.pc = phase, !.todo = {r}, !.snap = [NothingRead EXCEPT ![r] = row]]

\* A guarded update: it saves the row, or the handler fails with an exception.
SavesOrFails(h, r, new, op) ==
    IF Saves(runs[r], new)
    THEN runs' = [runs EXCEPT ![r] = new] /\ Becomes(h, op)
    ELSE UNCHANGED runs /\ Replies(h)

-----------------------------------------------------------------------------
(* Starting and retrying a run.                                            *)

Permits(list, connector) == list.status = "active" /\ connector \in list.connectors

\* A start that the allowlist blocks only logs a disclosure: it is left out.
StartResearchRun(h, o, c, x) ==
    /\ Idle(h)
    /\ Permits(allowlist, c)
    /\ Becomes(h, [IdleOp EXCEPT !.pc = "finding", !.seen = allowlist,
            !.key = [objective |-> o, connector |-> c, context |-> x,
                     allowlistVersion |-> allowlist.version, attempt |-> 1]])
    /\ UNCHANGED <<allowlist, runs, results, waiting, memory, crashes>>

RetryBudgetLeft(attempt) == attempt < MaxRetries + 1

\* The retry keeps the allowlist version of the prior run's key.
RetryResearchRun(h, r, x) ==
    /\ Idle(h)
    /\ runs[r].status \in Retryable
    /\ Permits(allowlist, runs[r].key.connector)
    /\ RetryBudgetLeft(runs[r].key.attempt)
    /\ Becomes(h, [IdleOp EXCEPT !.pc = "finding", !.seen = allowlist, !.prior = r,
            !.key = [runs[r].key EXCEPT !.context = x, !.attempt = @ + 1]])
    /\ UNCHANGED <<allowlist, runs, results, waiting, memory, crashes>>

\* startMountedResearchRunIfQueued, up to the provider's answer.
StartsIfQueued(h, r) ==
    IF runs[r].status = "queued"
    THEN Becomes(h, Holding(IdleOp, "starting", r, runs[r]))
    ELSE Replies(h)

FindExistingRun(h) ==
    /\ At(h, "finding")
    /\ \/ /\ Holders(runs, ops[h].key) = {}
          /\ Becomes(h, [ops[h] EXCEPT !.pc = "budgeting"])
       \/ \E r \in Holders(runs, ops[h].key) : StartsIfQueued(h, r)
    /\ UNCHANGED <<allowlist, runs, results, waiting, memory, crashes>>

\* Slip: the run about to start is not counted.
WithinRateBudgetUncounted(list) ==
    /\ Cardinality(Occupied) <= list.maxRuns
    /\ Cardinality(Existing) < MaxRunsPerSession

WithinRateBudget(list) ==
    /\ Cardinality(Occupied) < list.maxRuns
    /\ Cardinality(Existing) < MaxRunsPerSession

CheckRateBudget(h) ==
    /\ At(h, "budgeting")
    /\ IF WithinRateBudget(ops[h].seen)
       THEN Becomes(h, [ops[h] EXCEPT !.pc = "creating"])
       ELSE Replies(h)
    /\ UNCHANGED <<allowlist, runs, results, waiting, memory, crashes>>

\* The insert of run r.  A start may name the id of its run; the id of a retry
\* is always new.  A row with the same key wins over the insert, a row with the
\* same id and another key is a conflict.
CreateRun(h, r) ==
    /\ At(h, "creating")
    /\ LET key     == ops[h].key
           holders == Holders(runs, key)
           fresh   == r \notin Existing
           row     == QueuedRow(key, ops[h].prior)
       IN  \/ /\ RetrySourceOK(runs, key, ops[h].prior)
              /\ fresh /\ holders = {}
              /\ runs' = [runs EXCEPT ![r] = row]
              /\ Becomes(h, Holding(IdleOp, "starting", r, row))
           \/ /\ fresh \/ r \in holders
              /\ \E s \in holders : StartsIfQueued(h, s)
              /\ UNCHANGED runs
           \/ /\ ops[h].prior = NoRun
              /\ r \in Existing \ holders
              /\ UNCHANGED runs /\ Replies(h)
    /\ UNCHANGED <<allowlist, results, waiting, memory, crashes>>

\* The provider has answered the start: the run is recorded as running.
RecordProviderStart(h, r) ==
    /\ ops[h].pc \in {"starting", "restarting"}
    /\ r \in ops[h].todo
    /\ At(h, "restarting") => r = ops[h].run
    /\ SavesOrFails(h, r, StartedRow(ops[h].snap[r]),
            IF At(h, "starting") THEN IdleOp
            ELSE [Without(ops[h], r) EXCEPT !.pc = "resuming", !.run = NoRun])
    /\ UNCHANGED <<allowlist, results, waiting, memory, crashes>>

-----------------------------------------------------------------------------
(* Stopping a run, and governing the allowlist.                            *)

CancelResearchRun(h, r) ==
    /\ Idle(h)
    /\ runs[r].status \in Waiting \cup {"running"}
    /\ Becomes(h, Holding(IdleOp, "cancelling", r, runs[r]))
    /\ UNCHANGED <<allowlist, runs, results, waiting, memory, crashes>>

CreateResearchAllowlist(cs, n) ==
    /\ allowlist.status = "none"
    /\ allowlist' = [status |-> "active", version |-> 1, connectors |-> cs, maxRuns |-> n]
    /\ UNCHANGED <<runs, results, waiting, memory, ops, crashes>>

\* The handler saves plan next, unless the allowlist already has the status it
\* asks for: then only the runs are gone through again.
Governs(h, plan) ==
    /\ Idle(h)
    /\ allowlist.status # "none" /\ plan.version <= MaxAllowlistVersion
    /\ Becomes(h, [IdleOp EXCEPT !.seen = allowlist, !.plan = plan, !.pc =
            IF plan = allowlist THEN "listing" ELSE "saving"])
    /\ UNCHANGED <<allowlist, runs, results, waiting, memory, crashes>>

WithStatus(list, status) ==
    IF list.status = status THEN list
    ELSE [list EXCEPT !.status = status, !.version = @ + 1]

PauseResearchAllowlist(h) ==
    allowlist.status # "revoked" /\ Governs(h, WithStatus(allowlist, "paused"))

RevokeResearchAllowlist(h) == Governs(h, WithStatus(allowlist, "revoked"))

\* A fresh approval: new connectors and budget, and reactivation if asked.
UpdateResearchAllowlist(h, cs, n, reactivate) ==
    /\ allowlist.status # "revoked"
    /\ Governs(h, [status |-> IF reactivate THEN "active" ELSE allowlist.status,
                   version |-> allowlist.version + 1, connectors |-> cs, maxRuns |-> n])

SaveAllowlist(h) ==
    /\ At(h, "saving")
    /\ IF allowlist.version = ops[h].plan.version - 1
       THEN /\ allowlist' = ops[h].plan
            /\ IF ops[h].plan.status # ops[h].seen.status
               THEN Becomes(h, [ops[h] EXCEPT !.pc = "listing"])
               ELSE Replies(h)
       ELSE UNCHANGED allowlist /\ Replies(h)
    /\ UNCHANGED <<runs, results, waiting, memory, crashes>>

\* Slip: a revocation forgets the runs that a pause had set aside.
AffectedInProgress(status) == IF status = "active" THEN {"paused"} ELSE {"queued", "running"}

\* Which runs a change of the allowlist's status concerns, and what follows.
Affected(status) ==
    CASE status = "paused"  -> {"queued", "running"}
      [] status = "revoked" -> {"queued", "running", "paused"}
      [] status = "active"  -> {"paused"}

LoopOf(status) ==
    CASE status = "paused" -> "pausing" [] status = "revoked" -> "revoking"
      [] status = "active" -> "resuming"

ListRuns(h) ==
    /\ At(h, "listing")
    /\ LET status == ops[h].plan.status
           todo == {r \in RunIds : runs[r].status \in Affected(status)}
       IN  Becomes(h, [ops[h] EXCEPT !.pc = LoopOf(status), !.todo = todo,
                                     !.snap = Snapshot(todo)])
    /\ UNCHANGED <<allowlist, runs, results, waiting, memory, crashes>>

PauseRun(h, r) ==
    /\ At(h, "pausing")
    /\ r \in ops[h].todo /\ ops[h].snap[r].status = "queued"
    /\ SavesOrFails(h, r, Move(ops[h].snap[r], "paused"), Without(ops[h], r))
    /\ UNCHANGED <<allowlist, results, waiting, memory, crashes>>

\* cancelResearchRunWithMountedAdapter: for a cancel request, and for each run
\* that a paused, revoked or narrower allowlist no longer covers.
StopRun(h, r) ==
    /\ r \in ops[h].todo
    /\ \/ ops[h].pc \in {"cancelling", "revoking"}
       \/ At(h, "pausing") /\ ops[h].snap[r].status = "running"
       \/ At(h, "resuming") /\ ~Permits(ops[h].plan, ops[h].snap[r].key.connector)
    /\ SavesOrFails(h, r, CancelledRow(ops[h].snap[r]), Without(ops[h], r))
    /\ UNCHANGED <<allowlist, results, waiting, memory, crashes>>

\* The run is queued again, and started before the next one is looked at.
ResumeRun(h, r) ==
    /\ At(h, "resuming")
    /\ r \in ops[h].todo /\ Permits(ops[h].plan, ops[h].snap[r].key.connector)
    /\ LET queued == Move(ops[h].snap[r], "queued")
       IN  SavesOrFails(h, r, queued, [ops[h] EXCEPT !.pc = "restarting", !.run = r,
                                                     !.snap[r] = queued])
    /\ UNCHANGED <<allowlist, results, waiting, memory, crashes>>

-----------------------------------------------------------------------------
(* Polling the provider.  A poll that comes before the result window of the *)
(* provider changes nothing and is left out.                                *)

Polls(h, rs) ==
    /\ Idle(h)
    /\ rs # {}
    /\ Becomes(h, [IdleOp EXCEPT !.pc = "polling", !.todo = rs, !.snap = Snapshot(rs)])
    /\ UNCHANGED <<allowlist, runs, results, waiting, memory, crashes>>

\* Slip: runs of an earlier version of the allowlist are no longer polled.
RunningUnderAllowlist ==
    {r \in RunIds : runs[r].status = "running"
                    /\ runs[r].key.allowlistVersion = allowlist.version}

Running == {r \in RunIds : runs[r].status = "running"}

ListResearchRuns(h) == Polls(h, Running)

GetResearchRunStatus(h, r) == r \in Running /\ Polls(h, {r})

\* Slips: the lost update goes unnoticed and the result is imported; the run is
\* polled again from the same stale row.
SavesOrImports(h, r, new, op) ==
    /\ runs' = [runs EXCEPT ![r] = IF Unchanged(@, new) THEN new ELSE @]
    /\ Becomes(h, op)

SavesOrPollsAgain(h, r, new, op) ==
    IF Unchanged(runs[r], new)
    THEN SavesOrFails(h, r, new, op)
    ELSE UNCHANGED <<runs, ops>>

\* The update after a poll: if the run has changed since, the poll is dropped
\* and the handler goes on.
SavesOrSkips(h, r, new, op) ==
    IF Unchanged(runs[r], new)
    THEN SavesOrFails(h, r, new, op)
    ELSE UNCHANGED runs /\ Becomes(h, Without(ops[h], r))

PollSucceeds(h, r, content) ==
    /\ At(h, "polling")
    /\ r \in ops[h].todo
    /\ SavesOrSkips(h, r, DeliveredRow(ops[h].snap[r]),
            [Without(ops[h], r) EXCEPT !.pc = "importing", !.run = r,
                !.result = <<ops[h].snap[r].key.objective, content>>])
    /\ UNCHANGED <<allowlist, results, waiting, memory, crashes>>

PollFails(h, r) ==
    /\ At(h, "polling")
    /\ r \in ops[h].todo
    /\ SavesOrSkips(h, r, FailedRow(ops[h].snap[r]), Without(ops[h], r))
    /\ UNCHANGED <<allowlist, results, waiting, memory, crashes>>

\* The handler is done with the run it polled.
PollsOn(op) == [op EXCEPT !.pc = "polling", !.run = NoRun, !.result = NoResult]

-----------------------------------------------------------------------------
(* From a provider result to evidence.                                     *)

ResultsOf(r) == {id \in ResultIds : results[id].run = r}

\* A result that names the run already is used in place of the provider's.
FindExistingResult(h) ==
    /\ At(h, "importing")
    /\ \/ /\ ResultsOf(ops[h].run) = {}
          /\ Becomes(h, [ops[h] EXCEPT !.pc = "ingesting"])
       \/ \E id \in ResultsOf(ops[h].run) :
              Becomes(h, IF results[id].effect = "queued"
                         THEN [ops[h] EXCEPT !.pc = "claiming", !.result = id]
                         ELSE PollsOn(ops[h]))
    /\ UNCHANGED <<allowlist, runs, results, waiting, memory, crashes>>

\* In the session's command queue.  Nothing is imported twice for a run; a
\* result whose effect task exists already is rejected, and the handler fails.
ImportProviderResult(h) ==
    /\ At(h, "ingesting")
    /\ IF ResultsOf(ops[h].run) # {}
       THEN UNCHANGED results /\ Becomes(h, PollsOn(ops[h]))
       ELSE IF results[ops[h].result].effect # "none"
       THEN UNCHANGED results /\ Replies(h)
       ELSE /\ results' = [results EXCEPT ![ops[h].result] = Imported("provider", ops[h].run)]
            /\ Becomes(h, [ops[h] EXCEPT !.pc = "claiming"])
    /\ UNCHANGED <<allowlist, runs, waiting, memory, crashes>>

ManuallyImported == {id \in ResultIds : results[id].origin = "manual"}

\* A user imports a result, and may name a run, of whatever task.  Nothing
\* executes its effect but a poll of that run.
ImportResearchResult(id, r) ==
    /\ results[id].effect = "none"
    /\ Cardinality(ManuallyImported) < MaxImports
    /\ r \in Existing \cup {NoRun}
    /\ results' = [results EXCEPT ![id] = Imported("manual", r)]
    /\ UNCHANGED <<allowlist, runs, waiting, memory, ops, crashes>>

ClaimEvidenceEffect(h) ==
    /\ At(h, "claiming")
    /\ results' = [results EXCEPT ![ops[h].result].effect = "running",
                                  ![ops[h].result].attempts = @ + 1]
    /\ Becomes(h, [ops[h] EXCEPT !.pc = "synthesizing"])
    /\ UNCHANGED <<allowlist, runs, waiting, memory, crashes>>

\* One transaction: the evidence pack with its gate, and the run it names.
SynthesizeEvidence(h, gate) ==
    /\ At(h, "synthesizing")
    /\ LET id == ops[h].result
           r == results[id].run
       IN  /\ results' = [results EXCEPT ![id].gate = gate]
           /\ runs' = [runs EXCEPT ![r] = WithEvidencePack(@, gate)]
    /\ Becomes(h, [ops[h] EXCEPT !.pc = "remembering"])
    /\ UNCHANGED <<allowlist, waiting, memory, crashes>>

RecordResearchMemory(h) ==
    /\ At(h, "remembering")
    /\ waiting' = waiting \ {ops[h].result[1]}
    /\ memory' = memory \cup {ops[h].result}
    /\ Becomes(h, [ops[h] EXCEPT !.pc = "settling"])
    /\ UNCHANGED <<allowlist, runs, results, crashes>>

SettleEvidence(h) ==
    /\ At(h, "settling")
    /\ results' = [results EXCEPT ![ops[h].result].effect = "succeeded"]
    /\ Becomes(h, PollsOn(ops[h]))
    /\ UNCHANGED <<allowlist, runs, waiting, memory, crashes>>

\* The evidence has no usable source: the effect fails for good, and no memory
\* is written.
SourceQualityInsufficient(h) ==
    /\ At(h, "remembering")
    /\ results[ops[h].result].gate \in {"research_insufficient", "stale"}
    /\ waiting' = waiting \ {ops[h].result[1]}
    /\ results' = [results EXCEPT ![ops[h].result].effect = "failed",
                                  ![ops[h].result].attempts = MaxAttempts]
    /\ Becomes(h, PollsOn(ops[h]))
    /\ UNCHANGED <<allowlist, runs, memory, crashes>>

\* A rejected command, or a memory file that cannot be written.
EvidenceEffectFails(h) ==
    /\ ops[h].pc \in {"synthesizing", "remembering"}
    /\ waiting' = IF At(h, "remembering") THEN waiting \ {ops[h].result[1]} ELSE waiting
    /\ results' = [results EXCEPT ![ops[h].result].effect =
                    IF results[ops[h].result].attempts < MaxAttempts
                    THEN "queued" ELSE "failed"]
    /\ Becomes(h, PollsOn(ops[h]))
    /\ UNCHANGED <<allowlist, runs, memory, crashes>>

-----------------------------------------------------------------------------

Reply(h) ==
    /\ ops[h].pc \in {"pausing", "revoking", "resuming", "cancelling", "polling"}
    /\ ops[h].todo = {}
    /\ Replies(h)
    /\ UNCHANGED <<allowlist, runs, results, waiting, memory, crashes>>

Crash ==
    /\ crashes < MaxCrashes
    /\ \E h \in Handlers : ~Idle(h)
    /\ crashes' = crashes + 1
    /\ ops' = [h \in Handlers |-> IdleOp]
    /\ UNCHANGED <<allowlist, runs, results, waiting, memory>>

Init ==
    /\ allowlist = NoAllowlist
    /\ runs = NothingRead
    /\ results = [id \in ResultIds |-> NotImported]
    /\ waiting = Objectives
    /\ memory = {}
    /\ ops = [h \in Handlers |-> IdleOp]
    /\ crashes = 0

Request(h) ==
    \/ \E o \in Objectives, c \in Connectors, x \in Contexts : StartResearchRun(h, o, c, x)
    \/ \E r \in RunIds, x \in Contexts : RetryResearchRun(h, r, x)
    \/ \E r \in RunIds : CancelResearchRun(h, r)
    \/ PauseResearchAllowlist(h)
    \/ RevokeResearchAllowlist(h)
    \/ \E cs \in SUBSET Connectors \ {{}}, n \in MaxConcurrentChoices, b \in BOOLEAN :
            UpdateResearchAllowlist(h, cs, n, b)
    \/ ListResearchRuns(h)
    \/ \E r \in RunIds : GetResearchRunStatus(h, r)

\* What a handler does once its request is accepted.
Continue(h) ==
    \/ FindExistingRun(h)
    \/ CheckRateBudget(h)
    \/ \E r \in RunIds : CreateRun(h, r)
    \/ \E r \in RunIds : RecordProviderStart(h, r)
    \/ SaveAllowlist(h)
    \/ ListRuns(h)
    \/ \E r \in RunIds : PauseRun(h, r) \/ StopRun(h, r) \/ ResumeRun(h, r)
    \/ \E r \in RunIds, c \in Contents : PollSucceeds(h, r, c)
    \/ \E r \in RunIds : PollFails(h, r)
    \/ FindExistingResult(h)
    \/ ImportProviderResult(h)
    \/ ClaimEvidenceEffect(h)
    \/ \E g \in ResultGates \ {"none"} : SynthesizeEvidence(h, g)
    \/ RecordResearchMemory(h)
    \/ SettleEvidence(h)
    \/ SourceQualityInsufficient(h)
    \/ EvidenceEffectFails(h)
    \/ Reply(h)

\* Requests served in one step.
Outside ==
    \/ \E cs \in SUBSET Connectors \ {{}}, n \in MaxConcurrentChoices :
            CreateResearchAllowlist(cs, n)
    \/ \E id \in ResultIds, r \in RunIds \cup {NoRun} : ImportResearchResult(id, r)

Next ==
    \/ Outside
    \/ \E h \in Handlers : Request(h) \/ Continue(h)
    \/ Crash

Spec == Init /\ [][Next]_vars

\* A handler that has begun runs to its reply, and the web shell polls the runs
\* on a timer for as long as one of them may still be running.
Fairness ==
    /\ \A h \in Handlers : WF_vars(Continue(h))
    /\ SF_vars(\E h \in Handlers : ListResearchRuns(h))

FairSpec == Spec /\ Fairness

-----------------------------------------------------------------------------
(* The database client answers a query without giving up the thread, so in *)
(* the build that ships a handler really yields only where it waits for    *)
(* something else: the provider, the session's command queue, the memory   *)
(* file, the next request.  SyncSpec is Spec with only those interleavings.*)

Yielding == {"idle", "polling", "ingesting", "remembering"}

OthersYield(h) == \A g \in Handlers \ {h} : ops[g].pc \in Yielding

SyncNext ==
    \/ (\A h \in Handlers : ops[h].pc \in Yielding) /\ Outside
    \/ \E h \in Handlers : OthersYield(h) /\ (Request(h) \/ Continue(h))
    \/ Crash

SyncSpec == Init /\ [][SyncNext]_vars

-----------------------------------------------------------------------------
(* Safety.                                                                 *)

\* Every variable keeps its type.
TypeOK ==
    /\ allowlist \in Allowlists
    /\ runs \in [RunIds -> Rows]
    /\ results \in [ResultIds -> Results]
    /\ waiting \subseteq Objectives
    /\ memory \subseteq ResultIds
    /\ ops \in [Handlers -> Ops]
    /\ crashes \in 0..MaxCrashes

\* Two runs never share an idempotency key, whatever starts and retries race
\* and whichever run ids the requests name.
OneRunPerKey ==
    \A r, s \in Existing : runs[r].key = runs[s].key => r = s

\* Every stored row satisfies the contract.  A row is validated again whenever it
\* is read, so a single one that does not would fail every listing of the runs.
StoredRowsAreValid == \A r \in Existing : ValidRow(runs[r])

\* A retry continues a run of the same task that ended without accepted
\* evidence, as its next attempt, within the retry budget.
RetryChain ==
    \A r \in Existing : runs[r].retryOf # NoRun =>
        LET prior == runs[runs[r].retryOf]
        IN  /\ prior.status \in Retryable
            /\ prior.key.objective = runs[r].key.objective
            /\ runs[r].key.attempt = prior.key.attempt + 1
            /\ runs[r].key.attempt <= MaxRetries + 1

\* A queued or paused run has never been handed to the provider, and neither
\* has a cancelled one: a pause or a cancellation that finds a run started
\* only asks it to stop.
WaitingNotStarted ==
    \A r \in RunIds : runs[r].status \in Waiting \cup {"absent", "cancelled"} => ~runs[r].started

\* The write a handler is about to make to run r, from the row it has read.
Pending(op, r) ==
    CASE op.pc \in {"starting", "restarting"} -> {StartedRow(op.snap[r])}
      [] op.pc \in {"cancelling", "revoking"} -> {CancelledRow(op.snap[r])}
      [] op.pc = "pausing"  -> IF op.snap[r].status = "queued"
                               THEN {Move(op.snap[r], "paused")} ELSE {CancelledRow(op.snap[r])}
      [] op.pc = "resuming" -> IF Permits(op.plan, op.snap[r].key.connector)
                               THEN {Move(op.snap[r], "queued")} ELSE {CancelledRow(op.snap[r])}
      [] op.pc = "polling"  -> {DeliveredRow(op.snap[r]), FailedRow(op.snap[r])}
      [] OTHER -> {}

\* The version check is the only thing that can refuse an update: when the row
\* is still the one the handler read, no assertion of the repository fires.
SavesAreLegal ==
    \A h \in Handlers : \A r \in ops[h].todo :
        (At(h, "restarting") => r = ops[h].run) =>
            \A new \in Pending(ops[h], r) :
                Unchanged(runs[r], new) => LegalUpdate(runs[r], new)

\* A run is accepted, insufficient or stale exactly when evidence of its own
\* says so: some result naming it was gated so, and none was gated otherwise.
EvidenceBehindVerdict ==
    \A r \in RunIds :
        /\ runs[r].status \in Verdicts =>
               \E id \in ResultsOf(r) : results[id].gate = runs[r].status
        /\ \A id \in ResultsOf(r) :
               results[id].gate \in Verdicts => runs[r].status = results[id].gate

\* What the provider brings after the run was stopped, failed or taken by
\* another poll is dropped: a provider result is kept only for a run whose
\* delivery was recorded, and for no run is it kept twice.
LateResultDropped ==
    \A r \in RunIds :
        LET kept == {id \in ResultsOf(r) : results[id].origin = "provider"}
        IN  /\ kept # {} => runs[r].status \in {"needs_review"} \cup Verdicts
            /\ Cardinality(kept) <= 1

\* A run changes only forward: a finished run never changes, every save moves
\* the version on, so that no save is lost under another one.
RunsOnlyAdvance ==
    [][\A r \in RunIds : runs'[r] # runs[r] =>
          /\ runs[r].status \notin Terminal
          /\ runs'[r].version > runs[r].version]_vars

\* What a run needs to be created or put to work: an allowlist that is active
\* and names its connector.
Authorized(r) ==
    allowlist.status = "active" /\ runs'[r].key.connector \in allowlist.connectors

\* No run is created or started under an allowlist that has meanwhile been
\* paused, revoked or narrowed, and none is created beyond its budgets.
StartsAreAuthorized ==
    [][\A r \in RunIds :
          /\ runs[r].status = "absent" /\ runs'[r].status # "absent" =>
                /\ Authorized(r)
                /\ Cardinality(Occupied') <= allowlist.maxRuns
                /\ Cardinality(Existing') <= MaxRunsPerSession
          /\ runs[r].status # "running" /\ runs'[r].status = "running" => Authorized(r)]_vars

\* Whoever revokes or pauses the allowlist is answered only once no run is left to
\* stop: none queued, paused or running after a revocation, none queued or running
\* after a pause.  A crash may leave some behind, for the repeated request to stop.
SweptWhenAnswered ==
    [][\A h \in Handlers :
          ops[h].pc \in {"pausing", "revoking"} /\ ops'[h] = IdleOp /\ crashes' = crashes =>
              \A r \in RunIds : runs'[r].status \notin {"queued", "running"}
                  \cup (IF At(h, "revoking") THEN {"paused"} ELSE {})]_vars

\* docs/product_EN.md:62: a provider-polled result must be saved as markdown
\* memory.  Once its effect is settled it should be there.
SettledResultIsRemembered ==
    \A id \in ResultIds :
        results[id].origin = "provider" /\ results[id].effect \in {"succeeded", "failed"}
            => id \in memory

-----------------------------------------------------------------------------
(* Liveness.                                                               *)

\* Every request is answered: no loop over runs goes on for ever, whatever the
\* other handlers do to the runs it listed.
RequestsAreAnswered == \A h \in Handlers : ~Idle(h) ~> Idle(h)

\* A run does not stay with the provider for ever: its result is taken, it
\* fails, or it is asked to stop.
RunningRunsEnd ==
    \A r \in RunIds : runs[r].status = "running" ~> runs[r].status # "running"

-----------------------------------------------------------------------------
(* The abstract life of a run, which this module implements.               *)

LifeOf(status) ==
    CASE status = "absent"           -> "absent"
      [] status \in Waiting          -> "waiting"
      [] status = "running"          -> "active"
      [] status = "cancel_requested" -> "stopping"
      [] status = "needs_review"     -> "review"
      [] OTHER                       -> "done"

Lifecycle == INSTANCE RunLifecycle WITH
    life  <- [r \in RunIds |-> LifeOf(runs[r].status)],
    judged <- {r \in RunIds : \E id \in ResultsOf(r) :
                  results[id].origin = "provider" /\ results[id].gate # "none"}

\* Seen from outside, each run lives the life of RunLifecycle.
ImplementsRunLifecycle == Lifecycle!Spec
=============================================================================
