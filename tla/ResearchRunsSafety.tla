--------------------------- MODULE ResearchRunsSafety ---------------------------
(***************************************************************************)
(* Safety theorems about ResearchRuns that rest on the type invariant of   *)
(* ResearchRunsProofs and on what a step may do to the table of runs.      *)
(***************************************************************************)
EXTENDS ResearchRunsProofs, FiniteSetTheorems

-----------------------------------------------------------------------------
(* A step writes at most one run, in one of three ways.                    *)

\* The insert of a queued run under a key that no run has.
Inserts(h, r) ==
    /\ At(h, "creating") /\ ops[h].key \in Keys /\ ops[h].prior \in RunIds \cup {NoRun}
    /\ r \notin Existing
    /\ Holders(runs, ops[h].key) = {}
    /\ RetrySourceOK(runs, ops[h].key, ops[h].prior)
    /\ runs' = [runs EXCEPT ![r] = QueuedRow(ops[h].key, ops[h].prior)]

\* The guarded update that a handler makes from the row it has read.
Updates(h, r, new) ==
    /\ r \in ops[h].todo
    /\ At(h, "restarting") => r = ops[h].run
    /\ new \in Pending(ops[h], r)
    /\ Continues(ops[h].snap[r], new)
    /\ Saves(runs[r], new)
    /\ runs' = [runs EXCEPT ![r] = new]

\* The update that an evidence pack makes to the run its result names.
Judges(r, g) ==
    /\ \E h \in Handlers : SynthesizeEvidence(h, g)
    /\ runs' = [runs EXCEPT ![r] = WithEvidencePack(@, g)]

RunStep ==
    \/ UNCHANGED runs
    \/ \E h \in Handlers, r \in RunIds : Inserts(h, r)
    \/ \E h \in Handlers, r \in RunIds : \E new : Updates(h, r, new)
    \/ \E r \in RunIds, g \in ResultGates \ {"none"} : Judges(r, g)

LEMMA SaveIsUpdate ==
    ASSUME IInv, NEW h \in Handlers, NEW r \in ops[h].todo, NEW new \in Pending(ops[h], r),
           At(h, "restarting") => r = ops[h].run,
           NEW op, SavesOrFails(h, r, new, op)
    PROVE  RunStep
<1>1. ops[h] \in Ops /\ Equipped(ops[h]) BY DEF IInv, HandlersInv
<1>2. r \in RunIds BY <1>1 DEF Ops
<1>3. Continues(ops[h].snap[r], new) BY <1>1, PendingContinues
<1>4. CASE Saves(runs[r], new)
  <2>1. Updates(h, r, new) BY <1>3, <1>4 DEF Updates, SavesOrFails
  <2> QED BY <1>2, <2>1 DEF RunStep
<1>5. CASE ~Saves(runs[r], new)
  BY <1>5 DEF SavesOrFails, RunStep
<1> QED BY <1>4, <1>5

LEMMA NextIsRunStep ==
    ASSUME IInv, [Next]_vars
    PROVE  RunStep
<1>1. ASSUME NEW h \in Handlers, Continue(h) PROVE RunStep
  <2>0. ops[h] \in Ops /\ Equipped(ops[h]) BY DEF IInv, HandlersInv
  <2>1. ASSUME NEW r \in RunIds, CreateRun(h, r) PROVE RunStep
    <3>1. CASE UNCHANGED runs BY <3>1 DEF RunStep
    <3>2. CASE ~UNCHANGED runs
      <4>1. ops[h].key \in Keys /\ ops[h].prior \in RunIds \cup {NoRun}
        BY <2>0, <2>1 DEF CreateRun, At, Equipped, Ops
      <4>2. Inserts(h, r) BY <2>1, <3>2, <4>1 DEF CreateRun, Inserts
      <4> QED BY <4>2 DEF RunStep
    <3> QED BY <3>1, <3>2
  <2>2. ASSUME NEW r \in RunIds, RecordProviderStart(h, r) PROVE RunStep
    <3>1. r \in ops[h].todo /\ StartedRow(ops[h].snap[r]) \in Pending(ops[h], r)
      BY <2>2 DEF RecordProviderStart, Pending
    <3> DEFINE op == IF At(h, "starting") THEN IdleOp
                     ELSE [Without(ops[h], r) EXCEPT !.pc = "resuming", !.run = NoRun]
    <3>2. SavesOrFails(h, r, StartedRow(ops[h].snap[r]), op) BY <2>2 DEF RecordProviderStart
    <3> HIDE DEF op
    <3> QED BY <2>2, <3>1, <3>2, SaveIsUpdate DEF RecordProviderStart
  <2>3. ASSUME NEW r \in RunIds, PauseRun(h, r) PROVE RunStep
    <3>1. r \in ops[h].todo /\ Move(ops[h].snap[r], "paused") \in Pending(ops[h], r)
      BY <2>3 DEF PauseRun, Pending, At
    <3> QED BY <2>3, <3>1, SaveIsUpdate DEF PauseRun, At
  <2>4. ASSUME NEW r \in RunIds, StopRun(h, r) PROVE RunStep
    <3>1. r \in ops[h].todo /\ CancelledRow(ops[h].snap[r]) \in Pending(ops[h], r)
      BY <2>4 DEF StopRun, Pending, At
    <3> QED BY <2>4, <3>1, SaveIsUpdate DEF StopRun, At
  <2>5. ASSUME NEW r \in RunIds, ResumeRun(h, r) PROVE RunStep
    <3>1. r \in ops[h].todo /\ Move(ops[h].snap[r], "queued") \in Pending(ops[h], r)
      BY <2>5 DEF ResumeRun, Pending, At
    <3> QED BY <2>5, <3>1, SaveIsUpdate DEF ResumeRun, At
  <2>6. ASSUME NEW r \in ops[h].todo, NEW new \in Pending(ops[h], r), NEW op,
               At(h, "polling"), SavesOrSkips(h, r, new, op)
        PROVE  RunStep
    <3>1. CASE SavesOrFails(h, r, new, op) BY <2>6, <3>1, SaveIsUpdate DEF At
    <3>2. CASE UNCHANGED runs BY <3>2 DEF RunStep
    <3> QED BY <2>6, <3>1, <3>2 DEF SavesOrSkips
  <2>7. ASSUME NEW r \in RunIds, PollFails(h, r) PROVE RunStep
    <3>1. r \in ops[h].todo /\ FailedRow(ops[h].snap[r]) \in Pending(ops[h], r)
      BY <2>7 DEF PollFails, Pending, At
    <3> QED BY <2>6, <2>7, <3>1 DEF PollFails
  <2>8. ASSUME NEW r \in RunIds, NEW c \in Contents, PollSucceeds(h, r, c) PROVE RunStep
    <3>1. r \in ops[h].todo /\ DeliveredRow(ops[h].snap[r]) \in Pending(ops[h], r)
      BY <2>8 DEF PollSucceeds, Pending, At
    <3> QED BY <2>6, <2>8, <3>1 DEF PollSucceeds
  <2>9. ASSUME NEW g \in ResultGates \ {"none"}, SynthesizeEvidence(h, g) PROVE RunStep
    <3> DEFINE r == results[ops[h].result].run
    <3>1. runs' = [runs EXCEPT ![r] = WithEvidencePack(@, g)]
      BY <2>9 DEF SynthesizeEvidence
    <3> HIDE DEF r
    <3>2. CASE r \in RunIds BY <2>9, <3>1, <3>2 DEF Judges, RunStep
    <3>3. CASE r \notin RunIds
      <4>1. runs \in [RunIds -> Rows] BY DEF IInv, RowsInv
      <4>2. UNCHANGED runs BY <3>1, <3>3, <4>1
      <4> QED BY <4>2 DEF RunStep
    <3> QED BY <3>2, <3>3
  <2>10. ASSUME \/ FindExistingRun(h) \/ CheckRateBudget(h) \/ SaveAllowlist(h) \/ ListRuns(h)
                \/ FindExistingResult(h) \/ ImportProviderResult(h) \/ ClaimEvidenceEffect(h)
                \/ RecordResearchMemory(h) \/ SettleEvidence(h) \/ SourceQualityInsufficient(h)
                \/ EvidenceEffectFails(h) \/ Reply(h)
         PROVE  RunStep
    BY <2>10 DEF RunStep, FindExistingRun, CheckRateBudget, SaveAllowlist, ListRuns,
                 FindExistingResult, ImportProviderResult, ClaimEvidenceEffect,
                 RecordResearchMemory, SettleEvidence, SourceQualityInsufficient,
                 EvidenceEffectFails, Reply
  <2> QED BY <1>1, <2>1, <2>2, <2>3, <2>4, <2>5, <2>7, <2>8, <2>9, <2>10 DEF Continue
<1>2. ASSUME NEW h \in Handlers, Request(h) PROVE RunStep
  BY <1>2 DEF RunStep, Request, StartResearchRun, RetryResearchRun, CancelResearchRun,
         PauseResearchAllowlist, RevokeResearchAllowlist, UpdateResearchAllowlist, Governs,
         ListResearchRuns, GetResearchRunStatus, Polls
<1>3. CASE Outside
  BY <1>3 DEF RunStep, Outside, CreateResearchAllowlist, ImportResearchResult
<1>4. CASE Crash \/ UNCHANGED vars
  BY <1>4 DEF RunStep, Crash, vars
<1> QED BY <1>1, <1>2, <1>3, <1>4 DEF Next

-----------------------------------------------------------------------------
(* A run only advances.                                                    *)

LEMMA TerminalIsFinal ==
    ASSUME NEW s \in Terminal
    PROVE  SameRunTransitions(s) = {}
BY StatusNames DEF SameRunTransitions

\* What one step does to one run.
Advances(r) ==
    /\ runs[r].status \notin Terminal
    /\ runs'[r].version > runs[r].version
    /\ runs[r].version # 0 => runs'[r].key = runs[r].key /\ runs'[r].retryOf = runs[r].retryOf

LEMMA StepAdvances ==
    ASSUME IInv, [Next]_vars, NEW r \in RunIds, runs'[r] # runs[r]
    PROVE  Advances(r)
<1>1. runs \in [RunIds -> Rows] /\ (runs[r] = NoRow \/ Stored(runs[r]))
  BY DEF IInv, RowsInv
<1>2. ASSUME NEW h \in Handlers, Inserts(h, r) PROVE Advances(r)
  <2>1. runs[r] = NoRow /\ runs'[r] = QueuedRow(ops[h].key, ops[h].prior)
    BY <1>1, <1>2 DEF Inserts, Existing, Stored
  <2>2. runs'[r].version = 1 BY <1>2, <2>1, QueuedRowStored DEF Inserts
  <2> QED BY <2>1, <2>2, NoRowType, StatusNames DEF Advances
<1>3. ASSUME NEW h \in Handlers, NEW new, Updates(h, r, new) PROVE Advances(r)
  <2>1. runs'[r] = new /\ Saves(runs[r], new) BY <1>1, <1>3 DEF Updates
  <2>2. runs[r].version \in Nat /\ new.version = runs[r].version + 1
    BY <1>1, <2>1, NoRowType DEF Saves, Unchanged, Stored, Rows
  <2>3. runs[r].status \notin Terminal
    BY <2>1, TerminalIsFinal DEF Saves, LegalUpdate
  <2>4. new.key = runs[r].key /\ new.retryOf = runs[r].retryOf
    BY <2>1 DEF Saves, LegalUpdate, KeepsIdentity
  <2> QED BY <2>1, <2>2, <2>3, <2>4 DEF Advances
<1>4. ASSUME NEW g \in ResultGates \ {"none"}, Judges(r, g) PROVE Advances(r)
  <2> DEFINE new == WithEvidencePack(runs[r], g)
  <2>1. runs'[r] = new BY <1>1, <1>4 DEF Judges
  <2>2. Stored(runs[r])
    <3>1. runs[r] # NoRow BY <2>1, NoRowType DEF WithEvidencePack
    <3> QED BY <1>1, <3>1
  <2>3. /\ new.version > runs[r].version /\ new.key = runs[r].key
        /\ new.retryOf = runs[r].retryOf /\ runs[r].status \in {"running", "needs_review"}
    BY <2>1, <2>2, EvidencePackContinues
  <2> QED BY <2>1, <2>3, StatusNames DEF Advances
<1>5. ASSUME NEW s \in RunIds \ {r}, NEW row, runs' = [runs EXCEPT ![s] = row] PROVE FALSE
  BY <1>1, <1>5
<1>6. RunStep BY NextIsRunStep
<1> QED BY <1>2, <1>3, <1>4, <1>5, <1>6 DEF RunStep, Inserts, Updates, Judges

\* A run that has ended never changes, and every save of a run moves its version
\* on: no writer overwrites what another has saved since it read the row.
THEOREM RunsAdvance == Spec => RunsOnlyAdvance
<1>1. IInv /\ [Next]_vars =>
        [\A r \in RunIds : runs'[r] # runs[r] =>
            /\ runs[r].status \notin Terminal
            /\ runs'[r].version > runs[r].version]_vars
  BY StepAdvances DEF Advances
<1>2. Spec => []IInv BY InitInv, StepInv, PTL DEF Spec
<1> QED BY <1>1, <1>2, PTL DEF Spec, RunsOnlyAdvance

-----------------------------------------------------------------------------
(* Idempotency keys.                                                       *)

\* A run that a step changes existed before, unless the step inserts it.
LEMMA ChangeIsInsertOrLater ==
    ASSUME IInv, [Next]_vars, NEW r \in RunIds, runs'[r] # runs[r],
           ~ \E h \in Handlers : Inserts(h, r)
    PROVE  runs[r].version # 0
<1>1. runs \in [RunIds -> Rows] /\ \A s \in RunIds : runs[s] = NoRow \/ Stored(runs[s])
  BY DEF IInv, RowsInv
<1>2. RunStep BY NextIsRunStep
<1>3. ASSUME NEW h \in Handlers, NEW s \in RunIds, Inserts(h, s)
      PROVE  runs[r].version # 0
  BY <1>1, <1>3 DEF Inserts
<1>4. ASSUME NEW h \in Handlers, NEW s \in RunIds, NEW new, Updates(h, s, new)
      PROVE  runs[r].version # 0
  BY <1>1, <1>4 DEF Updates, Saves, Unchanged
<1>5. ASSUME NEW s \in RunIds, NEW g \in ResultGates \ {"none"}, Judges(s, g)
      PROVE  runs[r].version # 0
  <2>1. s = r BY <1>1, <1>5 DEF Judges
  <2>2. runs'[r] = WithEvidencePack(runs[r], g) BY <1>1, <1>5, <2>1 DEF Judges
  <2>3. runs[r] # NoRow BY <2>2, NoRowType DEF WithEvidencePack
  <2> QED BY <1>1, <2>3 DEF Stored
<1> QED BY <1>2, <1>3, <1>4, <1>5 DEF RunStep

LEMMA KeysStep ==
    ASSUME IInv, OneRunPerKey, [Next]_vars
    PROVE  OneRunPerKey'
<1>1. runs \in [RunIds -> Rows] /\ \A r \in RunIds : runs[r] = NoRow \/ Stored(runs[r])
  BY DEF IInv, RowsInv
<1>2. CASE \E h \in Handlers, r \in RunIds : Inserts(h, r)
  <2>1. PICK h \in Handlers, r \in RunIds : Inserts(h, r) BY <1>2
  <2>2. ops[h].key \in Keys /\ ops[h].prior \in RunIds \cup {NoRun} BY <2>1 DEF Inserts
  <2> DEFINE row == QueuedRow(ops[h].key, ops[h].prior)
  <2>3. runs' = [runs EXCEPT ![r] = row] BY <2>1 DEF Inserts
  <2>4. row.key = ops[h].key BY <2>2, QueuedRowStored
  <2> HIDE DEF row
  <2>5. ASSUME NEW s \in RunIds, runs[s].version # 0 PROVE runs[s].key # ops[h].key
    BY <2>1, <2>5 DEF Inserts, Holders
  <2> QED BY <1>1, <2>3, <2>4, <2>5 DEF OneRunPerKey, Existing
<1>3. CASE ~ \E h \in Handlers, r \in RunIds : Inserts(h, r)
  <2>1. ASSUME NEW r \in RunIds, runs'[r].version # 0
        PROVE  runs[r].version # 0 /\ runs'[r].key = runs[r].key
    <3>1. CASE runs'[r] = runs[r] BY <2>1, <3>1
    <3>2. CASE runs'[r] # runs[r]
      <4>1. Advances(r) BY <3>2, StepAdvances
      <4>2. runs[r].version # 0 BY <1>3, <3>2, ChangeIsInsertOrLater
      <4> QED BY <4>1, <4>2 DEF Advances
    <3> QED BY <3>1, <3>2
  <2> QED BY <2>1 DEF OneRunPerKey, Existing
<1> QED BY <1>2, <1>3

\* No two runs share an idempotency key, however many requests and retries race.
THEOREM KeysUnique == Spec => []OneRunPerKey
<1>1. Init => OneRunPerKey
  BY DEF Init, NothingRead, NoRow, OneRunPerKey, Existing
<1>2. Spec => []IInv BY InitInv, StepInv, PTL DEF Spec
<1> QED BY <1>1, <1>2, KeysStep, PTL DEF Spec

-----------------------------------------------------------------------------
(* What a handler holds: a row is a copy of the run as it was, until the   *)
(* run has moved on.                                                       *)

SnapshotsPinned ==
    \A h \in Handlers : \A r \in ops[h].todo :
        /\ ops[h].snap[r].version <= runs[r].version
        /\ ops[h].snap[r].version = runs[r].version => ops[h].snap[r] = runs[r]

\* A handler keeps the rows it holds, or takes them from the table.
KeepsOrReads(g) ==
    \A r \in ops'[g].todo :
        \/ r \in ops[g].todo /\ ops'[g].snap[r] = ops[g].snap[r]
        \/ ops'[g].snap[r] = runs'[r]

LEMMA WithoutKeeps ==
    ASSUME NEW op \in Ops, NEW r \in RunIds
    PROVE  LET new == Without(op, r)
           IN  /\ new.todo = op.todo \ {r}
               /\ \A s \in op.todo \ {r} : new.snap[s] = op.snap[s]
               /\ new.pc = op.pc /\ new.run = op.run /\ new.key = op.key /\ new.plan = op.plan
<1> DEFINE snap == [op.snap EXCEPT ![r] = NoRow]
           todo == op.todo \ {r}
<1>1. Without(op, r) = [op EXCEPT !.todo = todo, !.snap = snap] BY DEF Without, Ops
<1>2. \A s \in todo : snap[s] = op.snap[s] BY DEF Ops
<1> HIDE DEF snap, todo
<1>3. LET new == Without(op, r)
      IN  /\ new.todo = todo /\ new.snap = snap /\ new.pc = op.pc /\ new.run = op.run
          /\ new.key = op.key /\ new.plan = op.plan
  BY <1>1 DEF Ops
<1> QED BY <1>2, <1>3 DEF todo

LEMMA HandlerKeepsOrReads ==
    ASSUME IInv, NEW h \in Handlers, NEW op, Becomes(h, op),
           \A r \in op.todo : \/ r \in ops[h].todo /\ op.snap[r] = ops[h].snap[r]
                              \/ op.snap[r] = runs'[r]
    PROVE  \A g \in Handlers : KeepsOrReads(g)
<1>1. ops \in [Handlers -> Ops] BY DEF IInv, HandlersInv
<1> QED BY <1>1 DEF Becomes, KeepsOrReads

\* The step of a handler that drops a row, or everything it holds.
LEMMA DropsAreKept ==
    ASSUME IInv, NEW h \in Handlers, NEW r \in RunIds, NEW new,
           \/ Replies(h)
           \/ Becomes(h, Without(ops[h], r))
           \/ SavesOrFails(h, r, new, Without(ops[h], r))
    PROVE  \A g \in Handlers : KeepsOrReads(g)
<1>1. ops[h] \in Ops BY DEF IInv, HandlersInv
<1>2. CASE Replies(h)
  BY <1>2, HandlerKeepsOrReads DEF Replies, IdleOp
<1>3. CASE Becomes(h, Without(ops[h], r))
  BY <1>1, <1>3, WithoutKeeps, HandlerKeepsOrReads
<1> QED BY <1>2, <1>3 DEF SavesOrFails

LEMMA HoldingReads ==
    ASSUME NEW phase, NEW r \in RunIds, NEW row
    PROVE  LET op == Holding(IdleOp, phase, r, row)
           IN  op.todo = {r} /\ op.snap[r] = row /\ op.pc = phase
<1> DEFINE snap == [NothingRead EXCEPT ![r] = row]
           todo == {r}
<1>1. Holding(IdleOp, phase, r, row) = [IdleOp EXCEPT !.pc = phase, !.todo = todo, !.snap = snap]
  BY DEF Holding
<1>2. snap[r] = row BY DEF NothingRead
<1> HIDE DEF snap, todo
<1>3. LET op == Holding(IdleOp, phase, r, row) IN op.todo = todo /\ op.snap = snap /\ op.pc = phase
  BY <1>1 DEF IdleOp
<1> QED BY <1>2, <1>3 DEF todo

\* The steps of a handler that change neither todo nor snap.
LEMMA PhaseKeeps ==
    ASSUME IInv, NEW h \in Handlers, NEW op, Becomes(h, op),
           op.todo = ops[h].todo, op.snap = ops[h].snap
    PROVE  \A g \in Handlers : KeepsOrReads(g)
BY HandlerKeepsOrReads

LEMMA StartsIfQueuedKeepsOrReads ==
    ASSUME IInv, NEW h \in Handlers, NEW r \in RunIds, StartsIfQueued(h, r), UNCHANGED runs
    PROVE  \A g \in Handlers : KeepsOrReads(g)
<1>1. CASE Replies(h)
  BY <1>1, DropsAreKept
<1>2. CASE Becomes(h, Holding(IdleOp, "starting", r, runs[r]))
  <2>1. runs[r] \in Rows BY DEF IInv, RowsInv
  <2>2. LET op == Holding(IdleOp, "starting", r, runs[r])
        IN  op.todo = {r} /\ op.snap[r] = runs[r]
    BY <2>1, HoldingReads
  <2> QED BY <1>2, <2>2, HandlerKeepsOrReads
<1> QED BY <1>1, <1>2 DEF StartsIfQueued

LEMMA RequestKeepsOrReads ==
    ASSUME IInv, NEW h \in Handlers, Request(h)
    PROVE  \A g \in Handlers : KeepsOrReads(g)
<1>0. ops[h] \in Ops /\ UNCHANGED runs
  BY DEF IInv, HandlersInv, Request, StartResearchRun, RetryResearchRun, CancelResearchRun,
         PauseResearchAllowlist, RevokeResearchAllowlist, UpdateResearchAllowlist, Governs,
         ListResearchRuns, GetResearchRunStatus, Polls
<1>1. ASSUME NEW op, Becomes(h, op), op.todo = {} PROVE \A g \in Handlers : KeepsOrReads(g)
  BY <1>1, HandlerKeepsOrReads
<1>2. CASE \E o \in Objectives, c \in Connectors, x \in Contexts : StartResearchRun(h, o, c, x)
  BY <1>1, <1>2 DEF StartResearchRun, IdleOp
<1>3. CASE \E r \in RunIds, x \in Contexts : RetryResearchRun(h, r, x)
  BY <1>1, <1>3 DEF RetryResearchRun, IdleOp
<1>4. CASE \E plan : Governs(h, plan)
  BY <1>1, <1>4 DEF Governs, IdleOp
<1>5. CASE \E r \in RunIds : CancelResearchRun(h, r)
  <2>1. PICK r \in RunIds : CancelResearchRun(h, r) BY <1>5
  <2>2. runs[r] \in Rows BY DEF IInv, RowsInv
  <2>3. LET op == Holding(IdleOp, "cancelling", r, runs[r])
        IN  op.todo = {r} /\ op.snap[r] = runs[r]
    BY <2>2, HoldingReads
  <2> QED BY <1>0, <2>1, <2>3, HandlerKeepsOrReads DEF CancelResearchRun
<1>6. CASE \E rs \in SUBSET RunIds : Polls(h, rs)
  <2>1. PICK rs \in SUBSET RunIds : Polls(h, rs) BY <1>6
  <2> DEFINE snap == Snapshot(rs)
             op == [IdleOp EXCEPT !.pc = "polling", !.todo = rs, !.snap = snap]
  <2>2. Becomes(h, op) BY <2>1 DEF Polls
  <2>3. \A r \in rs : snap[r] = runs[r] BY DEF Snapshot
  <2> HIDE DEF snap
  <2>4. op.todo = rs /\ op.snap = snap BY DEF IdleOp
  <2> QED BY <1>0, <2>2, <2>3, <2>4, HandlerKeepsOrReads
<1> QED BY <1>2, <1>3, <1>4, <1>5, <1>6
        DEF Request, PauseResearchAllowlist, RevokeResearchAllowlist, UpdateResearchAllowlist,
            ListResearchRuns, GetResearchRunStatus, Running

LEMMA ContinueKeepsOrReads ==
    ASSUME IInv, NEW h \in Handlers, Continue(h)
    PROVE  \A g \in Handlers : KeepsOrReads(g)
<1>0. ops[h] \in Ops BY DEF IInv, HandlersInv
<1>1. ASSUME NEW phase, Becomes(h, [ops[h] EXCEPT !.pc = phase])
      PROVE  \A g \in Handlers : KeepsOrReads(g)
  <2> DEFINE op == [ops[h] EXCEPT !.pc = phase]
  <2>1. op.todo = ops[h].todo /\ op.snap = ops[h].snap BY <1>0 DEF Ops
  <2> HIDE DEF op
  <2> QED BY <1>1, <2>1, PhaseKeeps DEF op
<1>2. CASE Becomes(h, PollsOn(ops[h]))
  <2>1. PollsOn(ops[h]).todo = ops[h].todo /\ PollsOn(ops[h]).snap = ops[h].snap
    BY <1>0 DEF PollsOn, Ops
  <2> QED BY <1>2, <2>1, PhaseKeeps
<1>3. CASE Replies(h)
  <2>1. IdleOp.todo = {} BY DEF IdleOp
  <2> QED BY <1>3, <2>1, HandlerKeepsOrReads DEF Replies
<1>4. CASE FindExistingRun(h)
  BY <1>1, <1>4, StartsIfQueuedKeepsOrReads DEF FindExistingRun, Holders
<1>5. CASE CheckRateBudget(h)
  BY <1>1, <1>3, <1>5 DEF CheckRateBudget
<1>6. ASSUME NEW r \in RunIds, CreateRun(h, r) PROVE \A g \in Handlers : KeepsOrReads(g)
  <2> DEFINE row == QueuedRow(ops[h].key, ops[h].prior)
  <2>1. CASE runs' = [runs EXCEPT ![r] = row] /\ Becomes(h, Holding(IdleOp, "starting", r, row))
    <3>1. runs'[r] = row BY <2>1 DEF IInv, RowsInv
    <3> HIDE DEF row
    <3>2. LET op == Holding(IdleOp, "starting", r, row)
          IN  op.todo = {r} /\ op.snap[r] = row
      BY HoldingReads
    <3> QED BY <2>1, <3>1, <3>2, HandlerKeepsOrReads
  <2>2. ASSUME NEW t \in Holders(runs, ops[h].key), StartsIfQueued(h, t), UNCHANGED runs
        PROVE  \A g \in Handlers : KeepsOrReads(g)
    BY <2>2, StartsIfQueuedKeepsOrReads DEF Holders
  <2> QED BY <1>3, <1>6, <2>1, <2>2 DEF CreateRun
<1>7. ASSUME NEW r \in RunIds, RecordProviderStart(h, r)
      PROVE  \A g \in Handlers : KeepsOrReads(g)
  <2> DEFINE done == Without(ops[h], r)
             resumed == [done EXCEPT !.pc = "resuming", !.run = NoRun]
  <2>1. Replies(h) \/ Becomes(h, IdleOp) \/ Becomes(h, resumed)
    BY <1>7 DEF RecordProviderStart, SavesOrFails
  <2>2. done \in Ops
    <3>1. Equipped(ops[h]) BY DEF IInv, HandlersInv
    <3> QED BY <1>0, <3>1, WithoutEquipped
  <2>3. resumed.todo = done.todo /\ resumed.snap = done.snap BY <2>2 DEF Ops
  <2>4. done.todo = ops[h].todo \ {r} /\ \A s \in done.todo : done.snap[s] = ops[h].snap[s]
    BY <1>0, WithoutKeeps
  <2> HIDE DEF resumed, done
  <2> QED BY <1>3, <2>1, <2>3, <2>4, HandlerKeepsOrReads DEF Replies
<1>8. CASE SaveAllowlist(h)
  BY <1>1, <1>3, <1>8 DEF SaveAllowlist
<1>9. CASE ListRuns(h)
  <2> DEFINE phase == LoopOf(ops[h].plan.status)
             todo == {r \in RunIds : runs[r].status \in Affected(ops[h].plan.status)}
             snap == Snapshot(todo)
             op == [ops[h] EXCEPT !.pc = phase, !.todo = todo, !.snap = snap]
  <2>1. Becomes(h, op) /\ UNCHANGED runs BY <1>9 DEF ListRuns
  <2>2. \A r \in todo : snap[r] = runs[r] BY DEF Snapshot
  <2> HIDE DEF phase, todo, snap
  <2>3. op.todo = todo /\ op.snap = snap BY <1>0 DEF Ops
  <2> QED BY <2>1, <2>2, <2>3, HandlerKeepsOrReads
<1>10. ASSUME NEW r \in RunIds, PauseRun(h, r) PROVE \A g \in Handlers : KeepsOrReads(g)
  BY <1>10, DropsAreKept DEF PauseRun
<1>11. ASSUME NEW r \in RunIds, StopRun(h, r) PROVE \A g \in Handlers : KeepsOrReads(g)
  BY <1>11, DropsAreKept DEF StopRun
<1>12. ASSUME NEW r \in RunIds, ResumeRun(h, r) PROVE \A g \in Handlers : KeepsOrReads(g)
  <2> DEFINE queued == Move(ops[h].snap[r], "queued")
             snap == [ops[h].snap EXCEPT ![r] = queued]
             op == [ops[h] EXCEPT !.pc = "restarting", !.run = r, !.snap = snap]
  <2>1. SavesOrFails(h, r, queued, op) BY <1>0, <1>12 DEF ResumeRun, Ops
  <2>2. \A s \in ops[h].todo \ {r} : snap[s] = ops[h].snap[s] BY <1>0 DEF Ops
  <2>3. snap[r] = queued BY <1>0 DEF Ops
  <2> HIDE DEF queued, snap
  <2>4. op.todo = ops[h].todo /\ op.snap = snap BY <1>0 DEF Ops
  <2>5. CASE runs' = [runs EXCEPT ![r] = queued] /\ Becomes(h, op)
    <3>1. runs'[r] = queued BY <2>5 DEF IInv, RowsInv
    <3> QED BY <2>2, <2>3, <2>4, <2>5, <3>1, HandlerKeepsOrReads
  <2> QED BY <1>3, <2>1, <2>5 DEF SavesOrFails
<1>13. ASSUME NEW r \in RunIds, PollFails(h, r) PROVE \A g \in Handlers : KeepsOrReads(g)
  BY <1>13, DropsAreKept DEF PollFails, SavesOrSkips
<1>14. ASSUME NEW r \in RunIds, NEW c \in Contents, PollSucceeds(h, r, c)
       PROVE  \A g \in Handlers : KeepsOrReads(g)
  <2> DEFINE done == Without(ops[h], r)
             id == <<ops[h].snap[r].key.objective, c>>
             op == [done EXCEPT !.pc = "importing", !.run = r, !.result = id]
  <2>1. Replies(h) \/ Becomes(h, done) \/ Becomes(h, op)
    BY <1>14 DEF PollSucceeds, SavesOrSkips, SavesOrFails
  <2>2. done \in Ops
    <3>1. Equipped(ops[h]) BY DEF IInv, HandlersInv
    <3> QED BY <1>0, <3>1, WithoutEquipped
  <2> HIDE DEF id
  <2>3. op.todo = done.todo /\ op.snap = done.snap BY <2>2 DEF Ops
  <2>4. done.todo = ops[h].todo \ {r} /\ \A s \in done.todo : done.snap[s] = ops[h].snap[s]
    BY <1>0, WithoutKeeps
  <2> HIDE DEF op, done
  <2> QED BY <1>3, <2>1, <2>3, <2>4, HandlerKeepsOrReads
<1>15. CASE FindExistingResult(h)
  <2>1. ASSUME NEW i, Becomes(h, [ops[h] EXCEPT !.pc = "claiming", !.result = i])
        PROVE  \A g \in Handlers : KeepsOrReads(g)
    <3> DEFINE op == [ops[h] EXCEPT !.pc = "claiming", !.result = i]
    <3>1. op.todo = ops[h].todo /\ op.snap = ops[h].snap BY <1>0 DEF Ops
    <3> HIDE DEF op
    <3> QED BY <2>1, <3>1, PhaseKeeps DEF op
  <2> QED BY <1>1, <1>2, <1>15, <2>1 DEF FindExistingResult
<1>16. CASE ImportProviderResult(h)
  BY <1>1, <1>2, <1>3, <1>16 DEF ImportProviderResult
<1>17. CASE \/ ClaimEvidenceEffect(h)
            \/ \E g \in ResultGates \ {"none"} : SynthesizeEvidence(h, g)
            \/ RecordResearchMemory(h)
  BY <1>1, <1>17 DEF ClaimEvidenceEffect, SynthesizeEvidence, RecordResearchMemory
<1>18. CASE SettleEvidence(h) \/ SourceQualityInsufficient(h) \/ EvidenceEffectFails(h)
  BY <1>2, <1>18 DEF SettleEvidence, SourceQualityInsufficient, EvidenceEffectFails
<1>19. CASE Reply(h)
  BY <1>3, <1>19 DEF Reply
<1> QED BY <1>4, <1>5, <1>6, <1>7, <1>8, <1>9, <1>10, <1>11, <1>12, <1>13, <1>14, <1>15, <1>16,
           <1>17, <1>18, <1>19 DEF Continue

LEMMA SnapshotsStep ==
    ASSUME IInv, SnapshotsPinned, [Next]_vars
    PROVE  SnapshotsPinned'
<1>1. \A h \in Handlers : KeepsOrReads(h)
  <2>1. CASE \E h \in Handlers : Request(h) BY <2>1, RequestKeepsOrReads
  <2>2. CASE \E h \in Handlers : Continue(h) BY <2>2, ContinueKeepsOrReads
  <2>3. CASE Outside \/ UNCHANGED vars
    BY <2>3 DEF Outside, CreateResearchAllowlist, ImportResearchResult, vars, KeepsOrReads
  <2>4. CASE Crash
    BY <2>4 DEF Crash, IdleOp, KeepsOrReads
  <2> QED BY <2>1, <2>2, <2>3, <2>4 DEF Next
<1>2. runs' \in [RunIds -> Rows] /\ ops' \in [Handlers -> Ops]
  BY StepInv DEF IInv, RowsInv, HandlersInv
<1>3. SUFFICES ASSUME NEW h \in Handlers, NEW r \in ops'[h].todo
               PROVE  /\ ops'[h].snap[r].version <= runs'[r].version
                      /\ ops'[h].snap[r].version = runs'[r].version => ops'[h].snap[r] = runs'[r]
  BY DEF SnapshotsPinned
<1>4. r \in RunIds BY <1>2 DEF Ops
<1>5. runs'[r].version \in Nat BY <1>2, <1>4 DEF Rows
<1>6. CASE ops'[h].snap[r] = runs'[r]
  BY <1>5, <1>6
<1>7. CASE r \in ops[h].todo /\ ops'[h].snap[r] = ops[h].snap[r]
  <2>1. CASE runs'[r] = runs[r]
    BY <1>7, <2>1 DEF SnapshotsPinned
  <2>2. CASE runs'[r] # runs[r]
    <3>1. runs'[r].version > runs[r].version BY <1>4, <2>2, StepAdvances DEF Advances
    <3>2. ops[h].snap[r].version <= runs[r].version BY <1>7 DEF SnapshotsPinned
    <3>3. ops[h].snap[r].version \in Nat /\ runs[r].version \in Nat
      BY <1>4 DEF IInv, RowsInv, HandlersInv, Ops, Rows
    <3> QED BY <1>5, <1>7, <3>1, <3>2, <3>3
  <2> QED BY <2>1, <2>2
<1> QED BY <1>1, <1>6, <1>7 DEF KeepsOrReads

LEMMA SnapshotsInit == Init => SnapshotsPinned
BY DEF Init, IdleOp, SnapshotsPinned

\* The compare-and-swap: an update that is saved was built from the row it
\* replaces.
LEMMA UpdateReplacesItsSource ==
    ASSUME IInv, SnapshotsPinned, NEW h \in Handlers, NEW r \in RunIds, NEW new,
           Updates(h, r, new)
    PROVE  ops[h].snap[r] = runs[r]
<1>1. ops[h].snap[r].version \in Nat /\ runs[r].version \in Nat
  BY DEF IInv, RowsInv, HandlersInv, Ops, Rows
<1>2. new.version = ops[h].snap[r].version + 1 /\ new.version = runs[r].version + 1
  BY DEF Updates, Continues, Saves, Unchanged
<1> QED BY <1>1, <1>2 DEF SnapshotsPinned, Updates

LEMMA PendingForms ==
    ASSUME NEW op, NEW r, NEW new \in Pending(op, r)
    PROVE  LET old == op.snap[r]
           IN  \/ new = StartedRow(old) \/ new = CancelledRow(old)
               \/ new = DeliveredRow(old) \/ new = FailedRow(old)
               \/ new = Move(old, "paused") /\ old.status = "queued"
               \/ new = Move(old, "queued")
<1>1. CASE op.pc \in {"starting", "restarting"} BY <1>1 DEF Pending
<1>2. CASE op.pc \in {"cancelling", "revoking"} BY <1>2 DEF Pending
<1>3. CASE op.pc = "pausing" BY <1>3 DEF Pending
<1>4. CASE op.pc = "resuming" BY <1>4 DEF Pending
<1>5. CASE op.pc = "polling" BY <1>5 DEF Pending
<1>6. CASE op.pc \notin {"starting", "restarting", "cancelling", "revoking", "pausing",
                         "resuming", "polling"}
  BY <1>6 DEF Pending
<1> QED BY <1>1, <1>2, <1>3, <1>4, <1>5, <1>6

-----------------------------------------------------------------------------
(* A waiting or cancelled run has never been started.                      *)

LEMMA NotStartedStep ==
    ASSUME IInv, SnapshotsPinned, WaitingNotStarted, [Next]_vars
    PROVE  WaitingNotStarted'
<1> DEFINE Unstarted == Waiting \cup {"absent", "cancelled"}
<1>1. runs \in [RunIds -> Rows] /\ \A r \in RunIds : runs[r] = NoRow \/ Stored(runs[r])
  BY DEF IInv, RowsInv
<1>2. SUFFICES ASSUME NEW r \in RunIds, runs'[r] # runs[r], runs'[r].status \in Unstarted
               PROVE  ~runs'[r].started
  BY DEF WaitingNotStarted
<1>3. ASSUME NEW h \in Handlers, NEW s \in RunIds, Inserts(h, s) PROVE ~runs'[r].started
  <2> DEFINE row == QueuedRow(ops[h].key, ops[h].prior)
  <2>1. ~row.started BY <1>3, QueuedRowStored DEF Inserts
  <2>2. runs' = [runs EXCEPT ![s] = row] BY <1>3 DEF Inserts
  <2> HIDE DEF row
  <2> QED BY <1>1, <1>2, <2>1, <2>2
<1>4. ASSUME NEW h \in Handlers, NEW s \in RunIds, NEW new, Updates(h, s, new)
      PROVE  ~runs'[r].started
  <2> DEFINE old == runs[r]
  <2>1. s = r /\ runs'[r] = new BY <1>1, <1>2, <1>4 DEF Updates
  <2>2. ops[h].snap[r] = old /\ Stored(old)
    BY <1>1, <1>4, <2>1, NoRowType, UpdateReplacesItsSource DEF Updates, Saves, Unchanged
  <2>3. new \in Pending(ops[h], r) /\ new.status \in SameRunTransitions(old.status)
    BY <1>4, <2>1 DEF Updates, Saves, LegalUpdate
  <2>4. WaitingNotStarted /\ new.status \in {"queued", "paused", "cancelled", "absent"}
    BY <1>2, <2>1 DEF Waiting
  <2>5. {"queued", "paused"} \subseteq Statuses \ {"absent"} BY StatusNames
  <2>6. CASE new = StartedRow(old)
    BY <2>2, <2>4, <2>6, StartedRowContinues
  <2>7. CASE new = CancelledRow(old)
    <3>1. old.status \in Waiting /\ new.started = old.started
      BY <2>2, <2>4, <2>7, CancelledRowContinues
    <3> QED BY <2>1, <2>4, <3>1 DEF WaitingNotStarted
  <2>8. CASE new = DeliveredRow(old) \/ new = FailedRow(old)
    BY <2>2, <2>4, <2>8, DeliveredRowContinues, FailedRowContinues
  <2>9. CASE new = Move(old, "paused") /\ old.status = "queued"
    <3>1. new.started = old.started BY <2>2, <2>5, <2>9, MoveContinues
    <3> QED BY <2>1, <2>4, <2>9, <3>1 DEF WaitingNotStarted, Waiting
  <2>10. CASE new = Move(old, "queued")
    <3>1. new.status = "queued" /\ new.started = old.started
      BY <2>2, <2>5, <2>10, MoveContinues
    <3>2. old.status = "paused"
      BY <2>3, <3>1 DEF SameRunTransitions, Verdicts
    <3> QED BY <2>1, <2>4, <3>1, <3>2 DEF WaitingNotStarted, Waiting
  <2>11. \/ new = StartedRow(old) \/ new = CancelledRow(old)
         \/ new = DeliveredRow(old) \/ new = FailedRow(old)
         \/ new = Move(old, "paused") /\ old.status = "queued"
         \/ new = Move(old, "queued")
    BY <2>2, <2>3, PendingForms
  <2> QED BY <2>6, <2>7, <2>8, <2>9, <2>10, <2>11
<1>5. ASSUME NEW s \in RunIds, NEW g \in ResultGates \ {"none"}, Judges(s, g)
      PROVE  ~runs'[r].started
  <2>1. s = r /\ runs'[r] = WithEvidencePack(runs[r], g) BY <1>1, <1>2, <1>5 DEF Judges
  <2>2. Stored(runs[r])
    <3>1. runs[r] # NoRow BY <1>2, <2>1, NoRowType DEF WithEvidencePack
    <3> QED BY <1>1, <3>1
  <2>3. runs'[r].status \in Verdicts \cup {"needs_review"}
    BY <1>2, <2>1, <2>2, EvidencePackContinues
  <2> QED BY <1>2, <2>3 DEF Verdicts, Waiting
<1>6. RunStep BY NextIsRunStep
<1> QED BY <1>2, <1>3, <1>4, <1>5, <1>6 DEF RunStep

\* No pause, resume or cancellation, however it races with a start, leaves a run
\* that the provider has been given queued, paused or cancelled.
THEOREM WaitingRunsNotStarted == Spec => []WaitingNotStarted
<1>1. Init => WaitingNotStarted
  BY DEF Init, NothingRead, NoRow, WaitingNotStarted
<1>2. Spec => []IInv BY InitInv, StepInv, PTL DEF Spec
<1>3. Spec => []SnapshotsPinned BY <1>2, SnapshotsInit, SnapshotsStep, PTL DEF Spec
<1> QED BY <1>1, <1>2, <1>3, NotStartedStep, PTL DEF Spec

-----------------------------------------------------------------------------
(* The chain of retries.                                                   *)

\* A retry in progress is within its budget.
RetriesInBudget ==
    \A h \in Handlers : ops[h].prior # NoRun => ops[h].key.attempt <= MaxRetries + 1

\* A handler forgets the run that it retries, or keeps it with the key.
LEMMA ContinueKeepsPrior ==
    ASSUME IInv, NEW h \in Handlers, Continue(h)
    PROVE  \E op : /\ Becomes(h, op)
                   /\ \/ op.prior = NoRun
                      \/ op.prior = ops[h].prior /\ op.key = ops[h].key
<1> DEFINE Fine(op) == op.prior = NoRun \/ (op.prior = ops[h].prior /\ op.key = ops[h].key)
<1>0. ops[h] \in Ops BY DEF IInv, HandlersInv
<1>1. ASSUME NEW phase PROVE Fine([ops[h] EXCEPT !.pc = phase])
  BY <1>0 DEF Ops
<1>2. Fine(PollsOn(ops[h])) BY <1>0 DEF PollsOn, Ops
<1>3. Fine(IdleOp) BY DEF IdleOp
<1>4. ASSUME NEW phase, NEW r, NEW row PROVE Fine(Holding(IdleOp, phase, r, row))
  BY DEF Holding, IdleOp
<1>5. ASSUME NEW r PROVE Fine(Without(ops[h], r))
  BY <1>0 DEF Without, Ops
<1>6. ASSUME NEW r, NEW phase PROVE Fine([Without(ops[h], r) EXCEPT !.pc = phase, !.run = NoRun])
  BY <1>0 DEF Without, Ops
<1>7. ASSUME NEW r, NEW i
      PROVE  Fine([Without(ops[h], r) EXCEPT !.pc = "importing", !.run = r, !.result = i])
  BY <1>0 DEF Without, Ops
<1>8. ASSUME NEW r, NEW snap
      PROVE  Fine([ops[h] EXCEPT !.pc = "restarting", !.run = r, !.snap = snap])
  BY <1>0 DEF Ops
<1>9. ASSUME NEW phase, NEW todo, NEW snap
      PROVE  Fine([ops[h] EXCEPT !.pc = phase, !.todo = todo, !.snap = snap])
  BY <1>0 DEF Ops
<1>10. ASSUME NEW i PROVE Fine([ops[h] EXCEPT !.pc = "claiming", !.result = i])
  BY <1>0 DEF Ops
<1> HIDE DEF Fine
<1>11. SUFFICES \E op : Becomes(h, op) /\ Fine(op) BY DEF Fine
<1>12. CASE FindExistingRun(h)
  BY <1>1, <1>3, <1>4, <1>12 DEF FindExistingRun, StartsIfQueued, Replies
<1>13. CASE CheckRateBudget(h)
  BY <1>1, <1>3, <1>13 DEF CheckRateBudget, Replies
<1>14. CASE \E r \in RunIds : CreateRun(h, r)
  BY <1>3, <1>4, <1>14 DEF CreateRun, StartsIfQueued, Replies
<1>15. CASE \E r \in RunIds : RecordProviderStart(h, r)
  BY <1>3, <1>6, <1>15 DEF RecordProviderStart, SavesOrFails, Replies
<1>16. CASE SaveAllowlist(h)
  BY <1>1, <1>3, <1>16 DEF SaveAllowlist, Replies
<1>17. CASE ListRuns(h)
  BY <1>9, <1>17 DEF ListRuns
<1>18. CASE \E r \in RunIds : PauseRun(h, r) \/ StopRun(h, r) \/ PollFails(h, r)
  BY <1>3, <1>5, <1>18 DEF PauseRun, StopRun, PollFails, SavesOrSkips, SavesOrFails, Replies
<1>19. CASE \E r \in RunIds : ResumeRun(h, r)
  <2>1. PICK r \in RunIds : ResumeRun(h, r) BY <1>19
  <2> DEFINE queued == Move(ops[h].snap[r], "queued")
             snap == [ops[h].snap EXCEPT ![r] = queued]
             op == [ops[h] EXCEPT !.pc = "restarting", !.run = r, !.snap = snap]
  <2>2. SavesOrFails(h, r, queued, op) BY <1>0, <2>1 DEF ResumeRun, Ops
  <2>3. Fine(op) BY <1>8
  <2> HIDE DEF op
  <2> QED BY <1>3, <2>2, <2>3 DEF SavesOrFails, Replies
<1>20. CASE \E r \in RunIds, c \in Contents : PollSucceeds(h, r, c)
  <2>1. PICK r \in RunIds, c \in Contents : PollSucceeds(h, r, c) BY <1>20
  <2> DEFINE i == <<ops[h].snap[r].key.objective, c>>
             op == [Without(ops[h], r) EXCEPT !.pc = "importing", !.run = r, !.result = i]
  <2>2. Becomes(h, IdleOp) \/ Becomes(h, Without(ops[h], r)) \/ Becomes(h, op)
    BY <2>1 DEF PollSucceeds, SavesOrSkips, SavesOrFails, Replies
  <2>3. Fine(op) BY <1>7
  <2> HIDE DEF op
  <2> QED BY <1>3, <1>5, <2>2, <2>3
<1>21. CASE FindExistingResult(h) \/ ImportProviderResult(h)
  BY <1>1, <1>2, <1>3, <1>10, <1>21 DEF FindExistingResult, ImportProviderResult, Replies
<1>22. CASE \/ ClaimEvidenceEffect(h)
            \/ \E g \in ResultGates \ {"none"} : SynthesizeEvidence(h, g)
            \/ RecordResearchMemory(h)
  BY <1>1, <1>22 DEF ClaimEvidenceEffect, SynthesizeEvidence, RecordResearchMemory
<1>23. CASE SettleEvidence(h) \/ SourceQualityInsufficient(h) \/ EvidenceEffectFails(h) \/ Reply(h)
  BY <1>2, <1>3, <1>23
     DEF SettleEvidence, SourceQualityInsufficient, EvidenceEffectFails, Reply, Replies
<1> QED BY <1>12, <1>13, <1>14, <1>15, <1>16, <1>17, <1>18, <1>19, <1>20, <1>21, <1>22, <1>23
        DEF Continue

LEMMA BudgetStep ==
    ASSUME IInv, RetriesInBudget, [Next]_vars
    PROVE  RetriesInBudget'
<1>0. /\ ops \in [Handlers -> Ops] /\ runs \in [RunIds -> Rows]
      /\ \A r \in RunIds : runs[r] = NoRow \/ Stored(runs[r])
  BY DEF IInv, HandlersInv, RowsInv
<1>1. ASSUME NEW h \in Handlers, NEW op, Becomes(h, op),
             \/ op.prior = NoRun
             \/ op.prior = ops[h].prior /\ op.key = ops[h].key
             \/ op.key.attempt <= MaxRetries + 1
      PROVE  RetriesInBudget'
  BY <1>0, <1>1 DEF Becomes, RetriesInBudget
<1>2. ASSUME NEW h \in Handlers, Request(h) PROVE RetriesInBudget'
  <2>1. ASSUME NEW o \in Objectives, NEW c \in Connectors, NEW x \in Contexts,
               StartResearchRun(h, o, c, x)
        PROVE  RetriesInBudget'
    BY <1>1, <2>1 DEF StartResearchRun, IdleOp
  <2>2. ASSUME NEW r \in RunIds, NEW x \in Contexts, RetryResearchRun(h, r, x)
        PROVE  RetriesInBudget'
    <3> DEFINE key == [runs[r].key EXCEPT !.context = x, !.attempt = @ + 1]
               op == [IdleOp EXCEPT !.pc = "finding", !.seen = allowlist, !.prior = r, !.key = key]
    <3>1. Becomes(h, op) BY <2>2 DEF RetryResearchRun
    <3>2. runs[r].key \in Keys
      BY <1>0, <2>2, NoRowType DEF RetryResearchRun, Retryable, Stored
    <3>3. key.attempt = runs[r].key.attempt + 1 BY <3>2 DEF Keys
    <3>4. runs[r].key.attempt < MaxRetries + 1 /\ runs[r].key.attempt \in Nat
      BY <2>2, <3>2 DEF RetryResearchRun, RetryBudgetLeft, Keys
    <3>5. key.attempt <= MaxRetries + 1 BY <3>3, <3>4, BudgetAssumption
    <3> HIDE DEF key
    <3>6. op.key = key BY DEF IdleOp
    <3> QED BY <1>1, <3>1, <3>5, <3>6
  <2>3. ASSUME NEW op, Becomes(h, op), op.prior = NoRun PROVE RetriesInBudget'
    BY <1>1, <2>3
  <2>4. CASE \E r \in RunIds : CancelResearchRun(h, r)
    BY <2>3, <2>4 DEF CancelResearchRun, Holding, IdleOp
  <2>5. CASE \E plan : Governs(h, plan)
    BY <2>3, <2>5 DEF Governs, IdleOp
  <2>6. CASE \E rs : Polls(h, rs)
    BY <2>3, <2>6 DEF Polls, IdleOp
  <2> QED BY <1>2, <2>1, <2>2, <2>4, <2>5, <2>6
          DEF Request, PauseResearchAllowlist, RevokeResearchAllowlist, UpdateResearchAllowlist,
              ListResearchRuns, GetResearchRunStatus
<1>3. ASSUME NEW h \in Handlers, Continue(h) PROVE RetriesInBudget'
  <2>1. \E op : /\ Becomes(h, op)
               /\ \/ op.prior = NoRun
                  \/ op.prior = ops[h].prior /\ op.key = ops[h].key
    BY <1>3, ContinueKeepsPrior
  <2> QED BY <1>1, <2>1
<1>4. CASE Crash
  BY <1>4 DEF Crash, IdleOp, RetriesInBudget
<1>5. CASE Outside \/ UNCHANGED vars
  BY <1>5 DEF Outside, CreateResearchAllowlist, ImportResearchResult, vars, RetriesInBudget
<1> QED BY <1>2, <1>3, <1>4, <1>5 DEF Next

LEMMA RetryChainStep ==
    ASSUME IInv, RetriesInBudget, RetryChain, [Next]_vars
    PROVE  RetryChain'
<1>0. runs \in [RunIds -> Rows] /\ \A r \in RunIds : runs[r] = NoRow \/ Stored(runs[r])
  BY DEF IInv, RowsInv
<1>1. ASSUME NEW p \in RunIds, runs[p].status \in Retryable PROVE runs'[p] = runs[p]
  BY <1>1, StepAdvances, StatusNames DEF Advances, Retryable
<1>2. SUFFICES ASSUME NEW r \in RunIds, runs'[r].version # 0, runs'[r].retryOf # NoRun
               PROVE  LET p == runs'[r].retryOf
                      IN  /\ p \in RunIds
                          /\ runs[p].status \in Retryable
                          /\ runs[p].key.objective = runs'[r].key.objective
                          /\ runs'[r].key.attempt = runs[p].key.attempt + 1
                          /\ runs'[r].key.attempt <= MaxRetries + 1
  BY <1>1 DEF RetryChain, Existing
<1>3. CASE \E h \in Handlers : Inserts(h, r)
  <2>1. PICK h \in Handlers : Inserts(h, r) BY <1>3
  <2> DEFINE row == QueuedRow(ops[h].key, ops[h].prior)
  <2>2. row.key = ops[h].key /\ row.retryOf = ops[h].prior BY <2>1, QueuedRowStored DEF Inserts
  <2>3. runs'[r] = row BY <1>0, <2>1 DEF Inserts
  <2> HIDE DEF row
  <2>4. ops[h].prior # NoRun /\ ops[h].prior \in RunIds BY <1>2, <2>1, <2>2, <2>3 DEF Inserts
  <2> QED BY <2>1, <2>2, <2>3, <2>4 DEF Inserts, RetrySourceOK, RetriesInBudget
<1>4. CASE runs[r].version # 0 /\ runs'[r].key = runs[r].key /\ runs'[r].retryOf = runs[r].retryOf
  <2>1. runs[r].retryOf \in RunIds BY <1>0, <1>2, <1>4 DEF Rows
  <2> QED BY <1>2, <1>4, <2>1 DEF RetryChain, Existing
<1>5. CASE runs'[r] = runs[r]
  BY <1>2, <1>4, <1>5
<1>6. CASE runs'[r] # runs[r] /\ ~ \E h \in Handlers : Inserts(h, r)
  BY <1>4, <1>6, StepAdvances, ChangeIsInsertOrLater DEF Advances
<1> QED BY <1>3, <1>5, <1>6

\* However retries race with each other and with later results, a run that
\* retries another continues the same task as its next attempt, after that run
\* has ended without accepted evidence, and within the retry budget.
THEOREM RetriesAreChained == Spec => []RetryChain
<1>1. Init => RetryChain /\ RetriesInBudget
  BY DEF Init, NothingRead, NoRow, IdleOp, RetryChain, RetriesInBudget, Existing
<1>2. Spec => []IInv BY InitInv, StepInv, PTL DEF Spec
<1>3. Spec => []RetriesInBudget BY <1>1, <1>2, BudgetStep, PTL DEF Spec
<1> QED BY <1>1, <1>2, <1>3, RetryChainStep, PTL DEF Spec
-----------------------------------------------------------------------------
(* What the rows that a handler holds were when it read them.              *)

\* The phases in which a handler builds updates from the rows it holds.
Loops == {"starting", "restarting", "resuming", "pausing", "revoking", "cancelling"}

HeldStatuses(op, r) ==
    CASE op.pc = "starting"   -> {"queued"}
      [] op.pc = "restarting" -> IF r = op.run THEN {"queued"} ELSE {"paused"}
      [] op.pc = "resuming"   -> {"paused"}
      [] op.pc = "pausing"    -> {"queued", "running"}
      [] op.pc \in {"revoking", "cancelling"} -> {"queued", "running", "paused"}
      [] OTHER -> {"running"}

Fits(op) == \A r \in op.todo : op.snap[r].status \in HeldStatuses(op, r)

\* Attempts are counted from one.
Creating == {"finding", "budgeting", "creating"}

Attempted(op) == op.pc \in Creating => op.key.attempt >= 1

HeldInv == \A h \in Handlers : Fits(ops[h]) /\ Attempted(ops[h])

\* The handler goes on with some of the rows it held.
LEMMA KeptRowsFit ==
    ASSUME NEW op, NEW new, Fits(op), new.todo \subseteq op.todo,
           \A r \in new.todo : new.snap[r] = op.snap[r],
           \/ new.pc = op.pc /\ new.run = op.run
           \/ new.pc \notin Loops /\ op.pc \notin Loops
    PROVE  Fits(new)
<1> SUFFICES ASSUME NEW r \in new.todo PROVE new.snap[r].status \in HeldStatuses(new, r)
  BY DEF Fits
<1>1. op.snap[r].status \in HeldStatuses(op, r) BY DEF Fits
<1>2. HeldStatuses(new, r) = HeldStatuses(op, r) BY DEF HeldStatuses, Loops
<1> QED BY <1>1, <1>2

\* A handler that holds nothing yet.
LEMMA EmptyFits ==
    ASSUME NEW op, op.todo = {}
    PROVE  Fits(op)
BY DEF Fits

LEMMA IdleFits == Fits(IdleOp) /\ Attempted(IdleOp)
BY DEF Fits, Attempted, Creating, IdleOp

LEMMA HoldingFits ==
    ASSUME NEW r \in RunIds, NEW row,
           NEW phase \in {"starting", "cancelling"},
           row.status \in (IF phase = "starting" THEN {"queued"} ELSE Waiting \cup {"running"})
    PROVE  LET op == Holding(IdleOp, phase, r, row) IN Fits(op) /\ Attempted(op)
<1> DEFINE op == Holding(IdleOp, phase, r, row)
<1>1. op.todo = {r} /\ op.snap[r] = row /\ op.pc = phase BY HoldingReads
<1> HIDE DEF op
<1>2. Fits(op) BY <1>1 DEF Fits, HeldStatuses, Waiting
<1>3. Attempted(op) BY <1>1 DEF Attempted, Creating
<1> QED BY <1>2, <1>3 DEF op

LEMMA BecomesHeld ==
    ASSUME IInv, HeldInv, NEW h \in Handlers, NEW op, Becomes(h, op), Fits(op), Attempted(op)
    PROVE  HeldInv'
BY DEF IInv, HandlersInv, HeldInv, Becomes

LEMMA RepliesHeld ==
    ASSUME IInv, HeldInv, NEW h \in Handlers, Replies(h)
    PROVE  HeldInv'
BY IdleFits, BecomesHeld DEF Replies

LEMMA StartsIfQueuedHeld ==
    ASSUME IInv, HeldInv, NEW h \in Handlers, NEW r \in RunIds, StartsIfQueued(h, r)
    PROVE  HeldInv'
<1>1. CASE runs[r].status = "queued"
  BY <1>1, HoldingFits, BecomesHeld DEF StartsIfQueued
<1>2. CASE runs[r].status # "queued"
  BY <1>2, RepliesHeld DEF StartsIfQueued
<1> QED BY <1>1, <1>2

\* A handler drops a row from its loop, or fails.
LEMMA DropsHeld ==
    ASSUME IInv, HeldInv, NEW h \in Handlers, NEW r \in RunIds, NEW new,
           \/ Replies(h)
           \/ Becomes(h, Without(ops[h], r))
           \/ SavesOrFails(h, r, new, Without(ops[h], r))
    PROVE  HeldInv'
<1>1. ops[h] \in Ops /\ Fits(ops[h]) /\ Attempted(ops[h]) BY DEF IInv, HandlersInv, HeldInv
<1>2. CASE Becomes(h, Without(ops[h], r))
  <2> DEFINE op == Without(ops[h], r)
  <2>1. /\ op.todo = ops[h].todo \ {r} /\ \A s \in op.todo : op.snap[s] = ops[h].snap[s]
        /\ op.pc = ops[h].pc /\ op.run = ops[h].run /\ op.key = ops[h].key
    BY <1>1, WithoutKeeps
  <2> HIDE DEF op
  <2>2. Fits(op) BY <1>1, <2>1, KeptRowsFit
  <2>3. Attempted(op) BY <1>1, <2>1 DEF Attempted
  <2> QED BY <1>2, <2>2, <2>3, BecomesHeld DEF op
<1> QED BY <1>2, RepliesHeld DEF SavesOrFails

LEMMA RequestHeld ==
    ASSUME IInv, HeldInv, NEW h \in Handlers, Request(h)
    PROVE  HeldInv'
<1>0. ops[h] \in Ops BY DEF IInv, HandlersInv
<1>1. ASSUME NEW op, Becomes(h, op), op.todo = {}, Attempted(op) PROVE HeldInv'
  BY <1>1, EmptyFits, BecomesHeld
<1>2. ASSUME NEW o \in Objectives, NEW c \in Connectors, NEW x \in Contexts,
             StartResearchRun(h, o, c, x)
      PROVE  HeldInv'
  <2> DEFINE key == [objective |-> o, connector |-> c, context |-> x,
                     allowlistVersion |-> allowlist.version, attempt |-> 1]
             op == [IdleOp EXCEPT !.pc = "finding", !.seen = allowlist, !.key = key]
  <2>1. Becomes(h, op) BY <1>2 DEF StartResearchRun
  <2>2. key.attempt >= 1 OBVIOUS
  <2> HIDE DEF key
  <2>3. op.key = key /\ op.todo = {} BY DEF IdleOp
  <2> QED BY <1>1, <2>1, <2>2, <2>3 DEF Attempted
<1>3. ASSUME NEW r \in RunIds, NEW x \in Contexts, RetryResearchRun(h, r, x) PROVE HeldInv'
  <2> DEFINE key == [runs[r].key EXCEPT !.context = x, !.attempt = @ + 1]
             op == [IdleOp EXCEPT !.pc = "finding", !.seen = allowlist, !.prior = r, !.key = key]
  <2>1. Becomes(h, op) BY <1>3 DEF RetryResearchRun
  <2>2. runs[r].key \in Keys
    BY <1>3, NoRowType DEF RetryResearchRun, Retryable, Stored, IInv, RowsInv
  <2>3. key.attempt >= 1 BY <2>2 DEF Keys
  <2> HIDE DEF key
  <2>4. op.key = key /\ op.todo = {} BY DEF IdleOp
  <2> QED BY <1>1, <2>1, <2>3, <2>4 DEF Attempted
<1>4. CASE \E plan : Governs(h, plan)
  BY <1>1, <1>4 DEF Governs, IdleOp, Attempted, Creating
<1>5. CASE \E r \in RunIds : CancelResearchRun(h, r)
  BY <1>5, HoldingFits, BecomesHeld DEF CancelResearchRun
<1>6. CASE ListResearchRuns(h) \/ \E r \in RunIds : GetResearchRunStatus(h, r)
  <2>1. PICK rs \in SUBSET Running : Polls(h, rs)
    BY <1>6 DEF ListResearchRuns, GetResearchRunStatus
  <2> DEFINE snap == Snapshot(rs)
             op == [IdleOp EXCEPT !.pc = "polling", !.todo = rs, !.snap = snap]
  <2>2. Becomes(h, op) BY <2>1 DEF Polls
  <2>3. \A r \in rs : snap[r].status = "running" BY DEF Snapshot, Running
  <2> HIDE DEF snap
  <2>4. op.todo = rs /\ op.snap = snap /\ op.pc = "polling" BY DEF IdleOp
  <2>5. Fits(op) BY <2>3, <2>4 DEF Fits, HeldStatuses
  <2>6. Attempted(op) BY <2>4 DEF Attempted, Creating
  <2> QED BY <2>2, <2>5, <2>6, BecomesHeld
<1> QED BY <1>2, <1>3, <1>4, <1>5, <1>6
        DEF Request, PauseResearchAllowlist, RevokeResearchAllowlist, UpdateResearchAllowlist

LEMMA ContinueHeld ==
    ASSUME IInv, HeldInv, NEW h \in Handlers, Continue(h)
    PROVE  HeldInv'
<1>0. ops[h] \in Ops /\ Equipped(ops[h]) /\ Fits(ops[h]) /\ Attempted(ops[h])
  BY DEF IInv, HandlersInv, HeldInv
<1>1. ASSUME NEW phase \in Phases \ Loops, ops[h].pc \notin Loops,
             phase \in Creating => ops[h].pc \in Creating,
             \/ Becomes(h, [ops[h] EXCEPT !.pc = phase])
             \/ \E i : Becomes(h, [ops[h] EXCEPT !.pc = phase, !.result = i])
      PROVE  HeldInv'
  <2>1. PICK op : /\ Becomes(h, op)
                  /\ \/ op = [ops[h] EXCEPT !.pc = phase]
                     \/ \E i : op = [ops[h] EXCEPT !.pc = phase, !.result = i]
    BY <1>1
  <2>2. op.pc = phase /\ op.todo = ops[h].todo /\ op.snap = ops[h].snap /\ op.key = ops[h].key
    BY <1>0, <2>1 DEF Ops
  <2>3. Fits(op) BY <1>0, <1>1, <2>2, KeptRowsFit
  <2>4. Attempted(op) BY <1>0, <1>1, <2>2 DEF Attempted
  <2> QED BY <2>1, <2>3, <2>4, BecomesHeld
<1>2. ASSUME ops[h].pc \notin Loops, Becomes(h, PollsOn(ops[h])) PROVE HeldInv'
  <2>1. LET op == PollsOn(ops[h])
        IN  op.pc = "polling" /\ op.todo = ops[h].todo /\ op.snap = ops[h].snap
    BY <1>0 DEF PollsOn, Ops
  <2>2. Fits(PollsOn(ops[h])) BY <1>0, <1>2, <2>1, KeptRowsFit DEF Loops
  <2>3. Attempted(PollsOn(ops[h])) BY <2>1 DEF Attempted, Creating
  <2> QED BY <1>2, <2>2, <2>3, BecomesHeld
<1>3. CASE FindExistingRun(h)
  BY <1>1, <1>3, StartsIfQueuedHeld DEF FindExistingRun, Holders, At, Phases, Loops, Creating
<1>4. CASE CheckRateBudget(h)
  BY <1>1, <1>4, RepliesHeld DEF CheckRateBudget, At, Phases, Loops, Creating
<1>5. ASSUME NEW r \in RunIds, CreateRun(h, r) PROVE HeldInv'
  <2> DEFINE row == QueuedRow(ops[h].key, ops[h].prior)
  <2>1. row.status = "queued" BY DEF QueuedRow, NoRow
  <2> HIDE DEF row
  <2>2. CASE Becomes(h, Holding(IdleOp, "starting", r, row))
    BY <2>1, <2>2, HoldingFits, BecomesHeld
  <2>3. ASSUME NEW s \in Holders(runs, ops[h].key), StartsIfQueued(h, s) PROVE HeldInv'
    BY <2>3, StartsIfQueuedHeld DEF Holders
  <2> QED BY <1>5, <2>2, <2>3, RepliesHeld DEF CreateRun, row
<1>6. ASSUME NEW r \in RunIds, RecordProviderStart(h, r) PROVE HeldInv'
  <2> DEFINE done == Without(ops[h], r)
             op == [done EXCEPT !.pc = "resuming", !.run = NoRun]
  <2>1. Replies(h) \/ Becomes(h, IdleOp) \/ (At(h, "restarting") /\ r = ops[h].run /\ Becomes(h, op))
    BY <1>6 DEF RecordProviderStart, SavesOrFails, At
  <2>2. done \in Ops BY <1>0, WithoutEquipped
  <2>3. op.todo = done.todo /\ op.snap = done.snap /\ op.pc = "resuming" BY <2>2 DEF Ops
  <2>4. done.todo = ops[h].todo \ {r} /\ \A s \in done.todo : done.snap[s] = ops[h].snap[s]
    BY <1>0, WithoutKeeps
  <2> HIDE DEF op, done
  <2>5. ASSUME At(h, "restarting"), r = ops[h].run PROVE Fits(op)
    BY <1>0, <2>3, <2>4, <2>5 DEF Fits, HeldStatuses, At
  <2>6. Attempted(op) BY <2>3 DEF Attempted, Creating
  <2> QED BY <2>1, <2>5, <2>6, BecomesHeld, RepliesHeld DEF Replies
<1>7. CASE SaveAllowlist(h)
  BY <1>1, <1>7, RepliesHeld DEF SaveAllowlist, At, Phases, Loops, Creating
<1>8. CASE ListRuns(h)
  <2> DEFINE status == ops[h].plan.status
             phase == LoopOf(status)
             todo == {r \in RunIds : runs[r].status \in Affected(status)}
             snap == Snapshot(todo)
             op == [ops[h] EXCEPT !.pc = phase, !.todo = todo, !.snap = snap]
  <2>1. Becomes(h, op) BY <1>8 DEF ListRuns
  <2>2. \A r \in todo : snap[r].status \in Affected(status) BY DEF Snapshot
  <2>3. status \in {"active", "paused", "revoked"}
    BY <1>0, <1>8 DEF ListRuns, At, Equipped, Ops, Allowlists
  <2>4. /\ phase \in {"pausing", "revoking", "resuming"}
        /\ phase = "pausing" => Affected(status) = {"queued", "running"}
        /\ phase = "revoking" => Affected(status) = {"queued", "running", "paused"}
        /\ phase = "resuming" => Affected(status) = {"paused"}
    BY <2>3 DEF LoopOf, Affected
  <2> HIDE DEF phase, todo, snap, status
  <2>5. op.pc = phase /\ op.todo = todo /\ op.snap = snap BY <1>0 DEF Ops
  <2>6. Fits(op) BY <2>2, <2>4, <2>5 DEF Fits, HeldStatuses
  <2>7. Attempted(op) BY <2>4, <2>5 DEF Attempted, Creating
  <2> QED BY <2>1, <2>6, <2>7, BecomesHeld
<1>9. ASSUME NEW r \in RunIds, PauseRun(h, r) \/ StopRun(h, r) \/ PollFails(h, r) PROVE HeldInv'
  BY <1>9, DropsHeld DEF PauseRun, StopRun, PollFails, SavesOrSkips
<1>10. ASSUME NEW r \in RunIds, ResumeRun(h, r) PROVE HeldInv'
  <2> DEFINE queued == Move(ops[h].snap[r], "queued")
             snap == [ops[h].snap EXCEPT ![r] = queued]
             op == [ops[h] EXCEPT !.pc = "restarting", !.run = r, !.snap = snap]
  <2>1. At(h, "resuming") /\ SavesOrFails(h, r, queued, op) BY <1>0, <1>10 DEF ResumeRun, Ops
  <2>2. \A s \in ops[h].todo \ {r} : snap[s] = ops[h].snap[s] BY <1>0 DEF Ops
  <2>3. snap[r].status = "queued"
    <3>1. r \in ops[h].todo /\ "queued" \in Statuses \ {"absent"} BY <1>10, StatusNames DEF ResumeRun
    <3>2. queued.status = "queued" BY <1>0, <3>1, MoveContinues DEF Equipped
    <3>3. snap[r] = queued BY <1>0 DEF Ops
    <3> QED BY <3>2, <3>3
  <2> HIDE DEF queued, snap
  <2>4. op.todo = ops[h].todo /\ op.snap = snap /\ op.pc = "restarting" /\ op.run = r
    BY <1>0 DEF Ops
  <2> HIDE DEF op
  <2>5. Fits(op) BY <1>0, <2>1, <2>2, <2>3, <2>4 DEF Fits, HeldStatuses, At
  <2>6. Attempted(op) BY <2>4 DEF Attempted, Creating
  <2> QED BY <2>1, <2>5, <2>6, BecomesHeld, RepliesHeld DEF SavesOrFails
<1>11. ASSUME NEW r \in RunIds, NEW c \in Contents, PollSucceeds(h, r, c) PROVE HeldInv'
  <2> DEFINE done == Without(ops[h], r)
             id == <<ops[h].snap[r].key.objective, c>>
             op == [done EXCEPT !.pc = "importing", !.run = r, !.result = id]
  <2>1. Replies(h) \/ Becomes(h, done) \/ Becomes(h, op)
    BY <1>11 DEF PollSucceeds, SavesOrSkips, SavesOrFails
  <2>2. done \in Ops BY <1>0, WithoutEquipped
  <2> HIDE DEF id
  <2>3. op.todo = done.todo /\ op.snap = done.snap /\ op.pc = "importing" BY <2>2 DEF Ops
  <2>4. done.todo = ops[h].todo \ {r} /\ \A s \in done.todo : done.snap[s] = ops[h].snap[s]
    BY <1>0, WithoutKeeps
  <2>5. CASE Becomes(h, op)
    <3> HIDE DEF op, done
    <3>1. Fits(op) BY <1>0, <1>11, <2>3, <2>4, KeptRowsFit DEF PollSucceeds, At, Loops
    <3>2. Attempted(op) BY <2>3 DEF Attempted, Creating
    <3> QED BY <2>5, <3>1, <3>2, BecomesHeld
  <2> QED BY <2>1, <2>5, DropsHeld
<1>12. CASE FindExistingResult(h)
  BY <1>1, <1>2, <1>12 DEF FindExistingResult, At, Phases, Loops, Creating
<1>13. CASE ImportProviderResult(h)
  BY <1>1, <1>2, <1>13, RepliesHeld DEF ImportProviderResult, At, Phases, Loops, Creating
<1>14. CASE \/ ClaimEvidenceEffect(h)
            \/ \E g \in ResultGates \ {"none"} : SynthesizeEvidence(h, g)
            \/ RecordResearchMemory(h)
  BY <1>1, <1>14
     DEF ClaimEvidenceEffect, SynthesizeEvidence, RecordResearchMemory, At, Phases, Loops, Creating
<1>15. CASE SettleEvidence(h) \/ SourceQualityInsufficient(h) \/ EvidenceEffectFails(h)
  BY <1>2, <1>15 DEF SettleEvidence, SourceQualityInsufficient, EvidenceEffectFails, At, Loops
<1>16. CASE Reply(h)
  BY <1>16, RepliesHeld DEF Reply
<1> QED BY <1>3, <1>4, <1>5, <1>6, <1>7, <1>8, <1>9, <1>10, <1>11, <1>12, <1>13, <1>14, <1>15, <1>16
        DEF Continue

LEMMA HeldStep == IInv /\ HeldInv /\ [Next]_vars => HeldInv'
<1> SUFFICES ASSUME IInv, HeldInv, [Next]_vars PROVE HeldInv' OBVIOUS
<1>1. CASE Outside \/ UNCHANGED vars
  BY <1>1 DEF Outside, CreateResearchAllowlist, ImportResearchResult, vars, HeldInv
<1>2. CASE Crash
  BY <1>2, IdleFits DEF Crash, HeldInv
<1> QED BY <1>1, <1>2, RequestHeld, ContinueHeld DEF Next

LEMMA HeldInit == Init => HeldInv
BY IdleFits DEF Init, HeldInv
-----------------------------------------------------------------------------
(* The rows that are stored satisfy the contract.                          *)

LEMMA QueuedRowValid ==
    ASSUME NEW key, NEW prior, prior # NoRun => key.attempt >= 2
    PROVE  ValidRow(QueuedRow(key, prior))
<1> DEFINE row == QueuedRow(key, prior)
<1>1. row.status = "queued" /\ row.gate = "not_evaluated" /\ row.retryOf = prior /\ row.key = key
  BY DEF QueuedRow, NoRow
<1> HIDE DEF row
<1>2. GatesOf("queued") = {"not_evaluated"} BY DEF GatesOf
<1>3. "queued" \notin {"running", "needs_review", "failed"} \cup Verdicts
      /\ "queued" \notin {"needs_review"} \cup Terminal
  BY DEF Verdicts, Terminal
<1>4. ValidRow(row) BY <1>1, <1>2, <1>3 DEF ValidRow
<1> QED BY <1>4 DEF row

\* The row after its run has been answered.
LEMMA DeliveredRowValid ==
    ASSUME NEW row, Stored(row), ValidRow(row), row.status = "running"
    PROVE  LET new == DeliveredRow(row)
           IN  ValidRow(new) /\ new.started /\ new.completed /\ new.status = "needs_review"
<1> DEFINE new == DeliveredRow(row)
<1>1. row \in Rows /\ row.started BY DEF Stored, ValidRow
<1>2. /\ new.status = "needs_review" /\ new.completed /\ new.gate = "pending_review"
      /\ new.started = row.started /\ new.key = row.key /\ new.retryOf = row.retryOf
  BY <1>1 DEF DeliveredRow, Move, Rows
<1> HIDE DEF new
<1>3. GatesOf("needs_review") = {"pending_review"} BY DEF GatesOf
<1>4. ValidRow(new) BY <1>1, <1>2, <1>3 DEF ValidRow
<1> QED BY <1>1, <1>2, <1>4 DEF new

LEMMA EvidencePackValid ==
    ASSUME NEW row, Stored(row), ValidRow(row), NEW g \in ResultGates \ {"none"}
    PROVE  ValidRow(WithEvidencePack(row, g))
<1> DEFINE reviewed == ReviewedRow(row)
<1>1. CASE row.status \notin {"running", "needs_review"}
  BY <1>1 DEF WithEvidencePack
<1>2. CASE row.status \in {"running", "needs_review"}
  <2>1. /\ ValidRow(reviewed) /\ reviewed.started /\ reviewed.completed /\ reviewed \in Rows
    <3>1. CASE row.status = "running"
      BY <3>1, DeliveredRowValid, DeliveredRowContinues DEF ReviewedRow, Continues, Stored
    <3>2. CASE row.status # "running"
      BY <1>2, <3>2 DEF ReviewedRow, ValidRow, Stored
    <3> QED BY <3>1, <3>2
  <2>2. CASE g = "needs_review"
    BY <1>2, <2>1, <2>2 DEF WithEvidencePack
  <2>3. CASE g # "needs_review"
    <3> DEFINE gate == GateOfVerdict(g)
               new == [Move(reviewed, g) EXCEPT !.gate = gate]
    <3>1. g \in Verdicts BY <2>3 DEF ResultGates
    <3>2. gate \in GatesOf(g) BY <3>1 DEF GateOfVerdict, GatesOf, Verdicts
    <3>3. WithEvidencePack(row, g) = new BY <1>2, <2>3 DEF WithEvidencePack
    <3> HIDE DEF gate, reviewed
    <3>4. /\ new.status = g /\ new.gate = gate /\ new.started = reviewed.started
          /\ new.completed = reviewed.completed /\ new.key = reviewed.key
          /\ new.retryOf = reviewed.retryOf
      BY <2>1 DEF Move, Rows
    <3> HIDE DEF new
    <3>5. ValidRow(new) BY <2>1, <3>1, <3>2, <3>4 DEF ValidRow
    <3> QED BY <3>3, <3>5
  <2> QED BY <2>2, <2>3
<1> QED BY <1>1, <1>2

RowsAttempted == \A r \in Existing : runs[r].key.attempt >= 1

LEMMA ValidStep ==
    ASSUME IInv, HeldInv, StoredRowsAreValid, RowsAttempted, [Next]_vars
    PROVE  StoredRowsAreValid' /\ RowsAttempted'
<1>0. runs \in [RunIds -> Rows] /\ \A r \in RunIds : runs[r] = NoRow \/ Stored(runs[r])
  BY DEF IInv, RowsInv
<1>1. SUFFICES ASSUME NEW r \in RunIds, runs'[r].version # 0
               PROVE  ValidRow(runs'[r]) /\ runs'[r].key.attempt >= 1
  BY DEF StoredRowsAreValid, RowsAttempted, Existing
<1>2. CASE runs'[r] = runs[r]
  BY <1>1, <1>2 DEF StoredRowsAreValid, RowsAttempted, Existing
<1>3. ASSUME NEW h \in Handlers, Inserts(h, r) PROVE ValidRow(runs'[r]) /\ runs'[r].key.attempt >= 1
  <2> DEFINE key == ops[h].key
             prior == ops[h].prior
             row == QueuedRow(key, prior)
  <2>1. key \in Keys /\ key.attempt >= 1 /\ prior \in RunIds \cup {NoRun}
    BY <1>3 DEF Inserts, HeldInv, Attempted, Creating, At
  <2>2. ASSUME prior # NoRun PROVE key.attempt >= 2
    <3>1. prior \in RunIds /\ runs[prior].status \in Retryable
          /\ key.attempt = runs[prior].key.attempt + 1
      BY <1>3, <2>1, <2>2 DEF Inserts, RetrySourceOK
    <3>2. Stored(runs[prior]) BY <1>0, <3>1, NoRowType DEF Retryable
    <3>3. runs[prior].key.attempt \in Nat /\ runs[prior].key.attempt >= 1
      BY <3>1, <3>2 DEF Stored, Keys, RowsAttempted, Existing
    <3> QED BY <3>1, <3>3
  <2>3. ValidRow(row) BY <2>2, QueuedRowValid
  <2>4. row.key = key BY <2>1, QueuedRowStored
  <2>5. runs'[r] = row BY <1>0, <1>3 DEF Inserts
  <2> HIDE DEF row, key
  <2> QED BY <2>1, <2>3, <2>4, <2>5
<1>4. CASE runs'[r] # runs[r] /\ ~ \E h \in Handlers : Inserts(h, r)
  <2>1. runs[r].version # 0 BY <1>4, ChangeIsInsertOrLater
  <2>2. runs'[r].key = runs[r].key BY <1>4, <2>1, StepAdvances DEF Advances
  <2>3. runs'[r].key.attempt >= 1 BY <2>1, <2>2 DEF RowsAttempted, Existing
  <2>4. ASSUME NEW h \in Handlers, NEW s \in RunIds, NEW new, Updates(h, s, new)
        PROVE  ValidRow(runs'[r])
    BY <1>0, <1>4, <2>4 DEF Updates, Saves, LegalUpdate
  <2>5. ASSUME NEW s \in RunIds, NEW g \in ResultGates \ {"none"}, Judges(s, g)
        PROVE  ValidRow(runs'[r])
    <3>1. runs'[r] = WithEvidencePack(runs[r], g) BY <1>0, <1>4, <2>5 DEF Judges
    <3>2. Stored(runs[r]) /\ ValidRow(runs[r])
      BY <1>0, <2>1, NoRowType DEF StoredRowsAreValid, Existing
    <3> QED BY <3>1, <3>2, EvidencePackValid
  <2>6. ASSUME NEW h \in Handlers, NEW s \in RunIds, Inserts(h, s) PROVE FALSE
    BY <1>0, <1>4, <2>6 DEF Inserts
  <2>7. RunStep BY NextIsRunStep
  <2> QED BY <1>4, <2>3, <2>4, <2>5, <2>6, <2>7 DEF RunStep
<1> QED BY <1>2, <1>3, <1>4

LEMMA ValidInit == Init => StoredRowsAreValid /\ RowsAttempted
BY DEF Init, NothingRead, NoRow, StoredRowsAreValid, RowsAttempted, Existing

LEMMA HeldInvariance == Spec => [](IInv /\ SnapshotsPinned /\ HeldInv)
<1>1. Spec => []IInv BY InitInv, StepInv, PTL DEF Spec
<1> QED BY <1>1, SnapshotsInit, SnapshotsStep, HeldInit, HeldStep, PTL DEF Spec

\* No start, pause, answer or evidence pack, in whatever order they come, stores a row
\* that a later read would reject.
THEOREM RowsStayValid == Spec => []StoredRowsAreValid
BY HeldInvariance, ValidInit, ValidStep, PTL DEF Spec

-----------------------------------------------------------------------------
(* Only the version check refuses an update.                               *)

LEMMA StartLegal ==
    ASSUME NEW row, Stored(row), ValidRow(row), row.status \in Waiting
    PROVE  LegalUpdate(row, StartedRow(row))
<1> DEFINE new == StartedRow(row)
<1>1. row \in Rows BY DEF Stored
<1>2. /\ new.status = "running" /\ new.started /\ new.completed = row.completed
      /\ new.gate = row.gate /\ new.key = row.key /\ new.retryOf = row.retryOf
  BY <1>1 DEF StartedRow, Move, Rows
<1> HIDE DEF new
<1>3. GatesOf(row.status) = {"not_evaluated"} /\ GatesOf("running") = {"not_evaluated"}
  BY DEF GatesOf, Waiting, Verdicts
<1>4. ValidRow(new) BY <1>2, <1>3, StatusNames DEF ValidRow
<1>5. "running" \in SameRunTransitions(row.status) BY DEF SameRunTransitions, Waiting
<1>6. KeepsIdentity(row, new) BY <1>2 DEF KeepsIdentity
<1> QED BY <1>2, <1>4, <1>5, <1>6 DEF LegalUpdate, new

LEMMA MoveLegal ==
    ASSUME NEW row, Stored(row), ValidRow(row), NEW s,
           \/ row.status = "queued" /\ s = "paused"
           \/ row.status = "paused" /\ s = "queued"
           \/ row.status = "running" /\ s = "cancel_requested"
    PROVE  LegalUpdate(row, Move(row, s))
<1> DEFINE new == Move(row, s)
<1>1. row \in Rows BY DEF Stored
<1>2. /\ new.status = s /\ new.started = row.started /\ new.completed = row.completed
      /\ new.gate = row.gate /\ new.key = row.key /\ new.retryOf = row.retryOf
  BY <1>1 DEF Move, Rows
<1> HIDE DEF new
<1>3. GatesOf(row.status) = {"not_evaluated"} /\ GatesOf(s) = {"not_evaluated"}
  BY DEF GatesOf
<1>4. s \notin {"running", "needs_review", "failed"} \cup Verdicts
      /\ s \notin {"needs_review"} \cup Terminal
  BY DEF Verdicts, Terminal
<1>5. ValidRow(new) BY <1>2, <1>3, <1>4 DEF ValidRow
<1>6. s \in SameRunTransitions(row.status) BY DEF SameRunTransitions
<1>7. KeepsIdentity(row, new) BY <1>2 DEF KeepsIdentity
<1> QED BY <1>2, <1>5, <1>6, <1>7 DEF LegalUpdate, new

LEMMA CancelLegal ==
    ASSUME NEW row, Stored(row), ValidRow(row), row.status \in Waiting \cup {"running"}
    PROVE  LegalUpdate(row, CancelledRow(row))
<1>1. CASE row.status \in Waiting
  <2> DEFINE new == [Move(row, "cancelled") EXCEPT !.completed = TRUE]
  <2>1. row \in Rows /\ CancelledRow(row) = new BY <1>1 DEF Stored, CancelledRow
  <2>2. /\ new.status = "cancelled" /\ new.started = row.started /\ new.completed
        /\ new.gate = row.gate /\ new.key = row.key /\ new.retryOf = row.retryOf
    BY <2>1 DEF Move, Rows
  <2> HIDE DEF new
  <2>3. GatesOf(row.status) = {"not_evaluated"} /\ "not_evaluated" \in GatesOf("cancelled")
    BY <1>1 DEF GatesOf, Waiting, Verdicts
  <2>4. "cancelled" \notin {"running", "needs_review", "failed"} \cup Verdicts BY DEF Verdicts
  <2>5. ValidRow(new) BY <2>2, <2>3, <2>4 DEF ValidRow
  <2>6. "cancelled" \in SameRunTransitions(row.status) BY <1>1 DEF SameRunTransitions, Waiting
  <2>7. KeepsIdentity(row, new) BY <2>2 DEF KeepsIdentity
  <2> QED BY <2>1, <2>2, <2>5, <2>6, <2>7 DEF LegalUpdate
<1>2. CASE row.status = "running"
  BY <1>2, MoveLegal DEF CancelledRow, Waiting
<1> QED BY <1>1, <1>2

LEMMA AnswerLegal ==
    ASSUME NEW row, Stored(row), ValidRow(row), row.status = "running"
    PROVE  LegalUpdate(row, DeliveredRow(row)) /\ LegalUpdate(row, FailedRow(row))
<1>1. row \in Rows /\ row.started BY DEF Stored, ValidRow
<1>2. LegalUpdate(row, DeliveredRow(row))
  <2> DEFINE new == DeliveredRow(row)
  <2>1. new.key = row.key /\ new.retryOf = row.retryOf
    BY DeliveredRowContinues DEF Continues
  <2>2. ValidRow(new) /\ new.started /\ new.completed /\ new.status = "needs_review"
    BY DeliveredRowValid
  <2>3. "needs_review" \in SameRunTransitions("running") BY DEF SameRunTransitions
  <2> QED BY <2>1, <2>2, <2>3 DEF LegalUpdate, KeepsIdentity
<1>3. LegalUpdate(row, FailedRow(row))
  <2> DEFINE new == FailedRow(row)
  <2>1. /\ new.status = "failed" /\ new.started = row.started /\ new.completed
        /\ new.gate = row.gate /\ new.key = row.key /\ new.retryOf = row.retryOf
    BY <1>1 DEF FailedRow, Move, Rows
  <2> HIDE DEF new
  <2>2. GatesOf("running") = {"not_evaluated"} /\ "not_evaluated" \in GatesOf("failed")
    BY DEF GatesOf, Verdicts
  <2>3. ValidRow(new) BY <1>1, <2>1, <2>2 DEF ValidRow
  <2>4. "failed" \in SameRunTransitions("running") BY DEF SameRunTransitions
  <2> QED BY <1>1, <2>1, <2>3, <2>4 DEF LegalUpdate, KeepsIdentity, new
<1> QED BY <1>2, <1>3

LEMMA PendingLegal ==
    ASSUME NEW op, Fits(op), NEW r \in op.todo, op.pc = "restarting" => r = op.run,
           Stored(op.snap[r]), ValidRow(op.snap[r]), NEW new \in Pending(op, r)
    PROVE  LegalUpdate(op.snap[r], new)
<1> DEFINE old == op.snap[r]
<1>1. old.status \in HeldStatuses(op, r) BY DEF Fits
<1> HIDE DEF old
<1>2. CASE op.pc \in {"starting", "restarting"}
  <2>1. new = StartedRow(old) /\ old.status \in Waiting
    BY <1>1, <1>2 DEF Pending, HeldStatuses, Waiting, old
  <2> QED BY <2>1, StartLegal DEF old
<1>3. CASE op.pc \in {"cancelling", "revoking"}
  <2>1. new = CancelledRow(old) /\ old.status \in Waiting \cup {"running"}
    BY <1>1, <1>3 DEF Pending, HeldStatuses, Waiting, old
  <2> QED BY <2>1, CancelLegal DEF old
<1>4. CASE op.pc = "pausing"
  <2>1. \/ new = Move(old, "paused") /\ old.status = "queued"
        \/ new = CancelledRow(old) /\ old.status = "running"
    BY <1>1, <1>4 DEF Pending, HeldStatuses, old
  <2> QED BY <2>1, MoveLegal, CancelLegal DEF old
<1>5. CASE op.pc = "resuming"
  <2>1. (new = Move(old, "queued") \/ new = CancelledRow(old)) /\ old.status = "paused"
    BY <1>1, <1>5 DEF Pending, HeldStatuses, old
  <2> QED BY <2>1, MoveLegal, CancelLegal DEF old, Waiting
<1>6. CASE op.pc = "polling"
  <2>1. (new = DeliveredRow(old) \/ new = FailedRow(old)) /\ old.status = "running"
    BY <1>1, <1>6 DEF Pending, HeldStatuses, old
  <2> QED BY <2>1, AnswerLegal DEF old
<1>7. CASE op.pc \notin {"starting", "restarting", "cancelling", "revoking", "pausing",
                         "resuming", "polling"}
  BY <1>7 DEF Pending
<1> QED BY <1>2, <1>3, <1>4, <1>5, <1>6, <1>7

LEMMA SavesLegal ==
    IInv /\ SnapshotsPinned /\ HeldInv /\ StoredRowsAreValid => SavesAreLegal
<1> SUFFICES ASSUME IInv, SnapshotsPinned, HeldInv, StoredRowsAreValid,
                    NEW h \in Handlers, NEW r \in ops[h].todo,
                    At(h, "restarting") => r = ops[h].run,
                    NEW new \in Pending(ops[h], r), Unchanged(runs[r], new)
             PROVE  LegalUpdate(runs[r], new)
  BY DEF SavesAreLegal
<1>1. ops[h] \in Ops /\ Equipped(ops[h]) /\ r \in RunIds /\ runs[r] \in Rows
  BY DEF IInv, HandlersInv, RowsInv, Ops
<1>2. Continues(ops[h].snap[r], new) /\ Stored(ops[h].snap[r])
  BY <1>1, PendingContinues DEF Equipped
<1>3. ops[h].snap[r].version \in Nat /\ runs[r].version \in Nat
  BY <1>1, <1>2 DEF Stored, Rows
<1>4. ops[h].snap[r] = runs[r]
  BY <1>2, <1>3 DEF Continues, Unchanged, SnapshotsPinned
<1>5. ValidRow(runs[r]) BY <1>1, <1>2, <1>4 DEF StoredRowsAreValid, Existing, Stored
<1>6. Fits(ops[h]) /\ (ops[h].pc = "restarting" => r = ops[h].run) BY DEF HeldInv, At
<1> QED BY <1>2, <1>4, <1>5, <1>6, PendingLegal

\* Whatever else the handlers do to the runs, an update built from the row as it still is
\* passes every assertion of the repository: only a lost race fails a handler.
THEOREM OnlyRacesRefuse == Spec => []SavesAreLegal
BY HeldInvariance, RowsStayValid, SavesLegal, PTL
-----------------------------------------------------------------------------
(* From an answer to its verdict.  Only the handler that recorded the      *)
(* answer of a run brings its result to evidence.                          *)

\* The phases of a handler between an answer and the gate of its evidence.
Reviewing == {"importing", "ingesting", "claiming", "synthesizing"}

Answered == {"needs_review"} \cup Verdicts

FromProvider(id) == results[id].origin = "provider"

ResultsInv ==
    /\ \A id \in ResultIds : results[id].effect = "none" => results[id] = NotImported
    /\ \A r \in RunIds : runs[r].status \notin Answered =>
           \A id \in ResultsOf(r) : results[id].gate = "none" /\ ~FromProvider(id)
    /\ \A r \in RunIds : \A i, j \in ResultsOf(r) : FromProvider(i) /\ FromProvider(j) => i = j

\* The run that a handler reviews, and what it knows of it.
Reviews(op) ==
    /\ op.run \in RunIds
    /\ runs[op.run].status = "needs_review"
    /\ \A id \in ResultsOf(op.run) : results[id].gate = "none"
    /\ op.pc \in {"claiming", "synthesizing"} => results[op.result].run = op.run

ReviewersInv ==
    /\ \A h \in Handlers : ops[h].pc \in Reviewing => Reviews(ops[h])
    /\ \A g, h \in Handlers :
           ops[g].pc \in Reviewing /\ ops[h].pc \in Reviewing /\ ops[g].run = ops[h].run => g = h

ReviewInv == ResultsInv /\ ReviewersInv /\ EvidenceBehindVerdict

\* What most steps do: no result changes in what it says of a run, no run is
\* answered or judged, and no handler takes up a review.
SameResult(id) ==
    /\ results'[id].run = results[id].run
    /\ results'[id].origin = results[id].origin
    /\ results'[id].gate = results[id].gate
    /\ results'[id].effect = "none" => results'[id] = results[id]

SameAnswer(r) ==
    \/ runs'[r].status = runs[r].status
    \/ runs'[r].status \notin Answered /\ runs[r].status \notin Answered

SameReview(g) ==
    ops'[g].pc \in Reviewing =>
        /\ ops[g].pc \in Reviewing
        /\ ops'[g].run = ops[g].run
        /\ ops'[g].pc \in {"claiming", "synthesizing"} => results[ops'[g].result].run = ops[g].run

LEMMA QuietStep ==
    ASSUME IInv, IInv', ReviewInv,
           \A id \in ResultIds : SameResult(id),
           \A r \in RunIds : SameAnswer(r),
           \A g \in Handlers : SameReview(g)
    PROVE  ReviewInv'
<1>1. \A r \in RunIds : ResultsOf(r)' = ResultsOf(r)
  BY DEF ResultsOf, SameResult
<1>2. \A id \in ResultIds : FromProvider(id)' = FromProvider(id)
  BY DEF FromProvider, SameResult
<1>3. \A r \in RunIds : ResultsOf(r) \subseteq ResultIds BY DEF ResultsOf
<1>4. ResultsInv'
  <2>1. \A id \in ResultIds : results'[id].effect = "none" => results'[id] = NotImported
    BY DEF SameResult, ReviewInv, ResultsInv
  <2>2. ASSUME NEW r \in RunIds, runs'[r].status \notin Answered, NEW id \in ResultsOf(r)
        PROVE  results'[id].gate = "none" /\ ~FromProvider(id)'
    <3>1. id \in ResultIds /\ runs[r].status \notin Answered
      BY <1>3, <2>2 DEF SameAnswer
    <3>2. results[id].gate = "none" /\ ~FromProvider(id)
      BY <2>2, <3>1 DEF ReviewInv, ResultsInv
    <3> QED BY <1>2, <3>1, <3>2 DEF SameResult
  <2>3. ASSUME NEW r \in RunIds, NEW i \in ResultsOf(r), NEW j \in ResultsOf(r),
               FromProvider(i)', FromProvider(j)'
        PROVE  i = j
    BY <1>2, <1>3, <2>3 DEF ReviewInv, ResultsInv
  <2> QED BY <1>1, <2>1, <2>2, <2>3 DEF ResultsInv
<1>5. ASSUME NEW h \in Handlers, ops'[h].pc \in Reviewing PROVE Reviews(ops[h])'
  <2>1. ops[h].pc \in Reviewing /\ ops'[h].run = ops[h].run BY <1>5 DEF SameReview
  <2>2. Reviews(ops[h]) BY <2>1 DEF ReviewInv, ReviewersInv
  <2>3. runs'[ops[h].run].status = "needs_review"
    BY <2>2 DEF Reviews, SameAnswer, Answered
  <2>4. \A id \in ResultsOf(ops[h].run) : results'[id].gate = "none"
    BY <1>3, <2>2 DEF Reviews, SameResult
  <2>5. ops'[h].pc \in {"claiming", "synthesizing"} => results'[ops'[h].result].run = ops'[h].run
    <3>1. SUFFICES ASSUME ops'[h].pc \in {"claiming", "synthesizing"}
                   PROVE  results'[ops'[h].result].run = ops'[h].run
      OBVIOUS
    <3>2. ops'[h].result \in ResultIds BY <3>1 DEF IInv, HandlersInv, Equipped
    <3> QED BY <1>5, <2>1, <3>1, <3>2 DEF SameReview, SameResult
  <2> QED BY <1>1, <2>1, <2>2, <2>3, <2>4, <2>5 DEF Reviews
<1>6. ReviewersInv'
  BY <1>5 DEF ReviewersInv, ReviewInv, SameReview
<1>7. EvidenceBehindVerdict'
  <2>1. ASSUME NEW r \in RunIds, runs'[r].status \in Verdicts
        PROVE  \E id \in ResultsOf(r) : results'[id].gate = runs'[r].status
    BY <1>3, <2>1 DEF SameAnswer, Answered, SameResult, ReviewInv, EvidenceBehindVerdict
  <2>2. ASSUME NEW r \in RunIds, NEW id \in ResultsOf(r), results'[id].gate \in Verdicts
        PROVE  runs'[r].status = results'[id].gate
    BY <1>3, <2>2 DEF SameAnswer, Answered, SameResult, ReviewInv, EvidenceBehindVerdict
  <2> QED BY <1>1, <2>1, <2>2 DEF EvidenceBehindVerdict
<1> QED BY <1>4, <1>6, <1>7 DEF ReviewInv

LEMMA OthersReviewOn ==
    ASSUME IInv, ReviewInv, NEW h \in Handlers, NEW op, Becomes(h, op), NEW g \in Handlers \ {h}
    PROVE  ops'[g] = ops[g] /\ SameReview(g)
<1>1. ops'[g] = ops[g] BY DEF IInv, HandlersInv, Becomes
<1> QED BY <1>1 DEF SameReview, ReviewInv, ReviewersInv, Reviews

\* A handler goes to a phase in which it reviews nothing.
LEMMA LeavesReview ==
    ASSUME IInv, ReviewInv, NEW h \in Handlers, NEW op, Becomes(h, op), op.pc \notin Reviewing
    PROVE  \A g \in Handlers : SameReview(g)
<1>1. SameReview(h) BY DEF IInv, HandlersInv, Becomes, SameReview
<1> QED BY <1>1, OthersReviewOn

\* A step that touches neither results nor runs.
LEMMA NothingAnswered ==
    ASSUME UNCHANGED <<runs, results>>
    PROVE  (\A id \in ResultIds : SameResult(id)) /\ (\A r \in RunIds : SameAnswer(r))
BY DEF SameResult, SameAnswer

LEMMA RequestReview ==
    ASSUME IInv, IInv', ReviewInv, NEW h \in Handlers, Request(h)
    PROVE  ReviewInv'
<1>0. UNCHANGED <<runs, results>>
  BY DEF Request, StartResearchRun, RetryResearchRun, CancelResearchRun, PauseResearchAllowlist,
         RevokeResearchAllowlist, UpdateResearchAllowlist, Governs, ListResearchRuns,
         GetResearchRunStatus, Polls
<1>1. ASSUME NEW op, Becomes(h, op), op.pc \notin Reviewing PROVE ReviewInv'
  <2>1. \A g \in Handlers : SameReview(g) BY <1>1, LeavesReview
  <2> QED BY <1>0, <2>1, NothingAnswered, QuietStep
<1>2. ASSUME NEW o \in Objectives, NEW c \in Connectors, NEW x \in Contexts,
             StartResearchRun(h, o, c, x)
      PROVE  ReviewInv'
  <2> DEFINE key == [objective |-> o, connector |-> c, context |-> x,
                     allowlistVersion |-> allowlist.version, attempt |-> 1]
             op == [IdleOp EXCEPT !.pc = "finding", !.seen = allowlist, !.key = key]
  <2>1. Becomes(h, op) BY <1>2 DEF StartResearchRun
  <2>2. op.pc = "finding" BY DEF IdleOp
  <2> QED BY <1>1, <2>1, <2>2 DEF Reviewing
<1>3. ASSUME NEW r \in RunIds, NEW x \in Contexts, RetryResearchRun(h, r, x) PROVE ReviewInv'
  <2> DEFINE key == [runs[r].key EXCEPT !.context = x, !.attempt = @ + 1]
             op == [IdleOp EXCEPT !.pc = "finding", !.seen = allowlist, !.prior = r, !.key = key]
  <2>1. Becomes(h, op) BY <1>3 DEF RetryResearchRun
  <2>2. op.pc = "finding" BY DEF IdleOp
  <2> QED BY <1>1, <2>1, <2>2 DEF Reviewing
<1>4. CASE \E plan : Governs(h, plan)
  BY <1>1, <1>4 DEF Governs, IdleOp, Reviewing
<1>5. CASE \E r \in RunIds : CancelResearchRun(h, r)
  BY <1>1, <1>5, HoldingReads DEF CancelResearchRun, Reviewing
<1>6. CASE \E rs : Polls(h, rs)
  BY <1>1, <1>6 DEF Polls, IdleOp, Reviewing
<1> QED BY <1>2, <1>3, <1>4, <1>5, <1>6
        DEF Request, PauseResearchAllowlist, RevokeResearchAllowlist, UpdateResearchAllowlist,
            ListResearchRuns, GetResearchRunStatus

\* The statuses a run may have when a handler saves over it.
LEMMA SavedOver ==
    ASSUME IInv, SnapshotsPinned, HeldInv, NEW h \in Handlers, NEW r \in ops[h].todo,
           NEW new \in Pending(ops[h], r), Saves(runs[r], new)
    PROVE  /\ r \in RunIds /\ ops[h].snap[r] = runs[r] /\ Stored(runs[r])
           /\ runs[r].status \in {"queued", "paused", "running"}
<1>1. ops[h] \in Ops /\ Equipped(ops[h]) /\ Fits(ops[h]) /\ r \in RunIds /\ runs[r] \in Rows
  BY DEF IInv, HandlersInv, HeldInv, RowsInv, Ops
<1>2. Continues(ops[h].snap[r], new) /\ Stored(ops[h].snap[r])
  BY <1>1, PendingContinues DEF Equipped
<1>3. ops[h].snap[r].version \in Nat /\ runs[r].version \in Nat BY <1>1, <1>2 DEF Stored, Rows
<1>4. ops[h].snap[r] = runs[r]
  BY <1>2, <1>3 DEF Continues, Saves, Unchanged, SnapshotsPinned
<1>5. ops[h].snap[r].status \in HeldStatuses(ops[h], r) BY <1>1 DEF Fits
<1>6. HeldStatuses(ops[h], r) \subseteq {"queued", "paused", "running"} BY DEF HeldStatuses
<1> QED BY <1>1, <1>2, <1>4, <1>5, <1>6

\* A save that does not answer the run.
LEMMA QuietSave ==
    ASSUME IInv, IInv', SnapshotsPinned, HeldInv, ReviewInv, NEW h \in Handlers,
           NEW r \in ops[h].todo, NEW new \in Pending(ops[h], r), new.status \notin Answered,
           NEW op, op.pc \notin Reviewing, SavesOrFails(h, r, new, op), UNCHANGED results
    PROVE  ReviewInv'
<1>1. \A g \in Handlers : SameReview(g)
  <2>1. IdleOp.pc \notin Reviewing BY DEF IdleOp, Reviewing
  <2> QED BY <2>1, LeavesReview DEF SavesOrFails, Replies
<1>2. \A s \in RunIds : SameAnswer(s)
  <2>1. CASE Saves(runs[r], new)
    <3>1. runs[r].status \notin Answered /\ r \in RunIds
      BY <2>1, SavedOver DEF Answered, Verdicts
    <3>2. runs' = [runs EXCEPT ![r] = new] /\ runs \in [RunIds -> Rows]
      BY <2>1 DEF SavesOrFails, IInv, RowsInv
    <3> QED BY <3>1, <3>2 DEF SameAnswer
  <2>2. CASE ~Saves(runs[r], new)
    BY <2>2 DEF SavesOrFails, SameAnswer
  <2> QED BY <2>1, <2>2
<1>3. \A id \in ResultIds : SameResult(id) BY DEF SameResult
<1> QED BY <1>1, <1>2, <1>3, QuietStep
\* The handler that records the answer of a run is the one to review it.
LEMMA AnswerReview ==
    ASSUME IInv, IInv', SnapshotsPinned, HeldInv, ReviewInv, NEW h \in Handlers,
           NEW r \in RunIds, NEW c \in Contents, PollSucceeds(h, r, c)
    PROVE  ReviewInv'
<1> DEFINE old == ops[h].snap[r]
           new == DeliveredRow(old)
           id == <<old.key.objective, c>>
           done == Without(ops[h], r)
           op == [done EXCEPT !.pc = "importing", !.run = r, !.result = id]
<1>0. /\ ops[h] \in Ops /\ Equipped(ops[h]) /\ Fits(ops[h])
      /\ runs \in [RunIds -> Rows] /\ ops \in [Handlers -> Ops]
  BY DEF IInv, HandlersInv, HeldInv, RowsInv
<1>1. /\ At(h, "polling") /\ r \in ops[h].todo /\ UNCHANGED results
      /\ new \in Pending(ops[h], r)
  BY DEF PollSucceeds, Pending, At
<1>2. done \in Ops /\ done.pc = "polling" BY <1>0, <1>1, WithoutEquipped DEF At
<1>3. CASE UNCHANGED runs /\ (Replies(h) \/ Becomes(h, done))
  <2>1. \A g \in Handlers : SameReview(g)
    BY <1>2, <1>3, LeavesReview DEF Replies, IdleOp, Reviewing
  <2> QED BY <1>1, <1>3, <2>1, NothingAnswered, QuietStep
<1>4. CASE Saves(runs[r], new) /\ runs' = [runs EXCEPT ![r] = new] /\ Becomes(h, op)
  <2>1. Stored(runs[r]) /\ old = runs[r] BY <1>1, <1>4, SavedOver
  <2>2. runs[r].status = "running"
    BY <1>0, <1>1, <2>1 DEF Fits, HeldStatuses, At
  <2>3. runs'[r].status = "needs_review" /\ \A s \in RunIds \ {r} : runs'[s] = runs[s]
    BY <1>0, <1>4, <2>1, DeliveredRowContinues
  <2>4. \A i \in ResultsOf(r) : results[i].gate = "none" /\ ~FromProvider(i)
    BY <2>2 DEF ReviewInv, ResultsInv, Answered, Verdicts
  <2>5. /\ \A s \in RunIds : ResultsOf(s)' = ResultsOf(s)
        /\ \A i \in ResultIds : FromProvider(i)' = FromProvider(i)
    BY <1>1 DEF ResultsOf, FromProvider
  <2> HIDE DEF id, done
  <2>6. op.pc = "importing" /\ op.run = r BY <1>2 DEF Ops
  <2> HIDE DEF op, new, old
  <2>7. ops'[h] = op /\ \A g \in Handlers \ {h} : ops'[g] = ops[g] BY <1>0, <1>4 DEF Becomes
  <2>8. ASSUME NEW g \in Handlers \ {h}, ops[g].pc \in Reviewing
        PROVE  ops[g].run # r /\ Reviews(ops[g])'
    <3>1. Reviews(ops[g]) BY <2>8 DEF ReviewInv, ReviewersInv
    <3>2. ops[g].run \in RunIds \ {r} BY <2>2, <3>1 DEF Reviews
    <3> QED BY <1>1, <2>3, <2>5, <2>7, <3>1, <3>2 DEF Reviews
  <2>9. Reviews(ops[h])'
    BY <1>1, <2>3, <2>4, <2>5, <2>6, <2>7 DEF Reviews
  <2>10. ReviewersInv'
    BY <2>6, <2>7, <2>8, <2>9 DEF ReviewersInv, ReviewInv
  <2>11. ResultsInv'
    <3>1. ASSUME NEW s \in RunIds, runs'[s].status \notin Answered
          PROVE  \A i \in ResultsOf(s) : results[i].gate = "none" /\ ~FromProvider(i)
      BY <2>3, <3>1 DEF ReviewInv, ResultsInv, Answered
    <3>2. \A s \in RunIds : ResultsOf(s) \subseteq ResultIds BY DEF ResultsOf
    <3> QED BY <1>1, <2>5, <3>1, <3>2 DEF ResultsInv, ReviewInv
  <2>12. EvidenceBehindVerdict'
    <3>1. "needs_review" \notin Verdicts /\ "none" \notin Verdicts BY DEF Verdicts
    <3> QED BY <1>1, <2>3, <2>4, <2>5, <3>1 DEF EvidenceBehindVerdict, ReviewInv
  <2> QED BY <2>10, <2>11, <2>12 DEF ReviewInv
<1> QED BY <1>3, <1>4 DEF PollSucceeds, SavesOrSkips, SavesOrFails

\* A result is imported, by the handler that reviews its run or by a user.
LEMMA NewResult ==
    ASSUME IInv, ReviewInv, NEW id \in ResultIds, results[id].effect = "none",
           NEW origin \in {"provider", "manual"}, NEW s \in RunIds \cup {NoRun},
           origin = "provider" => runs[s].status \in Answered /\ ResultsOf(s) = {},
           results' = [results EXCEPT ![id] = Imported(origin, s)], UNCHANGED runs
    PROVE  /\ ResultsInv' /\ EvidenceBehindVerdict'
           /\ results'[id].run = s
           /\ \A r \in RunIds : \A i \in ResultsOf(r)' : results'[i].gate = "none" \/ i \in ResultsOf(r)
           /\ \A g \in Handlers : ops[g].pc \in Reviewing /\ ops'[g] = ops[g] => Reviews(ops[g])'
<1> DEFINE new == Imported(origin, s)
<1>1. /\ new.run = s /\ new.origin = origin /\ new.gate = "none" /\ new.effect = "queued"
  BY DEF Imported, NotImported
<1> HIDE DEF new
<1>2. results'[id] = new /\ \A i \in ResultIds \ {id} : results'[i] = results[i]
  BY DEF IInv, RestInv, new
<1>3. results[id].run = NoRun /\ results[id].gate = "none"
  BY DEF ReviewInv, ResultsInv, NotImported
<1>4. ASSUME NEW r \in RunIds
      PROVE  /\ id \notin ResultsOf(r) /\ ResultsOf(r) \subseteq ResultIds \ {id}
             /\ ResultsOf(r)' = IF r = s THEN ResultsOf(r) \cup {id} ELSE ResultsOf(r)
  BY <1>1, <1>2, <1>3, RunIdsAssumption DEF ResultsOf
<1>5. FromProvider(id)' = (origin = "provider")
      /\ \A i \in ResultIds \ {id} : FromProvider(i)' = FromProvider(i)
  BY <1>1, <1>2 DEF FromProvider
<1>6. ResultsInv'
  <2>1. \A i \in ResultIds : results'[i].effect = "none" => results'[i] = NotImported
    BY <1>1, <1>2 DEF ReviewInv, ResultsInv
  <2>2. ASSUME NEW r \in RunIds, runs[r].status \notin Answered, NEW i \in ResultsOf(r)'
        PROVE  results'[i].gate = "none" /\ ~FromProvider(i)'
    <3>1. CASE i = id BY <1>1, <1>2, <1>4, <1>5, <2>2, <3>1
    <3>2. CASE i \in ResultsOf(r)
      <4>1. results[i].gate = "none" /\ ~FromProvider(i) BY <2>2, <3>2 DEF ReviewInv, ResultsInv
      <4> QED BY <1>2, <1>4, <1>5, <3>2, <4>1
    <3> QED BY <1>4, <3>1, <3>2
  <2>3. ASSUME NEW r \in RunIds, NEW i \in ResultsOf(r)', NEW j \in ResultsOf(r)',
               FromProvider(i)', FromProvider(j)'
        PROVE  i = j
    <3>1. CASE i = id \/ j = id
      <4>1. origin = "provider" /\ r = s BY <1>1, <1>2, <1>4, <2>3, <3>1 DEF FromProvider
      <4>2. ResultsOf(r)' = {id} BY <1>4, <4>1
      <4> QED BY <2>3, <4>2
    <3>2. CASE i # id /\ j # id
      <4>1. i \in ResultsOf(r) /\ j \in ResultsOf(r) BY <1>4, <2>3, <3>2
      <4>2. FromProvider(i) /\ FromProvider(j) BY <1>4, <1>5, <2>3, <3>2, <4>1
      <4> QED BY <4>1, <4>2 DEF ReviewInv, ResultsInv
    <3> QED BY <3>1, <3>2
  <2> QED BY <2>1, <2>2, <2>3 DEF ResultsInv
<1>7. EvidenceBehindVerdict'
  <2>1. "none" \notin Verdicts BY DEF Verdicts
  <2>2. ASSUME NEW r \in RunIds, runs[r].status \in Verdicts
        PROVE  \E i \in ResultsOf(r)' : results'[i].gate = runs[r].status
    <3>1. PICK i \in ResultsOf(r) : results[i].gate = runs[r].status
      BY <2>2 DEF ReviewInv, EvidenceBehindVerdict
    <3> QED BY <1>2, <1>4, <3>1
  <2>3. ASSUME NEW r \in RunIds, NEW i \in ResultsOf(r)', results'[i].gate \in Verdicts
        PROVE  runs[r].status = results'[i].gate
    <3>1. i # id BY <1>1, <1>2, <2>1, <2>3
    <3>2. i \in ResultsOf(r) /\ results'[i] = results[i] BY <1>2, <1>4, <3>1
    <3> QED BY <2>3, <3>2 DEF ReviewInv, EvidenceBehindVerdict
  <2> QED BY <2>2, <2>3 DEF EvidenceBehindVerdict
<1>8. ASSUME NEW g \in Handlers, ops[g].pc \in Reviewing, ops'[g] = ops[g] PROVE Reviews(ops[g])'
  <2>1. Reviews(ops[g]) BY <1>8 DEF ReviewInv, ReviewersInv
  <2>2. \A i \in ResultsOf(ops[g].run)' : results'[i].gate = "none"
    BY <1>1, <1>2, <1>4, <1>8, <2>1 DEF Reviews
  <2>3. ops[g].pc \in {"claiming", "synthesizing"} => results'[ops[g].result].run = ops[g].run
    <3>1. SUFFICES ASSUME ops[g].pc \in {"claiming", "synthesizing"}
                   PROVE  results'[ops[g].result].run = ops[g].run
      OBVIOUS
    <3>2. ops[g].result \in ResultIds BY <3>1 DEF IInv, HandlersInv, Equipped
    <3>3. ops[g].result # id BY <1>3, <2>1, <3>1, RunIdsAssumption DEF Reviews
    <3> QED BY <1>2, <2>1, <3>1, <3>2, <3>3 DEF Reviews
  <2> QED BY <1>8, <2>1, <2>2, <2>3 DEF Reviews
<1> QED BY <1>1, <1>2, <1>3, <1>4, <1>6, <1>7, <1>8

LEMMA ManualReview ==
    ASSUME IInv, ReviewInv, NEW id \in ResultIds, NEW r \in RunIds \cup {NoRun},
           ImportResearchResult(id, r)
    PROVE  ReviewInv'
<1>1. /\ ResultsInv' /\ EvidenceBehindVerdict'
      /\ \A g \in Handlers : ops[g].pc \in Reviewing /\ ops'[g] = ops[g] => Reviews(ops[g])'
  BY NewResult DEF ImportResearchResult
<1>2. UNCHANGED ops BY DEF ImportResearchResult
<1>3. ReviewersInv' BY <1>1, <1>2 DEF ReviewersInv, ReviewInv
<1> QED BY <1>1, <1>3 DEF ReviewInv
LEMMA ImportReview ==
    ASSUME IInv, IInv', ReviewInv, NEW h \in Handlers, ImportProviderResult(h)
    PROVE  ReviewInv'
<1> DEFINE id == ops[h].result
           r == ops[h].run
           op == [ops[h] EXCEPT !.pc = "claiming"]
<1>0. ops[h] \in Ops /\ Equipped(ops[h]) /\ ops \in [Handlers -> Ops] BY DEF IInv, HandlersInv
<1>1. At(h, "ingesting") /\ UNCHANGED runs BY DEF ImportProviderResult
<1>2. id \in ResultIds BY <1>0, <1>1 DEF At, Equipped
<1>3. Reviews(ops[h]) BY <1>1 DEF At, Reviewing, ReviewInv, ReviewersInv
<1>4. CASE UNCHANGED results /\ (Replies(h) \/ Becomes(h, PollsOn(ops[h])))
  <2>1. PollsOn(ops[h]).pc = "polling" /\ IdleOp.pc = "idle" BY <1>0 DEF PollsOn, Ops, IdleOp
  <2>2. \A g \in Handlers : SameReview(g)
    BY <1>4, <2>1, LeavesReview DEF Replies, Reviewing
  <2> QED BY <1>1, <1>4, <2>2, NothingAnswered, QuietStep
<1>5. CASE /\ ResultsOf(r) = {} /\ results[id].effect = "none"
           /\ results' = [results EXCEPT ![id] = Imported("provider", r)] /\ Becomes(h, op)
  <2>1. r \in RunIds /\ runs[r].status = "needs_review" BY <1>3 DEF Reviews
  <2> HIDE DEF id, r
  <2>2. /\ ResultsInv' /\ EvidenceBehindVerdict' /\ results'[id].run = r
        /\ \A t \in RunIds : \A i \in ResultsOf(t)' : results'[i].gate = "none" \/ i \in ResultsOf(t)
        /\ \A g \in Handlers : ops[g].pc \in Reviewing /\ ops'[g] = ops[g] => Reviews(ops[g])'
    BY <1>1, <1>2, <1>5, <2>1, NewResult DEF Answered
  <2>3. op.pc = "claiming" /\ op.run = r /\ op.result = id BY <1>0 DEF Ops, r, id
  <2> HIDE DEF op
  <2>4. ops'[h] = op /\ \A g \in Handlers \ {h} : ops'[g] = ops[g] BY <1>0, <1>5 DEF Becomes
  <2>5. Reviews(ops[h])'
    <3>1. ops'[h].run = r BY <2>3, <2>4
    <3>2. \A i \in ResultsOf(ops[h].run)' : results'[i].gate = "none"
      BY <1>5, <2>1, <2>2, <3>1
    <3> QED BY <1>1, <2>1, <2>2, <2>3, <2>4, <3>2 DEF Reviews
  <2>6. ops[h].pc \in Reviewing /\ ops[h].run = r BY <1>1 DEF At, Reviewing, r
  <2>7. ReviewersInv'
    BY <2>2, <2>3, <2>4, <2>5, <2>6 DEF ReviewersInv, ReviewInv
  <2> QED BY <2>2, <2>7 DEF ReviewInv
<1> QED BY <1>4, <1>5 DEF ImportProviderResult

\* The gate of an evidence pack is the verdict on the run that its result names.
LEMMA JudgedRun ==
    ASSUME NEW row, Stored(row), row.status = "needs_review", NEW g \in ResultGates \ {"none"}
    PROVE  WithEvidencePack(row, g).status = g
<1>1. ReviewedRow(row) = row BY DEF ReviewedRow
<1>2. CASE g = "needs_review" BY <1>1, <1>2 DEF WithEvidencePack
<1>3. CASE g # "needs_review"
  <2> DEFINE gate == GateOfVerdict(g)
             new == [Move(row, g) EXCEPT !.gate = gate]
  <2>1. WithEvidencePack(row, g) = new BY <1>1, <1>3 DEF WithEvidencePack
  <2> HIDE DEF gate
  <2>2. new.status = g BY DEF Move, Stored, Rows
  <2> QED BY <2>1, <2>2
<1> QED BY <1>2, <1>3

LEMMA SynthesizeReview ==
    ASSUME IInv, ReviewInv, NEW h \in Handlers, NEW g \in ResultGates \ {"none"},
           SynthesizeEvidence(h, g)
    PROVE  /\ ReviewInv'
           /\ LET r == ops[h].run
              IN  /\ r \in RunIds /\ runs[r].status = "needs_review"
                  /\ runs'[r].status = g /\ \A s \in RunIds \ {r} : runs'[s] = runs[s]
                  /\ \A i \in ResultsOf(r) : results[i].gate = "none"
                  /\ ops[h].result \in ResultsOf(r)
                  /\ results' = [results EXCEPT ![ops[h].result].gate = g]
<1> DEFINE id == ops[h].result
           r == ops[h].run
           op == [ops[h] EXCEPT !.pc = "remembering"]
<1>0. /\ ops[h] \in Ops /\ Equipped(ops[h]) /\ ops \in [Handlers -> Ops]
      /\ runs \in [RunIds -> Rows] /\ (\A s \in RunIds : runs[s] = NoRow \/ Stored(runs[s]))
      /\ results \in [ResultIds -> Results]
  BY DEF IInv, HandlersInv, RowsInv, RestInv
<1>1. /\ At(h, "synthesizing")
      /\ results' = [results EXCEPT ![id].gate = g]
      /\ runs' = [runs EXCEPT ![results[id].run] = WithEvidencePack(@, g)]
      /\ Becomes(h, op)
  BY DEF SynthesizeEvidence
<1>2. Reviews(ops[h]) BY <1>1 DEF At, Reviewing, ReviewInv, ReviewersInv
<1>3. /\ id \in ResultIds /\ results[id].run = r /\ r \in RunIds
      /\ runs[r].status = "needs_review" /\ \A i \in ResultsOf(r) : results[i].gate = "none"
  BY <1>0, <1>1, <1>2 DEF At, Equipped, Reviews
<1>4. id \in ResultsOf(r) BY <1>3 DEF ResultsOf
<1>5. runs'[r].status = g /\ \A s \in RunIds \ {r} : runs'[s] = runs[s]
  <2>1. Stored(runs[r]) BY <1>0, <1>3, NoRowType
  <2>2. runs'[r] = WithEvidencePack(runs[r], g) BY <1>0, <1>1, <1>3
  <2> QED BY <1>0, <1>1, <1>3, <2>1, <2>2, JudgedRun
<1>6. /\ results'[id].gate = g /\ results'[id].run = results[id].run
      /\ results'[id].origin = results[id].origin /\ results'[id].effect = results[id].effect
      /\ \A i \in ResultIds \ {id} : results'[i] = results[i]
  BY <1>0, <1>1, <1>3 DEF Results
<1>7. ops'[h].pc = "remembering" /\ \A q \in Handlers \ {h} : ops'[q] = ops[q]
  BY <1>0, <1>1 DEF Becomes, Ops
<1> HIDE DEF id, r, op
<1>8. /\ \A s \in RunIds : ResultsOf(s)' = ResultsOf(s) /\ ResultsOf(s) \subseteq ResultIds
      /\ \A s \in RunIds \ {r} : id \notin ResultsOf(s)
      /\ \A i \in ResultIds : FromProvider(i)' = FromProvider(i)
  BY <1>3, <1>6 DEF ResultsOf, FromProvider
<1>9. ResultsInv'
  <2>1. results[id].effect # "none"
    BY <1>3, RunIdsAssumption DEF ReviewInv, ResultsInv, NotImported
  <2>2. \A i \in ResultIds : results'[i].effect = "none" => results'[i] = NotImported
    BY <1>6, <2>1 DEF ReviewInv, ResultsInv
  <2>3. g \in Answered BY DEF ResultGates, Answered
  <2>4. ASSUME NEW s \in RunIds, runs'[s].status \notin Answered
        PROVE  \A i \in ResultsOf(s) : results'[i].gate = "none" /\ ~FromProvider(i)
    <3>1. s # r BY <1>5, <2>3, <2>4
    <3>2. runs[s].status \notin Answered BY <1>5, <2>4, <3>1
    <3> QED BY <1>6, <1>8, <3>1, <3>2 DEF ReviewInv, ResultsInv
  <2> QED BY <1>8, <2>2, <2>4 DEF ResultsInv, ReviewInv
<1>10. ASSUME NEW q \in Handlers, ops'[q].pc \in Reviewing
       PROVE  q # h /\ ops'[q] = ops[q] /\ Reviews(ops[q])'
  <2>1. q # h /\ ops'[q] = ops[q] BY <1>7, <1>10 DEF Reviewing
  <2>2. Reviews(ops[q]) BY <1>10, <2>1 DEF ReviewInv, ReviewersInv
  <2>3. ops[q].run # r
    BY <1>1, <1>10, <2>1 DEF At, Reviewing, ReviewInv, ReviewersInv, r
  <2>4. runs'[ops[q].run].status = "needs_review" BY <1>5, <2>2, <2>3 DEF Reviews
  <2>5. \A i \in ResultsOf(ops[q].run) : results'[i].gate = "none"
    BY <1>6, <1>8, <2>2, <2>3 DEF Reviews
  <2>6. ops[q].pc \in {"claiming", "synthesizing"} => results'[ops[q].result].run = ops[q].run
    <3>1. SUFFICES ASSUME ops[q].pc \in {"claiming", "synthesizing"}
                   PROVE  results'[ops[q].result].run = ops[q].run
      OBVIOUS
    <3>2. ops[q].result \in ResultIds BY <3>1 DEF IInv, HandlersInv, Equipped
    <3> QED BY <1>6, <2>2, <3>1, <3>2 DEF Reviews
  <2> QED BY <1>8, <2>1, <2>2, <2>4, <2>5, <2>6 DEF Reviews
<1>11. ReviewersInv' BY <1>10 DEF ReviewersInv, ReviewInv
<1>12. EvidenceBehindVerdict'
  <2>1. \A s \in RunIds \ {r} : \A i \in ResultsOf(s) : results'[i] = results[i]
    BY <1>6, <1>8
  <2>2. ASSUME NEW i \in ResultsOf(r), i # id PROVE results'[i].gate \notin Verdicts
    <3>1. results'[i].gate = "none" BY <1>3, <1>6, <1>8, <2>2
    <3> QED BY <3>1 DEF Verdicts
  <2> QED BY <1>3, <1>4, <1>5, <1>6, <1>8, <2>1, <2>2 DEF EvidenceBehindVerdict, ReviewInv
<1>13. ReviewInv' BY <1>9, <1>11, <1>12 DEF ReviewInv
<1> QED BY <1>1, <1>3, <1>4, <1>5, <1>13 DEF r, id

\* The effect task of a result is claimed, retried or settled.
LEMMA EffectKeepsResults ==
    ASSUME IInv, NEW h \in Handlers,
           \/ ClaimEvidenceEffect(h) \/ SettleEvidence(h)
           \/ SourceQualityInsufficient(h) \/ EvidenceEffectFails(h)
    PROVE  /\ UNCHANGED runs
           /\ ops[h].result \in ResultIds
           /\ \A i \in ResultIds : SameResult(i)
<1> DEFINE id == ops[h].result
<1>1. id \in ResultIds
  BY DEF IInv, HandlersInv, ClaimEvidenceEffect, SettleEvidence, SourceQualityInsufficient,
         EvidenceEffectFails, At, Equipped
<1>2. results \in [ResultIds -> Results] BY DEF IInv, RestInv
<1>3. PICK effect \in {"queued", "running", "succeeded", "failed"} :
           \/ results' = [results EXCEPT ![id].effect = effect]
           \/ \E n : results' = [results EXCEPT ![id].effect = effect, ![id].attempts = n]
  BY DEF ClaimEvidenceEffect, SettleEvidence, SourceQualityInsufficient, EvidenceEffectFails
<1>4. /\ \A i \in ResultIds \ {id} : results'[i] = results[i]
      /\ results'[id].effect = effect /\ results'[id].run = results[id].run
      /\ results'[id].origin = results[id].origin /\ results'[id].gate = results[id].gate
  <2>1. CASE results' = [results EXCEPT ![id].effect = effect]
    BY <1>1, <1>2, <2>1 DEF Results
  <2>2. ASSUME NEW n, results' = [results EXCEPT ![id].effect = effect, ![id].attempts = n]
        PROVE  /\ \A i \in ResultIds \ {id} : results'[i] = results[i]
               /\ results'[id].effect = effect /\ results'[id].run = results[id].run
               /\ results'[id].origin = results[id].origin /\ results'[id].gate = results[id].gate
    BY <1>1, <1>2, <2>2 DEF Results
  <2> QED BY <1>3, <2>1, <2>2
<1>5. UNCHANGED runs
  BY DEF ClaimEvidenceEffect, SettleEvidence, SourceQualityInsufficient, EvidenceEffectFails
<1> HIDE DEF id
<1>6. \A i \in ResultIds : SameResult(i) BY <1>3, <1>4 DEF SameResult
<1> QED BY <1>1, <1>5, <1>6 DEF id

LEMMA EffectReview ==
    ASSUME IInv, IInv', ReviewInv, NEW h \in Handlers,
           \/ ClaimEvidenceEffect(h) \/ SettleEvidence(h)
           \/ SourceQualityInsufficient(h) \/ EvidenceEffectFails(h)
    PROVE  ReviewInv'
<1>0. ops[h] \in Ops /\ ops \in [Handlers -> Ops] BY DEF IInv, HandlersInv
<1>1. (\A i \in ResultIds : SameResult(i)) /\ (\A r \in RunIds : SameAnswer(r))
  BY EffectKeepsResults DEF SameAnswer
<1>2. CASE ClaimEvidenceEffect(h)
  <2> DEFINE op == [ops[h] EXCEPT !.pc = "synthesizing"]
  <2>1. At(h, "claiming") /\ Becomes(h, op) BY <1>2 DEF ClaimEvidenceEffect
  <2>2. op.run = ops[h].run /\ op.result = ops[h].result BY <1>0 DEF Ops
  <2>3. ops'[h] = op BY <1>0, <2>1 DEF Becomes
  <2>4. SameReview(h)
    BY <2>1, <2>2, <2>3 DEF SameReview, At, Reviewing, ReviewInv, ReviewersInv, Reviews
  <2>5. \A g \in Handlers : SameReview(g) BY <2>1, <2>4, OthersReviewOn
  <2> QED BY <1>1, <2>5, QuietStep
<1>3. CASE SettleEvidence(h) \/ SourceQualityInsufficient(h) \/ EvidenceEffectFails(h)
  <2>1. Becomes(h, PollsOn(ops[h]))
    BY <1>3 DEF SettleEvidence, SourceQualityInsufficient, EvidenceEffectFails
  <2>2. PollsOn(ops[h]).pc = "polling" BY <1>0 DEF PollsOn, Ops
  <2>3. \A g \in Handlers : SameReview(g) BY <2>1, <2>2, LeavesReview DEF Reviewing
  <2> QED BY <1>1, <2>3, QuietStep
<1> QED BY <1>2, <1>3

LEMMA ContinueReview ==
    ASSUME IInv, IInv', SnapshotsPinned, HeldInv, ReviewInv, NEW h \in Handlers, Continue(h)
    PROVE  ReviewInv'
<1>0. ops[h] \in Ops /\ Equipped(ops[h]) /\ ops \in [Handlers -> Ops] BY DEF IInv, HandlersInv
<1>1. ASSUME NEW op, Becomes(h, op), op.pc \notin Reviewing, UNCHANGED <<runs, results>>
      PROVE  ReviewInv'
  <2>1. \A g \in Handlers : SameReview(g) BY <1>1, LeavesReview
  <2> QED BY <1>1, <2>1, NothingAnswered, QuietStep
<1>2. ASSUME NEW phase \in Phases \ Reviewing, Becomes(h, [ops[h] EXCEPT !.pc = phase]),
             UNCHANGED <<runs, results>>
      PROVE  ReviewInv'
  <2>1. [ops[h] EXCEPT !.pc = phase].pc = phase BY <1>0 DEF Ops
  <2> QED BY <1>1, <1>2, <2>1
<1>3. ASSUME Replies(h), UNCHANGED <<runs, results>> PROVE ReviewInv'
  BY <1>1, <1>3 DEF Replies, IdleOp, Reviewing
<1>4. ASSUME NEW r \in RunIds, StartsIfQueued(h, r), UNCHANGED <<runs, results>> PROVE ReviewInv'
  BY <1>1, <1>3, <1>4, HoldingReads DEF StartsIfQueued, Reviewing
<1>5. CASE FindExistingRun(h)
  BY <1>2, <1>4, <1>5 DEF FindExistingRun, Holders, Phases, Reviewing
<1>6. CASE CheckRateBudget(h)
  BY <1>2, <1>3, <1>6 DEF CheckRateBudget, Phases, Reviewing
<1>7. ASSUME NEW r \in RunIds, CreateRun(h, r) PROVE ReviewInv'
  <2> DEFINE row == QueuedRow(ops[h].key, ops[h].prior)
  <2>1. row.status = "queued" BY DEF QueuedRow, NoRow
  <2>2. UNCHANGED results BY <1>7 DEF CreateRun
  <2> HIDE DEF row
  <2>3. CASE /\ r \notin Existing /\ runs' = [runs EXCEPT ![r] = row]
             /\ Becomes(h, Holding(IdleOp, "starting", r, row))
    <3>1. runs \in [RunIds -> Rows] /\ runs[r].status = "absent"
      BY <2>3, NoRowType DEF IInv, RowsInv, Stored, Existing
    <3>2. \A s \in RunIds : SameAnswer(s)
      BY <2>1, <2>3, <3>1 DEF SameAnswer, Answered, Verdicts
    <3>3. \A g \in Handlers : SameReview(g)
      BY <2>3, HoldingReads, LeavesReview DEF Reviewing
    <3>4. \A id \in ResultIds : SameResult(id) BY <2>2 DEF SameResult
    <3> QED BY <3>2, <3>3, <3>4, QuietStep
  <2>4. ASSUME NEW s \in Holders(runs, ops[h].key), StartsIfQueued(h, s), UNCHANGED runs
        PROVE  ReviewInv'
    BY <1>4, <2>2, <2>4 DEF Holders
  <2> QED BY <1>3, <1>7, <2>2, <2>3, <2>4 DEF CreateRun, row
<1>8. ASSUME NEW r \in RunIds, RecordProviderStart(h, r) PROVE ReviewInv'
  <2> DEFINE new == StartedRow(ops[h].snap[r])
             done == Without(ops[h], r)
             op == IF At(h, "starting") THEN IdleOp
                   ELSE [done EXCEPT !.pc = "resuming", !.run = NoRun]
  <2>1. r \in ops[h].todo /\ new \in Pending(ops[h], r) /\ SavesOrFails(h, r, new, op)
        /\ UNCHANGED results
    BY <1>8 DEF RecordProviderStart, Pending
  <2>2. new.status = "running" BY <1>0, <2>1, StartedRowContinues DEF Equipped
  <2>3. op.pc \in {"idle", "resuming"}
    <3>1. done \in Ops BY <1>0, <1>8, WithoutEquipped
    <3> HIDE DEF done
    <3> QED BY <3>1 DEF Ops, IdleOp
  <2> HIDE DEF op, new
  <2> QED BY <2>1, <2>2, <2>3, QuietSave DEF Answered, Verdicts, Reviewing
<1>9. CASE SaveAllowlist(h)
  BY <1>2, <1>3, <1>9 DEF SaveAllowlist, Phases, Reviewing
<1>10. CASE ListRuns(h)
  <2> DEFINE todo == {r \in RunIds : runs[r].status \in Affected(ops[h].plan.status)}
             snap == Snapshot(todo)
             phase == LoopOf(ops[h].plan.status)
             op == [ops[h] EXCEPT !.pc = phase, !.todo = todo, !.snap = snap]
  <2>1. Becomes(h, op) /\ UNCHANGED <<runs, results>> BY <1>10 DEF ListRuns
  <2>2. phase \in {"pausing", "revoking", "resuming"}
    <3>1. ops[h].plan.status \in {"active", "paused", "revoked"}
      BY <1>0, <1>10 DEF ListRuns, At, Equipped, Ops, Allowlists
    <3> QED BY <3>1 DEF LoopOf
  <2> HIDE DEF todo, snap, phase
  <2>3. op.pc = phase BY <1>0 DEF Ops
  <2> QED BY <1>1, <2>1, <2>2, <2>3 DEF Reviewing
<1>11. ASSUME NEW r \in RunIds, PauseRun(h, r) \/ StopRun(h, r) PROVE ReviewInv'
  <2>1. Without(ops[h], r).pc = ops[h].pc BY <1>0, WithoutKeeps
  <2>2. ops[h].pc \notin Reviewing BY <1>11 DEF PauseRun, StopRun, At, Reviewing
  <2>3. Stored(ops[h].snap[r]) BY <1>0, <1>11 DEF PauseRun, StopRun, Equipped
  <2>4. CASE PauseRun(h, r)
    <3>1. r \in ops[h].todo /\ Move(ops[h].snap[r], "paused") \in Pending(ops[h], r)
      BY <2>4 DEF PauseRun, Pending, At
    <3>2. Move(ops[h].snap[r], "paused").status = "paused"
      BY <2>3, StatusNames, MoveContinues
    <3> QED BY <2>1, <2>2, <2>4, <3>1, <3>2, QuietSave DEF PauseRun, Answered, Verdicts
  <2>5. CASE StopRun(h, r)
    <3>1. r \in ops[h].todo /\ CancelledRow(ops[h].snap[r]) \in Pending(ops[h], r)
      BY <2>5 DEF StopRun, Pending, At
    <3>2. CancelledRow(ops[h].snap[r]).status \in {"cancelled", "cancel_requested"}
      BY <2>3, CancelledRowContinues
    <3> QED BY <2>1, <2>2, <2>5, <3>1, <3>2, QuietSave DEF StopRun, Answered, Verdicts
  <2> QED BY <1>11, <2>4, <2>5
<1>12. ASSUME NEW r \in RunIds, ResumeRun(h, r) PROVE ReviewInv'
  <2> DEFINE queued == Move(ops[h].snap[r], "queued")
             snap == [ops[h].snap EXCEPT ![r] = queued]
             op == [ops[h] EXCEPT !.pc = "restarting", !.run = r, !.snap = snap]
  <2>1. /\ r \in ops[h].todo /\ queued \in Pending(ops[h], r)
        /\ SavesOrFails(h, r, queued, op) /\ UNCHANGED results
    BY <1>0, <1>12 DEF ResumeRun, Pending, At, Ops
  <2>2. queued.status = "queued"
    BY <1>0, <2>1, StatusNames, MoveContinues DEF Equipped
  <2> HIDE DEF queued, snap
  <2>3. op.pc = "restarting" BY <1>0 DEF Ops
  <2> HIDE DEF op
  <2> QED BY <2>1, <2>2, <2>3, QuietSave DEF Answered, Verdicts, Reviewing
<1>13. ASSUME NEW r \in RunIds, PollFails(h, r) PROVE ReviewInv'
  <2>1. Without(ops[h], r).pc = "polling" BY <1>0, <1>13, WithoutKeeps DEF PollFails, At
  <2>2. /\ r \in ops[h].todo /\ FailedRow(ops[h].snap[r]) \in Pending(ops[h], r)
        /\ UNCHANGED results
    BY <1>13 DEF PollFails, Pending, At
  <2>3. FailedRow(ops[h].snap[r]).status = "failed"
    BY <1>0, <2>2, FailedRowContinues DEF Equipped
  <2>4. CASE SavesOrFails(h, r, FailedRow(ops[h].snap[r]), Without(ops[h], r))
    BY <2>1, <2>2, <2>3, <2>4, QuietSave DEF Answered, Verdicts, Reviewing
  <2>5. CASE UNCHANGED runs /\ Becomes(h, Without(ops[h], r))
    BY <1>1, <2>1, <2>2, <2>5 DEF Reviewing
  <2> QED BY <1>13, <2>4, <2>5 DEF PollFails, SavesOrSkips
<1>14. CASE FindExistingResult(h)
  <2>1. At(h, "importing") /\ UNCHANGED <<runs, results>> BY <1>14 DEF FindExistingResult
  <2>2. ASSUME NEW op, Becomes(h, op), op.run = ops[h].run,
               \/ op.pc = "ingesting"
               \/ op.pc = "claiming" /\ op.result \in ResultsOf(ops[h].run)
        PROVE  ReviewInv'
    <3>1. ops'[h] = op BY <1>0, <2>2 DEF Becomes
    <3>2. SameReview(h) BY <2>1, <2>2, <3>1 DEF SameReview, At, Reviewing, ResultsOf
    <3>3. \A g \in Handlers : SameReview(g) BY <2>2, <3>2, OthersReviewOn
    <3> QED BY <2>1, <3>3, NothingAnswered, QuietStep
  <2>3. CASE Becomes(h, [ops[h] EXCEPT !.pc = "ingesting"])
    <3> DEFINE op == [ops[h] EXCEPT !.pc = "ingesting"]
    <3>1. op.run = ops[h].run /\ op.pc = "ingesting" BY <1>0 DEF Ops
    <3> QED BY <2>2, <2>3, <3>1
  <2>4. ASSUME NEW id \in ResultsOf(ops[h].run),
               Becomes(h, [ops[h] EXCEPT !.pc = "claiming", !.result = id])
        PROVE  ReviewInv'
    <3> DEFINE op == [ops[h] EXCEPT !.pc = "claiming", !.result = id]
    <3>1. op.run = ops[h].run /\ op.pc = "claiming" /\ op.result = id BY <1>0 DEF Ops
    <3> HIDE DEF op
    <3> QED BY <2>2, <2>4, <3>1 DEF op
  <2>5. CASE Becomes(h, PollsOn(ops[h]))
    <3>1. PollsOn(ops[h]).pc = "polling" BY <1>0 DEF PollsOn, Ops
    <3> QED BY <1>1, <2>1, <2>5, <3>1 DEF Reviewing
  <2> QED BY <1>14, <2>3, <2>4, <2>5 DEF FindExistingResult
<1>15. CASE RecordResearchMemory(h)
  BY <1>2, <1>15 DEF RecordResearchMemory, Phases, Reviewing
<1>16. CASE Reply(h)
  BY <1>3, <1>16 DEF Reply
<1> QED BY <1>5, <1>6, <1>7, <1>8, <1>9, <1>10, <1>11, <1>12, <1>13, <1>14, <1>15, <1>16,
           AnswerReview, ImportReview, SynthesizeReview, EffectReview DEF Continue

LEMMA ReviewStep ==
    IInv /\ IInv' /\ SnapshotsPinned /\ HeldInv /\ ReviewInv /\ [Next]_vars => ReviewInv'
<1> SUFFICES ASSUME IInv, IInv', SnapshotsPinned, HeldInv, ReviewInv, [Next]_vars PROVE ReviewInv'
  OBVIOUS
<1>1. ASSUME NEW h \in Handlers, Request(h) PROVE ReviewInv' BY <1>1, RequestReview
<1>2. ASSUME NEW h \in Handlers, Continue(h) PROVE ReviewInv' BY <1>2, ContinueReview
<1>3. ASSUME UNCHANGED <<runs, results>>,
             \/ UNCHANGED ops
             \/ \A g \in Handlers : ops'[g] = IdleOp
      PROVE  ReviewInv'
  <2>1. \A g \in Handlers : SameReview(g)
    BY <1>3 DEF SameReview, IdleOp, Reviewing, ReviewInv, ReviewersInv, Reviews
  <2> QED BY <1>3, <2>1, NothingAnswered, QuietStep
<1>4. CASE UNCHANGED vars BY <1>3, <1>4 DEF vars
<1>5. CASE Crash BY <1>3, <1>5 DEF Crash
<1>6. CASE Outside
  BY <1>3, <1>6, ManualReview DEF Outside, CreateResearchAllowlist
<1> QED BY <1>1, <1>2, <1>4, <1>5, <1>6 DEF Next

LEMMA ReviewInit == Init => ReviewInv
<1> SUFFICES ASSUME Init PROVE ReviewInv OBVIOUS
<1>1. /\ \A r \in RunIds : runs[r].status = "absent"
      /\ \A r \in RunIds : ResultsOf(r) = {}
      /\ \A h \in Handlers : ops[h].pc = "idle"
  BY RunIdsAssumption DEF Init, NothingRead, NoRow, NotImported, ResultsOf, IdleOp
<1>2. ResultsInv BY <1>1 DEF Init, ResultsInv
<1>3. ReviewersInv BY <1>1 DEF ReviewersInv, Reviewing
<1>4. EvidenceBehindVerdict BY <1>1 DEF EvidenceBehindVerdict, Verdicts
<1> QED BY <1>2, <1>3, <1>4 DEF ReviewInv

LEMMA ReviewInvariance == Spec => []ReviewInv
<1>1. Spec => []IInv BY InitInv, StepInv, PTL DEF Spec
<1> QED BY <1>1, HeldInvariance, ReviewInit, ReviewStep, PTL DEF Spec

\* A run has a verdict exactly when evidence of its own has that gate, however polls race
\* with each other, with stops, with a user's own results and with crashes.
THEOREM VerdictsHaveEvidence == Spec => []EvidenceBehindVerdict
<1>1. ReviewInv => EvidenceBehindVerdict BY DEF ReviewInv
<1> QED BY <1>1, ReviewInvariance, PTL

LEMMA AtMostOneKept ==
    ASSUME ReviewInv
    PROVE  LateResultDropped
<1> SUFFICES ASSUME NEW r \in RunIds
             PROVE  LET kept == {id \in ResultsOf(r) : results[id].origin = "provider"}
                    IN  /\ kept # {} => runs[r].status \in {"needs_review"} \cup Verdicts
                        /\ Cardinality(kept) <= 1
  BY DEF LateResultDropped
<1> DEFINE kept == {id \in ResultsOf(r) : results[id].origin = "provider"}
<1>1. kept # {} => runs[r].status \in Answered
  BY DEF ReviewInv, ResultsInv, FromProvider
<1>2. \A i, j \in kept : i = j
  BY DEF ReviewInv, ResultsInv, FromProvider
<1>3. kept = {} \/ \E i : kept = {i} BY <1>2
<1>4. Cardinality(kept) = 0 \/ Cardinality(kept) = 1
  <2> HIDE DEF kept
  <2> QED BY <1>3, FS_EmptySet, FS_Singleton
<1>5. Cardinality(kept) <= 1 BY <1>4
<1> QED BY <1>1, <1>5 DEF Answered

\* What the provider answers after the run was stopped, or to a second poll, is dropped:
\* one result of its own at most, of a run whose answer was recorded.
THEOREM LateResultsDropped == Spec => []LateResultDropped
<1>1. ReviewInv => LateResultDropped BY AtMostOneKept
<1> QED BY <1>1, ReviewInvariance, PTL
-----------------------------------------------------------------------------
(* The life of a run, as RunLifecycle tells it.                            *)

Life == [r \in RunIds |-> LifeOf(runs[r].status)]

Judged == {r \in RunIds : \E id \in ResultsOf(r) :
              results[id].origin = "provider" /\ results[id].gate # "none"}

LEMMA CancelledRowStatus ==
    ASSUME NEW row, Stored(row)
    PROVE  CancelledRow(row).status =
               IF row.status \in Waiting THEN "cancelled" ELSE "cancel_requested"
<1>1. CASE row.status \in Waiting
  BY <1>1, CancelledRowContinues DEF CancelledRow, Move, Stored, Rows
<1>2. CASE row.status \notin Waiting
  BY <1>2, StatusNames, MoveContinues DEF CancelledRow
<1> QED BY <1>1, <1>2

\* What an update does to the status of its run.
LEMMA PendingStatus ==
    ASSUME NEW op, Fits(op), NEW r \in op.todo, Stored(op.snap[r]), NEW new \in Pending(op, r)
    PROVE  /\ \/ /\ op.snap[r].status \in Waiting
                 /\ new.status \in {"running", "cancelled", "queued", "paused"}
              \/ /\ op.snap[r].status = "running"
                 /\ new.status \in {"cancel_requested", "needs_review", "failed"}
           /\ new.status = "running" => op.pc \in {"starting", "restarting"}
<1> DEFINE old == op.snap[r]
<1>1. old.status \in HeldStatuses(op, r) /\ Stored(old) BY DEF Fits
<1> HIDE DEF old
<1>2. {"queued", "paused", "cancel_requested"} \subseteq Statuses \ {"absent"} BY StatusNames
<1>3. StartedRow(old).status = "running" BY <1>1, StartedRowContinues
<1>4. CancelledRow(old).status = IF old.status \in Waiting THEN "cancelled" ELSE "cancel_requested"
  BY <1>1, CancelledRowStatus
<1>5. DeliveredRow(old).status = "needs_review" /\ FailedRow(old).status = "failed"
  BY <1>1, DeliveredRowContinues, FailedRowContinues
<1>6. Move(old, "paused").status = "paused" /\ Move(old, "queued").status = "queued"
  BY <1>1, <1>2, MoveContinues
<1>7. CASE op.pc \in {"starting", "restarting"}
  BY <1>1, <1>3, <1>7 DEF Pending, HeldStatuses, Waiting, old
<1>8. CASE op.pc \in {"cancelling", "revoking"}
  BY <1>1, <1>4, <1>8 DEF Pending, HeldStatuses, Waiting, old
<1>9. CASE op.pc = "pausing"
  BY <1>1, <1>4, <1>6, <1>9 DEF Pending, HeldStatuses, Waiting, old
<1>10. CASE op.pc = "resuming"
  BY <1>1, <1>4, <1>6, <1>10 DEF Pending, HeldStatuses, Waiting, old
<1>11. CASE op.pc = "polling"
  BY <1>1, <1>5, <1>11 DEF Pending, HeldStatuses, Waiting, old
<1>12. CASE op.pc \notin {"starting", "restarting", "cancelling", "revoking", "pausing",
                         "resuming", "polling"}
  BY <1>12 DEF Pending
<1> QED BY <1>7, <1>8, <1>9, <1>10, <1>11, <1>12

LEMMA LifeNames ==
    /\ LifeOf("absent") = "absent" /\ LifeOf("queued") = "waiting" /\ LifeOf("paused") = "waiting"
    /\ LifeOf("running") = "active" /\ LifeOf("cancel_requested") = "stopping"
    /\ LifeOf("needs_review") = "review" /\ LifeOf("cancelled") = "done" /\ LifeOf("failed") = "done"
    /\ \A v \in Verdicts : LifeOf(v) = "done"
BY DEF LifeOf, Waiting, Verdicts

\* No step but the synthesis of evidence judges a run.
LEMMA JudgedKept ==
    ASSUME IInv, ReviewInv, [Next]_vars,
           ~ \E h \in Handlers, g \in ResultGates \ {"none"} : SynthesizeEvidence(h, g)
    PROVE  UNCHANGED Judged
<1>1. SUFFICES \A i \in ResultIds : \/ SameResult(i)
                                    \/ /\ results[i].effect = "none"
                                       /\ results'[i].gate = "none"
  <2>1. ASSUME \A i \in ResultIds : \/ SameResult(i)
                                    \/ results[i].effect = "none" /\ results'[i].gate = "none",
               NEW r \in RunIds
        PROVE  (\E id \in ResultsOf(r) : results[id].origin = "provider" /\ results[id].gate # "none")
               <=> (\E id \in ResultsOf(r)' :
                        results'[id].origin = "provider" /\ results'[id].gate # "none")
    <3>1. ASSUME NEW i \in ResultIds, results[i].effect = "none" PROVE results[i].gate = "none"
      BY <3>1 DEF ReviewInv, ResultsInv, NotImported
    <3> QED BY <2>1, <3>1 DEF SameResult, ResultsOf
  <2> QED BY <2>1 DEF Judged
<1>2. ASSUME UNCHANGED results PROVE \A i \in ResultIds : SameResult(i)
  BY <1>2 DEF SameResult
<1>3. ASSUME NEW id \in ResultIds, results[id].effect = "none", NEW origin, NEW s,
             results' = [results EXCEPT ![id] = Imported(origin, s)]
      PROVE  \A i \in ResultIds : \/ SameResult(i)
                                  \/ results[i].effect = "none" /\ results'[i].gate = "none"
  <2> DEFINE new == Imported(origin, s)
  <2>1. new.gate = "none" BY DEF Imported, NotImported
  <2> HIDE DEF new
  <2>2. results'[id] = new /\ \A i \in ResultIds \ {id} : results'[i] = results[i]
    BY <1>3 DEF IInv, RestInv, new
  <2> QED BY <1>3, <2>1, <2>2 DEF SameResult
<1>4. ASSUME NEW h \in Handlers, ImportProviderResult(h)
      PROVE  \A i \in ResultIds : \/ SameResult(i)
                                  \/ results[i].effect = "none" /\ results'[i].gate = "none"
  <2>1. ops[h].result \in ResultIds
    BY <1>4 DEF ImportProviderResult, At, IInv, HandlersInv, Equipped
  <2> QED BY <1>2, <1>3, <1>4, <2>1 DEF ImportProviderResult
<1>5. ASSUME NEW id \in ResultIds, NEW r \in RunIds \cup {NoRun}, ImportResearchResult(id, r)
      PROVE  \A i \in ResultIds : \/ SameResult(i)
                                  \/ results[i].effect = "none" /\ results'[i].gate = "none"
  BY <1>3, <1>5 DEF ImportResearchResult
<1>6. CASE UNCHANGED results BY <1>2, <1>6
<1>7. ASSUME NEW h \in Handlers, Continue(h)
      PROVE  \/ UNCHANGED results \/ ImportProviderResult(h) \/ ClaimEvidenceEffect(h)
             \/ SettleEvidence(h) \/ SourceQualityInsufficient(h) \/ EvidenceEffectFails(h)
  BY <1>7 DEF Continue, FindExistingRun, CheckRateBudget, CreateRun, RecordProviderStart,
              SaveAllowlist, ListRuns, PauseRun, StopRun, ResumeRun, PollSucceeds, PollFails,
              FindExistingResult, RecordResearchMemory, Reply
<1>8. ASSUME NEW h \in Handlers, Request(h) PROVE UNCHANGED results
  BY <1>8 DEF Request, StartResearchRun, RetryResearchRun, CancelResearchRun, Governs,
         PauseResearchAllowlist, RevokeResearchAllowlist, UpdateResearchAllowlist,
         ListResearchRuns, GetResearchRunStatus, Polls
<1>9. CASE Outside
  BY <1>2, <1>5, <1>9 DEF Outside, CreateResearchAllowlist
<1>10. CASE Crash \/ UNCHANGED vars
  BY <1>6, <1>10 DEF Crash, vars
<1> QED BY <1>4, <1>6, <1>7, <1>8, <1>9, <1>10, EffectKeepsResults DEF Next

\* A step that changes the status of one run.
LEMMA OneLifeStep ==
    ASSUME NEW r \in RunIds, \A s \in RunIds \ {r} : runs'[s] = runs[s]
    PROVE  /\ Life' = [Life EXCEPT ![r] = LifeOf(runs'[r].status)]
           /\ Life[r] = LifeOf(runs[r].status)
BY DEF Life

LEMMA SynthesisLives ==
    ASSUME IInv, ReviewInv, NEW h \in Handlers, NEW g \in ResultGates \ {"none"},
           SynthesizeEvidence(h, g)
    PROVE  [Lifecycle!Next]_<<Life, Judged>>
<1> DEFINE r == ops[h].run
           id == ops[h].result
<1>1. /\ r \in RunIds /\ runs[r].status = "needs_review"
      /\ runs'[r].status = g /\ \A s \in RunIds \ {r} : runs'[s] = runs[s]
      /\ \A i \in ResultsOf(r) : results[i].gate = "none"
      /\ id \in ResultsOf(r)
      /\ results' = [results EXCEPT ![id].gate = g]
  BY SynthesizeReview
<1> HIDE DEF r, id
<1>2. /\ id \in ResultIds /\ results[id].run = r
      /\ results'[id].gate = g /\ results'[id].run = r /\ results'[id].origin = results[id].origin
      /\ \A i \in ResultIds \ {id} : results'[i] = results[i]
  BY <1>1 DEF ResultsOf, IInv, RestInv, Results
<1>3. \A s \in RunIds : ResultsOf(s)' = ResultsOf(s) BY <1>2 DEF ResultsOf
<1>4. r \notin Judged /\ Judged \subseteq RunIds BY <1>1 DEF Judged
<1>5. Judged' = IF results[id].origin = "provider" THEN Judged \cup {r} ELSE Judged
  <2>1. ASSUME NEW s \in RunIds \ {r} PROVE s \in Judged' <=> s \in Judged
    <3>1. \A i \in ResultsOf(s) : results'[i] = results[i] BY <1>2 DEF ResultsOf
    <3> QED BY <1>3, <3>1 DEF Judged
  <2>2. r \in Judged' <=> results[id].origin = "provider"
    <3>1. \A i \in ResultsOf(r) : i # id => results'[i].gate = "none"
      BY <1>1, <1>2 DEF ResultsOf
    <3> QED BY <1>1, <1>2, <1>3, <3>1 DEF Judged
  <2>3. Judged' \subseteq RunIds BY DEF Judged
  <2> QED BY <1>1, <1>4, <2>1, <2>2, <2>3
<1>6. /\ Life' = [Life EXCEPT ![r] = LifeOf(g)] /\ Life[r] = "review"
      /\ LifeOf(g) = IF g = "needs_review" THEN "review" ELSE "done"
  <2>1. g \in Verdicts \cup {"needs_review"} BY DEF ResultGates
  <2> QED BY <1>1, <2>1, OneLifeStep, LifeNames DEF Verdicts
<1>7. CASE results[id].origin = "provider"
  <2>1. r \notin Judged /\ Judged' = Judged \cup {r} BY <1>4, <1>5, <1>7
  <2>2. Life[r] = "review" /\ \E to \in {"review", "done"} : Life' = [Life EXCEPT ![r] = to]
    BY <1>6
  <2>3. \E s \in RunIds : Lifecycle!Judge(s)
    BY <1>1, <2>1, <2>2 DEF Lifecycle!Judge, Life, Judged
  <2> QED BY <2>3 DEF Lifecycle!Next
<1>8. CASE results[id].origin # "provider" /\ g # "needs_review"
  <2>1. Lifecycle!JudgeByHand(r)
    BY <1>5, <1>6, <1>8 DEF Lifecycle!JudgeByHand, Lifecycle!Goes, Life, Judged
  <2> QED BY <1>1, <2>1 DEF Lifecycle!Next
<1>9. CASE results[id].origin # "provider" /\ g = "needs_review"
  <2>1. Life' = Life BY <1>1, <1>6, <1>9 DEF Life
  <2> QED BY <1>5, <1>9, <2>1
<1> QED BY <1>7, <1>8, <1>9

LEMMA StepLives ==
    IInv /\ SnapshotsPinned /\ HeldInv /\ ReviewInv /\ [Next]_vars
        => [Lifecycle!Next]_<<Life, Judged>>
<1> SUFFICES ASSUME IInv, SnapshotsPinned, HeldInv, ReviewInv, [Next]_vars,
                    ~ \E h \in Handlers, g \in ResultGates \ {"none"} : SynthesizeEvidence(h, g)
             PROVE  [Lifecycle!Next]_<<Life, Judged>>
  BY SynthesisLives
<1>0. runs \in [RunIds -> Rows] /\ \A r \in RunIds : runs[r] = NoRow \/ Stored(runs[r])
  BY DEF IInv, RowsInv
<1>1. Judged' = Judged BY JudgedKept
<1>2. CASE UNCHANGED runs
  <2>1. Life' = Life BY <1>2 DEF Life
  <2> QED BY <1>1, <2>1
<1>3. ASSUME NEW h \in Handlers, NEW r \in RunIds, Inserts(h, r) PROVE Lifecycle!Next
  <2> DEFINE row == QueuedRow(ops[h].key, ops[h].prior)
  <2>1. row.status = "queued" BY DEF QueuedRow, NoRow
  <2> HIDE DEF row
  <2>2. runs[r].status = "absent" /\ runs'[r].status = "queued"
        /\ \A s \in RunIds \ {r} : runs'[s] = runs[s]
    BY <1>0, <1>3, <2>1, NoRowType DEF Inserts, Existing, Stored, row
  <2>3. Life[r] = "absent" /\ Life' = [Life EXCEPT ![r] = "waiting"]
    BY <2>2, OneLifeStep, LifeNames
  <2>4. Lifecycle!Open(r) BY <1>1, <2>3 DEF Lifecycle!Open, Lifecycle!Goes, Life, Judged
  <2> QED BY <2>4 DEF Lifecycle!Next
<1>4. ASSUME NEW h \in Handlers, NEW r \in RunIds, NEW new, Updates(h, r, new)
      PROVE  [Lifecycle!Next]_<<Life, Judged>>
  <2>1. /\ runs'[r] = new /\ \A s \in RunIds \ {r} : runs'[s] = runs[s]
        /\ r \in ops[h].todo /\ new \in Pending(ops[h], r) /\ Saves(runs[r], new)
    BY <1>0, <1>4 DEF Updates
  <2>2. ops[h].snap[r] = runs[r] /\ Stored(runs[r]) BY <2>1, SavedOver
  <2>3. Fits(ops[h]) BY DEF HeldInv
  <2>4. \/ /\ runs[r].status \in Waiting
           /\ new.status \in {"running", "cancelled", "queued", "paused"}
        \/ /\ runs[r].status = "running"
           /\ new.status \in {"cancel_requested", "needs_review", "failed"}
    BY <2>1, <2>2, <2>3, PendingStatus
  <2>5. Life[r] = LifeOf(runs[r].status) /\ Life' = [Life EXCEPT ![r] = LifeOf(new.status)]
    BY <2>1, OneLifeStep
  <2>6. CASE Life[r] = "waiting" /\ LifeOf(new.status) \in {"active", "done"}
    <3>1. Lifecycle!Begin(r) \/ Lifecycle!Drop(r)
      BY <1>1, <2>5, <2>6 DEF Lifecycle!Begin, Lifecycle!Drop, Lifecycle!Goes, Life, Judged
    <3> QED BY <3>1 DEF Lifecycle!Next
  <2>7. CASE Life[r] = "waiting" /\ LifeOf(new.status) = "waiting"
    <3>1. Life' = Life BY <2>5, <2>7 DEF Life
    <3> QED BY <1>1, <3>1
  <2>8. CASE Life[r] = "active" /\ LifeOf(new.status) \in {"stopping", "review", "done"}
    <3>1. Lifecycle!Stop(r) \/ Lifecycle!Answer(r) \/ Lifecycle!Fail(r)
      BY <1>1, <2>5, <2>8
         DEF Lifecycle!Stop, Lifecycle!Answer, Lifecycle!Fail, Lifecycle!Goes, Life, Judged
    <3> QED BY <3>1 DEF Lifecycle!Next
  <2> QED BY <2>4, <2>5, <2>6, <2>7, <2>8, LifeNames DEF Waiting
<1>5. RunStep BY NextIsRunStep
<1> QED BY <1>2, <1>3, <1>4, <1>5 DEF RunStep, Judges

LEMMA InitLives == Init => Lifecycle!Init
<1> SUFFICES ASSUME Init PROVE Lifecycle!Init OBVIOUS
<1>1. \A r \in RunIds : runs[r].status = "absent" /\ ResultsOf(r) = {}
  BY RunIdsAssumption DEF Init, NothingRead, NoRow, NotImported, ResultsOf
<1> QED BY <1>1, LifeNames DEF Lifecycle!Init

\* Whatever handlers, crashes and a user's own results do, each run lives the life of
\* RunLifecycle: it is answered at most once, judged only in review and at most once, and
\* what is done stays done.
THEOREM RunsLive == Spec => ImplementsRunLifecycle
<1>1. Spec => [](IInv /\ SnapshotsPinned /\ HeldInv /\ ReviewInv)
  BY HeldInvariance, ReviewInvariance, PTL
<1>2. IInv /\ SnapshotsPinned /\ HeldInv /\ ReviewInv /\ [Next]_vars
        => [Lifecycle!Next]_<<[r \in RunIds |-> LifeOf(runs[r].status)],
                              {r \in RunIds : \E id \in ResultsOf(r) :
                                  results[id].origin = "provider" /\ results[id].gate # "none"}>>
  BY StepLives DEF Life, Judged
<1> QED BY <1>1, <1>2, InitLives, PTL DEF Spec, ImplementsRunLifecycle, Lifecycle!Spec

-----------------------------------------------------------------------------
(* What holds because a handler yields only at Yielding: whoever is in the *)
(* middle of something else works with the present allowlist and runs.     *)

LEMMA SyncIsSpec == SyncSpec => Spec
<1>1. [SyncNext]_vars => [Next]_vars BY DEF SyncNext, Next
<1> QED BY <1>1, PTL DEF SyncSpec, Spec

Governing == {"listing", "pausing", "revoking", "resuming", "restarting"}

\* The runs that a loop over the runs is to stop.
SweptBy(phase) ==
    {"queued", "running"} \cup (IF phase = "revoking" THEN {"paused"} ELSE {})

\* What a handler has read, and lists, is what there is.
UpToDate(op, list, rows) ==
    /\ op.pc \in Creating => op.seen = list /\ Permits(list, op.key.connector)
    /\ op.pc = "starting" => \A r \in op.todo : Permits(list, op.snap[r].key.connector)
    /\ op.pc \in Governing => op.plan = list
    /\ op.pc = "restarting" => Permits(list, op.snap[op.run].key.connector)
    /\ op.pc \in {"pausing", "revoking"} =>
           /\ \A r \in op.todo : op.snap[r] = rows[r]
           /\ \A r \in RunIds : rows[r].status \in SweptBy(op.pc) => r \in op.todo

SyncInv ==
    /\ \A h \in Handlers : UpToDate(ops[h], allowlist, runs)
    /\ \A h \in Handlers : At(h, "creating") => WithinRateBudget(allowlist)
    /\ \A h \in Handlers : ops[h].pc \notin Yielding => OthersYield(h)

\* The phases that claim nothing about the allowlist or the runs.
LEMMA NothingClaimed ==
    ASSUME NEW op, op.pc \notin Creating \cup Governing \cup {"starting"}, NEW list, NEW rows
    PROVE  UpToDate(op, list, rows) /\ op.pc # "creating"
BY DEF UpToDate, Creating, Governing

LEMMA YieldingClaims == Yielding \cap (Creating \cup Governing \cup {"starting"}) = {}
BY DEF Yielding, Creating, Governing

LEMMA SyncBecomes ==
    ASSUME IInv, NEW h \in Handlers, OthersYield(h), NEW op, Becomes(h, op),
           UpToDate(op, allowlist', runs'), op.pc = "creating" => WithinRateBudget(allowlist)'
    PROVE  SyncInv'
<1>1. ops'[h] = op /\ \A g \in Handlers \ {h} : ops'[g] = ops[g] /\ ops[g].pc \in Yielding
  BY DEF IInv, HandlersInv, Becomes, OthersYield
<1>2. \A g \in Handlers \ {h} : UpToDate(ops'[g], allowlist', runs') /\ ops'[g].pc # "creating"
  BY <1>1, NothingClaimed, YieldingClaims
<1>3. ASSUME NEW g \in Handlers, ops'[g].pc \notin Yielding PROVE OthersYield(g)'
  BY <1>1, <1>3 DEF OthersYield
<1> QED BY <1>1, <1>2, <1>3 DEF SyncInv, At

\* The handler moves to a phase that claims nothing.
LEMMA SyncQuiet ==
    ASSUME IInv, NEW h \in Handlers, OthersYield(h), NEW op, Becomes(h, op),
           op.pc \notin Creating \cup Governing \cup {"starting"}
    PROVE  SyncInv'
BY NothingClaimed, SyncBecomes

LEMMA SyncReplies ==
    ASSUME IInv, NEW h \in Handlers, OthersYield(h), Replies(h)
    PROVE  SyncInv'
<1>1. IdleOp.pc \notin Creating \cup Governing \cup {"starting"}
  BY DEF IdleOp, Creating, Governing
<1> QED BY <1>1, SyncQuiet DEF Replies

LEMMA RequestSync ==
    ASSUME IInv, SyncInv, NEW h \in Handlers, OthersYield(h), Request(h)
    PROVE  SyncInv'
<1>0. UNCHANGED allowlist /\ UNCHANGED runs
  BY DEF Request, StartResearchRun, RetryResearchRun, CancelResearchRun,
         PauseResearchAllowlist, RevokeResearchAllowlist, UpdateResearchAllowlist, Governs,
         ListResearchRuns, GetResearchRunStatus, Polls
<1>1. ASSUME NEW op, Becomes(h, op), op.pc = "finding", op.seen = allowlist,
             Permits(allowlist, op.key.connector)
      PROVE  SyncInv'
  <2>1. UpToDate(op, allowlist', runs') BY <1>0, <1>1 DEF UpToDate, Governing
  <2> QED BY <1>1, <2>1, SyncBecomes
<1>2. ASSUME NEW o \in Objectives, NEW c \in Connectors, NEW x \in Contexts,
             StartResearchRun(h, o, c, x)
      PROVE  SyncInv'
  <2> DEFINE key == [objective |-> o, connector |-> c, context |-> x,
                     allowlistVersion |-> allowlist.version, attempt |-> 1]
             op == [IdleOp EXCEPT !.pc = "finding", !.seen = allowlist, !.key = key]
  <2>1. Becomes(h, op) /\ Permits(allowlist, c) BY <1>2 DEF StartResearchRun
  <2>2. key.connector = c OBVIOUS
  <2> HIDE DEF key
  <2>3. op.pc = "finding" /\ op.seen = allowlist /\ op.key = key BY DEF IdleOp
  <2> HIDE DEF op
  <2> QED BY <1>1, <2>1, <2>2, <2>3
<1>3. ASSUME NEW r \in RunIds, NEW x \in Contexts, RetryResearchRun(h, r, x) PROVE SyncInv'
  <2> DEFINE key == [runs[r].key EXCEPT !.context = x, !.attempt = @ + 1]
             op == [IdleOp EXCEPT !.pc = "finding", !.seen = allowlist, !.prior = r, !.key = key]
  <2>1. Becomes(h, op) /\ Permits(allowlist, runs[r].key.connector)
    BY <1>3 DEF RetryResearchRun
  <2>2. runs[r].key \in Keys
    BY <1>3, NoRowType DEF RetryResearchRun, Retryable, Stored, IInv, RowsInv
  <2>3. key.connector = runs[r].key.connector BY <2>2 DEF Keys
  <2> HIDE DEF key
  <2>4. op.pc = "finding" /\ op.seen = allowlist /\ op.key = key BY DEF IdleOp
  <2> HIDE DEF op
  <2> QED BY <1>1, <2>1, <2>3, <2>4
<1>4. ASSUME NEW plan, Governs(h, plan) PROVE SyncInv'
  <2> DEFINE phase == IF plan = allowlist THEN "listing" ELSE "saving"
             op == [IdleOp EXCEPT !.seen = allowlist, !.plan = plan, !.pc = phase]
  <2>1. Becomes(h, op) BY <1>4 DEF Governs
  <2>2. op.pc = phase /\ op.plan = plan BY DEF IdleOp
  <2> HIDE DEF op
  <2>3. UpToDate(op, allowlist', runs') /\ op.pc # "creating"
    BY <1>0, <2>2 DEF UpToDate, Creating, Governing
  <2> QED BY <2>1, <2>3, SyncBecomes
<1>5. ASSUME NEW r \in RunIds, CancelResearchRun(h, r) PROVE SyncInv'
  <2>1. Holding(IdleOp, "cancelling", r, runs[r]).pc = "cancelling" BY HoldingReads
  <2> QED BY <1>5, <2>1, SyncQuiet DEF CancelResearchRun, Creating, Governing
<1>6. ASSUME NEW rs \in SUBSET RunIds, Polls(h, rs) PROVE SyncInv'
  <2> DEFINE snap == Snapshot(rs)
             op == [IdleOp EXCEPT !.pc = "polling", !.todo = rs, !.snap = snap]
  <2>1. Becomes(h, op) BY <1>6 DEF Polls
  <2>2. op.pc = "polling" BY DEF IdleOp
  <2> HIDE DEF op
  <2> QED BY <2>1, <2>2, SyncQuiet DEF Creating, Governing
<1> QED BY <1>2, <1>3, <1>4, <1>5, <1>6
        DEF Request, PauseResearchAllowlist, RevokeResearchAllowlist, UpdateResearchAllowlist,
            ListResearchRuns, GetResearchRunStatus, Running

LEMMA StartsIfQueuedSync ==
    ASSUME IInv, NEW h \in Handlers, OthersYield(h), NEW r \in RunIds, StartsIfQueued(h, r),
           UNCHANGED allowlist, Permits(allowlist, runs[r].key.connector)
    PROVE  SyncInv'
<1>1. CASE Becomes(h, Holding(IdleOp, "starting", r, runs[r]))
  <2> DEFINE op == Holding(IdleOp, "starting", r, runs[r])
  <2>1. op.todo = {r} /\ op.snap[r] = runs[r] /\ op.pc = "starting" BY HoldingReads
  <2> HIDE DEF op
  <2>2. UpToDate(op, allowlist', runs') /\ op.pc # "creating"
    BY <2>1 DEF UpToDate, Creating, Governing
  <2> QED BY <1>1, <2>2, SyncBecomes DEF op
<1> QED BY <1>1, SyncReplies DEF StartsIfQueued

LEMMA StartingSync ==
    ASSUME IInv, SyncInv, NEW h \in Handlers, OthersYield(h),
           \/ FindExistingRun(h) \/ CheckRateBudget(h)
           \/ \E r \in RunIds : CreateRun(h, r)
    PROVE  SyncInv'
<1>0. /\ ops[h] \in Ops /\ UpToDate(ops[h], allowlist, runs)
      /\ UNCHANGED allowlist /\ ops[h].pc \in Creating
  BY DEF IInv, HandlersInv, SyncInv, FindExistingRun, CheckRateBudget, CreateRun, At, Creating
<1>1. ops[h].seen = allowlist /\ Permits(allowlist, ops[h].key.connector)
  BY <1>0 DEF UpToDate
<1>2. ASSUME NEW phase \in {"budgeting", "creating"}, Becomes(h, [ops[h] EXCEPT !.pc = phase]),
             UNCHANGED runs, phase = "creating" => WithinRateBudget(allowlist)
      PROVE  SyncInv'
  <2> DEFINE op == [ops[h] EXCEPT !.pc = phase]
  <2>1. op.pc = phase /\ op.seen = ops[h].seen /\ op.key = ops[h].key BY <1>0 DEF Ops
  <2> HIDE DEF op
  <2>2. UpToDate(op, allowlist', runs') BY <1>0, <1>1, <1>2, <2>1 DEF UpToDate, Governing
  <2>3. op.pc = "creating" => WithinRateBudget(allowlist)'
    BY <1>0, <1>2, <2>1 DEF WithinRateBudget, Occupied, Existing
  <2> QED BY <1>2, <2>2, <2>3, SyncBecomes DEF op
<1>3. ASSUME NEW r \in Holders(runs, ops[h].key)
      PROVE  r \in RunIds /\ Permits(allowlist, runs[r].key.connector)
  BY <1>1, <1>3 DEF Holders
<1>4. CASE FindExistingRun(h)
  BY <1>0, <1>2, <1>3, <1>4, StartsIfQueuedSync DEF FindExistingRun
<1>5. CASE CheckRateBudget(h)
  BY <1>1, <1>2, <1>5, SyncReplies DEF CheckRateBudget
<1>6. ASSUME NEW r \in RunIds, CreateRun(h, r) PROVE SyncInv'
  <2> DEFINE row == QueuedRow(ops[h].key, ops[h].prior)
  <2>1. row.key = ops[h].key BY DEF QueuedRow, NoRow
  <2> HIDE DEF row
  <2>2. CASE Becomes(h, Holding(IdleOp, "starting", r, row))
    <3> DEFINE op == Holding(IdleOp, "starting", r, row)
    <3>1. op.todo = {r} /\ op.snap[r] = row /\ op.pc = "starting" BY HoldingReads
    <3> HIDE DEF op
    <3>2. UpToDate(op, allowlist', runs') /\ op.pc # "creating"
      BY <1>0, <1>1, <2>1, <3>1 DEF UpToDate, Creating, Governing
    <3> QED BY <2>2, <3>2, SyncBecomes DEF op
  <2>3. ASSUME NEW s \in Holders(runs, ops[h].key), StartsIfQueued(h, s) PROVE SyncInv'
    BY <1>0, <1>3, <2>3, StartsIfQueuedSync
  <2> QED BY <1>6, <2>2, <2>3, SyncReplies DEF CreateRun, row
<1> QED BY <1>4, <1>5, <1>6

\* A loop over the runs that goes on saves what it holds, which is what there is.
LEMMA LoopSync ==
    ASSUME IInv, SyncInv, NEW h \in Handlers, OthersYield(h),
           NEW r \in ops[h].todo, NEW new, new.status \notin SweptBy(ops[h].pc),
           ops[h].pc \in {"pausing", "revoking"}, UNCHANGED allowlist,
           runs' = [runs EXCEPT ![r] = new], Becomes(h, Without(ops[h], r))
    PROVE  SyncInv'
<1>1. ops[h] \in Ops /\ r \in RunIds /\ runs \in [RunIds -> Rows]
  BY DEF IInv, HandlersInv, RowsInv, Ops
<1> DEFINE op == Without(ops[h], r)
<1>2. /\ op.todo = ops[h].todo \ {r} /\ \A s \in ops[h].todo \ {r} : op.snap[s] = ops[h].snap[s]
      /\ op.pc = ops[h].pc /\ op.plan = ops[h].plan
  BY <1>1, WithoutKeeps
<1> HIDE DEF op
<1>3. UpToDate(ops[h], allowlist, runs) BY DEF SyncInv
<1>4. /\ ops[h].plan = allowlist
      /\ \A s \in ops[h].todo : ops[h].snap[s] = runs[s]
      /\ \A s \in RunIds : runs[s].status \in SweptBy(ops[h].pc) => s \in ops[h].todo
  BY <1>3 DEF UpToDate, Governing
<1>5. runs'[r] = new /\ \A s \in RunIds \ {r} : runs'[s] = runs[s] BY <1>1
<1>6. \A s \in op.todo : s \in RunIds \ {r} /\ op.snap[s] = runs'[s]
  BY <1>1, <1>2, <1>4, <1>5 DEF Ops
<1>7. \A s \in RunIds : runs'[s].status \in SweptBy(op.pc) => s \in op.todo
  BY <1>2, <1>4, <1>5
<1>8. UpToDate(op, allowlist', runs') /\ op.pc # "creating"
  BY <1>2, <1>4, <1>6, <1>7 DEF UpToDate, Creating
<1> QED BY <1>8, SyncBecomes DEF op

LEMMA GoverningSync ==
    ASSUME IInv, SyncInv, NEW h \in Handlers, OthersYield(h), SaveAllowlist(h) \/ ListRuns(h)
    PROVE  SyncInv'
<1>0. ops[h] \in Ops /\ Equipped(ops[h]) /\ UpToDate(ops[h], allowlist, runs) /\ UNCHANGED runs
  BY DEF IInv, HandlersInv, SyncInv, SaveAllowlist, ListRuns
<1>1. CASE SaveAllowlist(h)
  <2>1. CASE allowlist' = ops[h].plan /\ Becomes(h, [ops[h] EXCEPT !.pc = "listing"])
    <3> DEFINE op == [ops[h] EXCEPT !.pc = "listing"]
    <3>1. op.pc = "listing" /\ op.plan = ops[h].plan BY <1>0 DEF Ops
    <3> HIDE DEF op
    <3>2. UpToDate(op, allowlist', runs') /\ op.pc # "creating"
      BY <2>1, <3>1 DEF UpToDate, Creating
    <3> QED BY <2>1, <3>2, SyncBecomes DEF op
  <2> QED BY <1>1, <2>1, SyncReplies DEF SaveAllowlist
<1>2. CASE ListRuns(h)
  <2> DEFINE status == ops[h].plan.status
             phase == LoopOf(status)
             todo == {r \in RunIds : runs[r].status \in Affected(status)}
             snap == Snapshot(todo)
             op == [ops[h] EXCEPT !.pc = phase, !.todo = todo, !.snap = snap]
  <2>1. Becomes(h, op) /\ UNCHANGED allowlist /\ ops[h].plan = allowlist
    BY <1>0, <1>2 DEF ListRuns, At, UpToDate, Governing
  <2>2. \A r \in todo : snap[r] = runs[r] BY DEF Snapshot
  <2>3. status \in {"active", "paused", "revoked"}
    BY <1>0, <1>2 DEF ListRuns, At, Equipped, Ops, Allowlists
  <2>4. /\ phase \in {"pausing", "revoking", "resuming"}
        /\ phase \in {"pausing", "revoking"} => Affected(status) = SweptBy(phase)
    BY <2>3 DEF LoopOf, Affected, SweptBy
  <2>5. \A r \in RunIds : runs[r].status \in Affected(status) => r \in todo OBVIOUS
  <2> HIDE DEF phase, todo, snap, status
  <2>6. op.pc = phase /\ op.todo = todo /\ op.snap = snap /\ op.plan = ops[h].plan
    BY <1>0 DEF Ops
  <2> HIDE DEF op
  <2>7. UpToDate(op, allowlist', runs') /\ op.pc # "creating"
    BY <1>0, <2>1, <2>2, <2>4, <2>5, <2>6 DEF UpToDate, Creating
  <2> QED BY <2>1, <2>7, SyncBecomes DEF op
<1> QED BY <1>1, <1>2

LEMMA RunsSync ==
    ASSUME IInv, SyncInv, NEW h \in Handlers, OthersYield(h), NEW r \in RunIds,
           \/ RecordProviderStart(h, r) \/ PauseRun(h, r) \/ StopRun(h, r) \/ ResumeRun(h, r)
    PROVE  SyncInv'
<1>0. /\ ops[h] \in Ops /\ Equipped(ops[h]) /\ UpToDate(ops[h], allowlist, runs)
      /\ r \in ops[h].todo /\ Stored(ops[h].snap[r]) /\ UNCHANGED allowlist
  BY DEF IInv, HandlersInv, SyncInv, RecordProviderStart, PauseRun, StopRun, ResumeRun, Equipped
<1>1. ASSUME NEW op, Becomes(h, op), ops[h].plan = allowlist, op.plan = ops[h].plan,
             op.pc = "resuming"
      PROVE  SyncInv'
  <2>1. UpToDate(op, allowlist', runs') BY <1>0, <1>1 DEF UpToDate, Creating
  <2> QED BY <1>1, <2>1, SyncBecomes
<1> DEFINE done == Without(ops[h], r)
<1>2. done \in Ops /\ done.pc = ops[h].pc /\ done.plan = ops[h].plan
  BY <1>0, WithoutKeeps, WithoutEquipped
<1>3. CASE RecordProviderStart(h, r)
  <2> DEFINE op == [done EXCEPT !.pc = "resuming", !.run = NoRun]
  <2>1. Replies(h) \/ (At(h, "restarting") /\ Becomes(h, op))
    BY <1>3 DEF RecordProviderStart, SavesOrFails, At, Replies
  <2>2. op.pc = "resuming" /\ op.plan = done.plan BY <1>2 DEF Ops
  <2> HIDE DEF op, done
  <2>3. At(h, "restarting") => ops[h].plan = allowlist BY <1>0 DEF At, UpToDate, Governing
  <2> QED BY <1>1, <1>2, <2>1, <2>2, <2>3, SyncReplies
<1>4. ASSUME NEW new, new.status \notin SweptBy(ops[h].pc), ops[h].pc \in {"pausing", "revoking"},
             SavesOrFails(h, r, new, done)
      PROVE  SyncInv'
  BY <1>0, <1>4, LoopSync, SyncReplies DEF SavesOrFails
<1>5. CancelledRow(ops[h].snap[r]).status \in {"cancelled", "cancel_requested"}
  BY <1>0, CancelledRowStatus
<1>6. CASE PauseRun(h, r)
  <2>1. Move(ops[h].snap[r], "paused").status = "paused" BY <1>0, StatusNames, MoveContinues
  <2> HIDE DEF done
  <2> QED BY <1>4, <1>6, <2>1 DEF PauseRun, At, SweptBy, done
<1>7. CASE StopRun(h, r)
  <2>1. SavesOrFails(h, r, CancelledRow(ops[h].snap[r]), done) BY <1>7 DEF StopRun
  <2>2. CASE ops[h].pc \in {"pausing", "revoking"}
    BY <1>4, <1>5, <2>1, <2>2 DEF SweptBy
  <2>3. CASE ops[h].pc \notin {"pausing", "revoking"}
    <3> HIDE DEF done
    <3>1. Replies(h) \/ Becomes(h, done) BY <2>1 DEF SavesOrFails
    <3>2. ops[h].pc \in {"cancelling", "resuming"} BY <1>7, <2>3 DEF StopRun, At
    <3>3. CASE ops[h].pc = "cancelling"
      BY <1>2, <3>1, <3>3, SyncReplies, SyncQuiet DEF Creating, Governing
    <3>4. CASE ops[h].pc = "resuming"
      <4>1. ops[h].plan = allowlist BY <1>0, <3>4 DEF UpToDate, Governing
      <4> QED BY <1>1, <1>2, <3>1, <3>4, <4>1, SyncReplies
    <3> QED BY <3>2, <3>3, <3>4
  <2> QED BY <2>2, <2>3
<1>8. CASE ResumeRun(h, r)
  <2> DEFINE queued == Move(ops[h].snap[r], "queued")
             snap == [ops[h].snap EXCEPT ![r] = queued]
             op == [ops[h] EXCEPT !.pc = "restarting", !.run = r, !.snap = snap]
  <2>1. /\ At(h, "resuming") /\ SavesOrFails(h, r, queued, op)
        /\ Permits(ops[h].plan, ops[h].snap[r].key.connector)
    BY <1>0, <1>8 DEF ResumeRun, Ops
  <2>2. queued.key = ops[h].snap[r].key BY <1>0, StatusNames, MoveContinues DEF Continues
  <2>3. snap[r] = queued BY <1>0 DEF Ops
  <2>4. ops[h].plan = allowlist BY <1>0, <2>1 DEF At, UpToDate, Governing
  <2> HIDE DEF queued, snap
  <2>5. op.pc = "restarting" /\ op.snap = snap /\ op.run = r /\ op.plan = ops[h].plan
    BY <1>0 DEF Ops
  <2> HIDE DEF op
  <2>6. UpToDate(op, allowlist', runs') /\ op.pc # "creating"
    BY <1>0, <2>1, <2>2, <2>3, <2>4, <2>5 DEF UpToDate, Creating
  <2> QED BY <2>1, <2>6, SyncBecomes, SyncReplies DEF SavesOrFails
<1> QED BY <1>3, <1>6, <1>7, <1>8

LEMMA ContinueSync ==
    ASSUME IInv, SyncInv, NEW h \in Handlers, OthersYield(h), Continue(h)
    PROVE  SyncInv'
<1>0. ops[h] \in Ops /\ Equipped(ops[h]) BY DEF IInv, HandlersInv
<1> DEFINE Quiet == Phases \ (Creating \cup Governing \cup {"starting"})
<1>1. ASSUME NEW phase \in Quiet,
             \/ Becomes(h, [ops[h] EXCEPT !.pc = phase])
             \/ \E i : Becomes(h, [ops[h] EXCEPT !.pc = phase, !.result = i])
      PROVE  SyncInv'
  <2>1. PICK op : /\ Becomes(h, op)
                  /\ \/ op = [ops[h] EXCEPT !.pc = phase]
                     \/ \E i : op = [ops[h] EXCEPT !.pc = phase, !.result = i]
    BY <1>1
  <2>2. op.pc = phase BY <1>0, <2>1 DEF Ops
  <2> QED BY <2>1, <2>2, SyncQuiet
<1>2. ASSUME Becomes(h, PollsOn(ops[h])) PROVE SyncInv'
  <2>1. PollsOn(ops[h]).pc = "polling" BY <1>0 DEF PollsOn, Ops
  <2> QED BY <1>2, <2>1, SyncQuiet DEF Creating, Governing
<1>3. ASSUME NEW r \in RunIds, PollFails(h, r) \/ \E c \in Contents : PollSucceeds(h, r, c)
      PROVE  SyncInv'
  <2> DEFINE done == Without(ops[h], r)
  <2>1. done \in Ops /\ done.pc = "polling"
    BY <1>0, <1>3, WithoutEquipped DEF PollFails, PollSucceeds, At
  <2>2. CASE Becomes(h, done) BY <2>1, <2>2, SyncQuiet DEF Creating, Governing
  <2>3. ASSUME NEW i, Becomes(h, [done EXCEPT !.pc = "importing", !.run = r, !.result = i])
        PROVE  SyncInv'
    <3> DEFINE op == [done EXCEPT !.pc = "importing", !.run = r, !.result = i]
    <3> HIDE DEF done
    <3>1. op.pc = "importing" BY <2>1 DEF Ops
    <3> HIDE DEF op
    <3> QED BY <2>3, <3>1, SyncQuiet DEF Creating, Governing, op
  <2> HIDE DEF done
  <2> QED BY <1>3, <2>2, <2>3, SyncReplies DEF PollFails, PollSucceeds, SavesOrSkips, SavesOrFails, done
<1>4. {"ingesting", "claiming", "synthesizing", "remembering", "settling"} \subseteq Quiet
  BY DEF Phases, Creating, Governing
<1> HIDE DEF Quiet
<1>5. CASE FindExistingResult(h) BY <1>1, <1>2, <1>4, <1>5 DEF FindExistingResult
<1>6. CASE ImportProviderResult(h)
  BY <1>1, <1>2, <1>4, <1>6, SyncReplies DEF ImportProviderResult
<1>7. CASE \/ ClaimEvidenceEffect(h)
           \/ \E g \in ResultGates \ {"none"} : SynthesizeEvidence(h, g)
           \/ RecordResearchMemory(h)
  BY <1>1, <1>4, <1>7 DEF ClaimEvidenceEffect, SynthesizeEvidence, RecordResearchMemory
<1>8. CASE SettleEvidence(h) \/ SourceQualityInsufficient(h) \/ EvidenceEffectFails(h) \/ Reply(h)
  BY <1>2, <1>8, SyncReplies
     DEF SettleEvidence, SourceQualityInsufficient, EvidenceEffectFails, Reply
<1> QED BY <1>3, <1>5, <1>6, <1>7, <1>8, StartingSync, GoverningSync, RunsSync DEF Continue

LEMMA SyncStep ==
    ASSUME IInv, SyncInv, [SyncNext]_vars
    PROVE  SyncInv'
<1>1. CASE (\A h \in Handlers : ops[h].pc \in Yielding) /\ Outside
  <2>1. UNCHANGED ops BY <1>1 DEF Outside, CreateResearchAllowlist, ImportResearchResult
  <2>2. \A h \in Handlers : UpToDate(ops[h], allowlist', runs') /\ ops[h].pc # "creating"
    BY <1>1, NothingClaimed, YieldingClaims
  <2> QED BY <1>1, <2>1, <2>2 DEF SyncInv, At
<1>2. CASE \E h \in Handlers : OthersYield(h) /\ (Request(h) \/ Continue(h))
  BY <1>2, RequestSync, ContinueSync
<1>3. CASE Crash
  <2>1. \A h \in Handlers : ops'[h].pc = "idle" BY <1>3 DEF Crash, IdleOp
  <2>2. "idle" \notin Creating \cup Governing \cup {"starting"} BY DEF Creating, Governing
  <2>3. \A h \in Handlers : UpToDate(ops'[h], allowlist', runs')
    BY <2>1, <2>2, NothingClaimed
  <2> QED BY <2>1, <2>3 DEF SyncInv, At, Yielding
<1>4. CASE UNCHANGED vars
  BY <1>4 DEF vars, SyncInv, OthersYield, At, WithinRateBudget, Occupied, Existing
<1> QED BY <1>1, <1>2, <1>3, <1>4 DEF SyncNext

LEMMA SyncInit == Init => SyncInv
BY NothingClaimed DEF Init, IdleOp, SyncInv, At, Yielding, Creating, Governing

\* The runs that exist are finitely many: a step adds at most one.
LEMMA ExistingGrows ==
    ASSUME IInv, [Next]_vars
    PROVE  /\ \A r \in RunIds : runs[r].version = 0 /\ runs'[r].version # 0 =>
                  \E h \in Handlers : Inserts(h, r)
           /\ \E r : Existing' \subseteq Existing \cup {r}
<1>1. ASSUME NEW r \in RunIds, runs[r].version = 0, runs'[r].version # 0
      PROVE  \E h \in Handlers : Inserts(h, r)
  <2>1. runs'[r] # runs[r] BY <1>1
  <2>2. \E h \in Handlers : Inserts(h, r) \/ runs[r].version # 0
    <3>1. CASE \E h \in Handlers : Inserts(h, r) BY <3>1
    <3>2. CASE ~ \E h \in Handlers : Inserts(h, r) BY <1>1, <2>1, <3>2, ChangeIsInsertOrLater
    <3> QED BY <3>1, <3>2
  <2> QED BY <1>1, <2>2
<1>2. ASSUME NEW h \in Handlers, NEW r \in RunIds, Inserts(h, r)
      PROVE  Existing' \subseteq Existing \cup {r}
  BY <1>2 DEF IInv, RowsInv, Inserts, Existing
<1> QED BY <1>1, <1>2 DEF Existing

LEMMA ExistingFinite == Spec => []IsFiniteSet(Existing)
<1>1. Init => IsFiniteSet(Existing)
  <2>1. Init => Existing = {} BY DEF Init, NothingRead, NoRow, Existing
  <2> QED BY <2>1, FS_EmptySet
<1>2. IInv /\ IsFiniteSet(Existing) /\ [Next]_vars => IsFiniteSet(Existing)'
  <2> SUFFICES ASSUME IInv, IsFiniteSet(Existing), [Next]_vars PROVE IsFiniteSet(Existing')
    OBVIOUS
  <2>1. PICK r : Existing' \subseteq Existing \cup {r} BY ExistingGrows
  <2>2. IsFiniteSet(Existing \cup {r}) BY FS_AddElement
  <2> QED BY <2>1, <2>2, FS_Subset
<1>3. Spec => []IInv BY InitInv, StepInv, PTL DEF Spec
<1> QED BY <1>1, <1>2, <1>3, PTL DEF Spec

\* Of a finite set that grows by one element at most.
LEMMA GrowsByOne ==
    ASSUME NEW S, IsFiniteSet(S), NEW r, NEW T, T \subseteq S \cup {r},
           NEW n \in Nat, Cardinality(S) < n
    PROVE  Cardinality(T) <= n
<1>1. Cardinality(S) \in Nat BY FS_CardinalityType
<1>2. /\ IsFiniteSet(S \cup {r})
      /\ Cardinality(S \cup {r}) = Cardinality(S) \/ Cardinality(S \cup {r}) = Cardinality(S) + 1
  <2>1. CASE r \in S
    <3>1. S \cup {r} = S BY <2>1
    <3> QED BY <3>1
  <2>2. CASE r \notin S BY <2>2, FS_AddElement
  <2> QED BY <2>1, <2>2
<1>3. Cardinality(T) <= Cardinality(S \cup {r}) /\ IsFiniteSet(T) BY <1>2, FS_Subset
<1>4. Cardinality(T) \in Nat BY <1>3, FS_CardinalityType
<1> QED BY <1>1, <1>2, <1>3, <1>4

LEMMA SyncInvariance ==
    SyncSpec => [](IInv /\ SnapshotsPinned /\ HeldInv /\ StoredRowsAreValid
                   /\ IsFiniteSet(Existing) /\ SyncInv)
<1>1. SyncSpec => [](IInv /\ SnapshotsPinned /\ HeldInv /\ StoredRowsAreValid
                     /\ IsFiniteSet(Existing))
  BY SyncIsSpec, HeldInvariance, RowsStayValid, ExistingFinite, PTL
<1>2. SyncSpec => []SyncInv BY <1>1, SyncInit, SyncStep, PTL DEF SyncSpec
<1> QED BY <1>1, <1>2, PTL

\* The insert of a run, by a handler whose check of the allowlist still holds.
LEMMA InsertAuthorized ==
    ASSUME IInv, SyncInv, IsFiniteSet(Existing), NEW r \in RunIds,
           NEW h \in Handlers, Inserts(h, r)
    PROVE  /\ runs'[r].status = "queued" /\ Authorized(r)
           /\ Cardinality(Occupied') <= allowlist.maxRuns
           /\ Cardinality(Existing') <= MaxRunsPerSession
<1>1. UpToDate(ops[h], allowlist, runs) /\ WithinRateBudget(allowlist)
  BY DEF SyncInv, Inserts
<1>2. Permits(allowlist, ops[h].key.connector)
  BY <1>1 DEF Inserts, At, UpToDate, Creating
<1> DEFINE row == QueuedRow(ops[h].key, ops[h].prior)
<1>3. row.status = "queued" /\ row.key = ops[h].key BY DEF QueuedRow, NoRow
<1> HIDE DEF row
<1>4. runs'[r] = row /\ \A s \in RunIds \ {r} : runs'[s] = runs[s]
  BY DEF IInv, RowsInv, Inserts, row
<1>5. Existing' \subseteq Existing \cup {r} /\ Occupied' \subseteq Occupied \cup {r}
  BY <1>4 DEF Existing, Occupied
<1>6. IsFiniteSet(Occupied)
  <2>1. Occupied \subseteq Existing BY DEF Occupied
  <2> QED BY <2>1, FS_Subset
<1>7. allowlist.maxRuns \in Nat /\ MaxRunsPerSession \in Nat
  BY BudgetAssumption DEF IInv, RestInv, Allowlists
<1>8. Cardinality(Occupied') <= allowlist.maxRuns
  BY <1>1, <1>5, <1>6, <1>7, GrowsByOne DEF WithinRateBudget
<1>9. Cardinality(Existing') <= MaxRunsPerSession
  BY <1>1, <1>5, <1>7, GrowsByOne DEF WithinRateBudget
<1> QED BY <1>2, <1>3, <1>4, <1>8, <1>9 DEF Authorized, Permits

\* A run is recorded as running by a handler whose allowlist still names its connector.
LEMMA StartAuthorized ==
    ASSUME IInv, SnapshotsPinned, HeldInv, SyncInv, [Next]_vars, NEW r \in RunIds,
           runs[r].status # "running", runs'[r].status = "running"
    PROVE  Authorized(r)
<1>0. runs \in [RunIds -> Rows] /\ \A s \in RunIds : runs[s] = NoRow \/ Stored(runs[s])
  BY DEF IInv, RowsInv
<1>1. ASSUME NEW h \in Handlers, NEW s \in RunIds, Inserts(h, s) PROVE FALSE
  <2> DEFINE row == QueuedRow(ops[h].key, ops[h].prior)
  <2>1. row.status = "queued" BY DEF QueuedRow, NoRow
  <2>2. runs' = [runs EXCEPT ![s] = row] BY <1>1 DEF Inserts
  <2> HIDE DEF row
  <2> QED BY <1>0, <2>1, <2>2
<1>2. ASSUME NEW h \in Handlers, NEW s \in RunIds, NEW new, Updates(h, s, new)
      PROVE  Authorized(r)
  <2>1. s = r /\ runs'[r] = new BY <1>0, <1>2 DEF Updates
  <2>2. ops[h] \in Ops /\ Equipped(ops[h]) /\ Fits(ops[h]) /\ UpToDate(ops[h], allowlist, runs)
    BY DEF IInv, HandlersInv, HeldInv, SyncInv
  <2>3. /\ r \in ops[h].todo /\ Stored(ops[h].snap[r]) /\ new \in Pending(ops[h], r)
        /\ new.key = ops[h].snap[r].key
        /\ At(h, "restarting") => r = ops[h].run
    BY <1>2, <2>1, <2>2 DEF Updates, Equipped, Continues
  <2>4. ops[h].pc \in {"starting", "restarting"} BY <2>1, <2>2, <2>3, PendingStatus
  <2>5. Permits(allowlist, ops[h].snap[r].key.connector)
    BY <2>2, <2>3, <2>4 DEF UpToDate, At
  <2> QED BY <2>1, <2>3, <2>5 DEF Authorized, Permits
<1>3. ASSUME NEW s \in RunIds, NEW g \in ResultGates \ {"none"}, Judges(s, g) PROVE FALSE
  <2>1. s = r /\ runs'[r] = WithEvidencePack(runs[r], g) BY <1>0, <1>3 DEF Judges
  <2>2. Stored(runs[r])
    <3>1. runs[r] # NoRow BY <2>1, NoRowType DEF WithEvidencePack
    <3> QED BY <1>0, <3>1
  <2>3. runs'[r] = runs[r] \/ runs'[r].status \in Verdicts \cup {"needs_review"}
    BY <2>1, <2>2, EvidencePackContinues
  <2> QED BY <2>3 DEF Verdicts
<1>4. RunStep BY NextIsRunStep
<1> QED BY <1>1, <1>2, <1>3, <1>4 DEF RunStep

\* Under the interleavings of the shipped build, no run is created or put to work against
\* an allowlist that has been paused, revoked or narrowed, and none beyond its budgets.
THEOREM StartsKeepTheAllowlist == SyncSpec => StartsAreAuthorized
<1>1. ASSUME IInv, SnapshotsPinned, HeldInv, IsFiniteSet(Existing), SyncInv, [Next]_vars,
             NEW r \in RunIds
      PROVE  /\ runs[r].status = "absent" /\ runs'[r].status # "absent" =>
                   /\ Authorized(r)
                   /\ Cardinality(Occupied') <= allowlist.maxRuns
                   /\ Cardinality(Existing') <= MaxRunsPerSession
             /\ runs[r].status # "running" /\ runs'[r].status = "running" => Authorized(r)
  <2>1. ASSUME runs[r].status = "absent", runs'[r].status # "absent"
        PROVE  \E h \in Handlers : Inserts(h, r)
    <3>1. runs[r].version = 0 BY <1>1, <2>1, NoRowType DEF IInv, RowsInv, Stored
    <3>2. runs'[r].version # 0
      <4>1. runs'[r] = NoRow \/ Stored(runs'[r]) BY <1>1, StepInv DEF IInv, RowsInv
      <4> QED BY <2>1, <4>1, NoRowType DEF Stored
    <3> QED BY <1>1, <3>1, <3>2, ExistingGrows
  <2> QED BY <1>1, <2>1, InsertAuthorized, StartAuthorized
<1>2. IInv /\ SnapshotsPinned /\ HeldInv /\ IsFiniteSet(Existing) /\ SyncInv /\ [Next]_vars =>
        [\A r \in RunIds :
          /\ runs[r].status = "absent" /\ runs'[r].status # "absent" =>
                /\ Authorized(r)
                /\ Cardinality(Occupied') <= allowlist.maxRuns
                /\ Cardinality(Existing') <= MaxRunsPerSession
          /\ runs[r].status # "running" /\ runs'[r].status = "running" => Authorized(r)]_vars
  BY <1>1
<1> QED BY <1>2, SyncInvariance, SyncIsSpec, PTL DEF Spec, StartsAreAuthorized

\* A loop that stops runs never meets a lost race: it ends with nothing left to stop.
LEMMA LoopEndsSwept ==
    ASSUME IInv, SnapshotsPinned, HeldInv, StoredRowsAreValid, SyncInv, [SyncNext]_vars,
           NEW h \in Handlers, ops[h].pc \in {"pausing", "revoking"},
           ops'[h] = IdleOp, crashes' = crashes
    PROVE  \A r \in RunIds : runs'[r].status \notin SweptBy(ops[h].pc)
<1>0. /\ ops[h] \in Ops /\ Equipped(ops[h]) /\ Fits(ops[h]) /\ UpToDate(ops[h], allowlist, runs)
      /\ ops \in [Handlers -> Ops] /\ runs \in [RunIds -> Rows] /\ crashes \in Nat
  BY BudgetAssumption DEF IInv, HandlersInv, RowsInv, RestInv, HeldInv, SyncInv
<1>1. ops[h] # IdleOp /\ ops[h].pc \notin Yielding BY DEF IdleOp, Yielding
<1>2. Continue(h)
  <2>1. ~ Outside BY <1>1 DEF Outside, CreateResearchAllowlist, ImportResearchResult
  <2>2. ~ Crash BY <1>0 DEF Crash
  <2>3. ~ UNCHANGED vars BY <1>1 DEF vars
  <2>4. PICK g \in Handlers : OthersYield(g) /\ (Request(g) \/ Continue(g))
    BY <2>1, <2>2, <2>3 DEF SyncNext
  <2>5. g = h BY <1>1, <2>4 DEF OthersYield
  <2>6. ~ Request(h)
    BY <1>1 DEF Request, StartResearchRun, RetryResearchRun, CancelResearchRun,
         PauseResearchAllowlist, RevokeResearchAllowlist, UpdateResearchAllowlist, Governs,
         ListResearchRuns, GetResearchRunStatus, Polls, Idle
  <2> QED BY <2>4, <2>5, <2>6
<1>3. ASSUME NEW r \in ops[h].todo, NEW new \in Pending(ops[h], r),
             SavesOrFails(h, r, new, Without(ops[h], r))
      PROVE  FALSE
  <2>1. r \in RunIds /\ ops[h].snap[r] = runs[r] /\ Stored(ops[h].snap[r])
    BY <1>0 DEF UpToDate, Ops, Equipped
  <2>2. ValidRow(runs[r]) BY <2>1 DEF StoredRowsAreValid, Existing, Stored
  <2>3. LegalUpdate(runs[r], new) BY <1>0, <2>1, <2>2, PendingLegal
  <2>4. Unchanged(runs[r], new)
    BY <1>0, <2>1, PendingContinues DEF Continues, Unchanged, Stored
  <2>5. Becomes(h, Without(ops[h], r)) BY <1>3, <2>3, <2>4 DEF SavesOrFails, Saves
  <2>6. Without(ops[h], r).pc = ops[h].pc BY <1>0, <2>1, WithoutKeeps
  <2>7. ops'[h].pc = ops[h].pc BY <1>0, <2>5, <2>6 DEF Becomes
  <2> QED BY <2>7 DEF IdleOp
<1>4. ASSUME NEW r \in RunIds, PauseRun(h, r) \/ StopRun(h, r) PROVE FALSE
  <2>1. CASE PauseRun(h, r)
    <3>1. r \in ops[h].todo /\ Move(ops[h].snap[r], "paused") \in Pending(ops[h], r)
      BY <2>1 DEF PauseRun, Pending, At
    <3> QED BY <1>3, <2>1, <3>1 DEF PauseRun
  <2>2. CASE StopRun(h, r)
    <3>1. r \in ops[h].todo /\ CancelledRow(ops[h].snap[r]) \in Pending(ops[h], r)
      BY <2>2 DEF StopRun, Pending, At
    <3> QED BY <1>3, <2>2, <3>1 DEF StopRun
  <2> QED BY <1>4, <2>1, <2>2
<1>5. Reply(h)
  BY <1>2, <1>4 DEF Continue, FindExistingRun, CheckRateBudget, CreateRun, RecordProviderStart,
       SaveAllowlist, ListRuns, ResumeRun, PollSucceeds, PollFails, FindExistingResult,
       ImportProviderResult, ClaimEvidenceEffect, SynthesizeEvidence, RecordResearchMemory,
       SettleEvidence, SourceQualityInsufficient, EvidenceEffectFails, At
<1> QED BY <1>0, <1>5 DEF Reply, UpToDate

\* Whoever pauses or revokes the allowlist is answered only when no run it was to stop is
\* left, however many requests it was interleaved with.
THEOREM AnsweredWhenSwept == SyncSpec => SweptWhenAnswered
<1>1. IInv /\ SnapshotsPinned /\ HeldInv /\ StoredRowsAreValid /\ SyncInv /\ [SyncNext]_vars =>
        [\A h \in Handlers :
          ops[h].pc \in {"pausing", "revoking"} /\ ops'[h] = IdleOp /\ crashes' = crashes =>
              \A r \in RunIds : runs'[r].status \notin {"queued", "running"}
                  \cup (IF At(h, "revoking") THEN {"paused"} ELSE {})]_vars
  BY LoopEndsSwept DEF SweptBy, At
<1> QED BY <1>1, SyncInvariance, PTL DEF SyncSpec, SweptWhenAnswered
=============================================================================
