--------------------------- MODULE ResearchRunsProofs ---------------------------
(***************************************************************************)
(* Theorems about ResearchRuns, for any set of runs, handlers, tasks and   *)
(* contents and any bounds.                                                *)
(***************************************************************************)
EXTENDS ResearchRuns, TLAPS

-----------------------------------------------------------------------------
(* The inductive invariant.  TypeOK is not inductive: that an update of a  *)
(* row is a row needs the row to have a key, and what a handler writes is  *)
(* built from rows and keys it read earlier.                               *)

\* A row that has been inserted.
Stored(row) ==
    row \in Rows /\ row.version # 0 /\ row.key \in Keys /\ row.status # "absent"

\* What a handler holds is what its phase needs.
Equipped(op) ==
    /\ \A r \in op.todo : Stored(op.snap[r])
    /\ op.pc \in {"finding", "budgeting", "creating"} => op.key \in Keys
    /\ op.pc \in {"importing", "ingesting", "claiming", "synthesizing", "remembering", "settling"}
           => op.result \in ResultIds
    /\ op.pc \in {"saving", "listing"} => op.plan.status # "none"

RowsInv ==
    /\ runs \in [RunIds -> Rows]
    /\ \A r \in RunIds : runs[r] = NoRow \/ Stored(runs[r])

HandlersInv ==
    /\ ops \in [Handlers -> Ops]
    /\ \A h \in Handlers : Equipped(ops[h])

RestInv ==
    /\ allowlist \in Allowlists
    /\ results \in [ResultIds -> Results]
    /\ waiting \subseteq Objectives
    /\ memory \subseteq ResultIds
    /\ crashes \in 0..MaxCrashes

IInv == RowsInv /\ HandlersInv /\ RestInv

LEMMA InvariantTypes == IInv => TypeOK
BY DEF IInv, RowsInv, HandlersInv, RestInv, TypeOK

-----------------------------------------------------------------------------
(* The rows that the service writes.                                       *)

\* new is built from old: the next version of the same run.
Continues(old, new) ==
    /\ Stored(new)
    /\ new.version = old.version + 1
    /\ new.key = old.key
    /\ new.retryOf = old.retryOf

LEMMA StatusNames ==
    /\ Statuses = {"absent", "queued", "paused", "running", "cancel_requested", "needs_review",
                   "accepted", "research_insufficient", "stale", "cancelled", "failed"}
    /\ Terminal = {"accepted", "research_insufficient", "stale", "cancelled", "failed"}
BY DEF Statuses, Live, Terminal, Waiting, Verdicts

LEMMA NoRowType == NoRow \in Rows /\ NoRow.version = 0 /\ NoRow.status = "absent"
BY DEF NoRow, Rows, Statuses, GateStatuses

LEMMA QueuedRowStored ==
    ASSUME NEW key \in Keys, NEW prior \in RunIds \cup {NoRun}
    PROVE  LET row == QueuedRow(key, prior)
           IN  /\ Stored(row)
               /\ row.key = key /\ row.retryOf = prior /\ row.version = 1
               /\ row.status = "queued" /\ ~row.started
<1>1. QueuedRow(key, prior) \in Rows
  BY StatusNames DEF QueuedRow, NoRow, Rows, GateStatuses
<1>2. LET row == QueuedRow(key, prior)
      IN  /\ row.key = key /\ row.retryOf = prior /\ row.version = 1
          /\ row.status = "queued" /\ ~row.started
  BY DEF QueuedRow, NoRow
<1> QED BY <1>1, <1>2 DEF Stored

LEMMA ExceptRow ==
    ASSUME NEW row \in Rows, NEW s \in Statuses, NEW v \in Nat
    PROVE  [row EXCEPT !.version = v, !.status = s] \in Rows
BY DEF Rows

LEMMA MoveContinues ==
    ASSUME NEW row, Stored(row), NEW s \in Statuses \ {"absent"}
    PROVE  /\ Continues(row, Move(row, s))
           /\ Move(row, s).status = s
           /\ Move(row, s).started = row.started
<1> DEFINE v == row.version + 1
<1>1. v \in Nat /\ v # 0 BY DEF Stored, Rows
<1>2. Move(row, s) = [row EXCEPT !.version = v, !.status = s] BY DEF Move
<1> HIDE DEF v
<1>3. Move(row, s) \in Rows BY <1>1, <1>2, ExceptRow DEF Stored
<1>4. /\ Move(row, s).version = v /\ Move(row, s).status = s
      /\ Move(row, s).key = row.key
      /\ Move(row, s).retryOf = row.retryOf
      /\ Move(row, s).started = row.started
  BY <1>2 DEF Rows, Stored
<1> QED BY <1>1, <1>3, <1>4 DEF v, Continues, Stored

LEMMA StartedRowContinues ==
    ASSUME NEW row, Stored(row)
    PROVE  Continues(row, StartedRow(row)) /\ StartedRow(row).status = "running"
<1>1. "running" \in Statuses \ {"absent"} BY StatusNames
<1>2. Continues(row, Move(row, "running")) /\ Move(row, "running").status = "running"
  BY <1>1, MoveContinues
<1> QED BY <1>2 DEF StartedRow, Continues, Stored, Rows

LEMMA CancelledRowContinues ==
    ASSUME NEW row, Stored(row)
    PROVE  /\ Continues(row, CancelledRow(row))
           /\ \/ /\ row.status \in Waiting
                 /\ CancelledRow(row).status = "cancelled"
                 /\ CancelledRow(row).started = row.started
              \/ CancelledRow(row).status = "cancel_requested"
<1>1. {"cancelled", "cancel_requested"} \subseteq Statuses \ {"absent"} BY StatusNames
<1>2. CASE row.status \in Waiting
  <2>1. /\ Continues(row, Move(row, "cancelled"))
        /\ Move(row, "cancelled").status = "cancelled"
        /\ Move(row, "cancelled").started = row.started
    BY <1>1, MoveContinues
  <2>2. CancelledRow(row) = [Move(row, "cancelled") EXCEPT !.completed = TRUE]
    BY <1>2 DEF CancelledRow
  <2> QED BY <1>2, <2>1, <2>2 DEF Continues, Stored, Rows
<1>3. CASE row.status \notin Waiting
  BY <1>1, <1>3, MoveContinues DEF CancelledRow
<1> QED BY <1>2, <1>3

LEMMA DeliveredRowContinues ==
    ASSUME NEW row, Stored(row)
    PROVE  Continues(row, DeliveredRow(row)) /\ DeliveredRow(row).status = "needs_review"
<1>1. "needs_review" \in Statuses \ {"absent"} /\ "pending_review" \in GateStatuses
  BY StatusNames DEF GateStatuses
<1>2. Continues(row, Move(row, "needs_review")) /\ Move(row, "needs_review").status = "needs_review"
  BY <1>1, MoveContinues
<1> QED BY <1>1, <1>2 DEF DeliveredRow, Continues, Stored, Rows

LEMMA FailedRowContinues ==
    ASSUME NEW row, Stored(row)
    PROVE  Continues(row, FailedRow(row)) /\ FailedRow(row).status = "failed"
<1>1. "failed" \in Statuses \ {"absent"} BY StatusNames
<1>2. Continues(row, Move(row, "failed")) /\ Move(row, "failed").status = "failed"
  BY <1>1, MoveContinues
<1> QED BY <1>2 DEF FailedRow, Continues, Stored, Rows

LEMMA EvidencePackContinues ==
    ASSUME NEW row, Stored(row), NEW g \in ResultGates \ {"none"}
    PROVE  LET new == WithEvidencePack(row, g)
           IN  \/ new = row
               \/ /\ Stored(new)
                  /\ new.version > row.version
                  /\ new.key = row.key
                  /\ new.retryOf = row.retryOf
                  /\ new.status \in Verdicts \cup {"needs_review"}
                  /\ row.status \in {"running", "needs_review"}
<1> DEFINE reviewed == ReviewedRow(row)
<1>1. CASE row.status \notin {"running", "needs_review"}
  BY <1>1 DEF WithEvidencePack
<1>2. CASE row.status \in {"running", "needs_review"}
  <2>1. /\ Stored(reviewed) /\ reviewed.version >= row.version
        /\ reviewed.key = row.key /\ reviewed.retryOf = row.retryOf
        /\ reviewed.status = "needs_review"
        /\ reviewed = row \/ reviewed.version > row.version
    <3>1. row.version \in Nat BY DEF Stored, Rows
    <3>2. CASE row.status = "running"
      BY <3>1, <3>2, DeliveredRowContinues DEF ReviewedRow, Continues
    <3>3. CASE row.status # "running"
      BY <1>2, <3>1, <3>3 DEF ReviewedRow
    <3> QED BY <3>2, <3>3
  <2>2. CASE g = "needs_review"
    BY <1>2, <2>1, <2>2 DEF WithEvidencePack
  <2>3. CASE g # "needs_review"
    <3>1. g \in Verdicts BY <2>3 DEF ResultGates
    <3>2. g \in Statuses \ {"absent"} BY <3>1, StatusNames DEF Verdicts
    <3>3. GateOfVerdict(g) \in GateStatuses
      BY <3>1 DEF GateOfVerdict, Verdicts, GateStatuses
    <3> DEFINE moved == Move(reviewed, g)
               gate  == GateOfVerdict(g)
               new   == [moved EXCEPT !.gate = gate]
    <3>4. Continues(reviewed, moved) /\ moved.status = g
      BY <2>1, <3>2, MoveContinues
    <3>5. WithEvidencePack(row, g) = new
      BY <1>2, <2>3 DEF WithEvidencePack
    <3>6. reviewed.version \in Nat /\ row.version \in Nat BY <2>1 DEF Stored, Rows
    <3> HIDE DEF moved, gate, reviewed
    <3>7. Stored(new) /\ new.version = reviewed.version + 1 /\ new.key = reviewed.key
          /\ new.retryOf = reviewed.retryOf /\ new.status = g
      BY <3>3, <3>4 DEF Continues, Stored, Rows, gate
    <3> HIDE DEF new
    <3> QED BY <1>2, <2>1, <3>1, <3>5, <3>6, <3>7
  <2> QED BY <2>2, <2>3
<1> QED BY <1>1, <1>2

-----------------------------------------------------------------------------
(* The local states of a handler.                                          *)

LEMMA IdleOpEquipped == IdleOp \in Ops /\ Equipped(IdleOp)
<1>1. NothingRead \in [RunIds -> Rows] BY NoRowType DEF NothingRead
<1>2. NoAllowlist \in Allowlists BY DEF NoAllowlist, Allowlists
<1>3. IdleOp \in Ops BY <1>1, <1>2 DEF IdleOp, Ops, Phases
<1> QED BY <1>3 DEF IdleOp, Equipped

LEMMA HoldingEquipped ==
    ASSUME NEW phase \in {"starting", "cancelling"}, NEW r \in RunIds, NEW row, Stored(row)
    PROVE  Holding(IdleOp, phase, r, row) \in Ops /\ Equipped(Holding(IdleOp, phase, r, row))
<1> DEFINE todo == {r}
           snap == [NothingRead EXCEPT ![r] = row]
<1>1. /\ todo \in SUBSET RunIds /\ \A s \in todo : s = r
      /\ snap \in [RunIds -> Rows] /\ snap[r] = row
      /\ phase \in Phases
  BY NoRowType DEF NothingRead, Stored, Phases
<1>2. Holding(IdleOp, phase, r, row) = [IdleOp EXCEPT !.pc = phase, !.todo = todo, !.snap = snap]
  BY DEF Holding
<1> HIDE DEF todo, snap
<1>3. Holding(IdleOp, phase, r, row) \in Ops
  BY <1>1, <1>2, IdleOpEquipped DEF Ops
<1>4. LET op == Holding(IdleOp, phase, r, row)
      IN  op.pc = phase /\ op.todo = todo /\ op.snap = snap
  BY <1>2, IdleOpEquipped DEF Ops
<1> QED BY <1>1, <1>3, <1>4 DEF Equipped

LEMMA WithoutEquipped ==
    ASSUME NEW op \in Ops, Equipped(op), NEW r \in RunIds
    PROVE  Without(op, r) \in Ops /\ Equipped(Without(op, r)) /\ Without(op, r).pc = op.pc
<1> DEFINE todo == op.todo \ {r}
           snap == [op.snap EXCEPT ![r] = NoRow]
<1>1. todo \in SUBSET RunIds /\ snap \in [RunIds -> Rows]
  BY NoRowType DEF Ops
<1>2. Without(op, r) = [op EXCEPT !.todo = todo, !.snap = snap]
  BY DEF Without, Ops
<1>3. \A s \in todo : Stored(snap[s])
  BY DEF Equipped, Ops
<1> HIDE DEF todo, snap
<1>4. Without(op, r) \in Ops BY <1>1, <1>2 DEF Ops
<1>5. LET new == Without(op, r)
      IN  new.todo = todo /\ new.snap = snap /\ new.pc = op.pc /\ new.key = op.key
          /\ new.result = op.result /\ new.plan = op.plan
  BY <1>2 DEF Ops
<1> QED BY <1>3, <1>4, <1>5 DEF Equipped

LEMMA BecomesEquipped ==
    ASSUME HandlersInv, NEW h \in Handlers, NEW op \in Ops, Equipped(op), Becomes(h, op)
    PROVE  HandlersInv'
BY DEF HandlersInv, Becomes

LEMMA RepliesEquipped ==
    ASSUME HandlersInv, NEW h \in Handlers, Replies(h)
    PROVE  HandlersInv'
BY IdleOpEquipped, BecomesEquipped DEF Replies

\* A handler goes to another phase with what it holds.
LEMMA PhaseEquipped ==
    ASSUME NEW op \in Ops, Equipped(op), NEW phase \in Phases,
           phase \in {"finding", "budgeting", "creating"} => op.key \in Keys,
           phase \in {"importing", "ingesting", "claiming", "synthesizing", "remembering",
                      "settling"} => op.result \in ResultIds,
           phase \in {"saving", "listing"} => op.plan.status # "none"
    PROVE  [op EXCEPT !.pc = phase] \in Ops /\ Equipped([op EXCEPT !.pc = phase])
<1>1. [op EXCEPT !.pc = phase] \in Ops BY DEF Ops
<1>2. LET new == [op EXCEPT !.pc = phase]
      IN  new.pc = phase /\ new.todo = op.todo /\ new.snap = op.snap /\ new.key = op.key
          /\ new.result = op.result /\ new.plan = op.plan
  BY DEF Ops
<1> QED BY <1>1, <1>2 DEF Equipped

LEMMA PollsOnEquipped ==
    ASSUME NEW op \in Ops, Equipped(op)
    PROVE  PollsOn(op) \in Ops /\ Equipped(PollsOn(op))
<1>1. PollsOn(op) \in Ops BY DEF PollsOn, Ops, Phases
<1>2. LET new == PollsOn(op)
      IN  new.pc = "polling" /\ new.todo = op.todo /\ new.snap = op.snap
  BY DEF PollsOn, Ops
<1> QED BY <1>1, <1>2 DEF Equipped

\* A guarded update: the row is saved and the handler goes on, or it fails.
LEMMA SavesOrFailsKeeps ==
    ASSUME RowsInv, HandlersInv, NEW h \in Handlers, NEW r \in RunIds,
           NEW new, Stored(new), NEW op \in Ops, Equipped(op),
           SavesOrFails(h, r, new, op)
    PROVE  RowsInv' /\ HandlersInv'
<1>1. CASE Saves(runs[r], new)
  BY <1>1, BecomesEquipped DEF SavesOrFails, RowsInv, Stored
<1>2. CASE ~Saves(runs[r], new)
  BY <1>2, RepliesEquipped DEF SavesOrFails, RowsInv
<1> QED BY <1>1, <1>2

-----------------------------------------------------------------------------
(* Every step keeps the invariant.                                         *)

LEMMA InitInv == Init => IInv
<1> SUFFICES ASSUME Init PROVE IInv OBVIOUS
<1>1. RowsInv BY NoRowType DEF Init, RowsInv, NothingRead
<1>2. HandlersInv BY IdleOpEquipped DEF Init, HandlersInv
<1>3. RestInv
  <2>1. NoAllowlist \in Allowlists BY DEF NoAllowlist, Allowlists
  <2>2. NotImported \in Results BY DEF NotImported, Results, ResultGates
  <2> QED BY <2>1, <2>2, BudgetAssumption DEF Init, RestInv
<1> QED BY <1>1, <1>2, <1>3 DEF IInv

\* What stays when a step changes none of the variables of a part.
LEMMA Untouched ==
    /\ RowsInv /\ UNCHANGED runs => RowsInv'
    /\ HandlersInv /\ UNCHANGED ops => HandlersInv'
    /\ RestInv /\ UNCHANGED <<allowlist, results, waiting, memory, crashes>> => RestInv'
BY DEF RowsInv, HandlersInv, RestInv

LEMMA RequestInv ==
    ASSUME IInv, NEW h \in Handlers, Request(h)
    PROVE  IInv'
<1> USE DEF IInv
<1>0. UNCHANGED <<allowlist, runs, results, waiting, memory, crashes>>
  BY DEF Request, StartResearchRun, RetryResearchRun, CancelResearchRun, PauseResearchAllowlist,
         RevokeResearchAllowlist, UpdateResearchAllowlist, Governs, ListResearchRuns,
         GetResearchRunStatus, Polls
<1>1. ASSUME NEW o \in Objectives, NEW c \in Connectors, NEW x \in Contexts,
             StartResearchRun(h, o, c, x)
      PROVE  HandlersInv'
  <2> DEFINE key == [objective |-> o, connector |-> c, context |-> x,
                     allowlistVersion |-> allowlist.version, attempt |-> 1]
             op == [IdleOp EXCEPT !.pc = "finding", !.seen = allowlist, !.key = key]
  <2>1. key \in Keys BY DEF RestInv, Allowlists, Keys
  <2>2. Becomes(h, op) BY <1>1 DEF StartResearchRun
  <2> HIDE DEF key
  <2>3. op \in Ops BY <2>1, IdleOpEquipped DEF RestInv, Ops, Phases
  <2>4. op.pc = "finding" /\ op.key = key /\ op.todo = {}
    BY IdleOpEquipped DEF Ops, IdleOp
  <2>5. Equipped(op) BY <2>1, <2>4 DEF Equipped
  <2> QED BY <2>2, <2>3, <2>5, BecomesEquipped
<1>2. ASSUME NEW r \in RunIds, NEW x \in Contexts, RetryResearchRun(h, r, x)
      PROVE  HandlersInv'
  <2> DEFINE key == [runs[r].key EXCEPT !.context = x, !.attempt = @ + 1]
             op == [IdleOp EXCEPT !.pc = "finding", !.seen = allowlist, !.prior = r, !.key = key]
  <2>1. runs[r].status # "absent" BY <1>2 DEF RetryResearchRun, Retryable
  <2>2. runs[r].key \in Keys BY <2>1, NoRowType DEF RowsInv, Stored
  <2>3. key \in Keys
    <3> DEFINE n == runs[r].key.attempt + 1
    <3>1. n \in Nat BY <2>2 DEF Keys
    <3>2. key = [runs[r].key EXCEPT !.context = x, !.attempt = n] BY <2>2 DEF Keys
    <3> HIDE DEF n, key
    <3> QED BY <2>2, <3>1, <3>2 DEF Keys
  <2>4. Becomes(h, op) BY <1>2 DEF RetryResearchRun
  <2> HIDE DEF key
  <2>5. op \in Ops BY <2>3, IdleOpEquipped DEF RestInv, Ops, Phases
  <2>6. op.pc = "finding" /\ op.key = key /\ op.todo = {}
    BY IdleOpEquipped DEF Ops, IdleOp
  <2>7. Equipped(op) BY <2>3, <2>6 DEF Equipped
  <2> QED BY <2>4, <2>5, <2>7, BecomesEquipped
<1>3. ASSUME NEW r \in RunIds, CancelResearchRun(h, r)
      PROVE  HandlersInv'
  <2>1. Stored(runs[r])
    BY <1>3, NoRowType DEF CancelResearchRun, Waiting, RowsInv
  <2> QED BY <1>3, <2>1, HoldingEquipped, BecomesEquipped DEF CancelResearchRun
<1>4. ASSUME NEW plan \in Allowlists, plan.status # "none", Governs(h, plan)
      PROVE  HandlersInv'
  <2> DEFINE phase == IF plan = allowlist THEN "listing" ELSE "saving"
             op == [IdleOp EXCEPT !.seen = allowlist, !.plan = plan, !.pc = phase]
  <2>1. Becomes(h, op) BY <1>4 DEF Governs
  <2>2. phase \in {"listing", "saving"} OBVIOUS
  <2> HIDE DEF phase
  <2>3. op \in Ops BY <1>4, <2>2, IdleOpEquipped DEF RestInv, Ops, Phases
  <2>4. op.pc = phase /\ op.todo = {} /\ op.plan = plan BY IdleOpEquipped DEF Ops, IdleOp
  <2>5. Equipped(op) BY <1>4, <2>2, <2>4 DEF Equipped
  <2> QED BY <2>1, <2>3, <2>5, BecomesEquipped
<1>5. ASSUME NEW status \in {"paused", "revoked"}
      PROVE  WithStatus(allowlist, status) \in Allowlists /\ WithStatus(allowlist, status).status = status
  <2> DEFINE v == allowlist.version + 1
  <2>1. allowlist \in Allowlists /\ v \in Nat BY DEF RestInv, Allowlists
  <2>2. allowlist.status # status =>
          WithStatus(allowlist, status) = [allowlist EXCEPT !.status = status, !.version = v]
    BY DEF WithStatus
  <2>3. allowlist.status = status => WithStatus(allowlist, status) = allowlist
    BY DEF WithStatus
  <2> HIDE DEF v
  <2>4. /\ [allowlist EXCEPT !.status = status, !.version = v] \in Allowlists
        /\ [allowlist EXCEPT !.status = status, !.version = v].status = status
    BY <2>1 DEF Allowlists
  <2> QED BY <2>1, <2>2, <2>3, <2>4
<1>6. ASSUME NEW cs \in SUBSET Connectors, NEW n \in MaxConcurrentChoices, NEW b \in BOOLEAN
      PROVE  [status |-> IF b THEN "active" ELSE allowlist.status,
              version |-> allowlist.version + 1, connectors |-> cs, maxRuns |-> n] \in Allowlists
  BY BudgetAssumption DEF RestInv, Allowlists
<1>7. ASSUME NEW rs \in SUBSET Running, Polls(h, rs)
      PROVE  HandlersInv'
  <2> DEFINE snap == Snapshot(rs)
             op == [IdleOp EXCEPT !.pc = "polling", !.todo = rs, !.snap = snap]
  <2>1. Becomes(h, op) BY <1>7 DEF Polls
  <2>2. rs \in SUBSET RunIds /\ snap \in [RunIds -> Rows] /\ \A r \in rs : Stored(snap[r])
    BY NoRowType DEF Running, Snapshot, RowsInv
  <2> HIDE DEF snap
  <2>3. op \in Ops BY <2>2, IdleOpEquipped DEF Ops, Phases
  <2>4. op.pc = "polling" /\ op.todo = rs /\ op.snap = snap BY IdleOpEquipped DEF Ops
  <2>5. Equipped(op) BY <2>2, <2>4 DEF Equipped
  <2> QED BY <2>1, <2>3, <2>5, BecomesEquipped
<1>8. HandlersInv'
  <2>1. CASE \E o \in Objectives, c \in Connectors, x \in Contexts : StartResearchRun(h, o, c, x)
    BY <1>1, <2>1
  <2>2. CASE \E r \in RunIds, x \in Contexts : RetryResearchRun(h, r, x)
    BY <1>2, <2>2
  <2>3. CASE \E r \in RunIds : CancelResearchRun(h, r)
    BY <1>3, <2>3
  <2>4. CASE PauseResearchAllowlist(h)
    BY <1>4, <1>5, <2>4 DEF PauseResearchAllowlist
  <2>5. CASE RevokeResearchAllowlist(h)
    BY <1>4, <1>5, <2>5 DEF RevokeResearchAllowlist
  <2>6. CASE \E cs \in SUBSET Connectors \ {{}}, n \in MaxConcurrentChoices, b \in BOOLEAN :
                UpdateResearchAllowlist(h, cs, n, b)
    BY <1>4, <1>6, <2>6 DEF UpdateResearchAllowlist, Governs
  <2>7. CASE ListResearchRuns(h)
    BY <1>7, <2>7 DEF ListResearchRuns
  <2>8. CASE \E r \in RunIds : GetResearchRunStatus(h, r)
    BY <1>7, <2>8 DEF GetResearchRunStatus
  <2> QED BY <2>1, <2>2, <2>3, <2>4, <2>5, <2>6, <2>7, <2>8 DEF Request
<1> QED BY <1>0, <1>8, Untouched

LEMMA StartsIfQueuedKeeps ==
    ASSUME RowsInv, HandlersInv, NEW h \in Handlers, NEW r \in RunIds, StartsIfQueued(h, r)
    PROVE  HandlersInv'
<1>1. CASE runs[r].status = "queued"
  <2>1. Stored(runs[r]) BY <1>1, NoRowType DEF RowsInv
  <2> QED BY <1>1, <2>1, HoldingEquipped, BecomesEquipped DEF StartsIfQueued
<1>2. CASE runs[r].status # "queued"
  BY <1>2, RepliesEquipped DEF StartsIfQueued
<1> QED BY <1>1, <1>2

\* What a handler is about to save continues the row that it has read.
LEMMA PendingContinues ==
    ASSUME NEW op \in Ops, Equipped(op), NEW r \in op.todo, NEW new \in Pending(op, r)
    PROVE  Continues(op.snap[r], new)
<1>1. Stored(op.snap[r]) BY DEF Equipped
<1>2. {"queued", "paused"} \subseteq Statuses \ {"absent"} BY StatusNames
<1>3. CASE op.pc \in {"starting", "restarting"}
  BY <1>1, <1>3, StartedRowContinues DEF Pending
<1>4. CASE op.pc \in {"cancelling", "revoking"}
  BY <1>1, <1>4, CancelledRowContinues DEF Pending
<1>5. CASE op.pc = "pausing"
  BY <1>1, <1>2, <1>5, CancelledRowContinues, MoveContinues DEF Pending
<1>6. CASE op.pc = "resuming"
  BY <1>1, <1>2, <1>6, CancelledRowContinues, MoveContinues DEF Pending
<1>7. CASE op.pc = "polling"
  BY <1>1, <1>7, DeliveredRowContinues, FailedRowContinues DEF Pending
<1>8. CASE op.pc \notin {"starting", "restarting", "cancelling", "revoking", "pausing",
                         "resuming", "polling"}
  BY <1>8 DEF Pending
<1> QED BY <1>3, <1>4, <1>5, <1>6, <1>7, <1>8

\* The steps of a handler that start a run.
LEMMA StartingInv ==
    ASSUME IInv, NEW h \in Handlers,
           \/ FindExistingRun(h) \/ CheckRateBudget(h)
           \/ \E r \in RunIds : CreateRun(h, r) \/ RecordProviderStart(h, r)
    PROVE  IInv'
<1> USE DEF IInv
<1>0. ops[h] \in Ops /\ Equipped(ops[h]) BY DEF HandlersInv
<1>1. CASE FindExistingRun(h)
  <2>1. RowsInv' /\ RestInv' BY <1>1, Untouched DEF FindExistingRun
  <2>2. CASE Becomes(h, [ops[h] EXCEPT !.pc = "budgeting"])
    <3>1. ops[h].key \in Keys BY <1>0, <1>1 DEF FindExistingRun, At, Equipped
    <3> QED BY <1>0, <2>1, <2>2, <3>1, PhaseEquipped, BecomesEquipped DEF Phases
  <2>3. ASSUME NEW r \in Holders(runs, ops[h].key), StartsIfQueued(h, r)
        PROVE  HandlersInv'
    BY <2>3, StartsIfQueuedKeeps DEF Holders
  <2> QED BY <1>1, <2>1, <2>2, <2>3 DEF FindExistingRun
<1>2. CASE CheckRateBudget(h)
  <2>1. RowsInv' /\ RestInv' BY <1>2, Untouched DEF CheckRateBudget
  <2>2. ops[h].key \in Keys BY <1>0, <1>2 DEF CheckRateBudget, At, Equipped
  <2>3. CASE Becomes(h, [ops[h] EXCEPT !.pc = "creating"])
    BY <1>0, <2>1, <2>2, <2>3, PhaseEquipped, BecomesEquipped DEF Phases
  <2>4. CASE Replies(h)
    BY <2>1, <2>4, RepliesEquipped
  <2> QED BY <1>2, <2>3, <2>4 DEF CheckRateBudget
<1>3. ASSUME NEW r \in RunIds, CreateRun(h, r)
      PROVE  IInv'
  <2> DEFINE row == QueuedRow(ops[h].key, ops[h].prior)
  <2>1. RestInv' BY <1>3, Untouched DEF CreateRun
  <2>2. ops[h].key \in Keys BY <1>0, <1>3 DEF CreateRun, At, Equipped
  <2>3. Stored(row) BY <1>0, <2>2, QueuedRowStored DEF Ops
  <2> HIDE DEF row
  <2>4. CASE runs' = [runs EXCEPT ![r] = row] /\ Becomes(h, Holding(IdleOp, "starting", r, row))
    <3>1. RowsInv' BY <2>3, <2>4 DEF RowsInv, Stored
    <3>2. HandlersInv' BY <2>3, <2>4, HoldingEquipped, BecomesEquipped
    <3> QED BY <2>1, <3>1, <3>2
  <2>5. ASSUME NEW t \in Holders(runs, ops[h].key), StartsIfQueued(h, t), UNCHANGED runs
        PROVE  IInv'
    BY <2>1, <2>5, StartsIfQueuedKeeps, Untouched DEF Holders
  <2>6. CASE UNCHANGED runs /\ Replies(h)
    BY <2>1, <2>6, RepliesEquipped, Untouched
  <2> QED BY <1>3, <2>4, <2>5, <2>6 DEF CreateRun, row
<1>4. ASSUME NEW r \in RunIds, RecordProviderStart(h, r)
      PROVE  IInv'
  <2> DEFINE new == StartedRow(ops[h].snap[r])
             resumed == [Without(ops[h], r) EXCEPT !.pc = "resuming", !.run = NoRun]
             op == IF At(h, "starting") THEN IdleOp ELSE resumed
  <2>1. RestInv' BY <1>4, Untouched DEF RecordProviderStart
  <2>2. r \in ops[h].todo /\ new \in Pending(ops[h], r)
    BY <1>4 DEF RecordProviderStart, Pending
  <2>3. Stored(new) BY <1>0, <2>2, PendingContinues DEF Continues
  <2>4. resumed \in Ops /\ Equipped(resumed)
    <3>1. Without(ops[h], r) \in Ops /\ Equipped(Without(ops[h], r)) BY <1>0, WithoutEquipped
    <3>2. resumed \in Ops BY <3>1 DEF Ops, Phases
    <3>3. resumed.pc = "resuming" /\ resumed.todo = Without(ops[h], r).todo
          /\ resumed.snap = Without(ops[h], r).snap
      BY <3>1 DEF Ops
    <3> QED BY <3>1, <3>2, <3>3 DEF Equipped
  <2>5. op \in Ops /\ Equipped(op) BY <2>4, IdleOpEquipped
  <2>6. SavesOrFails(h, r, new, op) BY <1>4 DEF RecordProviderStart
  <2> HIDE DEF new, op
  <2> QED BY <2>1, <2>3, <2>5, <2>6, SavesOrFailsKeeps
<1> QED BY <1>1, <1>2, <1>3, <1>4

\* The steps of a handler that governs the allowlist, or stops runs.
LEMMA GoverningInv ==
    ASSUME IInv, NEW h \in Handlers,
           \/ SaveAllowlist(h) \/ ListRuns(h) \/ Reply(h)
           \/ \E r \in RunIds : PauseRun(h, r) \/ StopRun(h, r) \/ ResumeRun(h, r)
    PROVE  IInv'
<1> USE DEF IInv
<1>0. ops[h] \in Ops /\ Equipped(ops[h]) BY DEF HandlersInv
<1>1. CASE SaveAllowlist(h)
  <2>1. RowsInv' BY <1>1, Untouched DEF SaveAllowlist
  <2>2. RestInv' BY <1>0, <1>1 DEF SaveAllowlist, RestInv, Ops
  <2>3. ops[h].plan.status # "none" BY <1>0, <1>1 DEF SaveAllowlist, At, Equipped
  <2>4. CASE Becomes(h, [ops[h] EXCEPT !.pc = "listing"])
    BY <1>0, <2>1, <2>2, <2>3, <2>4, PhaseEquipped, BecomesEquipped DEF Phases
  <2>5. CASE Replies(h)
    BY <2>1, <2>2, <2>5, RepliesEquipped
  <2> QED BY <1>1, <2>4, <2>5 DEF SaveAllowlist
<1>2. CASE ListRuns(h)
  <2> DEFINE status == ops[h].plan.status
             phase == LoopOf(status)
             todo == {r \in RunIds : runs[r].status \in Affected(status)}
             snap == Snapshot(todo)
             op == [ops[h] EXCEPT !.pc = phase, !.todo = todo, !.snap = snap]
  <2>1. RowsInv' /\ RestInv' BY <1>2, Untouched DEF ListRuns
  <2>2. Becomes(h, op) BY <1>2 DEF ListRuns
  <2>3. status \in {"active", "paused", "revoked"}
    BY <1>0, <1>2 DEF ListRuns, At, Equipped, Ops, Allowlists
  <2>4. phase \in {"pausing", "revoking", "resuming"} /\ "absent" \notin Affected(status)
    BY <2>3 DEF LoopOf, Affected
  <2>5. todo \in SUBSET RunIds /\ snap \in [RunIds -> Rows] /\ \A r \in todo : Stored(snap[r])
    BY <2>4, NoRowType DEF Snapshot, RowsInv
  <2> HIDE DEF todo, snap, phase
  <2>6. op \in Ops BY <1>0, <2>4, <2>5 DEF Ops, Phases
  <2>7. op.pc = phase /\ op.todo = todo /\ op.snap = snap BY <1>0 DEF Ops
  <2>8. Equipped(op) BY <2>4, <2>5, <2>7 DEF Equipped
  <2> QED BY <2>1, <2>2, <2>6, <2>8, BecomesEquipped
<1>3. CASE Reply(h)
  BY <1>3, RepliesEquipped, Untouched DEF Reply
<1>4. ASSUME NEW r \in ops[h].todo, NEW new \in Pending(ops[h], r),
             SavesOrFails(h, r, new, Without(ops[h], r)),
             UNCHANGED <<allowlist, results, waiting, memory, crashes>>
      PROVE  IInv'
  <2>1. r \in RunIds BY <1>0 DEF Ops
  <2>2. Stored(new) BY <1>0, PendingContinues DEF Continues
  <2> QED BY <1>0, <1>4, <2>1, <2>2, WithoutEquipped, SavesOrFailsKeeps, Untouched
<1>5. ASSUME NEW r \in RunIds, PauseRun(h, r)
      PROVE  IInv'
  <2>1. Move(ops[h].snap[r], "paused") \in Pending(ops[h], r)
    BY <1>5 DEF PauseRun, Pending, At
  <2> QED BY <1>4, <1>5, <2>1 DEF PauseRun
<1>6. ASSUME NEW r \in RunIds, StopRun(h, r)
      PROVE  IInv'
  <2>1. CancelledRow(ops[h].snap[r]) \in Pending(ops[h], r)
    BY <1>6 DEF StopRun, Pending, At
  <2> QED BY <1>4, <1>6, <2>1 DEF StopRun
<1>7. ASSUME NEW r \in RunIds, ResumeRun(h, r)
      PROVE  IInv'
  <2> DEFINE queued == Move(ops[h].snap[r], "queued")
             snap == [ops[h].snap EXCEPT ![r] = queued]
             op == [ops[h] EXCEPT !.pc = "restarting", !.run = r, !.snap = snap]
  <2>1. queued \in Pending(ops[h], r) BY <1>7 DEF ResumeRun, Pending, At
  <2>2. r \in ops[h].todo BY <1>7 DEF ResumeRun
  <2>3. Stored(queued) BY <1>0, <2>1, <2>2, PendingContinues DEF Continues
  <2>4. SavesOrFails(h, r, queued, op) BY <1>0, <1>7 DEF ResumeRun, Ops
  <2> HIDE DEF queued
  <2>5. snap \in [RunIds -> Rows] /\ \A t \in ops[h].todo : Stored(snap[t])
    BY <1>0, <2>3 DEF Ops, Equipped, Stored
  <2> HIDE DEF snap
  <2>6. op \in Ops BY <1>0, <2>5 DEF Ops, Phases
  <2>7. op.pc = "restarting" /\ op.todo = ops[h].todo /\ op.snap = snap BY <1>0 DEF Ops
  <2>8. Equipped(op) BY <2>5, <2>7 DEF Equipped
  <2> QED BY <1>7, <2>3, <2>4, <2>6, <2>8, SavesOrFailsKeeps, Untouched DEF ResumeRun
<1> QED BY <1>1, <1>2, <1>3, <1>5, <1>6, <1>7

\* The steps of a handler that polls the provider.
LEMMA PollingInv ==
    ASSUME IInv, NEW h \in Handlers,
           \E r \in RunIds : PollFails(h, r) \/ \E c \in Contents : PollSucceeds(h, r, c)
    PROVE  IInv'
<1> USE DEF IInv
<1>0. ops[h] \in Ops /\ Equipped(ops[h]) BY DEF HandlersInv
<1>1. ASSUME NEW r \in ops[h].todo, NEW new \in Pending(ops[h], r),
             NEW op \in Ops, Equipped(op), SavesOrSkips(h, r, new, op),
             UNCHANGED <<allowlist, results, waiting, memory, crashes>>
      PROVE  IInv'
  <2>1. r \in RunIds BY <1>0 DEF Ops
  <2>2. Stored(new) BY <1>0, PendingContinues DEF Continues
  <2>3. RestInv' BY <1>1, Untouched
  <2>4. CASE SavesOrFails(h, r, new, op)
    BY <1>1, <2>1, <2>2, <2>3, <2>4, SavesOrFailsKeeps
  <2>5. CASE UNCHANGED runs /\ Becomes(h, Without(ops[h], r))
    BY <1>0, <2>1, <2>3, <2>5, WithoutEquipped, BecomesEquipped, Untouched
  <2> QED BY <1>1, <2>4, <2>5 DEF SavesOrSkips
<1>2. ASSUME NEW r \in RunIds, PollFails(h, r)
      PROVE  IInv'
  <2>1. FailedRow(ops[h].snap[r]) \in Pending(ops[h], r)
    BY <1>2 DEF PollFails, Pending, At
  <2> QED BY <1>0, <1>1, <1>2, <2>1, WithoutEquipped DEF PollFails
<1>3. ASSUME NEW r \in RunIds, NEW c \in Contents, PollSucceeds(h, r, c)
      PROVE  IInv'
  <2> DEFINE id == <<ops[h].snap[r].key.objective, c>>
             done == Without(ops[h], r)
             op == [done EXCEPT !.pc = "importing", !.run = r, !.result = id]
  <2>1. DeliveredRow(ops[h].snap[r]) \in Pending(ops[h], r)
    BY <1>3 DEF PollSucceeds, Pending, At
  <2>2. r \in ops[h].todo BY <1>3 DEF PollSucceeds
  <2>3. id \in ResultIds BY <1>0, <2>2 DEF Equipped, Stored, Keys, ResultIds
  <2>4. done \in Ops /\ Equipped(done) BY <1>0, WithoutEquipped
  <2>5. SavesOrSkips(h, r, DeliveredRow(ops[h].snap[r]), op) BY <1>3 DEF PollSucceeds
  <2> HIDE DEF id, done
  <2>6. op \in Ops BY <2>3, <2>4 DEF Ops, Phases
  <2>7. op.pc = "importing" /\ op.todo = done.todo /\ op.snap = done.snap /\ op.result = id
    BY <2>4 DEF Ops
  <2>8. Equipped(op) BY <2>3, <2>4, <2>7 DEF Equipped
  <2> QED BY <1>1, <1>3, <2>1, <2>2, <2>5, <2>6, <2>8 DEF PollSucceeds
<1> QED BY <1>2, <1>3

\* The steps of a handler that turns a result into evidence.
LEMMA EvidenceInv ==
    ASSUME IInv, NEW h \in Handlers,
           \/ FindExistingResult(h) \/ ImportProviderResult(h) \/ ClaimEvidenceEffect(h)
           \/ \E g \in ResultGates \ {"none"} : SynthesizeEvidence(h, g)
           \/ RecordResearchMemory(h) \/ SettleEvidence(h)
           \/ SourceQualityInsufficient(h) \/ EvidenceEffectFails(h)
    PROVE  IInv'
<1> USE DEF IInv
<1>0. ops[h] \in Ops /\ Equipped(ops[h]) BY DEF HandlersInv
<1> DEFINE id == ops[h].result
<1>1. PollsOn(ops[h]) \in Ops /\ Equipped(PollsOn(ops[h])) BY <1>0, PollsOnEquipped
<1>2. ASSUME NEW phase \in {"ingesting", "claiming", "synthesizing", "remembering", "settling"},
             id \in ResultIds, Becomes(h, [ops[h] EXCEPT !.pc = phase])
      PROVE  HandlersInv'
  BY <1>0, <1>2, PhaseEquipped, BecomesEquipped DEF Phases
<1>3. ASSUME At(h, "importing") \/ At(h, "ingesting") \/ At(h, "claiming") \/ At(h, "synthesizing")
             \/ At(h, "remembering") \/ At(h, "settling")
      PROVE  id \in ResultIds
  BY <1>0, <1>3 DEF At, Equipped
<1>4. CASE FindExistingResult(h)
  <2>1. RowsInv' /\ RestInv' BY <1>4, Untouched DEF FindExistingResult
  <2>2. id \in ResultIds BY <1>3, <1>4 DEF FindExistingResult
  <2>3. CASE Becomes(h, [ops[h] EXCEPT !.pc = "ingesting"])
    BY <1>2, <2>1, <2>2, <2>3
  <2>4. ASSUME NEW i \in ResultIds, Becomes(h, [ops[h] EXCEPT !.pc = "claiming", !.result = i])
        PROVE  HandlersInv'
    <3> DEFINE op == [ops[h] EXCEPT !.pc = "claiming", !.result = i]
    <3>1. op \in Ops BY <1>0 DEF Ops, Phases
    <3>2. op.pc = "claiming" /\ op.todo = ops[h].todo /\ op.snap = ops[h].snap /\ op.result = i
      BY <1>0 DEF Ops
    <3>3. Equipped(op) BY <1>0, <3>2 DEF Equipped
    <3> QED BY <2>4, <3>1, <3>3, BecomesEquipped
  <2>5. CASE Becomes(h, PollsOn(ops[h]))
    BY <1>1, <2>1, <2>5, BecomesEquipped
  <2> QED BY <1>4, <2>1, <2>3, <2>4, <2>5 DEF FindExistingResult, ResultsOf
<1>5. CASE ImportProviderResult(h)
  <2>1. RowsInv' BY <1>5, Untouched DEF ImportProviderResult
  <2>2. id \in ResultIds BY <1>3, <1>5 DEF ImportProviderResult
  <2>3. CASE UNCHANGED results
    <3>1. RestInv' BY <1>5, <2>3, Untouched DEF ImportProviderResult
    <3>2. CASE Becomes(h, PollsOn(ops[h]))
      BY <1>1, <2>1, <3>1, <3>2, BecomesEquipped
    <3>3. CASE Replies(h)
      BY <2>1, <3>1, <3>3, RepliesEquipped
    <3>4. CASE Becomes(h, [ops[h] EXCEPT !.pc = "claiming"])
      BY <1>2, <2>1, <2>2, <3>1, <3>4
    <3> QED BY <1>5, <3>2, <3>3, <3>4 DEF ImportProviderResult
  <2>4. CASE /\ results' = [results EXCEPT ![id] = Imported("provider", ops[h].run)]
             /\ Becomes(h, [ops[h] EXCEPT !.pc = "claiming"])
    <3>1. Imported("provider", ops[h].run) \in Results
      BY <1>0 DEF Imported, NotImported, Results, ResultGates, Ops
    <3>2. RestInv' BY <1>5, <2>4, <3>1 DEF ImportProviderResult, RestInv
    <3> QED BY <1>2, <2>1, <2>2, <2>4, <3>2
  <2> QED BY <1>5, <2>3, <2>4 DEF ImportProviderResult
<1>6. CASE ClaimEvidenceEffect(h)
  <2> DEFINE n == results[id].attempts + 1
  <2>1. RowsInv' BY <1>6, Untouched DEF ClaimEvidenceEffect
  <2>2. id \in ResultIds BY <1>3, <1>6 DEF ClaimEvidenceEffect
  <2>3. HandlersInv' BY <1>2, <1>6, <2>2 DEF ClaimEvidenceEffect
  <2>4. results' = [results EXCEPT ![id].effect = "running", ![id].attempts = n]
    BY <1>6, <2>2 DEF ClaimEvidenceEffect, RestInv
  <2>5. n \in Nat BY <2>2 DEF RestInv, Results
  <2> HIDE DEF n
  <2>6. RestInv' BY <1>6, <2>2, <2>4, <2>5 DEF ClaimEvidenceEffect, RestInv, Results
  <2> QED BY <2>1, <2>3, <2>6
<1>7. ASSUME NEW g \in ResultGates \ {"none"}, SynthesizeEvidence(h, g)
      PROVE  IInv'
  <2> DEFINE r == results[id].run
  <2>1. id \in ResultIds BY <1>3, <1>7 DEF SynthesizeEvidence
  <2>2. HandlersInv' BY <1>2, <1>7, <2>1 DEF SynthesizeEvidence
  <2>3. RestInv' BY <1>7, <2>1 DEF SynthesizeEvidence, RestInv, Results
  <2>4. runs' = [runs EXCEPT ![r] = WithEvidencePack(@, g)] BY <1>7 DEF SynthesizeEvidence
  <2> HIDE DEF r
  <2>5. RowsInv'
    <3>1. CASE r \notin RunIds
      BY <2>4, <3>1 DEF RowsInv
    <3>2. CASE r \in RunIds /\ Stored(runs[r])
      <4>1. Stored(WithEvidencePack(runs[r], g)) BY <3>2, EvidencePackContinues
      <4> QED BY <2>4, <3>2, <4>1 DEF RowsInv, Stored
    <3>3. CASE r \in RunIds /\ runs[r] = NoRow
      <4>1. WithEvidencePack(runs[r], g) = NoRow BY <3>3, NoRowType DEF WithEvidencePack
      <4> QED BY <2>4, <3>3, <4>1, NoRowType DEF RowsInv
    <3> QED BY <3>1, <3>2, <3>3 DEF RowsInv
  <2> QED BY <2>2, <2>3, <2>5
<1>8. CASE RecordResearchMemory(h)
  <2>1. id \in ResultIds BY <1>3, <1>8 DEF RecordResearchMemory
  <2>2. HandlersInv' BY <1>2, <1>8, <2>1 DEF RecordResearchMemory
  <2>3. RowsInv' BY <1>8, Untouched DEF RecordResearchMemory
  <2>4. RestInv' BY <1>8, <2>1 DEF RecordResearchMemory, RestInv
  <2> QED BY <2>2, <2>3, <2>4
<1>9. CASE SettleEvidence(h)
  <2>1. id \in ResultIds BY <1>3, <1>9 DEF SettleEvidence
  <2>2. HandlersInv' BY <1>1, <1>9, BecomesEquipped DEF SettleEvidence
  <2>3. RowsInv' BY <1>9, Untouched DEF SettleEvidence
  <2>4. RestInv' BY <1>9, <2>1 DEF SettleEvidence, RestInv, Results
  <2> QED BY <2>2, <2>3, <2>4
<1>10. CASE SourceQualityInsufficient(h)
  <2>1. id \in ResultIds BY <1>3, <1>10 DEF SourceQualityInsufficient
  <2>2. HandlersInv' BY <1>1, <1>10, BecomesEquipped DEF SourceQualityInsufficient
  <2>3. RowsInv' BY <1>10, Untouched DEF SourceQualityInsufficient
  <2>4. RestInv' BY <1>10, <2>1 DEF SourceQualityInsufficient, RestInv, Results, MaxAttempts
  <2> QED BY <2>2, <2>3, <2>4
<1>11. CASE EvidenceEffectFails(h)
  <2>1. id \in ResultIds BY <1>3, <1>11 DEF EvidenceEffectFails, At
  <2>2. HandlersInv' BY <1>1, <1>11, BecomesEquipped DEF EvidenceEffectFails
  <2>3. RowsInv' BY <1>11, Untouched DEF EvidenceEffectFails
  <2>4. RestInv' BY <1>11, <2>1 DEF EvidenceEffectFails, RestInv, Results
  <2> QED BY <2>2, <2>3, <2>4
<1> QED BY <1>4, <1>5, <1>6, <1>7, <1>8, <1>9, <1>10, <1>11

LEMMA OutsideInv ==
    ASSUME IInv, Outside
    PROVE  IInv'
<1> USE DEF IInv
<1>1. ASSUME NEW cs \in SUBSET Connectors, NEW n \in MaxConcurrentChoices,
             CreateResearchAllowlist(cs, n)
      PROVE  IInv'
  <2>1. RowsInv' /\ HandlersInv' BY <1>1, Untouched DEF CreateResearchAllowlist
  <2>2. RestInv' BY <1>1, BudgetAssumption DEF CreateResearchAllowlist, RestInv, Allowlists
  <2> QED BY <2>1, <2>2
<1>2. ASSUME NEW id \in ResultIds, NEW r \in RunIds \cup {NoRun}, ImportResearchResult(id, r)
      PROVE  IInv'
  <2>1. RowsInv' /\ HandlersInv' BY <1>2, Untouched DEF ImportResearchResult
  <2>2. Imported("manual", r) \in Results
    BY DEF Imported, NotImported, Results, ResultGates
  <2>3. RestInv' BY <1>2, <2>2 DEF ImportResearchResult, RestInv
  <2> QED BY <2>1, <2>3
<1> QED BY <1>1, <1>2 DEF Outside

LEMMA CrashInv ==
    ASSUME IInv, Crash
    PROVE  IInv'
<1> USE DEF IInv
<1>1. RowsInv' BY Untouched DEF Crash
<1>2. HandlersInv' BY IdleOpEquipped DEF Crash, HandlersInv
<1>3. RestInv' BY BudgetAssumption DEF Crash, RestInv
<1> QED BY <1>1, <1>2, <1>3

THEOREM StepInv == IInv /\ [Next]_vars => IInv'
<1> SUFFICES ASSUME IInv, [Next]_vars PROVE IInv' OBVIOUS
<1>1. CASE UNCHANGED vars
  BY <1>1, Untouched DEF IInv, vars
<1>2. CASE Outside BY <1>2, OutsideInv
<1>3. CASE Crash BY <1>3, CrashInv
<1>4. ASSUME NEW h \in Handlers, Request(h) PROVE IInv'
  BY <1>4, RequestInv
<1>5. ASSUME NEW h \in Handlers, Continue(h) PROVE IInv'
  BY <1>5, StartingInv, GoverningInv, PollingInv, EvidenceInv DEF Continue
<1> QED BY <1>1, <1>2, <1>3, <1>4, <1>5 DEF Next

\* Every variable of the specification keeps its type, for any number of runs,
\* handlers, tasks and crashes.
THEOREM TypeCorrect == Spec => []TypeOK
<1>1. Spec => []IInv BY InitInv, StepInv, PTL DEF Spec
<1> QED BY <1>1, InvariantTypes, PTL
=============================================================================
