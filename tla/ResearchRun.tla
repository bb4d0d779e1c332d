------------------------------ MODULE ResearchRun ------------------------------
(***************************************************************************)
(* One row of the research_runs table: its status graph, the consistency   *)
(* the contract demands of a row, and the two writes of the repository, an *)
(* insert that gives way to a row with the same idempotency key and an     *)
(* update guarded by the row's version.                                    *)
(*                                                                         *)
(* A row is a record.  The row that does not exist yet is NoRow, whose     *)
(* version is 0 (the first version of a stored row is 1).                  *)
(***************************************************************************)
EXTENDS Naturals, FiniteSets

CONSTANTS
    RunIds,         \* identifiers a run may get
    Objectives,     \* research tasks; the objective text stands for its task
    Connectors,     \* read-only connectors
    Contexts,       \* hashes of the public-safe context sent to the provider
    NoRun,          \* "no run id"
    NoKey           \* "no idempotency key"

ASSUME RunIdsAssumption == NoRun \notin RunIds

Waiting   == {"queued", "paused"}
Verdicts  == {"accepted", "research_insufficient", "stale"}
Terminal  == Verdicts \cup {"cancelled", "failed"}
Live      == Waiting \cup {"running", "cancel_requested", "needs_review"}
Statuses  == {"absent"} \cup Live \cup Terminal
Retryable == {"failed", "stale", "research_insufficient"}

GateStatuses == {"not_evaluated", "pending_review", "passed", "insufficient", "stale"}

\* The statuses a row may move to, from each status.
SameRunTransitions(s) ==
    CASE s = "queued"           -> {"running", "paused", "cancel_requested", "cancelled"}
      [] s = "running"          -> {"needs_review", "failed", "stale", "paused", "cancel_requested"}
      [] s = "paused"           -> {"queued", "running", "cancel_requested", "cancelled"}
      [] s = "cancel_requested" -> {"cancelled", "failed"}
      [] s = "needs_review"     -> Verdicts
      [] OTHER                  -> {}

\* The quality gate that belongs to each status.
GatesOf(s) ==
    CASE s = "needs_review"            -> {"pending_review"}
      [] s = "accepted"                -> {"passed"}
      [] s = "research_insufficient"   -> {"insufficient"}
      [] s = "stale"                   -> {"stale"}
      [] s \in {"failed", "cancelled"} -> {"not_evaluated", "pending_review"}
      [] OTHER                         -> {"not_evaluated"}

\* What the idempotency key is built from.
Keys == [objective : Objectives, connector : Connectors, context : Contexts,
         allowlistVersion : Nat, attempt : Nat]

Rows == [status : Statuses, version : Nat, key : Keys \cup {NoKey},
         retryOf : RunIds \cup {NoRun}, started : BOOLEAN, completed : BOOLEAN,
         gate : GateStatuses]

NoRow == [status |-> "absent", version |-> 0, key |-> NoKey, retryOf |-> NoRun,
          started |-> FALSE, completed |-> FALSE, gate |-> "not_evaluated"]

QueuedRow(key, prior) ==
    [NoRow EXCEPT !.status = "queued", !.version = 1, !.key = key, !.retryOf = prior]

-----------------------------------------------------------------------------
(* The checks every write makes before it reaches the table.               *)

ValidRow(row) ==
    /\ row.status \in {"running", "needs_review", "failed"} \cup Verdicts => row.started
    /\ row.status \in {"needs_review"} \cup Terminal => row.completed
    /\ row.gate \in GatesOf(row.status)
    /\ row.retryOf # NoRun => row.key.attempt >= 2

\* What an update may not change: identity, and whatever was captured before.
KeepsIdentity(old, new) ==
    /\ new.key = old.key
    /\ new.retryOf = old.retryOf
    /\ old.started => new.started
    /\ old.completed => new.completed

\* The asserts of update; one that fails is an exception in the handler.
LegalUpdate(old, new) ==
    /\ ValidRow(new)
    /\ new.status \in SameRunTransitions(old.status)
    /\ KeepsIdentity(old, new)

\* Slip: the update forgets the version in its WHERE clause.
UnchangedUnversioned(old, new) == old.version # 0

\* The compare-and-swap: the row still has the version the writer read.
Unchanged(old, new) == old.version # 0 /\ new.version = old.version + 1

\* Slip: the row is written whatever became of it.
SavesAnyway(old, new) == old.version # 0

Saves(old, new) == Unchanged(old, new) /\ LegalUpdate(old, new)

\* The check a retry makes on its prior run just before the insert.
RetrySourceOK(rows, key, prior) ==
    prior # NoRun =>
        /\ rows[prior].status \in Retryable
        /\ rows[prior].key.objective = key.objective
        /\ key.attempt = rows[prior].key.attempt + 1

\* Slip: only runs still in progress are looked up by their key.
HoldersInProgress(rows, key) ==
    {r \in RunIds : rows[r].status \in Live /\ rows[r].key = key}

Holders(rows, key) == {r \in RunIds : rows[r].version # 0 /\ rows[r].key = key}

-----------------------------------------------------------------------------
(* The updates the service builds from a row it has read.                  *)

Move(row, status) ==
    [row EXCEPT !.version = @ + 1, !.status = status]

StartedRow(row) == [Move(row, "running") EXCEPT !.started = TRUE]

\* Slips: every run is cancelled outright; a running run is paused instead.
CancelledOutright(row) == [Move(row, "cancelled") EXCEPT !.completed = TRUE]

PausedIfRunning(row) ==
    IF row.status \in Waiting THEN CancelledOutright(row) ELSE Move(row, "paused")

\* A queued or paused run is cancelled outright; a running one is only asked to
\* stop, because the provider cannot be interrupted.
CancelledRow(row) ==
    IF row.status \in Waiting
    THEN [Move(row, "cancelled") EXCEPT !.completed = TRUE]
    ELSE Move(row, "cancel_requested")

DeliveredRow(row) ==
    [Move(row, "needs_review") EXCEPT !.completed = TRUE, !.gate = "pending_review"]

FailedRow(row) == [Move(row, "failed") EXCEPT !.completed = TRUE]

\* Slip: the pack's gate is stored as it is.
GateAsVerdict(g) == g

GateOfVerdict(g) ==
    CASE g = "accepted"              -> "passed"
      [] g = "research_insufficient" -> "insufficient"
      [] g = "stale"                 -> "stale"

\* A run that is still running is moved to its review first.
ReviewedRow(row) == IF row.status = "running" THEN DeliveredRow(row) ELSE row

\* Slip: only an accepted pack ends the review.
WithAcceptedEvidencePack(row, g) ==
    IF row.status \notin {"running", "needs_review"} THEN row
    ELSE IF g # "accepted" THEN ReviewedRow(row)
    ELSE [Move(ReviewedRow(row), g) EXCEPT !.gate = GateOfVerdict(g)]

\* The gate of an evidence pack reaches the run of its result as a verdict, unless
\* the pack itself needs review.  A run that was stopped, or has ended, keeps its
\* status.
WithEvidencePack(row, g) ==
    IF row.status \notin {"running", "needs_review"} THEN row
    ELSE IF g = "needs_review" THEN ReviewedRow(row)
    ELSE [Move(ReviewedRow(row), g) EXCEPT !.gate = GateOfVerdict(g)]
=============================================================================
