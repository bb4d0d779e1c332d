------------------------ MODULE ImplementationStepLedger ------------------------
(***************************************************************************)
(* The implementation step ledger of one session: the reducer of the       *)
(* RecordImplementationStepLedger command and the consistency the contract *)
(* demands of the projection it produces.                                  *)
(*                                                                         *)
(* Each accepted command appends a record of one step.  A record reaches   *)
(* its target status only with the evidence that status asks for, and is   *)
(* kept as blocked otherwise; commit, test and audit evidence come from    *)
(* the command alone, reviews accumulate over the records of the step.     *)
(* The list of records is kept here as what the reducer reads back from    *)
(* it: the newest record of each step, the last status that was not        *)
(* blocked, and the reviews.                                               *)
(***************************************************************************)
EXTENDS Naturals, Sequences, FiniteSets

CONSTANTS
    Steps,          \* step ids
    Trackers,       \* tracker documents a command may carry
    Docs,           \* step documents a command may carry
    TrackedDocs,    \* those whose scope is tracked_code_docs_config
    ScopesOf,       \* the review scopes of each kind of review
    ReviewIds,
    Commits,        \* commit ranges; a review, a test or a commit names one
    Offered,        \* the payloads commands carry (a subset of Payloads)
    MaxRecords,     \* bound on the length of a ledger, by its tracker
    None

Kinds  == {"code", "clean"}
Linear == << "planned", "ready", "implementing", "committed", "review_required",
             "clean_code_review_required", "tests_required", "completed" >>
LinearStatuses == {Linear[i] : i \in DOMAIN Linear}
Required == 2       \* no-finding passes in a row, for each scope

\* "findings": the verdict is passed, but findings are listed.
Verdicts == {"no_findings", "findings", "rejected"}
Reviews  == [id : ReviewIds, scope : UNION {ScopesOf[k] : k \in Kinds},
             verdict : Verdicts, commit : Commits]
Evidence == [kind : {"commit", "no_code"}, commit : Commits, sound : BOOLEAN]
Tests    == [outcome : {"passed", "failing", "not_run"}, commit : Commits]

Payloads ==
    [tracker : Trackers, step : Steps, doc : Docs, target : LinearStatuses \cup {"blocked"},
     started : BOOLEAN, blocker : BOOLEAN, impl : Evidence \cup {None},
     reviews : [Kinds -> Reviews \cup {None}], tests : Tests \cup {None},
     audit : {"none", "clear", "gaps"}]

ASSUME LedgerAssumption ==
    /\ MaxRecords \in [Trackers -> Nat]
    /\ TrackedDocs \subseteq Docs
    /\ Offered \subseteq Payloads
    /\ \A p \in Offered, k \in Kinds :
          p.reviews[k] # None => p.reviews[k].scope \in ScopesOf[k]

VARIABLES
    tracker,    \* the tracker document of the first record
    newest,     \* per step, the newest record
    reviews,    \* per step and kind, its reviews, one entry per review id
    register,   \* per kind, the reviews of the whole projection, one per id
    length,     \* records in the ledger
    visited     \* observation: the statuses each step was recorded in

vars == <<tracker, newest, reviews, register, length, visited>>

\* What a Map keyed by review id keeps: the first position, the last value.
Put(seq, r) ==
    IF \E i \in DOMAIN seq : seq[i].id = r.id
    THEN [i \in DOMAIN seq |-> IF seq[i].id = r.id THEN r ELSE seq[i]]
    ELSE Append(seq, r)

\* A review as it is kept, with its step.
Entry(s, r) ==
    [step |-> s, id |-> r.id, scope |-> r.scope, verdict |-> r.verdict, commit |-> r.commit]

\* The n-th smallest of a finite set of positions.
Nth(positions, n) ==
    CHOOSE i \in positions : Cardinality({j \in positions : j <= i}) = n

\* The ids of the last passes of a step in a scope, in the order of seq: the newest
\* no-finding reviews that no review with findings follows, at most Required of them.
PassIds(seq, s, scope) ==
    LET scoped == {i \in DOMAIN seq : seq[i].step = s /\ seq[i].scope = scope}
        passes == {i \in scoped : \A j \in scoped : j >= i => seq[j].verdict = "no_findings"}
        kept   == {i \in passes : Cardinality({j \in passes : j > i}) < Required}
    IN [n \in 1 .. Cardinality(kept) |-> seq[Nth(kept, n)].id]

Streaks(seq, s, kind) == [scope \in ScopesOf[kind] |-> PassIds(seq, s, scope)]

Index(status) == CHOOSE i \in DOMAIN Linear : Linear[i] = status
AtLeast(target, status) == target # "blocked" /\ Index(target) >= Index(status)

\* What a record would be made of: the payload, the newest review of each kind
\* (this one or a carried one) and the streaks with it.
Draft(s, p) ==
    LET given(k) == p.reviews[k] # None
        all == [k \in Kinds |-> IF given(k) THEN Put(reviews[s][k], Entry(s, p.reviews[k]))
                                            ELSE reviews[s][k]]
    IN [doc |-> p.doc, impl |-> p.impl, tests |-> p.tests, audit |-> p.audit,
        latest  |-> [k \in Kinds |-> IF given(k) THEN p.reviews[k]
                                                 ELSE newest[s].latest[k]],
        reviews |-> all,
        streaks |-> [k \in Kinds |-> Streaks(all[k], s, k)]]

Reviewed(d, kind) ==
    /\ d.latest[kind] # None
    /\ d.latest[kind].verdict # "rejected"
    /\ \A scope \in ScopesOf[kind] : Len(d.streaks[kind][scope]) = Required

\* Evidence the target status asks for and the draft lacks.
Missing(d, p, target) ==
    \/ target = "implementing" /\ ~p.started
    \/ AtLeast(target, "committed") /\ p.impl = None
    \/ /\ AtLeast(target, "committed")
       /\ p.doc \in TrackedDocs
       /\ p.impl # None => p.impl.kind # "commit"
    \/ p.impl # None /\ p.impl.kind = "no_code" /\ ~p.impl.sound
    \/ AtLeast(target, "clean_code_review_required") /\ ~Reviewed(d, "code")
    \/ AtLeast(target, "tests_required") /\ ~Reviewed(d, "clean")
    \/ /\ target = "completed"
       /\ \/ p.tests = None
          \/ p.tests # None /\ p.tests.outcome # "passed"
          \/ p.audit # "clear"

\* Mutants of OutOfOrder: one stage may be skipped; a status may be recorded again.
OutOfOrderByOne(s, target) ==
    /\ target # "blocked"
    /\ IF newest[s].reached = "none"
       THEN Index(target) > Index("ready")
       ELSE Index(target) - Index(newest[s].reached) \notin {0, 1, 2}

OutOfOrderAhead(s, target) ==
    /\ target # "blocked"
    /\ IF newest[s].reached = "none"
       THEN Index(target) > Index("ready")
       ELSE Index(target) > Index(newest[s].reached) + 1

\* The target must be the last status that was not blocked, or the next one.
OutOfOrder(s, target) ==
    /\ target # "blocked"
    /\ IF newest[s].reached = "none"
       THEN Index(target) > Index("ready")
       ELSE Index(target) - Index(newest[s].reached) \notin {0, 1}

Failing(d, p) ==
    \/ p.blocker
    \/ \E k \in Kinds : d.latest[k] # None /\ d.latest[k].verdict = "rejected"
    \/ p.tests # None /\ p.tests.outcome = "failing"
    \/ p.audit = "gaps"

StatusOf(s, d, p) ==
    IF Failing(d, p) \/ Missing(d, p, p.target) \/ OutOfOrder(s, p.target)
    THEN "blocked" ELSE p.target

\* The register after the record: it carries its newest review of each kind.
RegisterWith(s, d) ==
    [k \in Kinds |-> IF d.latest[k] = None THEN register[k]
                     ELSE Put(register[k], Entry(s, d.latest[k]))]

\* The streaks of a step are those of the reviews the register still holds under its
\* name.
StreaksMatch(reg, s, streaks) ==
    \A k \in Kinds : streaks[k] = Streaks(reg[k], s, k)

\* Mutants of Consistent: the streaks of other steps, or the commits, unchecked.
ConsistentAlone(s, d, p) ==
    p.tests # None /\ p.impl # None => p.tests.commit = p.impl.commit

ConsistentUnmatched(s, d, p) ==
    StreaksMatch(RegisterWith(s, d), s, d.streaks)

\* validateImplementationStepLedgerProjection, for the records that can break it.
Consistent(s, d, p) ==
    LET reg == RegisterWith(s, d) IN
    /\ p.tests # None /\ p.impl # None => p.tests.commit = p.impl.commit
    /\ \A k \in Kinds :
          d.latest[k] # None /\ p.impl # None => d.latest[k].commit = p.impl.commit
    /\ d.latest["code"] # None /\ d.latest["clean"] # None
          => d.latest["code"].id # d.latest["clean"].id
    /\ StreaksMatch(reg, s, d.streaks)
    /\ \A t \in Steps \ {s} :
          newest[t].status # "none" => StreaksMatch(reg, t, newest[t].streaks)
    /\ StatusOf(s, d, p) = "blocked"
          => Missing(d, p, p.target) \/ OutOfOrder(s, p.target) \/ Missing(d, p, "completed")

\* An accepted RecordImplementationStepLedger of step s; a rejected one changes
\* nothing.
Record(s, p) ==
    LET d == Draft(s, p)
        status == StatusOf(s, d, p)
    IN /\ length < MaxRecords[p.tracker]
       /\ tracker \in {None, p.tracker}
       /\ newest[s].status # "none" => newest[s].doc = p.doc
       /\ Consistent(s, d, p)
       /\ tracker' = p.tracker
       /\ newest' = [newest EXCEPT ![s] =
             [status |-> status, doc |-> p.doc, impl |-> p.impl, tests |-> p.tests,
              reached |-> IF status = "blocked" THEN newest[s].reached ELSE status,
              latest |-> d.latest, streaks |-> d.streaks]]
       /\ reviews' = [reviews EXCEPT ![s] = d.reviews]
       /\ register' = RegisterWith(s, d)
       /\ length' = length + 1
       /\ visited' = [visited EXCEPT ![s] = @ \cup {status}]

NoRecord(s) ==
    [status |-> "none", doc |-> None, impl |-> None, tests |-> None, reached |-> "none",
     latest |-> [k \in Kinds |-> None], streaks |-> [k \in Kinds |-> Streaks(<<>>, s, k)]]

Init ==
    /\ tracker = None
    /\ newest = [s \in Steps |-> NoRecord(s)]
    /\ reviews = [s \in Steps |-> [k \in Kinds |-> <<>>]]
    /\ register = [k \in Kinds |-> <<>>]
    /\ length = 0
    /\ visited = [s \in Steps |-> {}]

Next == \E p \in Offered : Record(p.step, p)

Spec == Init /\ [][Next]_vars

-----------------------------------------------------------------------------
(* Properties *)

Completed(s) == newest[s].status = "completed"

\* A completed step was recorded in every status from implementing on: no
\* detour through blocked records and no repeated record skips one
\* (the linear order of implementationStepLinearMissingEvidence).
NoStageSkipped ==
    \A s \in Steps : "completed" \in visited[s]
        => {Linear[i] : i \in Index("implementing") .. Len(Linear)} \subseteq visited[s]

\* A step that has been completed is never taken back to an earlier status that
\* counts as progress; later records keep it completed or blocked.
CompletedIsFinal ==
    [][\A s \in Steps : "completed" \in visited[s] => newest'[s].status \in {"completed", "blocked"}]_vars

\* One review cannot prove two steps: an id counted in a streak of one step's
\* newest record is counted for no other step (the recomputation of every
\* step's streaks from the projection-wide reviews).
ReviewProvesOneStep ==
    \A k \in Kinds, s, t \in Steps : s # t =>
        \A x, y \in ScopesOf[k] :
            LET Counted(u, scope) == {newest[u].streaks[k][scope][i] :
                                         i \in DOMAIN newest[u].streaks[k][scope]}
            IN Counted(s, x) \cap Counted(t, y) = {}

\* What a completed step was tested on is what was committed and what the newest
\* review of each kind looked at, although reviews are carried over from earlier
\* records and tests are not.
TestedWhatWasReviewed ==
    \A s \in Steps : Completed(s) =>
        /\ newest[s].impl # None /\ newest[s].tests # None
        /\ newest[s].tests.commit = newest[s].impl.commit
        /\ \A k \in Kinds : newest[s].latest[k].commit = newest[s].impl.commit
=============================================================================
