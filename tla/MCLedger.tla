-------------------------------- MODULE MCLedger --------------------------------
(* Small instances of ImplementationStepLedger for TLC: what the payloads carry. *)
EXTENDS ImplementationStepLedger, TLC

CONSTANTS s1, s2, s3, c1, c2, k1, k2, old, new, doc, trk, shared

OneScope  == [k \in Kinds |-> IF k = "code" THEN {"feature"} ELSE {"changed_code"}]

NoReviews == [k \in Kinds |-> None]
CodeReview(id, verdict, commit) ==
    [NoReviews EXCEPT !["code"] =
        [id |-> id, scope |-> "feature", verdict |-> verdict, commit |-> commit]]
CleanReview(id, verdict, commit) ==
    [NoReviews EXCEPT !["clean"] =
        [id |-> id, scope |-> "changed_code", verdict |-> verdict, commit |-> commit]]

Payload(target, impl, revs, tests, audit, blocker) ==
    [tracker |-> trk, step |-> s1, doc |-> doc, target |-> target, started |-> TRUE, blocker |-> blocker,
     impl |-> impl, reviews |-> revs, tests |-> tests, audit |-> audit]

Commit(c) == [kind |-> "commit", commit |-> c, sound |-> TRUE]
NoCode(b) == [kind |-> "no_code", commit |-> new, sound |-> b]
Passed(c) == [outcome |-> "passed", commit |-> c]

\* Code reviews arrive with the commit or after the review was asked for, clean
\* ones while a clean review or tests are asked for.
ReviewsOf(target, ids, verdicts, cleanIds, commits) ==
    {NoReviews}
    \cup (IF target \in {"committed", "clean_code_review_required"}
          THEN {CodeReview(id, v, c) : id \in ids, v \in verdicts, c \in commits} ELSE {})
    \cup (IF target \in {"clean_code_review_required", "tests_required"}
          THEN {CleanReview(id, "no_findings", c) : id \in cleanIds, c \in commits} ELSE {})

\* Every status with its commit, and one new review or none.
Path(ids, verdicts, cleanIds, commits) ==
    UNION {{Payload(t, Commit(c), r, IF t = "completed" THEN Passed(c) ELSE None,
                    IF t = "completed" THEN "clear" ELSE "none", FALSE) :
               c \in commits, r \in ReviewsOf(t, ids, verdicts, cleanIds, commits)} :
           t \in LinearStatuses}

\* Payloads that lack or spoil something the completion asks for.
Spoiled(c) ==
    { Payload("completed", NoCode(TRUE), NoReviews, Passed(new), "clear", FALSE),
      Payload("completed", Commit(c), NoReviews, [outcome |-> "failing", commit |-> c], "clear", FALSE),
      Payload("completed", Commit(c), NoReviews, Passed(c), "gaps", FALSE),
      Payload("completed", Commit(c), NoReviews, Passed(c), "clear", TRUE),
      Payload("completed", Commit(c), NoReviews, Passed(old), "clear", FALSE),
      Payload("blocked", None, NoReviews, None, "none", TRUE) }

OnePath == Path({c1, c2}, {"no_findings", "rejected"}, {k1, k2}, {new}) \cup Spoiled(new)

\* Two steps of another ledger whose reviews use the same ids, before any of them
\* is completed.
SharedIds ==
    {[Payload(t, Commit(new), r, None, "none", FALSE) EXCEPT !.tracker = shared, !.step = s] :
        s \in {s2, s3}, t \in {"ready", "implementing"},
        r \in {NoReviews} \cup {CodeReview(id, v, new) :
                  id \in {c1, c2}, v \in {"no_findings", "rejected"}}}

\* The ledger of one step, or the one of two steps.
EitherLedger == OnePath \cup SharedIds
Lengths == [t \in Trackers |-> IF t = shared THEN 5 ELSE 9]

\* Review ids of one kind are interchangeable, and so are the two steps.
Symmetry == UNION {Permutations(S) : S \in {{c1, c2}, {k1, k2}, {s2, s3}}}
=============================================================================
