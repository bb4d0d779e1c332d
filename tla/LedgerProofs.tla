-------------------------------- MODULE LedgerProofs --------------------------------
(***************************************************************************)
(* Theorems about ImplementationStepLedger, for any steps, documents,      *)
(* review ids, commits and bounds.                                         *)
(***************************************************************************)
EXTENDS ImplementationStepLedger, FiniteSetTheorems, SequenceTheorems, TLAPS

-----------------------------------------------------------------------------
(* The linear order of the statuses                                        *)

LEMMA Indices ==
    /\ DOMAIN Linear = 1 .. 8
    /\ \A i \in 1 .. 8 : Linear[i] \in LinearStatuses /\ Index(Linear[i]) = i
    /\ \A x \in LinearStatuses : Index(x) \in 1 .. 8 /\ Linear[Index(x)] = x
    /\ "blocked" \notin LinearStatuses /\ "none" \notin LinearStatuses
    /\ Index("ready") = 2 /\ Index("implementing") = 3 /\ Index("completed") = 8 /\ Len(Linear) = 8
    /\ "completed" = Linear[8]
<1>1. DOMAIN Linear = 1 .. 8 /\ Len(Linear) = 8
  BY DEF Linear
<1>2. \A i, j \in 1 .. 8 : Linear[i] = Linear[j] => i = j
  BY DEF Linear
<1>3. \A i \in 1 .. 8 : Linear[i] \in LinearStatuses
  BY <1>1 DEF LinearStatuses
<1>4. ASSUME NEW x \in LinearStatuses PROVE Index(x) \in 1 .. 8 /\ Linear[Index(x)] = x
  <2>1. \E i \in DOMAIN Linear : Linear[i] = x
    BY DEF LinearStatuses
  <2> QED BY <1>1, <2>1 DEF Index
<1>5. \A i \in 1 .. 8 : Index(Linear[i]) = i
  BY <1>2, <1>3, <1>4
<1>6. "blocked" \notin LinearStatuses /\ "none" \notin LinearStatuses
  BY <1>1 DEF LinearStatuses, Linear
<1>7. Linear[2] = "ready" /\ Linear[3] = "implementing" /\ Linear[8] = "completed"
  BY DEF Linear
<1> QED BY <1>1, <1>3, <1>4, <1>5, <1>6, <1>7

-----------------------------------------------------------------------------
(* The inductive invariant.  The code compares a target with the last      *)
(* status that was not blocked alone; what was visited on the way to it is *)
(* nowhere stored.                                                         *)

\* The visited statuses are those up to the one reached, from implementing on all of them.
OnPath(s) ==
    LET r == newest[s].reached
    IN  /\ r \in LinearStatuses \cup {"none"}
        /\ newest[s].status \in {"blocked", r}
        /\ visited[s] \subseteq LinearStatuses \cup {"blocked"}
        /\ r = "none" => visited[s] \subseteq {"blocked"}
        /\ r # "none" =>
              /\ \A i \in 3 .. Index(r) : Linear[i] \in visited[s]
              /\ \A x \in visited[s] \ {"blocked"} : Index(x) <= Index(r)

PathInv ==
    /\ newest = [s \in Steps |-> newest[s]]
    /\ visited = [s \in Steps |-> visited[s]]
    /\ \A s \in Steps : OnPath(s)

\* What a record does to its step.
LEMMA Recorded ==
    ASSUME PathInv, NEW s \in Steps, NEW p \in Payloads, Record(s, p)
    PROVE  LET d == Draft(s, p)
               status == StatusOf(s, d, p)
           IN  /\ newest'[s].status = status
               /\ newest'[s].reached = IF status = "blocked" THEN newest[s].reached ELSE status
               /\ newest'[s].impl = p.impl /\ newest'[s].tests = p.tests
               /\ newest'[s].latest = d.latest
               /\ visited'[s] = visited[s] \cup {status}
               /\ \A t \in Steps \ {s} : newest'[t] = newest[t] /\ visited'[t] = visited[t]
               /\ newest' = [t \in Steps |-> newest'[t]] /\ visited' = [t \in Steps |-> visited'[t]]
               /\ Consistent(s, d, p)
<1> DEFINE d == Draft(s, p)
           status == StatusOf(s, d, p)
           row == [status |-> status, doc |-> p.doc, impl |-> p.impl, tests |-> p.tests,
                   reached |-> IF status = "blocked" THEN newest[s].reached ELSE status,
                   latest |-> d.latest, streaks |-> d.streaks]
<1>1. /\ newest' = [newest EXCEPT ![s] = row]
      /\ visited' = [visited EXCEPT ![s] = @ \cup {status}]
      /\ Consistent(s, d, p)
  BY DEF Record
<1>2. /\ row.status = status /\ row.impl = p.impl /\ row.tests = p.tests /\ row.latest = d.latest
      /\ row.reached = IF status = "blocked" THEN newest[s].reached ELSE status
  OBVIOUS
<1> HIDE DEF row, status, d
<1>3. newest'[s] = row /\ visited'[s] = visited[s] \cup {status}
  BY <1>1 DEF PathInv
<1>4. \A t \in Steps \ {s} : newest'[t] = newest[t] /\ visited'[t] = visited[t]
  BY <1>1 DEF PathInv
<1>5. newest' = [t \in Steps |-> newest'[t]] /\ visited' = [t \in Steps |-> visited'[t]]
  BY <1>1 DEF PathInv
<1> QED BY <1>1, <1>2, <1>3, <1>4, <1>5 DEF row, status, d

\* A record that is not blocked has its target, the status reached or the next.
LEMMA InOrder ==
    ASSUME NEW s \in Steps, NEW p \in Payloads, NEW d, newest[s].reached \in LinearStatuses \cup {"none"},
           StatusOf(s, d, p) # "blocked"
    PROVE  /\ StatusOf(s, d, p) = p.target /\ p.target \in LinearStatuses
           /\ newest[s].reached = "none" => Index(p.target) <= 2
           /\ newest[s].reached # "none" =>
                 Index(p.target) = Index(newest[s].reached) \/ Index(p.target) = Index(newest[s].reached) + 1
<1>1. /\ StatusOf(s, d, p) = p.target /\ p.target # "blocked" /\ ~OutOfOrder(s, p.target)
  BY DEF StatusOf
<1>2. p.target \in LinearStatuses
  BY <1>1 DEF Payloads
<1> QED BY <1>1, <1>2, Indices DEF OutOfOrder

LEMMA PathStep ==
    ASSUME PathInv, NEW s \in Steps, NEW p \in Payloads, Record(s, p)
    PROVE  PathInv'
<1> DEFINE d == Draft(s, p)
           status == StatusOf(s, d, p)
           r == newest[s].reached
<1>1. /\ newest'[s].reached = IF status = "blocked" THEN r ELSE status
      /\ newest'[s].status = status
      /\ visited'[s] = visited[s] \cup {status}
      /\ \A t \in Steps \ {s} : newest'[t] = newest[t] /\ visited'[t] = visited[t]
      /\ newest' = [t \in Steps |-> newest'[t]] /\ visited' = [t \in Steps |-> visited'[t]]
  BY Recorded
<1>2. OnPath(s) /\ r \in LinearStatuses \cup {"none"}
  BY DEF PathInv, OnPath
<1>3. status # "blocked" =>
         /\ status \in LinearStatuses
         /\ r = "none" => Index(status) <= 2
         /\ r # "none" => Index(status) = Index(r) \/ Index(status) = Index(r) + 1
  BY <1>2, InOrder
<1> HIDE DEF d, status
<1>4. OnPath(s)'
  <2>1. CASE status = "blocked"
    BY <1>1, <1>2, <2>1, Indices DEF OnPath
  <2>2. CASE status # "blocked" /\ r = "none"
    BY <1>1, <1>2, <1>3, <2>2, Indices DEF OnPath
  <2>3. CASE status # "blocked" /\ r # "none"
    <3>1. /\ status \in LinearStatuses /\ r \in LinearStatuses
          /\ Index(status) \in 1 .. 8 /\ Index(r) \in 1 .. 8 /\ Linear[Index(status)] = status
          /\ status # "none"
      BY <1>2, <1>3, <2>3, Indices
    <3>2. Index(status) = Index(r) \/ Index(status) = Index(r) + 1
      BY <1>3, <2>3
    <3>3. ASSUME NEW i \in 3 .. Index(status) PROVE Linear[i] \in visited'[s]
      BY <1>1, <1>2, <2>3, <3>1, <3>2, <3>3 DEF OnPath
    <3>4. ASSUME NEW x \in visited'[s] \ {"blocked"} PROVE Index(x) <= Index(status)
      <4>1. CASE x = status
        BY <3>1, <4>1
      <4>2. CASE x \in visited[s]
        <5>1. x \in LinearStatuses /\ Index(x) <= Index(r) /\ Index(x) \in 1 .. 8
          BY <1>2, <2>3, <3>4, <4>2, Indices DEF OnPath
        <5> QED BY <3>1, <3>2, <5>1
      <4> QED BY <1>1, <3>4, <4>1, <4>2
    <3> QED BY <1>1, <1>2, <2>3, <3>1, <3>3, <3>4 DEF OnPath
  <2> QED BY <2>1, <2>2, <2>3
<1>5. ASSUME NEW t \in Steps, t # s PROVE OnPath(t)'
  BY <1>1, <1>5 DEF PathInv, OnPath
<1> QED BY <1>1, <1>4, <1>5 DEF PathInv

LEMMA Stutter ==
    ASSUME UNCHANGED vars
    PROVE  newest' = newest /\ visited' = visited
BY DEF vars

LEMMA NextIsRecord ==
    ASSUME [Next]_vars
    PROVE  (\E p \in Payloads : p.step \in Steps /\ Record(p.step, p)) \/ UNCHANGED vars
<1>1. \A p \in Offered : p \in Payloads /\ p.step \in Steps
  BY LedgerAssumption DEF Payloads
<1> QED BY <1>1 DEF Next

LEMMA PathInvariance == Spec => []PathInv
<1>1. Init => PathInv
  BY DEF Init, PathInv, OnPath, NoRecord
<1>2. PathInv /\ [Next]_vars => PathInv'
  <2> SUFFICES ASSUME PathInv, [Next]_vars PROVE PathInv'
    OBVIOUS
  <2>1. CASE UNCHANGED vars
    BY <2>1, Stutter DEF PathInv, OnPath
  <2>2. ASSUME NEW p \in Payloads, p.step \in Steps, Record(p.step, p) PROVE PathInv'
    <3>1. PICK s \in Steps : s = p.step
      BY <2>2
    <3>2. Record(s, p)
      BY <2>2, <3>1
    <3> QED BY <3>2, PathStep
  <2> QED BY <2>1, <2>2, NextIsRecord
<1> QED BY <1>1, <1>2, PTL DEF Spec

-----------------------------------------------------------------------------
(* The properties                                                          *)

LEMMA ReachedCompleted ==
    ASSUME PathInv, NEW s \in Steps, "completed" \in visited[s]
    PROVE  newest[s].reached = "completed"
<1>1. OnPath(s)
  BY DEF PathInv
<1>2. newest[s].reached \in LinearStatuses /\ 8 <= Index(newest[s].reached)
  BY <1>1, Indices DEF OnPath
<1> QED BY <1>2, Indices

\* A completed step was recorded in every status from implementing on, however long the
\* ledger and whatever was blocked on the way.
THEOREM NoneSkipped == Spec => []NoStageSkipped
<1>1. PathInv => NoStageSkipped
  <2> SUFFICES ASSUME PathInv, NEW s \in Steps, "completed" \in visited[s],
                      NEW i \in Index("implementing") .. Len(Linear)
               PROVE  Linear[i] \in visited[s]
    BY DEF NoStageSkipped
  <2>1. newest[s].reached = "completed" /\ OnPath(s)
    BY ReachedCompleted DEF PathInv
  <2> QED BY <2>1, Indices DEF OnPath
<1> QED BY <1>1, PathInvariance, PTL

LEMMA FinalStep ==
    ASSUME PathInv, NEW p \in Payloads, NEW made \in Steps, Record(made, p),
           NEW s \in Steps, "completed" \in visited[s]
    PROVE  newest'[s].status \in {"completed", "blocked"}
<1>1. newest[s].reached = "completed" /\ OnPath(s)
  BY ReachedCompleted DEF PathInv
<1>2. CASE s # made
  <2>1. newest'[s] = newest[s]
    BY <1>2, Recorded
  <2> QED BY <1>1, <2>1 DEF OnPath
<1>3. CASE s = made
  <2> DEFINE d == Draft(s, p)
             status == StatusOf(s, d, p)
  <2>1. newest'[s].status = status
    BY <1>3, Recorded
  <2>2. CASE status # "blocked"
    <3>1. /\ status \in LinearStatuses
          /\ Index(status) = 8 \/ Index(status) = 9
      BY <1>1, <2>2, InOrder, Indices
    <3>2. status = "completed"
      BY <3>1, Indices
    <3> QED BY <2>1, <3>2
  <2> QED BY <2>1, <2>2
<1> QED BY <1>2, <1>3

\* A step that has been completed is never taken back to an earlier status, whatever is
\* recorded afterwards for it or for other steps.
THEOREM CompletedStays == Spec => CompletedIsFinal
<1>1. PathInv /\ [Next]_vars =>
         [\A s \in Steps : "completed" \in visited[s] => newest'[s].status \in {"completed", "blocked"}]_vars
  <2> SUFFICES ASSUME PathInv, NEW p \in Payloads, p.step \in Steps, Record(p.step, p),
                      NEW s \in Steps, "completed" \in visited[s]
               PROVE  newest'[s].status \in {"completed", "blocked"}
    BY NextIsRecord
  <2>1. PICK made \in Steps : made = p.step
    OBVIOUS
  <2>2. Record(made, p)
    BY <2>1
  <2> QED BY <2>2, FinalStep
<1> QED BY <1>1, PathInvariance, PTL DEF Spec, CompletedIsFinal

\* What completes a step is checked on one draft, its carried reviews with the evidence of
\* the command.
LEMMA CompletedDraft ==
    ASSUME NEW s \in Steps, NEW p \in Payloads, NEW d, Consistent(s, d, p), StatusOf(s, d, p) = "completed"
    PROVE  /\ p.impl # None /\ p.tests # None
           /\ p.tests.commit = p.impl.commit
           /\ \A k \in Kinds : d.latest[k].commit = p.impl.commit
<1>1. p.target = "completed" /\ ~Missing(d, p, "completed")
  BY DEF StatusOf
<1>2. \A x \in LinearStatuses : AtLeast("completed", x)
  BY Indices DEF AtLeast
<1>3. {"committed", "clean_code_review_required", "tests_required"} \subseteq LinearStatuses
  <2>1. Linear[4] = "committed" /\ Linear[6] = "clean_code_review_required" /\ Linear[7] = "tests_required"
    BY DEF Linear
  <2> QED BY <2>1, Indices
<1>4. p.impl # None /\ p.tests # None /\ Reviewed(d, "code") /\ Reviewed(d, "clean")
  BY <1>1, <1>2, <1>3 DEF Missing
<1>5. \A k \in Kinds : d.latest[k] # None
  BY <1>4 DEF Reviewed, Kinds
<1> QED BY <1>4, <1>5 DEF Consistent

\* What a completed step was tested on is what was committed and what the newest review of
\* each kind looked at.
THEOREM TestedAsReviewed == Spec => []TestedWhatWasReviewed
<1>1. Init => TestedWhatWasReviewed
  BY DEF Init, TestedWhatWasReviewed, Completed, NoRecord
<1>2. PathInv /\ TestedWhatWasReviewed /\ [Next]_vars => TestedWhatWasReviewed'
  <2> SUFFICES ASSUME PathInv, TestedWhatWasReviewed, [Next]_vars PROVE TestedWhatWasReviewed'
    OBVIOUS
  <2>1. CASE UNCHANGED vars
    BY <2>1, Stutter DEF TestedWhatWasReviewed, Completed
  <2>2. ASSUME NEW p \in Payloads, NEW s \in Steps, Record(s, p) PROVE TestedWhatWasReviewed'
    <3> DEFINE d == Draft(s, p)
    <3>1. /\ newest'[s].status = StatusOf(s, d, p) /\ newest'[s].impl = p.impl
          /\ newest'[s].tests = p.tests /\ newest'[s].latest = d.latest
          /\ \A t \in Steps \ {s} : newest'[t] = newest[t]
          /\ Consistent(s, d, p)
      BY <2>2, Recorded
    <3> HIDE DEF d
    <3>2. ASSUME NEW t \in Steps, newest'[t].status = "completed"
          PROVE  /\ newest'[t].impl # None /\ newest'[t].tests # None
                 /\ newest'[t].tests.commit = newest'[t].impl.commit
                 /\ \A k \in Kinds : newest'[t].latest[k].commit = newest'[t].impl.commit
      <4>1. CASE t = s
        BY <3>1, <3>2, <4>1, CompletedDraft
      <4>2. CASE t # s
        BY <3>1, <3>2, <4>2 DEF TestedWhatWasReviewed, Completed
      <4> QED BY <4>1, <4>2
    <3> QED BY <3>2 DEF TestedWhatWasReviewed, Completed
  <2>3. ASSUME NEW p \in Payloads, p.step \in Steps, Record(p.step, p) PROVE TestedWhatWasReviewed'
    <3>1. PICK s \in Steps : s = p.step
      BY <2>3
    <3> QED BY <2>2, <2>3, <3>1
  <2> QED BY <2>1, <2>3, NextIsRecord
<1> QED BY <1>1, <1>2, PathInvariance, PTL DEF Spec

-----------------------------------------------------------------------------
(* The reviews of the whole ledger.  The register keeps one review per id, *)
(* with the step it was last recorded for; every record recounts the       *)
(* streaks of every step from it.                                          *)

\* The positions up to i, as many as the rank of i: the ranks of the positions are 1, 2, ..,
\* each taken once, so that there is an n-th smallest of them.
LEMMA NthIsMember ==
    ASSUME NEW P \in SUBSET Nat, IsFiniteSet(P), NEW n \in 1 .. Cardinality(P)
    PROVE  Nth(P, n) \in P
<1> DEFINE UpTo(i) == {j \in P : j <= i}
           rank == [i \in P |-> Cardinality(UpTo(i))]
           ranks == 1 .. Cardinality(P)
<1>1. Cardinality(P) \in Nat
  BY FS_CardinalityType
<1>2. ASSUME NEW i \in P PROVE rank[i] \in ranks
  <2>1. UpTo(i) \in SUBSET P /\ UpTo(i) # {}
    OBVIOUS
  <2>2. IsFiniteSet(UpTo(i)) /\ Cardinality(UpTo(i)) <= Cardinality(P)
    BY <2>1, FS_Subset
  <2>3. Cardinality(UpTo(i)) \in Nat /\ Cardinality(UpTo(i)) # 0
    BY <2>1, <2>2, FS_CardinalityType, FS_EmptySet
  <2> HIDE DEF UpTo
  <2> QED BY <1>1, <2>2, <2>3
<1>3. ASSUME NEW i \in P, NEW j \in P, i < j PROVE rank[i] # rank[j]
  <2>1. UpTo(j) \in SUBSET P /\ UpTo(i) \in SUBSET UpTo(j) /\ UpTo(i) # UpTo(j)
    <3>1. i \in Nat /\ j \in Nat /\ \A m \in P : m \in Nat
      OBVIOUS
    <3>2. j \in UpTo(j) /\ j \notin UpTo(i)
      BY <1>3, <3>1
    <3>3. \A m \in P : m <= i => m <= j
      BY <1>3, <3>1
    <3> QED BY <3>2, <3>3
  <2>2. Cardinality(UpTo(i)) # Cardinality(UpTo(j))
    <3> HIDE DEF UpTo
    <3>1. IsFiniteSet(UpTo(j))
      BY <2>1, FS_Subset
    <3> QED BY <2>1, <3>1, FS_Subset
  <2> HIDE DEF UpTo
  <2> QED BY <2>2
<1>4. rank \in [P -> ranks]
  BY <1>2
<1>5. \A i, j \in P : rank[i] = rank[j] => i = j
  <2> HIDE DEF rank
  <2> SUFFICES ASSUME NEW i \in P, NEW j \in P, i # j PROVE rank[i] # rank[j]
    OBVIOUS
  <2>1. i < j \/ j < i
    OBVIOUS
  <2> QED BY <2>1, <1>3
<1>6. rank \in Surjection(P, ranks)
  <2> HIDE DEF rank
  <2>1. rank \in Injection(P, ranks)
    BY <1>4, <1>5 DEF Injection, IsInjective
  <2>2. IsFiniteSet(ranks) /\ Cardinality(ranks) = Cardinality(P)
    BY <1>1, FS_Interval
  <2> HIDE DEF ranks
  <2> QED BY <2>1, <2>2, FS_Injection
<1>7. \E i \in P : Cardinality({j \in P : j <= i}) = n
  <2>1. \E i \in P : rank[i] = n
    <3> HIDE DEF rank
    <3> QED BY <1>6 DEF Surjection
  <2> QED BY <2>1
<1> QED BY <1>7 DEF Nth

\* A review counted for a step is one the sequence holds under its name.
LEMMA CountedIsHeld ==
    ASSUME NEW E, NEW seq \in Seq(E), NEW s, NEW scope, NEW i \in DOMAIN PassIds(seq, s, scope)
    PROVE  \E j \in DOMAIN seq : seq[j].step = s /\ seq[j].id = PassIds(seq, s, scope)[i]
<1> DEFINE scoped == {j \in DOMAIN seq : seq[j].step = s /\ seq[j].scope = scope}
           passes == {j \in scoped : \A m \in scoped : m >= j => seq[m].verdict = "no_findings"}
           kept   == {j \in passes : Cardinality({m \in passes : m > j}) < Required}
<1>1. PassIds(seq, s, scope) = [n \in 1 .. Cardinality(kept) |-> seq[Nth(kept, n)].id]
  BY DEF PassIds
<1>2. kept \in SUBSET DOMAIN seq /\ \A j \in kept : seq[j].step = s
  OBVIOUS
<1> HIDE DEF kept
<1>3. DOMAIN seq = 1 .. Len(seq) /\ Len(seq) \in Nat
  OBVIOUS
<1>4. IsFiniteSet(kept) /\ kept \in SUBSET Nat
  <2>1. IsFiniteSet(1 .. Len(seq))
    BY <1>3, FS_Interval
  <2> QED BY <1>2, <1>3, <2>1, FS_Subset
<1>5. i \in 1 .. Cardinality(kept) /\ PassIds(seq, s, scope)[i] = seq[Nth(kept, i)].id
  BY <1>1
<1>6. Nth(kept, i) \in kept
  BY <1>4, <1>5, NthIsMember
<1> QED BY <1>2, <1>5, <1>6

\* No review is counted of an empty sequence.
LEMMA NoneCounted ==
    ASSUME NEW s, NEW scope
    PROVE  DOMAIN PassIds(<<>>, s, scope) = {}
<1> SUFFICES ASSUME NEW i \in DOMAIN PassIds(<<>>, s, scope) PROVE FALSE
  OBVIOUS
<1>1. <<>> \in Seq({})
  BY EmptySeq
<1>2. \E j \in DOMAIN <<>> : TRUE
  BY <1>1, CountedIsHeld
<1> QED BY <1>2

Entries ==
    [step : Steps, id : ReviewIds, scope : UNION {ScopesOf[k] : k \in Kinds},
     verdict : Verdicts, commit : Commits]

OnePerId(seq) == \A i, j \in DOMAIN seq : seq[i].id = seq[j].id => i = j

\* A Map keeps one review per id.
LEMMA PutKeepsOnePerId ==
    ASSUME NEW seq \in Seq(Entries), OnePerId(seq), NEW e \in Entries
    PROVE  Put(seq, e) \in Seq(Entries) /\ OnePerId(Put(seq, e))
<1>1. CASE \E i \in DOMAIN seq : seq[i].id = e.id
  <2> DEFINE put == [i \in DOMAIN seq |-> IF seq[i].id = e.id THEN e ELSE seq[i]]
  <2>1. Put(seq, e) = put
    BY <1>1 DEF Put
  <2>2. DOMAIN seq = 1 .. Len(seq) /\ Len(seq) \in Nat /\ \A i \in 1 .. Len(seq) : seq[i] \in Entries
    BY ElementOfSeq
  <2>3. put \in [1 .. Len(seq) -> Entries]
    BY <2>2
  <2>4. put \in Seq(Entries)
    <3> HIDE DEF put
    <3> QED BY <2>2, <2>3
  <2>5. DOMAIN put = DOMAIN seq /\ \A i \in DOMAIN seq : put[i].id = seq[i].id
    OBVIOUS
  <2> HIDE DEF put
  <2> QED BY <2>1, <2>4, <2>5 DEF OnePerId
<1>2. CASE ~ \E i \in DOMAIN seq : seq[i].id = e.id
  <2>1. Put(seq, e) = Append(seq, e)
    BY <1>2 DEF Put
  <2> DEFINE put == Append(seq, e)
             n == Len(seq)
  <2>2. /\ put \in Seq(Entries) /\ Len(put) = n + 1
        /\ \A i \in 1 .. n : put[i] = seq[i]
        /\ put[n + 1] = e
    BY AppendProperties
  <2>3. DOMAIN seq = 1 .. n /\ n \in Nat
    OBVIOUS
  <2> HIDE DEF put, n
  <2>4. DOMAIN put = 1 .. n + 1
    BY <2>2
  <2>5. ASSUME NEW i \in DOMAIN put, NEW j \in DOMAIN put, put[i].id = put[j].id PROVE i = j
    <3>1. CASE i \in 1 .. n /\ j \in 1 .. n
      BY <2>2, <2>3, <2>5, <3>1 DEF OnePerId
    <3>2. CASE i = n + 1 /\ j = n + 1
      BY <3>2
    <3>3. CASE i \in 1 .. n /\ j = n + 1
      BY <1>2, <2>2, <2>3, <2>5, <3>3
    <3>4. CASE i = n + 1 /\ j \in 1 .. n
      BY <1>2, <2>2, <2>3, <2>5, <3>4
    <3> QED BY <2>3, <2>4, <3>1, <3>2, <3>3, <3>4
  <2> QED BY <2>1, <2>2, <2>5 DEF OnePerId, put
<1> QED BY <1>1, <1>2

\* The register, the newest reviews that feed it, and the streaks of every recorded step,
\* which are those the register proves.  A step without a record has none.
Streaked(s) ==
    /\ newest[s].latest \in [Kinds -> Reviews \cup {None}]
    /\ newest[s].status = "none" => newest[s] = NoRecord(s)
    /\ newest[s].status # "none" => StreaksMatch(register, s, newest[s].streaks)

RegisterInv ==
    /\ register \in [Kinds -> Seq(Entries)]
    /\ \A k \in Kinds : OnePerId(register[k])
    /\ \A s \in Steps : Streaked(s)

\* The register after a record still holds one review per id.
LEMMA RegisterKept ==
    ASSUME RegisterInv, NEW s \in Steps, NEW d, d.latest \in [Kinds -> Reviews \cup {None}]
    PROVE  LET reg == RegisterWith(s, d)
           IN  reg \in [Kinds -> Seq(Entries)] /\ \A k \in Kinds : OnePerId(reg[k])
<1> DEFINE reg == RegisterWith(s, d)
<1>1. ASSUME NEW k \in Kinds PROVE reg[k] \in Seq(Entries) /\ OnePerId(reg[k])
  <2>1. register[k] \in Seq(Entries) /\ OnePerId(register[k])
    BY DEF RegisterInv
  <2>2. CASE d.latest[k] = None
    BY <2>1, <2>2 DEF RegisterWith
  <2>3. CASE d.latest[k] # None
    <3>1. d.latest[k] \in Reviews
      BY <2>3
    <3>2. Entry(s, d.latest[k]) \in Entries
      BY <3>1 DEF Entry, Entries, Reviews
    <3>3. reg[k] = Put(register[k], Entry(s, d.latest[k]))
      BY <2>3 DEF RegisterWith
    <3> QED BY <2>1, <3>2, <3>3, PutKeepsOnePerId
  <2> QED BY <2>2, <2>3
<1>2. reg = [k \in Kinds |-> reg[k]]
  BY DEF RegisterWith
<1> HIDE DEF reg
<1>3. reg \in [Kinds -> Seq(Entries)]
  BY <1>1, <1>2
<1> QED BY <1>1, <1>3 DEF reg

LEMMA DraftLatest ==
    ASSUME NEW s \in Steps, NEW p \in Payloads, newest[s].latest \in [Kinds -> Reviews \cup {None}]
    PROVE  Draft(s, p).latest \in [Kinds -> Reviews \cup {None}]
<1>1. p.reviews \in [Kinds -> Reviews \cup {None}]
  BY DEF Payloads
<1>2. Draft(s, p).latest = [k \in Kinds |-> IF p.reviews[k] # None THEN p.reviews[k]
                                            ELSE newest[s].latest[k]]
  BY DEF Draft
<1>3. \A k \in Kinds : Draft(s, p).latest[k] \in Reviews \cup {None}
  BY <1>1, <1>2
<1> QED BY <1>2, <1>3

\* A record counts the streaks of its step and of every other step from the register that
\* it leaves.
LEMMA RegisterStep ==
    ASSUME PathInv, RegisterInv, NEW s \in Steps, NEW p \in Payloads, Record(s, p)
    PROVE  RegisterInv'
<1> DEFINE d == Draft(s, p)
           status == StatusOf(s, d, p)
           reg == RegisterWith(s, d)
<1>1. /\ newest'[s].status = status
      /\ newest'[s].latest = d.latest
      /\ \A t \in Steps \ {s} : newest'[t] = newest[t]
      /\ Consistent(s, d, p)
  BY Recorded
<1>2. newest'[s].streaks = d.streaks
  <2> DEFINE row == [status |-> status, doc |-> p.doc, impl |-> p.impl, tests |-> p.tests,
                     reached |-> IF status = "blocked" THEN newest[s].reached ELSE status,
                     latest |-> d.latest, streaks |-> d.streaks]
  <2>1. newest' = [newest EXCEPT ![s] = row]
    BY DEF Record
  <2>2. row.streaks = d.streaks
    OBVIOUS
  <2> HIDE DEF row, d
  <2>3. newest'[s] = row
    BY <2>1 DEF PathInv
  <2> QED BY <2>2, <2>3
<1>3. register' = reg
  BY DEF Record
<1>4. status # "none"
  <2>1. p.target \in LinearStatuses \cup {"blocked"}
    BY DEF Payloads
  <2> QED BY <2>1, Indices DEF StatusOf
<1>5. d.latest \in [Kinds -> Reviews \cup {None}]
  BY DraftLatest DEF RegisterInv, Streaked
<1>6. reg \in [Kinds -> Seq(Entries)] /\ \A k \in Kinds : OnePerId(reg[k])
  <2> HIDE DEF d
  <2> QED BY <1>5, RegisterKept
<1> HIDE DEF d, status, reg
<1>7. /\ StreaksMatch(reg, s, d.streaks)
      /\ \A t \in Steps \ {s} : newest[t].status # "none" => StreaksMatch(reg, t, newest[t].streaks)
  BY <1>1 DEF Consistent, reg
<1>8. ASSUME NEW t \in Steps PROVE Streaked(t)'
  <2>1. CASE t = s
    <3>1. StreaksMatch(register', s, newest'[s].streaks)
      BY <1>2, <1>3, <1>7
    <3>2. newest'[s].latest \in [Kinds -> Reviews \cup {None}] /\ newest'[s].status # "none"
      BY <1>1, <1>4, <1>5
    <3> QED BY <2>1, <3>1, <3>2 DEF Streaked, StreaksMatch
  <2>2. CASE t # s
    <3>1. newest'[t] = newest[t] /\ Streaked(t)
      BY <1>1, <2>2 DEF RegisterInv
    <3>2. newest[t].status # "none" => StreaksMatch(register', t, newest'[t].streaks)
      BY <1>3, <1>7, <2>2, <3>1
    <3> QED BY <3>1, <3>2 DEF Streaked, StreaksMatch, NoRecord
  <2> QED BY <2>1, <2>2
<1> QED BY <1>3, <1>6, <1>8 DEF RegisterInv, OnePerId

LEMMA RegisterInvariance == Spec => []RegisterInv
<1>1. Init => RegisterInv
  <2> SUFFICES ASSUME Init PROVE RegisterInv
    OBVIOUS
  <2>1. register = [k \in Kinds |-> <<>>] /\ newest = [s \in Steps |-> NoRecord(s)]
    BY DEF Init
  <2>2. <<>> \in Seq(Entries) /\ OnePerId(<<>>)
    BY EmptySeq DEF OnePerId
  <2>3. ASSUME NEW s \in Steps PROVE Streaked(s)
    <3>1. newest[s] = NoRecord(s)
      BY <2>1
    <3>2. NoRecord(s).status = "none" /\ NoRecord(s).latest \in [Kinds -> Reviews \cup {None}]
      BY DEF NoRecord
    <3> QED BY <3>1, <3>2 DEF Streaked
  <2> QED BY <2>1, <2>2, <2>3 DEF RegisterInv
<1>2. PathInv /\ RegisterInv /\ [Next]_vars => RegisterInv'
  <2> SUFFICES ASSUME PathInv, RegisterInv, [Next]_vars PROVE RegisterInv'
    OBVIOUS
  <2>1. CASE UNCHANGED vars
    BY <2>1 DEF vars, RegisterInv, Streaked, StreaksMatch, NoRecord
  <2>2. ASSUME NEW p \in Payloads, p.step \in Steps, Record(p.step, p) PROVE RegisterInv'
    <3>1. PICK s \in Steps : s = p.step
      BY <2>2
    <3>2. Record(s, p)
      BY <2>2, <3>1
    <3> QED BY <3>2, RegisterStep
  <2> QED BY <2>1, <2>2, NextIsRecord
<1> QED BY <1>1, <1>2, PathInvariance, PTL DEF Spec

\* A review counted for a step is one the register holds under its name.
LEMMA CountedIsRegistered ==
    ASSUME RegisterInv, NEW k \in Kinds, NEW s \in Steps, NEW scope \in ScopesOf[k],
           NEW i \in DOMAIN newest[s].streaks[k][scope]
    PROVE  \E j \in DOMAIN register[k] :
              register[k][j].step = s /\ register[k][j].id = newest[s].streaks[k][scope][i]
<1>1. Streaked(s) /\ register[k] \in Seq(Entries)
  BY DEF RegisterInv
<1>2. CASE newest[s].status = "none"
  <2>1. newest[s].streaks[k] = Streaks(<<>>, s, k)
    BY <1>1, <1>2 DEF Streaked, NoRecord
  <2>2. newest[s].streaks[k][scope] = PassIds(<<>>, s, scope)
    BY <2>1 DEF Streaks
  <2> QED BY <2>2, NoneCounted
<1>3. CASE newest[s].status # "none"
  <2>1. newest[s].streaks[k] = Streaks(register[k], s, k)
    BY <1>1, <1>3 DEF Streaked, StreaksMatch
  <2>2. newest[s].streaks[k][scope] = PassIds(register[k], s, scope)
    BY <2>1 DEF Streaks
  <2> QED BY <1>1, <2>2, CountedIsHeld
<1> QED BY <1>2, <1>3

\* One review cannot prove two steps, however many steps share a ledger and however often
\* an id is used again: what a record takes over under its own name it takes from the step
\* that had it, whose streaks then no longer match, and the projection is rejected.
THEOREM ReviewsProveOneStep == Spec => []ReviewProvesOneStep
<1>1. RegisterInv => ReviewProvesOneStep
  <2> SUFFICES ASSUME RegisterInv, NEW k \in Kinds, NEW s \in Steps, NEW t \in Steps, s # t,
                      NEW x \in ScopesOf[k], NEW y \in ScopesOf[k],
                      NEW i \in DOMAIN newest[s].streaks[k][x], NEW j \in DOMAIN newest[t].streaks[k][y],
                      newest[s].streaks[k][x][i] = newest[t].streaks[k][y][j]
               PROVE  FALSE
    BY DEF ReviewProvesOneStep
  <2>1. PICK a \in DOMAIN register[k] :
           register[k][a].step = s /\ register[k][a].id = newest[s].streaks[k][x][i]
    BY CountedIsRegistered
  <2>2. PICK b \in DOMAIN register[k] :
           register[k][b].step = t /\ register[k][b].id = newest[t].streaks[k][y][j]
    BY CountedIsRegistered
  <2>3. a = b
    BY <2>1, <2>2 DEF RegisterInv, OnePerId
  <2> QED BY <2>1, <2>2, <2>3
<1> QED BY <1>1, RegisterInvariance, PTL
=============================================================================
