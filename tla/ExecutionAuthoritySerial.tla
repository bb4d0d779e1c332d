------------------------- MODULE ExecutionAuthoritySerial -------------------------
(***************************************************************************)
(* Theorems about ExecutionAuthority when requests come one at a time: a   *)
(* completed diff is in its files, crashes or not, and without a crash the *)
(* records implement AuthorizedAction.                                     *)
(***************************************************************************)
EXTENDS ExecutionAuthorityProofs

-----------------------------------------------------------------------------
(* The inductive invariants.  What the files hold and what was begun say   *)
(* where the one request under way is; neither is stored with the record.  *)

Lone == \A p, q \in Handlers : ~At(p, "idle") /\ ~At(q, "idle") => p = q

\* What the files hold when a request is where it is in its diff.
Written(rq) ==
    /\ rq.pc = "targets" => \A f \in Files : f < rq.at => content[f] = "base"
    /\ rq.pc = "opening" =>
          \A f \in Files : content[f] = IF f < rq.at THEN rq.ask.body ELSE "base"
    /\ rq.pc = "writing" =>
          \A f \in Files : IF f = rq.at THEN content[f] = "torn"
                           ELSE content[f] = IF f < rq.at THEN rq.ask.body ELSE "base"
    /\ rq.pc = "recording" /\ rq.outcome = "completed" /\ PayloadOf(rq.record).class = "file_diff" =>
          \A f \in Files : content[f] = PayloadOf(rq.record).hash

FilesInv == load.serial => Lone /\ (\A q \in Handlers : Written(requests[q])) /\ CompletedIsApplied

DoneUnder(r) == {t[1] : t \in touched[r]}

\* What was begun under the record of a request that is where it is.
Counted(rq) ==
    LET done == DoneUnder(rq.record)
    IN  /\ rq.pc \in {"checking", "starting", "targets"} => done = {}
        /\ rq.pc = "opening" => done = 1 .. (rq.at - 1)
        /\ rq.pc = "writing" => done = 1 .. rq.at
        /\ rq.pc = "acting"  => done = {0}
        /\ rq.pc = "recording" =>
              /\ rq.outcome = "blocked" => done = {}
              /\ rq.outcome = "completed" => done \in {Files, {0}}
              /\ rq.outcome = "failed" => done \in {Files, {0}, {}}

\* No one gives the record a result meanwhile.
Open(rq) == rq.pc \notin {"idle", "reading"} => authority[rq.record].result = "not_run"

CountInv == Promised => \A q \in Handlers : Open(requests[q]) /\ Counted(requests[q])

-----------------------------------------------------------------------------
(* What a step does to the fields of its request                           *)

Same(q) == requests'[q].record = requests[q].record /\ requests'[q].ask = requests[q].ask

GoesTo(q, pc, at) == Same(q) /\ requests'[q].pc = pc /\ requests'[q].at = at

Ends(q, o) ==
    /\ requests'[q].record = requests[q].record
    /\ requests'[q].pc = "recording" /\ requests'[q].outcome = o

LEMMA Goings ==
    ASSUME IInv, NEW q \in Handlers
    PROVE  /\ \A pc : Goes(q, pc) => GoesTo(q, pc, requests[q].at)
           /\ \A o : Concludes(q, o) => Ends(q, o)
           /\ \A pc, at : Becomes(q, [requests[q] EXCEPT !.pc = pc, !.at = at]) => GoesTo(q, pc, at)
           /\ \A at : Becomes(q, [requests[q] EXCEPT !.at = at]) => GoesTo(q, requests[q].pc, at)
<1>1. requests \in [Handlers -> RequestType] /\ requests[q] \in RequestType
  BY DEF IInv, RequestsInv
<1>2. ASSUME NEW pc, Goes(q, pc) PROVE GoesTo(q, pc, requests[q].at)
  BY <1>1, <1>2 DEF Goes, Becomes, GoesTo, Same, RequestType
<1>3. ASSUME NEW o, Concludes(q, o) PROVE Ends(q, o)
  BY <1>1, <1>3 DEF Concludes, Becomes, Ends, RequestType
<1>4. ASSUME NEW pc, NEW at, Becomes(q, [requests[q] EXCEPT !.pc = pc, !.at = at])
      PROVE  GoesTo(q, pc, at)
  BY <1>1, <1>4 DEF Becomes, GoesTo, Same, RequestType
<1>5. ASSUME NEW at, Becomes(q, [requests[q] EXCEPT !.at = at])
      PROVE  GoesTo(q, requests[q].pc, at)
  BY <1>1, <1>5 DEF Becomes, GoesTo, Same, RequestType
<1> QED BY <1>2, <1>3, <1>4, <1>5

LEMMA Readings ==
    ASSUME IInv, NEW q \in Handlers, ReadAuthority(q) \/ CheckServicePage(q)
    PROVE  \/ requests'[q] = Idle
           \/ /\ requests[q].pc = "reading" => Exists(requests[q].record) /\ ~Settled(requests[q].record)
              /\ \/ \E pc \in {"checking", "starting"} : GoesTo(q, pc, requests[q].at)
                 \/ Ends(q, "blocked")
<1> DEFINE rq == requests[q]
           r == rq.record
<1>1. requests \in [Handlers -> RequestType]
  BY DEF IInv, RequestsInv
<1>2. ASSUME NEW allowed, Decide(q, allowed)
      PROVE  GoesTo(q, "starting", rq.at) \/ Ends(q, "blocked")
  BY <1>2, Goings DEF Decide
<1>3. CASE ReadAuthority(q)
  <2>1. CASE ~Exists(r) \/ Settled(r)
    BY <1>1, <1>3, <2>1 DEF ReadAuthority, Becomes
  <2>2. CASE Exists(r) /\ ~Settled(r)
    <3>1. CASE rq.ask.class = "browser_action"
      BY <1>3, <2>2, <3>1, Goings DEF ReadAuthority
    <3>2. CASE rq.ask.class # "browser_action"
      BY <1>2, <1>3, <2>2, <3>2 DEF ReadAuthority
    <3> QED BY <3>1, <3>2
  <2> QED BY <2>1, <2>2
<1>4. CASE CheckServicePage(q)
  <2>1. rq.pc = "checking"
    BY <1>4 DEF CheckServicePage, At
  <2>2. GoesTo(q, "starting", rq.at) \/ Ends(q, "blocked")
    BY <1>2, <1>4 DEF CheckServicePage
  <2> QED BY <2>1, <2>2
<1> QED BY <1>3, <1>4

LEMMA Actings ==
    ASSUME IInv, NEW q \in Handlers
    PROVE  LET rq == requests[q] IN
           /\ Refuse(q) => Ends(q, "blocked")
           /\ StartFileDiff(q) => GoesTo(q, "targets", 1)
           /\ StartAction(q) => GoesTo(q, "acting", rq.at)
           /\ EndAction(q) => Ends(q, "completed") \/ Ends(q, "failed")
           /\ ReadTarget(q) => IF rq.at < FileCount THEN GoesTo(q, "targets", rq.at + 1) ELSE GoesTo(q, "opening", 1)
           /\ MismatchTarget(q) => Ends(q, "failed")
           /\ OpenTarget(q) => GoesTo(q, "writing", rq.at)
           /\ WriteTarget(q) => IF rq.at = FileCount THEN Ends(q, "completed") ELSE GoesTo(q, "opening", rq.at + 1)
           /\ FailWrite(q) => Ends(q, "partial")
           /\ RecordOutcome(q) => requests'[q] = Idle
<1> DEFINE rq == requests[q]
           next == rq.at + 1
<1>1. /\ Refuse(q) => Ends(q, "blocked")
      /\ EndAction(q) => Ends(q, "completed") \/ Ends(q, "failed")
      /\ MismatchTarget(q) => Ends(q, "failed")
      /\ FailWrite(q) => Ends(q, "partial")
  BY Goings DEF Refuse, EndAction, MismatchTarget, FailWrite
<1>2. /\ StartAction(q) => GoesTo(q, "acting", rq.at)
      /\ OpenTarget(q) => GoesTo(q, "writing", rq.at)
  BY Goings DEF StartAction, OpenTarget
<1>3. StartFileDiff(q) => GoesTo(q, "targets", 1)
  BY Goings DEF StartFileDiff
<1>4. RecordOutcome(q) => requests'[q] = Idle
  BY DEF RecordOutcome, Becomes, IInv, RequestsInv
<1>5. ASSUME ReadTarget(q)
      PROVE  IF rq.at < FileCount THEN GoesTo(q, "targets", next) ELSE GoesTo(q, "opening", 1)
  <2>1. CASE rq.at < FileCount
    <3>1. Becomes(q, [rq EXCEPT !.at = next]) /\ rq.pc = "targets"
      BY <1>5, <2>1 DEF ReadTarget, At
    <3> HIDE DEF next
    <3> QED BY <2>1, <3>1, Goings
  <2>2. CASE ~(rq.at < FileCount)
    <3>1. Becomes(q, [rq EXCEPT !.pc = "opening", !.at = 1])
      BY <1>5, <2>2 DEF ReadTarget
    <3> QED BY <2>2, <3>1, Goings
  <2> QED BY <2>1, <2>2
<1>6. ASSUME WriteTarget(q)
      PROVE  IF rq.at = FileCount THEN Ends(q, "completed") ELSE GoesTo(q, "opening", next)
  <2>1. CASE rq.at = FileCount
    BY <1>6, <2>1, Goings DEF WriteTarget, LastTarget
  <2>2. CASE rq.at # FileCount
    <3>1. Becomes(q, [rq EXCEPT !.pc = "opening", !.at = next])
      BY <1>6, <2>2 DEF WriteTarget, LastTarget
    <3> HIDE DEF next
    <3> QED BY <2>2, <3>1, Goings
  <2> QED BY <2>1, <2>2
<1> QED BY <1>1, <1>2, <1>3, <1>4, <1>5, <1>6

-----------------------------------------------------------------------------
(* One request at a time                                                   *)

LEMMA Continuing ==
    ASSUME IInv, NEW q \in Handlers, Continue(q)
    PROVE  /\ ~At(q, "idle") /\ load' = load
           /\ \A other \in Handlers \ {q} : requests'[other] = requests[other]
<1>1. ~At(q, "idle") /\ load' = load
  BY DEF Continue, At, ReadAuthority, CheckServicePage, Refuse, StartFileDiff, StartAction, EndAction,
         ReadTarget, MismatchTarget, OpenTarget, WriteTarget, FailWrite, RecordOutcome
<1>2. \A other \in Handlers \ {q} : requests'[other] = requests[other]
  BY DEF IInv, RequestsInv, Continue, ReadAuthority, Refuse, CheckServicePage, StartFileDiff,
         StartAction, EndAction, ReadTarget, MismatchTarget, OpenTarget, WriteTarget, FailWrite,
         RecordOutcome, Decide, Goes, Concludes, Becomes
<1> QED BY <1>1, <1>2

\* The steps of no request that goes on.
Elsewhere ==
    \/ \E r \in Records, p \in Payloads : CreateExecutionAuthority(r, p)
    \/ ChangePages
    \/ \E q \in Handlers, r \in Records, ask \in Asks : Receive(q, r, ask)
    \/ Crash
    \/ UNCHANGED vars

LEMMA Splits ==
    ASSUME IInv, [Next]_vars
    PROVE  Elsewhere \/ \E q \in Handlers : Continue(q)
<1>1. load.records \subseteq Records /\ load.payloads \subseteq Payloads /\ load.asks \subseteq Asks
  BY AuthorityAssumption DEF IInv, RestInv
<1> QED BY <1>1 DEF Next, Elsewhere

\* Elsewhere a request stays, is forgotten, or comes, alone where they come one at a time;
\* neither the files nor what was begun change, and no record but a new one does.
LEMMA ElsewhereFacts ==
    ASSUME IInv, Elsewhere
    PROVE  /\ UNCHANGED <<load, content, touched>>
           /\ \A q \in Handlers :
                requests'[q] = requests[q] \/ requests'[q].pc = "idle" \/ requests'[q].pc = "reading"
           /\ load.serial /\ Lone => Lone'
           /\ \A r \in Records :
                 \/ authority'[r] = authority[r]
                 \/ ~Exists(r) /\ (\E p \in Payloads : authority'[r] = [payload |-> p, result |-> Issued(p)])
<1>1. requests \in [Handlers -> RequestType] /\ authority \in [Records -> Rows \cup {Absent}]
  BY DEF IInv, RequestsInv, RecordsInv
<1>2. CASE \E r \in Records, p \in Payloads : CreateExecutionAuthority(r, p)
  BY <1>1, <1>2 DEF CreateExecutionAuthority, Lone, At, Exists
<1>3. CASE ChangePages \/ UNCHANGED vars
  BY <1>3 DEF ChangePages, vars, Lone, At
<1>4. CASE \E q \in Handlers, r \in Records, ask \in Asks : Receive(q, r, ask)
  <2>1. PICK q \in Handlers, r \in Records, ask \in Asks : Receive(q, r, ask)
    BY <1>4
  <2>2. /\ UNCHANGED <<load, content, touched, authority>>
        /\ load.serial => \A other \in Handlers : requests[other].pc = "idle"
    BY <2>1 DEF Receive, At
  <2>3. /\ requests'[q].pc = "reading"
        /\ \A other \in Handlers \ {q} : requests'[other] = requests[other]
    <3> DEFINE late == authority[r].result \notin {"absent", "not_run"}
               barred == Exists(r) /\ authority[r].payload.page # None
                            /\ ~InForce(authority[r].payload.page[1])
               new == [Idle EXCEPT !.pc = "reading", !.record = r, !.ask = ask,
                                   !.late = late, !.barred = barred]
    <3>1. requests' = [requests EXCEPT ![q] = new]
      BY <2>1 DEF Receive, Becomes
    <3> HIDE DEF late, barred
    <3>2. new.pc = "reading"
      BY DEF Idle
    <3> HIDE DEF new
    <3> QED BY <1>1, <3>1, <3>2
  <2> QED BY <2>2, <2>3 DEF Lone, At
<1>5. CASE Crash
  BY <1>5 DEF Crash, Idle, Lone, At
<1> QED BY <1>2, <1>3, <1>4, <1>5 DEF Elsewhere

LEMMA LoneStep ==
    ASSUME IInv, load.serial, Lone, [Next]_vars
    PROVE  Lone' /\ load' = load
<1>1. CASE Elsewhere
  BY <1>1, ElsewhereFacts
<1>2. CASE \E q \in Handlers : Continue(q)
  BY <1>2, Continuing DEF Lone, At
<1> QED BY <1>1, <1>2, Splits

-----------------------------------------------------------------------------
(* A completed diff is in its files                                        *)

LEMMA FilesElsewhere ==
    ASSUME IInv, FilesInv, load.serial, Elsewhere
    PROVE  (\A q \in Handlers : Written(requests[q])') /\ CompletedIsApplied'
<1>1. UNCHANGED <<load, content>>
  BY ElsewhereFacts
<1>2. ASSUME NEW r \in Records, Exists(r) PROVE authority'[r] = authority[r]
  BY <1>2, ElsewhereFacts
<1>3. ASSUME NEW q \in Handlers PROVE Written(requests[q])'
  <2>1. CASE requests'[q] = requests[q] /\ requests[q].pc \notin {"idle", "reading"}
    <3>1. requests[q].record \in Records /\ Exists(requests[q].record)
      BY <2>1 DEF IInv, RequestsInv, Sound, Equipped, Informed
    <3>2. PayloadOf(requests[q].record)' = PayloadOf(requests[q].record)
      BY <1>2, <2>1, <3>1 DEF PayloadOf
    <3> QED BY <1>1, <2>1, <3>2 DEF FilesInv, Written
  <2>2. CASE requests'[q].pc \in {"idle", "reading"}
    BY <2>2 DEF Written
  <2> QED BY <2>1, <2>2, ElsewhereFacts
<1>4. CompletedIsApplied'
  <2>1. ASSUME NEW r \in Records, Exists(r)', authority'[r].result = "completed"
        PROVE  Exists(r) /\ authority'[r] = authority[r]
    <3>1. CASE authority'[r] = authority[r]
      BY <2>1, <3>1 DEF Exists
    <3>2. CASE \E p \in Payloads : authority'[r] = [payload |-> p, result |-> Issued(p)]
      BY <2>1, <3>2 DEF Issued
    <3> QED BY <3>1, <3>2, ElsewhereFacts
  <2> QED BY <1>1, <2>1 DEF FilesInv, CompletedIsApplied, Exists
<1> QED BY <1>3, <1>4

\* While a file holds its base or a torn write, no diff is recorded as completed.
LEMMA NoneCompleted ==
    ASSUME IInv, FilesInv, load.serial, NEW f \in Files, content[f] \in {"base", "torn"},
           NEW r \in Records, Exists(r), authority[r].payload.class = "file_diff"
    PROVE  authority[r].result # "completed"
<1>1. authority[r].payload.hash \in Hashes
  BY RecordKinds DEF IInv, Payloads
<1> QED BY <1>1, AuthorityAssumption DEF FilesInv, CompletedIsApplied

LEMMA FilesContinue ==
    ASSUME IInv, FilesInv, load.serial, NEW q \in Handlers, Continue(q)
    PROVE  Written(requests[q])' /\ CompletedIsApplied'
<1> DEFINE rq == requests[q]
           r == rq.record
<1>1. /\ Sound(rq) /\ Written(rq) /\ CompletedIsApplied /\ load' = load
      /\ content \in [Files -> Hashes \cup {"base", "torn"}]
  BY Continuing DEF IInv, RequestsInv, FilesInv, RestInv
<1>2. Written(Idle)
  BY DEF Written, Idle
<1>3. ASSUME UNCHANGED <<content, authority>> PROVE CompletedIsApplied'
  BY <1>1, <1>3 DEF CompletedIsApplied, Exists
<1>4. CASE ReadAuthority(q) \/ CheckServicePage(q)
  <2>1. UNCHANGED <<content, authority>>
    BY <1>4 DEF ReadAuthority, CheckServicePage
  <2>2. Written(requests[q])'
    BY <1>4, Readings DEF Written, Idle, GoesTo, Ends
  <2> QED BY <1>3, <2>1, <2>2
<1>5. CASE Refuse(q) \/ MismatchTarget(q) \/ FailWrite(q)
  <2>1. UNCHANGED <<content, authority>>
    BY <1>5 DEF Refuse, MismatchTarget, FailWrite
  <2>2. Written(requests[q])'
    BY <1>5, Actings DEF Written, Ends
  <2> QED BY <1>3, <2>1, <2>2
<1>6. CASE StartFileDiff(q) \/ StartAction(q)
  <2>1. UNCHANGED <<content, authority>>
    BY <1>6 DEF StartFileDiff, StartAction
  <2>2. Written(requests[q])'
    BY <1>6, Actings DEF Written, GoesTo, Files
  <2> QED BY <1>3, <2>1, <2>2
<1>7. CASE EndAction(q)
  <2>1. UNCHANGED <<content, authority>>
    BY <1>7 DEF EndAction
  <2>2. PayloadOf(r).class # "file_diff"
    BY <1>1, <1>7 DEF EndAction, At, Sound, Cleared
  <2>3. Written(requests[q])'
    BY <1>7, <2>1, <2>2, Actings DEF Written, Ends, PayloadOf
  <2> QED BY <1>3, <2>1, <2>3
<1>8. CASE ReadTarget(q)
  <2>1. UNCHANGED <<content, authority>> /\ rq.pc = "targets" /\ content[rq.at] = "base"
    BY <1>8 DEF ReadTarget, At
  <2>2. rq.at \in Files /\ FileCount \in Nat
    BY <1>1, <2>1, AuthorityAssumption DEF Sound, Equipped
  <2>3. Written(requests[q])'
    <3>1. CASE rq.at < FileCount
      <4>1. requests'[q].pc = "targets" /\ requests'[q].at = rq.at + 1
        BY <1>8, <3>1, Actings DEF GoesTo
      <4> QED BY <1>1, <2>1, <2>2, <4>1 DEF Written, Files
    <3>2. CASE ~(rq.at < FileCount)
      <4>1. requests'[q].pc = "opening" /\ requests'[q].at = 1
        BY <1>8, <3>2, Actings DEF GoesTo
      <4>2. \A f \in Files : content[f] = "base"
        BY <1>1, <2>1, <2>2, <3>2 DEF Written, Files
      <4>3. \A f \in Files : ~(f < 1)
        BY DEF Files
      <4> QED BY <2>1, <4>1, <4>2, <4>3 DEF Written
    <3> QED BY <3>1, <3>2
  <2> QED BY <1>3, <2>1, <2>3
<1>9. CASE OpenTarget(q) \/ WriteTarget(q)
  <2>1. rq.pc \in {"opening", "writing"} /\ UNCHANGED authority
    BY <1>9 DEF OpenTarget, WriteTarget, At
  <2>2. /\ rq.at \in Files /\ FileCount \in Nat /\ r \in Records /\ Exists(r)
        /\ rq.ask.body = PayloadOf(r).hash
    BY <1>1, <2>1, AuthorityAssumption DEF Sound, Equipped, Informed, Cleared
  <2>3. content[rq.at] \in {"base", "torn"}
    BY <1>1, <2>1, <2>2 DEF Written, Files
  <2>4. CompletedIsApplied'
    BY <2>1, <2>2, <2>3, NoneCompleted DEF CompletedIsApplied, Exists
  <2>5. CASE OpenTarget(q)
    <3>1. /\ requests'[q].pc = "writing" /\ requests'[q].at = rq.at /\ requests'[q].ask = rq.ask
          /\ rq.pc = "opening" /\ content' = [content EXCEPT ![rq.at] = "torn"]
      BY <2>5, Actings DEF GoesTo, Same, OpenTarget, At
    <3>2. Written(requests[q])'
      BY <1>1, <2>2, <3>1 DEF Written, Files
    <3> QED BY <2>4, <3>2
  <2>6. CASE WriteTarget(q)
    <3>1. rq.pc = "writing" /\ content' = [content EXCEPT ![rq.at] = rq.ask.body]
      BY <2>6 DEF WriteTarget, At
    <3>2. \A f \in Files : content'[f] = IF f < rq.at + 1 THEN rq.ask.body ELSE "base"
      BY <1>1, <2>2, <3>1 DEF Written, Files
    <3>3. CASE rq.at = FileCount
      <4>1. requests'[q].pc = "recording" /\ requests'[q].record = r
        BY <2>6, <3>3, Actings DEF Ends
      <4>2. \A f \in Files : content'[f] = rq.ask.body
        BY <2>2, <3>2, <3>3 DEF Files
      <4>3. Written(requests[q])'
        BY <2>1, <2>2, <4>1, <4>2 DEF Written, PayloadOf
      <4> QED BY <2>4, <4>3
    <3>4. CASE rq.at # FileCount
      <4>1. requests'[q].pc = "opening" /\ requests'[q].at = rq.at + 1 /\ requests'[q].ask = rq.ask
        BY <2>6, <3>4, Actings DEF GoesTo, Same
      <4>2. Written(requests[q])'
        BY <3>2, <4>1 DEF Written
      <4> QED BY <2>4, <4>2
    <3> QED BY <3>3, <3>4
  <2> QED BY <1>9, <2>5, <2>6
<1>10. CASE RecordOutcome(q)
  <2>1. requests'[q] = Idle /\ UNCHANGED content
    BY <1>10, Actings DEF RecordOutcome
  <2>2. /\ rq.pc = "recording" /\ r \in Records /\ Exists(r)
        /\ authority' = [authority EXCEPT ![r].result = rq.outcome]
    BY <1>1, <1>10 DEF RecordOutcome, At, Sound, Equipped, Informed
  <2>3. authority[r] \in Rows /\ authority \in [Records -> Rows \cup {Absent}]
    BY <2>2, RecordKinds DEF IInv, RecordsInv
  <2>4. authority'[r].payload = authority[r].payload /\ authority'[r].result = rq.outcome
    BY <2>2, <2>3 DEF Rows
  <2>5. \A other \in Records : other # r => authority'[other] = authority[other]
    BY <2>2, <2>3
  <2>6. CompletedIsApplied'
    BY <1>1, <2>1, <2>2, <2>4, <2>5 DEF CompletedIsApplied, Written, PayloadOf, Exists
  <2>7. Written(requests[q])'
    BY <2>1 DEF Written, Idle
  <2> QED BY <2>6, <2>7
<1> QED BY <1>4, <1>5, <1>6, <1>7, <1>8, <1>9, <1>10 DEF Continue

LEMMA FilesStep2 ==
    ASSUME IInv, FilesInv, [Next]_vars
    PROVE  FilesInv'
<1>1. CASE load.serial
  <2>1. Lone' /\ load' = load
    BY <1>1, LoneStep DEF FilesInv
  <2>2. CASE Elsewhere
    BY <1>1, <2>1, <2>2, FilesElsewhere DEF FilesInv
  <2>3. CASE \E q \in Handlers : Continue(q)
    <3>1. PICK q \in Handlers : Continue(q)
      BY <2>3
    <3>2. Written(requests[q])' /\ CompletedIsApplied'
      BY <1>1, <3>1, FilesContinue
    <3>3. ASSUME NEW other \in Handlers, other # q PROVE Written(requests[other])'
      BY <1>1, <3>1, <3>3, Continuing DEF FilesInv, Lone, At, Written
    <3> QED BY <2>1, <3>2, <3>3 DEF FilesInv
  <2> QED BY <2>2, <2>3, Splits
<1>2. CASE ~load.serial
  <2>1. load' = load
    BY Splits, ElsewhereFacts, Continuing
  <2> QED BY <1>2, <2>1 DEF FilesInv
<1> QED BY <1>1, <1>2

LEMMA FilesInvariance == Spec => []FilesInv
<1>1. Init => FilesInv
  BY DEF Init, FilesInv, Lone, At, Written, Idle, CompletedIsApplied, Exists
<1>2. IInv /\ FilesInv /\ [Next]_vars => FilesInv'
  BY FilesStep2
<1> QED BY <1>1, <1>2, Invariance, PTL DEF Spec

\* When requests come one at a time, a diff recorded as completed is in all its files and
\* stays there, for any number of files, records and requests, wherever the process
\* stopped before: applyFileDiff reads every target before it writes the first.
THEOREM CompletedApplied == Spec => []CompletedIsApplied
<1>1. FilesInv => CompletedIsApplied
  BY DEF FilesInv, CompletedIsApplied
<1> QED BY <1>1, FilesInvariance, PTL

-----------------------------------------------------------------------------
(* What was begun is what the outcome says                                 *)

LEMMA CountElsewhere ==
    ASSUME IInv, CountInv, Promised, Elsewhere, NEW q \in Handlers
    PROVE  Open(requests[q])' /\ Counted(requests[q])'
<1>1. UNCHANGED touched
  BY ElsewhereFacts
<1>2. CASE requests'[q] = requests[q] /\ requests[q].pc \notin {"idle", "reading"}
  <2>1. requests[q].record \in Records /\ Exists(requests[q].record)
    BY <1>2 DEF IInv, RequestsInv, Sound, Equipped, Informed
  <2>2. authority'[requests[q].record] = authority[requests[q].record]
    BY <2>1, ElsewhereFacts
  <2> QED BY <1>1, <1>2, <2>2 DEF CountInv, Open, Counted, DoneUnder
<1>3. CASE requests'[q].pc \in {"idle", "reading"}
  BY <1>3 DEF Open, Counted
<1> QED BY <1>2, <1>3, ElsewhereFacts

LEMMA CountContinue ==
    ASSUME IInv, Lone, BegunIsRecorded, CountInv, Promised, NEW q \in Handlers, Continue(q)
    PROVE  Open(requests[q])' /\ Counted(requests[q])'
<1> DEFINE rq == requests[q]
           r == rq.record
<1>1. /\ Sound(rq) /\ Open(rq) /\ Counted(rq) /\ rq.pc # "idle"
      /\ touched \in [Records -> SUBSET (Parts \X Hashes)]
  BY Continuing DEF IInv, RequestsInv, RestInv, CountInv, At
<1>2. /\ r \in Records /\ FileCount \in Nat
  BY <1>1, AuthorityAssumption DEF Sound, Equipped
<1>3. Open(Idle) /\ Counted(Idle)
  BY DEF Open, Counted, Idle
<1>4. CASE ReadAuthority(q) \/ CheckServicePage(q)
  <2>1. UNCHANGED <<touched, authority>>
    BY <1>4 DEF ReadAuthority, CheckServicePage
  <2>2. CASE requests'[q] = Idle
    BY <2>2 DEF Open, Counted, Idle
  <2>3. CASE requests'[q] # Idle
    <3>1. authority[r].result = "not_run" /\ touched[r] = {}
      <4>1. CASE rq.pc = "reading"
        <5>1. Exists(r) /\ ~Settled(r)
          BY <1>4, <2>3, <4>1, Readings
        <5>2. authority[r].result = "not_run"
          BY <1>2, <5>1, RecordKinds DEF IInv
        <5>3. \A other \in Handlers : other # q => requests[other].pc = "idle"
          BY <1>1 DEF Lone, At
        <5>4. touched[r] = {}
          BY <1>2, <4>1, <5>1, <5>3 DEF BegunIsRecorded, Promised, Acting, At
        <5> QED BY <5>2, <5>4
      <4>2. CASE rq.pc = "checking"
        BY <1>1, <4>2 DEF Open, Counted, DoneUnder
      <4> QED BY <1>4, <4>1, <4>2 DEF ReadAuthority, CheckServicePage, At
    <3>2. DoneUnder(r) = {}
      BY <3>1 DEF DoneUnder
    <3>3. /\ requests'[q].record = r
          /\ \/ requests'[q].pc \in {"checking", "starting"}
             \/ requests'[q].pc = "recording" /\ requests'[q].outcome = "blocked"
      BY <1>4, <2>3, Readings DEF GoesTo, Same, Ends
    <3> QED BY <2>1, <3>1, <3>2, <3>3 DEF Open, Counted, DoneUnder
  <2> QED BY <2>2, <2>3
<1>5. CASE Refuse(q) \/ StartFileDiff(q) \/ EndAction(q) \/ MismatchTarget(q) \/ FailWrite(q)
  <2>1. /\ UNCHANGED <<touched, authority>> /\ rq.pc \in {"starting", "acting", "targets", "opening", "writing"}
        /\ Refuse(q) \/ StartFileDiff(q) => rq.pc = "starting"
        /\ EndAction(q) => rq.pc = "acting"
        /\ MismatchTarget(q) => rq.pc = "targets"
    BY <1>5 DEF Refuse, StartFileDiff, EndAction, MismatchTarget, FailWrite, At
  <2>2. requests'[q].record = r /\ authority'[r].result = "not_run" /\ DoneUnder(r)' = DoneUnder(r)
    BY <1>1, <1>5, <2>1, Actings DEF GoesTo, Same, Ends, Open, DoneUnder
  <2>3. CASE Refuse(q)
    BY <1>1, <2>1, <2>2, <2>3, Actings DEF Open, Counted, Ends
  <2>4. CASE StartFileDiff(q)
    BY <1>1, <2>1, <2>2, <2>4, Actings DEF Open, Counted, GoesTo
  <2>5. CASE EndAction(q)
    BY <1>1, <2>1, <2>2, <2>5, Actings DEF Open, Counted, Ends
  <2>6. CASE MismatchTarget(q)
    BY <1>1, <2>1, <2>2, <2>6, Actings DEF Open, Counted, Ends
  <2>7. CASE FailWrite(q)
    BY <2>2, <2>7, Actings DEF Open, Counted, Ends
  <2> QED BY <1>5, <2>3, <2>4, <2>5, <2>6, <2>7
<1>6. CASE StartAction(q) \/ OpenTarget(q)
  <2> DEFINE part == IF StartAction(q) THEN 0 ELSE rq.at
             t == <<part, rq.ask.body>>
  <2>1. Begins(q, part)
    BY <1>6 DEF Begins
  <2>2. UNCHANGED authority /\ touched' = [touched EXCEPT ![r] = @ \cup {t}]
    BY <2>1, Beginning
  <2>3. DoneUnder(r)' = DoneUnder(r) \cup {part}
    <3>1. touched'[r] = touched[r] \cup {t} /\ t[1] = part
      BY <1>1, <1>2, <2>2
    <3> HIDE DEF t, part
    <3>2. DoneUnder(r)' = {u[1] : u \in touched'[r]}
      BY <1>6, Actings DEF DoneUnder, GoesTo, Same
    <3> QED BY <3>1, <3>2 DEF DoneUnder
  <2>4. CASE StartAction(q)
    <3>1. rq.pc = "starting" /\ requests'[q].pc = "acting" /\ requests'[q].record = r
      BY <2>4, Actings DEF StartAction, At, GoesTo, Same
    <3>2. DoneUnder(r)' = {0}
      BY <1>1, <2>3, <2>4, <3>1 DEF Counted
    <3> QED BY <1>1, <2>2, <3>1, <3>2 DEF Open, Counted, DoneUnder
  <2>5. CASE ~StartAction(q)
    <3>1. /\ rq.pc = "opening" /\ requests'[q].pc = "writing" /\ requests'[q].record = r
          /\ requests'[q].at = rq.at
      BY <1>6, <2>5, Actings DEF OpenTarget, At, GoesTo, Same
    <3>2. rq.at \in 1 .. FileCount
      BY <1>1, <3>1 DEF Sound, Equipped, Files
    <3>3. DoneUnder(r)' = 1 .. rq.at
      BY <1>1, <1>2, <2>3, <2>5, <3>1, <3>2 DEF Counted
    <3> QED BY <1>1, <2>2, <3>1, <3>3 DEF Open, Counted, DoneUnder
  <2> QED BY <2>4, <2>5
<1>7. CASE ReadTarget(q) \/ WriteTarget(q)
  <2>1. /\ UNCHANGED <<touched, authority>> /\ rq.pc \in {"targets", "writing"}
        /\ ReadTarget(q) => rq.pc = "targets"
        /\ WriteTarget(q) => rq.pc = "writing"
    BY <1>7 DEF ReadTarget, WriteTarget, At
  <2>2. requests'[q].record = r /\ authority'[r].result = "not_run" /\ DoneUnder(r)' = DoneUnder(r)
    BY <1>1, <1>7, <2>1, Actings DEF GoesTo, Same, Ends, Open, DoneUnder
  <2>3. rq.at \in 1 .. FileCount
    BY <1>1, <2>1 DEF Sound, Equipped, Files
  <2>4. CASE ReadTarget(q)
    <3>1. DoneUnder(r) = {} /\ 1 .. 0 = {}
      BY <1>1, <2>1, <2>4 DEF Counted
    <3>2. \/ requests'[q].pc = "targets"
          \/ requests'[q].pc = "opening" /\ requests'[q].at = 1
      BY <2>4, Actings DEF GoesTo
    <3> QED BY <2>2, <3>1, <3>2 DEF Open, Counted
  <2>5. CASE WriteTarget(q)
    <3>1. DoneUnder(r) = 1 .. rq.at
      BY <1>1, <2>1, <2>5 DEF Counted
    <3>2. CASE rq.at = FileCount
      <4>1. requests'[q].pc = "recording" /\ requests'[q].outcome = "completed"
        BY <2>5, <3>2, Actings DEF Ends
      <4> QED BY <2>2, <3>1, <3>2, <4>1 DEF Open, Counted, Files
    <3>3. CASE rq.at # FileCount
      <4>1. requests'[q].pc = "opening" /\ requests'[q].at = rq.at + 1
        BY <2>5, <3>3, Actings DEF GoesTo
      <4>2. requests'[q].at - 1 = rq.at
        BY <2>3, <4>1
      <4>3. DoneUnder(r)' = 1 .. (requests'[q].at - 1)
        BY <2>2, <3>1, <4>2
      <4> QED BY <2>2, <4>1, <4>3 DEF Open, Counted
    <3> QED BY <3>2, <3>3
  <2> QED BY <1>7, <2>4, <2>5
<1>8. CASE RecordOutcome(q)
  BY <1>8, Actings DEF Open, Counted, Idle
<1> QED BY <1>4, <1>5, <1>6, <1>7, <1>8 DEF Continue

LEMMA CountStep ==
    ASSUME IInv, FilesInv, BegunIsRecorded, CountInv, [Next]_vars
    PROVE  CountInv'
<1>1. load' = load
  BY Splits, ElsewhereFacts, Continuing
<1>2. CASE Promised
  <2>1. load.serial /\ Lone
    BY <1>2 DEF Promised, FilesInv
  <2>2. CASE Elsewhere
    BY <1>2, <2>2, CountElsewhere DEF CountInv
  <2>3. CASE \E q \in Handlers : Continue(q)
    <3>1. PICK q \in Handlers : Continue(q)
      BY <2>3
    <3>2. Open(requests[q])' /\ Counted(requests[q])'
      BY <1>2, <2>1, <3>1, CountContinue
    <3>3. ASSUME NEW other \in Handlers, other # q
          PROVE  Open(requests[other])' /\ Counted(requests[other])'
      BY <2>1, <3>1, <3>3, Continuing DEF Lone, At, Open, Counted
    <3> QED BY <3>2, <3>3 DEF CountInv
  <2> QED BY <2>2, <2>3, Splits
<1>3. CASE ~Promised
  BY <1>1, <1>3 DEF Promised, CountInv
<1> QED BY <1>2, <1>3

LEMMA CountInvariance == Spec => []CountInv
<1>1. Init => CountInv
  BY DEF Init, CountInv, Open, Counted, Idle
<1>2. IInv /\ FilesInv /\ BegunIsRecorded /\ CountInv /\ [Next]_vars => CountInv'
  BY CountStep
<1> QED BY <1>1, <1>2, Invariance, FilesInvariance, BegunRecorded, PTL DEF Spec

-----------------------------------------------------------------------------
(* The records implement AuthorizedAction                                  *)

\* The state of the abstract specification.
ResultOf == [r \in Records |-> IF Promised THEN authority[r].result ELSE "absent"]
DoneOf   == [r \in Records |-> IF Promised THEN {t[1] : t \in touched[r]} ELSE {}]

LEMMA InitImplements == Init => Authorized!Init
<1> SUFFICES ASSUME Init PROVE ResultOf = [r \in Records |-> "absent"] /\ DoneOf = [r \in Records |-> {}]
  BY DEF Authorized!Init, ResultOf, DoneOf
<1>1. \A r \in Records : authority[r].result = "absent"
  BY DEF Init, Absent
<1>2. \A r \in Records : {t[1] : t \in touched[r]} = {}
  BY DEF Init
<1> QED BY <1>1, <1>2 DEF ResultOf, DoneOf

\* Records whose results stay show no step.
LEMMA NothingShows ==
    ASSUME load' = load, UNCHANGED touched,
           \A r \in Records : authority'[r].result = authority[r].result
    PROVE  UNCHANGED <<ResultOf, DoneOf>>
<1>1. Promised' = Promised
  BY DEF Promised
<1> QED BY <1>1 DEF ResultOf, DoneOf

LEMMA ElsewhereImplements ==
    ASSUME IInv, Promised, Elsewhere
    PROVE  (\E r \in Records : Authorized!Issue(r)) \/ UNCHANGED <<ResultOf, DoneOf>>
<1>1. load' = load /\ UNCHANGED touched
  BY ElsewhereFacts
<1>2. CASE \E r \in Records, p \in Payloads : CreateExecutionAuthority(r, p)
  <2>1. PICK r \in Records, p \in Payloads : CreateExecutionAuthority(r, p)
    BY <1>2
  <2> DEFINE o == Issued(p)
  <2>2. /\ authority[r] = Absent /\ authority'[r].result = o
        /\ \A other \in Records : other # r => authority'[other] = authority[other]
    BY <2>1 DEF CreateExecutionAuthority, IInv, RecordsInv
  <2>3. o \in {"not_run", "blocked"}
    BY DEF Issued
  <2> HIDE DEF o
  <2>4. ResultOf[r] = "absent"
    BY <2>2 DEF ResultOf, Absent
  <2>5. ResultOf' = [ResultOf EXCEPT ![r] = o]
    BY <1>1, <2>2 DEF ResultOf, Promised
  <2>6. DoneOf' = DoneOf
    BY <1>1 DEF DoneOf, Promised
  <2>7. Authorized!Issue(r)
    BY <2>3, <2>4, <2>5, <2>6 DEF Authorized!Issue, ResultOf, DoneOf
  <2> QED BY <2>7
<1>3. CASE ~\E r \in Records, p \in Payloads : CreateExecutionAuthority(r, p)
  <2>1. UNCHANGED authority
    BY <1>3 DEF Elsewhere, ChangePages, Receive, Crash, vars
  <2> QED BY <1>1, <2>1, NothingShows
<1> QED BY <1>2, <1>3

LEMMA ActingImplements ==
    ASSUME IInv, CountInv, Promised, NEW q \in Handlers, NEW part, Begins(q, part), load' = load
    PROVE  \E r \in Records : Authorized!Act(r)
<1> DEFINE rq == requests[q]
<1>0. PICK r \in Records, b \in Hashes : r = rq.record /\ b = rq.ask.body
  BY Beginning
<1>1. /\ Sound(rq) /\ Open(rq) /\ Counted(rq)
      /\ StartAction(q) => rq.pc = "starting"
      /\ OpenTarget(q) => rq.pc = "opening"
  BY DEF IInv, RequestsInv, CountInv, StartAction, OpenTarget, At
<1>2. /\ r \in Records /\ touched' = [touched EXCEPT ![r] = @ \cup {<<part, b>>}]
      /\ UNCHANGED authority
  BY <1>0, Beginning
<1>3. authority[r].result = "not_run"
  BY <1>0, <1>1 DEF Begins, Open
<1>4. PICK w \in {Files, {0}} : part \in w /\ part \notin DoneUnder(r) /\ DoneUnder(r) \subseteq w
  <2>1. CASE StartAction(q) /\ part = 0
    BY <1>0, <1>1, <2>1 DEF Counted
  <2>2. CASE OpenTarget(q) /\ part = rq.at
    <3>1. rq.at \in Files /\ DoneUnder(r) = 1 .. (rq.at - 1) /\ FileCount \in Nat
      BY <1>0, <1>1, <2>2, AuthorityAssumption DEF Counted, Sound, Equipped
    <3>2. rq.at \notin 1 .. (rq.at - 1) /\ 1 .. (rq.at - 1) \subseteq Files
      BY <3>1 DEF Files
    <3> QED BY <2>2, <3>1, <3>2
  <2> QED BY <2>1, <2>2 DEF Begins
<1>5. /\ touched'[r] = touched[r] \cup {<<part, b>>}
      /\ \A other \in Records : other # r => touched'[other] = touched[other]
  BY <1>2 DEF IInv, RestInv
<1>6. {t[1] : t \in touched'[r]} = {t[1] : t \in touched[r]} \cup {part}
  <2> DEFINE new == <<part, b>>
  <2>1. new[1] = part /\ touched'[r] = touched[r] \cup {new}
    BY <1>5
  <2> HIDE DEF new
  <2> QED BY <2>1
<1>7. Promised'
  BY DEF Promised
<1>8. ResultOf[r] = "not_run" /\ DoneOf[r] = DoneUnder(r)
  BY <1>2, <1>3 DEF ResultOf, DoneOf, DoneUnder
<1>9. ResultOf' = ResultOf
  BY <1>2, <1>7 DEF ResultOf
<1>10. DoneOf' = [DoneOf EXCEPT ![r] = @ \cup {part}]
  BY <1>2, <1>5, <1>6, <1>7 DEF DoneOf
<1>11. Authorized!Act(r)
  BY <1>4, <1>8, <1>9, <1>10 DEF Authorized!Act, ResultOf, DoneOf
<1> QED BY <1>11

LEMMA RecordingImplements ==
    ASSUME IInv, CountInv, Promised, NEW q \in Handlers, RecordOutcome(q)
    PROVE  \E r \in Records : \E o \in {"blocked", "completed", "failed", "partial"} : Authorized!Conclude(r, o)
<1> DEFINE rq == requests[q]
<1>0. PICK r \in Records, o \in Final : r = rq.record /\ o = rq.outcome
  BY DEF IInv, RequestsInv, Sound, Equipped, RecordOutcome, At
<1>1. /\ Sound(rq) /\ Open(rq) /\ Counted(rq) /\ rq.pc = "recording"
      /\ authority' = [authority EXCEPT ![r].result = o]
      /\ UNCHANGED <<load, touched>>
  BY <1>0 DEF IInv, RequestsInv, CountInv, RecordOutcome, At
<1>2. /\ r \in Records /\ Exists(r) /\ o \in Final /\ authority[r].result = "not_run"
      /\ o = "blocked" => DoneUnder(r) = {}
      /\ o = "completed" => DoneUnder(r) \in {Files, {0}}
      /\ o = "failed" => DoneUnder(r) \in {Files, {0}, {}}
  BY <1>0, <1>1 DEF Sound, Equipped, Informed, Open, Counted
<1>3. authority[r] \in Rows
  BY <1>2, RecordKinds DEF IInv
<1>4. /\ authority'[r].result = o
      /\ \A other \in Records : other # r => authority'[other] = authority[other]
  BY <1>1, <1>2, <1>3 DEF IInv, RecordsInv, Rows
<1>5. ResultOf[r] = "not_run" /\ DoneOf[r] = DoneUnder(r)
  BY <1>2 DEF ResultOf, DoneOf, DoneUnder
<1>6. Promised' /\ touched' = touched /\ r \in Records /\ o \in Final
  BY <1>1, <1>2 DEF Promised
<1>7. ResultOf' = [ResultOf EXCEPT ![r] = o]
  BY <1>4, <1>6 DEF ResultOf
<1>8. DoneOf' = DoneOf
  BY <1>6 DEF DoneOf
<1>9. Authorized!Conclude(r, o)
  BY <1>2, <1>5, <1>7, <1>8 DEF Authorized!Conclude, ResultOf, DoneOf
<1>10. r \in Records /\ o \in {"blocked", "completed", "failed", "partial"}
  BY <1>6 DEF Final
<1> QED BY <1>9, <1>10

LEMMA StepImplements ==
    ASSUME IInv, CountInv, [Next]_vars
    PROVE  [Authorized!Next]_<<ResultOf, DoneOf>>
<1>1. load' = load
  BY Splits, ElsewhereFacts, Continuing
<1>2. CASE ~Promised
  <2>1. ~Promised'
    BY <1>1, <1>2 DEF Promised
  <2> QED BY <1>2, <2>1 DEF ResultOf, DoneOf
<1>3. CASE Promised /\ Elsewhere
  BY <1>3, ElsewhereImplements DEF Authorized!Next
<1>4. ASSUME Promised, NEW q \in Handlers, Continue(q)
      PROVE  [Authorized!Next]_<<ResultOf, DoneOf>>
  <2>1. CASE StartAction(q) \/ OpenTarget(q)
    <3>1. PICK part : Begins(q, part)
      BY <2>1 DEF Begins
    <3>2. \E r \in Records : Authorized!Act(r)
      BY <1>1, <1>4, <3>1, ActingImplements
    <3> QED BY <3>2 DEF Authorized!Next
  <2>2. CASE RecordOutcome(q)
    BY <1>4, <2>2, RecordingImplements DEF Authorized!Next
  <2>3. CASE ~(StartAction(q) \/ OpenTarget(q) \/ RecordOutcome(q))
    <3>1. UNCHANGED <<authority, touched>>
      BY <1>4, <2>3 DEF Continue, ReadAuthority, CheckServicePage, Refuse, StartFileDiff, EndAction,
             ReadTarget, MismatchTarget, WriteTarget, FailWrite
    <3> QED BY <1>1, <3>1, NothingShows
  <2> QED BY <2>1, <2>2, <2>3
<1> QED BY <1>2, <1>3, <1>4, Splits

\* One at a time and without a crash, a record is used once and its result says what was
\* done, for any number of records, requests and files: a blocked action was never begun,
\* a completed one was done in full, a failed one in full or not at all.
THEOREM UsedOnce == Spec => UsedOnceAsRecorded
<1>1. Init => Authorized!Init
  BY InitImplements
<1>2. IInv /\ CountInv /\ [Next]_vars => [Authorized!Next]_Authorized!vars
  BY StepImplements DEF Authorized!vars, ResultOf, DoneOf
<1> QED BY <1>1, <1>2, Invariance, CountInvariance, PTL DEF Spec, UsedOnceAsRecorded, Authorized!Spec
=============================================================================
