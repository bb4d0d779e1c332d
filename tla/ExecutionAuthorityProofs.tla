------------------------- MODULE ExecutionAuthorityProofs -------------------------
(***************************************************************************)
(* Theorems about ExecutionAuthority, for any sets of records, previews    *)
(* and requests at once, any workloads, and any number of files and        *)
(* permissions.                                                            *)
(***************************************************************************)
EXTENDS ExecutionAuthority, TLAPS

-----------------------------------------------------------------------------
(* The inductive invariant.  A request carries facts about its record from *)
(* one step to the next, while the record may get a result and pages come  *)
(* and go; what it carries has to survive both.                            *)

Final == {"blocked", "completed", "failed", "partial"}

RequestType ==
    [pc : Steps, record : Records \cup {None}, ask : Asks \cup {NoAsk}, at : Parts,
     outcome : Results, late : BOOLEAN, barred : BOOLEAN]

PayloadOf(r) == authority[r].payload

\* The page of the record is not to be used.
Barred(r) == Exists(r) /\ PayloadOf(r).page # None /\ ~InForce(PayloadOf(r).page[1])

\* What a request has where it is.
Equipped(rq) ==
    /\ rq.pc # "idle" => rq.record \in Records
    /\ rq.pc \notin {"idle", "recording"} => rq.ask \in Asks
    /\ rq.pc \in {"targets", "opening", "writing"} => rq.at \in Files
    /\ rq.pc = "recording" => rq.outcome \in Final

\* What is known of its record.
Informed(rq) ==
    /\ rq.pc = "reading" /\ rq.late => Settled(rq.record)
    /\ rq.pc \notin {"idle", "reading"} =>
          /\ Exists(rq.record) /\ Issued(PayloadOf(rq.record)) = "not_run"
          /\ ~rq.late
    /\ rq.pc \in {"reading", "checking"} /\ rq.barred => Barred(rq.record)

\* What was established before the adapter and by it.
Cleared(rq) ==
    /\ rq.pc \in {"starting", "targets", "opening", "writing", "acting"} =>
          /\ ~rq.barred
          /\ PayloadOf(rq.record).class \in Executable
          /\ PayloadOf(rq.record).rollback
    /\ rq.pc \in {"targets", "opening", "writing", "acting"} => rq.ask.body = PayloadOf(rq.record).hash
    /\ rq.pc \in {"targets", "opening", "writing"} => PayloadOf(rq.record).class = "file_diff"
    /\ rq.pc = "acting" => PayloadOf(rq.record).class # "file_diff"

Sound(rq) == rq \in RequestType /\ Equipped(rq) /\ Informed(rq) /\ Cleared(rq)

\* A record that was issued blocked stays so; a scope names a permission there is.
RowSound(r) ==
    Exists(r) =>
        /\ authority[r] \in Rows
        /\ Issued(PayloadOf(r)) = "blocked" => authority[r].result = "blocked"
        /\ PayloadOf(r).page # None =>
              PayloadOf(r).class = "browser_action" /\ PayloadOf(r).page[1] \in 1 .. newest

RecordsInv ==
    /\ authority \in [Records -> Rows \cup {Absent}]
    /\ \A r \in Records : RowSound(r)

RequestsInv ==
    /\ requests \in [Handlers -> RequestType]
    /\ \A q \in Handlers : Sound(requests[q])

PagesInv ==
    /\ pages \in [PermissionIds -> Permissions]
    /\ newest \in 0 .. MaxPermissions

RestInv ==
    /\ load \in Workloads
    /\ content \in [Files -> Hashes \cup {"base", "torn"}]
    /\ touched \in [Records -> SUBSET (Parts \X Hashes)]

IInv == RecordsInv /\ RequestsInv /\ PagesInv /\ RestInv

LEMMA InvariantTypes == IInv => TypeOK
BY DEF IInv, RecordsInv, RequestsInv, PagesInv, RestInv, TypeOK, RequestType

-----------------------------------------------------------------------------
(* What every step keeps                                                   *)

\* Records keep their payload and their result, and a barred page stays barred.
Keeps ==
    /\ \A r \in Records : Exists(r) =>
          Exists(r)' /\ PayloadOf(r)' = PayloadOf(r) /\ (Settled(r) => Settled(r)')
    /\ \A r \in Records : Barred(r) => Barred(r)'

LEMMA RowTypes ==
    ASSUME NEW row \in Rows
    PROVE  /\ row.payload \in Payloads /\ row.result \in Results
           /\ row # Absent
BY DEF Rows, Absent, Results

LEMMA RecordKinds ==
    ASSUME RecordsInv, NEW r \in Records
    PROVE  /\ ~Exists(r) => authority[r].result = "absent" /\ ~Settled(r)
           /\ Exists(r) => authority[r] \in Rows /\ authority[r].payload \in Payloads
                            /\ authority[r].result \in Results
           /\ Exists(r) => (Settled(r) <=> authority[r].result # "not_run")
<1>1. CASE ~Exists(r)
  BY <1>1 DEF Exists, Absent, Settled
<1>2. CASE Exists(r)
  <2>1. authority[r] \in Rows
    BY <1>2 DEF RecordsInv, RowSound
  <2>2. authority[r].payload \in Payloads /\ authority[r].result \in Results
    BY <2>1, RowTypes
  <2> QED BY <1>2, <2>1, <2>2 DEF Settled, Results
<1> QED BY <1>1, <1>2

LEMMA SoundPersists ==
    ASSUME NEW rq, Sound(rq), RecordsInv, Keeps
    PROVE  Sound(rq)'
<1> USE DEF Sound
<1>1. Equipped(rq)'
  BY DEF Equipped
<1>2. Informed(rq)'
  <2>1. rq.pc = "reading" /\ rq.late => Settled(rq.record)'
    <3> SUFFICES ASSUME rq.pc = "reading", rq.late PROVE Settled(rq.record)'
      OBVIOUS
    <3>1. rq.record \in Records /\ Settled(rq.record)
      BY DEF Equipped, Informed
    <3>2. Exists(rq.record)
      BY <3>1, RecordKinds
    <3> QED BY <3>1, <3>2 DEF Keeps
  <2>2. ASSUME rq.pc \notin {"idle", "reading"}
        PROVE  Exists(rq.record)' /\ (Issued(PayloadOf(rq.record)) = "not_run")' /\ ~rq.late
    <3>1. rq.record \in Records /\ Exists(rq.record) /\ Issued(PayloadOf(rq.record)) = "not_run" /\ ~rq.late
      BY <2>2 DEF Equipped, Informed
    <3>2. Exists(rq.record)' /\ PayloadOf(rq.record)' = PayloadOf(rq.record)
      BY <3>1 DEF Keeps
    <3> QED BY <3>1, <3>2 DEF Issued
  <2>3. rq.pc \in {"reading", "checking"} /\ rq.barred => Barred(rq.record)'
    BY DEF Equipped, Informed, Keeps
  <2> QED BY <2>1, <2>2, <2>3 DEF Informed
<1>3. Cleared(rq)'
  <2>1. CASE rq.pc \in {"starting", "targets", "opening", "writing", "acting"}
    <3>1. rq.record \in Records /\ Exists(rq.record)
      BY <2>1 DEF Equipped, Informed
    <3>2. PayloadOf(rq.record)' = PayloadOf(rq.record)
      BY <3>1 DEF Keeps
    <3> QED BY <3>2 DEF Cleared
  <2>2. CASE rq.pc \notin {"starting", "targets", "opening", "writing", "acting"}
    BY <2>2 DEF Cleared
  <2> QED BY <2>1, <2>2
<1> QED BY <1>1, <1>2, <1>3

LEMMA IdleSound == Sound(Idle)
<1>1. Idle \in RequestType
  BY AuthorityAssumption DEF Idle, RequestType, Steps, NoAsk, Parts, Results
<1> QED BY <1>1 DEF Sound, Idle, Equipped, Informed, Cleared

-----------------------------------------------------------------------------
(* Steps of requests                                                       *)

\* A step of q that leaves records and pages alone moves its request to new.
Moves(q, new) ==
    /\ requests' = [requests EXCEPT ![q] = new]
    /\ UNCHANGED <<load, authority, pages, newest>>

LEMMA MovesAreSound ==
    ASSUME IInv, NEW q \in Handlers, NEW new, Moves(q, new), Sound(new)
    PROVE  RecordsInv' /\ RequestsInv' /\ PagesInv'
<1>1. RecordsInv' /\ PagesInv'
  BY DEF IInv, Moves, RecordsInv, PagesInv, RowSound, Exists, PayloadOf
<1>2. \A rq : Sound(rq) => Sound(rq)'
  BY DEF Moves, Sound, Equipped, Informed, Cleared, Settled, Exists, PayloadOf, Barred, InForce
<1>3. RequestsInv'
  <2>1. requests' \in [Handlers -> RequestType]
    BY DEF IInv, RequestsInv, Moves, Sound
  <2>2. ASSUME NEW other \in Handlers PROVE Sound(requests[other])'
    <3>1. Sound(requests'[other])
      BY DEF IInv, RequestsInv, Moves
    <3> DEFINE now == requests'[other]
    <3>2. Sound(now)
      BY <3>1
    <3> HIDE DEF now
    <3>3. \A rq : Sound(rq) => Sound(rq)'
      BY <1>2
    <3> QED BY <3>2, <1>2 DEF now
  <2> QED BY <2>1, <2>2 DEF RequestsInv
<1> QED BY <1>1, <1>3

LEMMA Going ==
    ASSUME NEW rq \in RequestType, NEW pc \in Steps
    PROVE  LET new == [rq EXCEPT !.pc = pc] IN
           /\ new \in RequestType /\ new.pc = pc
           /\ new.record = rq.record /\ new.ask = rq.ask /\ new.at = rq.at
           /\ new.outcome = rq.outcome /\ new.late = rq.late /\ new.barred = rq.barred
BY DEF RequestType

\* A request that ends in an outcome keeps what its record's row needs.
LEMMA ConcludedSound ==
    ASSUME NEW rq \in RequestType, rq.record \in Records, Exists(rq.record),
           Issued(PayloadOf(rq.record)) = "not_run", ~rq.late, NEW o \in Final
    PROVE  Sound([rq EXCEPT !.pc = "recording", !.outcome = o, !.ask = NoAsk, !.at = 0])
<1> DEFINE new == [rq EXCEPT !.pc = "recording", !.outcome = o, !.ask = NoAsk, !.at = 0]
<1>1. /\ new \in RequestType /\ new.pc = "recording" /\ new.outcome = o
      /\ new.record = rq.record /\ new.late = rq.late
  <2>1. "recording" \in Steps /\ o \in Results
    BY DEF Steps, Final, Results
  <2>2. 0 \in Parts
    BY AuthorityAssumption DEF Parts
  <2>3. NoAsk \in Asks \cup {NoAsk}
    OBVIOUS
  <2> QED BY <2>1, <2>2, <2>3 DEF RequestType
<1> HIDE DEF new
<1>2. Sound(new)
  BY <1>1 DEF Sound, Equipped, Informed, Cleared
<1> QED BY <1>2 DEF new

LEMMA ConcludesMoves ==
    ASSUME IInv, NEW q \in Handlers, NEW o \in Final, Concludes(q, o),
           requests[q].pc \notin {"idle", "reading"},
           UNCHANGED <<load, authority, pages, newest>>
    PROVE  RecordsInv' /\ RequestsInv' /\ PagesInv'
<1> DEFINE new == [requests[q] EXCEPT !.pc = "recording", !.outcome = o, !.ask = NoAsk, !.at = 0]
<1>1. Sound(requests[q]) /\ requests[q] \in RequestType
  BY DEF IInv, RequestsInv
<1>2. Sound(new)
  BY <1>1, ConcludedSound DEF Sound, Equipped, Informed
<1>3. Moves(q, new)
  BY DEF Concludes, Becomes, Moves
<1> QED BY <1>2, <1>3, MovesAreSound

\* A record that has not run was not issued blocked, and no request for it came late.
LEMMA UnsettledRecord ==
    ASSUME IInv, NEW q \in Handlers, At(q, "reading"),
           Exists(requests[q].record), ~Settled(requests[q].record)
    PROVE  /\ requests[q].record \in Records /\ requests[q].ask \in Asks
           /\ Issued(RowOf(q)) = "not_run" /\ ~requests[q].late
<1>1. requests[q].record \in Records /\ requests[q].ask \in Asks /\ ~requests[q].late
  BY DEF IInv, RequestsInv, Sound, Equipped, Informed, At
<1>2. authority[requests[q].record].result = "not_run" /\ RowSound(requests[q].record)
  BY <1>1, RecordKinds DEF IInv, RecordsInv
<1> QED BY <1>1, <1>2 DEF RowSound, Issued, PayloadOf, RowOf

\* With what the preflight and, for a page, the permission in force let pass.
LEMMA StartingSound ==
    ASSUME IInv, NEW q \in Handlers, requests[q].pc \in {"reading", "checking"},
           Exists(requests[q].record), Issued(RowOf(q)) = "not_run", ~requests[q].late,
           Preflight(RowOf(q), requests[q].ask), ~requests[q].barred
    PROVE  Sound([requests[q] EXCEPT !.pc = "starting"])
<1> DEFINE rq == requests[q]
           new == [rq EXCEPT !.pc = "starting"]
<1>1. rq \in RequestType /\ rq.record \in Records /\ rq.ask \in Asks
  BY DEF IInv, RequestsInv, Sound, Equipped
<1>2. "starting" \in Steps
  BY DEF Steps
<1>3. /\ new \in RequestType /\ new.pc = "starting" /\ new.record = rq.record /\ new.ask = rq.ask
      /\ new.late = rq.late /\ new.barred = rq.barred
  BY <1>1, <1>2, Going
<1>4. PayloadOf(rq.record).class \in Executable /\ PayloadOf(rq.record).rollback
  BY DEF Preflight, RowOf, PayloadOf
<1> HIDE DEF new
<1>5. Sound(new)
  BY <1>1, <1>3, <1>4 DEF Sound, Equipped, Informed, Cleared, RowOf, PayloadOf
<1> QED BY <1>5 DEF new

LEMMA ReadingStep ==
    ASSUME IInv, NEW q \in Handlers, ReadAuthority(q)
    PROVE  RecordsInv' /\ RequestsInv' /\ PagesInv'
<1> DEFINE r == requests[q].record
           rq == requests[q]
<1>0. UNCHANGED <<load, authority, pages, newest>> /\ At(q, "reading")
  BY DEF ReadAuthority, pageVars
<1>1. Sound(rq) /\ rq \in RequestType
  BY DEF IInv, RequestsInv, Sound
<1>2. CASE ~Exists(r) \/ Settled(r)
  <2>1. Moves(q, Idle)
    BY <1>0, <1>2 DEF ReadAuthority, Becomes, Moves
  <2> QED BY <2>1, IdleSound, MovesAreSound
<1>3. CASE Exists(r) /\ ~Settled(r)
  <2>1. /\ r \in Records /\ rq.ask \in Asks
        /\ Issued(RowOf(q)) = "not_run" /\ ~rq.late
    BY <1>0, <1>3, UnsettledRecord
  <2>2. CASE rq.ask.class = "browser_action"
    <3> DEFINE new == [rq EXCEPT !.pc = "checking"]
    <3>1. Moves(q, new)
      BY <1>0, <1>3, <2>2 DEF ReadAuthority, Goes, Becomes, Moves
    <3>2. "checking" \in Steps
      BY DEF Steps
    <3>3. /\ new \in RequestType /\ new.pc = "checking" /\ new.record = rq.record
          /\ new.ask = rq.ask /\ new.late = rq.late /\ new.barred = rq.barred
      BY <1>1, <3>2, Going
    <3> HIDE DEF new
    <3>4. Sound(new)
      BY <1>0, <1>1, <1>3, <2>1, <3>3 DEF Sound, Equipped, Informed, Cleared, RowOf, PayloadOf, At
    <3> QED BY <3>1, <3>4, MovesAreSound
  <2>3. CASE rq.ask.class # "browser_action" /\ Preflight(RowOf(q), rq.ask)
    <3> DEFINE new == [rq EXCEPT !.pc = "starting"]
    <3>1. Moves(q, new)
      BY <1>0, <1>3, <2>3 DEF ReadAuthority, Decide, Goes, Becomes, Moves
    <3>2. ~rq.barred
      <4>1. RowSound(r) /\ (rq.barred => Barred(r))
        BY <1>0, <1>1, <2>1 DEF IInv, RecordsInv, Sound, Informed, At
      <4> QED BY <4>1, <1>3, <2>3 DEF RowSound, Barred, Preflight, RowOf, PayloadOf
    <3>3. Sound(new)
      BY <1>0, <1>3, <2>1, <2>3, <3>2, StartingSound DEF At
    <3> QED BY <3>1, <3>3, MovesAreSound
  <2>4. CASE rq.ask.class # "browser_action" /\ ~Preflight(RowOf(q), rq.ask)
    <3> DEFINE new == [rq EXCEPT !.pc = "recording", !.outcome = "blocked", !.ask = NoAsk, !.at = 0]
    <3>1. Moves(q, new)
      BY <1>0, <1>3, <2>4 DEF ReadAuthority, Decide, Concludes, Becomes, Moves
    <3>2. Sound(new)
      <4>1. "blocked" \in Final
        BY DEF Final
      <4> QED BY <4>1, <1>1, <1>3, <2>1, ConcludedSound DEF RowOf, PayloadOf
    <3> QED BY <3>1, <3>2, MovesAreSound
  <2> QED BY <2>2, <2>3, <2>4
<1> QED BY <1>2, <1>3

\* The permission of the page is in force when the check passes.
LEMMA CheckingStep ==
    ASSUME IInv, NEW q \in Handlers, CheckServicePage(q)
    PROVE  RecordsInv' /\ RequestsInv' /\ PagesInv'
<1> DEFINE r == requests[q].record
           rq == requests[q]
           passes == Preflight(RowOf(q), rq.ask) /\ rq.ask.body = rq.ask.hash /\ PageAllows(RowOf(q), rq.ask)
<1>0. UNCHANGED <<load, authority, pages, newest>> /\ At(q, "checking")
  BY DEF CheckServicePage, pageVars
<1>1. Sound(rq) /\ rq \in RequestType
  BY DEF IInv, RequestsInv, Sound
<1>2. CASE passes
  <2> DEFINE new == [rq EXCEPT !.pc = "starting"]
  <2>1. Moves(q, new)
    BY <1>0, <1>2 DEF CheckServicePage, Decide, Goes, Becomes, Moves
  <2>2. ~rq.barred
    BY <1>0, <1>1, <1>2 DEF Sound, Informed, Barred, At, PageAllows, PagePermits, RowOf, PayloadOf
  <2>3. Exists(r) /\ Issued(RowOf(q)) = "not_run" /\ ~rq.late
    BY <1>0, <1>1 DEF Sound, Informed, At, RowOf, PayloadOf
  <2>4. Sound(new)
    BY <1>0, <1>2, <2>2, <2>3, StartingSound DEF At
  <2> QED BY <2>1, <2>4, MovesAreSound
<1>3. CASE ~passes
  <2>1. Concludes(q, "blocked")
    BY <1>3 DEF CheckServicePage, Decide
  <2>2. "blocked" \in Final
    BY DEF Final
  <2> QED BY <2>1, <2>2, <1>0, ConcludesMoves DEF At
<1> QED BY <1>2, <1>3

\* The adapter has what was reviewed, of the class it acts on.
LEMMA AdapterStarts ==
    ASSUME IInv, NEW q \in Handlers, At(q, "starting"), Approved(q),
           NEW pc \in {"targets", "acting"}, NEW at \in Files,
           pc = "targets" => RowOf(q).class = "file_diff",
           pc = "acting" => RowOf(q).class # "file_diff"
    PROVE  /\ Sound([requests[q] EXCEPT !.pc = pc, !.at = at])
           /\ pc = "acting" => Sound([requests[q] EXCEPT !.pc = pc])
<1> DEFINE rq == requests[q]
           new == [rq EXCEPT !.pc = pc, !.at = at]
           other == [rq EXCEPT !.pc = pc]
<1>1. Sound(rq) /\ rq \in RequestType /\ rq.pc = "starting"
  BY DEF IInv, RequestsInv, Sound, At
<1>2. pc \in Steps /\ at \in Parts
  BY AuthorityAssumption DEF Steps, Parts, Files
<1>3. /\ new \in RequestType /\ new.pc = pc /\ new.record = rq.record /\ new.at = at
      /\ new.ask = rq.ask /\ new.late = rq.late /\ new.barred = rq.barred
  BY <1>1, <1>2 DEF RequestType
<1>4. /\ other \in RequestType /\ other.pc = pc /\ other.record = rq.record
      /\ other.ask = rq.ask /\ other.late = rq.late /\ other.barred = rq.barred
  BY <1>1, <1>2, Going
<1> HIDE DEF new, other
<1>5. Sound(new)
  BY <1>1, <1>3 DEF Sound, Equipped, Informed, Cleared, Approved, RowOf, PayloadOf
<1>6. pc = "acting" => Sound(other)
  BY <1>1, <1>4 DEF Sound, Equipped, Informed, Cleared, Approved, RowOf, PayloadOf
<1> QED BY <1>5, <1>6 DEF new, other

\* A request goes on within its diff.
LEMMA DiffGoesOn ==
    ASSUME IInv, NEW q \in Handlers, requests[q].pc \in {"targets", "opening", "writing"},
           NEW pc \in {"targets", "opening", "writing"}, NEW at \in Files
    PROVE  /\ Sound([requests[q] EXCEPT !.pc = pc, !.at = at])
           /\ Sound([requests[q] EXCEPT !.pc = pc])
           /\ Sound([requests[q] EXCEPT !.at = at])
<1> DEFINE rq == requests[q]
           both == [rq EXCEPT !.pc = pc, !.at = at]
           next == [rq EXCEPT !.pc = pc]
           further == [rq EXCEPT !.at = at]
<1>1. Sound(rq) /\ rq \in RequestType
  BY DEF IInv, RequestsInv, Sound
<1>2. pc \in Steps /\ at \in Parts
  BY AuthorityAssumption DEF Steps, Parts, Files
<1>3. /\ both \in RequestType /\ both.pc = pc /\ both.record = rq.record /\ both.at = at
      /\ both.ask = rq.ask /\ both.late = rq.late /\ both.barred = rq.barred
  BY <1>1, <1>2 DEF RequestType
<1>4. /\ next \in RequestType /\ next.pc = pc /\ next.record = rq.record /\ next.at = rq.at
      /\ next.ask = rq.ask /\ next.late = rq.late /\ next.barred = rq.barred
  BY <1>1, <1>2, Going
<1>5. /\ further \in RequestType /\ further.pc = rq.pc /\ further.record = rq.record
      /\ further.at = at /\ further.ask = rq.ask /\ further.late = rq.late
      /\ further.barred = rq.barred
  BY <1>1, <1>2 DEF RequestType
<1> HIDE DEF both, next, further
<1>6. Sound(both)
  BY <1>1, <1>3 DEF Sound, Equipped, Informed, Cleared
<1>7. Sound(next)
  BY <1>1, <1>4 DEF Sound, Equipped, Informed, Cleared
<1>8. Sound(further)
  BY <1>1, <1>5 DEF Sound, Equipped, Informed, Cleared
<1> QED BY <1>6, <1>7, <1>8 DEF both, next, further

LEMMA StartingStep ==
    ASSUME IInv, NEW q \in Handlers, Refuse(q) \/ StartFileDiff(q) \/ StartAction(q) \/ EndAction(q)
    PROVE  RecordsInv' /\ RequestsInv' /\ PagesInv'
<1>0. UNCHANGED <<load, authority, pages, newest>>
  BY DEF Refuse, StartFileDiff, StartAction, EndAction, pageVars
<1>1. CASE Refuse(q)
  <2>1. "blocked" \in Final
    BY DEF Final
  <2> QED BY <1>0, <1>1, <2>1, ConcludesMoves DEF Refuse, At
<1>2. CASE StartFileDiff(q)
  <2> DEFINE new == [requests[q] EXCEPT !.pc = "targets", !.at = 1]
  <2>1. 1 \in Files
    BY AuthorityAssumption DEF Files
  <2>2. Sound(new)
    BY <1>2, <2>1, AdapterStarts DEF StartFileDiff
  <2>3. Moves(q, new)
    BY <1>0, <1>2 DEF StartFileDiff, Becomes, Moves
  <2> QED BY <2>2, <2>3, MovesAreSound
<1>3. CASE StartAction(q)
  <2> DEFINE new == [requests[q] EXCEPT !.pc = "acting"]
  <2>1. 1 \in Files
    BY AuthorityAssumption DEF Files
  <2>2. RowOf(q).class # "file_diff" /\ At(q, "starting") /\ Approved(q)
    BY <1>3 DEF StartAction
  <2>3. Sound(new)
    BY <2>1, <2>2, AdapterStarts
  <2>4. Moves(q, new)
    BY <1>0, <1>3 DEF StartAction, Goes, Becomes, Moves
  <2> QED BY <2>3, <2>4, MovesAreSound
<1>4. CASE EndAction(q)
  <2>1. PICK o \in {"completed", "failed"} : Concludes(q, o)
    BY <1>4 DEF EndAction
  <2>2. o \in Final
    BY DEF Final
  <2> QED BY <1>0, <1>4, <2>1, <2>2, ConcludesMoves DEF EndAction, At
<1> QED BY <1>1, <1>2, <1>3, <1>4

LEMMA FilesStep ==
    ASSUME IInv, NEW q \in Handlers,
           ReadTarget(q) \/ MismatchTarget(q) \/ OpenTarget(q) \/ WriteTarget(q) \/ FailWrite(q)
    PROVE  RecordsInv' /\ RequestsInv' /\ PagesInv'
<1> DEFINE rq == requests[q]
           f == rq.at
<1>0. UNCHANGED <<load, authority, pages, newest>>
  BY DEF ReadTarget, MismatchTarget, OpenTarget, WriteTarget, FailWrite, pageVars
<1>1. /\ rq.pc \in {"targets", "opening", "writing"}
      /\ rq \in RequestType /\ f \in Files
  BY DEF IInv, RequestsInv, Sound, Equipped, At,
         ReadTarget, MismatchTarget, OpenTarget, WriteTarget, FailWrite
<1>2. {"failed", "partial", "completed"} \subseteq Final
  BY DEF Final
<1>3. 1 \in Files /\ (f # FileCount => f + 1 \in Files) /\ (f < FileCount => f + 1 \in Files)
  BY <1>1, AuthorityAssumption DEF Files
<1>4. ASSUME NEW pc \in {"targets", "opening", "writing"}, NEW at \in Files,
             Becomes(q, [rq EXCEPT !.pc = pc, !.at = at])
      PROVE  RecordsInv' /\ RequestsInv' /\ PagesInv'
  <2> DEFINE new == [rq EXCEPT !.pc = pc, !.at = at]
  <2>1. Sound(new)
    BY <1>1, DiffGoesOn
  <2>2. Moves(q, new)
    BY <1>0, <1>4 DEF Becomes, Moves
  <2> QED BY <2>1, <2>2, MovesAreSound
<1>5. CASE ReadTarget(q)
  <2>1. CASE f < FileCount
    <3> DEFINE new == [rq EXCEPT !.at = f + 1]
    <3>1. Moves(q, new)
      BY <1>0, <1>5, <2>1 DEF ReadTarget, Becomes, Moves
    <3>2. Sound(new)
      BY <1>1, <1>3, <2>1, DiffGoesOn
    <3> QED BY <3>1, <3>2, MovesAreSound
  <2>2. CASE ~(f < FileCount)
    <3>1. Becomes(q, [rq EXCEPT !.pc = "opening", !.at = 1])
      BY <1>5, <2>2 DEF ReadTarget
    <3> QED BY <3>1, <1>3, <1>4
  <2> QED BY <2>1, <2>2
<1>6. CASE MismatchTarget(q)
  BY <1>0, <1>1, <1>2, <1>6, ConcludesMoves DEF MismatchTarget
<1>7. CASE OpenTarget(q)
  <2> DEFINE new == [rq EXCEPT !.pc = "writing"]
  <2>1. Moves(q, new)
    BY <1>0, <1>7 DEF OpenTarget, Goes, Becomes, Moves
  <2>2. Sound(new)
    BY <1>1, DiffGoesOn
  <2> QED BY <2>1, <2>2, MovesAreSound
<1>8. CASE WriteTarget(q)
  <2>1. CASE f = FileCount
    <3>1. Concludes(q, "completed")
      BY <1>8, <2>1 DEF WriteTarget, LastTarget
    <3> QED BY <3>1, <1>0, <1>1, <1>2, ConcludesMoves
  <2>2. CASE f # FileCount
    <3>1. Becomes(q, [rq EXCEPT !.pc = "opening", !.at = f + 1])
      BY <1>8, <2>2 DEF WriteTarget, LastTarget
    <3> QED BY <3>1, <2>2, <1>3, <1>4
  <2> QED BY <2>1, <2>2
<1>9. CASE FailWrite(q)
  BY <1>0, <1>1, <1>2, <1>9, ConcludesMoves DEF FailWrite
<1> QED BY <1>5, <1>6, <1>7, <1>8, <1>9

-----------------------------------------------------------------------------
(* Steps of records, pages and the process                                 *)

\* Where records and pages change, a request stays as it is or is forgotten.
LEMMA OthersAreSound ==
    ASSUME IInv, Keeps, requests' \in [Handlers -> RequestType],
           \A q \in Handlers : requests'[q] = requests[q] \/ requests'[q] = Idle
    PROVE  RequestsInv'
<1>1. \A rq : Sound(rq) => Sound(rq)'
  BY SoundPersists DEF IInv
<1>2. ASSUME NEW q \in Handlers PROVE Sound(requests[q])'
  <2> DEFINE now == requests'[q]
  <2>1. Sound(now)
    BY IdleSound DEF IInv, RequestsInv
  <2> HIDE DEF now
  <2> QED BY <2>1, <1>1 DEF now
<1> QED BY <1>2 DEF RequestsInv

LEMMA RecordingStep ==
    ASSUME IInv, NEW q \in Handlers, RecordOutcome(q)
    PROVE  RecordsInv' /\ RequestsInv' /\ PagesInv'
<1> DEFINE r == requests[q].record
           o == requests[q].outcome
<1>1. /\ r \in Records /\ Exists(r) /\ o \in Final
      /\ Issued(PayloadOf(r)) = "not_run"
  BY DEF IInv, RequestsInv, Sound, Equipped, Informed, RecordOutcome, At
<1>2. authority[r] \in Rows /\ authority[r].payload \in Payloads
  BY <1>1, RecordKinds DEF IInv
<1>3. /\ authority' = [authority EXCEPT ![r].result = o]
      /\ UNCHANGED <<pages, newest>>
      /\ requests' = [requests EXCEPT ![q] = Idle]
  BY DEF RecordOutcome, Becomes, pageVars
<1>4. /\ authority'[r] \in Rows /\ authority'[r].payload = authority[r].payload
      /\ authority'[r].result = o /\ authority'[r] # Absent
  BY <1>1, <1>2, <1>3, RowTypes DEF IInv, RecordsInv, Rows, Final, Results
<1>5. \A other \in Records : other # r => authority'[other] = authority[other]
  BY <1>3 DEF IInv, RecordsInv
<1>6. Keeps
  BY <1>1, <1>3, <1>4, <1>5 DEF Keeps, Exists, PayloadOf, Settled, Barred, InForce, Final
<1>7. RecordsInv'
  <2>1. authority' \in [Records -> Rows \cup {Absent}]
    BY <1>1, <1>3, <1>4 DEF IInv, RecordsInv
  <2>2. ASSUME NEW other \in Records PROVE RowSound(other)'
    BY <1>1, <1>3, <1>4, <1>5 DEF IInv, RecordsInv, RowSound, Exists, PayloadOf, Issued
  <2> QED BY <2>1, <2>2 DEF RecordsInv
<1>8. RequestsInv'
  BY <1>3, <1>6, OthersAreSound, IdleSound DEF IInv, RequestsInv, Sound
<1> QED BY <1>3, <1>7, <1>8 DEF IInv, PagesInv

\* A record comes with the result its payload gives it; no other changes.
LEMMA CreateStep ==
    ASSUME IInv, NEW r \in Records, NEW p \in Payloads, CreateExecutionAuthority(r, p)
    PROVE  RecordsInv' /\ RequestsInv' /\ PagesInv'
<1>1. /\ authority' = [authority EXCEPT ![r] = [payload |-> p, result |-> Issued(p)]]
      /\ UNCHANGED <<requests, pages, newest>> /\ ~Exists(r)
      /\ p.page # None => p.class = "browser_action" /\ p.page[1] <= newest
  BY DEF CreateExecutionAuthority, Exists, pageVars
<1>2. Issued(p) \in Results
  BY DEF Issued, Results
<1>3. /\ authority'[r] \in Rows /\ authority'[r].payload = p
      /\ authority'[r].result = Issued(p) /\ authority'[r] # Absent
  BY <1>1, <1>2, RowTypes DEF IInv, RecordsInv, Rows
<1>4. \A other \in Records : other # r => authority'[other] = authority[other]
  BY <1>1 DEF IInv, RecordsInv
<1>5. Keeps
  BY <1>1, <1>4 DEF Keeps, Exists, PayloadOf, Settled, Barred, InForce
<1>6. p.page # None => p.page[1] \in 1 .. newest
  BY <1>1, PermissionAssumption DEF Payloads, Scopes, PermissionIds, IInv, PagesInv
<1>7. RecordsInv'
  <2>1. authority' \in [Records -> Rows \cup {Absent}]
    BY <1>1, <1>3 DEF IInv, RecordsInv
  <2>2. ASSUME NEW other \in Records PROVE RowSound(other)'
    <3>1. CASE other = r
      BY <1>1, <1>3, <1>6, <3>1 DEF RowSound, PayloadOf
    <3>2. CASE other # r
      BY <1>1, <1>4, <3>2 DEF IInv, RecordsInv, RowSound, Exists, PayloadOf
    <3> QED BY <3>1, <3>2
  <2> QED BY <2>1, <2>2 DEF RecordsInv
<1>8. RequestsInv'
  BY <1>1, <1>5, OthersAreSound DEF IInv, RequestsInv
<1> QED BY <1>1, <1>7, <1>8 DEF IInv, PagesInv

\* No permission comes into force again: only one that is created does.
LEMMA PagesChange ==
    ASSUME IInv, ChangePages
    PROVE  /\ PagesInv' /\ newest <= newest' /\ newest' \in Nat
           /\ \A n \in 1 .. newest : InForce(n)' => InForce(n)
<1>1. load.grants \subseteq PermissionPayloads
  BY AuthorityAssumption DEF IInv, RestInv
<1>2. /\ newest \in Nat /\ newest <= MaxPermissions
      /\ pages \in [PermissionIds -> Permissions]
  BY PermissionAssumption DEF IInv, PagesInv
<1>3. CASE \E p \in load.grants : CreateServicePageUsePermission(p)
  <2>1. PICK p \in load.grants : CreateServicePageUsePermission(p)
    BY <1>3
  <2> DEFINE made == [allows |-> p.allows, perAction |-> p.perAction, artifacts |-> TRUE, status |-> StatusOf(p)]
             next == newest + 1
  <2>2. p \in PermissionPayloads
    BY <1>1, <2>1
  <2>3. StatusOf(p) \in {"granted", "blocked", "final_submit_requested"}
    BY DEF StatusOf
  <2>4. made \in Permissions
    BY <2>2, <2>3 DEF PermissionPayloads, Permissions
  <2>5. next \in PermissionIds /\ newest' = next /\ newest < next /\ next \in 0 .. MaxPermissions
    BY <1>2, <2>1, PermissionAssumption DEF CreateServicePageUsePermission, PermissionIds
  <2>6. pages' = [pages EXCEPT ![next] = made]
    BY <2>1 DEF CreateServicePageUsePermission
  <2> HIDE DEF made, next
  <2>7. pages' \in [PermissionIds -> Permissions]
    BY <1>2, <2>4, <2>5, <2>6
  <2>8. \A n \in 1 .. newest : n # newest'
    BY <1>2, <2>5
  <2> QED BY <1>2, <2>5, <2>7, <2>8 DEF PagesInv, InForce
<1>4. CASE \E n \in PermissionIds :
              RevokeServicePageUsePermission(n) \/ DeleteServicePageUsePermissionArtifacts(n)
  <2>1. PICK n \in PermissionIds :
              RevokeServicePageUsePermission(n) \/ DeleteServicePageUsePermissionArtifacts(n)
    BY <1>4
  <2>2. newest' = newest
    BY <2>1 DEF RevokeServicePageUsePermission, DeleteServicePageUsePermissionArtifacts
  <2>3. PICK new \in Permissions :
           /\ pages' = [pages EXCEPT ![n] = new]
           /\ new.status = pages[n].status \/ new.status = "revoked"
    <3>1. pages[n] \in Permissions
      BY <1>2
    <3>2. CASE RevokeServicePageUsePermission(n)
      <4> DEFINE new == [pages[n] EXCEPT !.status = "revoked"]
      <4>1. new \in Permissions /\ new.status = "revoked"
        BY <3>1 DEF Permissions
      <4>2. pages' = [pages EXCEPT ![n] = new]
        BY <3>2 DEF RevokeServicePageUsePermission
      <4> QED BY <4>1, <4>2
    <3>3. CASE DeleteServicePageUsePermissionArtifacts(n)
      <4> DEFINE new == [pages[n] EXCEPT !.artifacts = FALSE]
      <4>1. new \in Permissions /\ new.status = pages[n].status
        BY <3>1 DEF Permissions
      <4>2. pages' = [pages EXCEPT ![n] = new]
        BY <3>3 DEF DeleteServicePageUsePermissionArtifacts
      <4> QED BY <4>1, <4>2
    <3> QED BY <2>1, <3>2, <3>3
  <2>4. pages' \in [PermissionIds -> Permissions]
    BY <1>2, <2>3
  <2>5. \A m \in PermissionIds : InForce(m)' => InForce(m)
    BY <1>2, <2>2, <2>3 DEF InForce
  <2>6. 1 .. newest \subseteq PermissionIds
    BY <1>2, PermissionAssumption DEF PermissionIds
  <2> QED BY <1>2, <2>2, <2>4, <2>5, <2>6 DEF PagesInv, IInv
<1> QED BY <1>3, <1>4 DEF ChangePages

LEMMA PagesStep ==
    ASSUME IInv, ChangePages
    PROVE  RecordsInv' /\ RequestsInv' /\ PagesInv'
<1>1. UNCHANGED <<load, authority, requests>>
  BY DEF ChangePages
<1>2. /\ PagesInv' /\ newest \in Nat /\ newest <= newest' /\ newest' \in Nat
      /\ \A n \in 1 .. newest : InForce(n)' => InForce(n)
  BY PagesChange DEF IInv, PagesInv
<1>3. ASSUME NEW r \in Records PROVE Barred(r) => Barred(r)'
  BY <1>1, <1>2 DEF IInv, RecordsInv, RowSound, Barred, Exists, PayloadOf
<1>4. Keeps
  BY <1>1, <1>3 DEF Keeps, Exists, PayloadOf, Settled
<1>5. RecordsInv'
  <2>1. \A r \in Records : RowSound(r)'
    BY <1>1, <1>2 DEF IInv, RecordsInv, RowSound, Exists, PayloadOf
  <2> QED BY <1>1, <2>1 DEF IInv, RecordsInv
<1>6. RequestsInv'
  BY <1>1, <1>4, OthersAreSound DEF IInv, RequestsInv
<1> QED BY <1>2, <1>5, <1>6

LEMMA CrashStep ==
    ASSUME IInv, Crash
    PROVE  RecordsInv' /\ RequestsInv' /\ PagesInv'
<1>1. /\ UNCHANGED <<load, authority, pages, newest>>
      /\ requests' = [q \in Handlers |-> Idle]
  BY DEF Crash, pageVars
<1>2. Keeps
  BY <1>1 DEF Keeps, Exists, PayloadOf, Settled, Barred, InForce
<1>3. RequestsInv'
  BY <1>1, <1>2, IdleSound, OthersAreSound DEF Sound
<1>4. RecordsInv' /\ PagesInv'
  BY <1>1 DEF IInv, RecordsInv, PagesInv, RowSound, Exists, PayloadOf
<1> QED BY <1>3, <1>4

\* What a request knows of its record when it comes.
LEMMA ReceiveStep ==
    ASSUME IInv, NEW q \in Handlers, NEW r \in Records, NEW ask \in Asks, Receive(q, r, ask)
    PROVE  RecordsInv' /\ RequestsInv' /\ PagesInv'
<1> DEFINE late == authority[r].result \notin {"absent", "not_run"}
           barred == Exists(r) /\ authority[r].payload.page # None
                        /\ ~InForce(authority[r].payload.page[1])
           new == [Idle EXCEPT !.pc = "reading", !.record = r, !.ask = ask, !.late = late, !.barred = barred]
<1>1. Moves(q, new)
  BY DEF Receive, Becomes, Moves, pageVars
<1>2. /\ new \in RequestType /\ new.pc = "reading" /\ new.record = r /\ new.ask = ask
      /\ new.late = late /\ new.barred = barred
  <2>1. Idle \in RequestType
    BY IdleSound DEF Sound
  <2>2. late \in BOOLEAN /\ barred \in BOOLEAN /\ "reading" \in Steps
    BY DEF Steps
  <2> HIDE DEF late, barred
  <2> QED BY <2>1, <2>2 DEF RequestType
<1>3. late => Settled(r)
  BY RecordKinds DEF IInv
<1>4. barred => Barred(r)
  BY DEF Barred, PayloadOf
<1> HIDE DEF new, late, barred
<1>5. Sound(new)
  BY <1>2, <1>3, <1>4 DEF Sound, Equipped, Informed, Cleared
<1> QED BY <1>1, <1>5, MovesAreSound

-----------------------------------------------------------------------------
(* What is begun, and the records it is begun under                        *)

\* The two steps that begin a part of an action.
Begins(q, part) ==
    \/ StartAction(q) /\ part = 0
    \/ OpenTarget(q) /\ part = requests[q].at

LEMMA Beginning ==
    ASSUME IInv, NEW q \in Handlers, NEW part, Begins(q, part)
    PROVE  LET r == requests[q].record
               p == PayloadOf(r)
           IN  /\ r \in Records /\ Exists(r) /\ part \in Parts
               /\ requests[q].ask.body \in Hashes /\ requests[q].ask.body = p.hash
               /\ Issued(p) = "not_run" /\ p.rollback
               /\ IF p.class = "file_diff" THEN part \in Files ELSE p.class \in Executable /\ part = 0
               /\ touched' = [touched EXCEPT ![r] = @ \cup {<<part, requests[q].ask.body>>}]
               /\ UNCHANGED authority
<1> DEFINE rq == requests[q]
<1>1. Sound(rq) /\ rq.pc \in {"starting", "opening"}
  BY DEF IInv, RequestsInv, Begins, StartAction, OpenTarget, At
<1>2. /\ rq.record \in Records /\ rq.ask \in Asks /\ Exists(rq.record)
      /\ Issued(PayloadOf(rq.record)) = "not_run"
      /\ PayloadOf(rq.record).rollback /\ PayloadOf(rq.record).class \in Executable
  BY <1>1 DEF Sound, Equipped, Informed, Cleared
<1>3. rq.ask.body \in Hashes
  BY <1>2 DEF Asks
<1>4. /\ touched' = [touched EXCEPT ![rq.record] = @ \cup {<<part, rq.ask.body>>}]
      /\ UNCHANGED authority
  BY DEF Begins, StartAction, OpenTarget, Touches
<1>5. 0 \in Parts /\ Files \subseteq Parts
  BY AuthorityAssumption DEF Parts, Files
<1>6. CASE StartAction(q) /\ part = 0
  BY <1>2, <1>3, <1>4, <1>5, <1>6 DEF StartAction, Approved, RowOf, PayloadOf
<1>7. CASE OpenTarget(q) /\ part = rq.at
  <2>1. rq.pc = "opening"
    BY <1>7 DEF OpenTarget, At
  <2>2. /\ rq.at \in Files /\ rq.ask.body = PayloadOf(rq.record).hash
        /\ PayloadOf(rq.record).class = "file_diff"
    BY <1>1, <2>1 DEF Sound, Equipped, Cleared
  <2> QED BY <1>2, <1>3, <1>4, <1>5, <1>7, <2>2
<1> QED BY <1>6, <1>7 DEF Begins

\* Every step begins a part, records an outcome, makes a record, or leaves both the
\* records and what was begun alone.
LEMMA StepKinds ==
    ASSUME IInv, [Next]_vars
    PROVE  \/ \E q \in Handlers : \E part : Begins(q, part)
           \/ UNCHANGED touched /\ \E q \in Handlers : RecordOutcome(q)
           \/ UNCHANGED touched /\ \E r \in Records, p \in Payloads : CreateExecutionAuthority(r, p)
           \/ UNCHANGED <<touched, authority>>
<1>1. load.records \subseteq Records /\ load.payloads \subseteq Payloads
  BY AuthorityAssumption DEF IInv, RestInv
<1>2. CASE \E r \in load.records, p \in load.payloads : CreateExecutionAuthority(r, p)
  BY <1>1, <1>2 DEF CreateExecutionAuthority
<1>3. CASE ChangePages \/ Crash \/ UNCHANGED vars
  BY <1>3 DEF ChangePages, Crash, vars
<1>4. CASE \E q \in Handlers, r \in load.records, ask \in load.asks : Receive(q, r, ask)
  BY <1>4 DEF Receive
<1>5. CASE \E q \in Handlers : Continue(q)
  <2>1. PICK q \in Handlers : Continue(q)
    BY <1>5
  <2>2. CASE StartAction(q) \/ OpenTarget(q)
    BY <2>2 DEF Begins
  <2>3. CASE RecordOutcome(q)
    BY <2>3 DEF RecordOutcome
  <2>4. CASE ~(StartAction(q) \/ OpenTarget(q) \/ RecordOutcome(q))
    BY <2>1, <2>4 DEF Continue, ReadAuthority, CheckServicePage, Refuse, StartFileDiff, EndAction,
           ReadTarget, MismatchTarget, WriteTarget, FailWrite
  <2> QED BY <2>2, <2>3, <2>4
<1> QED BY <1>2, <1>3, <1>4, <1>5 DEF Next

\* A payload never changes, and a record never goes.
LEMMA PayloadsStay ==
    ASSUME IInv, [Next]_vars, NEW r \in Records, Exists(r)
    PROVE  Exists(r)' /\ PayloadOf(r)' = PayloadOf(r)
<1>1. CASE UNCHANGED authority
  BY <1>1 DEF Exists, PayloadOf
<1>2. CASE \E q \in Handlers : RecordOutcome(q)
  <2>1. PICK q \in Handlers : RecordOutcome(q)
    BY <1>2
  <2> DEFINE done == requests[q].record
             o == requests[q].outcome
  <2>2. authority' = [authority EXCEPT ![done].result = o] /\ done \in Records /\ o \in Results
    BY <2>1 DEF RecordOutcome, At, IInv, RequestsInv, Sound, Equipped, Final, Results
  <2>3. authority[r] \in Rows
    BY RecordKinds DEF IInv
  <2>4. authority'[r] \in Rows /\ authority'[r].payload = authority[r].payload
    BY <2>2, <2>3 DEF IInv, RecordsInv, Rows
  <2> QED BY <2>4, RowTypes DEF Exists, PayloadOf
<1>3. CASE \E made \in Records, p \in Payloads : CreateExecutionAuthority(made, p)
  BY <1>3 DEF CreateExecutionAuthority, Exists, PayloadOf, IInv, RecordsInv
<1>4. CASE \E q \in Handlers : \E part : Begins(q, part)
  BY <1>1, <1>4 DEF Begins, StartAction, OpenTarget
<1> QED BY <1>1, <1>2, <1>3, <1>4, StepKinds

LEMMA RestStep ==
    ASSUME IInv, [Next]_vars
    PROVE  RestInv'
<1>1. load' = load
  BY DEF Next, vars, CreateExecutionAuthority, ChangePages, Receive, Crash, Continue, ReadAuthority,
         CheckServicePage, Refuse, StartFileDiff, StartAction, EndAction, ReadTarget, MismatchTarget,
         OpenTarget, WriteTarget, FailWrite, RecordOutcome
<1>2. touched' \in [Records -> SUBSET (Parts \X Hashes)]
  <2>1. CASE \E q \in Handlers : \E part : Begins(q, part)
    <3>1. PICK q \in Handlers : \E part : Begins(q, part)
      BY <2>1
    <3>2. PICK part : Begins(q, part)
      BY <3>1
    <3> DEFINE r == requests[q].record
               t == <<part, requests[q].ask.body>>
    <3>3. r \in Records /\ t \in Parts \X Hashes /\ touched' = [touched EXCEPT ![r] = @ \cup {t}]
      BY <3>2, Beginning
    <3> HIDE DEF r, t
    <3> QED BY <3>3 DEF IInv, RestInv
  <2>2. CASE UNCHANGED touched
    BY <2>2 DEF IInv, RestInv
  <2> QED BY <2>1, <2>2, StepKinds
<1>3. content' \in [Files -> Hashes \cup {"base", "torn"}]
  <2>1. ASSUME NEW q \in Handlers, OpenTarget(q) \/ WriteTarget(q)
        PROVE  content' \in [Files -> Hashes \cup {"base", "torn"}]
    <3> DEFINE rq == requests[q]
    <3>1. rq.ask \in Asks
      BY <2>1 DEF IInv, RequestsInv, Sound, Equipped, OpenTarget, WriteTarget, At
    <3>2. rq.ask.body \in Hashes
      BY <3>1 DEF Asks
    <3> DEFINE now == IF OpenTarget(q) THEN "torn" ELSE rq.ask.body
    <3>3. now \in Hashes \cup {"base", "torn"}
      BY <3>2
    <3>4. content' = [content EXCEPT ![rq.at] = now]
      BY <2>1 DEF OpenTarget, WriteTarget
    <3> HIDE DEF now
    <3> QED BY <3>3, <3>4 DEF IInv, RestInv
  <2>2. CASE UNCHANGED content
    BY <2>2 DEF IInv, RestInv
  <2>3. UNCHANGED content \/ \E q \in Handlers : OpenTarget(q) \/ WriteTarget(q)
    BY DEF Next, vars, CreateExecutionAuthority, ChangePages, Receive, Crash, Continue, ReadAuthority,
         CheckServicePage, Refuse, StartFileDiff, StartAction, EndAction, ReadTarget, MismatchTarget,
         FailWrite, RecordOutcome
  <2> QED BY <2>1, <2>2, <2>3
<1> QED BY <1>1, <1>2, <1>3 DEF IInv, RestInv

-----------------------------------------------------------------------------
(* The invariant is inductive                                              *)

LEMMA InitIInv == Init => IInv
<1> SUFFICES ASSUME Init PROVE IInv
  OBVIOUS
<1>1. RecordsInv
  BY DEF Init, RecordsInv, RowSound, Exists
<1>2. RequestsInv
  <2>1. Idle \in RequestType /\ Sound(Idle)
    BY IdleSound DEF Sound
  <2> QED BY <2>1 DEF Init, RequestsInv
<1>3. PagesInv
  <2>1. NoPermission \in Permissions
    BY DEF NoPermission, Permissions
  <2> QED BY <2>1, PermissionAssumption DEF Init, PagesInit, PagesInv
<1>4. RestInv
  BY DEF Init, RestInv
<1> QED BY <1>1, <1>2, <1>3, <1>4 DEF IInv

LEMMA NextIInv == IInv /\ [Next]_vars => IInv'
<1> SUFFICES ASSUME IInv, [Next]_vars PROVE IInv'
  OBVIOUS
<1>1. load.records \subseteq Records /\ load.payloads \subseteq Payloads /\ load.asks \subseteq Asks
  BY AuthorityAssumption DEF IInv, RestInv
<1>2. RecordsInv' /\ RequestsInv' /\ PagesInv'
  <2>1. CASE \E r \in load.records, p \in load.payloads : CreateExecutionAuthority(r, p)
    BY <1>1, <2>1, CreateStep
  <2>2. CASE ChangePages
    BY <2>2, PagesStep
  <2>3. CASE \E q \in Handlers, r \in load.records, ask \in load.asks : Receive(q, r, ask)
    BY <1>1, <2>3, ReceiveStep
  <2>4. ASSUME NEW q \in Handlers, Continue(q)
        PROVE  RecordsInv' /\ RequestsInv' /\ PagesInv'
    BY <2>4, ReadingStep, CheckingStep, StartingStep, FilesStep, RecordingStep DEF Continue
  <2>5. CASE Crash
    BY <2>5, CrashStep
  <2>6. CASE UNCHANGED vars
    BY <2>6 DEF vars, pageVars, IInv, RecordsInv, RequestsInv, PagesInv, RowSound, Exists, PayloadOf,
           Sound, Equipped, Informed, Cleared, Settled, Barred, InForce
  <2> QED BY <2>1, <2>2, <2>3, <2>4, <2>5, <2>6 DEF Next
<1>3. RestInv'
  BY RestStep
<1> QED BY <1>2, <1>3 DEF IInv

LEMMA Invariance == Spec => []IInv
BY InitIInv, NextIInv, PTL DEF Spec

\* Every reachable state has its type: the table of records, the files, the requests
\* under way and the permissions hold what the code can store, whatever the workload.
THEOREM TypeCorrect == Spec => []TypeOK
BY Invariance, InvariantTypes, PTL

-----------------------------------------------------------------------------
(* The properties                                                          *)

LEMMA ActingFacts ==
    ASSUME IInv, NEW q \in Handlers, Acting(q)
    PROVE  ~requests[q].late /\ ~requests[q].barred
BY DEF IInv, RequestsInv, Sound, Informed, Cleared, Acting

\* A request that comes after its record has a result never acts, for any number of
\* requests at once, with crashes and with whatever the earlier ones still write:
\* existingExecutionStatus is read once, but a record never loses its result.
THEOREM SettledNotRepeated == Spec => []SettledIsNotRepeated
<1>1. IInv => SettledIsNotRepeated
  BY ActingFacts DEF SettledIsNotRepeated
<1> QED BY <1>1, Invariance, PTL

\* A request that comes after the permission of its page was revoked or superseded never
\* opens the page: the check of the page and the preflight stand between, and what is
\* granted or deleted meanwhile never brings that permission back.
THEOREM RevokedPageLeftAlone == Spec => []RevokedPageIsLeftAlone
<1>1. IInv => RevokedPageIsLeftAlone
  BY ActingFacts DEF RevokedPageIsLeftAlone
<1> QED BY <1>1, Invariance, PTL

LEMMA IssuedNotRun ==
    ASSUME NEW p, Issued(p) = "not_run"
    PROVE  p.reviewed /\ p.approved /\ p.sandboxed
BY DEF Issued

LEMMA ReviewedStep ==
    ASSUME IInv, ActsAsReviewed, [Next]_vars
    PROVE  ActsAsReviewed'
<1> DEFINE Ok(r, t) ==
        LET p == PayloadOf(r)
        IN  /\ Exists(r)
            /\ p.reviewed /\ p.approved /\ p.rollback /\ p.sandboxed
            /\ t[2] = p.hash
            /\ IF p.class = "file_diff" THEN t[1] \in Files
               ELSE p.class \in Executable /\ t[1] = 0
<1>1. SUFFICES ASSUME NEW r \in Records, NEW t \in touched'[r] PROVE Ok(r, t)'
  BY DEF ActsAsReviewed, PayloadOf
<1>2. Ok(r, t)
  <2>1. CASE t \in touched[r]
    BY <2>1 DEF ActsAsReviewed, PayloadOf
  <2>2. CASE t \notin touched[r]
    <3>1. PICK q \in Handlers : \E part : Begins(q, part)
      BY <1>1, <2>2, StepKinds
    <3>2. PICK part : Begins(q, part)
      BY <3>1
    <3>3. r = requests[q].record /\ t = <<part, requests[q].ask.body>>
      BY <1>1, <2>2, <3>2, Beginning DEF IInv, RestInv
    <3>4. /\ Exists(r) /\ Issued(PayloadOf(r)) = "not_run" /\ PayloadOf(r).rollback
          /\ t[2] = PayloadOf(r).hash
          /\ IF PayloadOf(r).class = "file_diff" THEN t[1] \in Files
             ELSE PayloadOf(r).class \in Executable /\ t[1] = 0
      BY <3>2, <3>3, Beginning
    <3> QED BY <3>4, IssuedNotRun
  <2> QED BY <2>1, <2>2
<1>3. Exists(r)' /\ PayloadOf(r)' = PayloadOf(r)
  BY <1>2, PayloadsStay
<1> QED BY <1>2, <1>3

\* What is begun was reviewed and approved, with a rollback, as an action of its record's
\* class, and is what was reviewed: the block reasons of the record, the preflight and
\* the adapter's own check, each at its time, let nothing else through.
THEOREM ReviewedOnly == Spec => []ActsAsReviewed
<1>1. Init => ActsAsReviewed
  BY DEF Init, ActsAsReviewed
<1>2. IInv /\ ActsAsReviewed /\ [Next]_vars => ActsAsReviewed'
  BY ReviewedStep
<1> QED BY <1>1, <1>2, Invariance, PTL DEF Spec

\* A request that acts goes on acting, or is to record its outcome, until it records it.
LEMMA BusyGoesOn ==
    ASSUME IInv, NEW q \in Handlers, Continue(q), ~RecordOutcome(q), Acting(q) \/ At(q, "recording")
    PROVE  /\ requests'[q].record = requests[q].record
           /\ requests'[q].pc \in {"targets", "opening", "writing", "acting", "recording"}
<1> DEFINE rq == requests[q]
<1>1. rq \in RequestType /\ requests \in [Handlers -> RequestType]
  BY DEF IInv, RequestsInv
<1>2. ASSUME NEW o, Concludes(q, o)
      PROVE  requests'[q].record = rq.record /\ requests'[q].pc = "recording"
  BY <1>1, <1>2 DEF Concludes, Becomes, RequestType
<1>3. CASE EndAction(q) \/ MismatchTarget(q) \/ FailWrite(q)
  BY <1>2, <1>3 DEF EndAction, MismatchTarget, FailWrite
<1>4. CASE ReadTarget(q)
  <2>1. CASE rq.at < FileCount
    <3>1. requests' = [requests EXCEPT ![q] = [rq EXCEPT !.at = rq.at + 1]]
      BY <1>4, <2>1 DEF ReadTarget, Becomes
    <3> DEFINE next == rq.at + 1
    <3>2. requests' = [requests EXCEPT ![q] = [rq EXCEPT !.at = next]]
      BY <3>1
    <3> HIDE DEF next
    <3>3. rq.pc = "targets"
      BY <1>4 DEF ReadTarget, At
    <3> QED BY <1>1, <3>2, <3>3 DEF RequestType
  <2>2. CASE ~(rq.at < FileCount)
    <3>1. requests' = [requests EXCEPT ![q] = [rq EXCEPT !.pc = "opening", !.at = 1]]
      BY <1>4, <2>2 DEF ReadTarget, Becomes
    <3> QED BY <1>1, <3>1 DEF RequestType
  <2> QED BY <2>1, <2>2
<1>5. CASE OpenTarget(q)
  BY <1>1, <1>5 DEF OpenTarget, Goes, Becomes, RequestType
<1>6. CASE WriteTarget(q)
  <2>1. CASE LastTarget(rq.at)
    BY <1>2, <1>6, <2>1 DEF WriteTarget
  <2>2. CASE ~LastTarget(rq.at)
    <3>1. requests' = [requests EXCEPT ![q] = [rq EXCEPT !.pc = "opening", !.at = rq.at + 1]]
      BY <1>6, <2>2 DEF WriteTarget, Becomes
    <3> DEFINE next == rq.at + 1
    <3>2. requests' = [requests EXCEPT ![q] = [rq EXCEPT !.pc = "opening", !.at = next]]
      BY <3>1
    <3> HIDE DEF next
    <3> QED BY <1>1, <3>2 DEF RequestType
  <2> QED BY <2>1, <2>2
<1>7. EndAction(q) \/ MismatchTarget(q) \/ FailWrite(q) \/ ReadTarget(q) \/ OpenTarget(q) \/ WriteTarget(q)
  BY DEF Continue, Acting, At, ReadAuthority, CheckServicePage, Refuse, StartFileDiff, StartAction
<1> QED BY <1>3, <1>4, <1>5, <1>6, <1>7

\* The steps of another request, and those of no request, leave this one alone, but for a crash.
LEMMA OthersStay ==
    ASSUME IInv, [Next]_vars, ~Crash, NEW q \in Handlers, requests[q].pc # "idle", ~Continue(q)
    PROVE  requests'[q] = requests[q]
<1>1. CASE \E other \in Handlers : Continue(other)
  BY <1>1 DEF IInv, RequestsInv, Continue, ReadAuthority, Refuse, CheckServicePage, StartFileDiff,
         StartAction, EndAction, ReadTarget, MismatchTarget, OpenTarget, WriteTarget, FailWrite,
         RecordOutcome, Decide, Goes, Concludes, Becomes
<1>2. CASE \E other \in Handlers, r \in load.records, ask \in load.asks : Receive(other, r, ask)
  BY <1>2 DEF IInv, RequestsInv, Receive, Becomes, At
<1>3. CASE UNCHANGED requests
  BY <1>3
<1> QED BY <1>1, <1>2, <1>3 DEF Next, vars, CreateExecutionAuthority, ChangePages

LEMMA BegunStep ==
    ASSUME IInv, ActsAsReviewed, BegunIsRecorded, [Next]_vars
    PROVE  BegunIsRecorded'
<1> DEFINE Busy(q, r) == requests[q].record = r /\ (Acting(q) \/ At(q, "recording"))
<1> SUFFICES ASSUME NEW r \in Records, ~load'.crashes, touched'[r] # {}, ~Settled(r)'
             PROVE  \E q \in Handlers : Busy(q, r)'
  BY DEF BegunIsRecorded, Acting, At
<1>1. ~Crash /\ load' = load
  BY DEF Next, vars, CreateExecutionAuthority, ChangePages, Receive, Crash, Continue, ReadAuthority,
         CheckServicePage, Refuse, StartFileDiff, StartAction, EndAction, ReadTarget, MismatchTarget,
         OpenTarget, WriteTarget, FailWrite, RecordOutcome
<1>2. CASE touched[r] = {}
  <2>1. PICK q \in Handlers : \E part : Begins(q, part)
    BY <1>2, StepKinds
  <2>2. PICK part : Begins(q, part)
    BY <2>1
  <2>3. r = requests[q].record
    BY <1>2, <2>2, Beginning DEF IInv, RestInv
  <2>4. requests'[q].record = r /\ requests'[q].pc \in {"acting", "writing"}
    BY <2>2, <2>3 DEF Begins, StartAction, OpenTarget, Goes, Becomes, IInv, RequestsInv, RequestType
  <2> QED BY <2>4 DEF Acting, At
<1>3. CASE touched[r] # {}
  <2>1. Exists(r)
    BY <1>3 DEF ActsAsReviewed
  <2>2. ASSUME NEW q \in Handlers, RecordOutcome(q), requests[q].record = r
        PROVE  FALSE
    <3> DEFINE o == requests[q].outcome
    <3>1. o \in Final /\ authority' = [authority EXCEPT ![r].result = o] /\ authority[r] \in Rows
      BY <2>1, <2>2, RecordKinds DEF RecordOutcome, At, IInv, RequestsInv, Sound, Equipped
    <3>2. authority'[r].result = o
      BY <3>1 DEF IInv, RecordsInv, Rows
    <3> QED BY <3>1, <3>2 DEF Settled, Final
  <2>3. authority'[r] = authority[r]
    <3>1. ASSUME NEW q \in Handlers, RecordOutcome(q) PROVE authority'[r] = authority[r]
      BY <2>2, <3>1 DEF RecordOutcome, IInv, RecordsInv
    <3>2. ASSUME NEW made \in Records, NEW p \in Payloads, CreateExecutionAuthority(made, p)
          PROVE  authority'[r] = authority[r]
      BY <2>1, <3>2 DEF CreateExecutionAuthority, Exists, IInv, RecordsInv
    <3>3. ASSUME NEW q \in Handlers, NEW part, Begins(q, part) PROVE authority'[r] = authority[r]
      BY <3>3 DEF Begins, StartAction, OpenTarget
    <3> QED BY <3>1, <3>2, <3>3, StepKinds
  <2>4. ~Settled(r)
    BY <2>3 DEF Settled
  <2>5. PICK q \in Handlers : Busy(q, r)
    BY <1>1, <1>3, <2>4 DEF BegunIsRecorded
  <2>6. CASE Continue(q)
    BY <2>2, <2>5, <2>6, BusyGoesOn DEF Acting, At
  <2>7. CASE ~Continue(q)
    BY <1>1, <2>5, <2>7, OthersStay DEF Acting, At
  <2> QED BY <2>6, <2>7
<1> QED BY <1>2, <1>3

\* While the process runs, what was begun gets a result: every path of an adapter, the
\* failed ones too, ends in updateExecutionOutcome, and no other request takes the place
\* of the one that is to write it.
THEOREM BegunRecorded == Spec => []BegunIsRecorded
<1>1. Init => BegunIsRecorded
  BY DEF Init, BegunIsRecorded
<1>2. IInv /\ ActsAsReviewed /\ BegunIsRecorded /\ [Next]_vars => BegunIsRecorded'
  BY BegunStep
<1> QED BY <1>1, <1>2, Invariance, ReviewedOnly, PTL DEF Spec
=============================================================================
