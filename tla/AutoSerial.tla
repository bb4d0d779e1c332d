------------------------------- MODULE AutoSerial -------------------------------
(***************************************************************************)
(* Theorems about AutoImplementation when requests come one at a time:     *)
(* gh is asked nothing twice, and runs are delivered as DeliveryRun says.  *)
(***************************************************************************)
EXTENDS AutoProofs

-----------------------------------------------------------------------------
(* The inductive invariant.  The one request under way has a copy of what  *)
(* is stored, and what it is about to save is one step of DeliveryRun on   *)
(* from there.                                                             *)

HasApplied(run, m) == \E i \in DOMAIN run.prs : run.prs[i].status = "applied" /\ run.prs[i].action = m

Completed(run) == Cardinality({s \in Stages : StageDone(run, s)})

\* What one request may make of a run, as far as DeliveryRun looks.
Advances(run, new) ==
    /\ new.id = run.id /\ new.folder = run.folder /\ new.issues = run.issues
    /\ \/ /\ Completed(new) = Completed(run)
          /\ \A m \in {"open_pr", "merge_pr"} : HasApplied(new, m) <=> HasApplied(run, m)
       \/ /\ Completed(run) < MergeMain /\ Completed(new) = Completed(run) + 1
          /\ Completed(run) = MergeMain - 1 => HasApplied(run, "merge_pr")
          /\ \A m \in {"open_pr", "merge_pr"} : HasApplied(new, m) <=> HasApplied(run, m)
       \/ /\ Completed(new) = Completed(run) /\ Completed(run) >= 1
          /\ HasApplied(new, "open_pr") /\ ~HasApplied(run, "open_pr")
          /\ HasApplied(new, "merge_pr") <=> HasApplied(run, "merge_pr")
       \/ /\ Completed(new) = Completed(run) /\ Completed(run) = MergeMain - 1
          /\ HasApplied(new, "merge_pr") /\ ~HasApplied(run, "merge_pr")
          /\ HasApplied(new, "open_pr") <=> HasApplied(run, "open_pr")

\* DeliveryRun's variables in a copy of the projection.
KnownIn(runs)      == {r \in RunIds : r \in IdOf(runs)}
RecordedAs(runs, m) == {r \in RunIds : <<r, m>> \in RecordedIn(runs)}
ReachedIn(runs)    == [r \in RunIds |-> IF r \in IdOf(runs) THEN Completed(RunOf(runs, r)) ELSE 0]

\* What saving one copy over another may be.
Delivers(runs, out) ==
    LET known == KnownIn(runs)
        opened == RecordedAs(runs, "open_pr")
        merged == RecordedAs(runs, "merge_pr")
        reached == ReachedIn(runs)
        Becomes(k, c, o, m) == /\ KnownIn(out) = k /\ ReachedIn(out) = c
                               /\ RecordedAs(out, "open_pr") = o
                               /\ RecordedAs(out, "merge_pr") = m
    IN /\ RecordedIn(runs) \subseteq RecordedIn(out)
       /\ \/ Becomes(known, reached, opened, merged)
          \/ \E r \in RunIds :
             \/ r \notin known /\ Becomes(known \cup {r}, reached, opened, merged)
             \/ /\ r \in known
                /\ \/ /\ reached[r] < MergeMain /\ (reached[r] = MergeMain - 1 => r \in merged)
                      /\ Becomes(known, [reached EXCEPT ![r] = @ + 1], opened, merged)
                   \/ /\ r \notin opened /\ reached[r] >= 1
                      /\ Becomes(known, reached, opened \cup {r}, merged)
                   \/ /\ r \notin merged /\ reached[r] = MergeMain - 1
                      /\ Becomes(known, reached, opened, merged \cup {r})

InTurn(p, runs) ==
    /\ p.phase \in {"preparing", "executing", "mutating"} => p.snap = runs
    /\ p.phase = "preparing" /\ p.approved => CanCreateIssues(runs, p.folder)
    /\ p.phase = "syncing" => Delivers(runs, p.out)

Alone(h) == \A g \in Handlers : g # h => IsIdle(g)

TurnInv ==
    load.serial =>
        /\ \A g, h \in Handlers : ~IsIdle(g) /\ ~IsIdle(h) => g = h
        /\ \A h \in Handlers : InTurn(handler[h], proj)
        /\ recorded = RecordedIn(proj)
        /\ repeated = {}

-----------------------------------------------------------------------------
(* What copies of the projection say                                       *)

LEMMA RunOfUnique ==
    ASSUME NEW runs, UniqueIds(runs), NEW i \in DOMAIN runs
    PROVE  runs[i].id \in IdOf(runs) /\ RunOf(runs, runs[i].id) = runs[i]
<1> DEFINE k == CHOOSE j \in DOMAIN runs : runs[j].id = runs[i].id
<1>1. k \in DOMAIN runs /\ runs[k].id = runs[i].id OBVIOUS
<1>2. k = i BY <1>1 DEF UniqueIds
<1>3. RunOf(runs, runs[i].id) = runs[k] BY DEF RunOf
<1> QED BY <1>2, <1>3 DEF IdOf

LEMMA RecordedMembers ==
    ASSUME NEW runs \in Seq(Runs), UniqueIds(runs)
    PROVE  /\ \A r : \A m \in {"open_pr", "merge_pr"} :
                <<r, m>> \in RecordedIn(runs) <=> r \in IdOf(runs) /\ HasApplied(RunOf(runs, r), m)
           /\ \A f : <<f, "issues">> \in RecordedIn(runs)
                       <=> \E i \in DOMAIN runs : runs[i].folder = f /\ runs[i].issues
           /\ \A r : <<r, "update_pr_body">> \notin RecordedIn(runs)
           /\ \A e \in RecordedIn(runs) :
                \E r : \E m \in {"open_pr", "merge_pr", "issues"} : e = <<r, m>>
<1> DEFINE A == UNION {Applied(runs[i]) : i \in DOMAIN runs}
           B == {<<runs[i].folder, "issues">> : i \in {j \in DOMAIN runs : runs[j].issues}}
<1>1. RecordedIn(runs) = A \cup B BY DEF RecordedIn
<1>2. \A e : e \in A <=> \E i \in DOMAIN runs : e \in Applied(runs[i]) OBVIOUS
<1>3. \A x, y : <<x, y>> \in B <=> y = "issues" /\ \E i \in DOMAIN runs : runs[i].folder = x /\ runs[i].issues
  OBVIOUS
<1>4. \A i \in DOMAIN runs : \A x, y : <<x, y>> \in Applied(runs[i]) <=>
         x = runs[i].id /\ y # "update_pr_body" /\ HasApplied(runs[i], y)
  BY DEF Applied, HasApplied
<1>6. \A i \in DOMAIN runs : ~HasApplied(runs[i], "issues")
  <2> SUFFICES ASSUME NEW i \in DOMAIN runs, NEW j \in DOMAIN runs[i].prs
               PROVE  runs[i].prs[j].action # "issues"
    BY DEF HasApplied
  <2>1. runs[i] \in Runs OBVIOUS
  <2>2. runs[i].prs \in Seq(PrRecords) BY <2>1 DEF Runs
  <2>3. runs[i].prs[j] \in PrRecords BY <2>2
  <2> QED BY <2>3 DEF PrRecords, Mutations
<1> HIDE DEF A, B
<1>5. ASSUME NEW r, NEW m \in {"open_pr", "merge_pr"}
      PROVE  <<r, m>> \in RecordedIn(runs) <=> r \in IdOf(runs) /\ HasApplied(RunOf(runs, r), m)
  <2>1. <<r, m>> \in RecordedIn(runs) <=> \E i \in DOMAIN runs : r = runs[i].id /\ HasApplied(runs[i], m)
    BY <1>1, <1>2, <1>3, <1>4
  <2>2. r \in IdOf(runs) <=> \E i \in DOMAIN runs : r = runs[i].id BY DEF IdOf
  <2> QED BY <2>1, <2>2, RunOfUnique
<1>7. ASSUME NEW f
      PROVE  <<f, "issues">> \in RecordedIn(runs)
                <=> \E i \in DOMAIN runs : runs[i].folder = f /\ runs[i].issues
  BY <1>1, <1>2, <1>3, <1>4, <1>6
<1>8. ASSUME NEW r PROVE <<r, "update_pr_body">> \notin RecordedIn(runs)
  BY <1>1, <1>2, <1>3, <1>4
<1>9. ASSUME NEW e \in RecordedIn(runs)
      PROVE  \E r : \E m \in {"open_pr", "merge_pr", "issues"} : e = <<r, m>>
  <2>1. CASE e \in A
    <3>1. PICK i \in DOMAIN runs : e \in Applied(runs[i]) BY <1>2, <2>1
    <3>2. PICK j \in DOMAIN runs[i].prs : /\ e = <<runs[i].id, runs[i].prs[j].action>>
                                         /\ runs[i].prs[j].action # "update_pr_body"
      BY <3>1 DEF Applied
    <3>3. runs[i] \in Runs OBVIOUS
    <3>4. runs[i].prs[j] \in PrRecords BY <3>3 DEF Runs
    <3> QED BY <3>2, <3>4 DEF PrRecords, Mutations
  <2>2. CASE e \in B BY <2>2 DEF B
  <2> QED BY <1>1, <2>1, <2>2
<1> QED BY <1>5, <1>7, <1>8, <1>9

\* The same facts, one at a time.
LEMMA RecordedMutation ==
    ASSUME NEW runs \in Seq(Runs), UniqueIds(runs), NEW r, NEW m \in {"open_pr", "merge_pr"}
    PROVE  <<r, m>> \in RecordedIn(runs) <=> r \in IdOf(runs) /\ HasApplied(RunOf(runs, r), m)
BY RecordedMembers

LEMMA RecordedIssues ==
    ASSUME NEW runs \in Seq(Runs), UniqueIds(runs), NEW f
    PROVE  <<f, "issues">> \in RecordedIn(runs)
             <=> \E i \in DOMAIN runs : runs[i].folder = f /\ runs[i].issues
BY RecordedMembers

LEMMA RecordedKinds ==
    ASSUME NEW runs \in Seq(Runs), UniqueIds(runs)
    PROVE  /\ \A r : <<r, "update_pr_body">> \notin RecordedIn(runs)
           /\ \A e \in RecordedIn(runs) :
                \E r : \E m \in {"open_pr", "merge_pr", "issues"} : e = <<r, m>>
BY RecordedMembers

\* Stages complete in order, so how many have is told by the current one.
LEMMA CompletedOf ==
    ASSUME NEW done, NEW ever, NEW run \in Runs, Sound(run, done, ever)
    PROVE  /\ Completed(run) = IF StageDone(run, MergeMain) THEN MergeMain ELSE run.current - 1
           /\ Completed(run) \in Nat
           /\ StageDone(run, MergeMain) => run.current = MergeMain
<1>1. run.current \in Stages BY DEF Runs
<1>2. Frontier(run) BY DEF Sound
<1>3. ASSUME NEW n \in Nat PROVE Cardinality(1 .. n) = n BY FS_Interval
<1>4. CASE StageDone(run, MergeMain)
  <2>1. run.current = MergeMain
    <3> DEFINE c == run.current
    <3>0. c \in Nat /\ MergeMain \in Nat /\ c <= MergeMain BY <1>1, StagesAreNaturals
    <3> HIDE DEF c
    <3>1. MergeMain > c \/ c = MergeMain BY <3>0
    <3> USE DEF c
    <3>2. ~(MergeMain > run.current) BY <1>2, <1>4, StagesAreNaturals DEF Frontier
    <3> QED BY <3>1, <3>2
  <2>2. {s \in Stages : StageDone(run, s)} = 1 .. MergeMain
    BY <1>2, <1>4, <2>1, StagesAreNaturals DEF Frontier, Stages, InitialPr
  <2> QED BY <1>3, <1>4, <2>1, <2>2, StagesAreNaturals DEF Completed
<1>5. CASE ~StageDone(run, MergeMain)
  <2>1. {s \in Stages : StageDone(run, s)} = 1 .. (run.current - 1)
    BY <1>1, <1>2, <1>5, StagesAreNaturals DEF Frontier, Stages, InitialPr
  <2>2. run.current - 1 \in Nat BY <1>1, StagesAreNaturals DEF Stages, InitialPr
  <2> QED BY <1>3, <1>5, <2>1, <2>2 DEF Completed
<1> QED BY <1>4, <1>5

LEMMA ChangedRuns ==
    ASSUME NEW runs, UniqueIds(runs), NEW r \in IdOf(runs), NEW new, new.id = r
    PROVE  /\ UniqueIds(With(runs, new)) /\ IdOf(With(runs, new)) = IdOf(runs)
           /\ RunOf(With(runs, new), r) = new
           /\ \A q \in IdOf(runs) : q # r => RunOf(With(runs, new), q) = RunOf(runs, q)
<1> DEFINE out == With(runs, new)
<1>1. /\ DOMAIN out = DOMAIN runs
      /\ \A i \in DOMAIN runs : /\ out[i].id = runs[i].id
                                 /\ out[i] = IF runs[i].id = r THEN new ELSE runs[i]
  BY DEF With
<1> HIDE DEF out
<1>2. UniqueIds(out) /\ IdOf(out) = IdOf(runs) BY <1>1 DEF UniqueIds, IdOf
<1>3. ASSUME NEW q \in IdOf(runs)
      PROVE  RunOf(out, q) = IF q = r THEN new ELSE RunOf(runs, q)
  <2>1. PICK i \in DOMAIN runs : runs[i].id = q BY DEF IdOf
  <2>2. RunOf(runs, q) = runs[i] BY <2>1, RunOfUnique
  <2>3. RunOf(out, q) = out[i] BY <1>1, <1>2, <2>1, RunOfUnique
  <2> QED BY <1>1, <2>1, <2>2, <2>3
<1> QED BY <1>2, <1>3 DEF out
\* A change of one run is one step of the delivery of that run.
LEMMA UpdateDelivers ==
    ASSUME NEW runs \in Seq(Runs), UniqueIds(runs), NEW r \in IdOf(runs), r \in RunIds, NEW new,
           Advances(RunOf(runs, r), new), RunOf(runs, r).id = r, With(runs, new) \in Seq(Runs)
    PROVE  Delivers(runs, With(runs, new))
<1> DEFINE out == With(runs, new)
           run == RunOf(runs, r)
<1>1. /\ UniqueIds(out) /\ IdOf(out) = IdOf(runs) /\ RunOf(out, r) = new
      /\ \A q \in IdOf(runs) : q # r => RunOf(out, q) = RunOf(runs, q)
  BY ChangedRuns DEF Advances
<1>2. KnownIn(out) = KnownIn(runs) /\ r \in KnownIn(runs) BY <1>1 DEF KnownIn
<1>3. ASSUME NEW m \in {"open_pr", "merge_pr"}, NEW q \in RunIds
      PROVE  /\ q \in RecordedAs(runs, m) <=> q \in IdOf(runs) /\ HasApplied(RunOf(runs, q), m)
             /\ q \in RecordedAs(out, m) <=>
                   q \in IdOf(runs) /\ HasApplied(IF q = r THEN new ELSE RunOf(runs, q), m)
  <2>1. <<q, m>> \in RecordedIn(runs) <=> q \in IdOf(runs) /\ HasApplied(RunOf(runs, q), m)
    BY RecordedMutation
  <2>2. <<q, m>> \in RecordedIn(out) <=> q \in IdOf(out) /\ HasApplied(RunOf(out, q), m)
    BY <1>1, RecordedMutation
  <2> QED BY <1>1, <2>1, <2>2 DEF RecordedAs
<1>4. \A m \in {"open_pr", "merge_pr"} :
         /\ HasApplied(run, m) => HasApplied(new, m)
         /\ (HasApplied(new, m) <=> HasApplied(run, m)) => RecordedAs(out, m) = RecordedAs(runs, m)
         /\ HasApplied(new, m) => RecordedAs(out, m) = RecordedAs(runs, m) \cup {r}
         /\ HasApplied(run, m) <=> r \in RecordedAs(runs, m)
  <2>1. RecordedAs(runs, "open_pr") \subseteq RunIds BY DEF RecordedAs
  <2> QED BY <1>3 DEF Advances, RecordedAs
<1>5. ReachedIn(out) = [ReachedIn(runs) EXCEPT ![r] = Completed(new)]
  BY <1>1 DEF ReachedIn
<1>6. /\ ReachedIn(runs)[r] = Completed(run)
      /\ Completed(new) = Completed(run) => ReachedIn(out) = ReachedIn(runs)
  BY <1>1 DEF ReachedIn
<1>7. RecordedIn(runs) \subseteq RecordedIn(out)
  <2> SUFFICES ASSUME NEW e \in RecordedIn(runs) PROVE e \in RecordedIn(out) OBVIOUS
  <2>1. PICK x : \E m \in {"open_pr", "merge_pr", "issues"} : e = <<x, m>> BY RecordedKinds
  <2>2. PICK m \in {"open_pr", "merge_pr", "issues"} : e = <<x, m>> BY <2>1
  <2>3. CASE m \in {"open_pr", "merge_pr"}
    <3>1. x \in IdOf(runs) /\ HasApplied(RunOf(runs, x), m) BY <2>2, <2>3, RecordedMutation
    <3>2. HasApplied(RunOf(out, x), m) BY <1>1, <1>4, <2>3, <3>1
    <3> QED BY <1>1, <2>2, <2>3, <3>1, <3>2, RecordedMutation
  <2>4. CASE m = "issues"
    <3>1. PICK i \in DOMAIN runs : runs[i].folder = x /\ runs[i].issues
      BY <2>2, <2>4, RecordedIssues
    <3>2. i \in DOMAIN out /\ out[i] = IF runs[i].id = r THEN new ELSE runs[i]
      BY DEF With, Advances
    <3>3. runs[i].id = r => run = runs[i] BY RunOfUnique
    <3>4. out[i].folder = x /\ out[i].issues BY <3>1, <3>2, <3>3 DEF Advances
    <3> QED BY <1>1, <2>2, <2>4, <3>2, <3>4, RecordedIssues
  <2> QED BY <2>3, <2>4
<1>8. run.id = r /\ Advances(run, new) OBVIOUS
<1> DEFINE known == KnownIn(runs)
           opened == RecordedAs(runs, "open_pr")
           merged == RecordedAs(runs, "merge_pr")
           reached == ReachedIn(runs)
<1> HIDE DEF out, run
<1>9. CASE /\ Completed(new) = Completed(run)
           /\ \A m \in {"open_pr", "merge_pr"} : HasApplied(new, m) <=> HasApplied(run, m)
  BY <1>2, <1>4, <1>6, <1>7, <1>9 DEF Delivers, out
<1>10. CASE /\ Completed(run) < MergeMain /\ Completed(new) = Completed(run) + 1
            /\ Completed(run) = MergeMain - 1 => HasApplied(run, "merge_pr")
            /\ \A m \in {"open_pr", "merge_pr"} : HasApplied(new, m) <=> HasApplied(run, m)
  <2>1. ReachedIn(out) = [reached EXCEPT ![r] = @ + 1] BY <1>5, <1>6, <1>10
  <2>2. reached[r] < MergeMain /\ (reached[r] = MergeMain - 1 => r \in merged)
    BY <1>4, <1>6, <1>10
  <2>3. KnownIn(out) = known /\ RecordedAs(out, "open_pr") = opened /\ RecordedAs(out, "merge_pr") = merged
    BY <1>2, <1>4, <1>10
  <2> QED BY <1>2, <1>7, <2>1, <2>2, <2>3 DEF Delivers, out
<1>11. CASE /\ Completed(new) = Completed(run) /\ Completed(run) >= 1
            /\ HasApplied(new, "open_pr") /\ ~HasApplied(run, "open_pr")
            /\ HasApplied(new, "merge_pr") <=> HasApplied(run, "merge_pr")
  <2>1. r \notin opened /\ reached[r] >= 1 BY <1>4, <1>6, <1>11
  <2>2. /\ KnownIn(out) = known /\ ReachedIn(out) = reached
        /\ RecordedAs(out, "open_pr") = opened \cup {r} /\ RecordedAs(out, "merge_pr") = merged
    BY <1>2, <1>4, <1>6, <1>11
  <2> QED BY <1>2, <1>7, <2>1, <2>2 DEF Delivers, out
<1>12. CASE /\ Completed(new) = Completed(run) /\ Completed(run) = MergeMain - 1
            /\ HasApplied(new, "merge_pr") /\ ~HasApplied(run, "merge_pr")
            /\ HasApplied(new, "open_pr") <=> HasApplied(run, "open_pr")
  <2>1. r \notin merged /\ reached[r] = MergeMain - 1 BY <1>4, <1>6, <1>12
  <2>2. /\ KnownIn(out) = known /\ ReachedIn(out) = reached
        /\ RecordedAs(out, "open_pr") = opened /\ RecordedAs(out, "merge_pr") = merged \cup {r}
    BY <1>2, <1>4, <1>6, <1>12
  <2> QED BY <1>2, <1>7, <2>1, <2>2 DEF Delivers, out
<1> QED BY <1>8, <1>9, <1>10, <1>11, <1>12 DEF Advances

\* A new run, the last of the copy, is the creation of that run.
LEMMA CreationDelivers ==
    ASSUME NEW runs \in Seq(Runs), UniqueIds(runs), NEW r \in RunIds, r \notin IdOf(runs),
           NEW f, NEW c, NEW b, With(Append(runs, NewRun(r, f, c, b)), NewRun(r, f, c, b)) \in Seq(Runs),
           NewRun(r, f, c, b) \in Runs
    PROVE  Delivers(runs, With(Append(runs, NewRun(r, f, c, b)), NewRun(r, f, c, b)))
<1> DEFINE new == NewRun(r, f, c, b)
           out == With(Append(runs, new), new)
           n == Len(runs) + 1
<1>1. /\ new.id = r /\ new.prs = <<>> /\ \A s \in Stages : ~StageDone(new, s)
  BY DEF NewRun, StageDone
<1> HIDE DEF new
<1>2. /\ DOMAIN out = DOMAIN runs \cup {n} /\ n \notin DOMAIN runs
      /\ out[n] = new /\ \A i \in DOMAIN runs : out[i] = runs[i]
  <2>1. /\ DOMAIN Append(runs, new) = DOMAIN runs \cup {n} /\ n \notin DOMAIN runs
        /\ Append(runs, new)[n] = new
        /\ \A i \in DOMAIN runs : Append(runs, new)[i] = runs[i]
    BY DEF new
  <2>2. \A i \in DOMAIN runs : runs[i].id # r BY DEF IdOf
  <2> QED BY <1>1, <2>1, <2>2 DEF With
<1> HIDE DEF out, n
<1>3. UniqueIds(out) /\ IdOf(out) = IdOf(runs) \cup {r}
  BY <1>1, <1>2 DEF UniqueIds, IdOf
<1>4. RunOf(out, r) = new /\ \A q \in IdOf(runs) : RunOf(out, q) = RunOf(runs, q)
  <2>1. RunOf(out, r) = new BY <1>1, <1>2, <1>3, RunOfUnique
  <2>2. ASSUME NEW q \in IdOf(runs) PROVE RunOf(out, q) = RunOf(runs, q)
    <3>1. PICK i \in DOMAIN runs : runs[i].id = q BY DEF IdOf
    <3>2. RunOf(runs, q) = runs[i] BY <3>1, RunOfUnique
    <3>3. RunOf(out, q) = out[i] BY <1>2, <1>3, <3>1, RunOfUnique
    <3> QED BY <1>2, <3>2, <3>3
  <2> QED BY <2>1, <2>2
<1>5. out \in Seq(Runs) BY DEF out, new
<1>6. ~HasApplied(new, "open_pr") /\ ~HasApplied(new, "merge_pr") BY <1>1 DEF HasApplied
<1>7. Completed(new) = 0
  <2>1. {s \in Stages : StageDone(new, s)} = {} BY <1>1
  <2> QED BY <2>1, FS_EmptySet DEF Completed
<1>8. KnownIn(out) = KnownIn(runs) \cup {r} /\ r \notin KnownIn(runs) BY <1>3 DEF KnownIn
<1>9. ReachedIn(out) = ReachedIn(runs) BY <1>3, <1>4, <1>7 DEF ReachedIn
<1>10. ASSUME NEW m \in {"open_pr", "merge_pr"} PROVE RecordedAs(out, m) = RecordedAs(runs, m)
  <2> SUFFICES ASSUME NEW q \in RunIds
               PROVE  <<q, m>> \in RecordedIn(out) <=> <<q, m>> \in RecordedIn(runs)
    BY DEF RecordedAs
  <2>1. <<q, m>> \in RecordedIn(runs) <=> q \in IdOf(runs) /\ HasApplied(RunOf(runs, q), m)
    BY RecordedMutation
  <2>2. <<q, m>> \in RecordedIn(out) <=> q \in IdOf(out) /\ HasApplied(RunOf(out, q), m)
    BY ONLY <1>3, <1>5, m \in {"open_pr", "merge_pr"}, RecordedMutation
  <2> QED BY <1>3, <1>4, <1>6, <2>1, <2>2
<1>11. RecordedIn(runs) \subseteq RecordedIn(out)
  <2>1. ASSUME NEW i \in DOMAIN runs PROVE i \in DOMAIN out /\ out[i] = runs[i] BY <1>2
  <2> QED BY <2>1 DEF RecordedIn
<1> QED BY <1>8, <1>9, <1>10, <1>11 DEF Delivers, out, new

-----------------------------------------------------------------------------
(* What each change of a run is to its delivery                            *)

SameRun(run, new) == new.id = run.id /\ new.folder = run.folder /\ new.issues = run.issues
SameApplied(run, new, m) == HasApplied(new, m) <=> HasApplied(run, m)

LEMMA Advancing ==
    ASSUME NEW run, NEW new, SameRun(run, new)
    PROVE  /\ /\ Completed(new) = Completed(run)
              /\ SameApplied(run, new, "open_pr") /\ SameApplied(run, new, "merge_pr")
              => Advances(run, new)
           /\ /\ Completed(run) < MergeMain /\ Completed(new) = Completed(run) + 1
              /\ Completed(run) = MergeMain - 1 => HasApplied(run, "merge_pr")
              /\ SameApplied(run, new, "open_pr") /\ SameApplied(run, new, "merge_pr")
              => Advances(run, new)
           /\ /\ Completed(new) = Completed(run) /\ Completed(run) >= 1
              /\ HasApplied(new, "open_pr") /\ ~HasApplied(run, "open_pr")
              /\ SameApplied(run, new, "merge_pr")
              => Advances(run, new)
           /\ /\ Completed(new) = Completed(run) /\ Completed(run) = MergeMain - 1
              /\ HasApplied(new, "merge_pr") /\ ~HasApplied(run, "merge_pr")
              /\ SameApplied(run, new, "open_pr")
              => Advances(run, new)
BY DEF Advances, SameRun, SameApplied

LEMMA StageAdvances ==
    ASSUME NEW done, NEW ever, NEW run \in Runs, Sound(run, done, ever),
           NEW action \in {"tick", "start", "pause", "block", "complete"}, NEW key \in Keys,
           NEW step \in Steps \cup {None}, action = "complete" => step \in ever,
           StageMayBe(run, action, step), Consistent(StageRecorded(run, action, key, step))
    PROVE  Advances(run, StageRecorded(run, action, key, step))
<1> DEFINE new == StageRecorded(run, action, key, step)
           s == run.current
           next == action = "complete" /\ s < MergeMain
<1>1. new \in Runs /\ Sound(new, done, ever) BY StageRecordedIsSound
<1>2. /\ s \in Stages /\ s \in Nat /\ MergeMain \in Nat /\ MergeMain \in Stages /\ s <= MergeMain
      /\ run.plan \in [Stages -> [status : StageStatuses, step : Steps \cup {None}]]
  BY StagesAreNaturals DEF Runs
<1>3. /\ new.id = run.id /\ new.folder = run.folder /\ new.issues = run.issues /\ new.prs = run.prs
      /\ new.current = IF next THEN s + 1 ELSE s
      /\ \A i \in Stages : new.plan[i] =
            IF i = s THEN [status |-> StageStatusFor(action, run.plan[s].status),
                           step |-> IF action = "complete" THEN step ELSE run.plan[s].step]
            ELSE IF next /\ i = s + 1 THEN [run.plan[i] EXCEPT !.status = "ready"]
            ELSE run.plan[i]
  BY DEF Runs, StageRecorded
<1>4. Consistent(run) /\ Consistent(new) BY DEF Sound, new
<1> HIDE DEF new
<1>5. SameRun(run, new) /\ SameApplied(run, new, "open_pr") /\ SameApplied(run, new, "merge_pr")
  BY <1>3 DEF HasApplied, SameApplied, SameRun
<1>6. /\ Completed(run) = IF StageDone(run, MergeMain) THEN MergeMain ELSE s - 1
      /\ StageDone(run, MergeMain) => s = MergeMain
      /\ Completed(new) = IF StageDone(new, MergeMain) THEN MergeMain ELSE new.current - 1
  BY <1>1, CompletedOf
<1>7. CASE action # "complete"
  <2>1. StageDone(new, MergeMain) <=> StageDone(run, MergeMain)
    <3>1. CASE s = MergeMain
      BY <1>2, <1>3, <1>4, <1>7, <3>1 DEF StageDone, Consistent, ConsistentStage
    <3>2. CASE s # MergeMain BY <1>2, <1>3, <1>7, <3>2 DEF StageDone
    <3> QED BY <3>1, <3>2
  <2>2. new.current = s BY <1>3, <1>7
  <2>3. Completed(new) = Completed(run) BY <1>6, <2>1, <2>2
  <2> QED BY <1>5, <2>3, Advancing DEF new
<1>8. CASE action = "complete" /\ s = MergeMain
  <2>1. StageDone(new, MergeMain)
    <3> HIDE DEF s, next
    <3>0. new.plan[s] = [status |-> StageStatusFor(action, run.plan[s].status),
                         step |-> IF action = "complete" THEN step ELSE run.plan[s].step]
      BY <1>2, <1>3, Zenon
    <3>1. new.plan[s].status = StageStatusFor(action, run.plan[s].status) BY <3>0
    <3> QED BY <1>8, <3>1 DEF StageDone, StageStatusFor
  <2>2. HasApplied(run, "merge_pr") BY <1>8 DEF StageMayBe, Merged, HasApplied
  <2>3. Completed(new) = MergeMain BY <1>6, <2>1
  <2>4. Completed(run) = MergeMain \/ Completed(run) = MergeMain - 1 BY <1>6, <1>8
  <2>5. CASE Completed(run) = MergeMain BY <1>5, <2>3, <2>5, Advancing DEF new
  <2>6. CASE Completed(run) = MergeMain - 1
    <3>1. Completed(run) < MergeMain /\ Completed(new) = Completed(run) + 1 BY <1>2, <2>3, <2>6
    <3> QED BY <1>5, <2>2, <3>1, Advancing DEF new
  <2> QED BY <2>4, <2>5, <2>6
<1>9. CASE action = "complete" /\ s # MergeMain
  <2>0. s < MergeMain
    <3> HIDE DEF s
    <3> QED BY <1>2, <1>9
  <2>1. next /\ new.current = s + 1 BY <1>3, <1>9, <2>0
  <2>2. ~StageDone(run, MergeMain) BY <1>6, <1>9
  <2>3. ~StageDone(new, MergeMain)
    <3>1. CASE MergeMain = s + 1 BY <1>2, <1>3, <1>9, <2>1, <3>1 DEF StageDone
    <3>2. CASE MergeMain # s + 1 BY <1>2, <1>3, <1>9, <2>2, <3>2 DEF StageDone
    <3> QED BY <3>1, <3>2
  <2>4. Completed(run) = s - 1 /\ Completed(new) = (s + 1) - 1 BY <1>6, <2>1, <2>2, <2>3
  <2>5. /\ Completed(run) < MergeMain /\ Completed(new) = Completed(run) + 1
        /\ Completed(run) # MergeMain - 1
    <3> HIDE DEF s
    <3> QED BY <1>2, <2>0, <2>4
  <2> QED BY <1>5, <2>5, Advancing DEF new
<1> QED BY <1>7, <1>8, <1>9 DEF new

\* Jobs are not part of it.
LEMMA SameStagesAdvance ==
    ASSUME NEW run, NEW new, new.id = run.id, new.folder = run.folder, new.issues = run.issues,
           new.plan = run.plan, new.prs = run.prs
    PROVE  Advances(run, new)
BY DEF Advances, Completed, StageDone, HasApplied

LEMMA JobAdvances ==
    ASSUME NEW run \in Runs, NEW j, NEW job, NEW jobs, NEW status
    PROVE  /\ Advances(run, WithJob(run, j, job)) /\ WithJob(run, j, job).id = run.id
           /\ Advances(run, [run EXCEPT !.jobs = jobs, !.status = status])
<1> DEFINE new == WithJob(run, j, job)
           new2 == [run EXCEPT !.jobs = jobs, !.status = status]
<1>1. /\ new.id = run.id /\ new.folder = run.folder /\ new.issues = run.issues
      /\ new.plan = run.plan /\ new.prs = run.prs
  BY DEF WithJob, Runs
<1>2. /\ new2.id = run.id /\ new2.folder = run.folder /\ new2.issues = run.issues
      /\ new2.plan = run.plan /\ new2.prs = run.prs
  BY DEF Runs
<1> HIDE DEF new, new2
<1>3. Advances(run, new) /\ Advances(run, new2) BY <1>1, <1>2, SameStagesAdvance
<1> QED BY <1>1, <1>3 DEF new, new2

LEMMA RecordAdvances ==
    ASSUME NEW done, NEW ever, NEW run \in Runs, Sound(run, done, ever), NEW record \in PrRecords,
           record.status = "applied" => MayMutate(run, record.action, TRUE)
    PROVE  Advances(run, WithRecord(run, record))
<1> DEFINE new == WithRecord(run, record)
<1>1. /\ new.id = run.id /\ new.folder = run.folder /\ new.issues = run.issues
      /\ new.plan = run.plan /\ new.prs = Append(run.prs, record)
  BY DEF WithRecord, Runs
<1>2. run.prs \in Seq(PrRecords) BY DEF Runs
<1>3. /\ DOMAIN new.prs = DOMAIN run.prs \cup {Len(run.prs) + 1}
      /\ new.prs[Len(run.prs) + 1] = record
      /\ \A i \in DOMAIN run.prs : new.prs[i] = run.prs[i]
  BY <1>1, <1>2
<1> HIDE DEF new
<1>4. \A m : HasApplied(new, m) <=>
         HasApplied(run, m) \/ (record.status = "applied" /\ record.action = m)
  BY <1>3 DEF HasApplied
<1>5. Completed(new) = Completed(run) BY <1>1 DEF Completed, StageDone
<1>10. SameRun(run, new) BY <1>1 DEF SameRun
<1>6. CASE record.status # "applied" \/ record.action = "update_pr_body"
  <2>1. SameApplied(run, new, "open_pr") /\ SameApplied(run, new, "merge_pr")
    BY <1>4, <1>6 DEF SameApplied
  <2> QED BY <1>5, <1>10, <2>1, Advancing DEF new
<1>7. /\ Completed(run) = IF StageDone(run, MergeMain) THEN MergeMain ELSE run.current - 1
      /\ StageDone(run, MergeMain) => run.current = MergeMain
      /\ run.current \in Stages /\ run.current \in Nat /\ MergeMain \in Nat /\ run.current <= MergeMain
      /\ Frontier(run) /\ MergedFirst(run)
  BY CompletedOf, StagesAreNaturals DEF Sound, Runs
<1>8. CASE record.status = "applied" /\ record.action = "open_pr"
  <2>1. ~HasApplied(run, "open_pr")
    BY <1>8 DEF MayMutate, HasUrl, HasApplied, Sound, Outside
  <2>2. StageDone(run, InitialPr) BY <1>8 DEF MayMutate
  <2>3. Completed(run) >= 1
    <3>1. CASE StageDone(run, MergeMain) BY <1>7, <3>1, AutoAssumption DEF MergeMain
    <3>2. CASE ~StageDone(run, MergeMain)
      <4>1. run.current # InitialPr BY <1>7, <2>2, <3>2 DEF Frontier
      <4>2. run.current >= 2 BY <1>7, <4>1 DEF Stages, InitialPr
      <4> QED BY <1>7, <3>2, <4>2
    <3> QED BY <3>1, <3>2
  <2>4. HasApplied(new, "open_pr") /\ SameApplied(run, new, "merge_pr")
    BY <1>4, <1>8 DEF SameApplied
  <2> QED BY <1>5, <1>10, <2>1, <2>3, <2>4, Advancing DEF new
<1>9. CASE record.status = "applied" /\ record.action = "merge_pr"
  <2>1. ~HasApplied(run, "merge_pr") /\ ~Merged(run)
    BY <1>9 DEF MayMutate, Merged, HasApplied
  <2>2. StageDone(run, FinalVerify) BY <1>9 DEF MayMutate
  <2>3. ~StageDone(run, MergeMain) BY <1>7, <2>1 DEF MergedFirst
  <2>4. Completed(run) = MergeMain - 1
    <3>1. FinalVerify \in Stages /\ FinalVerify = MergeMain - 1 BY StagesAreNaturals
    <3>2. ~(FinalVerify > run.current) BY <1>7, <2>2, <3>1 DEF Frontier
    <3>3. FinalVerify # run.current BY <1>7, <2>2, <3>1 DEF Frontier
    <3>4. run.current = MergeMain BY <1>7, <3>1, <3>2, <3>3
    <3> QED BY <1>7, <2>3, <3>4
  <2>5. HasApplied(new, "merge_pr") /\ SameApplied(run, new, "open_pr")
    BY <1>4, <1>9 DEF SameApplied
  <2> QED BY <1>5, <1>10, <2>1, <2>4, <2>5, Advancing DEF new
<1> QED BY <1>6, <1>8, <1>9 DEF new, PrRecords, Mutations

-----------------------------------------------------------------------------
(* Every action keeps the turn                                             *)

LEMMA IdleInTurn == \A runs : InTurn(Idle, runs)
BY DEF InTurn, Idle

LEMMA TurnKept ==
    ASSUME IInv, TurnInv, load.serial, NEW h \in Handlers, Alone(h), NEW p,
           handler' = [handler EXCEPT ![h] = p], UNCHANGED <<load, proj, recorded, repeated>>,
           InTurn(p, proj)
    PROVE  TurnInv'
<1>1. \A g \in Handlers : handler'[g] = IF g = h THEN p ELSE handler[g]
  BY DEF IInv, HandlersInv
<1>2. \A g \in Handlers : g # h => IsIdle(g)' BY <1>1 DEF Alone, IsIdle
<1>3. \A g \in Handlers : InTurn(handler'[g], proj) BY <1>1 DEF TurnInv
<1> QED BY <1>2, <1>3 DEF TurnInv

\* A request that changes the run it read, and nothing was stored since.
LEMMA TurnContinued ==
    ASSUME IInv, IInv', TurnInv, load.serial, NEW h \in Handlers, Alone(h), NEW r \in IdOf(proj),
           NEW new, Advances(RunOf(proj, r), new), Continue(h, proj, new),
           UNCHANGED <<load, proj, recorded, repeated>>
    PROVE  TurnInv'
<1> DEFINE p == IF Valid(proj, new) THEN [phase |-> "syncing", out |-> With(proj, new)] ELSE Idle
<1>1. handler' = [handler EXCEPT ![h] = p] BY DEF Continue
<1>2. InTurn(p, proj)
  <2>1. CASE Valid(proj, new)
    <3>1. p.phase = "syncing" /\ p.out = With(proj, new) BY <2>1
    <3>2. handler'[h] = p BY <1>1 DEF IInv, HandlersInv
    <3>3. With(proj, new) \in Seq(Runs) BY <3>1, <3>2 DEF IInv, HandlersInv, Awaits, Good
    <3>4. RunOf(proj, r) \in Runs /\ RunOf(proj, r).id = r BY GoodRunOf DEF IInv
    <3>5. r \in RunIds BY <3>4 DEF Runs
    <3>6. proj \in Seq(Runs) /\ UniqueIds(proj) BY DEF IInv, Good
    <3>7. Delivers(proj, With(proj, new)) BY <3>3, <3>4, <3>5, <3>6, UpdateDelivers
    <3> QED BY <3>1, <3>7 DEF InTurn
  <2>2. CASE ~Valid(proj, new) BY <2>2, IdleInTurn
  <2> QED BY <2>1, <2>2
<1> QED BY <1>1, <1>2, TurnKept

LEMMA TurnStage ==
    ASSUME IInv, IInv', TurnInv, load.serial, UNCHANGED load, NEW h \in Handlers, Alone(h),
           NEW r \in IdOf(proj), NEW action \in {"tick", "start", "pause", "block", "complete"},
           NEW key \in Keys, NEW step \in Steps \cup {None}, RecordsStage(h, r, action, key, step)
    PROVE  TurnInv'
<1> DEFINE run == RunOf(proj, r)
           new == StageRecorded(run, action, key, step)
<1>1. /\ StageMayBe(run, action, step) /\ \A i \in Stages : ConsistentStage(new.plan[i])
      /\ Continue(h, proj, new) /\ UNCHANGED <<proj, recorded, repeated>>
  BY DEF RecordsStage
<1>2. run \in Runs /\ Sound(run, effects, ledger.ever) BY GoodRunOf DEF IInv
<1>3. action = "complete" => step \in ledger.ever
  BY <1>1 DEF StageMayBe, CompletedStep, IInv, LedgerInv
<1>4. Consistent(new) BY <1>1 DEF Consistent
<1>5. Advances(run, new)
  <2> HIDE DEF run
  <2> QED BY <1>1, <1>2, <1>3, <1>4, StageAdvances
<1> HIDE DEF new
<1> QED BY <1>1, <1>5, TurnContinued

LEMMA TurnJob ==
    ASSUME IInv, IInv', TurnInv, load.serial, UNCHANGED load, NEW h \in Handlers, Alone(h), NEW r,
           \/ \E key \in Keys, ready \in BOOLEAN : CreateWorkerJob(h, r, key, ready)
           \/ \E j : CompleteWorkerJob(h, r, j)
    PROVE  TurnInv'
<1> DEFINE run == RunOf(proj, r)
<1>1. r \in IdOf(proj) /\ UNCHANGED <<proj, recorded, repeated>>
  BY DEF CreateWorkerJob, CompleteWorkerJob, OnCurrentJob
<1>2. run \in Runs BY <1>1, GoodRunOf DEF IInv
<1>3. \E new : Advances(run, new) /\ Continue(h, proj, new)
  <2>1. CASE \E key \in Keys, ready \in BOOLEAN : CreateWorkerJob(h, r, key, ready)
    <3>1. \E jobs, status : Continue(h, proj, [run EXCEPT !.jobs = jobs, !.status = status])
      BY <2>1 DEF CreateWorkerJob
    <3> QED BY <1>2, <3>1, JobAdvances
  <2>2. CASE \E j : CompleteWorkerJob(h, r, j)
    <3>1. \E j, job : Continue(h, proj, WithJob(run, j, job)) BY <2>2 DEF CompleteWorkerJob
    <3> QED BY <1>2, <3>1, JobAdvances
  <2> QED BY <2>1, <2>2
<1> QED BY <1>1, <1>3, TurnContinued

LEMMA TurnRefusal ==
    ASSUME IInv, IInv', TurnInv, load.serial, UNCHANGED load, NEW h \in Handlers, Alone(h), NEW r,
           NEW action \in Mutations, NEW key \in Keys, NEW approved, NEW complete,
           NEW url \in BOOLEAN, RecordPullRequestRefusal(h, r, action, key, approved, complete, url)
    PROVE  TurnInv'
<1> DEFINE run == RunOf(proj, r)
           may == IF approved THEN MayMutate(run, action, complete)
                              ELSE MayDryRun(run, action, complete)
           record == [action |-> action, key |-> key, url |-> url,
                      status |-> IF may THEN "dry_run_ready" ELSE "blocked"]
<1>1. /\ r \in IdOf(proj) /\ Continue(h, proj, WithRecord(run, record))
      /\ UNCHANGED <<proj, recorded, repeated>>
  BY DEF RecordPullRequestRefusal
<1>2. run \in Runs /\ Sound(run, effects, ledger.ever) BY <1>1, GoodRunOf DEF IInv
<1> HIDE DEF may
<1>3. record \in PrRecords /\ record.status # "applied" BY DEF PrRecords
<1> HIDE DEF record
<1>4. Advances(run, WithRecord(run, record))
  <2> HIDE DEF run
  <2> QED BY <1>2, <1>3, RecordAdvances
<1> QED BY <1>1, <1>4, TurnContinued

\* What gh may be asked for in turn has not been recorded.
LEMMA TurnMutate ==
    ASSUME IInv, TurnInv, load.serial, UNCHANGED load, NEW h \in Handlers, Alone(h), NEW r,
           NEW action \in Mutations, NEW key \in Keys, MutatePullRequest(h, r, action, key)
    PROVE  TurnInv'
<1> DEFINE p == [phase |-> "mutating", run |-> r, action |-> action, key |-> key, snap |-> proj]
           run == RunOf(proj, r)
<1>1. p.phase = "mutating" /\ p.snap = proj OBVIOUS
<1>2. /\ handler' = [handler EXCEPT ![h] = p]
      /\ r \in IdOf(proj) /\ MayMutate(run, action, TRUE) /\ UNCHANGED <<proj, recorded>>
      /\ repeated' = IF <<r, action>> \in recorded THEN repeated \cup {<<r, action>>} ELSE repeated
  BY DEF MutatePullRequest
<1> HIDE DEF p
<1>3. <<r, action>> \notin recorded
  <2>1. proj \in Seq(Runs) /\ UniqueIds(proj) /\ recorded = RecordedIn(proj)
    BY DEF IInv, Good, TurnInv
  <2>2. Sound(run, effects, ledger.ever) BY <1>2, GoodRunOf DEF IInv
  <2>3. action # "update_pr_body" => ~HasApplied(run, action)
    BY <1>2, <2>2, MayMutateIsFirst DEF HasApplied, IsApplied
  <2>4. CASE action = "update_pr_body" BY <2>1, <2>4, RecordedKinds
  <2>5. CASE action \in {"open_pr", "merge_pr"} BY <2>1, <2>3, <2>5, RecordedMutation
  <2> QED BY <2>4, <2>5 DEF Mutations
<1>4. InTurn(p, proj) BY <1>1 DEF InTurn
<1> QED BY <1>2, <1>3, <1>4, TurnKept

LEMMA TurnCreate ==
    ASSUME IInv, TurnInv, load.serial, UNCHANGED load, NEW h \in Handlers, Alone(h), NEW r,
           NEW f, NEW b \in BOOLEAN, CreateRun(h, r, f, b)
    PROVE  TurnInv'
<1> DEFINE p == [phase |-> "preparing", run |-> r, folder |-> f, approved |-> b, snap |-> proj]
<1>1. p.phase = "preparing" /\ p.folder = f /\ p.approved = b /\ p.snap = proj OBVIOUS
<1>2. handler' = [handler EXCEPT ![h] = p] BY DEF CreateRun
<1> HIDE DEF p
<1>3. InTurn(p, proj) BY <1>1 DEF InTurn, CreateRun
<1> QED BY <1>2, <1>3, TurnKept DEF CreateRun

LEMMA TurnEnqueue ==
    ASSUME IInv, TurnInv, load.serial, UNCHANGED load, NEW h \in Handlers, Alone(h), NEW r,
           NEW op, NEW j, Enqueue(h, op, r, j)
    PROVE  TurnInv'
<1> DEFINE p == [phase |-> "queued", op |-> op, run |-> r, job |-> j]
<1>1. handler' = [handler EXCEPT ![h] = p] BY DEF Enqueue
<1>2. InTurn(p, proj) BY DEF InTurn
<1> HIDE DEF p
<1> QED BY <1>1, <1>2, TurnKept DEF Enqueue

\* The issues of a folder that may be created in turn have not been recorded.
LEMMA IssuesAreNew ==
    ASSUME IInv, TurnInv, load.serial, NEW h \in Handlers, handler[h].phase = "preparing",
           handler[h].approved
    PROVE  <<handler[h].folder, "issues">> \notin recorded
<1>1. CanCreateIssues(proj, handler[h].folder) /\ recorded = RecordedIn(proj)
  BY DEF TurnInv, InTurn
<1>2. proj \in Seq(Runs) /\ UniqueIds(proj) BY DEF IInv, Good
<1> QED BY <1>1, <1>2, RecordedIssues DEF CanCreateIssues

LEMMA TurnPrepare ==
    ASSUME IInv, IInv', TurnInv, load.serial, UNCHANGED load, NEW h \in Handlers, Alone(h),
           NEW c \in BOOLEAN, PrepareWorkspace(h, c)
    PROVE  TurnInv'
<1> DEFINE q == handler[h]
           issues == q.approved /\ c
           run == NewRun(q.run, q.folder, c, issues)
           out == With(Append(proj, run), run)
<1>1. /\ q.phase = "preparing" /\ Continue(h, Append(q.snap, run), run)
      /\ IF issues THEN Asks(<<q.folder, "issues">>, TRUE) ELSE UNCHANGED <<effects, repeated>>
      /\ UNCHANGED <<proj, recorded>>
  BY DEF PrepareWorkspace
<1>2. q.snap = proj BY <1>1 DEF TurnInv, InTurn
<1>3. /\ q.run \in RunIds /\ q.run \notin IdOf(proj) /\ q.folder \in Folders
      /\ q.approved \in BOOLEAN
  BY <1>1, <1>2 DEF IInv, HandlersInv, Awaits
<1>4. repeated' = repeated BY <1>1, IssuesAreNew DEF Asks
<1>5. issues => <<q.folder, "issues">> \in effects' BY <1>1 DEF Asks
<1>6. run \in Runs BY <1>3, <1>5, NewRunIsSound
<1>7. proj \in Seq(Runs) /\ UniqueIds(proj) BY DEF IInv, Good
<1> DEFINE p == IF Valid(Append(proj, run), run) THEN [phase |-> "syncing", out |-> out] ELSE Idle
<1>8. handler' = [handler EXCEPT ![h] = p] BY <1>1, <1>2 DEF Continue
<1>9. InTurn(p, proj)
  <2>1. CASE Valid(Append(proj, run), run)
    <3>1. p.phase = "syncing" /\ p.out = out BY <2>1
    <3>2. handler'[h] = p BY <1>8 DEF IInv, HandlersInv
    <3>5. handler'[h].phase = "syncing" /\ handler'[h].out = out BY <3>1, <3>2
    <3>3. out \in Seq(Runs)
      <4> HIDE DEF out
      <4> QED BY <3>5 DEF IInv, HandlersInv, Awaits, Good
    <3>4. Delivers(proj, out)
      <4> HIDE DEF q, issues
      <4> QED BY <1>3, <1>6, <1>7, <3>3, CreationDelivers
    <3> QED BY <3>1, <3>4 DEF InTurn
  <2>2. CASE ~Valid(Append(proj, run), run) BY <2>2, IdleInTurn
  <2> QED BY <2>1, <2>2
<1> HIDE DEF p
<1> QED BY <1>1, <1>4, <1>8, <1>9, TurnKept

LEMMA TurnEnds ==
    ASSUME IInv, TurnInv, load.serial, UNCHANGED load, NEW h \in Handlers, Alone(h),
           SyncFails(h) \/ PrepareFails(h) \/ LeaveQueue(h) \/ MutationFails(h)
    PROVE  TurnInv'
<1>1. handler' = [handler EXCEPT ![h] = Idle] /\ UNCHANGED <<proj, recorded>>
  BY DEF SyncFails, PrepareFails, LeaveQueue, MutationFails
<1>2. repeated' = repeated
  BY IssuesAreNew DEF SyncFails, PrepareFails, LeaveQueue, MutationFails, Asks
<1> QED BY <1>1, <1>2, IdleInTurn, TurnKept

LEMMA TurnSave ==
    ASSUME IInv, TurnInv, load.serial, UNCHANGED load, NEW h \in Handlers, Alone(h), Save(h)
    PROVE  TurnInv' /\ Delivers(proj, proj')
<1>1. /\ handler' = [handler EXCEPT ![h] = Idle] /\ proj' = handler[h].out
      /\ recorded' = recorded \cup RecordedIn(proj') /\ repeated' = repeated
  BY DEF Save
<1>2. Delivers(proj, proj') BY <1>1 DEF TurnInv, InTurn, Save
<1>3. RecordedIn(proj) \subseteq RecordedIn(proj') BY <1>2 DEF Delivers
<1>4. recorded' = RecordedIn(proj') BY <1>1, <1>3 DEF TurnInv
<1>5. \A g \in Handlers : handler'[g] = IF g = h THEN Idle ELSE handler[g]
  BY <1>1 DEF IInv, HandlersInv
<1>6. ASSUME NEW g \in Handlers PROVE IsIdle(g)' /\ handler'[g] = Idle
  <2>1. g # h => handler[g] = Idle BY DEF Alone, IsIdle, IInv, HandlersInv, Awaits
  <2>2. handler'[g] = Idle BY <1>5, <2>1
  <2> QED BY <2>2 DEF IsIdle, Idle
<1> QED BY <1>1, <1>2, <1>4, <1>6, IdleInTurn DEF TurnInv

LEMMA TurnWorker ==
    ASSUME IInv, IInv', TurnInv, load.serial, UNCHANGED load, NEW h \in Handlers, Alone(h),
           \/ \E rep, v : ImportWorkerLedger(h, rep, v) \/ WorkerReports(h, rep, v)
           \/ \E b \in BOOLEAN : RunWorkerJob(h, b)
           \/ \E missing : WorkerFails(h, missing)
    PROVE  TurnInv'
<1> DEFINE r == handler[h].run
<1>1. UNCHANGED <<proj, recorded, repeated>>
  BY DEF ImportWorkerLedger, WorkerReports, ImportsLedger, RunWorkerJob, WorkerFails
<1>2. handler[h].phase = "executing" =>
         handler[h].snap = proj /\ r \in IdOf(proj)
  BY DEF TurnInv, InTurn, IInv, HandlersInv, Awaits
<1>3. \/ \E j, job : r \in IdOf(proj) /\ Continue(h, proj, WithJob(RunOf(proj, r), j, job))
      \/ \E p : handler' = [handler EXCEPT ![h] = p] /\ InTurn(p, proj)
  <2>1. CASE \E rep, v : ImportWorkerLedger(h, rep, v)
    BY <2>1 DEF ImportWorkerLedger, ImportsLedger, OnCurrentJob
  <2>2. CASE \E rep, v : WorkerReports(h, rep, v)
    BY <2>2, IdleInTurn DEF WorkerReports, ImportsLedger
  <2>3. ASSUME NEW b \in BOOLEAN, RunWorkerJob(h, b) PROVE <1>3
    <3>1. CASE b
      <4> DEFINE p == [phase |-> "executing", run |-> r, job |-> handler[h].job, snap |-> proj]
      <4>1. handler' = [handler EXCEPT ![h] = p] BY <2>3, <3>1 DEF RunWorkerJob
      <4>2. InTurn(p, proj) BY DEF InTurn
      <4> QED BY <4>1, <4>2
    <3>2. CASE ~b BY <2>3, <3>2 DEF RunWorkerJob, OnCurrentJob
    <3> QED BY <3>1, <3>2
  <2>4. CASE \E missing : WorkerFails(h, missing) BY <1>2, <2>4 DEF WorkerFails
  <2> QED BY <2>1, <2>2, <2>3, <2>4
<1>4. CASE \E p : handler' = [handler EXCEPT ![h] = p] /\ InTurn(p, proj)
  BY <1>1, <1>4, TurnKept
<1>5. CASE \E j, job : r \in IdOf(proj) /\ Continue(h, proj, WithJob(RunOf(proj, r), j, job))
  <2>1. RunOf(proj, r) \in Runs BY <1>5, GoodRunOf DEF IInv
  <2>2. \E new : Advances(RunOf(proj, r), new) /\ Continue(h, proj, new)
    BY <1>5, <2>1, JobAdvances
  <2> QED BY <1>1, <1>5, <2>2, TurnContinued
<1> QED BY <1>3, <1>4, <1>5

LEMMA TurnApplied ==
    ASSUME IInv, IInv', TurnInv, load.serial, UNCHANGED load, NEW h \in Handlers, Alone(h),
           MutationApplied(h)
    PROVE  TurnInv'
<1> DEFINE q == handler[h]
           run == RunOf(proj, q.run)
           record == [action |-> q.action, key |-> q.key, status |-> "applied", url |-> TRUE]
<1>1. /\ q.phase = "mutating" /\ Continue(h, q.snap, WithRecord(RunOf(q.snap, q.run), record))
      /\ UNCHANGED <<proj, recorded, repeated>>
  BY DEF MutationApplied
<1>2. q.snap = proj BY <1>1 DEF TurnInv, InTurn
<1>3. /\ q.run \in IdOf(proj) /\ q.action \in Mutations /\ q.key \in Keys
      /\ MayMutate(run, q.action, TRUE)
  BY <1>1, <1>2 DEF IInv, HandlersInv, Awaits
<1>4. run \in Runs /\ Sound(run, effects, ledger.ever) BY <1>3, GoodRunOf DEF IInv
<1>5. Continue(h, proj, WithRecord(run, record)) BY <1>1, <1>2
<1>6. record \in PrRecords /\ record.action = q.action BY <1>3 DEF PrRecords
<1> HIDE DEF record
<1>7. Advances(run, WithRecord(run, record))
  <2> HIDE DEF run, q
  <2> QED BY <1>3, <1>4, <1>6, RecordAdvances
<1> QED BY <1>1, <1>3, <1>5, <1>7, TurnContinued

LEMMA RequestAlone ==
    ASSUME load.serial, NEW h \in Handlers, Request(h)
    PROVE  Alone(h)
BY DEF Request, Alone

LEMMA AnswerAlone ==
    ASSUME TurnInv, load.serial, NEW h \in Handlers, Answer(h)
    PROVE  Alone(h)
<1>1. ~IsIdle(h)
  BY DEF Answer, IsIdle, Save, SyncFails, PrepareWorkspace, PrepareFails, ImportWorkerLedger,
         WorkerReports, RunWorkerJob, LeaveQueue, HasTurn, WorkerFails, MutationApplied, MutationFails
<1> QED BY <1>1 DEF TurnInv, Alone

LEMMA RequestInTurn ==
    ASSUME IInv, IInv', TurnInv, load.serial, UNCHANGED load, NEW h \in Handlers, Request(h)
    PROVE  TurnInv' /\ UNCHANGED proj
<1>1. PICK r \in load.runs :
       \/ \E f \in Folders, b \in BOOLEAN : CreateRun(h, r, f, b)
       \/ WorkerRequest(h, r)
       \/ \E k \in load.keys : \/ StageRequest(h, r, k) \/ JobRequest(h, r, k)
                               \/ AdvanceRequest(h, r, k) \/ PullRequestRefusal(h, r, k)
                               \/ \E m \in Mutations : MutatePullRequest(h, r, m, k)
  BY DEF Request
<1>2. /\ r \in RunIds /\ load.keys \subseteq Keys /\ Alone(h)
      /\ load.actions \subseteq {"tick", "start", "pause", "block"}
  BY WorkloadTypes, RequestAlone DEF IInv
<1>3. ASSUME NEW f \in Folders, NEW b \in BOOLEAN, CreateRun(h, r, f, b) PROVE TurnInv' /\ UNCHANGED proj
  BY <1>2, <1>3, TurnCreate DEF CreateRun
<1>4. CASE WorkerRequest(h, r)
  <2>1. PICK j \in JobIndexes, op \in {"import", "run"} : Enqueue(h, op, r, j)
    BY <1>4 DEF WorkerRequest
  <2>2. UNCHANGED proj BY <2>1 DEF Enqueue
  <2> QED BY <1>2, <2>1, <2>2, TurnEnqueue
<1>5. ASSUME NEW k \in load.keys, StageRequest(h, r, k) PROVE TurnInv' /\ UNCHANGED proj
  <2>1. PICK a \in {"tick", "start", "pause", "block", "complete"}, s \in Steps \cup {None} :
           RecordStage(h, r, a, k, s)
    BY <1>2, <1>5 DEF StageRequest, IInv, LedgerInv
  <2>2. r \in IdOf(proj) /\ RecordsStage(h, r, a, k, s) BY <2>1 DEF RecordStage
  <2>3. UNCHANGED proj BY <2>2 DEF RecordsStage
  <2> QED BY <1>2, <2>2, <2>3, TurnStage
<1>6. ASSUME NEW k \in load.keys, JobRequest(h, r, k) PROVE TurnInv' /\ UNCHANGED proj
  <2>1. \/ \E key \in Keys, ready \in BOOLEAN : CreateWorkerJob(h, r, key, ready)
        \/ \E j : CompleteWorkerJob(h, r, j)
    BY <1>2, <1>6 DEF JobRequest
  <2>2. UNCHANGED proj BY <2>1 DEF CreateWorkerJob, CompleteWorkerJob
  <2> QED BY <1>2, <2>1, <2>2, TurnJob
<1>7. ASSUME NEW k \in load.keys, AdvanceRequest(h, r, k) PROVE TurnInv' /\ UNCHANGED proj
  <2>1. PICK j \in JobIndexes : AdvanceWorkerStage(h, r, j, k) BY <1>7 DEF AdvanceRequest
  <2>2. r \in IdOf(proj) /\ RecordsStage(h, r, "complete", k, PlannedStep(r, RunOf(proj, r).current))
    BY <2>1 DEF AdvanceWorkerStage
  <2>3. RunOf(proj, r) \in Runs BY <2>2, GoodRunOf DEF IInv
  <2>4. PlannedStep(r, RunOf(proj, r).current) \in Steps
    BY <1>2, <2>3 DEF Runs, PlannedStep, Steps
  <2>5. UNCHANGED proj BY <2>2 DEF RecordsStage
  <2> QED BY <1>2, <2>2, <2>4, <2>5, TurnStage
<1>8. ASSUME NEW k \in load.keys, PullRequestRefusal(h, r, k) PROVE TurnInv' /\ UNCHANGED proj
  <2>1. PICK m \in Mutations, approved \in BOOLEAN, complete \in BOOLEAN, url \in BOOLEAN :
           RecordPullRequestRefusal(h, r, m, k, approved, complete, url)
    BY <1>8 DEF PullRequestRefusal
  <2>2. UNCHANGED proj BY <2>1 DEF RecordPullRequestRefusal
  <2> QED BY <1>2, <2>1, <2>2, TurnRefusal
<1>9. ASSUME NEW k \in load.keys, NEW m \in Mutations, MutatePullRequest(h, r, m, k)
      PROVE  TurnInv' /\ UNCHANGED proj
  BY <1>2, <1>9, TurnMutate DEF MutatePullRequest
<1> QED BY <1>1, <1>3, <1>4, <1>5, <1>6, <1>7, <1>8, <1>9

LEMMA AnswerInTurn ==
    ASSUME IInv, IInv', TurnInv, load.serial, UNCHANGED load, NEW h \in Handlers, Answer(h)
    PROVE  TurnInv' /\ (UNCHANGED proj \/ Delivers(proj, proj'))
<1>1. Alone(h) BY AnswerAlone
<1>2. ASSUME NEW b \in Remotes, PrepareWorkspace(h, b) PROVE TurnInv' /\ UNCHANGED proj
  <2>1. b \in BOOLEAN BY DEF Remotes
  <2>2. UNCHANGED proj BY <1>2 DEF PrepareWorkspace
  <2> QED BY <1>1, <1>2, <2>1, <2>2, TurnPrepare
<1>3. CASE SyncFails(h) \/ PrepareFails(h) \/ LeaveQueue(h) \/ MutationFails(h)
  BY <1>1, <1>3, TurnEnds DEF SyncFails, PrepareFails, LeaveQueue, MutationFails
<1>4. CASE Save(h) BY <1>1, <1>4, TurnSave
<1>5. CASE MutationApplied(h) BY <1>1, <1>5, TurnApplied DEF MutationApplied
<1>6. CASE \/ \E rep, v : ImportWorkerLedger(h, rep, v) \/ WorkerReports(h, rep, v)
           \/ \E b \in BOOLEAN : RunWorkerJob(h, b)
           \/ \E missing : WorkerFails(h, missing)
  <2>1. UNCHANGED proj
    BY <1>6 DEF ImportWorkerLedger, WorkerReports, ImportsLedger, RunWorkerJob, WorkerFails
  <2> QED BY <1>1, <1>6, <2>1, TurnWorker
<1> QED BY <1>2, <1>3, <1>4, <1>5, <1>6 DEF Answer

LEMMA NextInTurn ==
    ASSUME IInv, IInv', TurnInv, load.serial, [Next]_vars
    PROVE  TurnInv' /\ UNCHANGED load /\ (UNCHANGED proj \/ Delivers(proj, proj'))
<1>1. CASE UNCHANGED vars BY <1>1 DEF vars, TurnInv, IsIdle
<1>2. ASSUME UNCHANGED load, NEW h \in Handlers, Request(h) \/ Answer(h)
      PROVE  TurnInv' /\ (UNCHANGED proj \/ Delivers(proj, proj'))
  BY <1>2, RequestInTurn, AnswerInTurn
<1>3. ASSUME UNCHANGED load, LedgerCommand PROVE TurnInv' /\ UNCHANGED proj
  <2>1. UNCHANGED <<proj, handler, recorded, repeated>>
    BY <1>3 DEF LedgerCommand, RecordLedgerStep
  <2> QED BY <1>3, <2>1 DEF TurnInv, IsIdle
<1>4. ASSUME UNCHANGED load, Crash PROVE TurnInv' /\ UNCHANGED proj
  <2>1. handler' = [h \in Handlers |-> Idle] /\ UNCHANGED <<proj, recorded, repeated>>
    BY <1>4 DEF Crash
  <2>2. \A h \in Handlers : IsIdle(h)' /\ handler'[h] = Idle BY <2>1 DEF IsIdle, Idle
  <2> QED BY <1>4, <2>1, <2>2, IdleInTurn DEF TurnInv
<1> QED BY <1>1, <1>2, <1>3, <1>4 DEF Next, vars

LEMMA TurnInitial == Init => TurnInv
<1> SUFFICES ASSUME Init PROVE TurnInv OBVIOUS
<1>1. \A h \in Handlers : IsIdle(h) /\ handler[h] = Idle BY DEF Init, IsIdle, Idle
<1>2. RecordedIn(<<>>) = {} BY DEF RecordedIn
<1> QED BY <1>1, <1>2, IdleInTurn DEF Init, TurnInv

LEMMA TurnInvariance == Spec => []TurnInv
<1>1. IInv /\ IInv' /\ TurnInv /\ [Next]_vars => TurnInv'
  <2> SUFFICES ASSUME IInv, IInv', TurnInv, [Next]_vars PROVE TurnInv' OBVIOUS
  <2>1. CASE load.serial BY <2>1, NextInTurn
  <2>2. CASE ~load.serial
    <3>1. load' = load BY DEF Next, vars
    <3> QED BY <2>2, <3>1 DEF TurnInv
  <2> QED BY <2>1, <2>2
<1> QED BY <1>1, TurnInitial, Invariance, PTL DEF Spec

-----------------------------------------------------------------------------
(* Theorems                                                                *)

\* Requests that come one at a time never ask gh again for what is recorded, for any
\* number of runs, folders, keys and stages, and wherever the process stopped before.
THEOREM AskedOnce == Spec => []AskedOnceInTurn
<1>1. TurnInv => AskedOnceInTurn BY DEF TurnInv, AskedOnceInTurn
<1> QED BY <1>1, TurnInvariance, PTL

LEMMA MappedValues ==
    /\ load.serial =>
          /\ [r \in RunIds |-> Reached(r)] = ReachedIn(proj)
          /\ Counted({r \in RunIds : r \in IdOf(proj)}) = KnownIn(proj)
          /\ Counted({r \in RunIds : <<r, "open_pr">> \in RecordedIn(proj)}) = RecordedAs(proj, "open_pr")
          /\ Counted({r \in RunIds : <<r, "merge_pr">> \in RecordedIn(proj)}) = RecordedAs(proj, "merge_pr")
    /\ ~load.serial =>
          /\ [r \in RunIds |-> Reached(r)] = [r \in RunIds |-> 0]
          /\ \A S : Counted(S) = {}
BY DEF Reached, Counted, ReachedIn, KnownIn, RecordedAs, Completed

LEMMA InitDelivers == Init => Delivery!Init
<1> SUFFICES ASSUME Init PROVE Delivery!Init OBVIOUS
<1>1. IdOf(proj) = {} /\ RecordedIn(proj) = {} BY DEF Init, IdOf, RecordedIn
<1> QED BY <1>1 DEF Delivery!Init, Reached, Counted

LEMMA StepDelivers == IInv /\ IInv' /\ TurnInv /\ [Next]_vars => [Delivery!Next]_Delivery!vars
<1> SUFFICES ASSUME IInv, IInv', TurnInv, [Next]_vars PROVE [Delivery!Next]_Delivery!vars OBVIOUS
<1>1. load' = load BY DEF Next, vars
<1>2. CASE ~load.serial
  BY <1>1, <1>2 DEF Delivery!vars, Reached, Counted
<1>3. CASE load.serial /\ UNCHANGED proj
  BY <1>1, <1>3 DEF Delivery!vars, Reached, Counted
<1>4. CASE load.serial /\ Delivers(proj, proj')
  <2>1. /\ [r \in RunIds |-> Reached(r)] = ReachedIn(proj)
        /\ Counted({r \in RunIds : r \in IdOf(proj)}) = KnownIn(proj)
        /\ Counted({r \in RunIds : <<r, "open_pr">> \in RecordedIn(proj)}) = RecordedAs(proj, "open_pr")
        /\ Counted({r \in RunIds : <<r, "merge_pr">> \in RecordedIn(proj)}) = RecordedAs(proj, "merge_pr")
    BY <1>4, MappedValues
  <2>2. /\ [r \in RunIds |-> Reached(r)]' = ReachedIn(proj')
        /\ Counted({r \in RunIds : r \in IdOf(proj)})' = KnownIn(proj')
        /\ Counted({r \in RunIds : <<r, "open_pr">> \in RecordedIn(proj)})' = RecordedAs(proj', "open_pr")
        /\ Counted({r \in RunIds : <<r, "merge_pr">> \in RecordedIn(proj)})' = RecordedAs(proj', "merge_pr")
    BY <1>1, <1>4 DEF Reached, Counted, ReachedIn, KnownIn, RecordedAs, Completed
  <2> QED BY <1>4, <2>1, <2>2
      DEF Delivers, Delivery!Next, Delivery!vars, Delivery!Create, Delivery!Open, Delivery!Merge,
          Delivery!Complete
<1> QED BY <1>2, <1>3, <1>4, NextInTurn

\* One request at a time, runs are delivered as DeliveryRun says: stages complete one
\* after the other, open after the first, merge before the last, nothing is lost.
THEOREM DeliveredInOrder == Spec => DeliversRuns
BY InitDelivers, StepDelivers, Invariance, TurnInvariance, PTL
   DEF Spec, DeliversRuns, Delivery!Spec
=============================================================================
