--------------------------- MODULE ExecutionAuthority ---------------------------
(***************************************************************************)
(* The records of execution authority, and the requests that act under     *)
(* them: a diff applied to the workspace, a shell command, a page opened   *)
(* in a browser.  A request reads its record, then, for a page, the        *)
(* permission in force, then lets the adapter act, and last writes the     *)
(* outcome to the record.  Between these steps other requests run, and no  *)
(* record is ever marked as running.                                       *)
(*                                                                         *)
(* All diffs touch the same lines of the same files: a file takes one only *)
(* while it holds its base.                                                *)
(***************************************************************************)
EXTENDS ServicePagePermission

CONSTANTS
    Records,        \* ids of authority records
    Hashes,         \* previews of actions, by their hash
    Handlers,       \* requests under way at once
    FileCount,      \* files of a diff, in its order
    Workloads,      \* what the users of a session do
    None

Classes    == {"file_diff", "shell_command", "browser_action", "external_mutation_preview_only"}
Executable == Classes \ {"external_mutation_preview_only"}
Results    == {"not_run", "blocked", "completed", "failed", "partial"}

Files == 1 .. FileCount
\* A command or a page is a single part, 0.
Parts == 0 .. FileCount

Scopes == (PermissionIds \X PageActions) \cup {None}

Payloads ==
    [class : Classes, hash : Hashes, page : Scopes,
     reviewed : BOOLEAN, approved : BOOLEAN, rollback : BOOLEAN, sandboxed : BOOLEAN]

Absent == [result |-> "absent"]

Rows == [payload : Payloads, result : Results]

\* hash is the preview a request names, body the one of what it brings.
Asks == [class : Executable, hash : Hashes, body : Hashes, page : Scopes, expired : BOOLEAN]

\* A workload: the records made, from which payloads, the requests sent, the permissions
\* granted.  serial: one request after the other.  crashes: the process may stop.
ASSUME AuthorityAssumption ==
    /\ FileCount \in Nat \ {0}
    /\ None \notin PermissionIds \X PageActions
    /\ Hashes \cap {"base", "torn"} = {}
    /\ \A w \in Workloads :
          /\ w.records \subseteq Records /\ w.payloads \subseteq Payloads /\ w.asks \subseteq Asks
          /\ w.grants \subseteq PermissionPayloads /\ {w.serial, w.crashes} \subseteq BOOLEAN

VARIABLES
    load,       \* the workload of this session
    authority,  \* the authority records
    content,    \* of each file: its base, torn by a write that has not ended, or a diff
    requests,   \* the requests under way
    touched     \* observation: per record, the parts begun and with which body

vars == <<load, authority, content, requests, touched, pageVars>>

Steps ==
    {"idle", "reading", "checking", "starting", "targets", "opening", "writing", "acting", "recording"}

NoAsk == [class |-> None, hash |-> None, body |-> None, page |-> None, expired |-> FALSE]

\* late and barred are observations: when the request came, its record had a result,
\* or was scoped to a page permission that was not in force.
Idle ==
    [pc |-> "idle", record |-> None, ask |-> NoAsk, at |-> 0, outcome |-> "not_run",
     late |-> FALSE, barred |-> FALSE]

Init ==
    /\ load \in Workloads
    /\ authority = [r \in Records |-> Absent]
    /\ content = [f \in Files |-> "base"]
    /\ requests = [q \in Handlers |-> Idle]
    /\ touched = [r \in Records |-> {}]
    /\ PagesInit

-----------------------------------------------------------------------------
(* Records and permissions *)

\* Slip: a record that waits for its approval has a result of its own.
IssuedPending(p) ==
    IF ~p.approved THEN "pending"
    ELSE IF p.reviewed /\ p.sandboxed /\ (p.class \in Executable => p.rollback) THEN "not_run" ELSE "blocked"

\* executionAuthorityBlockReasons: with any reason the record is blocked from its creation.
Issued(p) ==
    IF /\ p.reviewed /\ p.approved /\ p.sandboxed
       /\ p.class \in Executable => p.rollback
    THEN "not_run" ELSE "blocked"

CreateExecutionAuthority(r, p) ==
    /\ authority[r] = Absent
    /\ p.page # None => p.class = "browser_action" /\ p.page[1] <= newest
    /\ authority' = [authority EXCEPT ![r] = [payload |-> p, result |-> Issued(p)]]
    /\ UNCHANGED <<load, content, requests, touched, pageVars>>

ChangePages ==
    /\ \/ \E p \in load.grants : CreateServicePageUsePermission(p)
       \/ \E n \in PermissionIds :
            RevokeServicePageUsePermission(n) \/ DeleteServicePageUsePermissionArtifacts(n)
    /\ UNCHANGED <<load, authority, content, requests, touched>>

-----------------------------------------------------------------------------
(* A request, up to its adapter *)

Becomes(q, request) == requests' = [requests EXCEPT ![q] = request]
Goes(q, pc)         == Becomes(q, [requests[q] EXCEPT !.pc = pc])
At(q, pc)           == requests[q].pc = pc
\* The adapter has ended, or was not reached, and the outcome is to be written.
Concludes(q, outcome) ==
    Becomes(q, [requests[q] EXCEPT !.pc = "recording", !.outcome = outcome, !.ask = NoAsk, !.at = 0])

Exists(r) == authority[r] # Absent
RowOf(q)  == authority[requests[q].record].payload

\* Slip: a partial execution may be taken up again.
SettledButPartial(r) == authority[r].result \in {"blocked", "completed", "failed"}

\* existingExecutionStatus
Settled(r) == authority[r].result \in {"blocked", "completed", "failed", "partial"}

Receive(q, r, ask) ==
    /\ At(q, "idle")
    /\ load.serial => \A other \in Handlers : At(other, "idle")
    /\ Becomes(q, [Idle EXCEPT !.pc = "reading", !.record = r, !.ask = ask,
            !.late = authority[r].result \notin {"absent", "not_run"},
            !.barred = Exists(r) /\ authority[r].payload.page # None
                        /\ ~InForce(authority[r].payload.page[1])])
    /\ UNCHANGED <<load, authority, content, touched, pageVars>>

\* executionAuthorityPreflightBlockReasons, of a record that has not run.
Preflight(p, ask) ==
    /\ p.class = ask.class /\ p.class \in Executable
    /\ p.hash = ask.hash
    /\ p.approved /\ ~ask.expired
    /\ p.rollback

\* The request goes to its adapter or is recorded as blocked.
Decide(q, allowed) == IF allowed THEN Goes(q, "starting") ELSE Concludes(q, "blocked")

\* A record that has a result only has it replayed.
ReadAuthority(q) ==
    LET r == requests[q].record
    IN  /\ At(q, "reading")
        /\ IF ~Exists(r) \/ Settled(r)                        THEN Becomes(q, Idle)
           ELSE IF requests[q].ask.class = "browser_action"   THEN Goes(q, "checking")
           ELSE Decide(q, Preflight(RowOf(q), requests[q].ask))
        /\ UNCHANGED <<load, authority, content, touched, pageVars>>

\* servicePageUsePermissionBrowserActionBlockReasons
PageAllows(p, ask) ==
    /\ ask.page = p.page
    /\ p.page # None => PagePermits(p.page[1], p.page[2])

CheckServicePage(q) ==
    LET ask == requests[q].ask
    IN  /\ At(q, "checking")
        /\ Decide(q, Preflight(RowOf(q), ask) /\ ask.body = ask.hash /\ PageAllows(RowOf(q), ask))
        /\ UNCHANGED <<load, authority, content, touched, pageVars>>

-----------------------------------------------------------------------------
(* The adapters *)

Touches(q, part) ==
    touched' = [touched EXCEPT ![requests[q].record] = @ \cup {<<part, requests[q].ask.body>>}]

\* The workspace, the paths, the command or the target are not what may be used.
Refuse(q) ==
    /\ At(q, "starting")
    /\ Concludes(q, "blocked")
    /\ UNCHANGED <<load, authority, content, touched, pageVars>>

\* Slip: the adapter trusts the hash the request named.
ApprovedByName(q) == requests[q].ask.hash = RowOf(q).hash

\* What the request brings is what was reviewed.
Approved(q) == requests[q].ask.body = RowOf(q).hash

StartFileDiff(q) ==
    /\ At(q, "starting") /\ Approved(q)
    /\ RowOf(q).class = "file_diff"
    /\ Becomes(q, [requests[q] EXCEPT !.pc = "targets", !.at = 1])
    /\ UNCHANGED <<load, authority, content, touched, pageVars>>

\* runShellCommand or runBrowserAction, up to its end or its timeout.
StartAction(q) ==
    /\ At(q, "starting") /\ Approved(q)
    /\ RowOf(q).class \in {"shell_command", "browser_action"}
    /\ Goes(q, "acting")
    /\ Touches(q, 0)
    /\ UNCHANGED <<load, authority, content, pageVars>>

EndAction(q) ==
    /\ At(q, "acting")
    /\ \E outcome \in {"completed", "failed"} : Concludes(q, outcome)
    /\ UNCHANGED <<load, authority, content, touched, pageVars>>

\* Every target is read and patched in memory before the first is written.
ReadTarget(q) ==
    LET f == requests[q].at
    IN  /\ At(q, "targets")
        /\ content[f] = "base"
        /\ IF f < FileCount THEN Becomes(q, [requests[q] EXCEPT !.at = @ + 1])
           ELSE Becomes(q, [requests[q] EXCEPT !.pc = "opening", !.at = 1])
        /\ UNCHANGED <<load, authority, content, touched, pageVars>>

\* The file cannot be read or its lines are not those of the diff.
MismatchTarget(q) ==
    /\ At(q, "targets")
    /\ Concludes(q, "failed")
    /\ UNCHANGED <<load, authority, content, touched, pageVars>>

\* writeFile truncates the file and then writes it.
OpenTarget(q) ==
    /\ At(q, "opening")
    /\ content' = [content EXCEPT ![requests[q].at] = "torn"]
    /\ Goes(q, "writing")
    /\ Touches(q, requests[q].at)
    /\ UNCHANGED <<load, authority, pageVars>>

\* Slip: off by one.
LastTargetEarly(f) == f + 1 >= FileCount

LastTarget(f) == f = FileCount

WriteTarget(q) ==
    LET f == requests[q].at
    IN  /\ At(q, "writing")
        /\ content' = [content EXCEPT ![f] = requests[q].ask.body]
        /\ IF LastTarget(f) THEN Concludes(q, "completed")
           ELSE Becomes(q, [requests[q] EXCEPT !.pc = "opening", !.at = @ + 1])
        /\ UNCHANGED <<load, authority, touched, pageVars>>

\* Slips: the outcome is not partial; it is not recorded.
FailWriteOutright(q) ==
    /\ At(q, "opening") \/ At(q, "writing")
    /\ Concludes(q, "failed")
    /\ UNCHANGED <<load, authority, content, touched, pageVars>>

FailWriteUnrecorded(q) ==
    /\ At(q, "opening") \/ At(q, "writing")
    /\ Becomes(q, Idle)
    /\ UNCHANGED <<load, authority, content, touched, pageVars>>

\* The files written before stay written.
FailWrite(q) ==
    /\ At(q, "opening") \/ At(q, "writing")
    /\ Concludes(q, "partial")
    /\ UNCHANGED <<load, authority, content, touched, pageVars>>

\* updateExecutionOutcome, whatever the record holds by now.
RecordOutcome(q) ==
    /\ At(q, "recording")
    /\ authority' = [authority EXCEPT ![requests[q].record].result = requests[q].outcome]
    /\ Becomes(q, Idle)
    /\ UNCHANGED <<load, content, touched, pageVars>>

-----------------------------------------------------------------------------
\* The process stops: what it was doing is forgotten, what it did is not.
Crash ==
    /\ load.crashes
    /\ \E q \in Handlers : ~At(q, "idle")
    /\ requests' = [q \in Handlers |-> Idle]
    /\ UNCHANGED <<load, authority, content, touched, pageVars>>

Continue(q) ==
    \/ ReadAuthority(q) \/ CheckServicePage(q)
    \/ Refuse(q) \/ StartFileDiff(q) \/ StartAction(q) \/ EndAction(q)
    \/ ReadTarget(q) \/ MismatchTarget(q) \/ OpenTarget(q) \/ WriteTarget(q) \/ FailWrite(q)
    \/ RecordOutcome(q)

Next ==
    \/ \E r \in load.records, p \in load.payloads : CreateExecutionAuthority(r, p)
    \/ ChangePages
    \/ \E q \in Handlers, r \in load.records, ask \in load.asks : Receive(q, r, ask)
    \/ \E q \in Handlers : Continue(q)
    \/ Crash

Spec == Init /\ [][Next]_vars

-----------------------------------------------------------------------------
(* Properties *)

\* The type invariant: what the record table, the workspace and the requests may hold.
TypeOK ==
    /\ load \in Workloads
    /\ authority \in [Records -> Rows \cup {Absent}]
    /\ content \in [Files -> Hashes \cup {"base", "torn"}]
    /\ requests \in [Handlers ->
            [pc : Steps, record : Records \cup {None}, ask : Asks \cup {NoAsk}, at : Parts,
             outcome : Results, late : BOOLEAN, barred : BOOLEAN]]
    /\ touched \in [Records -> SUBSET (Parts \X Hashes)]
    /\ pages \in [PermissionIds -> Permissions] /\ newest \in 0 .. MaxPermissions

\* Nothing is begun that was not reviewed and approved, with a rollback, as an action
\* of the record's class, and what is begun is what was reviewed, not only what the
\* request calls it: executionAuthorityBlockReasons at the creation, the preflight
\* and the adapter each see a part of this, at different times.
ActsAsReviewed ==
    \A r \in Records : \A t \in touched[r] :
        LET p == authority[r].payload
        IN  /\ Exists(r)
            /\ p.reviewed /\ p.approved /\ p.rollback /\ p.sandboxed
            /\ t[2] = p.hash
            /\ IF p.class = "file_diff" THEN t[1] \in Files
               ELSE p.class \in Executable /\ t[1] = 0

Acting(q) == requests[q].pc \in {"targets", "opening", "writing", "acting"}

\* A request that comes after its record has a result never acts, whatever the
\* requests that came before it still write to the record and whatever happened to
\* them: existingExecutionStatus of executeFileDiff, executeShellCommand and
\* executeBrowserAction.
SettledIsNotRepeated == \A q \in Handlers : Acting(q) => ~requests[q].late

\* A request that comes after the permission of its page was revoked or superseded
\* never opens the page, whatever is granted or deleted meanwhile.  (One that came
\* before may: the permission is read once, then the target is resolved.)
RevokedPageIsLeftAlone == \A q \in Handlers : Acting(q) => ~requests[q].barred

\* When requests come one at a time, a diff recorded as completed is in all its files
\* and stays there, even if the process stopped in earlier attempts to apply it or
\* others: applyFileDiff fails on what those left behind.
CompletedIsApplied ==
    load.serial =>
        \A r \in Records :
            (Exists(r) /\ authority[r].payload.class = "file_diff" /\ authority[r].result = "completed")
            => \A f \in Files : content[f] = authority[r].payload.hash

\* While the process runs, what was begun gets a result: as long as the record has none,
\* a request that is to write one is under way.  No error path of an adapter, and no
\* other request, loses it.
BegunIsRecorded ==
    \A r \in Records :
        (~load.crashes /\ touched[r] # {} /\ ~Settled(r)) =>
            \E q \in Handlers : requests[q].record = r /\ (Acting(q) \/ At(q, "recording"))

\* Only the sessions the promise is about: requests one at a time, no crash.
Promised == load.serial /\ ~load.crashes

Authorized == INSTANCE AuthorizedAction WITH
    Wholes <- {Files, {0}},
    result <- [r \in Records |-> IF Promised THEN authority[r].result ELSE "absent"],
    done   <- [r \in Records |-> IF Promised THEN {t[1] : t \in touched[r]} ELSE {}]

\* One at a time and without a crash, the requests use a record once and their
\* outcomes say what was done.
UsedOnceAsRecorded == Authorized!Spec
=============================================================================
